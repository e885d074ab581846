SPECIFICATION Spec
CONSTANTS
  p1 = p1
  Pools = {p1}
  PageSize = 16
  HdrSize = 4
  WordSize = 4096
  Sizes = {1, 2, 3, 4, 5, 6, 7, 8, 9, 10, 11, 12, 13, 14, 15, 16}
  Counts = {0, 1, 2, 3, 5}
  Aligns = {1, 2, 4}
  Frame <- Frames
  Bus <- BusAddresses
  LateFailures = {"info", "base"}
  PagemapFails = TRUE
CHECK_DEADLOCK FALSE
INVARIANTS
  TypeOK
  HeapIsFreed
  ReadyPoolIsMapped
  BuffersFit
  NoSpillIfSizeDivides
  AddressesLeadBack

  
