------------------------------ MODULE DmaLayout ------------------------------
(***************************************************************************)
(* The address arithmetic of a DMA memory pool (bf_sys_dma_hugepages.c).   *)
(* Addresses within a pool are offsets from the start of its mapping,      *)
(* which mmap aligns to a huge page.  bf_phys_addr_t has WordSize values,  *)
(* the last of which is BF_INVALID_PHY_ADDR.                               *)
(***************************************************************************)
EXTENDS Integers

CONSTANTS
  PageSize,    \* BF_HUGE_PAGE_SIZE
  HdrSize,     \* POOL_HDR_SIZE
  WordSize     \* 2^64

ASSUME LayoutAssumption ==
  /\ HdrSize \in Nat \ {0} /\ PageSize \in Nat /\ WordSize \in Nat
  /\ (PageSize % HdrSize) = 0
  /\ HdrSize <= PageSize /\ PageSize < WordSize

(* Both sizes are powers of two: of a divisor of a huge page and the size  *)
(* of the header, one divides the other.                                   *)
ASSUME PowersAssumption ==
  \A n \in 1 .. PageSize :
    (PageSize % n) = 0 => (HdrSize % n) = 0 \/ (n % HdrSize) = 0

Invalid == WordSize - 1

(* Two pages at these addresses do not overlap. *)
Apart(a, b) == a + PageSize <= b \/ b + PageSize <= a

(* align & (align - 1) = 0.  That is true of 0 too, which callers do not   *)
(* pass: the size would become 0.                                          *)
IsPowerOf2(align) == \E k \in 0 .. align : align = 2 ^ k

(* A mutant: a value that is aligned already is moved on. *)
NextAligned_Always(val, align) == (val \div align + 1) * align

(* conv_to_next_aligned *)
NextAligned(val, align) ==
  IF val % align = 0 THEN val ELSE (val \div align + 1) * align

AlignToPage(n) == ((n + PageSize - 1) \div PageSize) * PageSize

(* A mutant: the offset is not rounded up to the header size. *)
HeaderOffset_NotRounded(size, cnt) ==
  IF size * cnt + HdrSize > PageSize THEN size ELSE HdrSize

(* A mutant: the buffers always start behind one header. *)
HeaderOffset_Fixed(size, cnt) == HdrSize

(* Where the buffers start: behind the metadata, or, in a pool of several  *)
(* pages, at a multiple of the header size that is at least a buffer.      *)
HeaderOffset(size, cnt) ==
  IF size * cnt + HdrSize > PageSize THEN NextAligned(size, HdrSize) ELSE HdrSize

NumPages(size, cnt) ==
  AlignToPage(size * cnt + HeaderOffset(size, cnt)) \div PageSize

BufferAt(size, cnt, b) == HeaderOffset(size, cnt) + b * size

(* bf_sys_dma_buffer_index *)
IndexOf(size, cnt, v) == (v - HeaderOffset(size, cnt)) \div size

(* A mutant: the page is computed from the first buffer. *)
PhysOf_FromBuffers(dma, size, cnt, v) ==
  (dma[(v - HeaderOffset(size, cnt)) \div PageSize] + (v % PageSize)) % WordSize

(* bf_sys_dma_get_phy_addr_from_pool; dma[i] is the bus address of page i. *)
PhysOf(dma, size, cnt, v) ==
  (dma[v \div PageSize] + (v % PageSize)) % WordSize

(* bf_mem_dma2virt: the first page the address falls into, or none.        *)
VirtsOf(dma, addr) ==
  LET hits == {i \in DOMAIN dma :
                 dma[i] <= addr /\ addr < (dma[i] + PageSize) % WordSize}
  IN  {i * PageSize + (addr - dma[i]) : i \in {j \in hits : \A k \in hits : j <= k}}
=============================================================================
