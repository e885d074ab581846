----------------------------- MODULE MCDmaPool -----------------------------
(* Instances of DmaPool for TLC.  Huge pages that follow each other in     *)
(* virtual memory lie in falling order, with gaps, in physical memory, and *)
(* the bus has its own addresses.                                          *)
EXTENDS DmaPool

PageBound == 8

Frames == [p \in Pools |-> [i \in 0 .. PageBound |-> 4 * PageSize * (PageBound - i + 1)]]
BusAddresses == [p \in Pools |-> [i \in 0 .. PageBound |-> Frames[p][i] + PageSize]]
=============================================================================
