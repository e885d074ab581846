------------------------------- MODULE DmaPool -------------------------------
(***************************************************************************)
(* The life of DMA memory pools (bf_sys_dma_hugepages.c): creation, which  *)
(* may fail at every resource it takes, allocation and release of buffers, *)
(* destruction, and the registration of the bus mapping functions that     *)
(* creation and destruction call for each huge page.  The free list of a   *)
(* pool is the set that DmaFreeList implements.  The calls that make and   *)
(* destroy one pool come from one thread; those for different pools, and   *)
(* the steps of their creations, interleave.                               *)
(***************************************************************************)
EXTENDS DmaLayout, FiniteSets

CONSTANTS
  Pools,           \* the handles of the application
  Sizes, Counts, Aligns,  \* the arguments it creates pools with
  Frame, Bus,      \* the physical and the bus address of page i of pool p
  LateFailures,    \* what may fail once the huge pages are there: "info", "base"
  PagemapFails     \* bf_mem_virt2phy may fail for a single huge page

ASSUME PoolAssumption ==
  /\ Counts \subseteq Nat
  /\ Sizes \subseteq Nat \ {0}
  /\ \A a \in Aligns : a \in 1 .. HdrSize /\ (HdrSize % a) = 0
  /\ LateFailures \subseteq {"info", "base"}
  /\ PagemapFails \in BOOLEAN

(* The pages of a pool lie apart, in memory and on the bus, and none of    *)
(* them at the end of the address space.                                   *)
ASSUME AddressAssumption ==
  \A p \in Pools, size \in 0 .. PageSize, cnt \in Counts :
    \A i \in 0 .. NumPages(size, cnt) - 1 :
      /\ Frame[p][i] \in Nat /\ Frame[p][i] + PageSize < WordSize
      /\ Bus[p][i] \in Nat /\ Bus[p][i] + PageSize < WordSize
      /\ \A k \in 0 .. NumPages(size, cnt) - 1 : k # i =>
           Apart(Frame[p][i], Frame[p][k]) /\ Apart(Bus[p][i], Bus[p][k])

VARIABLES
  pool,        \* what each handle stands for
  heap,        \* the bf_sys_malloc'ed parts of each pool that are not freed
  region,      \* the pools whose huge pages are mapped into memory
  busMapped,   \* the pages <<p, i>> that the mapping function has mapped
  registered,  \* bf_sys_dma_map_fn and _unmap_fn are set
  aborted      \* the process is gone: a failed assert, or a wild free

vars == <<pool, heap, region, busMapped, registered, aborted>>

NoMap  == [i \in {} |-> 0]
NoPool == [step |-> "none", size |-> 0, cnt |-> 0, align |-> 1,
           dma |-> NoMap, free |-> {}, out |-> NoMap]

Steps == {"none", "struct", "queue", "pages", "info", "map", "base", "ready"}
Parts == {"struct", "queue", "info"}

PagesOf(p) == 0 .. NumPages(pool[p].size, pool[p].cnt) - 1
BufsOf(p)  == 0 .. pool[p].cnt - 1
VirtOf(p, b) == BufferAt(pool[p].size, pool[p].cnt, b)

Init ==
  /\ pool = [p \in Pools |-> NoPool]
  /\ heap = {} /\ region = {} /\ busMapped = {}
  /\ registered = FALSE
  /\ aborted = FALSE

Goto(p, from, to) ==
  /\ ~aborted
  /\ pool[p].step = from
  /\ pool' = [pool EXCEPT ![p].step = to]

(* The handle stands for nothing, any more or still. *)
Drop(p, from) ==
  /\ ~aborted
  /\ pool[p].step = from
  /\ pool' = [pool EXCEPT ![p] = NoPool]

-----------------------------------------------------------------------------
(* bf_sys_dma_map_fn_register, which the application calls before it makes *)
(* pools.                                                                  *)
Register ==
  /\ ~aborted
  /\ \A p \in Pools : pool[p].step = "none"
  /\ registered' = TRUE
  /\ UNCHANGED <<pool, heap, region, busMapped, aborted>>

-----------------------------------------------------------------------------
(* bf_sys_dma_pool_create *)

CreateCall(p, size, cnt, align) ==
  /\ ~aborted
  /\ pool[p].step = "none"
  /\ IsPowerOf2(align)
  /\ size <= PageSize
  /\ pool' = [pool EXCEPT ![p] =
                [NoPool EXCEPT !.step = "struct",
                               !.size = NextAligned(size, align),
                               !.cnt = cnt, !.align = align]]
  /\ UNCHANGED <<heap, region, busMapped, registered, aborted>>

AllocStruct(p) ==
  /\ \/ Goto(p, "struct", "queue") /\ heap' = heap \cup {<<p, "struct">>}
     \/ Drop(p, "struct") /\ UNCHANGED heap
  /\ UNCHANGED <<region, busMapped, registered, aborted>>

AllocQueue(p) ==
  /\ \/ Goto(p, "queue", "pages") /\ heap' = heap \cup {<<p, "queue">>}
     \/ Drop(p, "queue") /\ heap' = heap \ {<<p, "struct">>}
  /\ UNCHANGED <<region, busMapped, registered, aborted>>

(* A mutant: the queue is forgotten when there are no huge pages. *)
AllocPages_LeaksQueue(p) ==
  /\ \/ Goto(p, "pages", "info") /\ region' = region \cup {p} /\ UNCHANGED heap
     \/ Drop(p, "pages") /\ heap' = heap \ {<<p, "struct">>} /\ UNCHANGED region
  /\ UNCHANGED <<busMapped, registered, aborted>>

(* Huge pages that an earlier creation left behind are not there to give.  *)
AllocPages(p) ==
  /\ \/ /\ Goto(p, "pages", "info")
        /\ p \notin region
        /\ region' = region \cup {p}
        /\ UNCHANGED heap
     \/ /\ Drop(p, "pages")
        /\ heap' = heap \ {<<p, "struct">>, <<p, "queue">>}
        /\ UNCHANGED region
  /\ UNCHANGED <<busMapped, registered, aborted>>

(* bf_sys_free of a pointer into the huge pages, which is none of the      *)
(* allocator's: it may notice and abort, and never unmaps the pages.       *)
FreeOfHugePages == aborted' \in BOOLEAN

AllocInfo(p) ==
  /\ \/ /\ Goto(p, "info", "map")
        /\ heap' = heap \cup {<<p, "info">>}
        /\ UNCHANGED aborted
     \/ /\ "info" \in LateFailures
        /\ Drop(p, "info")
        /\ heap' = heap \ {<<p, "struct">>, <<p, "queue">>}
        /\ FreeOfHugePages
  /\ UNCHANGED <<region, busMapped, registered>>

(* A mutant: the loop ends a page early. *)
AfterPage_StopsShort(p, i) == IF i + 2 \in PagesOf(p) THEN "map" ELSE "base"

(* The loop of log_virt_dma_addr goes on to the next page, or ends. *)
AfterPage(p, i) == IF i + 1 \in PagesOf(p) THEN "map" ELSE "base"

RecordPage(p, i, addr) ==
  pool' = [pool EXCEPT ![p].step = AfterPage(p, i),
                       ![p].dma = [j \in 0 .. i |-> IF j = i THEN addr ELSE @[j]]]

(* bf_mem_virt2phy: what /proc/self/pagemap holds for the page, unless it  *)
(* cannot be opened, positioned or read.                                   *)
Virt2Phys(p, i) == {Frame[p][i]} \cup (IF PagemapFails THEN {Invalid} ELSE {})

(* One turn of that loop.  The mapping function fails on an address that   *)
(* is none, which an assert turns into an abort.                           *)
MapPage(p) ==
  LET i == Cardinality(DOMAIN pool[p].dma)
  IN  /\ ~aborted
      /\ pool[p].step = "map"
      /\ i \in PagesOf(p)
      /\ \E phys \in Virt2Phys(p, i) :
           \/ /\ ~registered
              /\ RecordPage(p, i, phys)
              /\ UNCHANGED <<busMapped, aborted>>
           \/ /\ registered /\ phys # Invalid
              /\ RecordPage(p, i, Bus[p][i])
              /\ busMapped' = busMapped \cup {<<p, i>>}
              /\ UNCHANGED aborted
           \/ /\ registered /\ phys = Invalid
              /\ aborted' = TRUE
              /\ UNCHANGED <<pool, busMapped>>
      /\ UNCHANGED <<heap, region, registered>>

(* A base address that is not found frees what malloc gave, and leaves the *)
(* huge pages and their bus mappings.                                      *)
GetBase(p) ==
  /\ \/ /\ ~aborted
        /\ pool[p].step = "base"
        /\ pool' = [pool EXCEPT ![p].step = "ready", ![p].free = BufsOf(p)]
        /\ UNCHANGED <<heap, aborted>>
     \/ /\ "base" \in LateFailures
        /\ Drop(p, "base")
        /\ heap' = heap \ ({p} \X Parts)
        /\ FreeOfHugePages
  /\ UNCHANGED <<region, busMapped, registered>>

-----------------------------------------------------------------------------
(* bf_sys_dma_alloc and bf_sys_dma_free.  An allocation that computes the  *)
(* invalid address fails and keeps the buffer off the free list.           *)

Alloc(p) ==
  /\ ~aborted
  /\ pool[p].step = "ready"
  /\ \E b \in pool[p].free :
       LET addr == PhysOf(pool[p].dma, pool[p].size, pool[p].cnt, VirtOf(p, b))
           with(f) == [c \in DOMAIN f \cup {b} |-> IF c = b THEN addr ELSE f[c]]
       IN  pool' = [pool EXCEPT ![p].free = @ \ {b},
                                ![p].out = IF addr = Invalid THEN @ ELSE with(@)]
  /\ UNCHANGED <<heap, region, busMapped, registered, aborted>>

Free(p) ==
  /\ ~aborted
  /\ pool[p].step = "ready"
  /\ \E b \in DOMAIN pool[p].out :
       pool' = [pool EXCEPT ![p].free = @ \cup {b},
                            ![p].out = [c \in DOMAIN @ \ {b} |-> @[c]]]
  /\ UNCHANGED <<heap, region, busMapped, registered, aborted>>

-----------------------------------------------------------------------------
(* bf_sys_dma_pool_destroy *)

(* A mutant: the last page is not unmapped from the bus. *)
UnmappedPages_NotLast(p) == {p} \X {i \in PagesOf(p) : i + 1 \in PagesOf(p)}

(* The pages free_huge_pages unmaps, with the size it finds in the header. *)
UnmappedPages(p) == IF registered THEN {p} \X PagesOf(p) ELSE {}

Destroy(p) ==
  /\ Drop(p, "ready")
  /\ busMapped' = busMapped \ UnmappedPages(p)
  /\ region' = region \ {p}
  /\ heap' = heap \ ({p} \X Parts)
  /\ UNCHANGED <<registered, aborted>>

-----------------------------------------------------------------------------
Create(p) ==
  \/ \E size \in Sizes, cnt \in Counts, align \in Aligns :
       CreateCall(p, size, cnt, align)
  \/ AllocStruct(p) \/ AllocQueue(p) \/ AllocPages(p) \/ AllocInfo(p)
  \/ MapPage(p) \/ GetBase(p)

Next ==
  \/ Register
  \/ \E p \in Pools : Create(p) \/ Alloc(p) \/ Free(p) \/ Destroy(p)

Spec == Init /\ [][Next]_vars

-----------------------------------------------------------------------------
(* The types of the variables; sizes stay within a huge page when they are *)
(* aligned, so that the 32 bits of conv_to_next_aligned suffice.           *)
TypeOK ==
  /\ \A p \in Pools :
       /\ pool[p].step \in Steps
       /\ pool[p].size \in 0 .. PageSize
       /\ pool[p].cnt \in Counts \cup {0}
       /\ pool[p].free \subseteq BufsOf(p)
       /\ DOMAIN pool[p].out \subseteq BufsOf(p) \ pool[p].free
       /\ \A i \in DOMAIN pool[p].dma : pool[p].dma[i] \in 0 .. WordSize - 1
  /\ heap \subseteq Pools \X Parts
  /\ region \subseteq Pools
  /\ registered \in BOOLEAN /\ aborted \in BOOLEAN

Absent == {p \in Pools : pool[p].step = "none"}
Ready  == {p \in Pools : pool[p].step = "ready"}

(* Wherever bf_sys_dma_pool_create gives up, it frees every part of the    *)
(* pool that it had from malloc, and so does bf_sys_dma_pool_destroy.      *)
HeapIsFreed == \A p \in Absent : \A part \in Parts : <<p, part>> \notin heap

(* bf_sys_dma_pool_destroy leaves neither huge pages nor bus mappings of   *)
(* its pool behind, though creation and destruction count pages in         *)
(* different ways.                                                         *)
DestroyReturnsPages ==
  [][\A p \in Ready : pool'[p].step = "none" =>
       p \notin region' /\ \A m \in busMapped' : m[1] # p]_vars

(* log_virt_dma_addr reaches every page that free_huge_pages will unmap.   *)
ReadyPoolIsMapped ==
  \A p \in Ready :
    /\ p \in region
    /\ DOMAIN pool[p].dma = PagesOf(p)
    /\ UnmappedPages(p) \subseteq busMapped

(* Every buffer lies behind the metadata of the pool, inside the mapping   *)
(* aligned as was asked for, and apart from the other buffers.             *)
BuffersFit ==
  \A p \in Ready : \A b \in BufsOf(p) :
    /\ VirtOf(p, b) >= HdrSize
    /\ VirtOf(p, b) + pool[p].size <= Cardinality(PagesOf(p)) * PageSize
    /\ VirtOf(p, b) % pool[p].align = 0
    /\ \A c \in BufsOf(p) : c < b => VirtOf(p, c) + pool[p].size <= VirtOf(p, b)

Spills(p, b) == (VirtOf(p, b) % PageSize) + pool[p].size > PageSize

(* No buffer spills over from a huge page to the next, which is elsewhere  *)
(* in physical memory, if its size divides a huge page, or in a pool of    *)
(* one page.  The comment at line 391 claims it for every size.            *)
NoSpillIfSizeDivides ==
  \A p \in Ready :
    (PageSize % pool[p].size) = 0 \/ PagesOf(p) = {0}
      => \A b \in BufsOf(p) : ~Spills(p, b)

(* The bus address an allocation returns, and that of every byte of the    *)
(* buffer that does not spill over, leads back to the byte's virtual       *)
(* address, and that to the buffer's index; except in a page whose own     *)
(* address was not found, which bf_sys_dma_alloc notices only at offset 0. *)
AddressesLeadBack ==
  \A p \in Ready : \A b \in DOMAIN pool[p].out : \A j \in 0 .. pool[p].size - 1 :
    /\ (VirtOf(p, b) % PageSize) + j < PageSize
    /\ pool[p].dma[VirtOf(p, b) \div PageSize] # Invalid
    => LET virts == VirtsOf(pool[p].dma, pool[p].out[b] + j)
       IN  /\ virts = {VirtOf(p, b) + j}
           /\ \A v \in virts : IndexOf(pool[p].size, pool[p].cnt, v) = b
=============================================================================
