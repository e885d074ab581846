---------------------------- MODULE DmaPoolProofs ----------------------------
(***************************************************************************)
(* Proofs about DmaPool, for any number of pools, arguments and pages.     *)
(* What a pool owns is right at the end of its creation only because of    *)
(* what every step on the way has taken, and given back where it failed:   *)
(* IInv says, step by step, which parts of the heap, which huge pages and  *)
(* which bus mappings a pool of that step has.                             *)
(***************************************************************************)
EXTENDS DmaPool, DmaLayoutProofs, FiniteSetTheorems

Fields == {"step", "size", "cnt", "align", "dma", "free", "out"}

(* A handle stands for a record of the fields of a pool. *)
Shaped ==
  /\ pool = [p \in Pools |-> pool[p]]
  /\ \A p \in Pools : pool[p] = [f \in Fields |-> pool[p][f]]

(* The pools that have taken their huge pages, and those that have all     *)
(* they take from malloc.                                                  *)
HasPages(p)  == pool[p].step \in {"info", "map", "base", "ready"}
HasInfo(p)   == pool[p].step \in {"map", "base", "ready"}
Complete(p)  == pool[p].step \in {"base", "ready"}

(* The parts that a pool has from malloc at its step. *)
HeapFits ==
  /\ heap \subseteq Pools \X Parts
  /\ \A p \in Pools :
       /\ <<p, "struct">> \in heap => pool[p].step \notin {"none", "struct"}
       /\ <<p, "queue">> \in heap => pool[p].step \in {"pages"} \/ HasPages(p)
       /\ <<p, "info">> \in heap => HasInfo(p)

(* The pages whose addresses are recorded so far are the first ones. *)
RecordFits ==
  \A p \in Pools :
    /\ pool[p].step \in {"struct", "queue", "pages", "info"} => DOMAIN pool[p].dma = {}
    /\ pool[p].step = "map" => \E n \in Nat : DOMAIN pool[p].dma = 0 .. n - 1
    /\ Complete(p) => DOMAIN pool[p].dma = PagesOf(p)

(* A mapped page belongs to huge pages that are there, and those of a pool *)
(* that is being made, or is ready, are the recorded ones.                 *)
BusFits ==
  /\ \A m \in busMapped : m \in Pools \X Int
  /\ \A p \in Pools, i \in Int : <<p, i>> \in busMapped =>
       /\ registered
       /\ p \in region
       /\ HasPages(p) => i \in DOMAIN pool[p].dma
  /\ registered =>
       \A p \in Pools : HasPages(p) =>
         \A i \in DOMAIN pool[p].dma : <<p, i>> \in busMapped

PagesFit ==
  /\ \A p \in Pools : HasPages(p) => p \in region
  /\ RecordFits /\ BusFits

(* Only a pool that is ready has buffers to give, and a handle that stands *)
(* for a pool has arguments that the application may give, aligned.        *)
FieldsFit ==
  \A p \in Pools :
    /\ pool[p].step # "ready" => pool[p].free = {} /\ DOMAIN pool[p].out = {}
    /\ pool[p].step # "none" =>
         /\ pool[p].cnt \in Counts
         /\ pool[p].align \in Aligns
         /\ pool[p].size # 0
         /\ (pool[p].size % pool[p].align) = 0

IInv == TypeOK /\ Shaped /\ HeapFits /\ PagesFit /\ FieldsFit

-----------------------------------------------------------------------------
(* What an update of one pool changes, and what it does not. *)

LEMMA NoPoolHasFields == NoPool = [f \in Fields |-> NoPool[f]]
BY DEF NoPool, Fields

LEMMA GotoChanges ==
  ASSUME Shaped, NEW p \in Pools, NEW from, NEW to, Goto(p, from, to)
  PROVE  /\ Shaped'
         /\ pool[p].step = from /\ pool'[p].step = to
         /\ \A q \in Pools : /\ q # p => pool'[q] = pool[q]
                             /\ pool'[q].size = pool[q].size
                             /\ pool'[q].cnt = pool[q].cnt
                             /\ pool'[q].align = pool[q].align
                             /\ pool'[q].dma = pool[q].dma
                             /\ pool'[q].free = pool[q].free
                             /\ pool'[q].out = pool[q].out
BY DEF Goto, Shaped, Fields

LEMMA DropChanges ==
  ASSUME Shaped, NEW p \in Pools, NEW from, Drop(p, from)
  PROVE  /\ Shaped'
         /\ pool[p].step = from /\ pool'[p] = NoPool
         /\ \A q \in Pools : q # p => pool'[q] = pool[q]
BY NoPoolHasFields DEF Drop, Shaped

(* The size of a pool, which is that of an argument, aligned. *)
LEMMA AlignedArguments ==
  ASSUME NEW size \in Sizes, NEW align \in Aligns, size <= PageSize
  PROVE  /\ NextAligned(size, align) \in 1 .. PageSize
         /\ (NextAligned(size, align) % align) = 0
<1>1. /\ size \in Nat \ {0} /\ align \in Nat \ {0} /\ (HdrSize % align) = 0
      /\ PageSize \in Nat
  BY PoolAssumption, LayoutAssumption
<1>2. /\ NextAligned(size, align) \in size .. PageSize
      /\ (NextAligned(size, align) % align) = 0
  BY <1>1, AlignedSizeFits
<1> QED BY <1>1, <1>2

-----------------------------------------------------------------------------
(* Heap, pages and buffers: the steps of a creation. *)

LEMMA CreateCallStep ==
  ASSUME IInv, NEW p \in Pools, NEW size \in Sizes, NEW cnt \in Counts,
         NEW align \in Aligns, CreateCall(p, size, cnt, align)
  PROVE  Shaped' /\ HeapFits' /\ PagesFit' /\ FieldsFit'
<1>1. /\ pool[p].step = "none" /\ pool'[p].step = "struct"
      /\ pool'[p].free = {} /\ DOMAIN pool'[p].out = {} /\ DOMAIN pool'[p].dma = {}
      /\ pool'[p].cnt = cnt /\ pool'[p].align = align
      /\ pool'[p].size = NextAligned(size, align)
      /\ \A q \in Pools : q # p => pool'[q] = pool[q]
      /\ UNCHANGED <<heap, region, busMapped, registered>>
  BY DEF CreateCall, IInv, Shaped, Fields, NoPool, NoMap
<1>2. Shaped' BY NoPoolHasFields DEF CreateCall, IInv, Shaped, Fields, NoPool
<1>3. HeapFits' BY <1>1 DEF IInv, HeapFits, HasPages, HasInfo
<1>4. PagesFit'
  BY <1>1 DEF IInv, PagesFit, RecordFits, BusFits, HasPages, Complete, PagesOf
<1>5. FieldsFit' BY <1>1, AlignedArguments DEF CreateCall, IInv, FieldsFit
<1> QED BY <1>2, <1>3, <1>4, <1>5

(* A creation that gives up has freed what it had from malloc, and never   *)
(* what the mapping of its huge pages holds.                               *)
LEMMA GiveUp ==
  ASSUME IInv, NEW p \in Pools, NEW from, Drop(p, from),
         UNCHANGED <<region, busMapped, registered>>,
         \/ from = "struct" /\ UNCHANGED heap
         \/ from = "queue" /\ heap' = heap \ {<<p, "struct">>}
         \/ from \in {"pages", "info"} /\ heap' = heap \ {<<p, "struct">>, <<p, "queue">>}
         \/ from = "base" /\ heap' = heap \ ({p} \X Parts)
  PROVE  Shaped' /\ HeapFits' /\ PagesFit' /\ FieldsFit'
<1>1. /\ Shaped' /\ pool[p].step = from /\ pool'[p] = NoPool
      /\ \A q \in Pools : q # p => pool'[q] = pool[q]
  BY DropChanges DEF IInv
<1>2. /\ pool'[p].step = "none" /\ pool'[p].free = {} /\ DOMAIN pool'[p].out = {}
  BY <1>1 DEF NoPool, NoMap
<1>3. HeapFits' BY <1>1, <1>2 DEF IInv, HeapFits, HasPages, HasInfo, Parts
<1>4. PagesFit'
  BY <1>1, <1>2 DEF IInv, PagesFit, RecordFits, BusFits, HasPages, Complete, PagesOf
<1>5. FieldsFit' BY <1>1, <1>2 DEF IInv, FieldsFit
<1> QED BY <1>1, <1>3, <1>4, <1>5

(* Every resource is taken in its place in the order, or the creation      *)
(* gives up.                                                               *)
LEMMA TakeStep ==
  ASSUME IInv, NEW p \in Pools,
         AllocStruct(p) \/ AllocQueue(p) \/ AllocPages(p) \/ AllocInfo(p)
  PROVE  Shaped' /\ HeapFits' /\ PagesFit' /\ FieldsFit'
<1> USE DEF IInv
<1>1. CASE AllocStruct(p) /\ Goto(p, "struct", "queue") /\ heap' = heap \cup {<<p, "struct">>}
  <2>1. UNCHANGED <<region, busMapped, registered>> BY <1>1 DEF AllocStruct
  <2>2. HeapFits' BY <1>1, GotoChanges DEF HeapFits, HasPages, HasInfo, Parts
  <2>3. PagesFit'
    BY <1>1, <2>1, GotoChanges DEF PagesFit, RecordFits, BusFits, HasPages, Complete, PagesOf
  <2> QED BY <1>1, <2>2, <2>3, GotoChanges DEF FieldsFit
<1>2. CASE AllocQueue(p) /\ Goto(p, "queue", "pages") /\ heap' = heap \cup {<<p, "queue">>}
  <2>1. UNCHANGED <<region, busMapped, registered>> BY <1>2 DEF AllocQueue
  <2>2. HeapFits' BY <1>2, GotoChanges DEF HeapFits, HasPages, HasInfo, Parts
  <2>3. PagesFit'
    BY <1>2, <2>1, GotoChanges DEF PagesFit, RecordFits, BusFits, HasPages, Complete, PagesOf
  <2> QED BY <1>2, <2>2, <2>3, GotoChanges DEF FieldsFit
<1>3. CASE /\ AllocPages(p) /\ Goto(p, "pages", "info") /\ p \notin region
           /\ region' = region \cup {p} /\ UNCHANGED heap
  <2>1. UNCHANGED <<busMapped, registered>> BY <1>3 DEF AllocPages
  <2>2. HeapFits' BY <1>3, GotoChanges DEF HeapFits, HasPages, HasInfo
  <2>3. DOMAIN pool[p].dma = {} BY <1>3, GotoChanges DEF PagesFit, RecordFits
  <2>4. \A q \in Pools : HasPages(q)' => q \in region'
    BY <1>3, GotoChanges DEF PagesFit, HasPages
  <2>5. RecordFits'
    BY <1>3, <2>3, GotoChanges DEF PagesFit, RecordFits, HasPages, Complete, PagesOf
  <2>6. BusFits' BY <1>3, <2>1, <2>3, GotoChanges DEF PagesFit, BusFits, HasPages
  <2> QED BY <1>3, <2>2, <2>4, <2>5, <2>6, GotoChanges DEF FieldsFit, PagesFit
<1>4. CASE AllocInfo(p) /\ Goto(p, "info", "map") /\ heap' = heap \cup {<<p, "info">>}
  <2>1. UNCHANGED <<region, busMapped, registered>> BY <1>4 DEF AllocInfo
  <2>2. HeapFits' BY <1>4, GotoChanges DEF HeapFits, HasPages, HasInfo, Parts
  <2>3. DOMAIN pool'[p].dma = 0 .. 0 - 1
    <3>1. DOMAIN pool'[p].dma = {} BY <1>4, GotoChanges DEF PagesFit, RecordFits
    <3>2. 0 .. 0 - 1 = {} OBVIOUS
    <3> QED BY <3>1, <3>2
  <2>4. \E n \in Nat : DOMAIN pool'[p].dma = 0 .. n - 1
    <3> WITNESS 0 \in Nat
    <3> QED BY <2>3
  <2>5. RecordFits'
    BY <1>4, <2>4, GotoChanges DEF PagesFit, RecordFits, HasPages, Complete, PagesOf
  <2>6. BusFits' BY <1>4, <2>1, GotoChanges DEF PagesFit, BusFits, HasPages
  <2>7. PagesFit' BY <1>4, <2>1, <2>5, <2>6, GotoChanges DEF PagesFit, HasPages
  <2> QED BY <1>4, <2>2, <2>7, GotoChanges DEF FieldsFit
<1>5. CASE AllocStruct(p) /\ Drop(p, "struct") /\ UNCHANGED heap
  BY <1>5, GiveUp DEF AllocStruct
<1>6. CASE AllocQueue(p) /\ Drop(p, "queue") /\ heap' = heap \ {<<p, "struct">>}
  BY <1>6, GiveUp DEF AllocQueue
<1>7. CASE /\ AllocPages(p) /\ Drop(p, "pages")
           /\ heap' = heap \ {<<p, "struct">>, <<p, "queue">>} /\ UNCHANGED region
  BY <1>7, GiveUp DEF AllocPages
<1>8. CASE /\ AllocInfo(p) /\ Drop(p, "info")
           /\ heap' = heap \ {<<p, "struct">>, <<p, "queue">>}
  BY <1>8, GiveUp DEF AllocInfo
<1> QED
  BY <1>1, <1>2, <1>3, <1>4, <1>5, <1>6, <1>7, <1>8
  DEF AllocStruct, AllocQueue, AllocPages, AllocInfo

-----------------------------------------------------------------------------
(* The number of pages of a pool is an integer. *)
LEMMA PageNumbers ==
  ASSUME TypeOK, NEW p \in Pools
  PROVE  NumPages(pool[p].size, pool[p].cnt) \in Int
<1>1. pool[p].size \in Int /\ pool[p].cnt \in Int
  <2>1. /\ \A n \in 0 .. PageSize : n \in Int
        /\ \A n \in Counts \cup {0} : n \in Int
    BY PoolAssumption, LayoutAssumption
  <2>2. pool[p].size \in 0 .. PageSize /\ pool[p].cnt \in Counts \cup {0}
    BY Zenon DEF TypeOK
  <2> QED BY <2>1, <2>2, Zenon
<1>2. PageSize \in Nat \ {0} /\ HdrSize \in Nat \ {0} BY LayoutAssumption
<1>3. NextAligned(pool[p].size, HdrSize) \in Int BY <1>1, <1>2 DEF NextAligned
<1>4. HeaderOffset(pool[p].size, pool[p].cnt) \in Int
  BY <1>2, <1>3 DEF HeaderOffset
<1>5. pool[p].size * pool[p].cnt \in Int BY <1>1
<1>6. pool[p].size * pool[p].cnt + HeaderOffset(pool[p].size, pool[p].cnt) \in Int
  BY <1>4, <1>5
<1>7. \A n \in Int : AlignToPage(n) \div PageSize \in Int BY <1>2 DEF AlignToPage
<1> QED BY <1>6, <1>7 DEF NumPages

(* What a turn of the loop of log_virt_dma_addr records. *)
LEMMA RecordChanges ==
  ASSUME Shaped, NEW p \in Pools, NEW i, NEW addr, RecordPage(p, i, addr)
  PROVE  /\ Shaped'
         /\ pool'[p].step = AfterPage(p, i)
         /\ pool'[p].dma = [j \in 0 .. i |-> IF j = i THEN addr ELSE pool[p].dma[j]]
         /\ \A q \in Pools : /\ q # p => pool'[q] = pool[q]
                             /\ pool'[q].size = pool[q].size
                             /\ pool'[q].cnt = pool[q].cnt
                             /\ pool'[q].align = pool[q].align
                             /\ pool'[q].free = pool[q].free
                             /\ pool'[q].out = pool[q].out
BY DEF RecordPage, Shaped, Fields

LEMMA MapPageStep ==
  ASSUME IInv, NEW p \in Pools, MapPage(p)
  PROVE  Shaped' /\ HeapFits' /\ PagesFit' /\ FieldsFit'
<1> USE DEF IInv
<1> DEFINE i == Cardinality(DOMAIN pool[p].dma)
<1>1. /\ pool[p].step = "map" /\ i \in PagesOf(p)
      /\ UNCHANGED <<heap, region, registered>>
  BY DEF MapPage
<1>2. i \in Nat /\ DOMAIN pool[p].dma = 0 .. i - 1
  <2>1. PICK n \in Nat : DOMAIN pool[p].dma = 0 .. n - 1 BY <1>1 DEF PagesFit, RecordFits
  <2>2. Cardinality(0 .. n - 1) = n BY FS_Interval
  <2> QED BY <2>1, <2>2
<1>3. ASSUME NEW addr, RecordPage(p, i, addr),
             \/ ~registered /\ UNCHANGED busMapped
             \/ registered /\ busMapped' = busMapped \cup {<<p, i>>}
      PROVE  Shaped' /\ HeapFits' /\ PagesFit' /\ FieldsFit'
  <2> HIDE DEF i
  <2>1. pool'[p].step \in {"map", "base"} BY <1>3, RecordChanges DEF AfterPage
  <2>2. /\ DOMAIN pool'[p].dma = 0 .. i
        /\ PagesOf(p)' = PagesOf(p)
        /\ \A q \in Pools : q # p => pool'[q] = pool[q]
    BY <1>3, RecordChanges DEF PagesOf
  <2>3. HeapFits' BY <1>1, <2>1, <2>2 DEF HeapFits, HasPages, HasInfo
  <2>4. \A q \in Pools : HasPages(q)' => q \in region'
    BY <1>1, <2>2 DEF PagesFit, HasPages
  <2>5. pool'[p].step = "map" => \E n \in Nat : DOMAIN pool'[p].dma = 0 .. n - 1
    <3>1. i + 1 \in Nat /\ 0 .. (i + 1) - 1 = 0 .. i BY <1>2
    <3> QED BY <2>2, <3>1
  <2>6. pool'[p].step = "base" => DOMAIN pool'[p].dma = PagesOf(p)
    <3> DEFINE n == NumPages(pool[p].size, pool[p].cnt)
    <3>1. n \in Int /\ PagesOf(p) = 0 .. n - 1 BY PageNumbers DEF PagesOf
    <3>2. SUFFICES ASSUME pool'[p].step = "base" PROVE 0 .. i = PagesOf(p) BY <2>2
    <3>3. i + 1 \notin PagesOf(p) BY <1>3, <3>2, RecordChanges DEF AfterPage
    <3> HIDE DEF n
    <3>4. i = n - 1 BY <1>1, <1>2, <3>1, <3>3
    <3> QED BY <3>1, <3>4
  <2>7. RecordFits'
    BY <2>1, <2>2, <2>5, <2>6 DEF PagesFit, RecordFits, Complete, PagesOf
  <2>8. BusFits'
    <3>1. p \in region /\ HasPages(p) BY <1>1 DEF PagesFit, HasPages
    <3>2. \A j \in Int : j \in 0 .. i <=> j \in DOMAIN pool[p].dma \/ j = i BY <1>2
    <3>3. busMapped' \subseteq busMapped \cup {<<p, i>>} BY <1>3
    <3>4. \A m \in busMapped' : m \in Pools \X Int BY <1>2, <3>3 DEF PagesFit, BusFits
    <3>5. ASSUME NEW q \in Pools, NEW j \in Int, <<q, j>> \in busMapped'
          PROVE  registered' /\ q \in region' /\ (HasPages(q)' => j \in DOMAIN pool'[q].dma)
      BY <1>1, <1>2, <1>3, <2>2, <3>1, <3>2, <3>3, <3>5 DEF PagesFit, BusFits, HasPages
    <3>6. ASSUME registered', NEW q \in Pools, HasPages(q)', NEW j \in DOMAIN pool'[q].dma
          PROVE  <<q, j>> \in busMapped'
      BY <1>1, <1>2, <1>3, <2>2, <3>1, <3>2, <3>6 DEF PagesFit, BusFits, HasPages
    <3> QED BY <3>4, <3>5, <3>6 DEF BusFits
  <2>9. FieldsFit' BY <1>1, <1>3, <2>1, RecordChanges DEF FieldsFit
  <2> QED BY <1>3, <2>3, <2>4, <2>7, <2>8, <2>9, RecordChanges DEF PagesFit
<1>4. CASE UNCHANGED <<pool, busMapped>>
  BY <1>1, <1>4 DEF Shaped, HeapFits, PagesFit, RecordFits, BusFits, FieldsFit,
                    HasPages, HasInfo, Complete, PagesOf
<1> QED BY <1>3, <1>4 DEF MapPage

-----------------------------------------------------------------------------
(* The end of a creation, and the calls on a pool that is ready. *)

LEMMA GetBaseStep ==
  ASSUME IInv, NEW p \in Pools, GetBase(p)
  PROVE  Shaped' /\ HeapFits' /\ PagesFit' /\ FieldsFit'
<1> USE DEF IInv
<1>1. CASE /\ pool[p].step = "base"
           /\ pool' = [pool EXCEPT ![p].step = "ready", ![p].free = BufsOf(p)]
           /\ UNCHANGED heap
  <2>1. UNCHANGED <<region, busMapped, registered>> BY DEF GetBase
  <2>2. /\ Shaped'
        /\ pool'[p].step = "ready"
        /\ pool'[p].dma = pool[p].dma
        /\ pool'[p].size = pool[p].size /\ pool'[p].cnt = pool[p].cnt
        /\ pool'[p].align = pool[p].align
        /\ \A q \in Pools : q # p => pool'[q] = pool[q]
    BY <1>1 DEF Shaped, Fields
  <2>3. HeapFits' BY <1>1, <2>2 DEF HeapFits, HasPages, HasInfo
  <2>4. PagesFit'
    <3>1. \A q \in Pools : /\ HasPages(q)' <=> HasPages(q)
                           /\ pool'[q].dma = pool[q].dma
      BY <1>1, <2>2 DEF HasPages
    <3>2. BusFits' BY <2>1, <3>1 DEF PagesFit, BusFits
    <3>3. RecordFits' BY <1>1, <2>2 DEF PagesFit, RecordFits, Complete, PagesOf
    <3> QED BY <2>1, <3>1, <3>2, <3>3 DEF PagesFit
  <2>5. FieldsFit' BY <1>1, <2>2 DEF FieldsFit
  <2> QED BY <2>2, <2>3, <2>4, <2>5
<1>2. CASE Drop(p, "base") /\ heap' = heap \ ({p} \X Parts)
  BY <1>2, GiveUp DEF GetBase
<1> QED BY <1>1, <1>2 DEF GetBase

(* Alloc and Free move a buffer, and leave what the pool owns. *)
LEMMA BufferKeepsStep ==
  ASSUME Shaped, NEW p \in Pools, Alloc(p) \/ Free(p)
  PROVE  /\ Shaped'
         /\ pool'[p].step = "ready"
         /\ pool'[p].dma = pool[p].dma
         /\ pool'[p].size = pool[p].size /\ pool'[p].cnt = pool[p].cnt
         /\ pool'[p].align = pool[p].align
         /\ \A q \in Pools : q # p => pool'[q] = pool[q]
<1>1. pool[p].step = "ready" BY DEF Alloc, Free
<1>2. ASSUME NEW free, NEW out,
             pool' = [pool EXCEPT ![p].free = free, ![p].out = out]
      PROVE  /\ Shaped'
             /\ pool'[p].step = "ready"
             /\ pool'[p].dma = pool[p].dma
             /\ pool'[p].size = pool[p].size /\ pool'[p].cnt = pool[p].cnt
             /\ pool'[p].align = pool[p].align
             /\ \A q \in Pools : q # p => pool'[q] = pool[q]
  BY <1>1, <1>2 DEF Shaped, Fields
<1>3. CASE Alloc(p) BY <1>2, <1>3 DEF Alloc
<1>4. CASE Free(p) BY <1>2, <1>4 DEF Free
<1> QED BY <1>3, <1>4

LEMMA BufferStep ==
  ASSUME IInv, NEW p \in Pools, Alloc(p) \/ Free(p)
  PROVE  Shaped' /\ HeapFits' /\ PagesFit' /\ FieldsFit'
<1> USE DEF IInv
<1>1. /\ pool[p].step = "ready"
      /\ UNCHANGED <<heap, region, busMapped, registered>>
  BY DEF Alloc, Free
<1>2. /\ Shaped'
      /\ pool'[p].step = "ready"
      /\ pool'[p].dma = pool[p].dma
      /\ pool'[p].size = pool[p].size /\ pool'[p].cnt = pool[p].cnt
      /\ pool'[p].align = pool[p].align
      /\ \A q \in Pools : q # p => pool'[q] = pool[q]
  BY BufferKeepsStep
<1>3. HeapFits' BY <1>1, <1>2 DEF HeapFits, HasPages, HasInfo
<1>4. PagesFit'
  BY <1>1, <1>2 DEF PagesFit, RecordFits, BusFits, HasPages, Complete, PagesOf
<1>5. FieldsFit' BY <1>1, <1>2 DEF FieldsFit
<1> QED BY <1>2, <1>3, <1>4, <1>5

(* Destruction finds every page of the pool among those it unmaps. *)
LEMMA DestroyReturns ==
  ASSUME IInv, NEW p \in Pools, Destroy(p)
  PROVE  p \notin region' /\ \A i \in Int : <<p, i>> \notin busMapped'
<1>1. pool[p].step = "ready" BY DEF Destroy, Drop
<1>2. DOMAIN pool[p].dma = PagesOf(p) /\ HasPages(p)
  BY <1>1 DEF IInv, PagesFit, RecordFits, Complete, HasPages
<1>3. ASSUME NEW i \in Int, <<p, i>> \in busMapped PROVE <<p, i>> \in UnmappedPages(p)
  BY <1>2, <1>3 DEF IInv, PagesFit, BusFits, UnmappedPages
<1> QED BY <1>3 DEF Destroy

LEMMA DestroyStep ==
  ASSUME IInv, NEW p \in Pools, Destroy(p)
  PROVE  Shaped' /\ HeapFits' /\ PagesFit' /\ FieldsFit'
<1> USE DEF IInv
<1>1. /\ Shaped' /\ pool[p].step = "ready" /\ pool'[p] = NoPool
      /\ \A q \in Pools : q # p => pool'[q] = pool[q]
  BY DropChanges DEF Destroy
<1>2. pool'[p].step = "none" /\ pool'[p].free = {} /\ DOMAIN pool'[p].out = {}
  BY <1>1 DEF NoPool, NoMap
<1>3. /\ busMapped' = busMapped \ UnmappedPages(p)
      /\ region' = region \ {p} /\ heap' = heap \ ({p} \X Parts) /\ UNCHANGED registered
  BY DEF Destroy
<1>4. HeapFits' BY <1>1, <1>2, <1>3 DEF HeapFits, HasPages, HasInfo, Parts
<1>5. PagesFit'
  <2>1. \A q \in Pools, i \in Int : q # p => <<q, i>> \notin UnmappedPages(p)
    BY DEF UnmappedPages
  <2>2. \A q \in Pools : HasPages(q)' => q \in region'
    BY <1>1, <1>2, <1>3 DEF PagesFit, HasPages
  <2>3. RecordFits' BY <1>1, <1>2 DEF PagesFit, RecordFits, Complete, PagesOf
  <2>4. \A m \in busMapped' : m \in Pools \X Int BY <1>3 DEF PagesFit, BusFits
  <2>5. ASSUME NEW q \in Pools, NEW i \in Int, <<q, i>> \in busMapped'
        PROVE  registered' /\ q \in region' /\ (HasPages(q)' => i \in DOMAIN pool'[q].dma)
    BY <1>1, <1>2, <1>3, <2>5, DestroyReturns DEF PagesFit, BusFits, HasPages
  <2>6. ASSUME registered', NEW q \in Pools, HasPages(q)', NEW i \in DOMAIN pool'[q].dma
        PROVE  <<q, i>> \in busMapped'
    <3>1. q # p /\ HasPages(q) /\ registered /\ i \in DOMAIN pool[q].dma
      BY <1>1, <1>2, <1>3, <2>6 DEF HasPages
    <3>2. <<q, i>> \in busMapped BY <3>1 DEF PagesFit, BusFits
    <3> QED BY <1>3, <3>1, <3>2 DEF UnmappedPages
  <2> QED BY <2>2, <2>3, <2>4, <2>5, <2>6 DEF PagesFit, BusFits
<1>6. FieldsFit' BY <1>1, <1>2 DEF FieldsFit
<1> QED BY <1>1, <1>4, <1>5, <1>6

LEMMA RegisterStep ==
  ASSUME IInv, Register
  PROVE  Shaped' /\ HeapFits' /\ PagesFit' /\ FieldsFit'
BY DEF IInv, Register, Shaped, HeapFits, PagesFit, RecordFits, BusFits, FieldsFit,
       HasPages, HasInfo, Complete, PagesOf

-----------------------------------------------------------------------------
(* The types of the fields of a pool. *)
TypedPool(p) ==
  /\ pool[p].step \in Steps
  /\ pool[p].size \in 0 .. PageSize
  /\ pool[p].cnt \in Counts \cup {0}
  /\ pool[p].free \subseteq BufsOf(p)
  /\ DOMAIN pool[p].out \subseteq BufsOf(p) \ pool[p].free
  /\ \A i \in DOMAIN pool[p].dma : pool[p].dma[i] \in 0 .. WordSize - 1

LEMMA TypesOfPools ==
  TypeOK <=> /\ \A p \in Pools : TypedPool(p)
             /\ heap \subseteq Pools \X Parts
             /\ region \subseteq Pools
             /\ registered \in BOOLEAN /\ aborted \in BOOLEAN
BY DEF TypeOK, TypedPool

LEMMA NoPoolIsTyped ==
  ASSUME NEW p \in Pools, pool'[p] = NoPool
  PROVE  TypedPool(p)'
BY LayoutAssumption DEF TypedPool, NoPool, NoMap, Steps, BufsOf

(* What a step of one pool has to keep of the types. *)
LEMMA TypesStep ==
  ASSUME TypeOK, NEW p \in Pools, TypedPool(p)',
         \A q \in Pools : q # p => pool'[q] = pool[q],
         heap' \subseteq heap \cup ({p} \X Parts),
         region' \subseteq region \cup {p},
         registered' \in BOOLEAN, aborted' \in BOOLEAN
  PROVE  TypeOK'
<1>1. \A q \in Pools : TypedPool(q)'
  BY TypesOfPools DEF TypedPool, BufsOf
<1> QED BY <1>1 DEF TypeOK, TypedPool

LEMMA CreateCallTypes ==
  ASSUME IInv, NEW p \in Pools, NEW size \in Sizes, NEW cnt \in Counts,
         NEW align \in Aligns, CreateCall(p, size, cnt, align)
  PROVE  TypeOK'
<1>1. /\ pool'[p] = [NoPool EXCEPT !.step = "struct", !.size = NextAligned(size, align),
                                   !.cnt = cnt, !.align = align]
      /\ \A q \in Pools : q # p => pool'[q] = pool[q]
      /\ UNCHANGED <<heap, region, registered, aborted>>
  BY DEF CreateCall, IInv, Shaped
<1>2. NextAligned(size, align) \in 0 .. PageSize
  BY LayoutAssumption, AlignedArguments DEF CreateCall
<1>3. TypedPool(p)' BY <1>1, <1>2 DEF TypedPool, NoPool, NoMap, Steps, BufsOf
<1> QED BY <1>1, <1>3, TypesStep DEF IInv, TypeOK

LEMMA GotoTypes ==
  ASSUME IInv, NEW p \in Pools, NEW from, NEW to \in Steps, Goto(p, from, to),
         heap' \subseteq heap \cup ({p} \X Parts),
         region' \subseteq region \cup {p},
         UNCHANGED <<registered, aborted>>
  PROVE  TypeOK'
<1>1. TypedPool(p)'
  BY GotoChanges, TypesOfPools DEF IInv, TypedPool, BufsOf
<1> QED BY <1>1, GotoChanges, TypesStep DEF IInv, TypeOK

LEMMA DropTypes ==
  ASSUME IInv, NEW p \in Pools, NEW from, Drop(p, from),
         heap' \subseteq heap, region' \subseteq region,
         UNCHANGED registered, aborted' \in BOOLEAN
  PROVE  TypeOK'
BY DropChanges, NoPoolIsTyped, TypesStep DEF IInv, TypeOK

LEMMA TakeTypes ==
  ASSUME IInv, NEW p \in Pools,
         AllocStruct(p) \/ AllocQueue(p) \/ AllocPages(p) \/ AllocInfo(p)
  PROVE  TypeOK'
<1> USE DEF Parts, Steps
<1>1. aborted \in BOOLEAN BY DEF IInv, TypeOK
<1>2. CASE AllocStruct(p) BY <1>1, <1>2, GotoTypes, DropTypes DEF AllocStruct
<1>3. CASE AllocQueue(p) BY <1>1, <1>3, GotoTypes, DropTypes DEF AllocQueue
<1>4. CASE AllocPages(p) BY <1>1, <1>4, GotoTypes, DropTypes DEF AllocPages
<1>5. CASE AllocInfo(p)
  BY <1>1, <1>5, GotoTypes, DropTypes DEF AllocInfo, FreeOfHugePages
<1> QED BY <1>2, <1>3, <1>4, <1>5

LEMMA MapPageTypes ==
  ASSUME IInv, NEW p \in Pools, MapPage(p)
  PROVE  TypeOK'
<1> USE DEF IInv
<1> DEFINE i == Cardinality(DOMAIN pool[p].dma)
<1>1. /\ pool[p].step = "map" /\ i \in PagesOf(p) /\ TypedPool(p)
      /\ UNCHANGED <<heap, region, registered>>
  BY TypesOfPools DEF MapPage
<1>2. i \in Nat /\ DOMAIN pool[p].dma = 0 .. i - 1
  <2>1. PICK n \in Nat : DOMAIN pool[p].dma = 0 .. n - 1 BY <1>1 DEF PagesFit, RecordFits
  <2>2. Cardinality(0 .. n - 1) = n BY FS_Interval
  <2> QED BY <2>1, <2>2
<1>3. pool[p].cnt \in Counts
  BY <1>1 DEF FieldsFit
<1>4. Frame[p][i] \in 0 .. WordSize - 1 /\ Bus[p][i] \in 0 .. WordSize - 1
  <2>1. /\ Frame[p][i] \in Nat /\ Frame[p][i] + PageSize < WordSize
        /\ Bus[p][i] \in Nat /\ Bus[p][i] + PageSize < WordSize
    BY <1>1, <1>3, AddressAssumption DEF PagesOf, TypedPool
  <2> QED BY <2>1, LayoutAssumption
<1>5. Invalid \in 0 .. WordSize - 1 BY LayoutAssumption DEF Invalid
<1>6. ASSUME NEW addr \in 0 .. WordSize - 1, RecordPage(p, i, addr), UNCHANGED aborted
      PROVE  TypeOK'
  <2> HIDE DEF i
  <2>1. pool'[p].step \in Steps BY <1>6, RecordChanges DEF AfterPage, Steps
  <2>2. \A j \in 0 .. i : j = i \/ j \in DOMAIN pool[p].dma BY <1>2
  <2>3. \A j \in DOMAIN pool'[p].dma : pool'[p].dma[j] \in 0 .. WordSize - 1
    <3> TAKE j \in DOMAIN pool'[p].dma
    <3>1. pool'[p].dma = [k \in 0 .. i |-> IF k = i THEN addr ELSE pool[p].dma[k]]
      BY <1>6, RecordChanges
    <3>2. j \in 0 .. i BY <3>1
    <3>3. pool'[p].dma[j] = IF j = i THEN addr ELSE pool[p].dma[j] BY <3>1, <3>2
    <3> QED BY <1>1, <1>6, <2>2, <3>2, <3>3 DEF TypedPool
  <2>4. TypedPool(p)'
    BY <1>1, <1>6, <2>1, <2>3, RecordChanges DEF TypedPool, BufsOf
  <2> QED BY <1>1, <1>6, <2>4, RecordChanges, TypesStep DEF TypeOK
<1>7. CASE UNCHANGED pool /\ aborted' = TRUE
  BY <1>1, <1>7 DEF TypeOK, BufsOf
<1>8. PICK phys \in Virt2Phys(p, i) :
        \/ RecordPage(p, i, phys) /\ UNCHANGED aborted
        \/ RecordPage(p, i, Bus[p][i]) /\ UNCHANGED aborted
        \/ UNCHANGED pool /\ aborted' = TRUE
  BY DEF MapPage
<1>9. phys \in 0 .. WordSize - 1 BY <1>4, <1>5 DEF Virt2Phys
<1> QED BY <1>4, <1>6, <1>7, <1>8, <1>9

LEMMA GetBaseTypes ==
  ASSUME IInv, NEW p \in Pools, GetBase(p)
  PROVE  TypeOK'
<1> USE DEF IInv
<1>1. CASE /\ pool[p].step = "base"
           /\ pool' = [pool EXCEPT ![p].step = "ready", ![p].free = BufsOf(p)]
           /\ UNCHANGED <<heap, aborted>>
  <2>1. UNCHANGED <<region, registered>> BY DEF GetBase
  <2>2. /\ pool'[p].step = "ready"
        /\ pool'[p].free = BufsOf(p)
        /\ pool'[p].dma = pool[p].dma /\ pool'[p].out = pool[p].out
        /\ pool'[p].size = pool[p].size /\ pool'[p].cnt = pool[p].cnt
        /\ pool'[p].align = pool[p].align
        /\ \A q \in Pools : q # p => pool'[q] = pool[q]
    BY <1>1 DEF Shaped, Fields
  <2>3. DOMAIN pool[p].out = {} BY <1>1 DEF FieldsFit
  <2>4. TypedPool(p)' BY <2>2, <2>3, TypesOfPools DEF TypedPool, BufsOf, Steps
  <2> QED BY <1>1, <2>1, <2>2, <2>4, TypesStep DEF TypeOK
<1>2. CASE Drop(p, "base") /\ heap' = heap \ ({p} \X Parts) /\ FreeOfHugePages
  BY <1>2, DropTypes DEF GetBase, FreeOfHugePages
<1> QED BY <1>1, <1>2 DEF GetBase

LEMMA BufferTypes ==
  ASSUME IInv, NEW p \in Pools, Alloc(p) \/ Free(p)
  PROVE  TypeOK'
<1> USE DEF IInv
<1>1. /\ TypedPool(p) /\ UNCHANGED <<heap, region, registered, aborted>>
  BY TypesOfPools DEF Alloc, Free
<1>2. ASSUME NEW free, NEW out,
             pool' = [pool EXCEPT ![p].free = free, ![p].out = out],
             free \subseteq BufsOf(p), DOMAIN out \subseteq BufsOf(p) \ free
      PROVE  TypeOK'
  <2>1. /\ pool'[p].free = free /\ pool'[p].out = out
        /\ pool'[p].step = pool[p].step /\ pool'[p].dma = pool[p].dma
        /\ pool'[p].size = pool[p].size /\ pool'[p].cnt = pool[p].cnt
        /\ pool'[p].align = pool[p].align
        /\ \A q \in Pools : q # p => pool'[q] = pool[q]
    BY <1>2 DEF Shaped, Fields
  <2>2. TypedPool(p)' BY <1>1, <1>2, <2>1 DEF TypedPool, BufsOf
  <2> QED BY <1>1, <2>1, <2>2, TypesStep DEF TypeOK
<1>3. CASE Alloc(p)
  <2>1. PICK b \in pool[p].free : \E addr :
          pool' = [pool EXCEPT
            ![p].free = @ \ {b},
            ![p].out = IF addr = Invalid THEN @
                       ELSE [c \in DOMAIN @ \cup {b} |-> IF c = b THEN addr ELSE @[c]]]
    BY <1>3 DEF Alloc
  <2>2. PICK addr :
          pool' = [pool EXCEPT
            ![p].free = @ \ {b},
            ![p].out = IF addr = Invalid THEN @
                       ELSE [c \in DOMAIN @ \cup {b} |-> IF c = b THEN addr ELSE @[c]]]
    BY <2>1
  <2> DEFINE free == pool[p].free \ {b}
             out  == IF addr = Invalid THEN pool[p].out
                     ELSE [c \in DOMAIN pool[p].out \cup {b} |->
                             IF c = b THEN addr ELSE pool[p].out[c]]
  <2>3. pool' = [pool EXCEPT ![p].free = free, ![p].out = out] BY <2>2
  <2>4. DOMAIN out \subseteq DOMAIN pool[p].out \cup {b} OBVIOUS
  <2>5. free \subseteq BufsOf(p) /\ DOMAIN out \subseteq BufsOf(p) \ free
    BY <1>1, <2>4 DEF TypedPool
  <2> HIDE DEF free, out
  <2> QED BY <1>2, <2>3, <2>5
<1>4. CASE Free(p)
  <2>1. PICK b \in DOMAIN pool[p].out :
          pool' = [pool EXCEPT ![p].free = @ \cup {b},
                               ![p].out = [c \in DOMAIN @ \ {b} |-> @[c]]]
    BY <1>4 DEF Free
  <2> DEFINE free == pool[p].free \cup {b}
             out  == [c \in DOMAIN pool[p].out \ {b} |-> pool[p].out[c]]
  <2>2. pool' = [pool EXCEPT ![p].free = free, ![p].out = out] BY <2>1
  <2>3. DOMAIN out = DOMAIN pool[p].out \ {b} OBVIOUS
  <2>4. free \subseteq BufsOf(p) /\ DOMAIN out \subseteq BufsOf(p) \ free
    BY <1>1, <2>3 DEF TypedPool
  <2> HIDE DEF free, out
  <2> QED BY <1>2, <2>2, <2>4
<1> QED BY <1>3, <1>4

-----------------------------------------------------------------------------
LEMMA InvariantHoldsInitially == Init => IInv
<1> SUFFICES ASSUME Init PROVE IInv OBVIOUS
<1>1. /\ \A p \in Pools : pool[p] = NoPool
      /\ \A p \in Pools : pool[p].step = "none"
  BY DEF Init, NoPool
<1>2. TypeOK
  <2>1. \A p \in Pools : TypedPool(p)
    BY <1>1, LayoutAssumption DEF TypedPool, NoPool, NoMap, Steps, BufsOf
  <2> QED BY <2>1, TypesOfPools DEF Init
<1>3. Shaped BY <1>1, NoPoolHasFields DEF Init, Shaped
<1>4. HeapFits BY DEF Init, HeapFits
<1>5. PagesFit
  BY <1>1 DEF Init, PagesFit, RecordFits, BusFits, HasPages, Complete
<1>6. FieldsFit BY <1>1 DEF FieldsFit, NoPool, NoMap
<1> QED BY <1>2, <1>3, <1>4, <1>5, <1>6 DEF IInv

(* IInv holds in every reachable state, for any number of pools. *)
THEOREM Invariance == Spec => []IInv
<1>1. IInv /\ [Next]_vars => IInv'
  <2> SUFFICES ASSUME IInv, [Next]_vars PROVE IInv' OBVIOUS
  <2>1. CASE Register
    <3>1. TypeOK' BY <2>1 DEF Register, IInv, TypeOK, BufsOf
    <3> QED BY <2>1, <3>1, RegisterStep DEF IInv
  <2>2. ASSUME NEW p \in Pools, Create(p) PROVE IInv'
    <3>1. CASE \E size \in Sizes, cnt \in Counts, align \in Aligns :
                 CreateCall(p, size, cnt, align)
      BY <3>1, CreateCallStep, CreateCallTypes DEF IInv
    <3>2. CASE AllocStruct(p) \/ AllocQueue(p) \/ AllocPages(p) \/ AllocInfo(p)
      BY <3>2, TakeStep, TakeTypes DEF IInv
    <3>3. CASE MapPage(p) BY <3>3, MapPageStep, MapPageTypes DEF IInv
    <3>4. CASE GetBase(p) BY <3>4, GetBaseStep, GetBaseTypes DEF IInv
    <3> QED BY <2>2, <3>1, <3>2, <3>3, <3>4 DEF Create
  <2>3. ASSUME NEW p \in Pools, Alloc(p) \/ Free(p) PROVE IInv'
    BY <2>3, BufferStep, BufferTypes DEF IInv
  <2>4. ASSUME NEW p \in Pools, Destroy(p) PROVE IInv'
    <3>1. Drop(p, "ready") /\ heap' \subseteq heap /\ region' \subseteq region
          /\ UNCHANGED <<registered, aborted>>
      BY <2>4 DEF Destroy
    <3>2. TypeOK' BY <3>1, DropTypes DEF IInv, TypeOK
    <3> QED BY <2>4, <3>2, DestroyStep DEF IInv
  <2>5. CASE UNCHANGED vars
    BY <2>5 DEF vars, IInv, TypeOK, BufsOf, Shaped, HeapFits, PagesFit, RecordFits,
                BusFits, FieldsFit, HasPages, HasInfo, Complete, PagesOf
  <2> QED BY <2>1, <2>2, <2>3, <2>4, <2>5 DEF Next
<1> QED BY <1>1, InvariantHoldsInitially, PTL DEF Spec

-----------------------------------------------------------------------------
(* The types: an aligned size stays within a huge page, and the buffers    *)
(* that are out are never on the free list too.                            *)
THEOREM TypeCorrectness == Spec => []TypeOK
<1>1. IInv => TypeOK BY DEF IInv
<1> QED BY <1>1, Invariance, PTL

(* Whatever fails during a creation, what it had from malloc is freed.     *)
THEOREM NothingFromMallocIsLeft == Spec => []HeapIsFreed
<1>1. IInv => HeapIsFreed
  BY DEF IInv, HeapFits, HeapIsFreed, Absent, HasPages, HasInfo, Parts
<1> QED BY <1>1, Invariance, PTL

(* The loop over the huge pages that creation runs and the one destruction *)
(* runs agree on the pages.                                                *)
THEOREM EveryPageIsMapped == Spec => []ReadyPoolIsMapped
<1>1. IInv => ReadyPoolIsMapped
  <2> SUFFICES ASSUME IInv, NEW p \in Ready
               PROVE  /\ p \in region
                      /\ DOMAIN pool[p].dma = PagesOf(p)
                      /\ UnmappedPages(p) \subseteq busMapped
    BY DEF ReadyPoolIsMapped
  <2>1. p \in Pools /\ HasPages(p) /\ Complete(p) BY DEF Ready, HasPages, Complete
  <2>2. p \in region /\ DOMAIN pool[p].dma = PagesOf(p)
    BY <2>1 DEF IInv, PagesFit, RecordFits
  <2>3. UnmappedPages(p) \subseteq busMapped
    BY <2>1, <2>2 DEF IInv, PagesFit, BusFits, UnmappedPages
  <2> QED BY <2>2, <2>3
<1> QED BY <1>1, Invariance, PTL

(* The buffers of a pool lie behind its metadata, within its mapping, as   *)
(* aligned as was asked for, and apart, for any sizes and counts.          *)
THEOREM BuffersLieApart == Spec => []BuffersFit
<1>1. IInv => BuffersFit
  <2> SUFFICES ASSUME IInv, NEW p \in Ready, NEW b \in BufsOf(p)
               PROVE  /\ VirtOf(p, b) >= HdrSize
                      /\ VirtOf(p, b) + pool[p].size <= Cardinality(PagesOf(p)) * PageSize
                      /\ VirtOf(p, b) % pool[p].align = 0
                      /\ \A c \in BufsOf(p) :
                           c < b => VirtOf(p, c) + pool[p].size <= VirtOf(p, b)
    BY DEF BuffersFit
  <2> DEFINE size == pool[p].size
             cnt  == pool[p].cnt
             n    == NumPages(size, cnt)
  <2>1. p \in Pools /\ pool[p].step = "ready" BY DEF Ready
  <2>2. /\ size # 0 /\ cnt \in Counts /\ pool[p].align \in Aligns
        /\ (size % pool[p].align) = 0 /\ size \in 0 .. PageSize
    BY <2>1 DEF IInv, FieldsFit, TypeOK
  <2>3. /\ size \in Nat \ {0} /\ cnt \in Nat /\ b \in 0 .. cnt - 1
        /\ pool[p].align \in Nat \ {0} /\ (HdrSize % pool[p].align) = 0
        /\ HdrSize \in Nat
    <3>1. PageSize \in Nat /\ HdrSize \in Nat BY LayoutAssumption
    <3>2. size \in Nat \ {0} BY <2>2, <3>1
    <3>3. cnt \in Nat BY <2>2, PoolAssumption
    <3>4. b \in 0 .. cnt - 1 BY DEF BufsOf
    <3>5. pool[p].align \in Nat \ {0} /\ (HdrSize % pool[p].align) = 0
      BY <2>2, <3>1, PoolAssumption
    <3> QED BY <3>1, <3>2, <3>3, <3>4, <3>5
  <2>4. Cardinality(PagesOf(p)) = n
    <3>1. n \in Nat BY <2>3, PagesHoldBuffers
    <3> HIDE DEF n
    <3>2. Cardinality(0 .. n - 1) = n BY <3>1, FS_Interval
    <3> QED BY <3>2 DEF PagesOf, n
  <2>5. \A c \in BufsOf(p) : c < b => c \in 0 .. b - 1 BY <2>3 DEF BufsOf
  <2> HIDE DEF size, cnt
  <2>6. /\ BufferAt(size, cnt, b) \in Nat
        /\ HdrSize <= BufferAt(size, cnt, b)
        /\ BufferAt(size, cnt, b) + size <= n * PageSize
        /\ (BufferAt(size, cnt, b) % pool[p].align) = 0
        /\ \A c \in 0 .. b - 1 : BufferAt(size, cnt, c) + size <= BufferAt(size, cnt, b)
    BY <2>2, <2>3, BufferLies
  <2> QED BY <2>3, <2>4, <2>5, <2>6 DEF VirtOf, size, cnt
<1> QED BY <1>1, Invariance, PTL

(* Destruction leaves neither huge pages nor bus mappings, for any sizes.  *)
THEOREM DestructionIsComplete == Spec => DestroyReturnsPages
<1>1. IInv /\ [Next]_vars =>
        [\A p \in Ready : pool'[p].step = "none" =>
           p \notin region' /\ \A m \in busMapped' : m[1] # p]_vars
  <2> SUFFICES ASSUME IInv, Next, NEW p \in Ready, pool'[p].step = "none"
               PROVE  p \notin region' /\ \A m \in busMapped' : m[1] # p
    OBVIOUS
  <2>1. p \in Pools /\ pool[p].step = "ready" BY DEF Ready
  <2>2. Destroy(p)
    <3> USE DEF IInv
    <3>1. ASSUME NEW q \in Pools, q # p, Create(q) PROVE pool'[p] = pool[p]
      <4>1. CASE \E size \in Sizes, cnt \in Counts, align \in Aligns :
                   CreateCall(q, size, cnt, align)
        BY <2>1, <3>1, <4>1 DEF CreateCall, Shaped
      <4>2. CASE AllocStruct(q) \/ AllocQueue(q) \/ AllocPages(q) \/ AllocInfo(q)
        BY <2>1, <3>1, <4>2, GotoChanges, DropChanges
        DEF AllocStruct, AllocQueue, AllocPages, AllocInfo
      <4>3. CASE MapPage(q) BY <2>1, <3>1, <4>3, RecordChanges DEF MapPage
      <4>4. CASE GetBase(q) BY <2>1, <3>1, <4>4, DropChanges DEF GetBase, Shaped
      <4> QED BY <3>1, <4>1, <4>2, <4>3, <4>4 DEF Create
    <3>2. \A q \in Pools : q # p /\ (Alloc(q) \/ Free(q)) => pool'[p] = pool[p]
      BY <2>1, BufferKeepsStep
    <3>3. \A q \in Pools : q # p /\ Destroy(q) => pool'[p] = pool[p]
      BY <2>1, DropChanges DEF Destroy
    <3>4. ~Create(p)
      BY <2>1 DEF Create, CreateCall, AllocStruct, AllocQueue, AllocPages, AllocInfo,
                  MapPage, GetBase, Goto, Drop
    <3>5. Alloc(p) \/ Free(p) => pool'[p].step = "ready" BY <2>1, BufferKeepsStep
    <3>6. ~Register BY <2>1 DEF Register
    <3>7. PICK q \in Pools : Create(q) \/ Alloc(q) \/ Free(q) \/ Destroy(q)
      BY <3>6 DEF Next
    <3>8. pool'[p] # pool[p] BY <2>1
    <3>9. q = p BY <3>1, <3>2, <3>3, <3>7, <3>8
    <3> QED BY <2>1, <3>4, <3>5, <3>7, <3>9
  <2>3. \A m \in busMapped' : m \in Pools \X Int
    BY <2>2 DEF Destroy, IInv, PagesFit, BusFits
  <2> QED BY <2>1, <2>2, <2>3, DestroyReturns
<1> QED BY <1>1, Invariance, PTL DEF Spec, DestroyReturnsPages

-----------------------------------------------------------------------------
(* A pool that is ready has arguments the lemmas of DmaLayoutProofs are    *)
(* about.                                                                  *)
LEMMA ReadyArguments ==
  ASSUME IInv, NEW p \in Ready
  PROVE  /\ p \in Pools
         /\ pool[p].size \in 1 .. PageSize /\ pool[p].size \in Nat \ {0}
         /\ pool[p].cnt \in Counts /\ pool[p].cnt \in Nat
         /\ BufsOf(p) = 0 .. pool[p].cnt - 1
         /\ PageSize \in Nat \ {0}
<1>1. p \in Pools /\ pool[p].step = "ready" BY DEF Ready
<1>2. pool[p].size # 0 /\ pool[p].cnt \in Counts /\ pool[p].size \in 0 .. PageSize
  BY <1>1 DEF IInv, FieldsFit, TypeOK
<1>3. PageSize \in Nat \ {0} BY LayoutAssumption
<1>4. pool[p].size \in 1 .. PageSize /\ pool[p].size \in Nat \ {0} BY <1>2, <1>3
<1> QED BY <1>1, <1>2, <1>3, <1>4, PoolAssumption DEF BufsOf

(* Buffers whose size divides a huge page, and those of a pool of one      *)
(* page, do not spill over, whatever the sizes of page and header.         *)
THEOREM NoSpill == Spec => []NoSpillIfSizeDivides
<1>1. IInv => NoSpillIfSizeDivides
  <2> SUFFICES ASSUME IInv, NEW p \in Ready,
                      (PageSize % pool[p].size) = 0 \/ PagesOf(p) = {0},
                      NEW b \in BufsOf(p)
               PROVE  ~Spills(p, b)
    BY DEF NoSpillIfSizeDivides
  <2> DEFINE size == pool[p].size
             cnt  == pool[p].cnt
             n    == NumPages(size, cnt)
  <2>1. /\ size \in 1 .. PageSize /\ size \in Nat \ {0} /\ cnt \in Nat
        /\ b \in 0 .. cnt - 1
        /\ PageSize \in Nat \ {0}
    BY ReadyArguments
  <2>2. n \in Nat BY <2>1, PagesHoldBuffers
  <2>3. (PageSize % size) = 0 \/ n = 1
    <3>1. PagesOf(p) = 0 .. n - 1 BY DEF PagesOf
    <3> HIDE DEF n
    <3>2. ASSUME 0 .. n - 1 = {0} PROVE n = 1
      <4>1. Cardinality(0 .. n - 1) = n BY <2>2, FS_Interval
      <4>2. Cardinality({0}) = 1 BY FS_Singleton
      <4> QED BY <3>2, <4>1, <4>2
    <3> QED BY <3>1, <3>2
  <2> HIDE DEF size, cnt
  <2>4. (BufferAt(size, cnt, b) % PageSize) + size <= PageSize
    BY <2>1, <2>3, BufferInOnePage
  <2>5. BufferAt(size, cnt, b) \in Nat BY <2>1, BufferLies
  <2>6. ~((BufferAt(size, cnt, b) % PageSize) + size > PageSize)
    <3> HIDE DEF n
    <3>1. BufferAt(size, cnt, b) % PageSize \in Int BY <2>1, <2>5
    <3> QED BY <2>1, <2>4, <3>1
  <2> QED BY <2>6 DEF Spills, VirtOf, size, cnt
<1> QED BY <1>1, Invariance, PTL

-----------------------------------------------------------------------------
(* The addresses a pool holds are those of its pages, and the addresses of *)
(* its buffers are computed from them.  A buffer that is neither free nor  *)
(* out has none.                                                           *)

Recorded(p, i) == IF registered THEN {Bus[p][i]} ELSE {Frame[p][i], Invalid}

PoolAddressesFit(p) ==
  /\ pool[p].step = "none" => DOMAIN pool[p].dma = {}
  /\ \A i \in DOMAIN pool[p].dma : pool[p].dma[i] \in Recorded(p, i)
  /\ \A b \in DOMAIN pool[p].out :
       pool[p].out[b] = PhysOf(pool[p].dma, pool[p].size, pool[p].cnt, VirtOf(p, b))
  /\ pool[p].step = "ready" =>
       \A b \in BufsOf(p) \ (pool[p].free \cup DOMAIN pool[p].out) :
         PhysOf(pool[p].dma, pool[p].size, pool[p].cnt, VirtOf(p, b)) = Invalid

AddressesFit == \A p \in Pools : PoolAddressesFit(p)

LEMMA SamePoolFits ==
  ASSUME AddressesFit, NEW q \in Pools, pool'[q] = pool[q], UNCHANGED registered
  PROVE  PoolAddressesFit(q)'
BY DEF AddressesFit, PoolAddressesFit, Recorded, VirtOf, BufsOf

LEMMA NoPoolFits ==
  ASSUME NEW p \in Pools, pool'[p].step # "ready", DOMAIN pool'[p].dma = {}, DOMAIN pool'[p].out = {}
  PROVE  PoolAddressesFit(p)'
BY DEF PoolAddressesFit

LEMMA SameAddressesFit ==
  ASSUME AddressesFit, NEW p \in Pools, UNCHANGED registered, pool'[p].step # "none",
         pool'[p].step = "ready" => pool'[p].free = BufsOf(p),
         pool'[p].dma = pool[p].dma, pool'[p].out = pool[p].out,
         pool'[p].size = pool[p].size, pool'[p].cnt = pool[p].cnt
  PROVE  PoolAddressesFit(p)'
BY DEF AddressesFit, PoolAddressesFit, Recorded, VirtOf, BufsOf

LEMMA DropFits ==
  ASSUME IInv, AddressesFit, NEW p \in Pools, NEW from, Drop(p, from),
         UNCHANGED registered
  PROVE  AddressesFit'
<1>1. pool'[p] = NoPool /\ \A q \in Pools : q # p => pool'[q] = pool[q]
  BY DropChanges DEF IInv
<1>2. /\ pool'[p].step # "ready"
      /\ DOMAIN pool'[p].dma = {} /\ DOMAIN pool'[p].out = {}
  BY <1>1 DEF NoPool, NoMap
<1> QED BY <1>1, <1>2, NoPoolFits, SamePoolFits DEF AddressesFit

LEMMA GotoFits ==
  ASSUME IInv, AddressesFit, NEW p \in Pools, NEW from, NEW to, Goto(p, from, to),
         to \notin {"none", "ready"}, UNCHANGED registered
  PROVE  AddressesFit'
BY GotoChanges, SameAddressesFit, SamePoolFits DEF IInv, AddressesFit

LEMMA RecordFitsAddresses ==
  ASSUME IInv, AddressesFit, NEW p \in Pools, MapPage(p)
  PROVE  AddressesFit'
<1> DEFINE i == Cardinality(DOMAIN pool[p].dma)
<1>1. /\ pool[p].step = "map" /\ i \in PagesOf(p) /\ UNCHANGED registered
  BY DEF MapPage
<1>2. DOMAIN pool[p].out = {} BY <1>1 DEF IInv, FieldsFit
<1>3. i \in Nat /\ DOMAIN pool[p].dma = 0 .. i - 1
  <2>1. PICK n \in Nat : DOMAIN pool[p].dma = 0 .. n - 1
    BY <1>1 DEF IInv, PagesFit, RecordFits
  <2>2. Cardinality(0 .. n - 1) = n BY FS_Interval
  <2> QED BY <2>1, <2>2
<1>4. ASSUME NEW addr \in Recorded(p, i), RecordPage(p, i, addr)
      PROVE  AddressesFit'
  <2> HIDE DEF i
  <2>1. /\ pool'[p].step \notin {"none", "ready"}
        /\ pool'[p].dma = [j \in 0 .. i |-> IF j = i THEN addr ELSE pool[p].dma[j]]
        /\ DOMAIN pool'[p].out = {}
        /\ \A q \in Pools : q # p => pool'[q] = pool[q]
    BY <1>2, <1>4, RecordChanges DEF IInv, AfterPage
  <2>2. ASSUME NEW j \in DOMAIN pool'[p].dma PROVE pool'[p].dma[j] \in Recorded(p, j)'
    <3>1. j \in 0 .. i BY <2>1
    <3>2. pool'[p].dma[j] = IF j = i THEN addr ELSE pool[p].dma[j] BY <2>1, <3>1
    <3>3. j = i \/ j \in DOMAIN pool[p].dma BY <1>3, <3>1
    <3> QED BY <1>1, <1>4, <3>2, <3>3 DEF AddressesFit, PoolAddressesFit, Recorded
  <2>3. PoolAddressesFit(p)' BY <2>1, <2>2 DEF PoolAddressesFit
  <2> QED BY <1>1, <2>1, <2>3, SamePoolFits DEF AddressesFit
<1>5. CASE UNCHANGED pool BY <1>1, <1>5, SamePoolFits DEF AddressesFit
<1>6. \/ \E addr \in Recorded(p, i) : RecordPage(p, i, addr)
      \/ UNCHANGED pool
  <2> HIDE DEF i
  <2> QED BY DEF MapPage, Virt2Phys, Recorded, i
<1> QED BY <1>4, <1>5, <1>6

LEMMA BufferFits ==
  ASSUME IInv, AddressesFit, NEW p \in Pools, Alloc(p) \/ Free(p)
  PROVE  AddressesFit'
<1> DEFINE phys(b) == PhysOf(pool[p].dma, pool[p].size, pool[p].cnt, VirtOf(p, b))
<1>1. pool[p].step = "ready" /\ UNCHANGED registered BY DEF Alloc, Free
<1>2. ASSUME NEW free, NEW out,
             pool' = [pool EXCEPT ![p].free = free, ![p].out = out],
             \A b \in DOMAIN out : out[b] = phys(b),
             \A b \in BufsOf(p) \ (free \cup DOMAIN out) : phys(b) = Invalid
      PROVE  AddressesFit'
  <2>1. /\ pool'[p].out = out /\ pool'[p].free = free
        /\ pool'[p].step = "ready" /\ pool'[p].dma = pool[p].dma
        /\ pool'[p].size = pool[p].size /\ pool'[p].cnt = pool[p].cnt
        /\ \A q \in Pools : q # p => pool'[q] = pool[q]
    BY <1>1, <1>2 DEF IInv, Shaped, Fields
  <2>2. PoolAddressesFit(p)'
    <3>1. \A i \in DOMAIN pool'[p].dma : pool'[p].dma[i] \in Recorded(p, i)'
      BY <1>1, <2>1 DEF AddressesFit, PoolAddressesFit, Recorded
    <3>2. ASSUME NEW b \in DOMAIN pool'[p].out
          PROVE  pool'[p].out[b] =
                   PhysOf(pool'[p].dma, pool'[p].size, pool'[p].cnt, VirtOf(p, b)')
      <4>1. VirtOf(p, b)' = VirtOf(p, b) BY <2>1 DEF VirtOf
      <4>2. pool'[p].out[b] = phys(b) BY <1>2, <2>1, <3>2
      <4> QED BY <2>1, <4>1, <4>2
    <3>3. ASSUME NEW b \in BufsOf(p)' \ (pool'[p].free \cup DOMAIN pool'[p].out)
          PROVE  PhysOf(pool'[p].dma, pool'[p].size, pool'[p].cnt, VirtOf(p, b)') = Invalid
      <4>1. VirtOf(p, b)' = VirtOf(p, b) /\ BufsOf(p)' = BufsOf(p)
        BY <2>1 DEF VirtOf, BufsOf
      <4>2. phys(b) = Invalid BY <1>2, <2>1, <3>3, <4>1
      <4> QED BY <2>1, <4>1, <4>2
    <3> QED BY <2>1, <3>1, <3>2, <3>3 DEF PoolAddressesFit
  <2> QED BY <1>1, <2>1, <2>2, SamePoolFits DEF AddressesFit
<1>3. /\ \A b \in DOMAIN pool[p].out : pool[p].out[b] = phys(b)
      /\ \A b \in BufsOf(p) \ (pool[p].free \cup DOMAIN pool[p].out) : phys(b) = Invalid
  BY <1>1 DEF AddressesFit, PoolAddressesFit
<1>4. CASE Alloc(p)
  <2>1. PICK b \in pool[p].free :
          pool' = [pool EXCEPT
            ![p].free = @ \ {b},
            ![p].out = IF phys(b) = Invalid THEN @
                       ELSE [c \in DOMAIN @ \cup {b} |-> IF c = b THEN phys(b) ELSE @[c]]]
    BY <1>4 DEF Alloc
  <2> HIDE DEF phys
  <2> DEFINE free == pool[p].free \ {b}
             out  == IF phys(b) = Invalid THEN pool[p].out
                     ELSE [c \in DOMAIN pool[p].out \cup {b} |->
                             IF c = b THEN phys(b) ELSE pool[p].out[c]]
  <2>2. pool' = [pool EXCEPT ![p].free = free, ![p].out = out] BY <2>1
  <2>3. \A c \in DOMAIN out : out[c] = phys(c)
    <3>1. CASE phys(b) = Invalid BY <1>3, <3>1
    <3>2. CASE phys(b) # Invalid
      <4>1. out = [c \in DOMAIN pool[p].out \cup {b} |->
                     IF c = b THEN phys(b) ELSE pool[p].out[c]]
        BY <3>2
      <4> HIDE DEF out
      <4> QED BY <1>3, <4>1
    <3> QED BY <3>1, <3>2
  <2>4. \A c \in BufsOf(p) \ (free \cup DOMAIN out) : phys(c) = Invalid
    <3>1. CASE phys(b) = Invalid BY <1>3, <3>1
    <3>2. CASE phys(b) # Invalid
      <4>1. DOMAIN out = DOMAIN pool[p].out \cup {b} BY <3>2
      <4> HIDE DEF out
      <4> QED BY <1>3, <4>1
    <3> QED BY <3>1, <3>2
  <2> HIDE DEF free, out
  <2> QED BY <1>2, <2>2, <2>3, <2>4 DEF phys
<1>5. CASE Free(p)
  <2>1. PICK b \in DOMAIN pool[p].out :
          pool' = [pool EXCEPT ![p].free = @ \cup {b},
                               ![p].out = [c \in DOMAIN @ \ {b} |-> @[c]]]
    BY <1>5 DEF Free
  <2> DEFINE free == pool[p].free \cup {b}
             out  == [c \in DOMAIN pool[p].out \ {b} |-> pool[p].out[c]]
  <2>2. pool' = [pool EXCEPT ![p].free = free, ![p].out = out] BY <2>1
  <2>3. \A c \in DOMAIN out : out[c] = phys(c) BY <1>3
  <2>4. free \cup DOMAIN out = pool[p].free \cup DOMAIN pool[p].out BY <2>1
  <2>5. \A c \in BufsOf(p) \ (free \cup DOMAIN out) : phys(c) = Invalid BY <1>3, <2>4
  <2> HIDE DEF free, out
  <2> QED BY <1>2, <2>2, <2>3, <2>5
<1> QED BY <1>4, <1>5

(* AddressesFit holds in every reachable state. *)
LEMMA AddressInvariance == Spec => []AddressesFit
<1>1. Init => AddressesFit
  BY DEF Init, AddressesFit, PoolAddressesFit, NoPool, NoMap
<1>2. IInv /\ AddressesFit /\ [Next]_vars => AddressesFit'
  <2> SUFFICES ASSUME IInv, AddressesFit, [Next]_vars PROVE AddressesFit' OBVIOUS
  <2>1. CASE Register
    <3>1. ASSUME NEW p \in Pools
          PROVE  /\ pool'[p].step # "ready"
                 /\ DOMAIN pool'[p].dma = {} /\ DOMAIN pool'[p].out = {}
      BY <2>1 DEF Register, IInv, FieldsFit, AddressesFit, PoolAddressesFit
    <3> QED BY <3>1, NoPoolFits DEF AddressesFit
  <2>2. ASSUME NEW p \in Pools, Create(p) PROVE AddressesFit'
    <3>1. ASSUME NEW size \in Sizes, NEW cnt \in Counts, NEW align \in Aligns,
                 CreateCall(p, size, cnt, align)
          PROVE  AddressesFit'
      <4>1. /\ pool'[p].step # "ready"
            /\ DOMAIN pool'[p].dma = {} /\ DOMAIN pool'[p].out = {}
            /\ \A q \in Pools : q # p => pool'[q] = pool[q]
            /\ UNCHANGED registered
        BY <3>1 DEF CreateCall, IInv, Shaped, Fields, NoPool, NoMap
      <4> QED BY <4>1, NoPoolFits, SamePoolFits DEF AddressesFit
    <3>2. CASE AllocStruct(p) \/ AllocQueue(p) \/ AllocPages(p) \/ AllocInfo(p)
      BY <3>2, GotoFits, DropFits DEF AllocStruct, AllocQueue, AllocPages, AllocInfo
    <3>3. CASE MapPage(p) BY <3>3, RecordFitsAddresses
    <3>4. CASE GetBase(p)
      <4>1. CASE pool' = [pool EXCEPT ![p].step = "ready", ![p].free = BufsOf(p)]
        <5>1. /\ pool'[p].step # "none" /\ pool'[p].free = BufsOf(p)
              /\ pool'[p].dma = pool[p].dma /\ pool'[p].out = pool[p].out
              /\ pool'[p].size = pool[p].size /\ pool'[p].cnt = pool[p].cnt
              /\ \A q \in Pools : q # p => pool'[q] = pool[q]
              /\ UNCHANGED registered
          BY <3>4, <4>1 DEF GetBase, IInv, Shaped, Fields
        <5> QED BY <5>1, SameAddressesFit, SamePoolFits DEF AddressesFit
      <4> QED BY <3>4, <4>1, DropFits DEF GetBase
    <3> QED BY <2>2, <3>1, <3>2, <3>3, <3>4 DEF Create
  <2>3. ASSUME NEW p \in Pools, Alloc(p) \/ Free(p) PROVE AddressesFit'
    BY <2>3, BufferFits
  <2>4. ASSUME NEW p \in Pools, Destroy(p) PROVE AddressesFit'
    BY <2>4, DropFits DEF Destroy
  <2>5. CASE UNCHANGED vars BY <2>5, SamePoolFits DEF vars, AddressesFit
  <2> QED BY <2>1, <2>2, <2>3, <2>4, <2>5 DEF Next
<1> QED BY <1>1, <1>2, Invariance, PTL DEF Spec

-----------------------------------------------------------------------------
(* The addresses of the pages of a pool that is ready lie apart, but for   *)
(* those that were not found.                                              *)
LEMMA PagesLieApart ==
  ASSUME IInv, AddressesFit, NEW p \in Ready
  PROVE  /\ DOMAIN pool[p].dma = PagesOf(p)
         /\ \A i \in PagesOf(p) :
              \/ pool[p].dma[i] = Invalid
              \/ pool[p].dma[i] \in Nat /\ pool[p].dma[i] + PageSize < WordSize
         /\ \A i, k \in PagesOf(p) : i # k =>
              \/ pool[p].dma[i] = Invalid \/ pool[p].dma[k] = Invalid
              \/ Apart(pool[p].dma[i], pool[p].dma[k])
<1> DEFINE pages == 0 .. NumPages(pool[p].size, pool[p].cnt) - 1
<1>1. /\ p \in Pools /\ pool[p].step = "ready"
      /\ pool[p].size \in 0 .. PageSize /\ pool[p].cnt \in Counts
  BY ReadyArguments DEF Ready, IInv, TypeOK
<1>2. PagesOf(p) = pages BY DEF PagesOf
<1>3. \A i \in pages :
        /\ Frame[p][i] \in Nat /\ Frame[p][i] + PageSize < WordSize
        /\ Bus[p][i] \in Nat /\ Bus[p][i] + PageSize < WordSize
        /\ \A k \in pages : k # i =>
             Apart(Frame[p][i], Frame[p][k]) /\ Apart(Bus[p][i], Bus[p][k])
  BY <1>1, AddressAssumption
<1> HIDE DEF pages
<1>4. DOMAIN pool[p].dma = pages BY <1>1, <1>2 DEF IInv, PagesFit, RecordFits, Complete
<1>5. \A i \in pages : pool[p].dma[i] \in Recorded(p, i)
  BY <1>1, <1>4 DEF AddressesFit, PoolAddressesFit
<1> QED BY <1>2, <1>3, <1>4, <1>5 DEF Recorded

(* The bus address of every byte of an allocated buffer leads back to the  *)
(* byte and to the buffer, whatever pages were found.                      *)
THEOREM AddressesAreReversible == Spec => []AddressesLeadBack
<1>1. IInv /\ AddressesFit => AddressesLeadBack
  <2> SUFFICES ASSUME IInv, AddressesFit, NEW p \in Ready,
                      NEW b \in DOMAIN pool[p].out, NEW j \in 0 .. pool[p].size - 1,
                      (VirtOf(p, b) % PageSize) + j < PageSize,
                      pool[p].dma[VirtOf(p, b) \div PageSize] # Invalid
               PROVE  /\ VirtsOf(pool[p].dma, pool[p].out[b] + j) = {VirtOf(p, b) + j}
                      /\ IndexOf(pool[p].size, pool[p].cnt, VirtOf(p, b) + j) = b
    BY DEF AddressesLeadBack
  <2> DEFINE size == pool[p].size
             cnt  == pool[p].cnt
             dma  == pool[p].dma
             v    == VirtOf(p, b)
  <2>1. /\ p \in Pools /\ size \in Nat \ {0} /\ cnt \in Nat /\ BufsOf(p) = 0 .. cnt - 1
    BY ReadyArguments
  <2>2. b \in 0 .. cnt - 1 BY <2>1 DEF IInv, TypeOK
  <2>3. PagesOf(p) = 0 .. NumPages(size, cnt) - 1 BY DEF PagesOf
  <2>4. j \in 0 .. size - 1 /\ j \in Nat
    <3>1. j \in 0 .. size - 1 OBVIOUS
    <3> HIDE DEF size
    <3> QED BY <2>1, <3>1
  <2>5. pool[p].out[b] = PhysOf(dma, size, cnt, v)
    BY <2>1 DEF AddressesFit, PoolAddressesFit
  <2>6. v = BufferAt(size, cnt, b) BY DEF VirtOf
  <2>7. (v % PageSize) + j < PageSize /\ dma[v \div PageSize] # Invalid OBVIOUS
  <2>8. /\ DOMAIN dma = PagesOf(p)
        /\ \A i \in DOMAIN dma :
             dma[i] = Invalid \/ (dma[i] \in Nat /\ dma[i] + PageSize < WordSize)
        /\ \A i, k \in DOMAIN dma :
             i # k => dma[i] = Invalid \/ dma[k] = Invalid \/ Apart(dma[i], dma[k])
    BY PagesLieApart
  <2> HIDE DEF size, cnt, dma, v
  <2>9. /\ v \in Nat /\ v \div PageSize \in DOMAIN dma
        /\ IndexOf(size, cnt, v + j) = b
    BY <2>1, <2>2, <2>3, <2>4, <2>6, <2>8, BufferLies, ByteOfBuffer
  <2>10. VirtsOf(dma, PhysOf(dma, size, cnt, v) + j) = {v + j}
    BY <2>4, <2>7, <2>8, <2>9, AddressLeadsBack
  <2> QED BY <2>5, <2>9, <2>10 DEF size, cnt, dma, v
<1> QED BY <1>1, Invariance, AddressInvariance, PTL

(* No two buffers that are out share a byte on the bus: what a device      *)
(* writes into one of them never lands in the other.  Except what spills   *)
(* over the end of a page, and buffers in pages that were not found.       *)
NoSharedByte ==
  \A p \in Ready : \A b, c \in DOMAIN pool[p].out : \A j, k \in 0 .. pool[p].size - 1 :
    /\ (VirtOf(p, b) % PageSize) + j < PageSize
    /\ (VirtOf(p, c) % PageSize) + k < PageSize
    /\ pool[p].dma[VirtOf(p, b) \div PageSize] # Invalid
    /\ pool[p].dma[VirtOf(p, c) \div PageSize] # Invalid
    /\ pool[p].out[b] + j = pool[p].out[c] + k
    => b = c

THEOREM BuffersShareNoByte == Spec => []NoSharedByte
<1>1. AddressesLeadBack => NoSharedByte
  <2> SUFFICES ASSUME AddressesLeadBack, NEW p \in Ready,
                      NEW b \in DOMAIN pool[p].out, NEW c \in DOMAIN pool[p].out,
                      NEW j \in 0 .. pool[p].size - 1, NEW k \in 0 .. pool[p].size - 1,
                      (VirtOf(p, b) % PageSize) + j < PageSize,
                      (VirtOf(p, c) % PageSize) + k < PageSize,
                      pool[p].dma[VirtOf(p, b) \div PageSize] # Invalid,
                      pool[p].dma[VirtOf(p, c) \div PageSize] # Invalid,
                      pool[p].out[b] + j = pool[p].out[c] + k
               PROVE  b = c
    BY DEF NoSharedByte
  <2> DEFINE virts == VirtsOf(pool[p].dma, pool[p].out[b] + j)
             index(v) == IndexOf(pool[p].size, pool[p].cnt, v)
  <2>1. virts = {VirtOf(p, b) + j} /\ \A v \in virts : index(v) = b
    BY DEF AddressesLeadBack
  <2>2. virts = VirtsOf(pool[p].dma, pool[p].out[c] + k) OBVIOUS
  <2>3. \A v \in virts : index(v) = c BY <2>2 DEF AddressesLeadBack
  <2> HIDE DEF virts, index
  <2> QED BY <2>1, <2>3
<1> QED BY <1>1, AddressesAreReversible, PTL

(* The only buffers that are neither free nor out, which no one will ever  *)
(* have again, are those at the start of a page that was not found; with a *)
(* bus there are none.  DmaFreeList is about the same buffers, Unmapped.   *)
OnlyUnmappedVanish ==
  \A p \in Ready : \A b \in BufsOf(p) \ (pool[p].free \cup DOMAIN pool[p].out) :
    /\ ~registered
    /\ pool[p].dma[VirtOf(p, b) \div PageSize] = Invalid
    /\ VirtOf(p, b) % PageSize = 0

THEOREM BuffersAreKept == Spec => []OnlyUnmappedVanish
<1>1. IInv /\ AddressesFit => OnlyUnmappedVanish
  <2> SUFFICES ASSUME IInv, AddressesFit, NEW p \in Ready,
                      NEW b \in BufsOf(p) \ (pool[p].free \cup DOMAIN pool[p].out)
               PROVE  /\ ~registered
                      /\ pool[p].dma[VirtOf(p, b) \div PageSize] = Invalid
                      /\ VirtOf(p, b) % PageSize = 0
    BY DEF OnlyUnmappedVanish
  <2> DEFINE size == pool[p].size
             cnt  == pool[p].cnt
             dma  == pool[p].dma
             v    == VirtOf(p, b)
             i    == v \div PageSize
  <2>1. /\ p \in Pools /\ pool[p].step = "ready"
        /\ size \in Nat \ {0} /\ cnt \in Nat /\ b \in 0 .. cnt - 1
    BY ReadyArguments DEF Ready
  <2>2. size \in 0 .. PageSize /\ cnt \in Counts
    BY <2>1, ReadyArguments DEF IInv, TypeOK
  <2>3. PhysOf(dma, size, cnt, v) = Invalid
    BY <2>1 DEF AddressesFit, PoolAddressesFit
  <2>4. /\ DOMAIN dma = PagesOf(p)
        /\ \A k \in PagesOf(p) :
             dma[k] = Invalid \/ (dma[k] \in Nat /\ dma[k] + PageSize < WordSize)
    BY PagesLieApart
  <2>5. PagesOf(p) = 0 .. NumPages(size, cnt) - 1 /\ v = BufferAt(size, cnt, b)
    BY DEF PagesOf, VirtOf
  <2>6. \A k \in DOMAIN dma : dma[k] \in Recorded(p, k)
    BY <2>1 DEF AddressesFit, PoolAddressesFit
  <2> HIDE DEF size, cnt, dma, v, i
  <2>7. v \in Nat /\ i \in PagesOf(p)
    <3>1. 0 \in 0 .. size - 1 BY <2>1
    <3> QED BY <2>1, <2>5, <3>1, BufferLies, ByteOfBuffer DEF i
  <2>8. dma[i] = Invalid /\ (v % PageSize) = 0
    BY <2>3, <2>4, <2>7, InvalidOnlyAtStart DEF i
  <2>9. ~registered
    <3> SUFFICES ASSUME registered PROVE FALSE OBVIOUS
    <3>1. dma[i] = Bus[p][i] BY <2>4, <2>6, <2>7 DEF Recorded
    <3>2. Bus[p][i] \in Nat /\ Bus[p][i] + PageSize < WordSize
      BY <2>1, <2>2, <2>5, <2>7, AddressAssumption
    <3> QED BY <2>8, <3>1, <3>2, LayoutAssumption DEF Invalid
  <2> QED BY <2>8, <2>9 DEF size, cnt, dma, v, i
<1> QED BY <1>1, Invariance, AddressInvariance, PTL
=============================================================================
