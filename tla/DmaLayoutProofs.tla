--------------------------- MODULE DmaLayoutProofs ---------------------------
(***************************************************************************)
(* What the address arithmetic of DmaLayout guarantees, for pages and      *)
(* headers of any size: buffers of an aligned size lie behind the header,  *)
(* aligned and apart from each other, within the pages of the pool.        *)
(***************************************************************************)
EXTENDS DmaLayout, TLAPS

-----------------------------------------------------------------------------
(* Quotients, remainders and products. *)

LEMMA Quotient ==
  ASSUME NEW n \in Nat, NEW a \in Nat \ {0}
  PROVE  /\ n \div a \in Nat
         /\ (n % a) \in 0 .. a - 1
         /\ n = (n \div a) * a + (n % a)
OBVIOUS

LEMMA Multiple ==
  ASSUME NEW k \in Nat, NEW a \in Nat \ {0}
  PROVE  ((k * a) % a) = 0 /\ (k * a) \div a = k
OBVIOUS

LEMMA ProductOrder ==
  ASSUME NEW k \in Nat, NEW n \in Nat, k < n, NEW a \in Nat
  PROVE  k * a + a <= n * a
OBVIOUS

LEMMA SumOfMultiples ==
  ASSUME NEW k \in Nat, NEW n \in Nat, NEW a \in Nat \ {0}, (k % a) = 0, (n % a) = 0
  PROVE  ((k + n) % a) = 0
<1> DEFINE i == k \div a
           j == n \div a
<1>1. i \in Nat /\ j \in Nat /\ k = i * a /\ n = j * a BY Quotient
<1> HIDE DEF i, j
<1>2. i + j \in Nat /\ k + n = (i + j) * a BY <1>1
<1> QED BY <1>2, Multiple

LEMMA MultipleOfMultiple ==
  ASSUME NEW k \in Nat, NEW n \in Nat, NEW a \in Nat \ {0}, (n % a) = 0
  PROVE  ((k * n) % a) = 0
<1> DEFINE j == n \div a
<1>1. j \in Nat /\ n = j * a BY Quotient
<1> HIDE DEF j
<1>2. k * j \in Nat /\ k * n = (k * j) * a BY <1>1
<1> QED BY <1>2, Multiple

LEMMA DividesIsTransitive ==
  ASSUME NEW n \in Nat, NEW k \in Nat \ {0}, NEW a \in Nat \ {0},
         (n % k) = 0, (k % a) = 0
  PROVE  (n % a) = 0
<1> DEFINE j == n \div k
<1>1. j \in Nat /\ n = j * k BY Quotient
<1> HIDE DEF j
<1>2. k \in Nat /\ ((j * k) % a) = 0 BY <1>1, MultipleOfMultiple
<1> QED BY <1>1, <1>2

-----------------------------------------------------------------------------
(* conv_to_next_aligned gives the next multiple, which is not past a       *)
(* multiple that is at least the value.                                    *)
LEMMA NextAlignedIsNext ==
  ASSUME NEW val \in Nat, NEW align \in Nat \ {0}
  PROVE  /\ NextAligned(val, align) \in Nat
         /\ (NextAligned(val, align) % align) = 0
         /\ val <= NextAligned(val, align)
         /\ \A n \in Nat : (n % align) = 0 /\ val <= n => NextAligned(val, align) <= n
<1>1. CASE (val % align) = 0 BY <1>1 DEF NextAligned
<1>2. CASE (val % align) # 0
  <2> DEFINE k == val \div align
  <2>1. k \in Nat /\ val = k * align + (val % align) /\ (val % align) \in 1 .. align - 1
    BY <1>2, Quotient
  <2> HIDE DEF k
  <2>2. NextAligned(val, align) = (k + 1) * align BY <1>2 DEF NextAligned, k
  <2>3. (k + 1) * align = k * align + align BY <2>1
  <2>4. k + 1 \in Nat /\ (k + 1) * align \in Nat BY <2>1
  <2>5. ASSUME NEW n \in Nat, (n % align) = 0, val <= n PROVE (k + 1) * align <= n
    <3> DEFINE j == n \div align
    <3>1. j \in Nat /\ n = j * align BY <2>5, Quotient
    <3> HIDE DEF j
    <3>2. k < j
      <4> SUFFICES ASSUME j <= k PROVE FALSE BY <2>1, <3>1
      <4>1. j * align <= k * align BY <2>1, <3>1
      <4>2. k * align \in Nat /\ j * align \in Nat BY <2>1, <3>1
      <4> QED BY <2>1, <2>5, <3>1, <4>1, <4>2
    <3> QED BY <2>1, <2>3, <3>1, <3>2, ProductOrder
  <2> QED BY <2>1, <2>2, <2>3, <2>4, <2>5, Multiple
<1> QED BY <1>1, <1>2

(* The size stays within a huge page when it is aligned. *)
LEMMA AlignedSizeFits ==
  ASSUME NEW size \in Nat, NEW align \in Nat \ {0}, size <= PageSize,
         (HdrSize % align) = 0
  PROVE  /\ NextAligned(size, align) \in size .. PageSize
         /\ (NextAligned(size, align) % align) = 0
<1>1. PageSize \in Nat /\ HdrSize \in Nat \ {0} /\ (PageSize % HdrSize) = 0
  BY LayoutAssumption
<1>2. (PageSize % align) = 0 BY <1>1, DividesIsTransitive
<1> QED BY <1>1, <1>2, NextAlignedIsNext

(* The buffers start behind the header, at a multiple of every alignment   *)
(* that divides the header.                                                *)
LEMMA HeaderFits ==
  ASSUME NEW size \in Nat \ {0}, NEW cnt \in Nat
  PROVE  /\ HeaderOffset(size, cnt) \in Nat
         /\ HdrSize <= HeaderOffset(size, cnt)
         /\ \A align \in Nat \ {0} :
              (HdrSize % align) = 0 => (HeaderOffset(size, cnt) % align) = 0
<1>1. HdrSize \in Nat \ {0} BY LayoutAssumption
<1> DEFINE n == NextAligned(size, HdrSize)
<1>2. n \in Nat /\ (n % HdrSize) = 0 /\ size <= n BY <1>1, NextAlignedIsNext
<1>3. HeaderOffset(size, cnt) = n \/ HeaderOffset(size, cnt) = HdrSize
  BY DEF HeaderOffset
<1> HIDE DEF n
<1>4. HdrSize <= n
  <2> DEFINE j == n \div HdrSize
  <2>1. j \in Nat /\ n = j * HdrSize BY <1>1, <1>2, Quotient
  <2> HIDE DEF j
  <2>2. 0 < j
    <3> SUFFICES ASSUME j = 0 PROVE FALSE BY <2>1
    <3> QED BY <1>1, <1>2, <2>1
  <2> QED BY <1>1, <2>1, <2>2, ProductOrder
<1>5. \A align \in Nat \ {0} : (HdrSize % align) = 0 => (n % align) = 0
  BY <1>1, <1>2, DividesIsTransitive
<1> QED BY <1>1, <1>2, <1>3, <1>4, <1>5

(* The pages of a pool have room for the header and for all buffers. *)
LEMMA PagesHoldBuffers ==
  ASSUME NEW size \in Nat \ {0}, NEW cnt \in Nat
  PROVE  /\ NumPages(size, cnt) \in Nat
         /\ HeaderOffset(size, cnt) + cnt * size <= NumPages(size, cnt) * PageSize
<1> DEFINE need == size * cnt + HeaderOffset(size, cnt)
           k    == (need + PageSize - 1) \div PageSize
<1>1. PageSize \in Nat \ {0} BY LayoutAssumption
<1>2. need \in Nat /\ need = HeaderOffset(size, cnt) + cnt * size
  <2>1. HeaderOffset(size, cnt) \in Nat BY HeaderFits
  <2>2. size * cnt \in Nat /\ size * cnt = cnt * size OBVIOUS
  <2> QED BY <2>1, <2>2
<1>3. NumPages(size, cnt) = (k * PageSize) \div PageSize BY DEF NumPages, AlignToPage
<1> HIDE DEF need
<1>4. need + PageSize - 1 \in Nat BY <1>1, <1>2
<1>5. /\ k \in Nat
      /\ need + PageSize - 1 = k * PageSize + ((need + PageSize - 1) % PageSize)
      /\ ((need + PageSize - 1) % PageSize) \in 0 .. PageSize - 1
  BY <1>1, <1>4, Quotient
<1> HIDE DEF k
<1>6. NumPages(size, cnt) = k BY <1>1, <1>3, <1>5, Multiple
<1>7. k * PageSize \in Nat BY <1>1, <1>5
<1>8. need <= k * PageSize BY <1>1, <1>2, <1>5, <1>7
<1> QED BY <1>2, <1>5, <1>6, <1>8

(* Each buffer lies behind the header, in the pages of the pool, aligned,  *)
(* and behind the buffers before it.                                       *)
LEMMA BufferLies ==
  ASSUME NEW size \in Nat \ {0}, NEW cnt \in Nat, NEW b \in 0 .. cnt - 1
  PROVE  /\ BufferAt(size, cnt, b) \in Nat
         /\ HdrSize <= BufferAt(size, cnt, b)
         /\ BufferAt(size, cnt, b) + size <= NumPages(size, cnt) * PageSize
         /\ \A align \in Nat \ {0} :
              (HdrSize % align) = 0 /\ (size % align) = 0
                => (BufferAt(size, cnt, b) % align) = 0
         /\ \A c \in 0 .. b - 1 :
              BufferAt(size, cnt, c) + size <= BufferAt(size, cnt, b)
<1> DEFINE h == HeaderOffset(size, cnt)
<1>1. b \in Nat /\ b < cnt OBVIOUS
<1>2. h \in Nat /\ HdrSize <= h BY HeaderFits
<1>3. b * size \in Nat BY <1>1
<1>4. b * size + size <= cnt * size BY <1>1, ProductOrder
<1>5. h + cnt * size <= NumPages(size, cnt) * PageSize BY PagesHoldBuffers
<1>6. ASSUME NEW align \in Nat \ {0}, (HdrSize % align) = 0, (size % align) = 0
      PROVE  ((h + b * size) % align) = 0
  <2>1. (h % align) = 0 BY <1>6, HeaderFits
  <2>2. ((b * size) % align) = 0 BY <1>1, <1>6, MultipleOfMultiple
  <2> QED BY <1>2, <1>3, <2>1, <2>2, SumOfMultiples
<1>7. ASSUME NEW c \in 0 .. b - 1 PROVE h + c * size + size <= h + b * size
  <2>1. c \in Nat /\ c < b /\ c * size \in Nat BY <1>1
  <2>2. c * size + size <= b * size BY <1>1, <2>1, ProductOrder
  <2> QED BY <1>2, <1>3, <2>1, <2>2
<1>8. HdrSize \in Nat /\ PageSize \in Nat /\ NumPages(size, cnt) \in Nat
  BY LayoutAssumption, PagesHoldBuffers
<1>9. cnt * size \in Nat /\ NumPages(size, cnt) * PageSize \in Nat BY <1>8
<1> HIDE DEF h
<1>10. h + b * size \in Nat /\ HdrSize <= h + b * size BY <1>2, <1>3, <1>8
<1>11. h + b * size + size <= NumPages(size, cnt) * PageSize
  BY <1>2, <1>3, <1>4, <1>5, <1>9
<1> QED BY <1>6, <1>7, <1>10, <1>11 DEF BufferAt, h

-----------------------------------------------------------------------------
(* Buffers and huge pages. *)

(* What has a multiple of its size as its address does not reach over the  *)
(* end of a page whose size is a multiple, too.                            *)
LEMMA MultiplesStayInPages ==
  ASSUME NEW v \in Nat, NEW size \in Nat \ {0}, NEW page \in Nat \ {0},
         (page % size) = 0, (v % size) = 0
  PROVE  (v % page) + size <= page
<1> DEFINE k == v \div size
           m == page \div size
           q == v \div page
           r == v % page
<1>1. k \in Nat /\ v = k * size /\ m \in Nat /\ page = m * size BY Quotient
<1>2. q \in Nat /\ r \in 0 .. page - 1 /\ v = q * page + r BY Quotient
<1> HIDE DEF k, m, q, r
<1>3. q * m \in Nat /\ q * page = (q * m) * size BY <1>1, <1>2
<1> DEFINE n == k - q * m
<1>4. n \in Int /\ r = n * size BY <1>1, <1>2, <1>3
<1> HIDE DEF n
<1>5. n < m
  <2> SUFFICES ASSUME m <= n PROVE FALSE BY <1>1, <1>4
  <2>1. m * size <= n * size BY <1>1, <1>4
  <2> QED BY <1>1, <1>2, <1>4, <2>1
<1>6. (n + 1) * size <= m * size BY <1>1, <1>4, <1>5
<1>7. (n + 1) * size = n * size + size BY <1>4
<1> QED BY <1>1, <1>4, <1>6, <1>7 DEF r

(* A buffer whose size divides a huge page, or in a pool of one page, lies *)
(* in one page.                                                            *)
LEMMA BufferInOnePage ==
  ASSUME NEW size \in 1 .. PageSize, NEW cnt \in Nat, NEW b \in 0 .. cnt - 1,
         (PageSize % size) = 0 \/ NumPages(size, cnt) = 1
  PROVE  (BufferAt(size, cnt, b) % PageSize) + size <= PageSize
<1> DEFINE v == BufferAt(size, cnt, b)
           h == HeaderOffset(size, cnt)
<1>1. PageSize \in Nat \ {0} /\ HdrSize \in Nat \ {0} /\ size \in Nat \ {0}
  BY LayoutAssumption
<1>2. v \in Nat /\ v + size <= NumPages(size, cnt) * PageSize BY <1>1, BufferLies
<1>3. h \in Nat BY <1>1, HeaderFits
<1>4. ASSUME v + size <= PageSize PROVE (v % PageSize) + size <= PageSize
  <2> HIDE DEF v
  <2>1. v < PageSize BY <1>1, <1>2, <1>4
  <2> QED BY <1>1, <1>2, <1>4, <2>1
<1>5. CASE NumPages(size, cnt) = 1
  <2>1. NumPages(size, cnt) * PageSize = PageSize BY <1>1, <1>5
  <2> QED BY <1>2, <1>4, <2>1
<1>6. CASE (PageSize % size) = 0 /\ size * cnt + HdrSize <= PageSize
  <2>1. ~(size * cnt + HdrSize > PageSize)
    <3>1. size * cnt \in Nat BY <1>1
    <3> QED BY <1>1, <1>6, <3>1
  <2>2. h = HdrSize BY <2>1 DEF HeaderOffset
  <2>3. b \in Nat /\ b < cnt OBVIOUS
  <2>4. b * size + size <= cnt * size BY <1>1, <2>3, ProductOrder
  <2>5. b * size \in Nat /\ cnt * size \in Nat /\ cnt * size = size * cnt BY <1>1, <2>3
  <2>6. HdrSize + b * size + size <= PageSize
    <3> HIDE DEF v, h
    <3> QED BY <1>1, <1>6, <2>4, <2>5
  <2>7. v = HdrSize + b * size BY <2>2 DEF BufferAt
  <2> QED BY <1>4, <2>6, <2>7
<1>7. CASE (PageSize % size) = 0 /\ size * cnt + HdrSize > PageSize
  <2>1. h = NextAligned(size, HdrSize) BY <1>7 DEF HeaderOffset
  <2>2. (h % size) = 0
    <3>1. CASE (HdrSize % size) = 0 BY <1>1, <3>1, HeaderFits
    <3>2. CASE (size % HdrSize) = 0
      <4>1. h = size BY <2>1, <3>2 DEF NextAligned
      <4> HIDE DEF h
      <4> QED BY <1>1, <4>1
    <3> QED BY <1>7, <3>1, <3>2, PowersAssumption
  <2>3. b * size \in Nat /\ ((b * size) % size) = 0 BY <1>1, Multiple
  <2>4. (v % size) = 0
    <3> HIDE DEF h
    <3>1. ((h + b * size) % size) = 0 BY <1>1, <1>3, <2>2, <2>3, SumOfMultiples
    <3> QED BY <3>1 DEF BufferAt, h
  <2>5. (PageSize % size) = 0 BY <1>7
  <2> HIDE DEF v, h
  <2>6. (v % PageSize) + size <= PageSize
    BY <1>1, <1>2, <2>4, <2>5, MultiplesStayInPages
  <2> QED BY <2>6 DEF v
<1>8. size * cnt + HdrSize <= PageSize \/ size * cnt + HdrSize > PageSize
  <2>1. size * cnt \in Nat BY <1>1
  <2> QED BY <1>1, <2>1
<1> QED BY <1>5, <1>6, <1>7, <1>8

(* The pages a buffer starts in, and the buffer each of its bytes is in.   *)
LEMMA ByteOfBuffer ==
  ASSUME NEW size \in Nat \ {0}, NEW cnt \in Nat, NEW b \in 0 .. cnt - 1,
         NEW j \in 0 .. size - 1
  PROVE  /\ BufferAt(size, cnt, b) \div PageSize \in 0 .. NumPages(size, cnt) - 1
         /\ IndexOf(size, cnt, BufferAt(size, cnt, b) + j) = b
<1> DEFINE v == BufferAt(size, cnt, b)
           n == NumPages(size, cnt)
           q == v \div PageSize
<1>1. PageSize \in Nat \ {0} BY LayoutAssumption
<1>2. v \in Nat /\ v + size <= n * PageSize BY BufferLies
<1>3. n \in Nat BY PagesHoldBuffers
<1>4. q \in 0 .. n - 1
  <2> HIDE DEF v, n
  <2>1. /\ q \in Nat /\ (v % PageSize) \in 0 .. PageSize - 1
        /\ v = q * PageSize + (v % PageSize)
    BY <1>1, <1>2, Quotient
  <2> HIDE DEF q
  <2>2. q < n
    <3> SUFFICES ASSUME n <= q PROVE FALSE BY <1>3, <2>1
    <3>1. n * PageSize <= q * PageSize BY <1>1, <1>3, <2>1
    <3>2. n * PageSize \in Nat /\ q * PageSize \in Nat BY <1>1, <1>3, <2>1
    <3> QED BY <1>1, <1>2, <2>1, <3>1, <3>2
  <2> QED BY <1>3, <2>1, <2>2
<1>5. IndexOf(size, cnt, v + j) = b
  <2> DEFINE h == HeaderOffset(size, cnt)
  <2>1. h \in Nat BY HeaderFits
  <2>2. b \in Nat /\ b * size \in Nat /\ v = h + b * size BY DEF BufferAt
  <2> HIDE DEF h, v
  <2>3. (v + j) - h = b * size + j BY <2>1, <2>2
  <2>4. (b * size + j) \div size = b BY <2>2
  <2> QED BY <2>3, <2>4 DEF IndexOf, h
<1> QED BY <1>4, <1>5

-----------------------------------------------------------------------------
(* If the pages whose addresses were found lie apart, the address of a     *)
(* byte of such a page leads back to it, whatever pages were not found:    *)
(* the end of a page at the invalid address wraps around to before it.     *)
LEMMA AddressLeadsBack ==
  ASSUME NEW dma, NEW size, NEW cnt, NEW v \in Nat, NEW j \in Nat,
         (v % PageSize) + j < PageSize,
         v \div PageSize \in DOMAIN dma, dma[v \div PageSize] # Invalid,
         \A i \in DOMAIN dma :
           dma[i] = Invalid \/ (dma[i] \in Nat /\ dma[i] + PageSize < WordSize),
         \A i, k \in DOMAIN dma :
           i # k => dma[i] = Invalid \/ dma[k] = Invalid \/ Apart(dma[i], dma[k])
  PROVE  VirtsOf(dma, PhysOf(dma, size, cnt, v) + j) = {v + j}
<1> DEFINE q    == v \div PageSize
           r    == v % PageSize
           a    == dma[q]
           addr == a + r + j
<1>1. PageSize \in Nat \ {0} /\ WordSize \in Nat /\ PageSize < WordSize
  BY LayoutAssumption
<1>2. q \in Nat /\ r \in 0 .. PageSize - 1 /\ v = q * PageSize + r BY <1>1, Quotient
<1>3. q \in DOMAIN dma /\ a # Invalid /\ r + j < PageSize OBVIOUS
<1>4. a \in Nat /\ a + PageSize < WordSize BY <1>3
<1> HIDE DEF q, r, a
<1>5. PhysOf(dma, size, cnt, v) + j = addr
  <2>1. (a + r) % WordSize = a + r BY <1>1, <1>2, <1>4
  <2> QED BY <2>1 DEF PhysOf, q, r, a
<1>6. addr \in Nat /\ a <= addr /\ addr < a + PageSize BY <1>1, <1>2, <1>3, <1>4
<1> HIDE DEF addr
<1>7. ASSUME NEW i \in DOMAIN dma
      PROVE  dma[i] <= addr /\ addr < (dma[i] + PageSize) % WordSize <=> i = q
  <2>1. CASE i = q
    <3>1. dma[i] = a BY <2>1 DEF a
    <3>2. (a + PageSize) % WordSize = a + PageSize BY <1>1, <1>4
    <3> QED BY <1>6, <2>1, <3>1, <3>2
  <2>2. CASE i # q /\ dma[i] = Invalid
    <3>1. ~(Invalid <= addr) BY <1>1, <1>4, <1>6 DEF Invalid
    <3> QED BY <2>2, <3>1
  <2>3. CASE i # q /\ dma[i] # Invalid
    <3> DEFINE d == dma[i]
    <3>1. d \in Nat /\ d + PageSize < WordSize BY <2>3
    <3>2. Apart(d, a) BY <1>3, <2>3 DEF a
    <3> HIDE DEF d
    <3>3. (d + PageSize) % WordSize = d + PageSize BY <1>1, <3>1
    <3>4. ~(d <= addr /\ addr < d + PageSize)
      BY <1>1, <1>4, <1>6, <3>1, <3>2 DEF Apart
    <3> QED BY <2>3, <3>3, <3>4 DEF d
  <2> QED BY <2>1, <2>2, <2>3
<1> DEFINE hits == {i \in DOMAIN dma :
                      dma[i] <= addr /\ addr < (dma[i] + PageSize) % WordSize}
<1>8. hits = {q} BY <1>3, <1>7
<1>9. VirtsOf(dma, addr) =
        {i * PageSize + (addr - dma[i]) : i \in {k \in hits : \A l \in hits : k <= l}}
  BY DEF VirtsOf
<1> HIDE DEF hits
<1>10. {k \in hits : \A l \in hits : k <= l} = {q} BY <1>2, <1>8
<1>11. VirtsOf(dma, addr) = {q * PageSize + (addr - a)} BY <1>9, <1>10 DEF a
<1>12. q * PageSize + (addr - a) = v + j
  <2>1. q * PageSize \in Nat BY <1>1, <1>2
  <2>2. addr - a = r + j BY <1>2, <1>4 DEF addr
  <2> QED BY <1>2, <2>1, <2>2
<1> QED BY <1>5, <1>11, <1>12

(* The invalid address is computed only at the start of a page that was    *)
(* not found.                                                              *)
LEMMA InvalidOnlyAtStart ==
  ASSUME NEW dma, NEW size, NEW cnt, NEW v \in Nat,
         \/ dma[v \div PageSize] = Invalid
         \/ /\ dma[v \div PageSize] \in Nat
            /\ dma[v \div PageSize] + PageSize < WordSize,
         PhysOf(dma, size, cnt, v) = Invalid
  PROVE  dma[v \div PageSize] = Invalid /\ (v % PageSize) = 0
<1> DEFINE a == dma[v \div PageSize]
           r == v % PageSize
<1>1. PageSize \in Nat \ {0} /\ WordSize \in Nat /\ PageSize < WordSize
  BY LayoutAssumption
<1>2. r \in 0 .. PageSize - 1 BY <1>1, Quotient
<1>3. (a + r) % WordSize = WordSize - 1 BY DEF PhysOf, Invalid
<1>4. a = WordSize - 1 \/ (a \in Nat /\ a + PageSize < WordSize) BY DEF Invalid
<1> HIDE DEF a, r
<1>5. a = WordSize - 1
  <2> SUFFICES ASSUME a \in Nat, a + PageSize < WordSize PROVE FALSE BY <1>4
  <2>1. (a + r) % WordSize = a + r BY <1>1, <1>2
  <2> QED BY <1>1, <1>2, <1>3, <2>1
<1>6. r = 0
  <2> SUFFICES ASSUME r # 0 PROVE FALSE OBVIOUS
  <2>1. (a + r) % WordSize = r - 1 BY <1>1, <1>2, <1>5
  <2> QED BY <1>1, <1>2, <1>3, <2>1
<1> QED BY <1>5, <1>6 DEF Invalid, a, r
=============================================================================
