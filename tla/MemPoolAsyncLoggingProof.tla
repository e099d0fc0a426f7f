---------------------- MODULE MemPoolAsyncLoggingProof ----------------------
(***************************************************************************)
(* MemPool.  For any layout of the structures, any pool size and any       *)
(* sequence of calls: until an aligned start has passed the end of a block *)
(* memory handed out lies in its block and does not overlap, wherever the  *)
(* blocks are; only then does memory leave its block; and every large      *)
(* allocation is in exactly one record, whose memory stays its own.        *)
(*                                                                         *)
(* AsyncLogging, with its LogFile (second half).  For any sizes of buffers *)
(* and files, any periods and any number of lines: no line is lost,        *)
(* repeated or reordered but by the announced drop, the assertions of      *)
(* threadFunc hold, files have different names, and a file is too large    *)
(* only in the second in which it was opened.                              *)
(***************************************************************************)
EXTENDS MemPool, AsyncLogging, SequenceTheorems, FiniteSetTheorems, WellFoundedInduction, TLAPS

-----------------------------------------------------------------------------
(* MemPool *)

\* A block ends Size behind where its memory begins, and its free part begins
\* inside or behind it, never before it.
BlocksSound ==
    \A i \in 1 .. Len(blocks) :
        /\ blocks[i].end = FreeFrom(i) + Size
        /\ blocks[i].last >= FreeFrom(i)

\* A pool that does not exist has nothing.
NothingLeft ==
    status = "none" => blocks = <<>> /\ large = <<>> /\ given = {} /\ heap = {}

\* What was handed out is not empty, and its block exists.
RegionsReal ==
    \A r \in given : r.blk \in 1 .. Len(blocks) /\ r.lo < r.hi

\* What was handed out lies behind the structures of its block, before the offset
\* from which the next allocation is cut, and apart from the rest of the block's.
CutApart ==
    /\ \A r \in given : FreeFrom(r.blk) <= r.lo /\ r.hi <= blocks[r.blk].last
    /\ \A r, s \in given : r # s /\ r.blk = s.blk => r.hi <= s.lo \/ s.hi <= r.lo

\* The next allocation is cut from within the block, unless memory behind the block
\* has been handed out.
LastInside ==
    status = "live" => \A i \in 1 .. Len(blocks) : blocks[i].last <= blocks[i].end

\* A block counts no more than five failures before current is moved behind it.
NotTired == \A i \in 1 .. Len(blocks) : i >= current => blocks[i].failed <= 5

PoolInv ==
    /\ TypeOK
    /\ BlocksSound
    /\ NothingLeft
    /\ RegionsReal
    /\ CutApart
    /\ LastInside
    /\ InsideOrBeyond
    /\ LargeOnce
    /\ RecordsKept
    /\ NotTired
    /\ GivenUpWhenTired

-----------------------------------------------------------------------------
(* Arithmetic and choice *)

LEMMA Layout ==
  /\ Alignment \in Nat /\ Alignment > 0
  /\ PoolHeader \in Nat /\ NodeHeader \in Nat /\ Record \in Nat /\ Size \in Nat
  /\ Record > 0 /\ Size > 0 /\ MaxBlocks >= 1
  /\ MaxBlocks \in Nat /\ SizeT \in Nat /\ SizeT > 0
  /\ max \in Nat /\ max <= Size
  BY LayoutAssumption, BoundAssumption DEF max

LEMMA FreeFromBounds ==
  ASSUME NEW i
  PROVE  base(i) \in Nat /\ FreeFrom(i) \in Nat /\ FreeFrom(i) + Size < SizeT
  BY Layout, BoundAssumption DEF base, FreeFrom

\* The fields of blocks and of places are numbers.
LEMMA Fields ==
  /\ \A b \in Block : b.last \in Nat /\ b.end \in Nat /\ b.failed \in Nat
  /\ \A r \in Place : r.blk \in Nat /\ r.lo \in Nat /\ r.hi \in Nat
  BY Layout DEF Block, Place

\* Aligning a pointer does not move it back, and leaves an aligned one alone.
LEMMA Align ==
  ASSUME NEW p \in Nat
  PROVE  /\ mp_align_ptr(p) \in Nat /\ mp_align_ptr(p) >= p
         /\ p % Alignment = 0 => mp_align_ptr(p) = p
  <1> DEFINE q == (p + Alignment - 1) \div Alignment
  <1>1. Alignment \in Nat /\ Alignment > 0
    BY Layout
  <1>2. q \in Nat /\ q * Alignment <= p + Alignment - 1 /\ p + Alignment - 1 < q * Alignment + Alignment
    BY <1>1
  <1>3. q * Alignment \in Nat /\ q * Alignment >= p
    BY <1>1, <1>2
  <1>4. ASSUME p % Alignment = 0 PROVE q * Alignment = p
    <2>1. PICK k \in Nat : p = k * Alignment
      BY <1>1, <1>4
    <2>2. q * Alignment < (k + 1) * Alignment /\ q * Alignment >= k * Alignment
      BY <1>1, <1>2, <2>1
    <2>3. q < k + 1 /\ q >= k
      BY <1>1, <1>2, <2>2
    <2> QED
      BY <1>2, <2>1, <2>3
  <1> QED
    BY <1>3, <1>4 DEF mp_align_ptr

LEMMA FunctionIsSeq ==
  ASSUME NEW n \in Nat, NEW S, NEW f \in [1 .. n -> S]
  PROVE  f \in Seq(S) /\ Len(f) = n
  OBVIOUS

\* A set of numbers that is not empty has a least one.
LEMMA Least ==
  ASSUME NEW S \in SUBSET Nat, S # {}
  PROVE  First(S) \in S /\ \A j \in S : First(S) <= j
  <1>1. \E x \in S : \A y \in S : ~(<<y, x>> \in OpToRel(<, Nat))
    BY NatLessThanWellFounded, WFMin
  <1>2. ASSUME NEW x \in Nat, NEW y \in Nat, y < x
        PROVE  <<y, x>> \in OpToRel(<, Nat)
    BY <1>2, Zenon DEF OpToRel
  <1>3. PICK x \in S : \A y \in S : ~(<<y, x>> \in OpToRel(<, Nat))
    BY <1>1, Zenon
  <1>4. \A y \in S : ~(y < x)
    BY <1>2, <1>3, Zenon
  <1>5. \E z \in S : \A y \in S : z <= y
    BY <1>4
  <1> QED
    BY <1>5 DEF First

\* A bounded set of numbers that is not empty has a greatest one.
LEMMA Greatest ==
  ASSUME NEW n \in Nat, NEW S \in SUBSET (0 .. n), S # {}
  PROVE  \E x \in S : \A y \in S : y <= x
  <1> DEFINE T == {n - x : x \in S}
  <1>1. T \in SUBSET Nat /\ T # {}
    <2>1. \A x \in S : n - x \in Nat
      OBVIOUS
    <2> QED
      BY <2>1
  <1>2. PICK t \in T : \A y \in T : t <= y
    BY <1>1, Least
  <1>3. PICK x \in S : t = n - x
    BY <1>2
  <1>4. \A y \in S : n - y \in T
    OBVIOUS
  <1> QED
    BY <1>2, <1>3, <1>4

-----------------------------------------------------------------------------
(* Small allocations *)

\* One more region, cut from what its block had left, overlaps no other.
LEMMA AddRegion ==
  ASSUME PoolInv, status = "live", NEW r \in Place, given' = given \cup {r},
         blocks' \in Seq(Block), Len(blocks') >= Len(blocks),
         \A i \in 1 .. Len(blocks) :
            blocks'[i].end = blocks[i].end /\ blocks'[i].last >= blocks[i].last,
         r.blk \in 1 .. Len(blocks'), r.lo < r.hi, r.lo >= FreeFrom(r.blk),
         r.blk <= Len(blocks) => r.lo >= blocks[r.blk].last,
         r.hi <= blocks'[r.blk].last,
         r.hi <= blocks'[r.blk].end \/ (r.lo > blocks'[r.blk].end /\ status' = "wild")
  PROVE  /\ r \notin given
         /\ RegionsReal' /\ CutApart' /\ InsideOrBeyond'
  <1> USE DEF PoolInv
  <1>1. Len(blocks) \in Nat /\ Len(blocks') \in Nat
        /\ (\A i \in 1 .. Len(blocks) : blocks[i] \in Block)
        /\ (\A i \in 1 .. Len(blocks') : blocks'[i] \in Block)
    BY LenProperties, ElementOfSeq DEF TypeOK
  <1>2. \A s \in given : /\ s \in Place /\ s.blk \in 1 .. Len(blocks) /\ s.blk \in 1 .. Len(blocks')
                         /\ s.lo < s.hi /\ s.hi <= blocks[s.blk].last
                         /\ s.hi <= blocks'[s.blk].last
    <2> SUFFICES ASSUME NEW s \in given
                 PROVE  /\ s \in Place /\ s.blk \in 1 .. Len(blocks) /\ s.blk \in 1 .. Len(blocks')
                        /\ s.lo < s.hi /\ s.hi <= blocks[s.blk].last
                        /\ s.hi <= blocks'[s.blk].last
      OBVIOUS
    <2>1. s \in Place /\ s.blk \in 1 .. Len(blocks) /\ s.lo < s.hi /\ s.hi <= blocks[s.blk].last
      BY DEF TypeOK, RegionsReal, CutApart
    <2>2. blocks[s.blk] \in Block /\ blocks'[s.blk] \in Block /\ blocks'[s.blk].last >= blocks[s.blk].last
      BY <1>1, <2>1
    <2> QED
      BY <1>1, <2>1, <2>2, Fields
  <1>3. \A s \in given : s.blk = r.blk => s.hi <= r.lo
    <2> SUFFICES ASSUME NEW s \in given, s.blk = r.blk PROVE s.hi <= r.lo
      OBVIOUS
    <2>1. s \in Place /\ s.hi <= blocks[r.blk].last /\ r.blk \in 1 .. Len(blocks)
      BY <1>2
    <2>2. blocks[r.blk].last <= r.lo /\ blocks[r.blk].last \in Int
      BY <1>1, <2>1, Fields
    <2> QED
      BY <2>1, <2>2, Fields
  <1>4. r \notin given
    BY <1>3, Fields
  <1>5. RegionsReal'
    BY <1>2 DEF RegionsReal
  <1>6. CutApart'
    <2>1. \A s \in given' : FreeFrom(s.blk) <= s.lo /\ s.hi <= blocks'[s.blk].last
      BY <1>2 DEF CutApart
    <2>2. \A s, t \in given' : s # t /\ s.blk = t.blk => s.hi <= t.lo \/ t.hi <= s.lo
      BY <1>3 DEF CutApart
    <2> QED
      BY <2>1, <2>2 DEF CutApart
  <1>7. InsideOrBeyond'
    BY <1>2 DEF InsideOrBeyond
  <1> QED
    BY <1>4, <1>5, <1>6, <1>7

\* The result of TakeSmall, whether it comes from an old block or a new one.
Cut ==
    /\ blocks' \in Seq(Block) /\ Len(blocks') <= MaxBlocks
    /\ current' \in 1 .. Len(blocks')
    /\ BlocksSound'
    /\ status' \in {"live", "wild"} /\ LastInside'
    /\ RegionsReal' /\ CutApart' /\ InsideOrBeyond'
    /\ NotTired' /\ GivenUpWhenTired'

\* From the first block that fits.  The comparison of the difference as a size_t
\* is exact unless the aligned start has passed the end.
LEMMA FromBlockCut ==
  ASSUME PoolInv, status = "live", NEW size \in Nat, size > 0, NEW aligned \in BOOLEAN,
         TakeSmall(size, aligned), ~Needs(size, aligned)
  PROVE  /\ Cut
         /\ Taken(size, aligned).at \in Place \ given
  <1> USE DEF PoolInv
  <1> DEFINE i == First(Fitting(pool, size, aligned))
             b == blocks[i]
             m == Start(b, aligned)
             r == [blk |-> i, lo |-> m, hi |-> m + size]
  <1>1. Len(blocks) \in Nat /\ Len(blocks) <= MaxBlocks /\ current \in 1 .. Len(blocks)
        /\ DOMAIN blocks = 1 .. Len(blocks)
    BY LenProperties DEF TypeOK
  <1>2. i \in current .. Len(blocks) /\ Fits(blocks[i], size, aligned)
    <2>1. Fitting(pool, size, aligned) \in SUBSET Nat /\ Fitting(pool, size, aligned) # {}
      BY <1>1 DEF Fitting, Needs, pool
    <2> HIDE DEF i
    <2>2. First(Fitting(pool, size, aligned)) \in Fitting(pool, size, aligned)
      BY <2>1, Least
    <2> QED
      BY <2>2 DEF Fitting, pool, i
  <1>3. /\ Taken(size, aligned).at = r
        /\ blocks' = [blocks EXCEPT ![i].last = m + size]
        /\ current' = current
        /\ given' = given \cup {r}
        /\ status' = IF m > blocks'[i].end THEN "wild" ELSE status
    BY DEF TakeSmall, Taken, FromBlock, pool
  <1> HIDE DEF i
  <1>4. i \in 1 .. Len(blocks) /\ b \in Block
    BY <1>1, <1>2, ElementOfSeq DEF TypeOK
  <1>5. b.last \in Nat /\ b.end \in Nat /\ b.end = FreeFrom(i) + Size
        /\ b.last >= FreeFrom(i)
    BY <1>4 DEF Block, BlocksSound
  <1>6. m \in Nat /\ m >= b.last
    BY <1>5, Align, Layout DEF Start
  <1>7. m + size <= b.end \/ m > b.end
    <2> SUFFICES ASSUME m <= b.end PROVE m + size <= b.end
      BY <1>5, <1>6, Layout
    <2>1. b.end - m \in 0 .. SizeT - 1
      BY <1>5, <1>6, Layout, FreeFromBounds
    <2>2. (b.end - m) % SizeT = b.end - m
      BY <2>1, Layout
    <2> QED
      BY <1>2, <1>5, <1>6, <2>2 DEF Fits
  <1> HIDE DEF m
  <1>8. r \in Place
    BY <1>1, <1>3, <1>4, <1>6, Layout DEF Place
  <1>9. /\ blocks' \in Seq(Block) /\ Len(blocks') = Len(blocks)
        /\ \A k \in 1 .. Len(blocks) : k # i => blocks'[k] = blocks[k]
        /\ blocks'[i] = [b EXCEPT !.last = m + size]
    <2>1. [b EXCEPT !.last = m + size] \in Block
      <3>1. m + size \in Nat
        BY <1>6
      <3> QED
        BY <1>4, <3>1 DEF Block
    <2>2. blocks' = [blocks EXCEPT ![i] = [b EXCEPT !.last = m + size]]
      BY <1>3
    <2> QED
      BY <1>4, <2>1, <2>2, ExceptSeq DEF TypeOK
  <1>10. blocks'[i].last = m + size /\ blocks'[i].end = b.end /\ blocks'[i].failed = b.failed
    BY <1>4, <1>9 DEF Block
  <1> HIDE DEF b
  <1>11. BlocksSound'
    <2>1. m + size >= FreeFrom(i)
      BY <1>5, <1>6, FreeFromBounds
    <2> QED
      BY <1>5, <1>9, <1>10, <2>1 DEF BlocksSound
  <1>12. \A k \in 1 .. Len(blocks) :
             blocks'[k].end = blocks[k].end /\ blocks'[k].last >= blocks[k].last
    <2> SUFFICES ASSUME NEW k \in 1 .. Len(blocks)
                 PROVE  blocks'[k].end = blocks[k].end /\ blocks'[k].last >= blocks[k].last
      OBVIOUS
    <2>1. blocks[k] \in Block
      BY ElementOfSeq DEF TypeOK
    <2>2. CASE k = i
      BY <1>5, <1>6, <1>10, <2>2 DEF b
    <2>3. CASE k # i
      BY <1>9, <2>1, <2>3, Fields
    <2> QED
      BY <2>2, <2>3
  <1>13. r \notin given /\ RegionsReal' /\ CutApart' /\ InsideOrBeyond'
    <2>1. /\ r.blk \in 1 .. Len(blocks') /\ r.lo < r.hi /\ r.lo >= FreeFrom(r.blk)
          /\ (r.blk <= Len(blocks) => r.lo >= blocks[r.blk].last)
          /\ r.hi <= blocks'[r.blk].last
          /\ (r.hi <= blocks'[r.blk].end \/ (r.lo > blocks'[r.blk].end /\ status' = "wild"))
      <3>1. r.blk = i /\ r.lo = m /\ r.hi = m + size
        OBVIOUS
      <3>2. m < m + size /\ m >= FreeFrom(i) /\ m + size <= blocks'[i].last
            /\ (m + size <= blocks'[i].end \/ (m > blocks'[i].end /\ status' = "wild"))
        BY <1>3, <1>5, <1>6, <1>7, <1>10, FreeFromBounds
      <3>3. m >= blocks[i].last /\ i \in 1 .. Len(blocks')
        BY <1>4, <1>6, <1>9 DEF b
      <3> HIDE DEF r
      <3> QED
        BY <3>1, <3>2, <3>3
    <2>2. Len(blocks') >= Len(blocks)
      BY <1>1, <1>9
    <2> HIDE DEF r
    <2> QED
      BY <1>3, <1>8, <1>9, <1>12, <2>1, <2>2, AddRegion
  <1>14. NotTired' /\ GivenUpWhenTired'
    <2>1. \A k \in 1 .. Len(blocks) : blocks'[k].failed = blocks[k].failed
      BY <1>9, <1>10 DEF b
    <2> QED
      BY <1>3, <1>9, <2>1 DEF NotTired, GivenUpWhenTired
  <1>15. status' \in {"live", "wild"} /\ LastInside'
    <2>1. ASSUME status' = "live", NEW k \in 1 .. Len(blocks')
          PROVE  blocks'[k].last <= blocks'[k].end
      <3>1. CASE k = i
        <4>1. ~(m > blocks'[i].end)
          BY <1>3, <2>1
        <4> QED
          BY <1>7, <1>10, <3>1, <4>1
      <3>2. CASE k # i
        BY <1>9, <3>2 DEF LastInside
      <3> QED
        BY <3>1, <3>2
    <2> QED
      BY <1>3, <2>1 DEF LastInside
  <1> QED
    BY <1>1, <1>3, <1>8, <1>9, <1>11, <1>13, <1>14, <1>15 DEF Cut

\* From a new block.  A block is given up, with all those before it, when it has
\* counted its fifth failure.
LEMMA NewBlockCut ==
  ASSUME PoolInv, status = "live", NEW size \in Nat, size > 0, size <= max,
         NEW aligned \in BOOLEAN, TakeSmall(size, aligned), Needs(size, aligned)
  PROVE  /\ Cut
         /\ Taken(size, aligned).at \in Place \ given
  <1> USE DEF PoolInv
  <1> DEFINE n == Len(blocks)
             m == mp_align_ptr(FreeFrom(n + 1))
             r == [blk |-> n + 1, lo |-> m, hi |-> m + size]
             new == [last |-> m + size, end |-> blocks[1].end - base(1), failed |-> 0]
             nth(k) == IF k = n + 1 THEN new
                       ELSE IF k \in Failing(pool) THEN [blocks[k] EXCEPT !.failed = @ + 1]
                       ELSE blocks[k]
             top == CHOOSE k \in Tired(pool) : \A j \in Tired(pool) : j <= k
  <1>1. n \in Nat /\ current \in 1 .. n /\ \A k \in 1 .. n : blocks[k] \in Block
    BY LenProperties, ElementOfSeq DEF TypeOK
  <1>2. /\ Taken(size, aligned).at = r
        /\ blocks' = [k \in 1 .. n + 1 |-> nth(k)]
        /\ current' = IF Tired(pool) = {} THEN current ELSE 1 + top
        /\ given' = given \cup {r}
        /\ Len(blocks') <= MaxBlocks
        /\ status' = IF m > blocks'[n + 1].end THEN "wild" ELSE status
    BY DEF TakeSmall, Taken, mp_alloc_block, pool
  <1>3. base(n + 1) = 0 /\ base(1) = PoolHeader /\ FreeFrom(n + 1) = NodeHeader
        /\ FreeFrom(1) = PoolHeader + NodeHeader
    BY <1>1, Layout DEF base, FreeFrom
  <1>4. m = NodeHeader
    BY <1>3, Align, Layout, LayoutAssumption
  <1>5. blocks[1].end - base(1) = NodeHeader + Size
    BY <1>1, <1>3, Layout DEF BlocksSound
  <1> HIDE DEF m, top, n
  <1>6. new \in Block /\ new.last = m + size /\ new.end = FreeFrom(n + 1) + Size /\ new.failed = 0
        /\ new.last <= new.end
    <2>1. m + size \in Nat /\ NodeHeader + Size \in Nat /\ m + size <= NodeHeader + Size
      BY <1>4, Layout
    <2> QED
      BY <1>3, <1>5, <2>1 DEF Block
  <1> HIDE DEF new
  <1>7. Failing(pool) = current .. n - 1
    BY DEF Failing, pool, n
  <1>8. /\ blocks' \in Seq(Block) /\ Len(blocks') = n + 1
        /\ blocks'[n + 1] = new
        /\ \A k \in 1 .. n : /\ blocks'[k].last = blocks[k].last
                             /\ blocks'[k].end = blocks[k].end
                             /\ blocks'[k].failed = IF k \in current .. n - 1 THEN blocks[k].failed + 1
                                                    ELSE blocks[k].failed
    <2>1. \A k \in 1 .. n + 1 : nth(k) \in Block
      <3> SUFFICES ASSUME NEW k \in 1 .. n + 1 PROVE nth(k) \in Block
        OBVIOUS
      <3>1. CASE k = n + 1
        BY <1>6, <3>1
      <3>2. CASE k # n + 1
        <4>1. k \in 1 .. n /\ blocks[k] \in Block
          BY <1>1, <3>2
        <4>2. [blocks[k] EXCEPT !.failed = @ + 1] \in Block
          BY <4>1 DEF Block
        <4> QED
          BY <3>2, <4>1, <4>2
      <3> QED
        BY <3>1, <3>2
    <2>2. \A k \in 1 .. n : k \in 1 .. n + 1 /\ k # n + 1
      BY <1>1
    <2>3. n + 1 \in 1 .. n + 1 /\ n + 1 \in Nat
      BY <1>1
    <2>4. blocks' \in Seq(Block) /\ Len(blocks') = n + 1
      <3>1. blocks' \in [1 .. n + 1 -> Block]
        BY <1>2, <2>1
      <3> QED
        BY <2>3, <3>1, FunctionIsSeq
    <2>5. blocks'[n + 1] = new
      BY <1>2, <2>3
    <2>6. ASSUME NEW k \in 1 .. n
          PROVE  /\ blocks'[k].last = blocks[k].last
                 /\ blocks'[k].end = blocks[k].end
                 /\ blocks'[k].failed = IF k \in current .. n - 1 THEN blocks[k].failed + 1
                                        ELSE blocks[k].failed
      <3>1. blocks[k] \in Block /\ blocks'[k] = nth(k) /\ k # n + 1
        BY <1>1, <1>2, <2>2
      <3>2. CASE k \in current .. n - 1
        <4>1. blocks'[k] = [blocks[k] EXCEPT !.failed = @ + 1]
          BY <1>7, <3>1, <3>2
        <4> QED
          BY <3>1, <3>2, <4>1 DEF Block
      <3>3. CASE k \notin current .. n - 1
        BY <1>7, <3>1, <3>3
      <3> QED
        BY <3>2, <3>3
    <2> QED
      BY <2>4, <2>5, <2>6
  <1>9. r \in Place
    <2>1. n + 1 \in 1 .. MaxBlocks /\ m \in Nat /\ m + size \in Nat
      BY <1>1, <1>2, <1>4, <1>8, Layout
    <2> QED
      BY <2>1 DEF Place
  <1>10. BlocksSound'
    <2> SUFFICES ASSUME NEW k \in 1 .. n + 1
                 PROVE  blocks'[k].end = FreeFrom(k) + Size /\ blocks'[k].last >= FreeFrom(k)
      BY <1>8 DEF BlocksSound
    <2>1. CASE k = n + 1
      BY <1>3, <1>4, <1>6, <1>8, <2>1, Layout
    <2>2. CASE k \in 1 .. n
      BY <1>8, <2>2 DEF BlocksSound, n
    <2> QED
      BY <1>1, <2>1, <2>2
  <1>11. r \notin given /\ RegionsReal' /\ CutApart' /\ InsideOrBeyond'
    <2>1. r.blk = n + 1 /\ r.lo = m /\ r.hi = m + size
      OBVIOUS
    <2>2. m < m + size /\ m >= FreeFrom(n + 1)
      BY <1>3, <1>4, Layout
    <2>3. m + size <= blocks'[n + 1].end /\ m + size <= blocks'[n + 1].last
      BY <1>4, <1>6, <1>8, Layout
    <2>4. Len(blocks') >= Len(blocks) /\ ~(n + 1 <= Len(blocks)) /\ n + 1 \in 1 .. Len(blocks')
      BY <1>1, <1>8 DEF n
    <2>5. \A k \in 1 .. Len(blocks) :
             blocks'[k].end = blocks[k].end /\ blocks'[k].last >= blocks[k].last
      BY <1>1, <1>8, Fields DEF n
    <2> HIDE DEF r
    <2>6. /\ r.blk \in 1 .. Len(blocks') /\ r.lo < r.hi /\ r.lo >= FreeFrom(r.blk)
          /\ (r.blk <= Len(blocks) => r.lo >= blocks[r.blk].last)
          /\ r.hi <= blocks'[r.blk].last
          /\ (r.hi <= blocks'[r.blk].end \/ (r.lo > blocks'[r.blk].end /\ status' = "wild"))
      BY <2>1, <2>2, <2>3, <2>4
    <2>7. given' = given \cup {r} /\ blocks' \in Seq(Block)
      BY <1>2, <1>8 DEF r
    <2> QED
      BY <1>9, <2>4, <2>5, <2>6, <2>7, AddRegion
  <1>12. /\ current' \in current .. n
         /\ \A k \in current .. n : k < current' => blocks[k].failed > 4
         /\ \A k \in current' .. n - 1 : blocks[k].failed <= 4
    <2>1. Tired(pool) = {k \in current .. n - 1 : blocks[k].failed > 4}
      BY <1>7 DEF Tired, pool
    <2>2. \A k \in current .. n : blocks[k] \in Block /\ blocks[k].failed \in Nat /\ k \in 1 .. n
      BY <1>1, Fields
    <2>3. CASE Tired(pool) = {}
      BY <1>1, <1>2, <2>1, <2>2, <2>3
    <2>4. CASE Tired(pool) # {}
      <3>1. Tired(pool) \in SUBSET (0 .. n)
        BY <1>1, <2>1
      <3>2. top \in Tired(pool) /\ \A j \in Tired(pool) : j <= top
        BY <1>1, <2>4, <3>1, Greatest DEF top
      <3>3. top \in current .. n - 1 /\ blocks[top].failed > 4 /\ current' = top + 1
        BY <1>1, <1>2, <2>1, <2>4, <3>2
      <3>4. \A k \in current .. top : blocks[k].failed >= blocks[top].failed
        BY <1>1, <3>3 DEF GivenUpWhenTired, n
      <3>5. \A k \in current .. n : k < current' => blocks[k].failed > 4
        BY <1>1, <2>2, <3>3, <3>4
      <3>6. \A k \in current' .. n - 1 : blocks[k].failed <= 4
        <4> SUFFICES ASSUME NEW k \in current' .. n - 1, blocks[k].failed > 4 PROVE FALSE
          BY <1>1, <2>2, <3>3
        <4>1. k \in Tired(pool)
          BY <1>1, <2>1, <3>3
        <4> QED
          BY <1>1, <3>2, <3>3, <4>1
      <3> QED
        BY <1>1, <3>3, <3>5, <3>6
    <2> QED
      BY <2>3, <2>4
  <1>13. NotTired' /\ GivenUpWhenTired'
    <2>1. \A k \in 1 .. n : blocks[k].failed \in Nat
      BY <1>1, Fields
    <2>2. blocks'[n + 1].failed = 0
      BY <1>6, <1>8
    <2>3. \A k \in 1 .. n : k < current => blocks[k].failed > 5
      BY DEF GivenUpWhenTired, n
    <2>4. \A k \in current .. n : blocks[k].failed <= 5
      BY <1>1 DEF NotTired, n
    <2>5. \A i, j \in 1 .. n : i <= j => blocks[i].failed >= blocks[j].failed
      BY DEF GivenUpWhenTired, n
    <2>6. \A k \in current' .. n + 1 : blocks'[k].failed <= 5
      <3> SUFFICES ASSUME NEW k \in current' .. n + 1 PROVE blocks'[k].failed <= 5
        OBVIOUS
      <3>1. k \in current .. n + 1 /\ (k = n + 1 \/ k = n \/ k \in current' .. n - 1)
        BY <1>1, <1>12
      <3>2. CASE k = n + 1
        BY <2>2, <3>2
      <3>3. CASE k = n
        <4>1. blocks'[n].failed = blocks[n].failed
          BY <1>1, <1>8
        <4> QED
          BY <1>1, <2>4, <3>3, <4>1
      <3>4. CASE k \in current' .. n - 1
        <4>1. k \in 1 .. n /\ blocks[k].failed <= 4 /\ blocks'[k].failed = blocks[k].failed + 1
          BY <1>1, <1>8, <1>12, <3>1, <3>4
        <4> QED
          BY <2>1, <4>1
      <3> QED
        BY <3>1, <3>2, <3>3, <3>4
    <2>7. \A k \in 1 .. n : k < current' => blocks'[k].failed > 5
      <3> SUFFICES ASSUME NEW k \in 1 .. n, k < current' PROVE blocks'[k].failed > 5
        OBVIOUS
      <3>1. k \in 1 .. n - 1 /\ blocks[k].failed \in Nat
        BY <1>1, <1>12, <2>1
      <3>2. CASE k < current
        <4>1. k < current /\ k \in 1 .. n /\ k \notin current .. n - 1
          BY <1>1, <3>1, <3>2
        <4> QED
          BY <1>8, <2>3, <4>1
      <3>3. CASE k >= current
        <4>1. k \in current .. n /\ k \in current .. n - 1 /\ k \in 1 .. n
          BY <1>1, <3>1, <3>3
        <4>2. blocks[k].failed > 4 /\ blocks'[k].failed = blocks[k].failed + 1
          BY <1>8, <1>12, <4>1
        <4> QED
          BY <3>1, <4>2
      <3> QED
        BY <1>1, <3>1, <3>2, <3>3
    <2>8. \A i, j \in 1 .. n + 1 : i <= j => blocks'[i].failed >= blocks'[j].failed
      <3> SUFFICES ASSUME NEW i \in 1 .. n + 1, NEW j \in 1 .. n + 1, i <= j
                   PROVE  blocks'[i].failed >= blocks'[j].failed
        OBVIOUS
      <3>1. n \in Nat /\ current \in 1 .. n /\ (i = n + 1 \/ i \in 1 .. n) /\ (j = n + 1 \/ j \in 1 .. n)
        BY <1>1
      <3>2. ASSUME NEW k \in 1 .. n
            PROVE  /\ blocks[k].failed \in Nat
                   /\ k < current => blocks[k].failed >= 6 /\ blocks'[k].failed = blocks[k].failed
                   /\ k >= current => blocks[k].failed <= 5
                   /\ k >= current /\ k < n => blocks'[k].failed = blocks[k].failed + 1
                   /\ k = n => blocks'[k].failed = blocks[k].failed
        <4>1. blocks'[k].failed = IF k \in current .. n - 1 THEN blocks[k].failed + 1
                                                            ELSE blocks[k].failed
          BY <1>8
        <4>2. k \in current .. n - 1 <=> (k >= current /\ k < n)
          BY <3>1
        <4>3. blocks[k].failed \in Nat /\ (k < current => blocks[k].failed > 5)
          BY <2>1, <2>3
        <4>4. k >= current => blocks[k].failed <= 5
          BY <2>4, <3>1
        <4> QED
          BY <3>1, <4>1, <4>2, <4>3, <4>4
      <3>3. CASE j = n + 1
        <4>1. CASE i = n + 1
          BY <2>2, <3>3, <4>1
        <4>2. CASE i \in 1 .. n
          <5>1. blocks'[i].failed \in Nat
            BY <3>1, <3>2, <4>2
          <5> QED
            BY <2>2, <3>3, <5>1
        <4> QED
          BY <3>1, <4>1, <4>2
      <3>4. CASE j \in 1 .. n
        <4>1. i \in 1 .. n
          BY <3>1, <3>4
        <4>2. blocks[i].failed >= blocks[j].failed
          BY <2>5, <3>4, <4>1
        <4> QED
          BY <3>1, <3>2, <3>4, <4>1, <4>2
      <3> QED
        BY <3>1, <3>3, <3>4
    <2>9. \A k \in 1 .. n + 1 : k < current' => k \in 1 .. n
      BY <1>1, <1>12
    <2>10. \A k \in 1 .. n + 1 : k >= current' => k \in current' .. n + 1
      BY <1>1, <1>12
    <2> QED
      BY <1>1, <1>8, <2>6, <2>7, <2>8, <2>9, <2>10 DEF NotTired, GivenUpWhenTired
  <1>14. status' \in {"live", "wild"} /\ LastInside'
    <2>1. status' = "live"
      <3>1. blocks'[n + 1].end = NodeHeader + Size
        BY <1>3, <1>6, <1>8
      <3>2. ~(m > blocks'[n + 1].end)
        BY <1>4, <3>1, Layout
      <3> QED
        BY <1>2, <3>2
    <2>2. ASSUME NEW k \in 1 .. Len(blocks') PROVE blocks'[k].last <= blocks'[k].end
      <3>1. CASE k = n + 1
        BY <1>6, <1>8, <3>1
      <3>2. CASE k \in 1 .. n
        BY <1>8, <3>2 DEF LastInside, n
      <3> QED
        BY <1>1, <1>8, <3>1, <3>2
    <2> QED
      BY <2>1, <2>2 DEF LastInside
  <1> QED
    BY <1>1, <1>2, <1>8, <1>9, <1>10, <1>11, <1>12, <1>13, <1>14 DEF Cut

\* Both ways together.
LEMMA TakeSmallCut ==
  ASSUME PoolInv, status = "live", NEW size \in Nat, size > 0, size <= max,
         NEW aligned \in BOOLEAN, TakeSmall(size, aligned)
  PROVE  Cut /\ given' = given \cup {Taken(size, aligned).at}
         /\ Taken(size, aligned).at \in Place \ given
  BY FromBlockCut, NewBlockCut DEF TakeSmall

-----------------------------------------------------------------------------
(* Each operation preserves PoolInv *)

LEMMA InitInv == Init => PoolInv
  <1> SUFFICES ASSUME Init PROVE PoolInv
    OBVIOUS
  <1> USE DEF Init
  <1>1. TypeOK
    <2>1. blocks \in Seq(Block) /\ Len(blocks) = 0 /\ Len(blocks) <= MaxBlocks
      BY Layout
    <2>2. garbage \in BOOLEAN
      BY Zenon
    <2>3. status \in {"none", "live", "wild"} /\ large \in Seq([alloc : Larges \cup {None}, at : Place])
      OBVIOUS
    <2> QED
      BY <2>1, <2>2, <2>3 DEF TypeOK
  <1>2. Allocs = {}
    BY DEF Allocs
  <1>3. LargeOnce
    BY <1>2 DEF LargeOnce
  <1>4. BlocksSound /\ NotTired /\ GivenUpWhenTired
    BY DEF BlocksSound, NotTired, GivenUpWhenTired
  <1>5. NothingLeft /\ RegionsReal /\ CutApart /\ LastInside /\ InsideOrBeyond /\ RecordsKept
    BY DEF NothingLeft, RegionsReal, CutApart, LastInside, InsideOrBeyond, RecordsKept
  <1> QED
    BY <1>1, <1>3, <1>4, <1>5 DEF PoolInv

LEMMA CreateInv == PoolInv /\ mp_create_pool => PoolInv'
  <1> SUFFICES ASSUME PoolInv, mp_create_pool PROVE PoolInv'
    OBVIOUS
  <1> USE DEF PoolInv, mp_create_pool
  <1> DEFINE b == [last |-> FreeFrom(1), end |-> FreeFrom(1) + Size, failed |-> 0]
  <1>1. b \in Block
    <2>1. FreeFrom(1) \in Nat /\ FreeFrom(1) + Size \in Nat
      BY FreeFromBounds, Layout
    <2> QED
      BY <2>1 DEF Block
  <1>2. blocks' \in Seq(Block) /\ Len(blocks') = 1 /\ blocks'[1] = b /\ DOMAIN blocks' = 1 .. 1
    BY <1>1
  <1>3. b.last = FreeFrom(1) /\ b.end = FreeFrom(1) + Size /\ b.failed = 0
    OBVIOUS
  <1> HIDE DEF b
  <1>4. heap = {} /\ Allocs' = {}
    BY DEF NothingLeft, Allocs
  <1>5. TypeOK'
    BY <1>2, Layout DEF TypeOK
  <1>6. BlocksSound' /\ NotTired' /\ GivenUpWhenTired'
    BY <1>2, <1>3, FreeFromBounds DEF BlocksSound, NotTired, GivenUpWhenTired
  <1>7. LargeOnce'
    BY <1>4 DEF LargeOnce
  <1>8. (NothingLeft /\ RegionsReal /\ CutApart /\ InsideOrBeyond /\ RecordsKept)'
    BY DEF NothingLeft, RegionsReal, CutApart, InsideOrBeyond, RecordsKept
  <1>9. LastInside'
    BY <1>2, <1>3, FreeFromBounds, Layout DEF LastInside
  <1> QED
    BY <1>5, <1>6, <1>7, <1>8, <1>9

\* A wild pointer ends the model with the pool as it was, and a call that fails
\* changes nothing.
LEMMA WildInv == PoolInv /\ status = "live" /\ (Wild \/ UNCHANGED vars) => PoolInv'
  <1> SUFFICES ASSUME PoolInv, status = "live", Wild \/ UNCHANGED vars PROVE PoolInv'
    OBVIOUS
  <1> USE DEF PoolInv, Wild, vars
  <1>1. TypeOK' /\ NothingLeft'
    BY DEF TypeOK, NothingLeft
  <1>2. (BlocksSound /\ RegionsReal /\ CutApart /\ LastInside /\ InsideOrBeyond)'
    BY DEF BlocksSound, RegionsReal, CutApart, LastInside, InsideOrBeyond
  <1>3. (LargeOnce /\ RecordsKept /\ NotTired /\ GivenUpWhenTired)'
    BY DEF LargeOnce, Allocs, RecordsKept, NotTired, GivenUpWhenTired
  <1> QED
    BY <1>1, <1>2, <1>3

\* Everything in the heap is in a record, so that destruction leaves nothing.
LEMMA DestroyInv == PoolInv /\ mp_destory_pool => PoolInv'
  <1> SUFFICES ASSUME PoolInv, mp_destory_pool PROVE PoolInv'
    OBVIOUS
  <1>1. CASE Wild
    BY <1>1, WildInv DEF mp_destory_pool
  <1>2. CASE ~garbage /\ status' = "none" /\ heap' = heap \ Allocs /\ blocks' = <<>>
             /\ current' = 0 /\ large' = <<>> /\ given' = {} /\ UNCHANGED garbage
    <2> USE <1>2 DEF PoolInv
    <2>1. heap' = {} /\ Allocs' = {}
      BY DEF LargeOnce, Allocs
    <2>2. TypeOK' /\ NothingLeft' /\ LargeOnce'
      BY <2>1, Layout DEF TypeOK, NothingLeft, LargeOnce
    <2>3. (BlocksSound /\ RegionsReal /\ CutApart /\ LastInside /\ InsideOrBeyond)'
      BY DEF BlocksSound, RegionsReal, CutApart, LastInside, InsideOrBeyond
    <2>4. (RecordsKept /\ NotTired /\ GivenUpWhenTired)'
      BY DEF RecordsKept, NotTired, GivenUpWhenTired
    <2> QED
      BY <2>2, <2>3, <2>4
  <1> QED
    BY <1>1, <1>2 DEF mp_destory_pool

LEMMA ResetInv == PoolInv /\ mp_reset_pool => PoolInv'
  <1> SUFFICES ASSUME PoolInv, mp_reset_pool PROVE PoolInv'
    OBVIOUS
  <1>1. CASE Wild
    BY <1>1, WildInv DEF mp_reset_pool
  <1>2. CASE /\ ~garbage /\ status = "live"
             /\ heap' = heap \ Allocs
             /\ large' = <<>>
             /\ blocks' = [i \in DOMAIN blocks |-> [blocks[i] EXCEPT !.last = FreeFrom(i)]]
             /\ given' = {}
             /\ UNCHANGED <<status, garbage, current>>
    <2> USE <1>2 DEF PoolInv
    <2>1. /\ Len(blocks) \in Nat /\ DOMAIN blocks = 1 .. Len(blocks)
          /\ \A i \in 1 .. Len(blocks) : blocks[i] \in Block
      BY LenProperties, ElementOfSeq DEF TypeOK
    <2>2. \A i \in 1 .. Len(blocks) :
             LET b == [blocks[i] EXCEPT !.last = FreeFrom(i)]
             IN /\ b \in Block
                /\ b.last = FreeFrom(i) /\ b.end = blocks[i].end /\ b.failed = blocks[i].failed
      <3> SUFFICES ASSUME NEW i \in 1 .. Len(blocks)
                   PROVE  LET b == [blocks[i] EXCEPT !.last = FreeFrom(i)]
                          IN /\ b \in Block
                             /\ b.last = FreeFrom(i) /\ b.end = blocks[i].end
                             /\ b.failed = blocks[i].failed
        OBVIOUS
      <3>1. FreeFrom(i) \in Nat
        BY FreeFromBounds, Layout
      <3> QED
        BY <2>1, <3>1 DEF Block
    <2>3. blocks' \in [1 .. Len(blocks) -> Block]
      BY <2>1, <2>2
    <2>4. /\ blocks' \in Seq(Block) /\ Len(blocks') = Len(blocks) /\ DOMAIN blocks' = 1 .. Len(blocks)
          /\ \A i \in 1 .. Len(blocks) : /\ blocks'[i].last = FreeFrom(i)
                                         /\ blocks'[i].end = blocks[i].end
                                         /\ blocks'[i].failed = blocks[i].failed
      <3>1. blocks' \in Seq(Block) /\ Len(blocks') = Len(blocks) /\ DOMAIN blocks' = 1 .. Len(blocks)
        BY <2>1, <2>3, FunctionIsSeq
      <3>2. \A i \in 1 .. Len(blocks) : blocks'[i] = [blocks[i] EXCEPT !.last = FreeFrom(i)]
        BY <2>1
      <3> QED
        BY <2>2, <3>1, <3>2
    <2>5. heap' = {} /\ Allocs' = {}
      BY DEF LargeOnce, Allocs
    <2>6. TypeOK'
      <3>1. current' \in DOMAIN blocks' /\ Len(blocks') <= MaxBlocks
        BY <2>1, <2>4 DEF TypeOK
      <3>2. garbage' \in BOOLEAN /\ status' = "live"
        BY DEF TypeOK
      <3>3. large' \in Seq([alloc : Larges \cup {None}, at : Place])
        OBVIOUS
      <3>4. heap' \subseteq Larges /\ given' \subseteq Place
        BY <2>5
      <3> QED
        BY <2>4, <3>1, <3>2, <3>3, <3>4 DEF TypeOK
    <2>7. NothingLeft' /\ LargeOnce'
      BY <2>5 DEF NothingLeft, LargeOnce
    <2>8. (RegionsReal /\ CutApart /\ InsideOrBeyond /\ RecordsKept)'
      BY DEF RegionsReal, CutApart, InsideOrBeyond, RecordsKept
    <2>9. (BlocksSound /\ NotTired /\ GivenUpWhenTired)'
      BY <2>4, FreeFromBounds DEF BlocksSound, NotTired, GivenUpWhenTired
    <2>10. LastInside'
      BY <2>4, FreeFromBounds, Layout DEF LastInside, BlocksSound
    <2> QED
      BY <2>6, <2>7, <2>8, <2>9, <2>10
  <1> QED
    BY <1>1, <1>2 DEF mp_reset_pool

LEMMA SmallInv ==
  ASSUME PoolInv, NEW size \in Sizes, NEW aligned \in BOOLEAN, Small(size, aligned)
  PROVE  PoolInv'
  <1>1. size \in Nat /\ size > 0 /\ size <= max /\ status = "live"
    BY LayoutAssumption DEF Small
  <1>2. CASE Wild
    BY <1>1, <1>2, WildInv
  <1>3. CASE TakeSmall(size, aligned) /\ UNCHANGED <<garbage, large, heap>>
    <2> USE <1>3 DEF PoolInv
    <2>1. Cut /\ given' = given \cup {Taken(size, aligned).at}
          /\ Taken(size, aligned).at \in Place
      BY <1>1, TakeSmallCut
    <2>2. DOMAIN blocks' = 1 .. Len(blocks')
      BY <2>1, LenProperties DEF Cut
    <2>3. TypeOK' /\ NothingLeft'
      BY <1>1, <2>1, <2>2 DEF Cut, TypeOK, NothingLeft
    <2>4. LargeOnce' /\ RecordsKept'
      BY <2>1 DEF LargeOnce, Allocs, RecordsKept
    <2> QED
      BY <2>1, <2>3, <2>4 DEF Cut
  <1> QED
    BY <1>2, <1>3 DEF Small

-----------------------------------------------------------------------------
(* Large allocations *)

LargeRecord == [alloc : Larges \cup {None}, at : Place]

\* A record put before the others.
LEMMA Prepended ==
  ASSUME TypeOK, NEW rec \in LargeRecord, large' = <<rec>> \o large
  PROVE  /\ large' \in Seq(LargeRecord)
         /\ DOMAIN large' = 1 .. Len(large')
         /\ 1 \in DOMAIN large' /\ large'[1] = rec
         /\ \A k \in DOMAIN large' : k # 1 => k - 1 \in DOMAIN large /\ large'[k] = large[k - 1]
         /\ \A k \in DOMAIN large : k + 1 \in DOMAIN large' /\ k + 1 # 1 /\ large'[k + 1] = large[k]
  <1>1. /\ large \in Seq(LargeRecord) /\ <<rec>> \in Seq(LargeRecord)
        /\ Len(<<rec>>) = 1 /\ <<rec>>[1] = rec
    BY DEF TypeOK, LargeRecord
  <1>2. Len(large) \in Nat /\ DOMAIN large = 1 .. Len(large)
    BY <1>1, LenProperties
  <1>3. /\ large' \in Seq(LargeRecord) /\ Len(large') = 1 + Len(large)
        /\ \A k \in 1 .. 1 + Len(large) :
              large'[k] = IF k <= 1 THEN <<rec>>[k] ELSE large[k - 1]
    BY <1>1, ConcatProperties
  <1>4. DOMAIN large' = 1 .. Len(large')
    BY <1>3, LenProperties
  <1> QED
    BY <1>1, <1>2, <1>3, <1>4

\* One record's alloc changed.
LEMMA AllocSet ==
  ASSUME TypeOK, NEW i \in DOMAIN large, NEW y \in Larges \cup {None},
         large' = [large EXCEPT ![i].alloc = y]
  PROVE  /\ large' \in Seq(LargeRecord)
         /\ DOMAIN large' = DOMAIN large
         /\ \A k \in DOMAIN large : /\ large'[k].at = large[k].at
                                    /\ large'[k].alloc = IF k = i THEN y ELSE large[k].alloc
  <1>1. large \in Seq(LargeRecord) /\ DOMAIN large = 1 .. Len(large)
    BY LenProperties DEF TypeOK, LargeRecord
  <1>2. large[i] \in LargeRecord
    BY <1>1, ElementOfSeq
  <1> DEFINE rec == [large[i] EXCEPT !.alloc = y]
  <1>3. rec \in LargeRecord /\ rec.at = large[i].at /\ rec.alloc = y
    BY <1>2 DEF LargeRecord
  <1>4. large' = [large EXCEPT ![i] = rec]
    OBVIOUS
  <1> HIDE DEF rec
  <1>5. /\ large' \in Seq(LargeRecord) /\ Len(large') = Len(large)
        /\ \A k \in 1 .. Len(large) : large'[k] = IF k = i THEN rec ELSE large[k]
    BY <1>1, <1>3, <1>4, ExceptSeq
  <1>6. DOMAIN large' = 1 .. Len(large')
    BY <1>5, LenProperties
  <1> QED
    BY <1>1, <1>3, <1>5, <1>6

\* A new record, in memory of its own.
LEMMA NewRecordInv ==
  ASSUME PoolInv, NEW x \in Larges, x \notin heap, status = "live", NewRecord(x)
  PROVE  PoolInv'
  <1>1. CASE Wild \/ UNCHANGED vars
    BY <1>1, WildInv
  <1>2. CASE /\ TakeSmall(Record, TRUE)
             /\ large' = <<[alloc |-> x, at |-> Taken(Record, TRUE).at]>> \o large
             /\ heap' = heap \cup {x}
             /\ UNCHANGED garbage
    <2> USE DEF PoolInv
    <2> DEFINE place == Taken(Record, TRUE).at
               rec == [alloc |-> x, at |-> place]
    <2>1. Cut /\ given' = given \cup {place} /\ place \in Place /\ place \notin given
      BY <1>2, TakeSmallCut, RecordFits, Layout
    <2> HIDE DEF place
    <2>2. rec \in LargeRecord /\ rec.alloc = x /\ rec.at = place /\ x # None
      BY <2>1, NoneNotLarge DEF LargeRecord
    <2>3. large' = <<rec>> \o large
      BY <1>2 DEF place
    <2> HIDE DEF rec
    <2>4. /\ large' \in Seq(LargeRecord)
          /\ 1 \in DOMAIN large' /\ large'[1] = rec
          /\ \A k \in DOMAIN large' : k # 1 => k - 1 \in DOMAIN large /\ large'[k] = large[k - 1]
          /\ \A k \in DOMAIN large : k + 1 \in DOMAIN large' /\ k + 1 # 1 /\ large'[k + 1] = large[k]
          /\ DOMAIN large' \subseteq Nat
      BY <2>2, <2>3, Prepended
    <2>5. DOMAIN blocks' = 1 .. Len(blocks')
      BY <2>1, LenProperties DEF Cut
    <2>6. TypeOK' /\ NothingLeft'
      <3>1. blocks' \in Seq(Block) /\ Len(blocks') <= MaxBlocks /\ current' \in DOMAIN blocks'
        BY <2>1, <2>5 DEF Cut
      <3>2. heap' \subseteq Larges /\ given' \subseteq Place /\ status' \in {"live", "wild"}
        BY <1>2, <2>1 DEF TypeOK, Cut
      <3>3. garbage' \in BOOLEAN
        BY <1>2 DEF TypeOK
      <3> QED
        BY <2>4, <3>1, <3>2, <3>3 DEF TypeOK, NothingLeft, LargeRecord
    <2>7. RecordsKept'
      <3>1. \A k \in DOMAIN large' : large'[k].at \in given'
        BY <2>1, <2>2, <2>4 DEF RecordsKept
      <3>2. ASSUME NEW i \in DOMAIN large', NEW j \in DOMAIN large', i # j
            PROVE  large'[i].at # large'[j].at
        <4>1. CASE i = 1
          BY <2>1, <2>2, <2>4, <3>2, <4>1 DEF RecordsKept
        <4>2. CASE j = 1
          BY <2>1, <2>2, <2>4, <3>2, <4>2 DEF RecordsKept
        <4>3. CASE i # 1 /\ j # 1
          <5>1. i \in Nat /\ j \in Nat
            BY <2>4
          <5>2. /\ i - 1 \in DOMAIN large /\ large'[i] = large[i - 1]
                /\ j - 1 \in DOMAIN large /\ large'[j] = large[j - 1]
            BY <2>4, <4>3
          <5>3. i - 1 # j - 1
            BY <3>2, <5>1
          <5> QED
            BY <5>2, <5>3 DEF RecordsKept
        <4> QED
          BY <4>1, <4>2, <4>3
      <3> QED
        BY <3>1, <3>2 DEF RecordsKept
    <2>8. LargeOnce'
      <3>1. Allocs' = Allocs \cup {x}
        <4>1. Allocs' \subseteq Allocs \cup {x}
          BY <2>2, <2>4 DEF Allocs
        <4>2. Allocs \subseteq Allocs'
          BY <2>4 DEF Allocs
        <4>3. x \in Allocs'
          BY <2>2, <2>4 DEF Allocs
        <4> QED
          BY <4>1, <4>2, <4>3
      <3>2. \A k \in DOMAIN large : large[k].alloc # x
        BY <2>2 DEF LargeOnce, Allocs
      <3>3. ASSUME NEW i \in DOMAIN large', NEW j \in DOMAIN large',
                   large'[i].alloc = large'[j].alloc, large'[i].alloc # None
            PROVE  i = j
        <4>1. CASE i = 1 \/ j = 1
          BY <2>2, <2>4, <3>2, <3>3, <4>1
        <4>2. CASE i # 1 /\ j # 1
          <5>1. i \in Nat /\ j \in Nat
            BY <2>4
          <5>2. /\ i - 1 \in DOMAIN large /\ large'[i] = large[i - 1]
                /\ j - 1 \in DOMAIN large /\ large'[j] = large[j - 1]
            BY <2>4, <4>2
          <5>3. i - 1 = j - 1
            BY <3>3, <5>2 DEF LargeOnce
          <5> QED
            BY <5>1, <5>3
        <4> QED
          BY <4>1, <4>2
      <3> QED
        BY <1>2, <3>1, <3>3 DEF LargeOnce
    <2> QED
      BY <2>1, <2>6, <2>7, <2>8 DEF Cut
  <1> QED
    BY <1>1, <1>2 DEF NewRecord

\* The pool itself is left alone, and the list of large blocks is sound.
LEMMA RecordsInv ==
  ASSUME PoolInv, status = "live", large' \in Seq(LargeRecord), heap' \subseteq Larges,
         RecordsKept', LargeOnce', UNCHANGED <<status, garbage, blocks, current, given>>
  PROVE  PoolInv'
  <1> USE DEF PoolInv
  <1>1. TypeOK' /\ NothingLeft'
    BY DEF TypeOK, NothingLeft, LargeRecord
  <1>2. (BlocksSound /\ RegionsReal /\ CutApart /\ LastInside /\ InsideOrBeyond /\ NotTired
         /\ GivenUpWhenTired)'
    BY DEF BlocksSound, RegionsReal, CutApart, LastInside, InsideOrBeyond, NotTired, GivenUpWhenTired
  <1> QED
    BY <1>1, <1>2

\* A record whose block was freed is used again.
LEMMA AllocLargeInv ==
  ASSUME PoolInv, NEW x \in Larges, mp_alloc_large(x) PROVE PoolInv'
  <1>1. CASE Reusable = {}
    BY <1>1, NewRecordInv DEF mp_alloc_large
  <1>2. CASE Reusable # {}
    <2> DEFINE i == First(Reusable)
    <2>1. i \in DOMAIN large /\ large[i].alloc = None
      <3>1. Reusable \in SUBSET Nat
        BY LenProperties DEF Reusable, PoolInv, TypeOK
      <3>2. First(Reusable) \in Reusable
        BY <1>2, <3>1, Least
      <3> QED
        BY <3>2 DEF Reusable
    <2>2. /\ large' = [large EXCEPT ![i].alloc = x] /\ heap' = heap \cup {x} /\ x \notin heap
          /\ status = "live" /\ UNCHANGED <<status, garbage, blocks, current, given>>
      BY <1>2 DEF mp_alloc_large
    <2> HIDE DEF i
    <2>3. /\ large' \in Seq(LargeRecord)
          /\ DOMAIN large' = DOMAIN large
          /\ \A k \in DOMAIN large : /\ large'[k].at = large[k].at
                                     /\ large'[k].alloc = IF k = i THEN x ELSE large[k].alloc
      BY <2>1, <2>2, AllocSet DEF PoolInv
    <2>4. x # None /\ \A k \in DOMAIN large : large[k].alloc # x
      BY <2>2, NoneNotLarge DEF PoolInv, LargeOnce, Allocs
    <2>5. RecordsKept'
      BY <2>2, <2>3 DEF PoolInv, RecordsKept
    <2>6. Allocs' = Allocs \cup {x}
      BY <2>1, <2>3, <2>4 DEF Allocs
    <2>7. LargeOnce'
      BY <2>2, <2>3, <2>4, <2>6 DEF PoolInv, LargeOnce
    <2>8. heap' \subseteq Larges
      BY <2>2 DEF PoolInv, TypeOK
    <2> QED
      BY <2>2, <2>3, <2>5, <2>7, <2>8, RecordsInv
  <1> QED
    BY <1>1, <1>2

\* A large block is freed, and its record is empty.
LEMMA FreeInv ==
  ASSUME PoolInv, NEW x \in Larges, mp_free(x) PROVE PoolInv'
  <1>1. CASE x \notin Allocs
    BY <1>1, WildInv DEF mp_free, vars
  <1>2. CASE x \in Allocs
    <2> DEFINE S == {j \in DOMAIN large : large[j].alloc = x}
               i == First(S)
    <2>1. i \in DOMAIN large /\ large[i].alloc = x /\ x # None
      <3>1. S \in SUBSET Nat /\ S # {}
        BY <1>2, LenProperties DEF Allocs, PoolInv, TypeOK
      <3>2. First(S) \in S
        BY <3>1, Least
      <3> QED
        BY <3>2, NoneNotLarge
    <2>2. /\ large' = [large EXCEPT ![i].alloc = None] /\ heap' = heap \ {x}
          /\ status = "live" /\ UNCHANGED <<status, garbage, blocks, current, given>>
      BY <1>2 DEF mp_free
    <2> HIDE DEF i
    <2>3. /\ large' \in Seq(LargeRecord)
          /\ DOMAIN large' = DOMAIN large
          /\ \A k \in DOMAIN large : /\ large'[k].at = large[k].at
                                     /\ large'[k].alloc = IF k = i THEN None ELSE large[k].alloc
      BY <2>1, <2>2, AllocSet DEF PoolInv
    <2>4. \A k \in DOMAIN large : large[k].alloc = x => k = i
      BY <2>1 DEF PoolInv, LargeOnce
    <2>5. RecordsKept'
      BY <2>2, <2>3 DEF PoolInv, RecordsKept
    <2>6. Allocs' = Allocs \ {x}
      BY <2>1, <2>3, <2>4 DEF Allocs
    <2>7. LargeOnce'
      BY <2>2, <2>3, <2>6 DEF PoolInv, LargeOnce
    <2>8. heap' \subseteq Larges
      BY <2>2 DEF PoolInv, TypeOK
    <2> QED
      BY <2>2, <2>3, <2>5, <2>7, <2>8, RecordsInv
  <1> QED
    BY <1>1, <1>2

LEMMA NextInv == PoolInv /\ [Next]_vars => PoolInv'
  <1> SUFFICES ASSUME PoolInv, [Next]_vars PROVE PoolInv'
    OBVIOUS
  <1>1. CASE mp_create_pool \/ mp_destory_pool \/ mp_reset_pool
    BY <1>1, CreateInv, DestroyInv, ResetInv
  <1>2. ASSUME NEW size \in Sizes, NEW x \in Larges, mp_alloc(size, x) \/ mp_nalloc(size, x)
        PROVE  PoolInv'
    BY <1>2, SmallInv, AllocLargeInv DEF mp_alloc, mp_nalloc
  <1>3. ASSUME NEW x \in Larges, mp_memalign(x) \/ mp_free(x) PROVE PoolInv'
    BY <1>3, NewRecordInv, FreeInv DEF mp_memalign
  <1>4. CASE UNCHANGED vars
    <2> USE <1>4 DEF PoolInv, vars
    <2>1. TypeOK' /\ NothingLeft'
      BY DEF TypeOK, NothingLeft
    <2>2. (BlocksSound /\ RegionsReal /\ CutApart /\ LastInside /\ InsideOrBeyond)'
      BY DEF BlocksSound, RegionsReal, CutApart, LastInside, InsideOrBeyond
    <2>3. (LargeOnce /\ RecordsKept /\ NotTired /\ GivenUpWhenTired)'
      BY DEF LargeOnce, Allocs, RecordsKept, NotTired, GivenUpWhenTired
    <2> QED
      BY <2>1, <2>2, <2>3
  <1> QED
    BY <1>1, <1>2, <1>3, <1>4 DEF Next

\* PoolInv is an invariant of the pool.
THEOREM Inductive == Spec => []PoolInv
  <1> QED
    BY InitInv, NextInv, PTL DEF Spec

\* Until memory behind a block has been handed out, what mp_alloc and mp_nalloc hand
\* out lies in its block, behind the structures there, and never overlaps; the
\* records of the large blocks stay in memory of their own, and a block is given up
\* only when it has failed often enough.
THEOREM Sound == Spec => []PoolSound
  <1>1. PoolInv => PoolSound
    <2> SUFFICES ASSUME PoolInv PROVE PoolSound
      OBVIOUS
    <2>1. RegionsDisjoint
      BY DEF PoolInv, RegionsDisjoint, CutApart, LastInside, RegionsReal, FreeFrom
    <2> QED
      BY <2>1 DEF PoolInv, PoolSound
  <1> QED
    BY <1>1, Inductive, PTL

\* The addresses of the blocks, when no two blocks share memory.
Apart(addr) ==
    \A i, j \in 1 .. Len(blocks) :
        i # j => \/ addr[i] + blocks[i].end <= addr[j]
                 \/ addr[j] + blocks[j].end <= addr[i]

\* Wherever in memory the blocks are: two allocations that have not been given back
\* share no address, and none reaches the structures at the start of a block, its
\* own or another.
DisjointInMemory ==
    status = "live" =>
        \A addr \in [1 .. Len(blocks) -> Nat] : Apart(addr) =>
            /\ \A r, s \in given : r # s =>
                  \/ addr[r.blk] + r.hi <= addr[s.blk] + s.lo
                  \/ addr[s.blk] + s.hi <= addr[r.blk] + r.lo
            /\ \A r \in given, i \in 1 .. Len(blocks) :
                  \/ addr[r.blk] + r.hi <= addr[i]
                  \/ addr[i] + FreeFrom(i) <= addr[r.blk] + r.lo

\* What ends in a block ends before what begins in a block behind it.
LEMMA Behind ==
  ASSUME NEW a \in Nat, NEW b \in Nat, NEW end \in Nat, NEW hi \in Nat, NEW lo \in Nat,
         hi <= end, a + end <= b
  PROVE  a + hi <= b + lo
  OBVIOUS

\* Until memory behind a block has been handed out, no two allocations of mp_alloc,
\* mp_nalloc or for a record overlap, of whatever blocks they are, and none overlaps
\* the structures of a block.
THEOREM SoundInMemory == Spec => []DisjointInMemory
  <1>1. PoolInv => DisjointInMemory
    <2> SUFFICES ASSUME PoolInv, status = "live",
                        NEW addr \in [1 .. Len(blocks) -> Nat], Apart(addr)
                 PROVE  /\ \A r, s \in given : r # s =>
                              \/ addr[r.blk] + r.hi <= addr[s.blk] + s.lo
                              \/ addr[s.blk] + s.hi <= addr[r.blk] + r.lo
                        /\ \A r \in given, i \in 1 .. Len(blocks) :
                              \/ addr[r.blk] + r.hi <= addr[i]
                              \/ addr[i] + FreeFrom(i) <= addr[r.blk] + r.lo
      BY DEF DisjointInMemory
    <2> USE DEF PoolInv
    <2>1. \A i \in 1 .. Len(blocks) :
             /\ addr[i] \in Nat /\ FreeFrom(i) \in Nat
             /\ blocks[i].end \in Nat /\ FreeFrom(i) <= blocks[i].end
      BY FreeFromBounds, Layout DEF BlocksSound
    <2>2. \A r \in given :
             /\ r.blk \in 1 .. Len(blocks) /\ r.lo \in Nat /\ r.hi \in Nat
             /\ FreeFrom(r.blk) <= r.lo /\ r.lo < r.hi /\ r.hi <= blocks[r.blk].end
      <3> SUFFICES ASSUME NEW r \in given
                   PROVE  /\ r.blk \in 1 .. Len(blocks) /\ r.lo \in Nat /\ r.hi \in Nat
                          /\ FreeFrom(r.blk) <= r.lo /\ r.lo < r.hi /\ r.hi <= blocks[r.blk].end
        OBVIOUS
      <3>1. r \in Place /\ r.blk \in 1 .. Len(blocks) /\ r.lo < r.hi
        BY DEF TypeOK, RegionsReal
      <3>2. blocks[r.blk] \in Block
        BY <3>1, ElementOfSeq DEF TypeOK
      <3>3. FreeFrom(r.blk) <= r.lo /\ r.hi <= blocks[r.blk].last /\ blocks[r.blk].last <= blocks[r.blk].end
        BY <3>1 DEF CutApart, LastInside
      <3> QED
        BY <3>1, <3>2, <3>3, Fields
    <2>3. ASSUME NEW r \in given, NEW s \in given, r # s
          PROVE  \/ addr[r.blk] + r.hi <= addr[s.blk] + s.lo
                 \/ addr[s.blk] + s.hi <= addr[r.blk] + r.lo
      <3>1. CASE r.blk = s.blk
        <4>1. r.hi <= s.lo \/ s.hi <= r.lo
          BY <2>3, <3>1 DEF CutApart
        <4> QED
          BY <2>1, <2>2, <3>1, <4>1
      <3>2. CASE r.blk # s.blk
        <4>1. \/ addr[r.blk] + blocks[r.blk].end <= addr[s.blk]
              \/ addr[s.blk] + blocks[s.blk].end <= addr[r.blk]
          BY <2>2, <3>2 DEF Apart
        <4>2. addr[r.blk] + blocks[r.blk].end <= addr[s.blk] => addr[r.blk] + r.hi <= addr[s.blk] + s.lo
          BY <2>1, <2>2, Behind
        <4>3. addr[s.blk] + blocks[s.blk].end <= addr[r.blk] => addr[s.blk] + s.hi <= addr[r.blk] + r.lo
          BY <2>1, <2>2, Behind
        <4> QED
          BY <4>1, <4>2, <4>3
      <3> QED
        BY <3>1, <3>2
    <2>4. ASSUME NEW r \in given, NEW i \in 1 .. Len(blocks)
          PROVE  \/ addr[r.blk] + r.hi <= addr[i]
                 \/ addr[i] + FreeFrom(i) <= addr[r.blk] + r.lo
      <3>1. CASE r.blk = i
        BY <2>1, <2>2, <3>1
      <3>2. CASE r.blk # i
        <4>1. \/ addr[r.blk] + blocks[r.blk].end <= addr[i]
              \/ addr[i] + blocks[i].end <= addr[r.blk]
          BY <2>2, <3>2 DEF Apart
        <4>2. addr[r.blk] + blocks[r.blk].end <= addr[i] => addr[r.blk] + r.hi <= addr[i] + 0
          BY <2>1, <2>2, Behind
        <4>3. addr[i] + blocks[i].end <= addr[r.blk] => addr[i] + FreeFrom(i) <= addr[r.blk] + r.lo
          BY <2>1, <2>2, Behind
        <4> QED
          BY <2>1, <4>1, <4>2, <4>3
      <3> QED
        BY <3>1, <3>2
    <2> QED
      BY <2>3, <2>4
  <1> QED
    BY <1>1, Inductive, PTL

\* Memory that leaves its block begins behind the end of the block: the comparison
\* of the difference as a size_t errs only when the aligned start is past p->end.
THEOREM Bounds == Spec => []InsideOrBeyond
  <1>1. PoolInv => InsideOrBeyond
    BY DEF PoolInv
  <1> QED
    BY <1>1, Inductive, PTL

\* What malloc gave is in exactly one record until it is freed.
THEOREM LargeFreedOnce == Spec => []LargeOnce
  <1>1. PoolInv => LargeOnce
    BY DEF PoolInv
  <1> QED
    BY <1>1, Inductive, PTL

-----------------------------------------------------------------------------
(* AsyncLogging and LogFile: the invariant *)

\* The open file is the one of the last roll, which is not in the future; appends
\* in a later period are counted by count_ too.
FilesSound ==
    /\ pc \in {"none", "begin"} => files = <<>> /\ lastRoll_ = 0 /\ strays = 0
    /\ pc \notin {"none", "begin"} => Len(files) > 0
    /\ Len(files) > 0 => lastRoll_ = files[Len(files)].at /\ startOfPeriod_ = Period(lastRoll_)
    /\ lastRoll_ <= now
    /\ NamesDistinct
    /\ strays <= count_ /\ (strays > 0 => Period(now) # startOfPeriod_)

\* Spare buffers are empty; the front ends have used theirs only if a buffer is full.
BuffersSound ==
    /\ {nextBuffer_, newBuffer1, newBuffer2} \subseteq {Null, <<Empty>>}
    /\ nextBuffer_ = Null => buffers_ # <<>>
    /\ pc \in {"loop", "lock", "waiting"} =>
          newBuffer1 = <<Empty>> /\ newBuffer2 = <<Empty>>
    /\ pc \notin {"drop", "write"} => toAppend = <<>> /\ buffersToWrite = <<>>
    /\ pc = "drop" => toAppend = buffersToWrite
    /\ pc \in {"drop", "write"} =>
          /\ newBuffer1 = Null /\ Len(buffersToWrite) >= 1
          /\ newBuffer2 = Null => Len(buffersToWrite) >= 2

\* Within and between pieces, lines are in the order of the calls.
Sorted(S) ==
    \A i, j \in DOMAIN S : \A k \in DOMAIN S[i], m \in DOMAIN S[j] :
        IsLine(S[i][k]) /\ IsLine(S[j][m]) /\ (i < j \/ (i = j /\ k < m)) => S[i][k] < S[j][m]
Less(X, Y) == \A x \in X, y \in Y : IsLine(x) /\ IsLine(y) => x < y

OnFile == LinesOf(Lines)
Writing == LinesOf(toAppend)
Full == LinesOf(buffers_)
Current == LinesOf(currentBuffer_)

Ordered ==
    /\ Sorted(Lines) /\ Sorted(toAppend) /\ Sorted(buffers_) /\ Sorted(currentBuffer_)
    /\ Less(OnFile, Writing) /\ Less(OnFile, Full) /\ Less(OnFile, Current)
    /\ Less(Writing, Full) /\ Less(Writing, Current) /\ Less(Full, Current)

Covered == (OnFile \cup Writing \cup Full \cup Current) \ {DroppedMark} = (1 .. appended) \ dropped

\* What is dropped is older than what the front ends have, and than the buffers at
\* hand when the next drop is decided.
DropsOld ==
    /\ dropped \subseteq 1 .. appended
    /\ Less(dropped, Full) /\ Less(dropped, Current)
    /\ pc = "drop" => Less(dropped, Writing)

\* Each run of dropped lines has a mark of its own, before the line that follows it.
Ends == {d \in dropped : d + 1 \notin dropped}
Marks == {a \in Places(Lines) : Lines[a[1]][a[2]] = DroppedMark}
Announces(f) ==
    \A d \in Ends : \A a \in Places(Lines) : Lines[a[1]][a[2]] = d + 1 => Before(f[d], a)
Announced == \E f \in Injection(Ends, Marks) : Announces(f)

\* There is no thread before start.
Started == owner = "new" => pc = "none"

LogInv ==
    /\ LoggerTypeOK /\ Started /\ FilesSound /\ BuffersSound
    /\ Ordered /\ Covered /\ DropsOld /\ Announced

-----------------------------------------------------------------------------
(* The periods *)

LEMMA PeriodFacts ==
  ASSUME NEW t \in Nat
  PROVE  Period(t) \in Nat /\ Period(t) <= t /\ t < Period(t) + kRollPerSeconds_
  <1>1. PICK m, q, r : m = kRollPerSeconds_ /\ q = t \div m /\ r = t % m
    OBVIOUS
  <1>2. m \in Nat /\ m > 0
    BY <1>1, RollAssumption
  <1>3. q \in Nat /\ r \in 0 .. m - 1
    BY <1>1, <1>2
  <1>4. t = q * m + r
    BY <1>1, <1>2
  <1>5. q * m \in Nat
    BY <1>2, <1>3
  <1>6. Period(t) = q * m
    BY <1>1 DEF Period
  <1> QED
    BY <1>1, <1>2, <1>3, <1>4, <1>5, <1>6

\* A later second is in the same period or a later one.
LEMMA PeriodMonotone ==
  ASSUME NEW t \in Nat, NEW u \in Nat, t <= u
  PROVE  Period(t) <= Period(u)
  <1>1. PICK m, q, s : m = kRollPerSeconds_ /\ q = t \div m /\ s = u \div m
    OBVIOUS
  <1>2. m \in Nat /\ m > 0
    BY <1>1, RollAssumption
  <1>3. q \in Nat /\ s \in Nat
    BY <1>1, <1>2
  <1>4. Period(t) = q * m /\ Period(u) = s * m
    BY <1>1 DEF Period
  <1>5. q * m <= t /\ u < s * m + m
    BY <1>1, <1>4, PeriodFacts
  <1>6. CASE q <= s
    <2>1. PICK d \in Nat : s = q + d
      <3>1. s - q \in Nat /\ s = q + (s - q)
        BY <1>3, <1>6
      <3> QED
        BY <3>1
    <2>2. s * m = q * m + d * m /\ d * m \in Nat /\ q * m \in Nat
      BY <1>2, <1>3, <2>1
    <2> QED
      BY <1>4, <2>2
  <1>7. CASE s < q
    <2>1. PICK d \in Nat : q = s + 1 + d
      <3>1. q - s - 1 \in Nat /\ q = s + 1 + (q - s - 1)
        BY <1>3, <1>7
      <3> QED
        BY <3>1
    <2>2. q * m = s * m + m + d * m /\ d * m \in Nat /\ s * m \in Nat
      BY <1>2, <1>3, <2>1
    <2> QED
      BY <1>2, <1>5, <2>2
  <1> QED
    BY <1>3, <1>6, <1>7

-----------------------------------------------------------------------------
(* What an append does to the files *)

LEMMA FileFacts ==
  ASSUME NEW f \in File
  PROVE  f.at \in 1 .. MaxNow /\ f.lines \in Seq(0 .. MaxLines)
            /\ f = [at |-> f.at, lines |-> f.lines]
  BY DEF File

LEMMA FileIs ==
  ASSUME NEW t \in 1 .. MaxNow, NEW ls \in Seq(0 .. MaxLines)
  PROVE  [at |-> t, lines |-> ls] \in File
  BY DEF File

\* The files with ls put to the open one.
With(ls) == [files EXCEPT ![Len(files)] = [at |-> files[Len(files)].at,
                                          lines |-> files[Len(files)].lines \o ls]]
Opened(fs) == Append(fs, [at |-> now, lines |-> <<>>])

LEMMA PutIs ==
  ASSUME LoggerTypeOK, Len(files) > 0, NEW ls \in Seq(0 .. MaxLines)
  PROVE  Put(Here, ls) = [files |-> With(ls), unflushed |-> unflushed + Len(ls),
             count |-> count_, period |-> startOfPeriod_, roll |-> lastRoll_,
             flush |-> lastFlush_,
             strays |-> strays + IF Period(now) # startOfPeriod_ THEN 1 ELSE 0]
  <1>1. PICK n, f : n = Len(files) /\ f = files[n]
    OBVIOUS
  <1>2. n \in DOMAIN files /\ f \in File
    BY <1>1 DEF LoggerTypeOK
  <1>3. [f EXCEPT !.lines = @ \o ls] = [at |-> f.at, lines |-> f.lines \o ls]
    <2>1. PICK t, l : t = f.at /\ l = f.lines
      OBVIOUS
    <2>2. f = [at |-> t, lines |-> l]
      BY <1>2, <2>1, FileFacts
    <2>3. PICK k : k = l \o ls
      OBVIOUS
    <2>4. [f EXCEPT !.lines = @ \o ls] = [f EXCEPT !.lines = k]
      BY <2>1, <2>3, Zenon
    <2>5. [f EXCEPT !.lines = k] = [at |-> t, lines |-> k]
      BY <2>2
    <2> QED
      BY <2>1, <2>3, <2>4, <2>5, Zenon
  <1>4. [files EXCEPT ![n].lines = @ \o ls] = [files EXCEPT ![n] = [f EXCEPT !.lines = @ \o ls]]
    BY <1>1, <1>2, Zenon
  <1>5. [files EXCEPT ![Len(files)].lines = @ \o ls] = With(ls)
    BY <1>1, <1>3, <1>4 DEF With
  <1>6. PICK w, u, s, h : /\ w = With(ls) /\ u = unflushed + Len(ls) /\ h = Here
                         /\ s = strays + IF Period(now) # startOfPeriod_ THEN 1 ELSE 0
    OBVIOUS
  <1>7. h = [files |-> files, unflushed |-> unflushed, count |-> count_,
             period |-> startOfPeriod_, roll |-> lastRoll_, flush |-> lastFlush_,
             strays |-> strays]
    BY <1>6 DEF Here
  <1>8. h.files = files /\ h.unflushed = unflushed /\ h.strays = strays /\ h.period = startOfPeriod_
    BY <1>7
  <1>9. [h EXCEPT !.files[Len(h.files)].lines = @ \o ls] = [h EXCEPT !.files = w]
    BY <1>5, <1>6, <1>8
  <1>10. PICK a : a = [h EXCEPT !.files = w]
    OBVIOUS
  <1>11. a = [files |-> w, unflushed |-> unflushed, count |-> count_,
              period |-> startOfPeriod_, roll |-> lastRoll_, flush |-> lastFlush_,
              strays |-> strays]
    BY <1>7, <1>10
  <1>12. PICK b : b = [a EXCEPT !.unflushed = u]
    OBVIOUS
  <1>13. b = [files |-> w, unflushed |-> u, count |-> count_,
              period |-> startOfPeriod_, roll |-> lastRoll_, flush |-> lastFlush_,
              strays |-> strays]
    BY <1>11, <1>12
  <1>14. [b EXCEPT !.strays = s] = [files |-> w, unflushed |-> u, count |-> count_,
              period |-> startOfPeriod_, roll |-> lastRoll_, flush |-> lastFlush_,
              strays |-> s]
    BY <1>13
  <1>15. Put(h, ls) = [[[h EXCEPT !.files[Len(h.files)].lines = @ \o ls]
                     EXCEPT !.unflushed = h.unflushed + Len(ls)]
                     EXCEPT !.strays = h.strays + IF Period(now) # h.period THEN 1 ELSE 0]
    BY Zenon DEF Put
  <1>16. Put(h, ls) = [[[h EXCEPT !.files = w] EXCEPT !.unflushed = u] EXCEPT !.strays = s]
    BY <1>6, <1>8, <1>9, <1>15, Zenon
  <1> QED
    BY <1>6, <1>10, <1>12, <1>14, <1>16

\* With(ls) for the provers.
LEMMA WithFacts ==
  ASSUME LoggerTypeOK, Len(files) > 0, NEW ls \in Seq(0 .. MaxLines)
  PROVE  /\ With(ls) \in Seq(File) /\ Len(With(ls)) = Len(files)
         /\ \A i \in 1 .. Len(files) : With(ls)[i].at = files[i].at
         /\ \A i \in 1 .. Len(files) - 1 : With(ls)[i].lines = files[i].lines
         /\ With(ls)[Len(files)].lines = files[Len(files)].lines \o ls
  <1>1. PICK n : n = Len(files)
    OBVIOUS
  <1>2. n \in Nat /\ n > 0 /\ DOMAIN files = 1 .. n
    BY <1>1 DEF LoggerTypeOK
  <1>3. PICK r : r = [at |-> files[n].at, lines |-> files[n].lines \o ls]
    OBVIOUS
  <1>4. files[n] \in File
    BY <1>1, <1>2 DEF LoggerTypeOK
  <1>5. r \in File /\ r.at = files[n].at /\ r.lines = files[n].lines \o ls
    <2>1. PICK t, l : t = files[n].at /\ l = files[n].lines \o ls
      OBVIOUS
    <2>2. t \in 1 .. MaxNow /\ l \in Seq(0 .. MaxLines)
      BY <1>4, <2>1, FileFacts
    <2>3. r = [at |-> t, lines |-> l]
      BY <1>3, <2>1
    <2> QED
      BY <2>1, <2>2, <2>3, FileIs
  <1>6. With(ls) = [files EXCEPT ![n] = r]
    BY <1>1, <1>3 DEF With
  <1>7. With(ls) \in Seq(File) /\ Len(With(ls)) = n
    BY <1>1, <1>2, <1>5, <1>6 DEF LoggerTypeOK
  <1>8. \A i \in 1 .. n : With(ls)[i] = IF i = n THEN r ELSE files[i]
    BY <1>2, <1>6
  <1>9. n \in 1 .. n /\ \A i \in 1 .. n - 1 : i \in 1 .. n /\ i # n
    BY <1>2
  <1>10. /\ \A i \in 1 .. n : With(ls)[i].at = files[i].at
         /\ \A i \in 1 .. n - 1 : With(ls)[i].lines = files[i].lines
         /\ With(ls)[n].lines = files[n].lines \o ls
    BY <1>5, <1>8, <1>9, Zenon
  <1> QED
    BY <1>1, <1>7, <1>10

LEMMA AppendCases ==
  ASSUME LoggerTypeOK, Len(files) > 0, NEW ls \in Seq(0 .. MaxLines),
         LogFileBecomes(append_unlocked(Here, ls))
  PROVE  LET stray == IF Period(now) # startOfPeriod_ THEN 1 ELSE 0
         IN \/ /\ files' = Opened(With(ls)) /\ unflushed' = 0
               /\ count_' \in {count_, 0} /\ startOfPeriod_' = Period(now)
               /\ now > lastRoll_ /\ lastRoll_' = now /\ lastFlush_' = now /\ strays' = 0
            \/ /\ files' = With(ls)
               /\ startOfPeriod_' = startOfPeriod_ /\ lastRoll_' = lastRoll_
               /\ lastFlush_' \in {lastFlush_, now}
               /\ unflushed' \in {unflushed + Len(ls), 0}
               /\ strays' = strays + stray
               /\ \/ /\ count_' = count_ /\ now <= lastRoll_
                  \/ /\ Len(With(ls)[Len(files)].lines) <= rollSize_
                     /\ \/ count_' = count_ + 1 /\ count_ + 1 < checkEveryN_
                        \/ count_' = 0 /\ count_ + 1 >= checkEveryN_
                           /\ (Period(now) # startOfPeriod_ => now <= lastRoll_)
  <1>1. PICK put : put = Put(Here, ls)
    OBVIOUS
  <1> DEFINE stray == IF Period(now) # startOfPeriod_ THEN 1 ELSE 0
             c == [put EXCEPT !.count = 0]
  <1>2. put = [files |-> With(ls), unflushed |-> unflushed + Len(ls),
             count |-> count_, period |-> startOfPeriod_, roll |-> lastRoll_,
             flush |-> lastFlush_, strays |-> strays + stray]
    BY <1>1, PutIs
  <1>3. Last(put.files) = With(ls)[Len(files)]
    BY <1>2, WithFacts DEF Last
  <1>4. append_unlocked(Here, ls) =
          IF Len(Last(put.files).lines) > rollSize_ THEN rollFile(put)
          ELSE IF put.count + 1 < checkEveryN_ THEN [put EXCEPT !.count = @ + 1]
          ELSE IF Period(now) # put.period THEN rollFile(c)
          ELSE IF now - put.flush > flushInterval_ THEN [c EXCEPT !.flush = now, !.unflushed = 0]
          ELSE c
    BY <1>1 DEF append_unlocked
  <1>5. PICK w, u, p, s, n : w = With(ls) /\ u = unflushed + Len(ls) /\ p = Period(now)
                         /\ s = strays + stray /\ n = Len(w[Len(files)].lines)
    OBVIOUS
  <1>6. put = [files |-> w, unflushed |-> u, count |-> count_, period |-> startOfPeriod_,
               roll |-> lastRoll_, flush |-> lastFlush_, strays |-> s]
    BY <1>2, <1>5
  <1>7. c = [files |-> w, unflushed |-> u, count |-> 0, period |-> startOfPeriod_,
               roll |-> lastRoll_, flush |-> lastFlush_, strays |-> s]
    BY <1>6
  <1> HIDE DEF c, stray
  <1>8. /\ now > lastRoll_ => /\ rollFile(put).files = Opened(w) /\ rollFile(put).unflushed = 0
                             /\ rollFile(put).count = count_ /\ rollFile(put).period = p
                             /\ rollFile(put).roll = now /\ rollFile(put).flush = now
                             /\ rollFile(put).strays = 0
        /\ ~(now > lastRoll_) => rollFile(put) = put
    <2>1. PICK q : q = [at |-> now, lines |-> <<>>]
      OBVIOUS
    <2>2. Opened(w) = Append(w, q)
      BY <2>1 DEF Opened
    <2>3. put.roll = lastRoll_
      BY <1>6
    <2>4. ASSUME now > lastRoll_
          PROVE  rollFile(put) = [put EXCEPT !.files = Append(@, q), !.unflushed = 0,
                   !.roll = now, !.flush = now, !.period = Period(now), !.strays = 0]
      BY <2>1, <2>3, <2>4, Zenon DEF rollFile
    <2>5. ~(now > lastRoll_) => rollFile(put) = put
      BY <2>3, Zenon DEF rollFile
    <2> QED
      BY <1>5, <1>6, <2>2, <2>4, <2>5
  <1>9. /\ now > lastRoll_ => /\ rollFile(c).files = Opened(w) /\ rollFile(c).unflushed = 0
                             /\ rollFile(c).count = 0 /\ rollFile(c).period = p
                             /\ rollFile(c).roll = now /\ rollFile(c).flush = now
                             /\ rollFile(c).strays = 0
        /\ ~(now > lastRoll_) => rollFile(c) = c
    <2>1. PICK q : q = [at |-> now, lines |-> <<>>]
      OBVIOUS
    <2>2. Opened(w) = Append(w, q)
      BY <2>1 DEF Opened
    <2>3. c.roll = lastRoll_
      BY <1>7
    <2>4. ASSUME now > lastRoll_
          PROVE  rollFile(c) = [c EXCEPT !.files = Append(@, q), !.unflushed = 0,
                   !.roll = now, !.flush = now, !.period = Period(now), !.strays = 0]
      BY <2>1, <2>3, <2>4, Zenon DEF rollFile
    <2>5. ~(now > lastRoll_) => rollFile(c) = c
      BY <2>3, Zenon DEF rollFile
    <2> QED
      BY <1>5, <1>7, <2>2, <2>4, <2>5
  <1>10. now \in Nat /\ lastRoll_ \in Nat /\ rollSize_ \in Nat /\ count_ \in Nat
            /\ checkEveryN_ \in Nat
    BY RollAssumption, ClockAssumption DEF LoggerTypeOK
  <1>11. n \in Nat
    <2>1. With(ls) \in Seq(File) /\ Len(files) \in 1 .. Len(With(ls))
      BY WithFacts DEF LoggerTypeOK
    <2>2. w[Len(files)] \in File
      BY <1>5, <2>1
    <2>3. w[Len(files)].lines \in Seq(0 .. MaxLines)
      BY <2>2, FileFacts
    <2> QED
      BY <1>5, <2>3
  <1>12. PICK a : a = append_unlocked(Here, ls)
    OBVIOUS
  <1>13. files' = a.files /\ unflushed' = a.unflushed /\ count_' = a.count
           /\ startOfPeriod_' = a.period /\ lastRoll_' = a.roll /\ lastFlush_' = a.flush
           /\ strays' = a.strays
    BY <1>12 DEF LogFileBecomes
  <1>14. CASE n > rollSize_
    <2>1. a = rollFile(put)
      BY <1>3, <1>4, <1>5, <1>12, <1>14
    <2>2. CASE now > lastRoll_
      BY <1>5, <1>8, <1>13, <2>1, <2>2
    <2>3. CASE ~(now > lastRoll_)
      <3>1. a = put /\ now <= lastRoll_
        BY <1>8, <1>10, <2>1, <2>3
      <3> QED
        BY <1>5, <1>6, <1>13, <3>1 DEF stray
    <2> QED
      BY <2>2, <2>3
  <1>15. CASE ~(n > rollSize_) /\ count_ + 1 < checkEveryN_
    <2>1. a = [put EXCEPT !.count = @ + 1] /\ n <= rollSize_
      BY <1>3, <1>4, <1>5, <1>6, <1>10, <1>11, <1>12, <1>15
    <2> QED
      BY <1>5, <1>6, <1>13, <1>15, <2>1 DEF stray
  <1>16. CASE ~(n > rollSize_) /\ ~(count_ + 1 < checkEveryN_) /\ p # startOfPeriod_
    <2>1. a = rollFile(c) /\ n <= rollSize_ /\ count_ + 1 >= checkEveryN_
      BY <1>3, <1>4, <1>5, <1>6, <1>10, <1>11, <1>12, <1>16
    <2>2. CASE now > lastRoll_
      BY <1>5, <1>9, <1>13, <2>1, <2>2
    <2>3. CASE ~(now > lastRoll_)
      <3>1. a = c /\ now <= lastRoll_
        BY <1>9, <1>10, <2>1, <2>3
      <3> QED
        BY <1>5, <1>7, <1>13, <2>1, <3>1 DEF stray
    <2> QED
      BY <2>2, <2>3
  <1>17. CASE ~(n > rollSize_) /\ ~(count_ + 1 < checkEveryN_) /\ ~(p # startOfPeriod_)
    <2>1. a \in {[c EXCEPT !.flush = now, !.unflushed = 0], c}
            /\ n <= rollSize_ /\ count_ + 1 >= checkEveryN_
      BY <1>3, <1>4, <1>5, <1>6, <1>10, <1>11, <1>12, <1>17
    <2>2. Period(now) = startOfPeriod_
      BY <1>5, <1>17
    <2>3. CASE a = c
      BY <1>5, <1>7, <1>13, <2>1, <2>2, <2>3 DEF stray
    <2>4. CASE a = [c EXCEPT !.flush = now, !.unflushed = 0]
      BY <1>5, <1>7, <1>13, <2>1, <2>2, <2>4 DEF stray
    <2> QED
      BY <2>1, <2>3, <2>4
  <1> QED
    BY <1>14, <1>15, <1>16, <1>17

-----------------------------------------------------------------------------
(* The invariants of the files *)

LogTypes ==
    /\ files \in Seq(File) /\ unflushed \in Nat /\ strays \in Nat
    /\ count_ \in 0 .. checkEveryN_ - 1
    /\ lastRoll_ \in 0 .. MaxNow /\ lastFlush_ \in 0 .. MaxNow /\ startOfPeriod_ \in Nat

Piece == Seq(0 .. MaxLines)
LinesIn(fs) == [i \in DOMAIN fs |-> fs[i].lines]

LEMMA LinesInFacts ==
  ASSUME NEW fs \in Seq(File)
  PROVE  /\ LinesIn(fs) \in Seq(Piece) /\ Len(LinesIn(fs)) = Len(fs)
         /\ \A i \in 1 .. Len(fs) : LinesIn(fs)[i] = fs[i].lines
  <1>1. PICK n : n = Len(fs) /\ n \in Nat /\ DOMAIN fs = 1 .. n
    OBVIOUS
  <1>2. \A i \in 1 .. n : fs[i] \in File
    BY <1>1
  <1>3. \A i \in 1 .. n : fs[i].lines \in Piece
    BY <1>2, FileFacts, Zenon DEF Piece
  <1>4. LinesIn(fs) = [i \in 1 .. n |-> fs[i].lines]
    BY <1>1, Zenon DEF LinesIn
  <1>5. LinesIn(fs) \in [1 .. n -> Piece] /\ \A i \in 1 .. n : LinesIn(fs)[i] = fs[i].lines
    BY <1>3, <1>4, Zenon
  <1>6. LinesIn(fs) \in Seq(Piece) /\ Len(LinesIn(fs)) = n
    BY <1>1, <1>5
  <1> QED
    BY <1>1, <1>5, <1>6

\* T is S with ls put to its last piece, and perhaps an empty piece after it.
Grows(S, T, ls) ==
    /\ Len(S) > 0 /\ Len(T) \in {Len(S), Len(S) + 1}
    /\ \A i \in 1 .. Len(S) - 1 : T[i] = S[i]
    /\ T[Len(S)] = S[Len(S)] \o ls
    /\ Len(T) = Len(S) + 1 => T[Len(T)] = <<>>

LEMMA OpenedFacts ==
  ASSUME LoggerTypeOK, NEW fs \in Seq(File)
  PROVE  /\ Opened(fs) \in Seq(File) /\ Len(Opened(fs)) = Len(fs) + 1
         /\ \A i \in 1 .. Len(fs) : Opened(fs)[i] = fs[i]
         /\ Opened(fs)[Len(fs) + 1].at = now /\ Opened(fs)[Len(fs) + 1].lines = <<>>
  <1>1. PICK q : q = [at |-> now, lines |-> <<>>]
    OBVIOUS
  <1>2. <<>> \in Seq(0 .. MaxLines) /\ now \in 1 .. MaxNow
    BY DEF LoggerTypeOK
  <1>3. q \in File
    BY <1>1, <1>2, FileIs
  <1>4. q.at = now /\ q.lines = <<>>
    BY <1>1
  <1>5. Opened(fs) = Append(fs, q)
    BY <1>1 DEF Opened
  <1>6. /\ Append(fs, q) \in Seq(File) /\ Len(Append(fs, q)) = Len(fs) + 1
        /\ \A i \in 1 .. Len(fs) : Append(fs, q)[i] = fs[i]
        /\ Append(fs, q)[Len(fs) + 1] = q
    BY <1>3
  <1> QED
    BY <1>4, <1>5, <1>6, Zenon

LEMMA AppendFiles ==
  ASSUME LoggerTypeOK, Len(files) > 0, NEW ls \in Seq(0 .. MaxLines), NEW g,
         g \in {With(ls), Opened(With(ls))}
  PROVE  g \in Seq(File) /\ Grows(Lines, LinesIn(g), ls)
  <1>1. PICK w, n : w = With(ls) /\ n = Len(files)
    OBVIOUS
  <1>2. n \in Nat /\ n > 0 /\ files \in Seq(File)
    BY <1>1 DEF LoggerTypeOK
  <1>3. /\ w \in Seq(File) /\ Len(w) = n
        /\ \A i \in 1 .. n - 1 : w[i].lines = files[i].lines
        /\ w[n].lines = files[n].lines \o ls
    BY <1>1, WithFacts
  <1>4. PICK S, L, O : S = Lines /\ L = LinesIn(w) /\ O = LinesIn(Opened(w))
    OBVIOUS
  <1>5. S = LinesIn(files)
    BY <1>4 DEF Lines, LinesIn
  <1>6. Len(S) = n /\ \A i \in 1 .. n : S[i] = files[i].lines
    BY <1>1, <1>2, <1>5, LinesInFacts
  <1>7. Len(L) = n /\ \A i \in 1 .. n : L[i] = w[i].lines
    BY <1>3, <1>4, LinesInFacts
  <1>8. /\ Opened(w) \in Seq(File) /\ Len(Opened(w)) = n + 1
        /\ \A i \in 1 .. n : Opened(w)[i] = w[i]
        /\ Opened(w)[n + 1].lines = <<>>
    BY <1>3, OpenedFacts
  <1>9. Len(O) = n + 1 /\ \A i \in 1 .. n + 1 : O[i] = Opened(w)[i].lines
    <2>1. O = LinesIn(Opened(w)) /\ Opened(w) \in Seq(File)
      BY <1>4, <1>8
    <2> QED
      BY <1>8, <2>1, LinesInFacts
  <1>10. (\A i \in 1 .. n : i \in 1 .. n + 1) /\ n + 1 \in 1 .. n + 1 /\ n \in 1 .. n
           /\ \A i \in 1 .. n - 1 : i \in 1 .. n
    BY <1>2
  <1>11. L[n] = S[n] \o ls /\ \A i \in 1 .. n - 1 : L[i] = S[i]
    BY <1>3, <1>6, <1>7, <1>10, Zenon
  <1>12. O[n + 1] = <<>> /\ \A i \in 1 .. n : O[i] = L[i]
    BY <1>7, <1>8, <1>9, <1>10, Zenon
  <1>13. Grows(S, L, ls)
    BY <1>2, <1>6, <1>7, <1>11 DEF Grows
  <1>14. Grows(S, O, ls)
    <2>1. O[n] = S[n] \o ls /\ \A i \in 1 .. n - 1 : O[i] = S[i]
      BY <1>10, <1>11, <1>12, Zenon
    <2> QED
      BY <1>2, <1>6, <1>9, <1>12, <2>1 DEF Grows
  <1>15. CASE g = w
    BY <1>3, <1>4, <1>13, <1>15, Zenon
  <1>16. CASE g = Opened(w)
    BY <1>4, <1>8, <1>14, <1>16, Zenon
  <1> QED
    BY <1>1, <1>15, <1>16, Zenon

LEMMA AppendSound ==
  ASSUME LoggerTypeOK, FilesSound, Len(files) > 0, NEW ls \in Seq(0 .. MaxLines),
         LogFileBecomes(append_unlocked(Here, ls)), now' = now, pc' \notin {"none", "begin"}
  PROVE  /\ LogTypes' /\ FilesSound' /\ Grows(Lines, Lines', ls)
         /\ Len(files') > 0
         /\ Len(files'[Len(files')].lines) > rollSize_ => files'[Len(files')].at = now
  <1>1. PICK w, n, p : w = With(ls) /\ n = Len(files) /\ p = Period(now)
    OBVIOUS
  <1>2. /\ n \in Nat /\ n > 0 /\ now \in 1 .. MaxNow /\ MaxNow \in Nat
        /\ checkEveryN_ \in Nat \ {0} /\ rollSize_ \in Nat
        /\ LogTypes
    BY <1>1, RollAssumption, ClockAssumption DEF LoggerTypeOK, LogTypes
  <1>3. /\ w \in Seq(File) /\ Len(w) = n
        /\ \A i \in 1 .. n : w[i].at = files[i].at
    BY <1>1, WithFacts
  <1>4. /\ Opened(w) \in Seq(File) /\ Len(Opened(w)) = n + 1
        /\ \A i \in 1 .. n : Opened(w)[i] = w[i]
        /\ Opened(w)[n + 1].at = now /\ Opened(w)[n + 1].lines = <<>>
    BY <1>3, OpenedFacts
  <1>5. p \in Nat
    BY <1>1, <1>2, PeriodFacts
  <1>6. \A i \in 1 .. n : files[i].at \in Nat
    <2>1. \A i \in 1 .. n : files[i] \in File
      BY <1>1, <1>2 DEF LogTypes
    <2>2. \A i \in 1 .. n : files[i].at \in 1 .. MaxNow
      BY <2>1, FileFacts
    <2> QED
      BY <2>2
  <1>7. lastRoll_ = files[n].at /\ startOfPeriod_ = Period(lastRoll_) /\ lastRoll_ <= now
          /\ (strays > 0 => p # startOfPeriod_) /\ strays <= count_
    BY <1>1 DEF FilesSound
  <1>8. \A i, j \in 1 .. n : i < j => files[i].at < files[j].at
    BY <1>1, <1>2 DEF FilesSound, NamesDistinct, LogTypes
  <1>9. \A i \in 1 .. n : files[i].at <= lastRoll_
    BY <1>2, <1>6, <1>7, <1>8
  <1> DEFINE stray == IF p # startOfPeriod_ THEN 1 ELSE 0
  <1>10. CASE /\ files' = Opened(w) /\ unflushed' = 0
              /\ count_' \in {count_, 0} /\ startOfPeriod_' = p
              /\ now > lastRoll_ /\ lastRoll_' = now /\ lastFlush_' = now /\ strays' = 0
    <2>1. LogTypes'
      <3>1. 0 \in 0 .. checkEveryN_ - 1 /\ now \in 0 .. MaxNow
        BY <1>2
      <3>2. count_' \in 0 .. checkEveryN_ - 1
        BY <1>2, <1>10, <3>1 DEF LogTypes
      <3> QED
        BY <1>4, <1>5, <1>10, <3>1, <3>2 DEF LogTypes
    <2>2. NamesDistinct'
      <3>1. \A i \in 1 .. n : files'[i].at = files[i].at
        BY <1>3, <1>4, <1>10, Zenon
      <3>2. files'[n + 1].at = now /\ DOMAIN files' = 1 .. n + 1
        BY <1>2, <1>4, <1>10
      <3>3. SUFFICES ASSUME NEW i \in 1 .. n + 1, NEW j \in 1 .. n + 1, i < j
                     PROVE  files'[i].at < files'[j].at
        BY <3>2 DEF NamesDistinct
      <3>4. i \in 1 .. n /\ (j \in 1 .. n \/ j = n + 1)
        BY <1>2, <3>3
      <3>5. CASE j \in 1 .. n
        BY <1>8, <3>1, <3>3, <3>4, <3>5
      <3>6. CASE j = n + 1
        <4>1. files[i].at < now
          BY <1>2, <1>6, <1>9, <1>10, <3>4 DEF LogTypes
        <4> QED
          BY <3>1, <3>2, <3>4, <3>6, <4>1
      <3> QED
        BY <3>4, <3>5, <3>6
    <2>3. FilesSound'
      <3>1. Len(files') = n + 1 /\ files'[n + 1].at = now /\ n + 1 > 0
        BY <1>2, <1>4, <1>10
      <3>2. 0 <= count_' /\ ~(0 > 0)
        BY <1>2, <1>10 DEF LogTypes
      <3>3. now <= now
        BY <1>2
      <3>4. lastRoll_' = files'[Len(files')].at /\ startOfPeriod_' = Period(lastRoll_')
        BY <1>1, <1>10, <3>1
      <3> QED
        BY <1>10, <2>2, <3>1, <3>2, <3>3, <3>4 DEF FilesSound, Period
    <2>4. Len(files') > 0 /\ files'[Len(files')].at = now
      BY <1>2, <1>4, <1>10
    <2>5. Grows(Lines, Lines', ls)
      BY <1>1, <1>10, AppendFiles DEF Lines, LinesIn
    <2> QED
      BY <2>1, <2>3, <2>4, <2>5
  <1>11. CASE /\ files' = w
              /\ startOfPeriod_' = startOfPeriod_ /\ lastRoll_' = lastRoll_
              /\ lastFlush_' \in {lastFlush_, now}
              /\ unflushed' \in {unflushed + Len(ls), 0}
              /\ strays' = strays + stray
              /\ \/ /\ count_' = count_ /\ now <= lastRoll_
                 \/ /\ Len(w[n].lines) <= rollSize_
                    /\ \/ count_' = count_ + 1 /\ count_ + 1 < checkEveryN_
                       \/ count_' = 0 /\ count_ + 1 >= checkEveryN_
                          /\ (p # startOfPeriod_ => now <= lastRoll_)
    <2>1. now <= lastRoll_ => now = lastRoll_ /\ p = startOfPeriod_
      <3>1. now <= lastRoll_ => now = lastRoll_
        BY <1>2, <1>7 DEF LogTypes
      <3> QED
        BY <1>1, <1>7, <3>1
    <2>2. count_' \in 0 .. checkEveryN_ - 1
      BY <1>2, <1>11 DEF LogTypes
    <2>3. strays' \in Nat /\ strays' <= count_' /\ (strays' > 0 => p # startOfPeriod_)
      BY <1>2, <1>7, <1>11, <2>1 DEF LogTypes
    <2>4. lastFlush_' \in 0 .. MaxNow /\ unflushed' \in Nat
      <3>1. Len(ls) \in Nat
        OBVIOUS
      <3> QED
        BY <1>2, <1>11, <3>1 DEF LogTypes
    <2>5. LogTypes'
      BY <1>2, <1>3, <1>11, <2>2, <2>3, <2>4 DEF LogTypes
    <2>6. NamesDistinct'
      <3>1. DOMAIN files' = 1 .. n /\ \A i \in 1 .. n : files'[i].at = files[i].at
        BY <1>2, <1>3, <1>11
      <3> QED
        BY <1>8, <3>1 DEF NamesDistinct
    <2>7. Len(files') = n /\ files'[n].at = files[n].at /\ n > 0
      BY <1>2, <1>3, <1>11
    <2>8. Period(now)' = p
      BY <1>1 DEF Period
    <2>9. Period(lastRoll_)' = Period(lastRoll_)
      BY <1>11 DEF Period
    <2>10. FilesSound'
      BY <1>7, <1>11, <2>3, <2>6, <2>7, <2>8, <2>9 DEF FilesSound
    <2>11. Grows(Lines, Lines', ls)
      BY <1>1, <1>11, AppendFiles DEF Lines, LinesIn
    <2>12. Len(files'[n].lines) > rollSize_ => files'[n].at = now
      <3>1. CASE Len(w[n].lines) <= rollSize_
        <4>1. w[n] \in File
          BY <1>2, <1>3
        <4>2. w[n].lines \in Seq(0 .. MaxLines)
          BY <4>1, FileFacts
        <4>3. Len(w[n].lines) \in Nat
          BY <4>2
        <4> QED
          BY <1>2, <1>11, <3>1, <4>3
      <3>2. CASE now <= lastRoll_
        BY <1>7, <2>1, <2>7, <3>2
      <3> QED
        BY <1>11, <3>1, <3>2
    <2> QED
      BY <2>5, <2>7, <2>10, <2>11, <2>12
  <1> HIDE DEF stray
  <1> QED
    BY <1>1, <1>10, <1>11, AppendCases DEF stray

-----------------------------------------------------------------------------
(* Sequences of pieces *)

LEMMA PieceFacts ==
  ASSUME NEW b \in Piece
  PROVE  Len(b) \in Nat /\ DOMAIN b = 1 .. Len(b) /\ b \in Seq(0 .. MaxLines)
  BY DEF Piece

LEMMA InLines ==
  ASSUME NEW S, NEW x
  PROVE  x \in LinesOf(S) <=> \E i \in DOMAIN S : \E k \in DOMAIN S[i] : x = S[i][k]
  <1>1. ASSUME x \in LinesOf(S) PROVE \E i \in DOMAIN S : \E k \in DOMAIN S[i] : x = S[i][k]
    <2>1. PICK i \in DOMAIN S : x \in ToSet(S[i])
      BY <1>1 DEF LinesOf
    <2> QED
      BY <2>1 DEF ToSet
  <1>2. ASSUME NEW i \in DOMAIN S, NEW k \in DOMAIN S[i], x = S[i][k] PROVE x \in LinesOf(S)
    <2>1. x \in ToSet(S[i])
      BY <1>2 DEF ToSet
    <2> QED
      BY <2>1 DEF LinesOf
  <1> QED
    BY <1>1, <1>2

LEMMA ConcatFacts ==
  ASSUME NEW S \in Seq(Piece), NEW T \in Seq(Piece)
  PROVE  /\ S \o T \in Seq(Piece) /\ Len(S) \in Nat /\ Len(T) \in Nat
         /\ DOMAIN S = 1 .. Len(S) /\ DOMAIN T = 1 .. Len(T)
         /\ DOMAIN (S \o T) = 1 .. Len(S) + Len(T)
         /\ \A i \in 1 .. Len(S) : (S \o T)[i] = S[i]
         /\ \A j \in 1 .. Len(T) : (S \o T)[Len(S) + j] = T[j]
         /\ \A i \in 1 .. Len(S) + Len(T) : i \in 1 .. Len(S) \/ \E j \in 1 .. Len(T) : i = Len(S) + j
         /\ \A i \in 1 .. Len(S), j \in 1 .. Len(T) : i < Len(S) + j
         /\ \A i \in 1 .. Len(S) : i \in 1 .. Len(S) + Len(T)
         /\ \A j \in 1 .. Len(T) : Len(S) + j \in 1 .. Len(S) + Len(T)
  <1>1. Len(S) \in Nat /\ Len(T) \in Nat
    OBVIOUS
  <1>2. \A i \in 1 .. Len(S) + Len(T) : i \in 1 .. Len(S) \/ \E j \in 1 .. Len(T) : i = Len(S) + j
    <2>1. SUFFICES ASSUME NEW i \in 1 .. Len(S) + Len(T), i \notin 1 .. Len(S)
                   PROVE  \E j \in 1 .. Len(T) : i = Len(S) + j
      OBVIOUS
    <2>2. i - Len(S) \in 1 .. Len(T) /\ i = Len(S) + (i - Len(S))
      BY <1>1, <2>1
    <2> QED
      BY <2>2
  <1>3. /\ \A i \in 1 .. Len(S), j \in 1 .. Len(T) : i < Len(S) + j
        /\ \A i \in 1 .. Len(S) : i \in 1 .. Len(S) + Len(T)
        /\ \A j \in 1 .. Len(T) : Len(S) + j \in 1 .. Len(S) + Len(T)
    BY <1>1
  <1>4. /\ S \o T \in Seq(Piece)
        /\ DOMAIN S = 1 .. Len(S) /\ DOMAIN T = 1 .. Len(T)
        /\ DOMAIN (S \o T) = 1 .. Len(S) + Len(T)
        /\ \A i \in 1 .. Len(S) : (S \o T)[i] = S[i]
        /\ \A j \in 1 .. Len(T) : (S \o T)[Len(S) + j] = T[j]
    OBVIOUS
  <1> QED
    BY <1>1, <1>2, <1>3, <1>4

LEMMA ConcatLines ==
  ASSUME NEW S \in Seq(Piece), NEW T \in Seq(Piece)
  PROVE  LinesOf(S \o T) = LinesOf(S) \cup LinesOf(T)
  <1>1. PICK U, m, n : U = S \o T /\ m = Len(S) /\ n = Len(T)
    OBVIOUS
  <1>2. /\ DOMAIN S = 1 .. m /\ DOMAIN T = 1 .. n /\ DOMAIN U = 1 .. m + n
        /\ \A i \in 1 .. m : U[i] = S[i]
        /\ \A j \in 1 .. n : U[m + j] = T[j]
        /\ \A i \in 1 .. m + n : i \in 1 .. m \/ \E j \in 1 .. n : i = m + j
        /\ \A i \in 1 .. m : i \in 1 .. m + n
        /\ \A j \in 1 .. n : m + j \in 1 .. m + n
    BY <1>1, ConcatFacts
  <1>3. ASSUME NEW x \in LinesOf(U) PROVE x \in LinesOf(S) \cup LinesOf(T)
    <2>1. PICK i \in DOMAIN U : \E k \in DOMAIN U[i] : x = U[i][k]
      BY <1>3, InLines
    <2>2. CASE i \in 1 .. m
      BY <1>2, <2>1, <2>2, InLines, Zenon
    <2>3. CASE \E j \in 1 .. n : i = m + j
      <3>1. PICK j \in 1 .. n : i = m + j
        BY <2>3
      <3>2. j \in DOMAIN T /\ \E k \in DOMAIN T[j] : x = T[j][k]
        BY <1>2, <2>1, <3>1, Zenon
      <3> QED
        BY <3>2, InLines
    <2> QED
      BY <1>2, <2>1, <2>2, <2>3, Zenon
  <1>4. ASSUME NEW x \in LinesOf(S) PROVE x \in LinesOf(U)
    <2>1. PICK i \in DOMAIN S : \E k \in DOMAIN S[i] : x = S[i][k]
      BY <1>4, InLines
    <2> QED
      BY <1>2, <2>1, InLines, Zenon
  <1>5. ASSUME NEW x \in LinesOf(T) PROVE x \in LinesOf(U)
    <2>1. PICK j \in DOMAIN T : \E k \in DOMAIN T[j] : x = T[j][k]
      BY <1>5, InLines
    <2>2. m + j \in DOMAIN U /\ U[m + j] = T[j]
      BY <1>2, Zenon
    <2>3. \E k \in DOMAIN U[m + j] : x = U[m + j][k]
      BY <2>1, <2>2, Zenon
    <2> QED
      BY <2>2, <2>3, InLines, Zenon
  <1> QED
    BY <1>1, <1>3, <1>4, <1>5, Zenon

LEMMA ConcatSorted ==
  ASSUME NEW S \in Seq(Piece), NEW T \in Seq(Piece)
  PROVE  Sorted(S \o T) <=> Sorted(S) /\ Sorted(T) /\ Less(LinesOf(S), LinesOf(T))
  <1>1. PICK U, m, n : U = S \o T /\ m = Len(S) /\ n = Len(T)
    OBVIOUS
  <1>2. /\ m \in Nat /\ n \in Nat
        /\ DOMAIN S = 1 .. m /\ DOMAIN T = 1 .. n /\ DOMAIN U = 1 .. m + n
        /\ \A i \in 1 .. m : U[i] = S[i]
        /\ \A j \in 1 .. n : U[m + j] = T[j]
        /\ \A i \in 1 .. m + n : i \in 1 .. m \/ \E j \in 1 .. n : i = m + j
        /\ \A i \in 1 .. m, j \in 1 .. n : i < m + j
        /\ \A i \in 1 .. m : i \in 1 .. m + n
        /\ \A j \in 1 .. n : m + j \in 1 .. m + n
    BY <1>1, ConcatFacts
  <1>3. \A i, j \in 1 .. n : (m + i < m + j <=> i < j) /\ (m + i = m + j <=> i = j)
    BY <1>2
  <1>4. ASSUME Sorted(U) PROVE Sorted(S) /\ Sorted(T) /\ Less(LinesOf(S), LinesOf(T))
    <2>1. Sorted(S)
      BY <1>2, <1>4, Zenon DEF Sorted
    <2>2. Sorted(T)
      <3>1. SUFFICES ASSUME NEW i \in DOMAIN T, NEW j \in DOMAIN T,
                            NEW k \in DOMAIN T[i], NEW l \in DOMAIN T[j],
                            IsLine(T[i][k]), IsLine(T[j][l]), i < j \/ (i = j /\ k < l)
                     PROVE  T[i][k] < T[j][l]
        BY Zenon DEF Sorted
      <3>2. m + i \in DOMAIN U /\ m + j \in DOMAIN U /\ U[m + i] = T[i] /\ U[m + j] = T[j]
        BY <1>2, Zenon
      <3>3. m + i < m + j \/ (m + i = m + j /\ k < l)
        BY <1>2, <1>3, <3>1, Zenon
      <3> QED
        BY <1>4, <3>1, <3>2, <3>3, Zenon DEF Sorted
    <2>3. Less(LinesOf(S), LinesOf(T))
      <3>1. SUFFICES ASSUME NEW x \in LinesOf(S), NEW y \in LinesOf(T), IsLine(x), IsLine(y)
                     PROVE  x < y
        BY Zenon DEF Less
      <3>2. PICK i \in DOMAIN S : \E k \in DOMAIN S[i] : x = S[i][k]
        BY InLines
      <3>3. PICK j \in DOMAIN T : \E l \in DOMAIN T[j] : y = T[j][l]
        BY InLines
      <3>4. i \in DOMAIN U /\ m + j \in DOMAIN U /\ U[i] = S[i] /\ U[m + j] = T[j] /\ i < m + j
        BY <1>2, Zenon
      <3> QED
        BY <1>4, <3>1, <3>2, <3>3, <3>4, Zenon DEF Sorted
    <2> QED
      BY <2>1, <2>2, <2>3
  <1>5. ASSUME Sorted(S), Sorted(T), Less(LinesOf(S), LinesOf(T)) PROVE Sorted(U)
    <2>1. SUFFICES ASSUME NEW i \in DOMAIN U, NEW j \in DOMAIN U,
                          NEW k \in DOMAIN U[i], NEW l \in DOMAIN U[j],
                          IsLine(U[i][k]), IsLine(U[j][l]), i < j \/ (i = j /\ k < l)
                   PROVE  U[i][k] < U[j][l]
      BY Zenon DEF Sorted
    <2>2. CASE i \in 1 .. m /\ j \in 1 .. m
      BY <1>2, <1>5, <2>1, <2>2, Zenon DEF Sorted
    <2>3. CASE i \in 1 .. m /\ \E q \in 1 .. n : j = m + q
      <3>1. PICK q \in 1 .. n : j = m + q
        BY <2>3
      <3>2. U[i] = S[i] /\ U[j] = T[q]
        BY <1>2, <2>3, <3>1, Zenon
      <3>3. U[i][k] \in LinesOf(S) /\ U[j][l] \in LinesOf(T)
        BY <1>2, <2>1, <2>3, <3>1, <3>2, InLines, Zenon
      <3> QED
        BY <1>5, <2>1, <3>3, Zenon DEF Less
    <2>4. CASE (\E q \in 1 .. n : i = m + q) /\ j \in 1 .. m
      <3>1. ~(i < j) /\ i # j
        BY <1>2, <2>4
      <3> QED
        BY <2>1, <3>1
    <2>5. CASE (\E q \in 1 .. n : i = m + q) /\ (\E q \in 1 .. n : j = m + q)
      <3>1. PICK p, q \in 1 .. n : i = m + p /\ j = m + q
        BY <2>5
      <3>2. U[i] = T[p] /\ U[j] = T[q] /\ (p < q \/ (p = q /\ k < l))
        BY <1>2, <1>3, <2>1, <3>1, Zenon
      <3>3. p \in DOMAIN T /\ q \in DOMAIN T /\ k \in DOMAIN T[p] /\ l \in DOMAIN T[q]
               /\ IsLine(T[p][k]) /\ IsLine(T[q][l])
        BY <1>2, <2>1, <3>2, Zenon
      <3>4. T[p][k] < T[q][l]
        BY <1>5, <3>2, <3>3, Zenon DEF Sorted
      <3> QED
        BY <3>2, <3>4, Zenon
    <2> QED
      BY <1>2, <2>2, <2>3, <2>4, <2>5, Zenon
  <1> QED
    BY <1>1, <1>4, <1>5, Zenon

\* One piece.
LEMMA SinglePiece ==
  ASSUME NEW b
  PROVE  /\ LinesOf(<<b>>) = ToSet(b)
         /\ Sorted(<<b>>) <=> \A k, m \in DOMAIN b :
                 IsLine(b[k]) /\ IsLine(b[m]) /\ k < m => b[k] < b[m]
  <1>1. PICK S : S = <<b>>
    OBVIOUS
  <1>2. DOMAIN S = {1} /\ S[1] = b
    BY <1>1
  <1>3. LinesOf(S) = ToSet(b)
    BY <1>2, Zenon DEF LinesOf
  <1>4. ~(1 < 1)
    OBVIOUS
  <1>5. Sorted(S) <=> \A k, m \in DOMAIN b : IsLine(b[k]) /\ IsLine(b[m]) /\ k < m => b[k] < b[m]
    BY <1>2, <1>4, Zenon DEF Sorted
  <1> QED
    BY <1>1, <1>3, <1>5

LEMMA NoPiece == LinesOf(<<>>) = {} /\ Sorted(<<>>) /\ <<>> \in Seq(Piece)
  <1>1. PICK e : e = <<>>
    OBVIOUS
  <1>2. DOMAIN e = {} /\ e \in Seq(Piece)
    BY <1>1
  <1>3. LinesOf(e) = {} /\ Sorted(e)
    BY <1>2, Zenon DEF LinesOf, Sorted
  <1> QED
    BY <1>1, <1>2, <1>3

\* Where the lines of T are, when T is S, n pieces and the last one m long, grown by ls.
GrownPlaces(S, T, ls, n, m) ==
    /\ n \in Nat /\ m \in Nat /\ n \in DOMAIN S /\ n \in DOMAIN T
    /\ \A i \in DOMAIN S : i \in DOMAIN T /\ i \in Nat /\ i <= n
    /\ \A i \in DOMAIN S : \A k \in DOMAIN S[i] : k \in DOMAIN T[i] /\ T[i][k] = S[i][k]
    /\ \A k \in DOMAIN S[n] : k \in Nat /\ k <= m
    /\ \A q \in DOMAIN ls : q \in Nat \ {0} /\ m + q \in DOMAIN T[n] /\ T[n][m + q] = ls[q]
    /\ \A i \in DOMAIN T : \A k \in DOMAIN T[i] :
           \/ i \in DOMAIN S /\ k \in DOMAIN S[i]
           \/ i = n /\ \E q \in DOMAIN ls : k = m + q

LEMMA GrowsPlaces ==
  ASSUME NEW S \in Seq(Piece), NEW T \in Seq(Piece), NEW ls \in Piece, Grows(S, T, ls),
         NEW n, NEW m, n = Len(S), m = Len(S[n])
  PROVE  GrownPlaces(S, T, ls, n, m)
  <1>1. PICK b, t : n = Len(S) /\ b = S[n] /\ m = Len(b) /\ t = Len(T)
    OBVIOUS
  <1>2. n \in Nat /\ n > 0 /\ t \in Nat /\ DOMAIN S = 1 .. n /\ DOMAIN T = 1 .. t
          /\ (t = n \/ t = n + 1)
    <2>1. n \in Nat /\ t \in Nat /\ DOMAIN S = 1 .. n /\ DOMAIN T = 1 .. t
      BY <1>1
    <2>2. n > 0 /\ (t = n \/ t = n + 1)
      BY <1>1 DEF Grows
    <2> QED
      BY <2>1, <2>2
  <1>3. n \in DOMAIN S /\ n \in DOMAIN T /\ \A i \in DOMAIN S : i \in DOMAIN T /\ i \in Nat /\ i <= n
    <2>1. n \in 1 .. n /\ n \in 1 .. t /\ \A i \in 1 .. n : i \in 1 .. t /\ i \in Nat /\ i <= n
      BY <1>2
    <2> QED
      BY <1>2, <2>1, Zenon
  <1>4. b \in Piece
    BY <1>1, <1>3
  <1>5. m \in Nat /\ DOMAIN b = 1 .. m /\ b \in Seq(0 .. MaxLines) /\ ls \in Seq(0 .. MaxLines)
           /\ Len(ls) \in Nat /\ DOMAIN ls = 1 .. Len(ls)
    BY <1>1, <1>4, PieceFacts
  <1>6. T[n] = b \o ls /\ (\A i \in 1 .. n - 1 : T[i] = S[i]) /\ (t = n + 1 => T[n + 1] = <<>>)
    BY <1>1 DEF Grows
  <1>7. PICK c : c = b \o ls
    OBVIOUS
  <1>8. /\ DOMAIN c = 1 .. m + Len(ls)
        /\ \A k \in 1 .. m : c[k] = b[k]
        /\ \A q \in 1 .. Len(ls) : c[m + q] = ls[q]
    BY <1>1, <1>5, <1>7
  <1>9. \A i \in DOMAIN S : \A k \in DOMAIN S[i] : k \in DOMAIN T[i] /\ T[i][k] = S[i][k]
    <2>1. SUFFICES ASSUME NEW i \in 1 .. n, NEW k \in DOMAIN S[i]
                   PROVE  k \in DOMAIN T[i] /\ T[i][k] = S[i][k]
      BY <1>2
    <2>2. CASE i = n
      <3>1. k \in 1 .. m /\ k \in DOMAIN c
        BY <1>1, <1>5, <1>8, <2>1, <2>2
      <3>2. c[k] = b[k]
        BY <1>8, <3>1
      <3> QED
        BY <1>1, <1>6, <1>7, <2>2, <3>1, <3>2
    <2>3. CASE i # n
      <3>1. i \in 1 .. n - 1
        BY <1>2, <2>1, <2>3
      <3> QED
        BY <1>6, <3>1
    <2> QED
      BY <2>2, <2>3
  <1>10. \A k \in DOMAIN b : k \in Nat /\ k <= m
    BY <1>5
  <1>11. \A q \in DOMAIN ls : q \in Nat \ {0} /\ m + q \in DOMAIN T[n] /\ T[n][m + q] = ls[q]
    <2>1. \A q \in 1 .. Len(ls) : q \in Nat \ {0} /\ m + q \in 1 .. m + Len(ls)
      BY <1>5
    <2> QED
      BY <1>5, <1>6, <1>7, <1>8, <2>1
  <1>12. ASSUME NEW i \in DOMAIN T, NEW k \in DOMAIN T[i]
         PROVE  (i \in DOMAIN S /\ k \in DOMAIN S[i]) \/ (i = n /\ \E q \in DOMAIN ls : k = m + q)
    <2>1. i \in 1 .. n - 1 \/ i = n \/ (i = n + 1 /\ t = n + 1)
      <3>1. i \in 1 .. t
        BY <1>2, <1>12
      <3> QED
        BY <1>2, <3>1
    <2>2. CASE i \in 1 .. n - 1
      <3>1. i \in 1 .. n
        BY <1>2, <2>2
      <3> QED
        BY <1>2, <1>6, <2>2, <3>1, <1>12
    <2>3. CASE i = n
      <3>1. k \in 1 .. m + Len(ls)
        BY <1>6, <1>7, <1>8, <1>12, <2>3
      <3>2. k \in 1 .. m \/ (k - m \in 1 .. Len(ls) /\ k = m + (k - m))
        BY <1>5, <3>1
      <3> QED
        BY <1>1, <1>2, <1>3, <1>5, <2>3, <3>2
    <2>4. CASE i = n + 1 /\ t = n + 1
      <3>1. T[i] = <<>>
        BY <1>6, <2>4
      <3>2. DOMAIN T[i] = {}
        BY <3>1
      <3> QED
        BY <1>12, <3>2
    <2> QED
      BY <2>1, <2>2, <2>3, <2>4
  <1> QED
    BY <1>1, <1>2, <1>3, <1>5, <1>9, <1>10, <1>11, <1>12 DEF GrownPlaces

LEMMA GrowsLines ==
  ASSUME NEW S \in Seq(Piece), NEW T \in Seq(Piece), NEW ls \in Piece, Grows(S, T, ls)
  PROVE  LinesOf(T) = LinesOf(S) \cup ToSet(ls)
  <1>1. PICK n, m : n = Len(S) /\ m = Len(S[n])
    OBVIOUS
  <1>2. /\ n \in DOMAIN T
        /\ \A i \in DOMAIN S : i \in DOMAIN T
        /\ \A i \in DOMAIN S : \A k \in DOMAIN S[i] : k \in DOMAIN T[i] /\ T[i][k] = S[i][k]
        /\ \A q \in DOMAIN ls : m + q \in DOMAIN T[n] /\ T[n][m + q] = ls[q]
        /\ \A i \in DOMAIN T : \A k \in DOMAIN T[i] :
                   \/ i \in DOMAIN S /\ k \in DOMAIN S[i]
                   \/ i = n /\ \E q \in DOMAIN ls : k = m + q
    <2>1. GrownPlaces(S, T, ls, n, m)
      BY <1>1, GrowsPlaces
    <2> QED
      BY <2>1, Zenon DEF GrownPlaces
  <1>3. ASSUME NEW x \in LinesOf(T) PROVE x \in LinesOf(S) \cup ToSet(ls)
    <2>1. PICK i \in DOMAIN T : \E k \in DOMAIN T[i] : x = T[i][k]
      BY <1>3, InLines
    <2>2. PICK k \in DOMAIN T[i] : x = T[i][k]
      BY <2>1
    <2>3. CASE i \in DOMAIN S /\ k \in DOMAIN S[i]
      <3>1. x = S[i][k]
        BY <1>2, <2>2, <2>3, Zenon
      <3> QED
        BY <2>3, <3>1, InLines
    <2>4. CASE i = n /\ \E q \in DOMAIN ls : k = m + q
      <3>1. PICK q \in DOMAIN ls : k = m + q
        BY <2>4
      <3>2. x = ls[q]
        BY <1>2, <2>2, <2>4, <3>1, Zenon
      <3> QED
        BY <3>2 DEF ToSet
    <2> QED
      BY <1>2, <2>3, <2>4, Zenon
  <1>4. ASSUME NEW x \in LinesOf(S) PROVE x \in LinesOf(T)
    <2>1. PICK i \in DOMAIN S : \E k \in DOMAIN S[i] : x = S[i][k]
      BY <1>4, InLines
    <2>2. i \in DOMAIN T /\ \E k \in DOMAIN T[i] : x = T[i][k]
      BY <1>2, <2>1, Zenon
    <2> QED
      BY <2>2, InLines
  <1>5. ASSUME NEW x \in ToSet(ls) PROVE x \in LinesOf(T)
    <2>1. PICK q \in DOMAIN ls : x = ls[q]
      BY <1>5 DEF ToSet
    <2>2. m + q \in DOMAIN T[n] /\ T[n][m + q] = x /\ n \in DOMAIN T
      BY <1>2, <2>1, Zenon
    <2> QED
      BY <2>2, InLines
  <1> QED
    BY <1>3, <1>4, <1>5, Zenon

LEMMA GrowsSorted ==
  ASSUME NEW S \in Seq(Piece), NEW T \in Seq(Piece), NEW ls \in Piece, Grows(S, T, ls),
         Sorted(S), Sorted(<<ls>>), Less(LinesOf(S), ToSet(ls))
  PROVE  Sorted(T)
  <1>1. PICK n, m : n = Len(S) /\ m = Len(S[n])
    OBVIOUS
  <1>2. /\ n \in Nat /\ m \in Nat /\ n \in DOMAIN T
        /\ \A i \in DOMAIN S : i \in DOMAIN T /\ i \in Nat /\ i <= n
        /\ \A i \in DOMAIN S : \A k \in DOMAIN S[i] : k \in DOMAIN T[i] /\ T[i][k] = S[i][k]
        /\ \A k \in DOMAIN S[n] : k \in Nat /\ k <= m
        /\ \A q \in DOMAIN ls : q \in Nat \ {0} /\ m + q \in DOMAIN T[n] /\ T[n][m + q] = ls[q]
        /\ \A i \in DOMAIN T : \A k \in DOMAIN T[i] :
                   \/ i \in DOMAIN S /\ k \in DOMAIN S[i]
                   \/ i = n /\ \E q \in DOMAIN ls : k = m + q
    <2>1. GrownPlaces(S, T, ls, n, m)
      BY <1>1, GrowsPlaces
    <2> QED
      BY <2>1, Zenon DEF GrownPlaces
  <1>3. \A q, r \in DOMAIN ls : IsLine(ls[q]) /\ IsLine(ls[r]) /\ q < r => ls[q] < ls[r]
    BY SinglePiece, Zenon
  <1>4. SUFFICES ASSUME NEW i \in DOMAIN T, NEW j \in DOMAIN T,
                        NEW k \in DOMAIN T[i], NEW l \in DOMAIN T[j],
                        IsLine(T[i][k]), IsLine(T[j][l]), i < j \/ (i = j /\ k < l)
                 PROVE  T[i][k] < T[j][l]
    BY Zenon DEF Sorted
  <1>5. CASE i \in DOMAIN S /\ k \in DOMAIN S[i] /\ j \in DOMAIN S /\ l \in DOMAIN S[j]
    BY <1>2, <1>4, <1>5, Zenon DEF Sorted
  <1>6. CASE i \in DOMAIN S /\ k \in DOMAIN S[i] /\ j = n /\ \E q \in DOMAIN ls : l = m + q
    <2>1. PICK q \in DOMAIN ls : l = m + q
      BY <1>6
    <2>2. T[i][k] = S[i][k] /\ T[j][l] = ls[q]
      BY <1>2, <1>6, <2>1, Zenon
    <2>3. T[i][k] \in LinesOf(S) /\ T[j][l] \in ToSet(ls)
      BY <1>6, <2>1, <2>2, InLines DEF ToSet
    <2> QED
      BY <1>4, <2>3, Zenon DEF Less
  <1>7. CASE i = n /\ (\E q \in DOMAIN ls : k = m + q) /\ j \in DOMAIN S /\ l \in DOMAIN S[j]
    <2>1. PICK q \in DOMAIN ls : k = m + q
      BY <1>7
    <2>2. j \in Nat /\ j <= n /\ q \in Nat \ {0} /\ (j = n => l \in Nat /\ l <= m)
      BY <1>2, <1>7, Zenon
    <2>3. ~(i < j) /\ ~(i = j /\ k < l)
      BY <1>2, <1>7, <2>1, <2>2
    <2> QED
      BY <1>4, <2>3
  <1>8. CASE i = n /\ (\E q \in DOMAIN ls : k = m + q) /\ j = n /\ (\E q \in DOMAIN ls : l = m + q)
    <2>1. PICK q, r \in DOMAIN ls : k = m + q /\ l = m + r
      BY <1>8
    <2>2. T[i][k] = ls[q] /\ T[j][l] = ls[r] /\ q \in Nat /\ r \in Nat
      BY <1>2, <1>8, <2>1, Zenon
    <2>3. q < r
      BY <1>2, <1>4, <1>8, <2>1, <2>2
    <2> QED
      BY <1>3, <1>4, <2>2, <2>3, Zenon
  <1> QED
    BY <1>2, <1>5, <1>6, <1>7, <1>8, Zenon

\* Old places stay as they are, new ones come after them.
LEMMA GrowsAfter ==
  ASSUME NEW S \in Seq(Piece), NEW T \in Seq(Piece), NEW ls \in Piece, Grows(S, T, ls)
  PROVE  /\ \A a \in Places(S) : a \in Places(T) /\ T[a[1]][a[2]] = S[a[1]][a[2]]
         /\ \A a \in Places(T) \ Places(S) :
               T[a[1]][a[2]] \in ToSet(ls) /\ \A b \in Places(S) : Before(b, a)
         /\ \A x \in ToSet(ls) : \E a \in Places(T) \ Places(S) : T[a[1]][a[2]] = x
  <1>1. PICK n, m : n = Len(S) /\ m = Len(S[n])
    OBVIOUS
  <1>2. /\ n \in Nat /\ m \in Nat /\ n \in DOMAIN S /\ n \in DOMAIN T
        /\ \A i \in DOMAIN S : i \in DOMAIN T /\ i \in Nat /\ i <= n
        /\ \A i \in DOMAIN S : \A k \in DOMAIN S[i] : k \in DOMAIN T[i] /\ T[i][k] = S[i][k]
        /\ \A k \in DOMAIN S[n] : k \in Nat /\ k <= m
        /\ \A q \in DOMAIN ls : q \in Nat \ {0} /\ m + q \in DOMAIN T[n] /\ T[n][m + q] = ls[q]
        /\ \A i \in DOMAIN T : \A k \in DOMAIN T[i] :
                   \/ i \in DOMAIN S /\ k \in DOMAIN S[i]
                   \/ i = n /\ \E q \in DOMAIN ls : k = m + q
    <2>1. GrownPlaces(S, T, ls, n, m)
      BY <1>1, GrowsPlaces
    <2> QED
      BY <2>1, Zenon DEF GrownPlaces
  <1>3. \A V, a : a \in Places(V) <=> \E i \in DOMAIN V : \E k \in DOMAIN V[i] : a = <<i, k>>
    BY DEF Places
  <1>4. ASSUME NEW a \in Places(S) PROVE a \in Places(T) /\ T[a[1]][a[2]] = S[a[1]][a[2]]
    <2>1. PICK i \in DOMAIN S : \E k \in DOMAIN S[i] : a = <<i, k>>
      BY <1>3, <1>4
    <2>2. PICK k \in DOMAIN S[i] : a = <<i, k>>
      BY <2>1
    <2>3. i \in DOMAIN T /\ k \in DOMAIN T[i] /\ T[i][k] = S[i][k]
      BY <1>2, <2>1, <2>2, Zenon
    <2>4. a[1] = i /\ a[2] = k
      BY <2>2
    <2>5. a \in Places(T)
      BY <1>3, <2>2, <2>3
    <2> QED
      BY <2>3, <2>4, <2>5
  <1>5. ASSUME NEW a \in Places(T) \ Places(S)
        PROVE  T[a[1]][a[2]] \in ToSet(ls) /\ \A b \in Places(S) : Before(b, a)
    <2>1. PICK i \in DOMAIN T : \E k \in DOMAIN T[i] : a = <<i, k>>
      BY <1>3, <1>5
    <2>2. PICK k \in DOMAIN T[i] : a = <<i, k>>
      BY <2>1
    <2>3. ~(i \in DOMAIN S /\ k \in DOMAIN S[i])
      BY <1>3, <1>5, <2>2
    <2>4. i = n /\ \E q \in DOMAIN ls : k = m + q
      BY <1>2, <2>1, <2>2, <2>3, Zenon
    <2>5. PICK q \in DOMAIN ls : k = m + q
      BY <2>4
    <2>6. T[i][k] = ls[q] /\ q \in Nat \ {0}
      BY <1>2, <2>4, <2>5, Zenon
    <2>7. a[1] = n /\ a[2] = m + q /\ T[a[1]][a[2]] = ls[q]
      BY <2>2, <2>4, <2>5, <2>6
    <2>8. ASSUME NEW b \in Places(S) PROVE Before(b, a)
      <3>1. PICK j \in DOMAIN S : \E l \in DOMAIN S[j] : b = <<j, l>>
        BY <1>3, <2>8
      <3>2. PICK l \in DOMAIN S[j] : b = <<j, l>>
        BY <3>1
      <3>3. b[1] = j /\ b[2] = l
        BY <3>2
      <3>4. j \in Nat /\ j <= n /\ (j = n => l \in Nat /\ l <= m)
        BY <1>2, <3>1, <3>2, Zenon
      <3>5. j < n \/ (j = n /\ l < m + q)
        BY <1>2, <2>6, <3>4
      <3> QED
        BY <2>7, <3>3, <3>5 DEF Before
    <2>9. ls[q] \in ToSet(ls)
      BY <2>5 DEF ToSet
    <2> QED
      BY <2>7, <2>8, <2>9
  <1>6. ASSUME NEW x \in ToSet(ls) PROVE \E a \in Places(T) \ Places(S) : T[a[1]][a[2]] = x
    <2>1. PICK q \in DOMAIN ls : x = ls[q]
      BY <1>6 DEF ToSet
    <2>2. q \in Nat \ {0} /\ m + q \in DOMAIN T[n] /\ T[n][m + q] = x
      BY <1>2, <2>1, Zenon
    <2>3. PICK a : a = <<n, m + q>>
      OBVIOUS
    <2>4. a[1] = n /\ a[2] = m + q
      BY <2>3
    <2>5. a \in Places(T)
      BY <1>2, <1>3, <2>2, <2>3
    <2>6. a \notin Places(S)
      <3>1. SUFFICES ASSUME NEW j \in DOMAIN S, NEW l \in DOMAIN S[j], a = <<j, l>> PROVE FALSE
        BY <1>3
      <3>2. j = n /\ l = m + q
        BY <2>4, <3>1
      <3>3. l \in Nat /\ l <= m
        BY <1>2, <3>1, <3>2, Zenon
      <3> QED
        BY <1>2, <2>2, <3>2, <3>3
    <2> QED
      BY <2>2, <2>4, <2>5, <2>6
  <1> QED
    BY <1>4, <1>5, <1>6

-----------------------------------------------------------------------------
(* Buffers *)

LEMMA BufferFacts ==
  ASSUME NEW b \in Buffer
  PROVE  /\ b \in Piece /\ b \in Seq(1 .. MaxLines) /\ Len(b) \in 0 .. BufferLines
         /\ \A x \in ToSet(b) : x \in 1 .. MaxLines /\ IsLine(x)
  <1>1. b \in Seq(1 .. MaxLines) /\ Len(b) <= BufferLines
    BY DEF Buffer
  <1>2. b \in Piece
    <2>1. 1 .. MaxLines \subseteq 0 .. MaxLines
      BY LinesAssumption
    <2>2. PICK A, B : A = 1 .. MaxLines /\ B = 0 .. MaxLines
      OBVIOUS
    <2>3. b \in Seq(A) /\ A \subseteq B
      BY <1>1, <2>1, <2>2
    <2>4. b \in Seq(B)
      BY <2>3
    <2> QED
      BY <2>2, <2>4 DEF Piece
  <1>3. Len(b) \in 0 .. BufferLines
    BY <1>1, BuffersAssumption
  <1>4. \A x \in ToSet(b) : x \in 1 .. MaxLines
    <2>1. PICK A : A = 1 .. MaxLines
      OBVIOUS
    <2>2. b \in Seq(A)
      BY <1>1, <2>1
    <2>3. \A x \in ToSet(b) : x \in A
      BY <2>2 DEF ToSet
    <2> QED
      BY <2>1, <2>3
  <1>5. \A x \in 1 .. MaxLines : IsLine(x)
    BY LinesAssumption DEF IsLine, DroppedMark
  <1> QED
    BY <1>1, <1>2, <1>3, <1>4, <1>5

LEMMA BuffersArePieces ==
  ASSUME NEW S \in Seq(Buffer)
  PROVE  S \in Seq(Piece) /\ \A x \in LinesOf(S) : x \in 1 .. MaxLines /\ IsLine(x)
  <1>1. PICK n : n = Len(S) /\ n \in Nat /\ DOMAIN S = 1 .. n
    OBVIOUS
  <1>2. \A i \in 1 .. n : S[i] \in Buffer
    BY <1>1
  <1>3. \A i \in 1 .. n : S[i] \in Piece /\ \A x \in ToSet(S[i]) : x \in 1 .. MaxLines /\ IsLine(x)
    BY <1>2, BufferFacts
  <1>4. S \in Seq(Piece)
    BY <1>1, <1>3
  <1>5. ASSUME NEW x \in LinesOf(S) PROVE x \in 1 .. MaxLines /\ IsLine(x)
    <2>1. PICK i \in 1 .. n : x \in ToSet(S[i])
      BY <1>1, <1>5 DEF LinesOf
    <2> QED
      BY <1>3, <2>1
  <1> QED
    BY <1>4, <1>5

LEMMA EmptyBuffer == Empty \in Buffer /\ ToSet(Empty) = {}
  <1>1. Empty \in Seq(1 .. MaxLines) /\ Len(Empty) = 0 /\ DOMAIN Empty = {}
    BY DEF Empty
  <1>2. 0 <= BufferLines
    BY BuffersAssumption
  <1> QED
    BY <1>1, <1>2 DEF Buffer, ToSet

LEMMA AppendLine ==
  ASSUME NEW b \in Buffer, NEW l \in 1 .. MaxLines, Len(b) < BufferLines,
         Sorted(<<b>>), Less(ToSet(b), {l})
  PROVE  Append(b, l) \in Buffer /\ Sorted(<<Append(b, l)>>) /\ ToSet(Append(b, l)) = ToSet(b) \cup {l}
  <1>1. PICK c, n : c = Append(b, l) /\ n = Len(b)
    OBVIOUS
  <1>2. b \in Seq(1 .. MaxLines) /\ n \in Nat /\ DOMAIN b = 1 .. n /\ BufferLines \in Nat
    BY <1>1, BufferFacts, BuffersAssumption
  <1>3. /\ c \in Seq(1 .. MaxLines) /\ Len(c) = n + 1 /\ DOMAIN c = 1 .. n + 1
        /\ c[n + 1] = l /\ \A i \in 1 .. n : c[i] = b[i]
    BY <1>1, <1>2
  <1>4. c \in Buffer
    BY <1>1, <1>2, <1>3 DEF Buffer
  <1>5. \A i \in 1 .. n + 1 : i \in 1 .. n \/ i = n + 1
    BY <1>2
  <1>6. n + 1 \in 1 .. n + 1 /\ \A i \in 1 .. n : i \in 1 .. n + 1 /\ ~(n + 1 < i) /\ ~(n + 1 < n + 1)
    BY <1>2
  <1>7. ToSet(c) = ToSet(b) \cup {l}
    BY <1>2, <1>3, <1>5, <1>6, Zenon DEF ToSet
  <1>8. \A k, m \in DOMAIN b : IsLine(b[k]) /\ IsLine(b[m]) /\ k < m => b[k] < b[m]
    BY SinglePiece, Zenon
  <1>9. ASSUME NEW k \in DOMAIN c, NEW m \in DOMAIN c, IsLine(c[k]), IsLine(c[m]), k < m
        PROVE  c[k] < c[m]
    <2>1. k \in 1 .. n
      BY <1>2, <1>3, <1>9
    <2>2. CASE m \in 1 .. n
      BY <1>2, <1>3, <1>8, <1>9, <2>1, <2>2, Zenon
    <2>3. CASE m = n + 1
      <3>1. c[k] = b[k] /\ c[m] = l /\ b[k] \in ToSet(b)
        BY <1>2, <1>3, <2>1, <2>3, Zenon DEF ToSet
      <3> QED
        BY <1>9, <3>1, Zenon DEF Less
    <2> QED
      BY <1>3, <1>5, <2>2, <2>3
  <1>10. Sorted(<<c>>)
    BY <1>9, SinglePiece, Zenon
  <1> QED
    BY <1>1, <1>4, <1>7, <1>10, Zenon

LEMMA Split ==
  ASSUME NEW S \in Seq(Buffer), NEW T \in Seq(Buffer)
  PROVE  /\ LinesOf(S \o T) = LinesOf(S) \cup LinesOf(T)
         /\ Sorted(S \o T) <=> Sorted(S) /\ Sorted(T) /\ Less(LinesOf(S), LinesOf(T))
  <1>1. S \in Seq(Piece) /\ T \in Seq(Piece)
    BY BuffersArePieces
  <1> QED
    BY <1>1, ConcatLines, ConcatSorted

LEMMA HeadTail ==
  ASSUME NEW S \in Seq(Buffer), S # <<>>, Sorted(S)
  PROVE  /\ Head(S) \in Buffer /\ Tail(S) \in Seq(Buffer)
         /\ LinesOf(S) = ToSet(Head(S)) \cup LinesOf(Tail(S))
         /\ Sorted(<<Head(S)>>) /\ Sorted(Tail(S)) /\ Less(ToSet(Head(S)), LinesOf(Tail(S)))
  <1>1. PICK h, t, H : h = Head(S) /\ t = Tail(S) /\ H = <<h>>
    OBVIOUS
  <1>2. h \in Buffer /\ t \in Seq(Buffer)
    BY <1>1
  <1>3. H \in Seq(Buffer)
    BY <1>1, <1>2
  <1>4. S = H \o t
    BY <1>1
  <1>5. LinesOf(H) = ToSet(h)
    BY <1>1, SinglePiece
  <1>6. LinesOf(S) = LinesOf(H) \cup LinesOf(t) /\ Sorted(H) /\ Sorted(t) /\ Less(LinesOf(H), LinesOf(t))
    BY <1>2, <1>3, <1>4, Split
  <1> QED
    BY <1>1, <1>2, <1>5, <1>6

LEMMA FirstTwoRest ==
  ASSUME NEW S \in Seq(Buffer), Len(S) > 2
  PROVE  /\ FirstTwo(S) \in Seq(Buffer) /\ Len(FirstTwo(S)) = 2
         /\ SubSeq(S, 3, Len(S)) \in Seq(Buffer)
         /\ S = FirstTwo(S) \o SubSeq(S, 3, Len(S))
  <1>1. PICK n, K, R : n = Len(S) /\ K = SubSeq(S, 1, 2) /\ R = SubSeq(S, 3, n)
    OBVIOUS
  <1>2. n \in Nat /\ n > 2 /\ DOMAIN S = 1 .. n /\ \A i \in 1 .. n : S[i] \in Buffer
    BY <1>1
  <1>3. FirstTwo(S) = K
    BY <1>1, <1>2 DEF FirstTwo
  <1>4. K \in Seq(Buffer) /\ Len(K) = 2 /\ \A i \in 1 .. 2 : K[i] = S[i]
    BY <1>1, <1>2
  <1>5. R \in Seq(Buffer) /\ Len(R) = n - 2 /\ \A i \in 1 .. n - 2 : R[i] = S[i + 2]
    BY <1>1, <1>2
  <1>6. S = K \o R
    BY <1>1, <1>2, <1>4, <1>5
  <1> QED
    BY <1>1, <1>3, <1>4, <1>5, <1>6

-----------------------------------------------------------------------------
(* What every action uses *)

LEMMA PtrFacts ==
  ASSUME NEW p \in Ptr \ {Null}
  PROVE  p = <<p[1]>> /\ p[1] \in Buffer /\ p \in Seq(Buffer) /\ Len(p) = 1
  <1>1. p \in Seq(Buffer) /\ Len(p) <= 1 /\ p # <<>>
    BY DEF Ptr, Null
  <1>2. Len(p) = 1
    <2>1. PICK n : n = Len(p)
      OBVIOUS
    <2>2. n \in Nat /\ n # 0 /\ n <= 1
      BY <1>1, <2>1
    <2>3. n = 1
      BY <2>2
    <2> QED
      BY <2>1, <2>3
  <1> QED
    BY <1>1, <1>2

LEMMA LogFacts ==
  ASSUME LogInv
  PROVE  /\ Lines \in Seq(Piece) /\ Len(Lines) = Len(files) /\ Len(files) \in Nat
         /\ toAppend \in Seq(Buffer) /\ buffers_ \in Seq(Buffer) /\ currentBuffer_ \in Seq(Buffer)
         /\ currentBuffer_ = <<currentBuffer_[1]>> /\ currentBuffer_[1] \in Buffer
         /\ OnFile \subseteq 0 .. MaxLines
         /\ \A x \in Writing \cup Full \cup Current : IsLine(x)
         /\ \A x \in OnFile \cup Writing \cup Full \cup Current : IsLine(x) => x \in 1 .. appended
         /\ \A x \in 1 .. appended : x \in Nat /\ x <= appended
         /\ appended \in Nat /\ MaxLines \in Nat
  <1>1. LoggerTypeOK /\ Covered
    BY DEF LogInv
  <1>2. Lines \in Seq(Piece) /\ Len(Lines) = Len(files) /\ Len(files) \in Nat
    <2>1. files \in Seq(File) /\ Lines = LinesIn(files)
      BY <1>1 DEF LoggerTypeOK, Lines, LinesIn
    <2> QED
      BY <2>1, LinesInFacts
  <1>3. toAppend \in Seq(Buffer) /\ buffers_ \in Seq(Buffer) /\ currentBuffer_ \in Ptr \ {Null}
    BY <1>1 DEF LoggerTypeOK
  <1>4. currentBuffer_ = <<currentBuffer_[1]>> /\ currentBuffer_[1] \in Buffer
           /\ currentBuffer_ \in Seq(Buffer)
    BY <1>3, PtrFacts
  <1>5. OnFile \subseteq 0 .. MaxLines
    <2>1. SUFFICES ASSUME NEW x \in LinesOf(Lines) PROVE x \in 0 .. MaxLines
      BY DEF OnFile
    <2>2. PICK i \in DOMAIN Lines : \E k \in DOMAIN Lines[i] : x = Lines[i][k]
      BY <2>1, InLines
    <2>3. Lines[i] \in Piece
      BY <1>2, <2>2
    <2>4. PICK b, A : b = Lines[i] /\ A = 0 .. MaxLines
      OBVIOUS
    <2>5. b \in Seq(A) /\ \E k \in DOMAIN b : x = b[k]
      BY <2>2, <2>3, <2>4 DEF Piece
    <2>6. x \in A
      BY <2>5
    <2> QED
      BY <2>4, <2>6
  <1>6. \A x \in Writing \cup Full \cup Current : IsLine(x)
    BY <1>3, <1>4, BuffersArePieces DEF Writing, Full, Current
  <1>7. \A x \in OnFile \cup Writing \cup Full \cup Current : IsLine(x) => x \in 1 .. appended
    BY <1>1, Zenon DEF Covered, IsLine
  <1>8. appended \in Nat /\ MaxLines \in Nat
    BY <1>1, LinesAssumption DEF LoggerTypeOK
  <1>9. \A x \in 1 .. appended : x \in Nat /\ x <= appended
    BY <1>8
  <1> QED
    BY <1>2, <1>3, <1>4, <1>5, <1>6, <1>7, <1>8, <1>9

\* Steps that move no line.
LEMMA LinesSame ==
  ASSUME LogInv, UNCHANGED <<files, toAppend, buffers_, currentBuffer_, appended, dropped>>,
         pc' = "drop" => pc = "drop"
  PROVE  Ordered' /\ Covered' /\ DropsOld' /\ Announced'
  <1>1. Lines' = Lines
    BY DEF Lines
  <1>2. OnFile' = OnFile /\ Writing' = Writing /\ Full' = Full /\ Current' = Current
    BY <1>1 DEF OnFile, Writing, Full, Current
  <1>3. Ordered'
    BY <1>1, <1>2 DEF LogInv, Ordered
  <1>4. Covered'
    BY <1>2 DEF LogInv, Covered
  <1>5. DropsOld'
    BY <1>2 DEF LogInv, DropsOld
  <1>6. Ends' = Ends /\ Marks' = Marks
    BY <1>1 DEF Ends, Marks
  <1>7. Announced'
    BY <1>1, <1>6, Zenon DEF LogInv, Announced, Announces
  <1> QED
    BY <1>3, <1>4, <1>5, <1>7

LEMMA FilesSame ==
  ASSUME FilesSound, UNCHANGED <<files, lastRoll_, startOfPeriod_, strays, count_, now>>,
         pc' \in {"none", "begin"} <=> pc \in {"none", "begin"}
  PROVE  FilesSound'
  <1>1. NamesDistinct'
    BY DEF FilesSound, NamesDistinct
  <1>2. Period(now)' = Period(now) /\ Period(lastRoll_)' = Period(lastRoll_)
    BY DEF Period
  <1> QED
    BY <1>1, <1>2 DEF FilesSound

-----------------------------------------------------------------------------
(* The actions *)

LEMMA OwnerInv ==
  ASSUME LogInv, start \/ StartEnds \/ stop \/ StopEnds
  PROVE  LogInv'
  <1>1. /\ UNCHANGED <<now, logfile, front, back>>
        /\ running_' \in BOOLEAN /\ owner' \in {"new", "latch", "started", "join", "stopped"}
        /\ \/ pc' = pc
           \/ pc = "none" /\ pc' = "begin"
        /\ Started'
    BY DEF start, StartEnds, stop, StopEnds, LogInv, LoggerTypeOK, Started
  <1>2. LoggerTypeOK'
    BY <1>1 DEF LogInv, LoggerTypeOK, logfile, front, back
  <1>3. Ordered' /\ Covered' /\ DropsOld' /\ Announced'
    BY <1>1, LinesSame DEF logfile, front, back
  <1>4. FilesSound'
    BY <1>1, FilesSame DEF LogInv, logfile
  <1>5. BuffersSound'
    BY <1>1 DEF LogInv, BuffersSound, front, back
  <1> QED
    BY <1>1, <1>2, <1>3, <1>4, <1>5 DEF LogInv

LEMMA ThreadBeginsInv == LogInv /\ ThreadBegins => LogInv'
  <1>1. SUFFICES ASSUME LogInv, ThreadBegins PROVE LogInv'
    OBVIOUS
  <1>2. /\ pc = "begin" /\ pc' = "loop" /\ now' = now
        /\ LogFileBecomes(rollFile(Here))
        /\ newBuffer1' = <<Empty>> /\ newBuffer2' = <<Empty>>
        /\ UNCHANGED <<running_, currentBuffer_, nextBuffer_, buffers_, appended,
                       buffersToWrite, toAppend, dropped, owner>>
    BY <1>1 DEF ThreadBegins, front
  <1>3. /\ files = <<>> /\ lastRoll_ = 0 /\ strays = 0 /\ now \in 1 .. MaxNow
        /\ MaxNow \in Nat /\ toAppend = <<>> /\ LoggerTypeOK
    BY <1>1, <1>2, ClockAssumption DEF LogInv, LoggerTypeOK, FilesSound, BuffersSound
  <1>4. PICK p, q, h : p = Period(now) /\ q = [at |-> now, lines |-> <<>>] /\ h = Here
    OBVIOUS
  <1>5. q \in File /\ q.at = now /\ q.lines = <<>>
    <2>1. <<>> \in Seq(0 .. MaxLines)
      OBVIOUS
    <2> QED
      BY <1>3, <1>4, <2>1, FileIs
  <1>6. h = [files |-> files, unflushed |-> unflushed, count |-> count_,
             period |-> startOfPeriod_, roll |-> lastRoll_, flush |-> lastFlush_,
             strays |-> strays]
    BY <1>4 DEF Here
  <1>7. PICK s : s = [h EXCEPT !.files = Append(@, q), !.unflushed = 0,
                   !.roll = now, !.flush = now, !.period = p, !.strays = 0]
    OBVIOUS
  <1>8. rollFile(Here) = s
    <2>1. h.roll = 0 /\ now > 0
      BY <1>3, <1>6
    <2> QED
      BY <1>4, <1>7, <2>1, Zenon DEF rollFile
  <1>9. s.files = Append(files, q) /\ s.unflushed = 0 /\ s.count = count_ /\ s.period = p
           /\ s.roll = now /\ s.flush = now /\ s.strays = 0
    BY <1>6, <1>7
  <1>10. files' = <<q>> /\ unflushed' = 0 /\ count_' = count_ /\ startOfPeriod_' = p
           /\ lastRoll_' = now /\ lastFlush_' = now /\ strays' = 0
    <2>1. files' = Append(<<>>, q)
      BY <1>2, <1>3, <1>8, <1>9 DEF LogFileBecomes
    <2>2. Append(<<>>, q) = <<q>>
      OBVIOUS
    <2> QED
      BY <1>2, <1>8, <1>9, <2>1, <2>2 DEF LogFileBecomes
  <1>11. files' \in Seq(File) /\ Len(files') = 1 /\ files'[1] = q
    BY <1>5, <1>10
  <1>12. p \in Nat
    BY <1>3, <1>4, PeriodFacts
  <1>13. LoggerTypeOK'
    <2>1. <<Empty>> \in Ptr
      BY EmptyBuffer DEF Ptr
    <2>2. now \in 0 .. MaxNow
      BY <1>3
    <2> QED
      BY <1>2, <1>3, <1>10, <1>11, <1>12, <2>1, <2>2 DEF LoggerTypeOK
  <1>14. FilesSound'
    <2>1. NamesDistinct'
      BY <1>11 DEF NamesDistinct
    <2>2. Period(lastRoll_)' = p
      BY <1>4, <1>10 DEF Period
    <2>3. strays' <= count_' /\ ~(strays' > 0) /\ lastRoll_' <= now'
      BY <1>2, <1>3, <1>10 DEF LoggerTypeOK
    <2>4. files'[Len(files')].at = now /\ Len(files') > 0
      BY <1>5, <1>11
    <2> QED
      BY <1>2, <1>10, <2>1, <2>2, <2>3, <2>4 DEF FilesSound
  <1>15. BuffersSound'
    BY <1>1, <1>2 DEF LogInv, BuffersSound
  <1>16. Lines' = <<<<>>>> /\ Lines = <<>>
    <2>1. Lines' = LinesIn(files') /\ Lines = LinesIn(files)
      BY DEF Lines, LinesIn
    <2>2. Lines' \in Seq(Piece) /\ Len(Lines') = 1 /\ Lines'[1] = files'[1].lines
      BY <1>11, <2>1, LinesInFacts
    <2>3. Lines'[1] = <<>>
      BY <1>5, <1>11, <2>2
    <2>4. Lines = <<>>
      <3>1. files \in Seq(File) /\ Len(files) = 0
        BY <1>3 DEF LoggerTypeOK
      <3>2. Lines \in Seq(Piece) /\ Len(Lines) = 0
        BY <2>1, <3>1, LinesInFacts
      <3> QED
        BY <3>2
    <2> QED
      BY <2>2, <2>3, <2>4
  <1>17. OnFile' = {} /\ Sorted(Lines') /\ OnFile = {}
    <2>1. ToSet(<<>>) = {} /\ Sorted(<<<<>>>>) /\ LinesOf(<<<<>>>>) = {}
      <3>1. PICK e : e = <<>>
        OBVIOUS
      <3>2. DOMAIN e = {}
        BY <3>1
      <3>3. ToSet(e) = {}
        BY <3>2 DEF ToSet
      <3>4. Sorted(<<e>>) /\ LinesOf(<<e>>) = {}
        BY <3>2, <3>3, SinglePiece
      <3> QED
        BY <3>1, <3>3, <3>4
    <2> QED
      BY <1>16, <2>1, NoPiece DEF OnFile
  <1>18. Writing' = Writing /\ Full' = Full /\ Current' = Current
    BY <1>2 DEF Writing, Full, Current
  <1>19. Ordered'
    BY <1>1, <1>2, <1>17, <1>18 DEF LogInv, Ordered, Less
  <1>20. Covered' /\ DropsOld'
    BY <1>1, <1>2, <1>17, <1>18 DEF LogInv, Covered, DropsOld
  <1>21. Announced'
    <2>1. Places(Lines) = {} /\ Places(Lines') = {}
      <3>1. PICK e, E : e = <<>> /\ E = <<e>>
        OBVIOUS
      <3>2. DOMAIN e = {} /\ DOMAIN E = {1} /\ E[1] = e
        BY <3>1
      <3>3. Places(e) = {} /\ Places(E) = {}
        BY <3>2 DEF Places
      <3> QED
        BY <1>16, <3>1, <3>3
    <2>2. Marks = {} /\ Marks' = {} /\ Ends' = Ends
      BY <1>2, <2>1 DEF Marks, Ends
    <2> QED
      BY <1>1, <2>1, <2>2, Zenon DEF LogInv, Announced, Announces
  <1> QED
    BY <1>1, <1>2, <1>13, <1>14, <1>15, <1>19, <1>20, <1>21 DEF LogInv, Started

\* Steps that only flush, or do nothing to the file.
LEMMA FlushIs ==
  ASSUME LogFileBecomes(flush(Here)) \/ UNCHANGED logfile
  PROVE  UNCHANGED <<files, count_, startOfPeriod_, lastRoll_, lastFlush_, strays>>
            /\ unflushed' \in {unflushed, 0}
  <1>1. CASE LogFileBecomes(flush(Here))
    <2>1. PICK h, s : h = Here /\ s = flush(h)
      OBVIOUS
    <2>2. h = [files |-> files, unflushed |-> unflushed, count |-> count_,
             period |-> startOfPeriod_, roll |-> lastRoll_, flush |-> lastFlush_,
             strays |-> strays]
      BY <2>1 DEF Here
    <2>3. s = [h EXCEPT !.unflushed = 0]
      BY <2>1 DEF flush
    <2>4. s.files = files /\ s.unflushed = 0 /\ s.count = count_ /\ s.period = startOfPeriod_
             /\ s.roll = lastRoll_ /\ s.flush = lastFlush_ /\ s.strays = strays
      BY <2>2, <2>3
    <2> QED
      BY <1>1, <2>1, <2>4 DEF LogFileBecomes
  <1>2. CASE UNCHANGED logfile
    BY <1>2 DEF logfile
  <1> QED
    BY <1>1, <1>2

LEMMA LoopInv == LogInv /\ (TestRunning \/ Wait) => LogInv'
  <1>1. SUFFICES ASSUME LogInv, TestRunning \/ Wait PROVE LogInv'
    OBVIOUS
  <1>2. /\ pc \in {"loop", "lock"} /\ pc' \in {"lock", "waiting", "ended"}
        /\ LogFileBecomes(flush(Here)) \/ UNCHANGED logfile
        /\ now' = now
        /\ UNCHANGED <<running_, currentBuffer_, nextBuffer_, buffers_, appended,
                       newBuffer1, newBuffer2, buffersToWrite, toAppend, dropped, owner>>
    BY <1>1 DEF TestRunning, Wait, front, back
  <1>3. /\ UNCHANGED <<files, count_, startOfPeriod_, lastRoll_, lastFlush_, strays>>
        /\ unflushed' \in {unflushed, 0}
    BY <1>2, FlushIs
  <1>4. LoggerTypeOK'
    BY <1>1, <1>2, <1>3 DEF LogInv, LoggerTypeOK
  <1>5. Ordered' /\ Covered' /\ DropsOld' /\ Announced'
    BY <1>1, <1>2, <1>3, LinesSame
  <1>6. FilesSound'
    BY <1>1, <1>2, <1>3, FilesSame DEF LogInv
  <1>7. BuffersSound'
    BY <1>1, <1>2 DEF LogInv, BuffersSound
  <1> QED
    BY <1>1, <1>2, <1>4, <1>5, <1>6, <1>7 DEF LogInv, Started

LEMMA RefillInv == LogInv /\ Refill => LogInv'
  <1>1. SUFFICES ASSUME LogInv, Refill PROVE LogInv'
    OBVIOUS
  <1>2. /\ pc = "write" /\ pc' = "loop" /\ toAppend = <<>>
        /\ LogFileBecomes(flush(Here))
        /\ now' = now /\ buffersToWrite' = <<>>
        /\ UNCHANGED <<running_, currentBuffer_, nextBuffer_, buffers_, appended,
                       toAppend, dropped, owner>>
    BY <1>1 DEF Refill, front
  <1>3. /\ UNCHANGED <<files, count_, startOfPeriod_, lastRoll_, lastFlush_, strays>>
        /\ unflushed' \in {unflushed, 0}
    BY <1>2, FlushIs
  <1>4. newBuffer1' = <<Empty>> /\ newBuffer2' = <<Empty>>
    <2>1. PICK kept : kept = FirstTwo(buffersToWrite)
      OBVIOUS
    <2>2. newBuffer1 = Null /\ newBuffer2 \in {Null, <<Empty>>} /\ buffersToWrite \in Seq(Buffer)
             /\ (newBuffer2 = Null => Len(buffersToWrite) >= 2)
      BY <1>1, <1>2 DEF LogInv, BuffersSound, LoggerTypeOK
    <2>3. /\ newBuffer1' = <<Empty>>
          /\ newBuffer2' = IF newBuffer2 = Null /\ Front(kept) # <<>> THEN <<Empty>> ELSE newBuffer2
      BY <1>1, <2>1, <2>2 DEF Refill
    <2>4. ASSUME newBuffer2 = Null PROVE Front(kept) # <<>>
      <3>1. kept = SubSeq(buffersToWrite, 1, 2) /\ Len(buffersToWrite) >= 2
        BY <2>1, <2>2, <2>4 DEF FirstTwo
      <3>2. kept \in Seq(Buffer) /\ Len(kept) = 2
        BY <2>2, <3>1
      <3>3. Len(Front(kept)) = 1
        BY <3>2 DEF Front
      <3> QED
        BY <3>3
    <2> QED
      BY <2>2, <2>3, <2>4
  <1>5. LoggerTypeOK'
    <2>1. <<Empty>> \in Ptr
      BY EmptyBuffer DEF Ptr
    <2> QED
      BY <1>1, <1>2, <1>3, <1>4, <2>1 DEF LogInv, LoggerTypeOK
  <1>6. Ordered' /\ Covered' /\ DropsOld' /\ Announced'
    BY <1>1, <1>2, <1>3, LinesSame
  <1>7. FilesSound'
    BY <1>1, <1>2, <1>3, FilesSame DEF LogInv
  <1>8. BuffersSound'
    BY <1>1, <1>2, <1>4 DEF LogInv, BuffersSound
  <1> QED
    BY <1>1, <1>2, <1>5, <1>6, <1>7, <1>8 DEF LogInv, Started

LEMMA ClockInv ==
  ASSUME LogInv, ClockTicks, UNCHANGED <<logfile, running_, front, back, pc, owner>>
  PROVE  LogInv'
  <1>1. now' = now + 1 /\ now < MaxNow /\ MaxNow \in Nat /\ now \in 1 .. MaxNow /\ LoggerTypeOK
    BY ClockAssumption DEF ClockTicks, LogInv, LoggerTypeOK
  <1>2. LoggerTypeOK'
    <2>1. now' \in 1 .. MaxNow
      BY <1>1
    <2> QED
      BY <1>1, <2>1 DEF LoggerTypeOK, logfile, front, back
  <1>3. Ordered' /\ Covered' /\ DropsOld' /\ Announced'
    BY LinesSame DEF logfile, front, back
  <1>4. FilesSound'
    <2>1. UNCHANGED <<files, startOfPeriod_, lastRoll_, strays, count_>> /\ pc' = pc
      BY DEF logfile
    <2>2. NamesDistinct'
      BY <2>1 DEF LogInv, FilesSound, NamesDistinct
    <2>3. Period(lastRoll_)' = Period(lastRoll_) /\ Period(now)' = Period(now + 1)
      BY <1>1, <2>1 DEF Period
    <2>4. lastRoll_ <= now /\ lastRoll_ \in Nat /\ now \in Nat /\ now + 1 \in Nat /\ now <= now + 1
      BY <1>1 DEF LogInv, FilesSound, LoggerTypeOK
    <2>5. /\ Period(lastRoll_) <= Period(now) /\ Period(now) <= Period(now + 1)
          /\ Period(lastRoll_) \in Nat /\ Period(now) \in Nat /\ Period(now + 1) \in Nat
      BY <2>4, PeriodMonotone, PeriodFacts
    <2>6. strays > 0 => startOfPeriod_ = Period(lastRoll_) /\ Period(now) # startOfPeriod_
      <3>1. strays > 0 => Len(files) > 0
        BY DEF LogInv, FilesSound
      <3> QED
        BY <3>1 DEF LogInv, FilesSound
    <2>7. strays > 0 => Period(now + 1) # startOfPeriod_
      BY <2>5, <2>6
    <2>8. lastRoll_ <= now'
      BY <1>1, <2>4
    <2> QED
      BY <2>1, <2>2, <2>3, <2>7, <2>8 DEF LogInv, FilesSound
  <1>5. BuffersSound'
    BY DEF LogInv, BuffersSound, front, back
  <1> QED
    BY <1>2, <1>3, <1>4, <1>5 DEF LogInv, Started

LEMMA SingleBuffer ==
  ASSUME NEW b \in Buffer
  PROVE  <<b>> \in Ptr \ {Null} /\ <<b>> \in Seq(Buffer) /\ LinesOf(<<b>>) = ToSet(b)
  <1>1. <<b>> \in Seq(Buffer) /\ Len(<<b>>) = 1 /\ <<b>> # <<>>
    OBVIOUS
  <1> QED
    BY <1>1, SinglePiece DEF Ptr, Null

LEMMA AppendInv == LogInv /\ append => LogInv'
  <1>1. SUFFICES ASSUME LogInv, append PROVE LogInv'
    OBVIOUS
  <1>2. PICK l, c : l = appended + 1 /\ c = currentBuffer_[1]
    OBVIOUS
  <1>3. /\ appended < MaxLines /\ appended' = l
        /\ UNCHANGED <<now, running_, newBuffer1, newBuffer2, buffersToWrite, toAppend, dropped,
                       pc, owner>>
        /\ UNCHANGED <<files, unflushed, count_, startOfPeriod_, lastRoll_, lastFlush_, strays>>
    BY <1>1, <1>2 DEF append, back, logfile
  <1>4. /\ toAppend \in Seq(Buffer) /\ buffers_ \in Seq(Buffer) /\ currentBuffer_ \in Seq(Buffer)
        /\ currentBuffer_ = <<c>> /\ c \in Buffer
        /\ \A x \in OnFile \cup Writing \cup Full \cup Current : IsLine(x) => x \in 1 .. appended
        /\ \A x \in 1 .. appended : x \in Nat /\ x <= appended
        /\ appended \in Nat /\ MaxLines \in Nat
    BY <1>1, <1>2, LogFacts
  <1>5. /\ l \in 1 .. MaxLines /\ l \in 0 .. MaxLines /\ IsLine(l)
        /\ 1 .. l = (1 .. appended) \cup {l}
        /\ l \notin 1 .. appended /\ \A x \in 1 .. appended : x < l
    BY <1>2, <1>3, <1>4 DEF IsLine, DroppedMark
  <1>6. /\ Less(OnFile, {l}) /\ Less(Writing, {l}) /\ Less(Full, {l}) /\ Less(Current, {l})
    BY <1>4, <1>5, Zenon DEF Less
  <1>7. dropped \subseteq 1 .. appended /\ Less(dropped, {l})
    <2>1. dropped \subseteq 1 .. appended
      BY <1>1 DEF LogInv, DropsOld
    <2> QED
      BY <1>5, <2>1, Zenon DEF Less
  <1>8. Current = ToSet(c) /\ Sorted(<<c>>)
    BY <1>1, <1>4, SingleBuffer DEF Current, LogInv, Ordered
  <1>9. \/ /\ Len(c) < BufferLines
           /\ currentBuffer_' = <<Append(c, l)>> /\ UNCHANGED <<nextBuffer_, buffers_>>
        \/ /\ buffers_' = buffers_ \o currentBuffer_
           /\ currentBuffer_' = <<Append(Empty, l)>> /\ nextBuffer_' = Null
    <2>1. nextBuffer_ = Null \/ nextBuffer_ = <<Empty>>
      BY <1>1 DEF LogInv, BuffersSound
    <2>2. <<Empty>>[1] = Empty
      OBVIOUS
    <2>3. (IF nextBuffer_ # Null THEN nextBuffer_[1] ELSE Empty) = Empty
      BY <2>1, <2>2
    <2> QED
      BY <1>1, <1>2, <1>3, <2>3 DEF append
  <1>10. Lines' = Lines /\ OnFile' = OnFile /\ Writing' = Writing
    BY <1>3 DEF Lines, OnFile, Writing
  <1>11. FilesSound'
    BY <1>1, <1>3, FilesSame DEF LogInv
  <1>12. Announced'
    <2>1. Ends' = Ends /\ Marks' = Marks
      BY <1>3, <1>10 DEF Ends, Marks
    <2> QED
      BY <1>1, <1>10, <2>1, Zenon DEF LogInv, Announced, Announces
  <1>13. /\ Sorted(Lines) /\ Sorted(toAppend) /\ Sorted(buffers_) /\ Sorted(currentBuffer_)
         /\ Less(OnFile, Writing) /\ Less(OnFile, Full) /\ Less(OnFile, Current)
         /\ Less(Writing, Full) /\ Less(Writing, Current) /\ Less(Full, Current)
    BY <1>1 DEF LogInv, Ordered
  <1>14. (OnFile \cup Writing \cup Full \cup Current) \ {DroppedMark} = (1 .. appended) \ dropped
    BY <1>1 DEF LogInv, Covered
  <1>15. /\ Less(dropped, Full) /\ Less(dropped, Current)
         /\ pc = "drop" => Less(dropped, Writing)
    BY <1>1 DEF LogInv, DropsOld
  <1>16. ASSUME NEW F, NEW C, Full' = F, Current' = C, F \cup C = Full \cup Current \cup {l},
                Less(OnFile, F), Less(OnFile, C), Less(Writing, F), Less(Writing, C), Less(F, C),
                Less(dropped, F), Less(dropped, C),
                Sorted(buffers_'), Sorted(currentBuffer_')
         PROVE  Ordered' /\ Covered' /\ DropsOld'
    <2>1. Ordered'
      BY <1>3, <1>10, <1>13, <1>16 DEF Ordered
    <2>2. Covered'
      <3>1. (OnFile \cup Writing \cup F \cup C) \ {DroppedMark}
              = ((OnFile \cup Writing \cup Full \cup Current) \ {DroppedMark}) \cup {l}
        BY <1>5, <1>16, Zenon DEF IsLine
      <3>2. (1 .. l) \ dropped = ((1 .. appended) \ dropped) \cup {l}
        BY <1>5, <1>7, Zenon
      <3> QED
        BY <1>3, <1>10, <1>14, <1>16, <3>1, <3>2, Zenon DEF Covered
    <2>3. DropsOld'
      <3>1. dropped \subseteq 1 .. l
        BY <1>5, <1>7, Zenon
      <3> QED
        BY <1>3, <1>10, <1>15, <1>16, <3>1 DEF DropsOld
    <2> QED
      BY <2>1, <2>2, <2>3
  <1>17. CASE /\ Len(c) < BufferLines
              /\ currentBuffer_' = <<Append(c, l)>> /\ UNCHANGED <<nextBuffer_, buffers_>>
    <2>1. Less(ToSet(c), {l})
      BY <1>6, <1>8
    <2>2. Append(c, l) \in Buffer /\ Sorted(<<Append(c, l)>>) /\ ToSet(Append(c, l)) = ToSet(c) \cup {l}
      BY <1>4, <1>5, <1>8, <1>17, <2>1, AppendLine
    <2>3. /\ <<Append(c, l)>> \in Ptr \ {Null}
          /\ LinesOf(<<Append(c, l)>>) = Current \cup {l}
      BY <1>8, <2>2, SingleBuffer
    <2>4. Full' = Full /\ Current' = Current \cup {l}
      BY <1>17, <2>3 DEF Full, Current
    <2>5. Sorted(buffers_') /\ Sorted(currentBuffer_')
      BY <1>13, <1>17, <2>2
    <2>6. \A X : Less(X, Current) /\ Less(X, {l}) => Less(X, Current \cup {l})
      BY Zenon DEF Less
    <2>7. Full \cup (Current \cup {l}) = Full \cup Current \cup {l}
      BY Zenon
    <2>8. Ordered' /\ Covered' /\ DropsOld'
      BY <1>6, <1>7, <1>13, <1>15, <1>16, <2>4, <2>5, <2>6, <2>7
    <2>9. LoggerTypeOK'
      <3>1. appended' \in 0 .. MaxLines
        BY <1>3, <1>5
      <3> QED
        BY <1>1, <1>3, <1>17, <2>3, <3>1 DEF LogInv, LoggerTypeOK
    <2>10. BuffersSound'
      BY <1>1, <1>3, <1>17 DEF LogInv, BuffersSound
    <2> QED
      BY <1>1, <1>3, <1>11, <1>12, <2>8, <2>9, <2>10 DEF LogInv, Started
  <1>18. CASE /\ buffers_' = buffers_ \o currentBuffer_
              /\ currentBuffer_' = <<Append(Empty, l)>> /\ nextBuffer_' = Null
    <2>1. Empty \in Buffer /\ ToSet(Empty) = {} /\ Len(Empty) < BufferLines
      BY EmptyBuffer, BuffersAssumption DEF Empty
    <2>2. Less(ToSet(Empty), {l}) /\ Sorted(<<Empty>>)
      <3>1. DOMAIN Empty = {}
        BY DEF Empty
      <3>2. Sorted(<<Empty>>)
        BY <3>1, SinglePiece
      <3> QED
        BY <2>1, <3>2, Zenon DEF Less
    <2>3. Append(Empty, l) \in Buffer /\ Sorted(<<Append(Empty, l)>>) /\ ToSet(Append(Empty, l)) = {l}
      BY <1>5, <2>1, <2>2, AppendLine
    <2>4. /\ <<Append(Empty, l)>> \in Ptr \ {Null}
          /\ LinesOf(<<Append(Empty, l)>>) = {l}
      BY <2>3, SingleBuffer
    <2>5. Full' = Full \cup Current /\ Current' = {l}
      BY <1>4, <1>18, <2>4, Split DEF Full, Current
    <2>6. Sorted(buffers_') /\ Sorted(currentBuffer_')
      BY <1>4, <1>13, <1>18, <2>3, Split DEF Full, Current
    <2>7. \A X : Less(X, Full) /\ Less(X, Current) => Less(X, Full \cup Current)
      BY Zenon DEF Less
    <2>8. Less(Full \cup Current, {l})
      BY <1>6, Zenon DEF Less
    <2>9. Ordered' /\ Covered' /\ DropsOld'
      BY <1>6, <1>7, <1>13, <1>15, <1>16, <2>5, <2>6, <2>7, <2>8
    <2>10. buffers_' \in Seq(Buffer) /\ buffers_' # <<>>
      BY <1>4, <1>18
    <2>11. LoggerTypeOK'
      <3>1. appended' \in 0 .. MaxLines
        BY <1>3, <1>5
      <3>2. nextBuffer_' \in Ptr
        BY <1>18 DEF Null, Ptr
      <3> QED
        BY <1>1, <1>3, <1>18, <2>4, <2>10, <3>1, <3>2 DEF LogInv, LoggerTypeOK
    <2>12. BuffersSound'
      BY <1>1, <1>3, <1>18, <2>10 DEF LogInv, BuffersSound
    <2> QED
      BY <1>1, <1>3, <1>11, <1>12, <2>9, <2>11, <2>12 DEF LogInv, Started
  <1> QED
    BY <1>9, <1>17, <1>18

LEMMA SwapInv == LogInv /\ Swap => LogInv'
  <1>1. SUFFICES ASSUME LogInv, Swap PROVE LogInv'
    OBVIOUS
  <1>2. /\ pc \in {"waiting", "lock"} /\ pc' = "drop"
        /\ buffersToWrite' = buffers_ \o currentBuffer_ /\ toAppend' = buffersToWrite'
        /\ buffers_' = <<>> /\ currentBuffer_' = newBuffer1 /\ newBuffer1' = Null
        /\ \/ nextBuffer_ = Null /\ nextBuffer_' = newBuffer2 /\ newBuffer2' = Null
           \/ nextBuffer_ # Null /\ UNCHANGED <<nextBuffer_, newBuffer2>>
        /\ UNCHANGED <<now, running_, appended, dropped, owner>>
        /\ UNCHANGED <<files, unflushed, count_, startOfPeriod_, lastRoll_, lastFlush_, strays>>
    BY <1>1 DEF Swap, logfile
  <1>3. /\ buffers_ \in Seq(Buffer) /\ currentBuffer_ \in Seq(Buffer) /\ Len(currentBuffer_) = 1
    BY <1>1, LogFacts, PtrFacts DEF LogInv, LoggerTypeOK
  <1>4. newBuffer1 = <<Empty>> /\ newBuffer2 = <<Empty>> /\ toAppend = <<>>
          /\ nextBuffer_ \in {Null, <<Empty>>} /\ (nextBuffer_ = Null => buffers_ # <<>>)
    BY <1>1, <1>2 DEF LogInv, BuffersSound
  <1>5. /\ toAppend' \in Seq(Buffer) /\ Len(toAppend') = Len(buffers_) + 1
        /\ Len(buffers_) \in Nat /\ (buffers_ # <<>> => Len(buffers_) >= 1)
    <2>1. PICK B, C : B = buffers_ /\ C = currentBuffer_
      OBVIOUS
    <2>2. B \in Seq(Buffer) /\ C \in Seq(Buffer) /\ Len(C) = 1
      BY <1>3, <2>1
    <2>3. B \o C \in Seq(Buffer) /\ Len(B \o C) = Len(B) + 1 /\ Len(B) \in Nat
      <3>1. B \o C \in Seq(Buffer) /\ Len(B \o C) = Len(B) + Len(C) /\ Len(B) \in Nat
        BY <2>2, ConcatProperties
      <3> QED
        BY <2>2, <3>1
    <2>4. B # <<>> => Len(B) # 0
      BY <2>2
    <2>5. B # <<>> => Len(B) >= 1
      BY <2>3, <2>4
    <2> QED
      BY <1>2, <2>1, <2>3, <2>5
  <1>6. <<Empty>> \in Ptr \ {Null} /\ Sorted(<<Empty>>) /\ LinesOf(<<Empty>>) = {}
    <2>1. DOMAIN Empty = {}
      BY DEF Empty
    <2> QED
      BY <2>1, EmptyBuffer, SingleBuffer, SinglePiece
  <1>7. /\ Lines' = Lines /\ OnFile' = OnFile /\ Full' = {} /\ Current' = {} /\ Writing = {}
        /\ Writing' = Full \cup Current
    BY <1>2, <1>3, <1>4, <1>6, NoPiece, Split DEF Lines, OnFile, Full, Current, Writing
  <1>8. Sorted(toAppend') /\ Sorted(buffers_') /\ Sorted(currentBuffer_')
    BY <1>1, <1>2, <1>3, <1>4, <1>6, NoPiece, Split DEF LogInv, Ordered, Full, Current
  <1>9. LoggerTypeOK'
    <2>1. Null \in Ptr
      BY DEF Null, Ptr
    <2>2. buffers_' \in Seq(Buffer)
      BY <1>2
    <2> QED
      BY <1>1, <1>2, <1>4, <1>5, <1>6, <2>1, <2>2 DEF LogInv, LoggerTypeOK
  <1>10. FilesSound'
    BY <1>1, <1>2, FilesSame DEF LogInv
  <1>11. BuffersSound'
    <2>1. <<Empty>> # Null
      BY DEF Null
    <2> QED
      BY <1>2, <1>4, <1>5, <2>1 DEF BuffersSound
  <1>12. Ordered'
    <2>1. Less(OnFile, Full \cup Current)
      BY <1>1, Zenon DEF LogInv, Ordered, Less
    <2>2. \A X : Less(X, {})
      BY Zenon DEF Less
    <2> QED
      BY <1>1, <1>7, <1>8, <2>1, <2>2 DEF LogInv, Ordered
  <1>13. Covered'
    <2>1. OnFile \cup {} \cup Full \cup Current = OnFile \cup (Full \cup Current) \cup {} \cup {}
      BY Zenon
    <2> QED
      BY <1>1, <1>2, <1>7, <2>1 DEF LogInv, Covered
  <1>14. DropsOld'
    <2>1. Less(dropped, Full \cup Current) /\ Less(dropped, {})
      BY <1>1, Zenon DEF LogInv, DropsOld, Less
    <2> QED
      BY <1>1, <1>2, <1>7, <2>1 DEF LogInv, DropsOld
  <1>15. Announced'
    <2>1. Ends' = Ends /\ Marks' = Marks
      BY <1>2, <1>7 DEF Ends, Marks
    <2> QED
      BY <1>1, <1>7, <2>1, Zenon DEF LogInv, Announced, Announces
  <1> QED
    BY <1>1, <1>2, <1>9, <1>10, <1>11, <1>12, <1>13, <1>14, <1>15 DEF LogInv, Started

\* What an append to the file does to the order of the lines and to the marks.
LEMMA FileGrows ==
  ASSUME LogInv, NEW ls \in Piece, Len(files) > 0, files' \in Seq(File), Grows(Lines, Lines', ls),
         Sorted(<<ls>>), Less(OnFile, ToSet(ls))
  PROVE  /\ OnFile' = OnFile \cup ToSet(ls) /\ Sorted(Lines')
         /\ \A a \in Places(Lines) : a \in Places(Lines') /\ Lines'[a[1]][a[2]] = Lines[a[1]][a[2]]
         /\ \A a \in Places(Lines') \ Places(Lines) :
               Lines'[a[1]][a[2]] \in ToSet(ls) /\ \A b \in Places(Lines) : Before(b, a)
         /\ \A x \in ToSet(ls) : \E a \in Places(Lines') \ Places(Lines) : Lines'[a[1]][a[2]] = x
  <1>1. Lines \in Seq(Piece) /\ Sorted(Lines)
    BY LogFacts DEF LogInv, Ordered
  <1>2. Lines' \in Seq(Piece)
    <2>1. Lines' = LinesIn(files')
      BY DEF Lines, LinesIn
    <2> QED
      BY <2>1, LinesInFacts
  <1>3. PICK S, T : S = Lines /\ T = Lines'
    OBVIOUS
  <1>4. S \in Seq(Piece) /\ T \in Seq(Piece) /\ Grows(S, T, ls) /\ Sorted(S)
           /\ Less(LinesOf(S), ToSet(ls))
    BY <1>1, <1>2, <1>3 DEF OnFile
  <1>5. LinesOf(T) = LinesOf(S) \cup ToSet(ls) /\ Sorted(T)
    BY <1>4, GrowsLines, GrowsSorted
  <1>6. /\ \A a \in Places(S) : a \in Places(T) /\ T[a[1]][a[2]] = S[a[1]][a[2]]
        /\ \A a \in Places(T) \ Places(S) :
               T[a[1]][a[2]] \in ToSet(ls) /\ \A b \in Places(S) : Before(b, a)
        /\ \A x \in ToSet(ls) : \E a \in Places(T) \ Places(S) : T[a[1]][a[2]] = x
    BY <1>4, GrowsAfter
  <1> QED
    BY <1>3, <1>5, <1>6 DEF OnFile

LEMMA WriteInv == LogInv /\ WriteBuffer => LogInv'
  <1>1. SUFFICES ASSUME LogInv, WriteBuffer PROVE LogInv'
    OBVIOUS
  <1>2. PICK b, t : b = Head(toAppend) /\ t = Tail(toAppend)
    OBVIOUS
  <1>3. /\ pc = "write" /\ pc' = "write" /\ toAppend # <<>> /\ toAppend' = t /\ now' = now
        /\ LogFileBecomes(append_unlocked(Here, b))
        /\ UNCHANGED <<running_, currentBuffer_, nextBuffer_, buffers_, appended,
                       newBuffer1, newBuffer2, buffersToWrite, dropped, owner>>
    BY <1>1, <1>2 DEF WriteBuffer, front
  <1>4. /\ b \in Buffer /\ t \in Seq(Buffer) /\ Writing = ToSet(b) \cup LinesOf(t)
        /\ Sorted(<<b>>) /\ Sorted(t) /\ Less(ToSet(b), LinesOf(t))
    <2>1. toAppend \in Seq(Buffer) /\ Sorted(toAppend)
      BY <1>1 DEF LogInv, LoggerTypeOK, Ordered
    <2> QED
      BY <1>2, <1>3, <2>1, HeadTail DEF Writing
  <1>5. b \in Piece /\ b \in Seq(0 .. MaxLines) /\ \A x \in ToSet(b) : IsLine(x)
    BY <1>4, BufferFacts, PieceFacts
  <1>6. Len(files) > 0 /\ LoggerTypeOK /\ FilesSound
    BY <1>1, <1>3 DEF LogInv, FilesSound
  <1>7. LogTypes' /\ FilesSound' /\ Grows(Lines, Lines', b)
    BY <1>3, <1>5, <1>6, AppendSound
  <1>8. /\ Sorted(Lines) /\ Sorted(buffers_) /\ Sorted(currentBuffer_)
        /\ Less(OnFile, Writing) /\ Less(OnFile, Full) /\ Less(OnFile, Current)
        /\ Less(Writing, Full) /\ Less(Writing, Current) /\ Less(Full, Current)
    BY <1>1 DEF LogInv, Ordered
  <1>9. Less(OnFile, ToSet(b)) /\ Less(OnFile, LinesOf(t))
    BY <1>4, <1>8, Zenon DEF Less
  <1>10. files' \in Seq(File)
    BY <1>7 DEF LogTypes
  <1>11. /\ OnFile' = OnFile \cup ToSet(b) /\ Sorted(Lines')
         /\ \A a \in Places(Lines) : a \in Places(Lines') /\ Lines'[a[1]][a[2]] = Lines[a[1]][a[2]]
         /\ \A a \in Places(Lines') \ Places(Lines) :
               Lines'[a[1]][a[2]] \in ToSet(b) /\ \A c \in Places(Lines) : Before(c, a)
    BY <1>1, <1>4, <1>5, <1>6, <1>7, <1>9, <1>10, FileGrows
  <1>12. Writing' = LinesOf(t) /\ Full' = Full /\ Current' = Current
    BY <1>3 DEF Writing, Full, Current
  <1>13. LoggerTypeOK'
    BY <1>3, <1>4, <1>6, <1>7 DEF LoggerTypeOK, LogTypes
  <1>14. BuffersSound'
    BY <1>1, <1>3 DEF LogInv, BuffersSound
  <1>15. Ordered'
    <2>1. /\ Less(OnFile \cup ToSet(b), LinesOf(t))
          /\ Less(OnFile \cup ToSet(b), Full) /\ Less(OnFile \cup ToSet(b), Current)
          /\ Less(LinesOf(t), Full) /\ Less(LinesOf(t), Current)
      BY <1>4, <1>8, <1>9, Zenon DEF Less
    <2> QED
      BY <1>3, <1>4, <1>8, <1>11, <1>12, <2>1 DEF Ordered
  <1>16. Covered'
    <2>1. OnFile \cup Writing \cup Full \cup Current = (OnFile \cup ToSet(b)) \cup LinesOf(t) \cup Full \cup Current
      BY <1>4, Zenon
    <2> QED
      BY <1>1, <1>3, <1>11, <1>12, <2>1 DEF LogInv, Covered
  <1>17. DropsOld'
    BY <1>1, <1>3, <1>12 DEF LogInv, DropsOld
  <1>18. Announced'
    <2>1. PICK f \in Injection(Ends, Marks) : Announces(f)
      BY <1>1 DEF LogInv, Announced
    <2>2. Ends' = Ends
      BY <1>3 DEF Ends
    <2>3. Marks \subseteq Marks'
      BY <1>11, Zenon DEF Marks
    <2>4. f \in Injection(Ends', Marks')
      BY <2>1, <2>2, <2>3 DEF Injection, IsInjective
    <2>5. ASSUME NEW d \in Ends, NEW a \in Places(Lines'), Lines'[a[1]][a[2]] = d + 1
          PROVE  Before(f[d], a)
      <3>1. CASE a \in Places(Lines)
        BY <1>11, <2>1, <2>5, <3>1, Zenon DEF Announces
      <3>2. CASE a \notin Places(Lines)
        <4>1. f[d] \in Marks
          BY <2>1, <2>5 DEF Injection
        <4>2. f[d] \in Places(Lines)
          BY <4>1 DEF Marks
        <4> QED
          BY <1>11, <2>5, <3>2, <4>2, Zenon
      <3> QED
        BY <3>1, <3>2
    <2>6. Announces(f)'
      BY <2>2, <2>5, Zenon DEF Announces
    <2> QED
      BY <2>4, <2>6, Zenon DEF Announced
  <1> QED
    BY <1>1, <1>3, <1>7, <1>13, <1>14, <1>15, <1>16, <1>17, <1>18 DEF LogInv, Started

\* The lines of the buffers that are dropped follow each other, so that one mark
\* tells of all of them.
LEMMA DroppedTogether ==
  ASSUME LogInv, pc = "drop", NEW K, NEW R, Writing = K \cup R, Less(K, R),
         NEW d \in R, NEW e \in R, d + 1 \notin R, e + 1 \notin R
  PROVE  d = e
  <1>1. /\ \A x \in Writing : IsLine(x) /\ x \in 1 .. appended
        /\ \A x \in OnFile \cup Full \cup Current : IsLine(x) => x \in 1 .. appended
        /\ \A x \in 1 .. appended : x \in Nat /\ x <= appended
        /\ appended \in Nat
    BY LogFacts
  <1>2. d \in 1 .. appended /\ e \in 1 .. appended /\ IsLine(d) /\ IsLine(e)
          /\ d \in Writing /\ e \in Writing
    BY <1>1
  <1>3. ASSUME NEW x \in R, NEW y \in R, x < y, x + 1 \notin R PROVE FALSE
    <2>1. x \in 1 .. appended /\ y \in 1 .. appended /\ IsLine(x) /\ IsLine(y)
            /\ x \in Writing /\ y \in Writing
      BY <1>1, <1>3
    <2>2. PICK z : z = x + 1
      OBVIOUS
    <2>3. z \in 1 .. appended /\ ~(z < x) /\ ~(y < z) /\ IsLine(z)
      BY <1>1, <1>3, <2>1, <2>2 DEF IsLine, DroppedMark
    <2>4. z \in dropped \cup OnFile \cup Writing \cup Full \cup Current
      BY <2>3, Zenon DEF LogInv, Covered
    <2>5. z \notin dropped
      BY <2>1, <2>3, Zenon DEF LogInv, DropsOld, Less
    <2>6. z \notin OnFile
      BY <2>1, <2>3, Zenon DEF LogInv, Ordered, Less
    <2>7. z \notin Full /\ z \notin Current
      BY <2>1, <2>3, Zenon DEF LogInv, Ordered, Less
    <2>8. z \notin K
      BY <1>3, <2>1, <2>3, Zenon DEF Less
    <2>9. z \notin R
      BY <1>3, <2>2
    <2> QED
      BY <2>4, <2>5, <2>6, <2>7, <2>8, <2>9
  <1> QED
    BY <1>1, <1>2, <1>3

LEMMA DropInv == LogInv /\ DropIfTooMany => LogInv'
  <1>1. SUFFICES ASSUME LogInv, DropIfTooMany PROVE LogInv'
    OBVIOUS
  <1>2. /\ pc = "drop" /\ pc' = "write" /\ now' = now
        /\ UNCHANGED <<running_, currentBuffer_, nextBuffer_, buffers_, appended,
                       newBuffer1, newBuffer2, owner>>
    BY <1>1 DEF DropIfTooMany, front
  <1>3. toAppend = buffersToWrite /\ toAppend \in Seq(Buffer)
    BY <1>1, <1>2 DEF LogInv, BuffersSound, LoggerTypeOK
  <1>4. CASE ~(Len(buffersToWrite) > TooMany)
    <2>1. UNCHANGED <<files, unflushed, count_, startOfPeriod_, lastRoll_, lastFlush_, strays,
                      buffersToWrite, toAppend, dropped>>
      BY <1>1, <1>4 DEF DropIfTooMany, logfile
    <2>2. LoggerTypeOK'
      BY <1>1, <1>2, <2>1 DEF LogInv, LoggerTypeOK
    <2>3. Ordered' /\ Covered' /\ DropsOld' /\ Announced'
      BY <1>1, <1>2, <2>1, LinesSame
    <2>4. FilesSound'
      BY <1>1, <1>2, <2>1, FilesSame DEF LogInv
    <2>5. BuffersSound'
      BY <1>1, <1>2, <2>1 DEF LogInv, BuffersSound
    <2> QED
      BY <1>1, <1>2, <2>2, <2>3, <2>4, <2>5 DEF LogInv, Started
  <1>5. CASE Len(buffersToWrite) > TooMany
    <2>1. PICK KS, RS, mark : KS = FirstTwo(buffersToWrite)
             /\ RS = SubSeq(buffersToWrite, 3, Len(buffersToWrite)) /\ mark = <<DroppedMark>>
      OBVIOUS
    <2>2. PICK K, R : K = LinesOf(KS) /\ R = LinesOf(RS)
      OBVIOUS
    <2>3. /\ LogFileBecomes(append_unlocked(Here, mark))
          /\ buffersToWrite' = KS /\ toAppend' = KS /\ dropped' = dropped \cup R
      BY <1>1, <1>5, <2>1, <2>2 DEF DropIfTooMany
    <2>4. Len(buffersToWrite) > 2
      <3>1. TooMany \in Nat /\ TooMany >= 2 /\ Len(buffersToWrite) \in Nat
        BY <1>3, BuffersAssumption
      <3> QED
        BY <1>5, <3>1
    <2>5. KS \in Seq(Buffer) /\ Len(KS) = 2 /\ RS \in Seq(Buffer) /\ toAppend = KS \o RS
      BY <1>3, <2>1, <2>4, FirstTwoRest
    <2>6. Writing = K \cup R /\ Sorted(KS) /\ Less(K, R)
      BY <1>1, <2>2, <2>5, Split DEF LogInv, Ordered, Writing
    <2>7. /\ mark \in Piece /\ mark \in Seq(0 .. MaxLines) /\ ToSet(mark) = {DroppedMark}
          /\ Sorted(<<mark>>)
      <3>1. mark \in Seq(0 .. MaxLines) /\ DOMAIN mark = {1} /\ mark[1] = DroppedMark
        BY <2>1, LinesAssumption DEF DroppedMark
      <3>2. ToSet(mark) = {DroppedMark}
        BY <3>1 DEF ToSet
      <3>3. Sorted(<<mark>>)
        BY <3>1, SinglePiece DEF IsLine
      <3> QED
        BY <3>1, <3>2, <3>3 DEF Piece
    <2>8. Less(OnFile, ToSet(mark))
      BY <2>7, Zenon DEF Less, IsLine
    <2>9. Len(files) > 0 /\ LoggerTypeOK /\ FilesSound
      BY <1>1, <1>2 DEF LogInv, FilesSound
    <2>10. LogTypes' /\ FilesSound' /\ Grows(Lines, Lines', mark)
      BY <1>2, <2>3, <2>7, <2>9, AppendSound
    <2>11. files' \in Seq(File)
      BY <2>10 DEF LogTypes
    <2>12. /\ OnFile' = OnFile \cup {DroppedMark} /\ Sorted(Lines')
           /\ \A a \in Places(Lines) : a \in Places(Lines') /\ Lines'[a[1]][a[2]] = Lines[a[1]][a[2]]
           /\ \A a \in Places(Lines') \ Places(Lines) : Lines'[a[1]][a[2]] = DroppedMark
           /\ \E a \in Places(Lines') \ Places(Lines) : Lines'[a[1]][a[2]] = DroppedMark
      <3>1. /\ OnFile' = OnFile \cup ToSet(mark) /\ Sorted(Lines')
            /\ \A a \in Places(Lines) : a \in Places(Lines') /\ Lines'[a[1]][a[2]] = Lines[a[1]][a[2]]
            /\ \A a \in Places(Lines') \ Places(Lines) : Lines'[a[1]][a[2]] \in ToSet(mark)
            /\ \A x \in ToSet(mark) : \E a \in Places(Lines') \ Places(Lines) : Lines'[a[1]][a[2]] = x
        BY <1>1, <2>7, <2>8, <2>9, <2>10, <2>11, FileGrows
      <3> QED
        BY <2>7, <3>1, Zenon
    <2>13. Writing' = K /\ Full' = Full /\ Current' = Current
      BY <1>2, <2>2, <2>3 DEF Writing, Full, Current
    <2>14. /\ Sorted(buffers_) /\ Sorted(currentBuffer_)
           /\ Less(OnFile, Writing) /\ Less(OnFile, Full) /\ Less(OnFile, Current)
           /\ Less(Writing, Full) /\ Less(Writing, Current) /\ Less(Full, Current)
      BY <1>1 DEF LogInv, Ordered
    <2>15. /\ \A x \in Writing : IsLine(x) /\ x \in 1 .. appended
           /\ \A x \in OnFile \cup Full \cup Current : IsLine(x) => x \in 1 .. appended
           /\ \A x \in 1 .. appended : x \in Nat /\ x <= appended
           /\ appended \in Nat /\ appended <= MaxLines
      BY <1>1, LogFacts DEF LogInv, LoggerTypeOK
    <2>16. R \subseteq 1 .. appended /\ \A x \in R : ~(x < x) /\ ~(x + 1 < x) /\ IsLine(x)
      BY <2>6, <2>15
    <2>17. LoggerTypeOK'
      <3>1. dropped \cup R \subseteq 1 .. MaxLines
        <4>1. 1 .. appended \subseteq 1 .. MaxLines
          BY <2>15, LinesAssumption
        <4> QED
          BY <2>9, <2>16, <4>1 DEF LoggerTypeOK
      <3> QED
        BY <1>2, <2>3, <2>5, <2>9, <2>10, <3>1 DEF LoggerTypeOK, LogTypes
    <2>18. BuffersSound'
      <3>1. 2 >= 1 /\ 2 >= 2
        OBVIOUS
      <3> QED
        BY <1>1, <1>2, <2>3, <2>5, <3>1 DEF LogInv, BuffersSound
    <2>19. Ordered'
      <3>1. /\ Less(OnFile \cup {DroppedMark}, K)
            /\ Less(OnFile \cup {DroppedMark}, Full) /\ Less(OnFile \cup {DroppedMark}, Current)
            /\ Less(K, Full) /\ Less(K, Current)
        BY <2>6, <2>14, Zenon DEF Less, IsLine
      <3> QED
        BY <1>2, <2>3, <2>6, <2>12, <2>13, <2>14, <3>1 DEF Ordered
    <2>20. Covered'
      <3>1. \A x \in R : x \notin OnFile /\ x \notin K /\ x \notin Full /\ x \notin Current
        <4>1. /\ Less(OnFile, R) /\ Less(R, Full) /\ Less(R, Current)
          BY <2>6, <2>14, Zenon DEF Less
        <4> QED
          BY <2>6, <2>16, <4>1, Zenon DEF Less
      <3>2. (OnFile \cup (K \cup R) \cup Full \cup Current) \ {DroppedMark} = (1 .. appended) \ dropped
        BY <1>1, <2>6 DEF LogInv, Covered
      <3>3. ((OnFile \cup {DroppedMark}) \cup K \cup Full \cup Current) \ {DroppedMark}
              = ((OnFile \cup (K \cup R) \cup Full \cup Current) \ {DroppedMark}) \ R
        BY <3>1, Zenon
      <3>4. ((1 .. appended) \ dropped) \ R = (1 .. appended) \ (dropped \cup R)
        BY Zenon
      <3> QED
        BY <1>2, <2>3, <2>12, <2>13, <3>2, <3>3, <3>4, Zenon DEF Covered
    <2>21. DropsOld'
      <3>1. Less(dropped \cup R, Full) /\ Less(dropped \cup R, Current)
        BY <1>1, <2>6, <2>14, Zenon DEF LogInv, DropsOld, Less
      <3>2. dropped \cup R \subseteq 1 .. appended
        BY <1>1, <2>16, Zenon DEF LogInv, DropsOld
      <3> QED
        BY <1>2, <2>3, <2>13, <3>1, <3>2 DEF DropsOld
    <2>22. Announced'
      <3>1. PICK f \in Injection(Ends, Marks) : Announces(f)
        BY <1>1 DEF LogInv, Announced
      <3>2. PICK a0 \in Places(Lines') \ Places(Lines) : Lines'[a0[1]][a0[2]] = DroppedMark
        BY <2>12
      <3>3. PICK E : E = Ends'
        OBVIOUS
      <3>4. E = {d \in dropped \cup R : d + 1 \notin dropped \cup R}
        BY <2>3, <3>3 DEF Ends
      <3>5. \A d \in E : d \notin R => d \in Ends
        BY <3>4, Zenon DEF Ends
      <3>6. \A d, e \in E : d \in R /\ e \in R => d = e
        <4>1. \A d \in E : d + 1 \notin R
          BY <3>4
        <4> QED
          BY <1>1, <1>2, <2>6, <4>1, DroppedTogether
      <3>7. \A d \in Ends : f[d] \in Marks
        BY <3>1 DEF Injection
      <3>8. \A d, e \in Ends : f[d] = f[e] => d = e
        BY <3>1 DEF Injection, IsInjective
      <3>9. Marks \subseteq Marks' /\ a0 \in Marks' /\ Marks \subseteq Places(Lines) /\ a0 \notin Places(Lines)
        BY <2>12, <3>2, Zenon DEF Marks
      <3>10. PICK g : g = [d \in E |-> IF d \in R THEN a0 ELSE f[d]]
        OBVIOUS
      <3>11. g \in [E -> Marks']
        BY <3>5, <3>7, <3>9, <3>10
      <3>12. ASSUME NEW d \in E, NEW e \in E, g[d] = g[e] PROVE d = e
        <4>1. CASE d \in R /\ e \in R
          BY <3>6, <3>12, <4>1
        <4>2. CASE d \in R /\ e \notin R
          <5>1. g[d] = a0 /\ g[e] = f[e] /\ f[e] \in Marks
            BY <3>5, <3>7, <3>10, <3>12, <4>2
          <5> QED
            BY <3>9, <3>12, <5>1
        <4>3. CASE d \notin R /\ e \in R
          <5>1. g[e] = a0 /\ g[d] = f[d] /\ f[d] \in Marks
            BY <3>5, <3>7, <3>10, <3>12, <4>3
          <5> QED
            BY <3>9, <3>12, <5>1
        <4>4. CASE d \notin R /\ e \notin R
          BY <3>5, <3>8, <3>10, <3>12, <4>4
        <4> QED
          BY <4>1, <4>2, <4>3, <4>4
      <3>13. g \in Injection(E, Marks')
        BY <3>11, <3>12 DEF Injection, IsInjective
      <3>14. ASSUME NEW d \in E, NEW a \in Places(Lines'), Lines'[a[1]][a[2]] = d + 1
             PROVE  Before(g[d], a)
        <4>1. d \in Nat /\ d + 1 # DroppedMark
          <5>1. d \in 1 .. appended
            BY <1>1, <2>16, <3>4 DEF LogInv, DropsOld
          <5> QED
            BY <2>15, <5>1 DEF DroppedMark
        <4>2. a \in Places(Lines) /\ Lines[a[1]][a[2]] = d + 1
          BY <2>12, <3>14, <4>1, Zenon
        <4>3. CASE d \in R
          <5>1. d + 1 \in OnFile
            <6>1. PICK i \in DOMAIN Lines : \E k \in DOMAIN Lines[i] : a = <<i, k>>
              BY <4>2 DEF Places
            <6>2. PICK k \in DOMAIN Lines[i] : a = <<i, k>>
              BY <6>1
            <6>3. Lines[i][k] = d + 1
              BY <4>2, <6>2
            <6> QED
              BY <6>2, <6>3, InLines DEF OnFile
          <5>2. d \in Writing /\ IsLine(d) /\ IsLine(d + 1) /\ ~(d + 1 < d)
            BY <2>6, <2>16, <4>1, <4>3 DEF IsLine
          <5> QED
            BY <2>14, <5>1, <5>2, Zenon DEF Less
        <4>4. CASE d \notin R
          <5>1. d \in Ends /\ g[d] = f[d]
            BY <3>5, <3>10, <4>4
          <5> QED
            BY <3>1, <4>2, <5>1, Zenon DEF Announces
        <4> QED
          BY <4>3, <4>4
      <3>15. Announces(g)'
        BY <3>3, <3>14, Zenon DEF Announces
      <3> QED
        BY <3>3, <3>13, <3>15, Zenon DEF Announced
    <2> QED
      BY <1>1, <1>2, <2>10, <2>17, <2>18, <2>19, <2>20, <2>21, <2>22 DEF LogInv, Started
  <1> QED
    BY <1>4, <1>5

-----------------------------------------------------------------------------
(* The theorems *)

LEMMA LogInitInv == LoggerInit => LogInv
  <1>1. SUFFICES ASSUME LoggerInit PROVE LogInv
    OBVIOUS
  <1>2. /\ now = 1 /\ files = <<>> /\ unflushed = 0 /\ count_ = 0 /\ startOfPeriod_ = 0
        /\ lastRoll_ = 0 /\ lastFlush_ = 0 /\ strays = 0
    BY <1>1 DEF LoggerInit, LogFileInit
  <1>3. LoggerTypeOK
    <2>1. 1 \in 1 .. MaxNow /\ 0 \in 0 .. MaxNow /\ 0 \in 0 .. checkEveryN_ - 1 /\ 0 \in 0 .. MaxLines
      BY RollAssumption, ClockAssumption, LinesAssumption
    <2>2. <<Empty>> \in Ptr \ {Null} /\ Null \in Ptr
      BY EmptyBuffer, SingleBuffer DEF Null, Ptr
    <2>3. <<>> \in Seq(File) /\ <<>> \in Seq(Buffer) /\ {} \subseteq 1 .. MaxLines
      OBVIOUS
    <2>4. /\ now \in 1 .. MaxNow /\ files \in Seq(File) /\ unflushed \in Nat /\ strays \in Nat
          /\ count_ \in 0 .. checkEveryN_ - 1
          /\ lastRoll_ \in 0 .. MaxNow /\ lastFlush_ \in 0 .. MaxNow /\ startOfPeriod_ \in Nat
      BY <1>2, <2>1, <2>3
    <2> QED
      BY <1>1, <2>1, <2>2, <2>3, <2>4 DEF LoggerInit, LoggerTypeOK
  <1>4. FilesSound
    BY <1>1, <1>2 DEF LoggerInit, FilesSound, NamesDistinct
  <1>5. BuffersSound /\ Started
    BY <1>1 DEF LoggerInit, BuffersSound, Started, Null
  <1>6. Lines = <<>> /\ OnFile = {} /\ Writing = {} /\ Full = {} /\ Current = {}
    <2>1. Lines = <<>>
      BY <1>2 DEF Lines
    <2>2. LinesOf(<<Empty>>) = {}
      BY EmptyBuffer, SingleBuffer
    <2> QED
      BY <1>1, <2>1, <2>2, NoPiece DEF LoggerInit, OnFile, Writing, Full, Current
  <1>7. Ordered
    <2>1. Sorted(<<Empty>>)
      <3>1. DOMAIN Empty = {}
        BY DEF Empty
      <3> QED
        BY <3>1, SinglePiece
    <2>2. Less({}, {})
      BY Zenon DEF Less
    <2> QED
      BY <1>1, <1>6, <2>1, <2>2, NoPiece DEF LoggerInit, Ordered
  <1>8. Covered /\ DropsOld
    <2>1. 1 .. 0 = {}
      OBVIOUS
    <2> QED
      BY <1>1, <1>6, <2>1 DEF LoggerInit, Covered, DropsOld, Less
  <1>9. Announced
    <2>1. Ends = {}
      BY <1>1 DEF LoggerInit, Ends
    <2>2. PICK f : f = [x \in {} |-> x]
      OBVIOUS
    <2>3. f \in Injection(Ends, Marks)
      BY <2>1, <2>2 DEF Injection, IsInjective
    <2>4. Announces(f)
      BY <2>1 DEF Announces
    <2> QED
      BY <2>3, <2>4 DEF Announced
  <1> QED
    BY <1>3, <1>4, <1>5, <1>7, <1>8, <1>9 DEF LogInv

LEMMA LogStutterInv == LogInv /\ UNCHANGED loggerVars => LogInv'
  <1>1. SUFFICES ASSUME LogInv, UNCHANGED loggerVars PROVE LogInv'
    OBVIOUS
  <1>2. UNCHANGED <<now, logfile, running_, front, back, pc, owner>>
    BY <1>1 DEF loggerVars
  <1>3. LoggerTypeOK' /\ BuffersSound' /\ Started'
    BY <1>1, <1>2 DEF LogInv, LoggerTypeOK, BuffersSound, Started, logfile, front, back
  <1>4. Ordered' /\ Covered' /\ DropsOld' /\ Announced'
    BY <1>1, <1>2, LinesSame DEF logfile, front, back
  <1>5. FilesSound'
    BY <1>1, <1>2, FilesSame DEF LogInv, logfile
  <1> QED
    BY <1>3, <1>4, <1>5 DEF LogInv

LEMMA LogNextInv == LogInv /\ [LoggerNext]_loggerVars => LogInv'
  <1>1. SUFFICES ASSUME LogInv, LoggerNext \/ UNCHANGED loggerVars PROVE LogInv'
    OBVIOUS
  <1>2. CASE append
    BY <1>1, <1>2, AppendInv
  <1>3. CASE start \/ StartEnds \/ stop \/ StopEnds
    BY <1>1, <1>3, OwnerInv
  <1>4. CASE ThreadBegins
    BY <1>1, <1>4, ThreadBeginsInv
  <1>5. CASE TestRunning \/ Wait
    BY <1>1, <1>5, LoopInv
  <1>6. CASE Swap
    BY <1>1, <1>6, SwapInv
  <1>7. CASE DropIfTooMany
    BY <1>1, <1>7, DropInv
  <1>8. CASE WriteBuffer
    BY <1>1, <1>8, WriteInv
  <1>9. CASE Refill
    BY <1>1, <1>9, RefillInv
  <1>10. CASE ClockTicks /\ UNCHANGED <<logfile, running_, front, back, pc, owner>>
    BY <1>1, <1>10, ClockInv
  <1>11. CASE UNCHANGED loggerVars
    BY <1>1, <1>11, LogStutterInv
  <1> QED
    BY <1>1, <1>2, <1>3, <1>4, <1>5, <1>6, <1>7, <1>8, <1>9, <1>10, <1>11 DEF LoggerNext, Thread

\* LogInv holds in every state of the logger.
THEOREM LogInductive == LoggerSpec => []LogInv
  <1>1. LoggerInit => LogInv
    BY LogInitInv
  <1>2. LogInv /\ [LoggerNext]_loggerVars => LogInv'
    BY LogNextInv
  <1> QED
    BY <1>1, <1>2, PTL DEF LoggerSpec

\* The assertions of threadFunc hold, no two files have the same name, and a file is
\* left at the latest with its checkEveryN_-th append of a later period.
THEOREM LogSound == LoggerSpec => []LoggerSound
  <1>1. ASSUME LogInv PROVE LoggerSound
    <2>1. AssertionsHold
      <3>1. pc \in {"loop", "lock", "waiting"} =>
               newBuffer1 = <<Empty>> /\ newBuffer2 = <<Empty>> /\ buffersToWrite = <<>>
        BY <1>1 DEF LogInv, BuffersSound
      <3>2. ASSUME pc \in {"drop", "write"}
            PROVE  Len(buffersToWrite) >=
                     Cardinality({i \in 1 .. 2 : <<newBuffer1, newBuffer2>>[i] = Null})
        <4>1. PICK N, n, p : N = {i \in 1 .. 2 : <<newBuffer1, newBuffer2>>[i] = Null}
                             /\ n = Len(buffersToWrite) /\ p = newBuffer2
          OBVIOUS
        <4>2. newBuffer1 = Null /\ n >= 1 /\ (p = Null => n >= 2) /\ n \in Nat
          BY <1>1, <3>2, <4>1 DEF LogInv, BuffersSound, LoggerTypeOK
        <4>3. CASE p = Null
          <5>1. N = {1, 2}
            BY <4>1, <4>2, <4>3
          <5>2. Cardinality({1}) = 1 /\ IsFiniteSet({1})
            BY FS_Singleton, Zenon
          <5>3. 2 \notin {1} /\ {1} \cup {2} = {1, 2}
            OBVIOUS
          <5>4. Cardinality(N) = 2
            BY <5>1, <5>2, <5>3, FS_AddElement
          <5> QED
            BY <4>1, <4>2, <4>3, <5>4
        <4>4. CASE p # Null
          <5>1. N = {1}
            BY <4>1, <4>2, <4>4
          <5>2. Cardinality(N) = 1
            BY <5>1, FS_Singleton
          <5> QED
            BY <4>1, <4>2, <5>2
        <4> QED
          BY <4>3, <4>4
      <3> QED
        BY <3>1, <3>2 DEF AssertionsHold
    <2>2. StraysBounded
      BY <1>1, RollAssumption DEF LogInv, LoggerTypeOK, FilesSound, StraysBounded
    <2> QED
      BY <1>1, <2>1, <2>2 DEF LogInv, FilesSound, LoggerSound
  <1> QED
    BY <1>1, LogInductive, PTL

\* Where a line is.
LEMMA AtPlace ==
  ASSUME NEW S, NEW a
  PROVE  /\ a \in Places(S) <=> \E i \in DOMAIN S : \E k \in DOMAIN S[i] : a = <<i, k>>
         /\ a \in Places(S) => a[1] \in DOMAIN S /\ a[2] \in DOMAIN S[a[1]] /\ a = <<a[1], a[2]>>
  <1>1. a \in Places(S) <=> \E i \in DOMAIN S : \E k \in DOMAIN S[i] : a = <<i, k>>
    BY DEF Places
  <1>2. ASSUME a \in Places(S) PROVE a[1] \in DOMAIN S /\ a[2] \in DOMAIN S[a[1]] /\ a = <<a[1], a[2]>>
    <2>1. PICK i \in DOMAIN S : \E k \in DOMAIN S[i] : a = <<i, k>>
      BY <1>1, <1>2
    <2>2. PICK k \in DOMAIN S[i] : a = <<i, k>>
      BY <2>1
    <2> QED
      BY <2>2
  <1> QED
    BY <1>1, <1>2

LEMMA PiecesSorted ==
  ASSUME LogInv
  PROVE  /\ Sorted(Pieces) /\ LinesOf(Pieces) = OnFile \cup Writing \cup Full \cup Current
  <1>1. PICK A, B, C, D : A = Lines /\ B = toAppend /\ C = buffers_ /\ D = currentBuffer_
    OBVIOUS
  <1>2. A \in Seq(Piece) /\ B \in Seq(Piece) /\ C \in Seq(Piece) /\ D \in Seq(Piece)
    BY <1>1, LogFacts, BuffersArePieces
  <1>3. /\ Sorted(A) /\ Sorted(B) /\ Sorted(C) /\ Sorted(D)
        /\ Less(LinesOf(A), LinesOf(B)) /\ Less(LinesOf(A), LinesOf(C)) /\ Less(LinesOf(A), LinesOf(D))
        /\ Less(LinesOf(B), LinesOf(C)) /\ Less(LinesOf(B), LinesOf(D)) /\ Less(LinesOf(C), LinesOf(D))
    BY <1>1 DEF LogInv, Ordered, OnFile, Writing, Full, Current
  <1>4. PICK AB, ABC : AB = A \o B /\ ABC = AB \o C
    OBVIOUS
  <1>5. AB \in Seq(Piece) /\ LinesOf(AB) = LinesOf(A) \cup LinesOf(B) /\ Sorted(AB)
    BY <1>2, <1>3, <1>4, ConcatFacts, ConcatLines, ConcatSorted
  <1>6. Less(LinesOf(AB), LinesOf(C)) /\ Less(LinesOf(AB), LinesOf(D))
    BY <1>3, <1>5, Zenon DEF Less
  <1>7. ABC \in Seq(Piece) /\ LinesOf(ABC) = LinesOf(AB) \cup LinesOf(C) /\ Sorted(ABC)
    BY <1>2, <1>3, <1>4, <1>5, <1>6, ConcatFacts, ConcatLines, ConcatSorted
  <1>8. Less(LinesOf(ABC), LinesOf(D))
    BY <1>3, <1>6, <1>7, Zenon DEF Less
  <1>9. LinesOf(ABC \o D) = LinesOf(ABC) \cup LinesOf(D) /\ Sorted(ABC \o D)
    BY <1>2, <1>3, <1>7, <1>8, ConcatLines, ConcatSorted
  <1>10. Pieces = ABC \o D
    BY <1>1, <1>4 DEF Pieces
  <1> QED
    BY <1>1, <1>5, <1>7, <1>9, <1>10 DEF OnFile, Writing, Full, Current

\* The lines of a sorted sequence of pieces, by their places.
LEMMA PlacesSorted ==
  ASSUME NEW S, Sorted(S)
  PROVE  /\ \A a, b \in Places(S) :
               IsLine(S[a[1]][a[2]]) /\ IsLine(S[b[1]][b[2]]) /\ Before(a, b)
                 => S[a[1]][a[2]] < S[b[1]][b[2]]
         /\ {S[a[1]][a[2]] : a \in Places(S)} = LinesOf(S)
  <1>1. \A a \in Places(S) : a[1] \in DOMAIN S /\ a[2] \in DOMAIN S[a[1]]
    BY AtPlace
  <1>2. \A a, b \in Places(S) :
               IsLine(S[a[1]][a[2]]) /\ IsLine(S[b[1]][b[2]]) /\ Before(a, b)
                 => S[a[1]][a[2]] < S[b[1]][b[2]]
    BY <1>1, Zenon DEF Sorted, Before
  <1>3. ASSUME NEW a \in Places(S) PROVE S[a[1]][a[2]] \in LinesOf(S)
    BY <1>1, <1>3, InLines
  <1>4. ASSUME NEW x \in LinesOf(S) PROVE \E a \in Places(S) : x = S[a[1]][a[2]]
    <2>1. PICK i \in DOMAIN S : \E k \in DOMAIN S[i] : x = S[i][k]
      BY <1>4, InLines
    <2>2. PICK k \in DOMAIN S[i] : x = S[i][k]
      BY <2>1
    <2>3. PICK a : a = <<i, k>>
      OBVIOUS
    <2>4. a \in Places(S) /\ a[1] = i /\ a[2] = k
      BY <2>1, <2>2, <2>3, AtPlace
    <2> QED
      BY <2>2, <2>4
  <1> QED
    BY <1>2, <1>3, <1>4

\* Swapping, recycling and rolling neither lose, repeat nor reorder a line: what is not
\* dropped is in the files and the buffers once, in the order of the calls of append.
THEOREM LogInOrder == LoggerSpec => []LinesInOrder
  <1>1. ASSUME LogInv PROVE LinesInOrder
    <2>1. PICK S : S = Pieces
      OBVIOUS
    <2>2. Sorted(S) /\ LinesOf(S) = OnFile \cup Writing \cup Full \cup Current
      BY <1>1, <2>1, PiecesSorted
    <2> DEFINE at(a) == S[a[1]][a[2]]
               places == {a \in Places(S) : IsLine(at(a))}
    <2>3. /\ \A a, b \in Places(S) : IsLine(at(a)) /\ IsLine(at(b)) /\ Before(a, b) => at(a) < at(b)
          /\ {at(a) : a \in Places(S)} = LinesOf(S)
      BY <2>2, PlacesSorted
    <2>4. \A a, b \in places : Before(a, b) => at(a) < at(b)
      BY <2>3, Zenon
    <2>5. {at(a) : a \in places} = LinesOf(S) \ {DroppedMark}
      BY <2>3 DEF IsLine
    <2>6. LinesOf(S) \ {DroppedMark} = (1 .. appended) \ dropped
      BY <1>1, <2>2 DEF LogInv, Covered
    <2>7. {at(a) : a \in places} = (1 .. appended) \ dropped
      BY <2>5, <2>6, Zenon
    <2> QED
      BY <2>1, <2>4, <2>7, Zenon DEF LinesInOrder
  <1> QED
    BY <1>1, LogInductive, PTL

\* Each gap in the files has a "Dropped log messages" line of its own, before it.
THEOREM LogGaps == LoggerSpec => []GapsAnnounced
  <1>1. ASSUME LogInv PROVE GapsAnnounced
    <2>1. PICK L : L = Lines
      OBVIOUS
    <2>2. /\ L \in Seq(Piece) /\ Sorted(L) /\ OnFile = LinesOf(L) /\ OnFile \subseteq 0 .. MaxLines
          /\ \A x \in OnFile : IsLine(x) => x \in 1 .. appended
          /\ MaxLines \in Nat
      BY <1>1, <2>1, LogFacts DEF LogInv, Ordered, OnFile
    <2> DEFINE at(a) == L[a[1]][a[2]]
               gaps == {a \in Places(L) : IsLine(at(a)) /\ at(a) - 1 \in dropped}
    <2>3. /\ \A a, b \in Places(L) : IsLine(at(a)) /\ IsLine(at(b)) /\ Before(a, b) => at(a) < at(b)
          /\ \A a \in Places(L) : at(a) \in OnFile
      BY <2>2, PlacesSorted
    <2>4. \A a \in Places(L) : files[a[1]].lines[a[2]] = at(a)
      <3>1. ASSUME NEW a \in Places(L) PROVE files[a[1]].lines = L[a[1]]
        <4>1. a[1] \in DOMAIN L
          BY <3>1, AtPlace
        <4>2. files \in Seq(File) /\ L = LinesIn(files)
          BY <1>1, <2>1 DEF LogInv, LoggerTypeOK, Lines, LinesIn
        <4>3. DOMAIN L = 1 .. Len(files) /\ \A i \in 1 .. Len(files) : L[i] = files[i].lines
          <5>1. L \in Seq(Piece) /\ Len(L) = Len(files) /\ \A i \in 1 .. Len(files) : L[i] = files[i].lines
            BY <4>2, LinesInFacts
          <5> QED
            BY <5>1
        <4> QED
          BY <4>1, <4>3
      <3> QED
        BY <3>1
    <2>5. PICK f \in Injection(Ends, Marks) : Announces(f)
      BY <1>1 DEF LogInv, Announced
    <2>6. \A a \in gaps : at(a) \in Nat /\ at(a) - 1 \in Ends /\ (at(a) - 1) + 1 = at(a)
      <3>1. SUFFICES ASSUME NEW a \in gaps
                     PROVE  at(a) \in Nat /\ at(a) - 1 \in Ends /\ (at(a) - 1) + 1 = at(a)
        OBVIOUS
      <3>2. a \in Places(L) /\ IsLine(at(a)) /\ at(a) - 1 \in dropped /\ at(a) \in OnFile
        BY <2>3, <3>1
      <3>3. PICK x : x = at(a)
        OBVIOUS
      <3>4. x \in 0 .. MaxLines /\ x \notin dropped
        BY <1>1, <2>2, <3>2, <3>3 DEF LogInv, Covered, IsLine
      <3>5. x \in Nat /\ (x - 1) + 1 = x
        BY <2>2, <3>4
      <3>6. x - 1 \in Ends
        BY <3>2, <3>3, <3>4, <3>5 DEF Ends
      <3> QED
        BY <3>3, <3>5, <3>6
    <2>7. \A a, b \in Places(L) : a # b => Before(a, b) \/ Before(b, a)
      <3>1. SUFFICES ASSUME NEW a \in Places(L), NEW b \in Places(L), a # b
                     PROVE  Before(a, b) \/ Before(b, a)
        OBVIOUS
      <3>2. /\ a[1] \in DOMAIN L /\ a[2] \in DOMAIN L[a[1]] /\ a = <<a[1], a[2]>>
            /\ b[1] \in DOMAIN L /\ b[2] \in DOMAIN L[b[1]] /\ b = <<b[1], b[2]>>
        BY AtPlace
      <3>3. PICK i, j, k, m : i = a[1] /\ j = b[1] /\ k = a[2] /\ m = b[2]
        OBVIOUS
      <3>4. i # j \/ k # m
        BY <3>1, <3>2, <3>3
      <3>5. i \in Nat /\ j \in Nat /\ L[i] \in Piece /\ L[j] \in Piece
        BY <2>2, <3>2, <3>3
      <3>6. k \in Nat /\ m \in Nat
        <4>1. k \in DOMAIN L[i] /\ m \in DOMAIN L[j]
          BY <3>2, <3>3
        <4>2. k \in 1 .. Len(L[i]) /\ m \in 1 .. Len(L[j]) /\ Len(L[i]) \in Nat /\ Len(L[j]) \in Nat
          BY <3>5, <4>1, PieceFacts
        <4> QED
          BY <4>2
      <3>7. i < j \/ (i = j /\ k < m) \/ j < i \/ (j = i /\ m < k)
        BY <3>4, <3>5, <3>6
      <3> QED
        BY <3>3, <3>7 DEF Before
    <2>8. PICK g : g = [a \in gaps |-> f[at(a) - 1]]
      OBVIOUS
    <2>9. \A d \in Ends : f[d] \in Marks
      BY <2>5 DEF Injection
    <2>10. \A d, e \in Ends : f[d] = f[e] => d = e
      BY <2>5 DEF Injection, IsInjective
    <2>11. g \in [gaps -> Marks]
      BY <2>6, <2>8, <2>9
    <2>12. ASSUME NEW a \in gaps, NEW b \in gaps, g[a] = g[b] PROVE a = b
      <3>1. at(a) - 1 = at(b) - 1
        <4>1. f[at(a) - 1] = f[at(b) - 1]
          BY <2>8, <2>12
        <4> QED
          BY <2>6, <2>10, <2>12, <4>1, Zenon
      <3>2. at(a) = at(b) /\ ~(at(a) < at(b)) /\ ~(at(b) < at(a))
        <4>1. PICK x, y : x = at(a) /\ y = at(b)
          OBVIOUS
        <4>2. x \in Nat /\ y \in Nat /\ x - 1 = y - 1
          BY <2>6, <3>1, <4>1
        <4>3. x = y /\ ~(x < y) /\ ~(y < x)
          BY <4>2
        <4> QED
          BY <4>1, <4>3
      <3>3. ~Before(a, b) /\ ~Before(b, a)
        BY <2>3, <2>12, <3>2, Zenon
      <3> QED
        BY <2>7, <2>12, <3>3
    <2>13. g \in Injection(gaps, Marks)
      BY <2>11, <2>12 DEF Injection, IsInjective
    <2>14. ASSUME NEW a \in gaps PROVE Before(g[a], a)
      <3>1. at(a) - 1 \in Ends /\ at(a) = (at(a) - 1) + 1 /\ a \in Places(L) /\ g[a] = f[at(a) - 1]
        BY <2>6, <2>8, <2>14
      <3> QED
        BY <2>1, <2>5, <3>1, Zenon DEF Announces
    <2>15. Marks = {a \in Places(Lines) : files[a[1]].lines[a[2]] = DroppedMark}
      BY <2>1, <2>4 DEF Marks
    <2>16. gaps = {a \in Places(Lines) : IsLine(files[a[1]].lines[a[2]])
                                         /\ files[a[1]].lines[a[2]] - 1 \in dropped}
      BY <2>1, <2>4
    <2> QED
      BY <2>13, <2>14, <2>15, <2>16, Zenon DEF GapsAnnounced
  <1> QED
    BY <1>1, LogInductive, PTL

\* A file grows beyond rollSize_ only in the second in which it was opened.
THEOREM LogOversize == LoggerSpec => OversizeOnlyInItsSecond
  <1> DEFINE A == files' # <<>> /\ writtenBytes' > rollSize_ => file_.at' = now
  <1>1. ASSUME LogInv, [LoggerNext]_loggerVars PROVE [A]_files
    <2>1. SUFFICES ASSUME files' # files PROVE A
      OBVIOUS
    <2>2. writtenBytes' = Len(files'[Len(files')].lines) /\ file_.at' = files'[Len(files')].at
      BY DEF writtenBytes, file_, Last
    <2>3. LogInv'
      BY <1>1, LogNextInv
    <2>4. ThreadBegins \/ DropIfTooMany \/ WriteBuffer
      <3>1. append \/ start \/ StartEnds \/ stop \/ StopEnds \/ Wait \/ Swap => UNCHANGED logfile
        BY DEF append, start, StartEnds, stop, StopEnds, Wait, Swap
      <3>2. TestRunning \/ Refill => LogFileBecomes(flush(Here)) \/ UNCHANGED logfile
        BY DEF TestRunning, Refill
      <3>3. LogFileBecomes(flush(Here)) \/ UNCHANGED logfile => files' = files
        BY FlushIs
      <3>4. UNCHANGED loggerVars => UNCHANGED logfile
        BY DEF loggerVars
      <3>5. LoggerNext \/ UNCHANGED loggerVars
        BY <1>1
      <3> QED
        BY <2>1, <3>1, <3>2, <3>3, <3>4, <3>5 DEF LoggerNext, Thread
    <2>5. CASE ThreadBegins
      <3>1. lastRoll_' = now' /\ now' = now
        <4>1. now' = now /\ pc = "begin" /\ LogFileBecomes(rollFile(Here))
          BY <2>5 DEF ThreadBegins
        <4>2. lastRoll_ = 0 /\ now \in Nat /\ now > 0
          BY <1>1, <4>1, ClockAssumption DEF LogInv, FilesSound, LoggerTypeOK
        <4>3. PICK h, s, q : h = Here /\ s = rollFile(h) /\ q = [at |-> now, lines |-> <<>>]
          OBVIOUS
        <4>4. h = [files |-> files, unflushed |-> unflushed, count |-> count_,
                   period |-> startOfPeriod_, roll |-> lastRoll_, flush |-> lastFlush_,
                   strays |-> strays]
          BY <4>3 DEF Here
        <4>5. now > h.roll
          BY <4>2, <4>4
        <4>6. s = [h EXCEPT !.files = Append(@, q), !.unflushed = 0,
                   !.roll = now, !.flush = now, !.period = Period(now), !.strays = 0]
          BY <4>3, <4>5, Zenon DEF rollFile
        <4>7. s.roll = now
          BY <4>4, <4>6
        <4> QED
          BY <4>1, <4>3, <4>7 DEF LogFileBecomes
      <3>2. files' # <<>> => Len(files') > 0
        BY <2>3 DEF LogInv, LoggerTypeOK
      <3>3. Len(files') > 0 => lastRoll_' = files'[Len(files')].at
        BY <2>3 DEF LogInv, FilesSound
      <3> QED
        BY <2>2, <3>1, <3>2, <3>3
    <2>6. CASE DropIfTooMany
      <3>1. pc = "drop" /\ pc' = "write" /\ now' = now
              /\ LogFileBecomes(append_unlocked(Here, <<DroppedMark>>))
        BY <2>1, <2>6 DEF DropIfTooMany, logfile
      <3>2. <<DroppedMark>> \in Seq(0 .. MaxLines)
        BY LinesAssumption DEF DroppedMark
      <3>3. LoggerTypeOK /\ FilesSound /\ Len(files) > 0
        BY <1>1, <3>1 DEF LogInv, FilesSound
      <3> QED
        BY <2>2, <3>1, <3>2, <3>3, AppendSound
    <2>7. CASE WriteBuffer
      <3>1. pc = "write" /\ pc' = "write" /\ now' = now /\ toAppend # <<>>
              /\ LogFileBecomes(append_unlocked(Here, Head(toAppend)))
        BY <2>7 DEF WriteBuffer
      <3>2. Head(toAppend) \in Buffer
        BY <1>1, <3>1 DEF LogInv, LoggerTypeOK
      <3>3. Head(toAppend) \in Seq(0 .. MaxLines)
        BY <3>2, BufferFacts, PieceFacts
      <3>4. LoggerTypeOK /\ FilesSound /\ Len(files) > 0
        BY <1>1, <3>1 DEF LogInv, FilesSound
      <3> QED
        BY <2>2, <3>1, <3>3, <3>4, AppendSound
    <2> QED
      BY <2>4, <2>5, <2>6, <2>7
  <1> HIDE DEF A
  <1>2. LoggerSpec => [][A]_files
    BY <1>1, LogInductive, PTL DEF LoggerSpec
  <1> QED
    BY <1>2 DEF A, OversizeOnlyInItsSecond
=============================================================================
