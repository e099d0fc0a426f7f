----------------------------- MODULE YPipeProof -----------------------------
(***************************************************************************)
(* For any granularity, any set of chunk addresses and any number of       *)
(* writes, however writer and reader interleave: no thread holds a pointer *)
(* into freed memory, no chunk leaks, flush reports a sleeping reader      *)
(* exactly when there is one, and the pipe implements a first-in first-out *)
(* queue.                                                                  *)
(*                                                                         *)
(* Item number i + 1 is written to cell number i of an endless tape, which *)
(* is cell P(i) of chunk number Q(i).  The invariant says that there is an *)
(* assignment of addresses to the chunks of the tape between front and end *)
(* that all links and pointers agree with.                                 *)
(***************************************************************************)
EXTENDS YPipe, SequenceTheorems, WellFoundedInduction, TLAPS

Q(i) == i \div N
P(i) == i % N
Window == Q(Len(out)) .. Q(Len(stream) + 1)

\* Cell number i, when chunk number q has the address at[q].
At(at, i) == Cell(at[Q(i)], P(i))

\* The chunks have different addresses and are linked both ways; with the spare
\* one they are what is allocated.
Chain(at) ==
    /\ \A p, q \in Window : at[p] = at[q] => p = q
    /\ \A q \in Window : q + 1 \in Window =>
          next[at[q]] = at[q + 1] /\ prev[at[q + 1]] = at[q]
    /\ live = {at[q] : q \in Window} \cup ({spare_chunk} \ {NoChunk})
    /\ \A q \in Window : spare_chunk # at[q]

\* Where the pointers point.
Pointers(at) ==
    /\ begin = At(at, Len(out))
    /\ back = At(at, Len(stream))
    /\ end = At(at, Len(stream) + 1)
    /\ w = At(at, flushed)
    /\ f = At(at, complete)
    /\ r = NULL \/ \E i \in Len(out) .. flushed : r = At(at, i)
    /\ c = NULL \/ c = w

\* What was written and not read is in its cell.
Contents(at) ==
    \A i \in 1 .. Len(stream) : i > Len(out) => values[at[Q(i - 1)]][P(i - 1)] = stream[i]

\* Nothing is read before it is published, published before it is completed.
Counts ==
    /\ Len(out) <= flushed /\ flushed <= complete
    /\ complete <= Len(stream) /\ Len(stream) <= writes
    /\ \A i \in 1 .. Len(out) : out[i] = stream[i]

\* What each thread may rely on within its call.
Calls ==
    /\ rpc = "pop" => r # begin /\ r # NULL
    /\ wpc = "set" => w # f /\ c = NULL
    /\ c = NULL <=> asleep

PipeInv ==
    /\ TypeOK
    /\ Counts
    /\ Calls
    /\ \E at \in [Window -> Chunks] : Chain(at) /\ Pointers(at) /\ Contents(at)

-----------------------------------------------------------------------------
(* The tape *)

\* A position on the tape, taken apart and put together again.
LEMMA Tape ==
  ASSUME NEW i \in Nat
  PROVE  Q(i) \in Nat /\ P(i) \in 0 .. N - 1 /\ i = N * Q(i) + P(i)
  BY GranularityAssumption DEF Q, P

\* Multiples of N, without products of unknowns in the steps that use them.
LEMMA Product ==
  ASSUME NEW q \in Int, NEW s \in Int
  PROVE  /\ N * q \in Int /\ N * s \in Int
         /\ N * (q + 1) = N * q + N
         /\ q < s => N * q + N <= N * s
  <1>1. N \in Nat /\ N > 0
    BY GranularityAssumption
  <1>2. N * q \in Int /\ N * s \in Int /\ N * (q + 1) = N * q + N
    BY <1>1
  <1>3. ASSUME q < s PROVE N * q + N <= N * s
    <2>1. PICK d \in Nat : s = q + 1 + d
      <3>1. s - q - 1 \in Nat /\ s = q + 1 + (s - q - 1)
        BY <1>3
      <3> QED
        BY <3>1
    <2>2. N * s = N * q + N + N * d /\ N * d \in Nat
      BY <1>1, <2>1
    <2> QED
      BY <1>1, <1>2, <2>2
  <1> QED
    BY <1>2, <1>3

LEMMA Unique ==
  ASSUME NEW q \in Nat, NEW p \in 0 .. N - 1, NEW s \in Nat, NEW t \in 0 .. N - 1,
         N * q + p = N * s + t
  PROVE  q = s /\ p = t
  <1>1. PICK a, b : a = N * q /\ b = N * s
    OBVIOUS
  <1>2. /\ a \in Int /\ b \in Int /\ a + p = b + t
        /\ q < s => a + N <= b
        /\ s < q => b + N <= a
    <2>1. q \in Int /\ s \in Int
      OBVIOUS
    <2>2. a \in Int /\ b \in Int /\ (q < s => a + N <= b) /\ (s < q => b + N <= a)
      BY <1>1, <2>1, Product, Zenon
    <2> QED
      BY <1>1, <2>2
  <1>3. N \in Nat /\ p \in Nat /\ t \in Nat /\ p < N /\ t < N
    BY GranularityAssumption
  <1>4. ~(q < s) /\ ~(s < q)
    BY <1>2, <1>3
  <1>5. q = s
    BY <1>4
  <1> QED
    BY <1>1, <1>2, <1>3, <1>5

\* The next cell is in the same chunk unless that one ends here.
LEMMA TapeNext ==
  ASSUME NEW i \in Nat
  PROVE  /\ P(i) + 1 # N => Q(i + 1) = Q(i) /\ P(i + 1) = P(i) + 1
         /\ P(i) + 1 = N => Q(i + 1) = Q(i) + 1 /\ P(i + 1) = 0
  <1>1. /\ Q(i) \in Nat /\ P(i) \in 0 .. N - 1 /\ i = N * Q(i) + P(i)
        /\ Q(i + 1) \in Nat /\ P(i + 1) \in 0 .. N - 1 /\ i + 1 = N * Q(i + 1) + P(i + 1)
    BY Tape
  <1>2. CASE P(i) + 1 # N
    <2>1. P(i) + 1 \in 0 .. N - 1 /\ N * Q(i) + (P(i) + 1) = N * Q(i + 1) + P(i + 1)
      BY <1>1, <1>2, GranularityAssumption
    <2> QED
      BY <1>1, <1>2, <2>1, Unique
  <1>3. CASE P(i) + 1 = N
    <2>1. /\ 0 \in 0 .. N - 1 /\ Q(i) + 1 \in Nat
          /\ N * (Q(i) + 1) + 0 = N * Q(i + 1) + P(i + 1)
      BY <1>1, <1>3, Product, GranularityAssumption
    <2> QED
      BY <1>1, <1>3, <2>1, Unique
  <1> QED
    BY <1>2, <1>3

LEMMA TapeOrder ==
  ASSUME NEW i \in Nat, NEW j \in Nat
  PROVE  /\ i <= j => Q(i) <= Q(j)
         /\ Q(i) = Q(j) /\ P(i) = P(j) => i = j
  <1>1. /\ Q(i) \in Nat /\ P(i) \in 0 .. N - 1 /\ i = N * Q(i) + P(i)
        /\ Q(j) \in Nat /\ P(j) \in 0 .. N - 1 /\ j = N * Q(j) + P(j)
    BY Tape
  <1>2. ASSUME i <= j PROVE Q(i) <= Q(j)
    <2>1. PICK a, b : a = N * Q(i) /\ b = N * Q(j)
      OBVIOUS
    <2>2. /\ a \in Int /\ b \in Int /\ i = a + P(i) /\ j = b + P(j)
          /\ Q(j) < Q(i) => b + N <= a
      BY <1>1, <2>1, Product
    <2>3. N \in Nat /\ P(i) \in Nat /\ P(j) \in Nat /\ P(i) < N /\ P(j) < N
      BY <1>1, GranularityAssumption
    <2>4. ~(Q(j) < Q(i))
      BY <1>2, <2>2, <2>3
    <2> QED
      BY <1>1, <2>4
  <1> QED
    BY <1>1, <1>2

\* Cells are the same when chunk and position are.
LEMMA CellEq ==
  ASSUME NEW k, NEW i, NEW l, NEW j
  PROVE  /\ Cell(k, i) = Cell(l, j) <=> k = l /\ i = j
         /\ Cell(k, i).chunk = k /\ Cell(k, i).pos = i
  BY DEF Cell

-----------------------------------------------------------------------------
(* What the invariant gives *)

\* The numbers are numbers, in order.
LEMMA Numbers ==
  ASSUME TypeOK, Counts
  PROVE  /\ Len(out) \in Nat /\ Len(stream) \in Nat /\ flushed \in Nat /\ complete \in Nat
         /\ writes \in Nat
         /\ Len(out) <= flushed /\ flushed <= complete /\ complete <= Len(stream)
         /\ \A i \in Len(out) .. Len(stream) + 1 : i \in Nat /\ Q(i) \in Nat /\ Q(i) \in Window
         /\ Window \subseteq Nat
  <1>1. /\ Len(out) \in Nat /\ Len(stream) \in Nat /\ flushed \in Nat /\ complete \in Nat
        /\ writes \in Nat
    BY LenProperties, WritesAssumption DEF TypeOK
  <1>2. Q(Len(out)) \in Nat /\ Q(Len(stream) + 1) \in Nat
    <2>1. Len(stream) + 1 \in Nat
      BY <1>1
    <2> QED
      BY <1>1, <2>1, Tape
  <1>3. ASSUME NEW i \in Len(out) .. Len(stream) + 1
        PROVE  i \in Nat /\ Q(i) \in Nat /\ Q(i) \in Window
    <2>1. i \in Nat /\ Len(out) <= i /\ i <= Len(stream) + 1
      BY <1>1
    <2>2. Q(i) \in Nat /\ Q(Len(out)) <= Q(i) /\ Q(i) <= Q(Len(stream) + 1)
      BY <1>1, <2>1, Tape, TapeOrder
    <2> QED
      BY <1>2, <2>1, <2>2 DEF Window
  <1>4. Window \subseteq Nat
    BY <1>2 DEF Window
  <1> QED
    BY <1>1, <1>3, <1>4 DEF Counts

\* Different positions between front and end are different cells.
LEMMA Apart ==
  ASSUME TypeOK, Counts, NEW at \in [Window -> Chunks], Chain(at),
         NEW i \in Len(out) .. Len(stream) + 1, NEW j \in Len(out) .. Len(stream) + 1
  PROVE  /\ At(at, i) \in Cells /\ At(at, i) # NULL
         /\ At(at, i) = At(at, j) => i = j
  <1>1. i \in Nat /\ j \in Nat /\ Q(i) \in Window /\ Q(j) \in Window
    BY Numbers
  <1>2. at[Q(i)] \in Chunks /\ P(i) \in 0 .. N - 1
    BY <1>1, Tape
  <1>3. At(at, i) \in Cells
    BY <1>2 DEF At, Cell, Cells
  <1>4. At(at, i) # NULL
    BY <1>2, CellEq, NullAssumption DEF At, NULL
  <1>5. At(at, i) = At(at, j) => at[Q(i)] = at[Q(j)] /\ P(i) = P(j)
    BY CellEq DEF At
  <1>6. At(at, i) = At(at, j) => Q(i) = Q(j) /\ P(i) = P(j)
    BY <1>1, <1>5 DEF Chain
  <1> QED
    BY <1>1, <1>3, <1>4, <1>6, TapeOrder

\* A set of numbers that is not empty has a least one.
LEMMA Least ==
  ASSUME NEW S \in SUBSET Nat, S # {}
  PROVE  \E x \in S : \A y \in S : x <= y
  <1>1. \E x \in S : \A y \in S : ~(<<y, x>> \in OpToRel(<, Nat))
    BY NatLessThanWellFounded, WFMin
  <1>2. ASSUME NEW x \in Nat, NEW y \in Nat, y < x
        PROVE  <<y, x>> \in OpToRel(<, Nat)
    BY <1>2, Zenon DEF OpToRel
  <1>3. PICK x \in S : \A y \in S : ~(<<y, x>> \in OpToRel(<, Nat))
    BY <1>1, Zenon
  <1>4. \A y \in S : ~(y < x)
    BY <1>2, <1>3, Zenon
  <1> QED
    BY <1>4

\* The linked chunks are those of the window.
LEMMA LinkedIsWindow ==
  ASSUME TypeOK, Counts, NEW at \in [Window -> Chunks], Chain(at), Pointers(at)
  PROVE  Linked = {at[q] : q \in Window}
  <1> DEFINE lo == Q(Len(out))
             hi == Q(Len(stream) + 1)
             R == {at[q] : q \in Window}
  <1>1. /\ lo \in Window /\ hi \in Window /\ lo \in Nat /\ hi \in Nat
        /\ \A q \in Window : q \in Nat /\ lo <= q /\ q <= hi
    BY Numbers DEF Window
  <1>2. begin.chunk = at[lo] /\ end.chunk = at[hi]
    BY CellEq DEF Pointers, At
  <1>3. R \in SUBSET Chunks /\ Follows(R)
    <2>1. ASSUME NEW q \in Window, at[q] # end.chunk PROVE next[at[q]] \in R
      <3>1. q + 1 \in Window
        BY <1>1, <1>2, <2>1 DEF Window
      <3> QED
        BY <3>1 DEF Chain
    <2> QED
      BY <1>1, <1>2, <2>1 DEF Follows
  <1>4. ASSUME NEW S \in SUBSET Chunks, Follows(S) PROVE R \subseteq S
    <2> DEFINE T == {q \in Window : at[q] \notin S}
    <2> SUFFICES ASSUME T # {} PROVE FALSE
      OBVIOUS
    <2>1. T \in SUBSET Nat
      BY <1>1
    <2> HIDE DEF T
    <2>2. PICK q \in T : \A p \in T : q <= p
      BY <2>1, Least
    <2>3. q \in Window /\ at[q] \notin S
      BY DEF T
    <2>4. q # lo
      BY <1>2, <1>4, <2>3 DEF Follows
    <2>5. q - 1 \in Window /\ (q - 1) + 1 = q /\ ~(q <= q - 1) /\ q - 1 # hi
      BY <1>1, <2>3, <2>4 DEF Window
    <2>6. at[q-1] \in S
      BY <2>2, <2>5 DEF T
    <2>7. at[q-1] # end.chunk /\ next[at[q-1]] = at[q]
      BY <1>1, <1>2, <2>3, <2>5 DEF Chain
    <2>8. at[q] \in S \cup {NoChunk}
      BY <1>4, <2>6, <2>7 DEF Follows
    <2> QED
      BY <2>3, <2>8, NullAssumption
  <1> HIDE DEF R
  <1>5. Linked \subseteq R
    BY <1>3 DEF Linked
  <1>6. R \subseteq Linked
    BY <1>3, <1>4 DEF Linked
  <1> QED
    BY <1>5, <1>6 DEF R

LEMMA InvSound == PipeInv => PipeSound
  <1> SUFFICES ASSUME PipeInv PROVE PipeSound
    OBVIOUS
  <1> USE DEF PipeInv
  <1>1. PICK at \in [Window -> Chunks] : Chain(at) /\ Pointers(at) /\ Contents(at)
    OBVIOUS
  <1>2. Linked = {at[q] : q \in Window}
    BY <1>1, LinkedIsWindow
  <1>3. ASSUME NEW i \in Len(out) .. Len(stream) + 1 PROVE At(at, i).chunk \in Linked
    BY <1>2, <1>3, Numbers, CellEq DEF At
  <1>4. /\ Len(out) \in Len(out) .. Len(stream) + 1
        /\ Len(stream) \in Len(out) .. Len(stream) + 1
        /\ Len(stream) + 1 \in Len(out) .. Len(stream) + 1
        /\ flushed \in Len(out) .. Len(stream) + 1
        /\ complete \in Len(out) .. Len(stream) + 1
        /\ \A i \in Len(out) .. flushed : i \in Len(out) .. Len(stream) + 1
    BY Numbers
  <1>5. {begin.chunk, back.chunk, end.chunk, w.chunk, f.chunk} \subseteq Linked
    BY <1>1, <1>3, <1>4 DEF Pointers
  <1>6. {r.chunk, c.chunk} \ {NoChunk} \subseteq Linked
    BY <1>1, <1>3, <1>4 DEF Pointers, NULL
  <1>7. ChunksSound
    BY <1>1, <1>2, <1>5, <1>6 DEF ChunksSound, Chain
  <1> QED
    BY <1>7 DEF PipeSound, NullMeansAsleep, Calls

-----------------------------------------------------------------------------
(* Steps within the window *)

\* A step that leaves the queue alone, and moves w, f, r and c as it should.
LEMMA QueueStays ==
  ASSUME PipeInv, UNCHANGED queueVars, UNCHANGED <<f, writes, stream, complete, out>>,
         Len(out) <= flushed', flushed' <= complete,
         UNCHANGED <<w, flushed>> \/ (w' = f /\ flushed' = complete),
         UNCHANGED r \/ r' = c,
         c' = NULL \/ c' = w',
         wpc' \in {"idle", "set"}, rpc' \in {"idle", "pop"}, asleep' \in BOOLEAN,
         Calls'
  PROVE  PipeInv'
  <1> USE DEF PipeInv, queueVars
  <1>1. PICK at \in [Window -> Chunks] : Chain(at) /\ Pointers(at) /\ Contents(at)
    OBVIOUS
  <1>2. /\ Len(out) \in Nat /\ Len(stream) \in Nat /\ flushed \in Nat /\ complete \in Nat
        /\ Len(out) <= flushed /\ flushed <= complete /\ complete <= Len(stream)
    BY Numbers
  <1>3. Window' = Window /\ \A i : At(at, i)' = At(at, i)
    BY DEF Window, At, Q, P, Cell
  <1>4. Chain(at)' /\ Contents(at)'
    BY <1>1, <1>3 DEF Chain, Contents, Q, P
  <1>5. flushed <= flushed'
    BY <1>2
  <1>6. Pointers(at)'
    <2>1. w' = At(at, flushed')
      BY <1>1 DEF Pointers
    <2>2. r' = NULL \/ \E i \in Len(out) .. flushed' : r' = At(at, i)
      <3>1. CASE UNCHANGED r
        <4>1. \A i \in Len(out) .. flushed : i \in Len(out) .. flushed'
          BY <1>2, <1>5
        <4> QED
          BY <1>1, <3>1, <4>1 DEF Pointers
      <3>2. CASE r' = c
        <4>1. flushed \in Len(out) .. flushed'
          BY <1>2, <1>5
        <4> QED
          BY <1>1, <3>2, <4>1 DEF Pointers
      <3> QED
        BY <3>1, <3>2
    <2> QED
      BY <1>1, <1>3, <2>1, <2>2 DEF Pointers
  <1>7. TypeOK'
    <2>1. {r', c'} \subseteq Cells \cup {NULL} /\ w' \in Cells
      BY DEF TypeOK
    <2>2. flushed' \in 0 .. MaxWrites
      BY DEF TypeOK
    <2> QED
      BY <2>1, <2>2 DEF TypeOK
  <1>8. Counts'
    BY DEF Counts
  <1> QED
    BY <1>1, <1>3, <1>4, <1>6, <1>7, <1>8

\* The reader learns what is published, or goes to sleep.
LEMMA check_readInv == PipeInv /\ check_read => PipeInv'
  <1> SUFFICES ASSUME PipeInv, check_read PROVE PipeInv'
    OBVIOUS
  <1> USE DEF check_read
  <1>1. PICK at \in [Window -> Chunks] : Chain(at) /\ Pointers(at)
    BY DEF PipeInv
  <1>2. begin # NULL
    <2>1. Len(out) \in Len(out) .. Len(stream) + 1
      BY Numbers DEF PipeInv
    <2> QED
      BY <1>1, <2>1, Apart DEF PipeInv, Pointers
  <1>3. Len(out) <= flushed' /\ flushed' <= complete /\ (c = NULL \/ c = w)
    BY <1>1, Numbers DEF PipeInv, Pointers
  <1>4. CASE Prefetched
    <2>1. Calls'
      BY <1>4 DEF Prefetched, PipeInv, Calls, queueVars
    <2>2. wpc' \in {"idle", "set"} /\ rpc' \in {"idle", "pop"} /\ asleep' \in BOOLEAN
      BY <1>4 DEF PipeInv, TypeOK
    <2> QED
      BY <1>3, <1>4, <2>1, <2>2, QueueStays
  <1>5. CASE ~Prefetched
    <2>1. asleep' = (r' = begin \/ r' = NULL) /\ asleep' \in BOOLEAN
      BY <1>5, Zenon
    <2>2. /\ r' = c /\ c' = IF c = begin THEN NULL ELSE c
          /\ rpc' = IF r' = begin \/ r' = NULL THEN "idle" ELSE "pop"
          /\ UNCHANGED <<begin, w, f, wpc>>
      BY <1>5 DEF queueVars
    <2>3. Calls'
      BY <1>2, <2>1, <2>2 DEF PipeInv, Calls
    <2>4. wpc' \in {"idle", "set"} /\ rpc' \in {"idle", "pop"}
      BY <2>2 DEF PipeInv, TypeOK
    <2> QED
      BY <1>3, <2>1, <2>2, <2>3, <2>4, QueueStays
  <1> QED
    BY <1>4, <1>5

\* flush finds c where it was published last, or NULL: then the reader sleeps.
LEMMA flushInv == PipeInv /\ (flush \/ flushAsleep) => PipeInv'
  <1> SUFFICES ASSUME PipeInv, flush \/ flushAsleep PROVE PipeInv'
    OBVIOUS
  <1>1. PICK at \in [Window -> Chunks] : Chain(at) /\ Pointers(at)
    BY DEF PipeInv
  <1>2. f # NULL
    <2>1. complete \in Len(out) .. Len(stream) + 1
      BY Numbers DEF PipeInv
    <2> QED
      BY <1>1, <2>1, Apart DEF PipeInv, Pointers
  <1>3. /\ Len(out) <= complete /\ complete <= complete /\ Len(out) <= flushed
        /\ flushed <= complete /\ (c = NULL \/ c = w)
    BY <1>1, Numbers DEF PipeInv, Pointers
  <1>4. wpc \in {"idle", "set"} /\ rpc \in {"idle", "pop"} /\ asleep \in BOOLEAN
    BY DEF PipeInv, TypeOK
  <1>5. CASE c' = f /\ w' = f /\ flushed' = complete /\ asleep' = FALSE /\ wpc' = "idle"
             /\ UNCHANGED <<queueVars, f, r, rpc, writes, stream, complete, out>>
    <2>1. Calls' /\ asleep' \in BOOLEAN
      BY <1>2, <1>5 DEF PipeInv, Calls, queueVars
    <2> QED
      BY <1>3, <1>4, <1>5, <2>1, QueueStays
  <1>6. CASE /\ wpc' = "set" /\ w # f /\ c # w
             /\ UNCHANGED <<c, w, flushed, asleep>>
             /\ UNCHANGED <<queueVars, f, r, rpc, writes, stream, complete, out>>
    <2>1. Calls'
      BY <1>3, <1>6 DEF PipeInv, Calls, queueVars
    <2> QED
      BY <1>3, <1>4, <1>6, <2>1, QueueStays
  <1> QED
    BY <1>5, <1>6 DEF flush, flushAsleep

LEMMA StutterInv == PipeInv /\ UNCHANGED vars => PipeInv'
  <1> SUFFICES ASSUME PipeInv, UNCHANGED vars PROVE PipeInv'
    OBVIOUS
  <1>1. c = NULL \/ c = w
    BY DEF PipeInv, Pointers
  <1>2. /\ Len(out) <= flushed' /\ flushed' <= complete
        /\ wpc' \in {"idle", "set"} /\ rpc' \in {"idle", "pop"} /\ asleep' \in BOOLEAN
    BY Numbers DEF PipeInv, TypeOK, vars
  <1>3. Calls'
    BY DEF PipeInv, Calls, vars
  <1> QED
    BY <1>1, <1>2, <1>3, QueueStays DEF vars, queueVars

-----------------------------------------------------------------------------
(* Steps that move the window *)

\* push moves the end of the window by one cell: within a chunk, or to one that is
\* not linked yet, the spare one or one that malloc returns.
LEMMA PushChain ==
  ASSUME TypeOK, Counts, NEW at \in [Window -> Chunks], Chain(at), Pointers(at), push,
         Len(stream') = Len(stream) + 1, UNCHANGED out
  PROVE  \E at2 \in [Window' -> Chunks] :
            /\ Chain(at2)'
            /\ Window \subseteq Window' /\ \A q \in Window : at2[q] = at[q]
            /\ end' = At(at2, Len(stream) + 2)
            /\ end' \in Cells /\ next' \in [Chunks -> Chunks \cup {NoChunk}]
            /\ prev' \in [Chunks -> Chunks \cup {NoChunk}] /\ live' \subseteq Chunks
            /\ spare_chunk' \in Chunks \cup {NoChunk}
  <1> DEFINE K == Len(stream)
             lo == Q(Len(out))
             hi == Q(K + 1)
  <1>1. /\ K \in Nat /\ K + 1 \in Nat /\ lo \in Nat /\ hi \in Nat /\ lo <= hi
        /\ hi \in Window /\ lo \in Window
    <2>1. K + 1 \in Len(out) .. K + 1 /\ Len(out) \in Len(out) .. K + 1 /\ K \in Nat
      BY Numbers
    <2>2. lo \in Window /\ hi \in Window /\ lo \in Nat /\ hi \in Nat
      BY <2>1, Numbers
    <2> QED
      BY <2>1, <2>2 DEF Window
  <1>2. end = Cell(at[hi], P(K + 1)) /\ end.chunk = at[hi] /\ end.pos = P(K + 1)
    BY CellEq DEF Pointers, At
  <1>3. Window = lo .. hi /\ Window' = lo .. Q(K + 2)
    <2>1. (K + 1) + 1 = K + 2
      BY <1>1
    <2> QED
      BY <2>1 DEF Window, Q
  <1>4. P(K + 1) \in 0 .. N - 1 /\ (K + 1) + 1 = K + 2
    BY <1>1, Tape
  <1>5. CASE end.pos + 1 # N
    <2>1. Q(K + 2) = hi /\ P(K + 2) = P(K + 1) + 1
      BY <1>1, <1>2, <1>4, <1>5, TapeNext
    <2>2. Window' = Window
      BY <1>3, <2>1
    <2>3. UNCHANGED <<next, prev, live, spare_chunk>> /\ end' = [end EXCEPT !.pos = @ + 1]
      BY <1>5 DEF push
    <2>4. Chain(at)'
      BY <2>2, <2>3 DEF Chain
    <2>5. end' = Cell(at[hi], P(K + 1) + 1)
      BY <1>2, <2>3 DEF Cell
    <2>6. end' = At(at, K + 2)
      BY <2>1, <2>5 DEF At
    <2>7. end' \in Cells
      BY <1>1, <1>2, <1>4, <1>5, <2>5, GranularityAssumption DEF Cell, Cells
    <2> QED
      BY <2>2, <2>3, <2>4, <2>6, <2>7 DEF TypeOK
  <1>6. CASE end.pos + 1 = N
    <2>1. Q(K + 2) = hi + 1 /\ P(K + 2) = 0
      BY <1>1, <1>2, <1>4, <1>6, TapeNext
    <2>2. /\ Window' = Window \cup {hi + 1} /\ hi + 1 \notin Window
          /\ \A q \in Window' : q + 1 \in Window' => q \in Window /\ (q + 1 \in Window \/ q = hi)
          /\ \A q \in Window : q # hi => q + 1 \in Window
          /\ hi + 1 \in Window'
      BY <1>1, <1>3, <2>1
    <2>3. PICK k \in IF spare_chunk # NoChunk THEN {spare_chunk} ELSE Chunks \ live :
             /\ next' = [next EXCEPT ![end.chunk] = k]
             /\ prev' = [prev EXCEPT ![k] = end.chunk]
             /\ live' = live \cup {k}
             /\ end' = Cell(k, 0)
             /\ spare_chunk' = NoChunk
      BY <1>6 DEF push
    <2>4. k \in Chunks /\ \A q \in Window : at[q] # k
      BY <2>3 DEF TypeOK, Chain
    <2>5. PICK at2 : at2 = [q \in Window' |-> IF q \in Window THEN at[q] ELSE k]
      OBVIOUS
    <2>6. /\ at2 \in [Window' -> Chunks]
          /\ \A q \in Window : at2[q] = at[q]
          /\ at2[hi + 1] = k
      BY <2>2, <2>4, <2>5
    <2>7. \A p, q \in Window' : at2[p] = at2[q] => p = q
      BY <2>2, <2>4, <2>6 DEF Chain
    <2>8. /\ \A l \in Chunks : l # at[hi] => next'[l] = next[l]
          /\ next'[at[hi]] = k
          /\ \A l \in Chunks : l # k => prev'[l] = prev[l]
          /\ prev'[k] = at[hi]
      BY <1>1, <1>2, <2>3, <2>4 DEF TypeOK
    <2>9. ASSUME NEW q \in Window', q + 1 \in Window'
          PROVE  next'[at2[q]] = at2[q + 1] /\ prev'[at2[q + 1]] = at2[q]
      <3>1. CASE q = hi
        BY <1>1, <2>6, <2>8, <3>1
      <3>2. CASE q # hi
        <4>1. q \in Window /\ q + 1 \in Window
          BY <2>2, <2>9, <3>2
        <4>2. at[q] # at[hi] /\ at[q + 1] # k /\ at[q] \in Chunks /\ at[q + 1] \in Chunks
          BY <1>1, <2>4, <3>2, <4>1 DEF Chain
        <4> QED
          BY <2>6, <2>8, <4>1, <4>2 DEF Chain
      <3> QED
        BY <3>1, <3>2
    <2>10. live' = {at2[q] : q \in Window'} \cup ({spare_chunk'} \ {NoChunk})
      <3>1. {at2[q] : q \in Window'} = {at[q] : q \in Window} \cup {k}
        BY <2>2, <2>6
      <3>2. ({spare_chunk} \ {NoChunk}) \subseteq {k}
        BY <2>3
      <3> QED
        BY <2>3, <3>1, <3>2 DEF Chain
    <2>11. \A q \in Window' : spare_chunk' # at2[q]
      BY <2>3, <2>6, NullAssumption
    <2>12. Chain(at2)'
      BY <2>7, <2>9, <2>10, <2>11 DEF Chain
    <2>13. end' = At(at2, K + 2)
      BY <2>1, <2>3, <2>6 DEF At
    <2>14. end' \in Cells
      BY <2>3, <2>4, GranularityAssumption DEF Cell, Cells
    <2>15. /\ next' \in [Chunks -> Chunks \cup {NoChunk}]
           /\ prev' \in [Chunks -> Chunks \cup {NoChunk}] /\ live' \subseteq Chunks
           /\ spare_chunk' \in Chunks \cup {NoChunk}
      BY <1>1, <1>2, <2>3, <2>4 DEF TypeOK
    <2> QED
      BY <2>2, <2>6, <2>12, <2>13, <2>14, <2>15
  <1> QED
    BY <1>5, <1>6

\* The item goes to the cell at back, which nothing else uses.
LEMMA writeInv ==
  ASSUME PipeInv, NEW incomplete \in BOOLEAN, write(incomplete) PROVE PipeInv'
  <1> USE DEF PipeInv, write
  <1> DEFINE K == Len(stream)
  <1>1. PICK at \in [Window -> Chunks] : Chain(at) /\ Pointers(at) /\ Contents(at)
    OBVIOUS
  <1>2. /\ Len(out) \in Nat /\ K \in Nat /\ flushed \in Nat /\ complete \in Nat /\ writes \in Nat
        /\ Len(out) <= flushed /\ flushed <= complete /\ complete <= K /\ K <= writes
    BY Numbers DEF Counts
  <1>3. /\ writes + 1 \in Items /\ writes' \in 0 .. MaxWrites
        /\ stream' \in Seq(Items) /\ Len(stream') = K + 1
        /\ \A i \in 1 .. K : stream'[i] = stream[i]
        /\ stream'[K + 1] = writes + 1
    <2>1. writes + 1 \in Items /\ writes' \in 0 .. MaxWrites /\ stream \in Seq(Items)
      BY WritesAssumption DEF TypeOK, Items
    <2> QED
      BY <2>1, AppendProperties
  <1>4. PICK at2 \in [Window' -> Chunks] :
            /\ Chain(at2)'
            /\ Window \subseteq Window' /\ \A q \in Window : at2[q] = at[q]
            /\ end' = At(at2, K + 2)
            /\ end' \in Cells /\ next' \in [Chunks -> Chunks \cup {NoChunk}]
            /\ prev' \in [Chunks -> Chunks \cup {NoChunk}] /\ live' \subseteq Chunks
            /\ spare_chunk' \in Chunks \cup {NoChunk}
    BY <1>1, <1>3, PushChain
  <1>5. ASSUME NEW i \in Len(out) .. K + 1 PROVE At(at2, i) = At(at, i)
    BY <1>4, Numbers DEF At
  <1>6. back' = At(at2, K + 1) /\ back' \in Cells
    <2>1. K + 1 \in Len(out) .. K + 1
      BY <1>2
    <2> QED
      BY <1>1, <1>5, <2>1 DEF push, Pointers, TypeOK
  <1>7. complete' \in 0 .. MaxWrites /\ complete <= complete' /\ complete' <= K + 1
    <2>1. complete' = complete \/ complete' = K + 1
      BY <1>3
    <2>2. writes < MaxWrites /\ complete \in 0 .. MaxWrites
      BY DEF TypeOK
    <2> HIDE DEF PipeInv, write
    <2> QED
      BY <1>2, <2>1, <2>2, WritesAssumption
  <1>8. Counts'
    <2>1. \A i \in 1 .. Len(out) : i \in 1 .. K
      BY <1>2
    <2> QED
      BY <1>2, <1>3, <1>7, <2>1 DEF Counts
  <1>9. Calls'
    BY DEF Calls
  <1>10. f' = At(at2, complete') /\ f' \in Cells
    <2>1. CASE incomplete
      <3>1. complete \in Len(out) .. K + 1
        BY <1>2
      <3> QED
        BY <1>1, <1>5, <2>1, <3>1 DEF Pointers, TypeOK
    <2>2. CASE ~incomplete
      BY <1>3, <1>6, <2>2
    <2> QED
      BY <2>1, <2>2
  <1>11. Pointers(at2)'
    <2>1. \A i : At(at2, i)' = At(at2, i)
      BY DEF At, Q, P, Cell
    <2>2. begin = At(at2, Len(out)) /\ w = At(at2, flushed)
      <3>1. Len(out) \in Len(out) .. K + 1 /\ flushed \in Len(out) .. K + 1
        BY <1>2
      <3> QED
        BY <1>1, <1>5, <3>1 DEF Pointers
    <2>3. r = NULL \/ \E i \in Len(out) .. flushed : r = At(at2, i)
      <3>1. \A i \in Len(out) .. flushed : i \in Len(out) .. K + 1
        BY <1>2
      <3> QED
        BY <1>1, <1>5, <3>1 DEF Pointers
    <2>4. end' = At(at2, Len(stream') + 1) /\ back' = At(at2, Len(stream'))
      <3>1. Len(stream') + 1 = K + 2
        BY <1>2, <1>3
      <3> QED
        BY <1>3, <1>4, <1>6, <3>1
    <2> QED
      BY <1>1, <1>10, <2>1, <2>2, <2>3, <2>4 DEF Pointers
  <1>12. back.chunk = at[Q(K)] /\ back.pos = P(K) /\ back.chunk \in Chunks /\ back.pos \in 0 .. N - 1
    <2>1. back.chunk = at[Q(K)] /\ back.pos = P(K)
      BY <1>1, CellEq DEF Pointers, At
    <2>2. back \in Cells
      BY DEF TypeOK
    <2> QED
      BY <2>1, <2>2 DEF Cells
  <1>13. /\ values' \in [Chunks -> [0 .. N - 1 -> Items \cup {Garbage}]]
         /\ \A k \in Chunks, p \in 0 .. N - 1 :
               values'[k][p] = IF k = back.chunk /\ p = back.pos THEN writes + 1 ELSE values[k][p]
    <2>1. /\ values \in [Chunks -> [0 .. N - 1 -> Items \cup {Garbage}]]
          /\ writes + 1 \in Items \cup {Garbage}
          /\ values' = [values EXCEPT ![back.chunk][back.pos] = writes + 1]
      BY <1>3 DEF TypeOK
    <2> HIDE DEF PipeInv, write
    <2> QED
      BY <1>12, <2>1
  <1>14. Contents(at2)'
    <2> SUFFICES ASSUME NEW i \in 1 .. K + 1, i > Len(out)
                 PROVE  values'[at2[Q(i - 1)]][P(i - 1)] = stream'[i]
      BY <1>3 DEF Contents, Q, P
    <2>1. /\ i - 1 \in Len(out) .. K + 1 /\ K \in Len(out) .. K + 1 /\ i - 1 \in Nat
          /\ (i - 1 = K <=> i = K + 1)
      BY <1>2
    <2>2. at2[Q(i - 1)] = at[Q(i - 1)] /\ at[Q(i - 1)] \in Chunks /\ P(i - 1) \in 0 .. N - 1
      BY <1>4, <2>1, Numbers, Tape
    <2>3. CASE i = K + 1
      <3>1. i - 1 = K
        BY <2>1, <2>3
      <3> QED
        BY <1>3, <1>12, <1>13, <2>2, <2>3, <3>1
    <2>4. CASE i # K + 1
      <3>1. i \in 1 .. K
        BY <1>2, <2>4
      <3>2. At(at, i - 1) # At(at, K)
        BY <1>1, <2>1, <2>4, Apart
      <3>3. ~(at[Q(i - 1)] = back.chunk /\ P(i - 1) = back.pos)
        BY <1>12, <3>2 DEF At
      <3>4. values[at[Q(i - 1)]][P(i - 1)] = stream[i]
        BY <1>1, <3>1 DEF Contents
      <3> QED
        BY <1>3, <1>13, <2>2, <3>1, <3>3, <3>4
    <2> QED
      BY <2>3, <2>4
  <1>15. TypeOK'
    BY <1>3, <1>4, <1>6, <1>7, <1>10, <1>13 DEF TypeOK
  <1> QED
    BY <1>4, <1>8, <1>9, <1>11, <1>14, <1>15

-----------------------------------------------------------------------------
(* The start *)

\* The constructors push the terminator to cell number 0.
LEMMA InitInv == Init => PipeInv
  <1> SUFFICES ASSUME Init PROVE PipeInv
    OBVIOUS
  <1>1. PICK k \in Chunks :
        /\ values = [j \in Chunks |-> [i \in 0 .. N - 1 |-> Garbage]]
        /\ begin = Cell(k, 0) /\ back = Cell(k, 0)
        /\ IF N # 1
             THEN /\ end = Cell(k, 1) /\ live = {k}
                  /\ next = [j \in Chunks |-> NoChunk]
                  /\ prev = [j \in Chunks |-> NoChunk]
             ELSE \E j \in Chunks \ {k} :
                  /\ end = Cell(j, 0) /\ live = {k, j}
                  /\ next = [[i \in Chunks |-> NoChunk] EXCEPT ![k] = j]
                  /\ prev = [[i \in Chunks |-> NoChunk] EXCEPT ![j] = k]
        /\ spare_chunk = NoChunk
        /\ w = Cell(k, 0) /\ f = Cell(k, 0) /\ r = Cell(k, 0) /\ c = Cell(k, 0)
        /\ wpc = "idle" /\ rpc = "idle"
        /\ writes = 0
        /\ stream = <<>> /\ complete = 0 /\ flushed = 0
        /\ asleep = FALSE
        /\ out = <<>>
    BY Zenon DEF Init
  <1>2. Len(out) = 0 /\ Len(stream) = 0 /\ Len(stream) + 1 = 1
    BY <1>1
  <1>3. Counts
    BY <1>1, <1>2 DEF Counts
  <1>4. c # NULL
    BY <1>1, CellEq, NullAssumption DEF NULL
  <1>5. Calls
    BY <1>1, <1>4 DEF Calls
  <1>6. Q(0) = 0 /\ P(0) = 0
    <2>1. 0 \in Nat /\ Q(0) \in Nat /\ P(0) \in 0 .. N - 1 /\ 0 = N * Q(0) + P(0)
      BY Tape
    <2>2. 0 \in 0 .. N - 1 /\ N * Q(0) + P(0) = N * 0 + 0
      BY <2>1, GranularityAssumption
    <2> QED
      BY <2>1, <2>2, Unique
  <1>7. /\ end \in Cells /\ next \in [Chunks -> Chunks \cup {NoChunk}]
        /\ prev \in [Chunks -> Chunks \cup {NoChunk}] /\ live \subseteq Chunks
    BY <1>1, GranularityAssumption DEF Cells, Cell
  <1>8. TypeOK
    <2>1. Cell(k, 0) \in Cells
      BY GranularityAssumption DEF Cells, Cell
    <2>2. values \in [Chunks -> [0 .. N - 1 -> Items \cup {Garbage}]]
      BY <1>1
    <2>3. stream \in Seq(Items) /\ out \in Seq(Items \cup {Garbage})
      BY <1>1
    <2>4. 0 \in 0 .. MaxWrites
      BY WritesAssumption
    <2> QED
      BY <1>1, <1>7, <2>1, <2>2, <2>3, <2>4 DEF TypeOK
  <1>9. ASSUME NEW at \in [Window -> Chunks], at[0] = k, end = At(at, 1)
        PROVE  Pointers(at) /\ Contents(at)
    <2>1. At(at, 0) = Cell(k, 0)
      BY <1>6, <1>9 DEF At
    <2>2. 0 \in Len(out) .. flushed
      BY <1>1, <1>2
    <2>3. Pointers(at)
      BY <1>1, <1>2, <1>9, <2>1, <2>2 DEF Pointers
    <2> QED
      BY <1>2, <2>3 DEF Contents
  <1>10. CASE N # 1
    <2>1. Q(1) = 0 /\ P(1) = 1
      <3>1. P(0) + 1 # N /\ 0 + 1 = 1
        BY <1>6, <1>10, GranularityAssumption
      <3> QED
        BY <1>6, <3>1, TapeNext
    <2>2. Window = {0}
      BY <1>2, <1>6, <2>1 DEF Window
    <2>3. PICK at : at = [q \in Window |-> k]
      OBVIOUS
    <2>4. at \in [Window -> Chunks] /\ at[0] = k
      BY <2>2, <2>3
    <2>5. end = At(at, 1)
      BY <1>1, <1>10, <2>1, <2>4 DEF At
    <2>6. {at[q] : q \in Window} = {k}
      BY <2>2, <2>4
    <2>7. live = {at[q] : q \in Window} \cup ({spare_chunk} \ {NoChunk})
      BY <1>1, <1>10, <2>6
    <2>8. Chain(at)
      BY <1>1, <2>2, <2>4, <2>7, NullAssumption DEF Chain
    <2> QED
      BY <1>3, <1>5, <1>8, <1>9, <2>4, <2>5, <2>8 DEF PipeInv
  <1>11. CASE N = 1
    <2>1. Q(1) = 1 /\ P(1) = 0
      <3>1. P(0) + 1 = N /\ 0 + 1 = 1
        BY <1>6, <1>11
      <3> QED
        BY <1>6, <3>1, TapeNext
    <2>2. Window = {0, 1} /\ \A q \in Window : q + 1 \in Window => q = 0
      BY <1>2, <1>6, <2>1 DEF Window
    <2>3. PICK j \in Chunks \ {k} :
             /\ end = Cell(j, 0) /\ live = {k, j}
             /\ next = [[i \in Chunks |-> NoChunk] EXCEPT ![k] = j]
             /\ prev = [[i \in Chunks |-> NoChunk] EXCEPT ![j] = k]
      BY <1>1, <1>11
    <2>4. PICK at : at = [q \in Window |-> IF q = 0 THEN k ELSE j]
      OBVIOUS
    <2>5. at \in [Window -> Chunks] /\ at[0] = k /\ at[1] = j
      BY <2>2, <2>4
    <2>6. end = At(at, 1)
      BY <2>1, <2>3, <2>5 DEF At
    <2>7. {at[q] : q \in Window} = {k, j}
      BY <2>2, <2>5
    <2>8. live = {at[q] : q \in Window} \cup ({spare_chunk} \ {NoChunk})
      BY <1>1, <2>3, <2>7
    <2>9. next[k] = j /\ prev[j] = k
      BY <2>3
    <2>10. Chain(at)
      BY <1>1, <2>2, <2>3, <2>5, <2>8, <2>9, NullAssumption DEF Chain
    <2> QED
      BY <1>3, <1>5, <1>8, <1>9, <2>5, <2>6, <2>10 DEF PipeInv
  <1> QED
    BY <1>10, <1>11

-----------------------------------------------------------------------------
(* Steps that take the window back, or forward at its front *)

\* The cell before, found the way unpush does.
LEMMA Before ==
  ASSUME TypeOK, Counts, NEW at \in [Window -> Chunks], Chain(at),
         NEW i \in Len(out) .. Len(stream)
  PROVE  /\ At(at, i + 1).pos # 0 =>
               Q(i + 1) = Q(i) /\ At(at, i) = [At(at, i + 1) EXCEPT !.pos = @ - 1]
         /\ At(at, i + 1).pos = 0 =>
               Q(i + 1) = Q(i) + 1 /\ prev[At(at, i + 1).chunk] = at[Q(i)]
                                   /\ At(at, i) = Cell(at[Q(i)], N - 1)
  <1>1. /\ i \in Nat /\ i + 1 \in Nat /\ i \in Len(out) .. Len(stream) + 1
        /\ i + 1 \in Len(out) .. Len(stream) + 1
    BY Numbers
  <1>2. /\ Q(i) \in Window /\ Q(i + 1) \in Window
        /\ P(i) \in 0 .. N - 1 /\ P(i + 1) \in 0 .. N - 1
    BY <1>1, Numbers, Tape
  <1>3. /\ At(at, i + 1) = Cell(at[Q(i + 1)], P(i + 1))
        /\ At(at, i + 1).chunk = at[Q(i + 1)] /\ At(at, i + 1).pos = P(i + 1)
        /\ At(at, i) = Cell(at[Q(i)], P(i))
    BY CellEq DEF At
  <1>4. CASE P(i) + 1 # N
    <2>1. Q(i + 1) = Q(i) /\ P(i + 1) = P(i) + 1 /\ P(i + 1) # 0 /\ P(i + 1) - 1 = P(i)
      <3>1. Q(i + 1) = Q(i) /\ P(i + 1) = P(i) + 1
        BY <1>1, <1>4, TapeNext
      <3> QED
        BY <1>2, <3>1, GranularityAssumption
    <2>2. [Cell(at[Q(i + 1)], P(i + 1)) EXCEPT !.pos = @ - 1] = Cell(at[Q(i + 1)], P(i + 1) - 1)
      BY DEF Cell
    <2> QED
      BY <1>3, <2>1, <2>2
  <1>5. CASE P(i) + 1 = N
    <2>1. Q(i + 1) = Q(i) + 1 /\ P(i + 1) = 0 /\ P(i) = N - 1
      BY <1>1, <1>2, <1>5, TapeNext
    <2>2. prev[at[Q(i) + 1]] = at[Q(i)]
      BY <1>2, <2>1 DEF Chain
    <2> QED
      BY <1>3, <2>1, <2>2
  <1> QED
    BY <1>4, <1>5

\* An item that is not completed lies behind all that the reader may see.
LEMMA unwriteInv == PipeInv /\ unwrite => PipeInv'
  <1> SUFFICES ASSUME PipeInv, unwrite PROVE PipeInv'
    OBVIOUS
  <1> DEFINE K == Len(stream)
  <1>1. PICK at \in [Window -> Chunks] : Chain(at) /\ Pointers(at) /\ Contents(at)
    BY DEF PipeInv
  <1>2. /\ TypeOK /\ Counts /\ Calls /\ f # back /\ unpush
        /\ stream' = SubSeq(stream, 1, K - 1)
        /\ UNCHANGED <<values, prev, begin, spare_chunk, w, f, r, c, wpc, rpc, writes,
                       complete, flushed, asleep, out>>
    BY DEF PipeInv, unwrite, pipeVars
  <1>3. /\ Len(out) \in Nat /\ K \in Nat /\ flushed \in Nat /\ complete \in Nat /\ writes \in Nat
        /\ Len(out) <= flushed /\ flushed <= complete /\ complete <= K /\ K <= writes
    BY <1>2, Numbers DEF Counts
  <1>4. complete # K
    BY <1>1, <1>2 DEF Pointers
  <1>5. /\ K - 1 \in Nat /\ complete <= K - 1 /\ K - 1 \in Len(out) .. K
        /\ K \in Len(out) .. K /\ (K - 1) + 1 = K
    BY <1>3, <1>4
  <1>6. /\ stream' \in Seq(Items) /\ Len(stream') = K - 1 /\ Len(stream') + 1 = K
        /\ \A i \in 1 .. K - 1 : stream'[i] = stream[i]
    <2>1. stream \in Seq(Items)
      BY <1>2 DEF TypeOK
    <2>2. 1 \in 1 .. K + 1 /\ K - 1 \in 1 - 1 .. K
      BY <1>5
    <2>3. SubSeq(stream, 1, K - 1) \in Seq(Items) /\ Len(SubSeq(stream, 1, K - 1)) = K - 1
      BY <1>3, <1>5, <2>1
    <2>4. \A i \in 1 .. K - 1 : SubSeq(stream, 1, K - 1)[i] = stream[i]
      BY <1>3, <1>5, <2>1
    <2> QED
      BY <1>2, <1>5, <2>3, <2>4
  <1>7. /\ Q(K) \in Window /\ Q(K + 1) \in Window /\ Q(Len(out)) \in Window
        /\ Q(K) \in Nat /\ Q(K + 1) \in Nat /\ Q(Len(out)) \in Nat
        /\ Window = Q(Len(out)) .. Q(K + 1) /\ Window' = Q(Len(out)) .. Q(K)
    <2>1. K \in Len(out) .. K + 1 /\ K + 1 \in Len(out) .. K + 1 /\ Len(out) \in Len(out) .. K + 1
      BY <1>3
    <2> QED
      BY <1>2, <1>6, <2>1, Numbers DEF Window, Q
  <1>8. back' = At(at, K - 1)
    <2>1. back = At(at, (K - 1) + 1) /\ back.chunk = At(at, (K - 1) + 1).chunk
      BY <1>1, <1>5 DEF Pointers
    <2>2. back' = IF back.pos # 0 THEN [back EXCEPT !.pos = @ - 1]
                                  ELSE Cell(prev[back.chunk], N - 1)
      BY <1>2 DEF unpush
    <2> QED
      BY <1>1, <1>2, <1>5, <2>1, <2>2, Before
  <1>9. /\ end = At(at, K + 1) /\ end.chunk = at[Q(K + 1)]
    BY <1>1, CellEq DEF Pointers, At
  <1>10. /\ end' = At(at, K) /\ Window' \subseteq Window
         /\ next' \in [Chunks -> Chunks \cup {NoChunk}] /\ live' \subseteq Chunks
         /\ \A q \in Window' : q + 1 \in Window' => next'[at[q]] = next[at[q]]
         /\ live' = {at[q] : q \in Window'} \cup ({spare_chunk} \ {NoChunk})
    <2>1. CASE end.pos # 0
      <3>1. Q(K + 1) = Q(K) /\ At(at, K) = [end EXCEPT !.pos = @ - 1]
        BY <1>1, <1>2, <1>5, <1>9, <2>1, Before
      <3>2. Window' = Window
        BY <1>7, <3>1
      <3>3. end' = [end EXCEPT !.pos = @ - 1] /\ UNCHANGED <<next, live>>
        BY <1>2, <2>1 DEF unpush
      <3>4. live = {at[q] : q \in Window} \cup ({spare_chunk} \ {NoChunk})
        BY <1>1 DEF Chain
      <3> QED
        BY <1>2, <3>1, <3>2, <3>3, <3>4 DEF TypeOK
    <2>2. CASE end.pos = 0
      <3>1. Q(K + 1) = Q(K) + 1 /\ prev[end.chunk] = at[Q(K)] /\ At(at, K) = Cell(at[Q(K)], N - 1)
        BY <1>1, <1>2, <1>5, <1>9, <2>2, Before
      <3>2. /\ Window = Window' \cup {Q(K + 1)} /\ Q(K + 1) \notin Window'
            /\ \A q \in Window' : q + 1 \in Window' => q # Q(K)
        BY <1>7, <3>1
      <3>3. next[at[Q(K)]] = at[Q(K + 1)] /\ at[Q(K)] \in Chunks
        BY <1>1, <1>7, <3>1 DEF Chain
      <3>4. /\ end' = Cell(at[Q(K)], N - 1)
            /\ live' = live \ {at[Q(K + 1)]}
            /\ next' = [next EXCEPT ![at[Q(K)]] = NoChunk]
        BY <1>2, <2>2, <3>1, <3>3 DEF unpush
      <3>5. /\ next' \in [Chunks -> Chunks \cup {NoChunk}] /\ live' \subseteq Chunks
            /\ \A k \in Chunks : k # at[Q(K)] => next'[k] = next[k]
        BY <1>2, <3>3, <3>4 DEF TypeOK
      <3>6. ASSUME NEW q \in Window', q + 1 \in Window' PROVE next'[at[q]] = next[at[q]]
        <4>1. q \in Window /\ q # Q(K)
          BY <3>2, <3>6
        <4>2. at[q] # at[Q(K)] /\ at[q] \in Chunks
          BY <1>1, <1>7, <4>1 DEF Chain
        <4> QED
          BY <3>5, <4>2
      <3>7. live = {at[q] : q \in Window} \cup ({spare_chunk} \ {NoChunk})
        BY <1>1 DEF Chain
      <3>8. {at[q] : q \in Window} = {at[q] : q \in Window'} \cup {at[Q(K + 1)]}
        BY <3>2
      <3>9. \A q \in Window' : at[q] # at[Q(K + 1)]
        BY <1>1, <1>7, <3>2 DEF Chain
      <3>10. spare_chunk # at[Q(K + 1)]
        BY <1>1, <1>7 DEF Chain
      <3>11. live' = {at[q] : q \in Window'} \cup ({spare_chunk} \ {NoChunk})
        BY <3>4, <3>7, <3>8, <3>9, <3>10
      <3> QED
        BY <3>1, <3>2, <3>4, <3>5, <3>6, <3>11
    <2> QED
      BY <2>1, <2>2
  <1>11. PICK at2 : at2 = [q \in Window' |-> at[q]]
    OBVIOUS
  <1>12. at2 \in [Window' -> Chunks] /\ \A q \in Window' : at2[q] = at[q] /\ q \in Window
    BY <1>10, <1>11
  <1>13. Chain(at2)'
    <2>1. {at2[q] : q \in Window'} = {at[q] : q \in Window'}
      BY <1>12
    <2>2. live' = {at2[q] : q \in Window'} \cup ({spare_chunk'} \ {NoChunk})
      BY <1>2, <1>10, <2>1
    <2>3. \A q \in Window' : spare_chunk' # at2[q]
      BY <1>1, <1>2, <1>12 DEF Chain
    <2>4. \A p, q \in Window' : at2[p] = at2[q] => p = q
      BY <1>1, <1>12 DEF Chain
    <2>5. \A q \in Window' : q + 1 \in Window' =>
             next'[at2[q]] = at2[q + 1] /\ prev'[at2[q + 1]] = at2[q]
      BY <1>1, <1>2, <1>10, <1>12 DEF Chain
    <2> QED
      BY <2>2, <2>3, <2>4, <2>5 DEF Chain
  <1>14. Counts'
    <2>1. \A i \in 1 .. Len(out) : i \in 1 .. K - 1
      BY <1>3, <1>5
    <2>2. K - 1 <= writes
      BY <1>3
    <2> QED
      BY <1>2, <1>3, <1>5, <1>6, <2>1, <2>2 DEF Counts
  <1>15. Calls'
    BY <1>2 DEF Calls
  <1>16. ASSUME NEW i \in Len(out) .. K PROVE At(at2, i) = At(at, i) /\ Q(i) \in Window'
    <2>1. i \in Nat /\ Len(out) <= i /\ i <= K
      BY <1>3
    <2>2. Q(i) \in Nat /\ Q(Len(out)) <= Q(i) /\ Q(i) <= Q(K)
      BY <1>3, <2>1, Tape, TapeOrder
    <2>3. Q(i) \in Window'
      BY <1>7, <2>2
    <2> QED
      BY <1>12, <2>3 DEF At
  <1>17. Pointers(at2)'
    <2>1. \A i : At(at2, i)' = At(at2, i)
      BY DEF At, Q, P, Cell
    <2>2. /\ Len(out) \in Len(out) .. K /\ flushed \in Len(out) .. K /\ complete \in Len(out) .. K
          /\ \A i \in Len(out) .. flushed : i \in Len(out) .. K
      BY <1>3
    <2>3. begin = At(at2, Len(out)) /\ w = At(at2, flushed) /\ f = At(at2, complete)
      BY <1>1, <1>16, <2>2 DEF Pointers
    <2>4. r = NULL \/ \E i \in Len(out) .. flushed : r = At(at2, i)
      BY <1>1, <1>16, <2>2 DEF Pointers
    <2>5. back' = At(at2, Len(stream')) /\ end' = At(at2, Len(stream') + 1)
      BY <1>5, <1>6, <1>8, <1>10, <1>16
    <2>6. c = NULL \/ c = w
      BY <1>1 DEF Pointers
    <2> QED
      BY <1>2, <2>1, <2>3, <2>4, <2>5, <2>6 DEF Pointers
  <1>18. Contents(at2)'
    <2> SUFFICES ASSUME NEW i \in 1 .. K - 1, i > Len(out)
                 PROVE  values'[at2[Q(i - 1)]][P(i - 1)] = stream'[i]
      BY <1>2, <1>6 DEF Contents, Q, P
    <2>1. i - 1 \in Len(out) .. K /\ i \in 1 .. K
      BY <1>3
    <2>2. at2[Q(i - 1)] = at[Q(i - 1)]
      BY <1>12, <1>16, <2>1
    <2> QED
      BY <1>1, <1>2, <1>6, <2>1, <2>2 DEF Contents
  <1>19. TypeOK'
    <2>1. back' \in Cells /\ end' \in Cells
      <3>1. K - 1 \in Len(out) .. K + 1 /\ K \in Len(out) .. K + 1
        BY <1>3, <1>5
      <3> QED
        BY <1>1, <1>2, <1>8, <1>10, <3>1, Apart
    <2> QED
      BY <1>2, <1>6, <1>10, <2>1 DEF TypeOK
  <1> QED
    BY <1>12, <1>13, <1>14, <1>15, <1>17, <1>18, <1>19 DEF PipeInv

\* The item at the front was published: read takes it, and the chunk that the front
\* leaves is not the one that anybody else is in.
LEMMA readInv == PipeInv /\ read => PipeInv'
  <1> SUFFICES ASSUME PipeInv, read PROVE PipeInv'
    OBVIOUS
  <1> DEFINE D == Len(out)
             K == Len(stream)
             x == values[begin.chunk][begin.pos]
  <1>1. PICK at \in [Window -> Chunks] : Chain(at) /\ Pointers(at) /\ Contents(at)
    BY DEF PipeInv
  <1>2. /\ TypeOK /\ Counts /\ Calls /\ rpc = "pop" /\ pop
        /\ out' = Append(out, x) /\ rpc' = "idle"
        /\ UNCHANGED <<values, next, back, end, w, f, r, c, wpc, writes, stream, complete,
                       flushed, asleep>>
    BY DEF PipeInv, read, pipeVars
  <1>3. /\ D \in Nat /\ K \in Nat /\ flushed \in Nat /\ complete \in Nat /\ writes \in Nat
        /\ D <= flushed /\ flushed <= complete /\ complete <= K /\ K <= writes
    BY <1>2, Numbers DEF Counts
  <1>4. PICK m \in D .. flushed : r = At(at, m)
    BY <1>1, <1>2 DEF Pointers, Calls
  <1>5. m # D
    BY <1>1, <1>2, <1>4 DEF Pointers, Calls
  <1>6. D + 1 <= flushed /\ m \in D + 1 .. flushed
    BY <1>3, <1>5
  <1>7. begin = At(at, D) /\ begin.chunk = at[Q(D)] /\ begin.pos = P(D) /\ end.chunk = at[Q(K + 1)]
    BY <1>1, CellEq DEF Pointers, At
  <1>8. x = stream[D + 1] /\ x \in Items
    <2>1. D + 1 \in 1 .. K /\ D + 1 > D /\ (D + 1) - 1 = D
      BY <1>3, <1>6
    <2>2. values[at[Q((D + 1) - 1)]][P((D + 1) - 1)] = stream[D + 1]
      BY <1>1, <2>1 DEF Contents
    <2>3. stream[D + 1] \in Items
      BY <1>2, <2>1, ElementOfSeq DEF TypeOK
    <2> QED
      BY <1>7, <2>1, <2>2, <2>3
  <1>9. /\ out' \in Seq(Items \cup {Garbage}) /\ Len(out') = D + 1
        /\ \A i \in 1 .. D : out'[i] = out[i]
        /\ out'[D + 1] = x
    <2>1. out \in Seq(Items \cup {Garbage}) /\ x \in Items \cup {Garbage}
      BY <1>2, <1>8 DEF TypeOK
    <2> QED
      BY <1>2, <2>1, AppendProperties
  <1>10. /\ Q(D) \in Window /\ Q(D + 1) \in Window /\ Q(K + 1) \in Window
         /\ Q(D) \in Nat /\ Q(D + 1) \in Nat /\ Q(K + 1) \in Nat /\ Q(D + 1) <= Q(K + 1)
         /\ Window = Q(D) .. Q(K + 1) /\ Window' = Q(D + 1) .. Q(K + 1)
    <2>1. D \in D .. K + 1 /\ D + 1 \in D .. K + 1 /\ K + 1 \in D .. K + 1
      BY <1>3, <1>6
    <2>2. Q(D + 1) <= Q(K + 1)
      <3>1. D + 1 \in Nat /\ K + 1 \in Nat /\ D + 1 <= K + 1
        BY <1>3
      <3> QED
        BY <3>1, TapeOrder
    <2> QED
      BY <1>2, <1>9, <2>1, <2>2, Numbers DEF Window, Q
  <1>11. /\ begin' = At(at, D + 1) /\ Window' \subseteq Window
         /\ prev' \in [Chunks -> Chunks \cup {NoChunk}] /\ live' \subseteq Chunks
         /\ spare_chunk' \in Chunks \cup {NoChunk}
         /\ \A q \in Window' : q + 1 \in Window' => prev'[at[q + 1]] = prev[at[q + 1]]
         /\ live' = {at[q] : q \in Window'} \cup ({spare_chunk'} \ {NoChunk})
         /\ \A q \in Window' : spare_chunk' # at[q]
    <2>1. live = {at[q] : q \in Window} \cup ({spare_chunk} \ {NoChunk})
      BY <1>1 DEF Chain
    <2>2. CASE begin.pos + 1 # N
      <3>1. Q(D + 1) = Q(D) /\ P(D + 1) = P(D) + 1
        BY <1>3, <1>7, <2>2, TapeNext
      <3>2. Window' = Window
        BY <1>10, <3>1
      <3>3. begin' = [begin EXCEPT !.pos = @ + 1] /\ UNCHANGED <<prev, live, spare_chunk>>
        BY <1>2, <2>2 DEF pop
      <3>4. begin' = At(at, D + 1)
        BY <1>7, <3>1, <3>3 DEF At, Cell
      <3>5. \A q \in Window : spare_chunk # at[q]
        BY <1>1 DEF Chain
      <3> QED
        BY <1>2, <2>1, <3>2, <3>3, <3>4, <3>5 DEF TypeOK
    <2>3. CASE begin.pos + 1 = N
      <3>1. Q(D + 1) = Q(D) + 1 /\ P(D + 1) = 0
        BY <1>3, <1>7, <2>3, TapeNext
      <3>2. /\ Window = Window' \cup {Q(D)} /\ Q(D) \notin Window'
            /\ \A q \in Window' : q + 1 \in Window' => q + 1 # Q(D + 1)
        BY <1>10, <3>1
      <3>3. next[at[Q(D)]] = at[Q(D + 1)] /\ at[Q(D)] \in Chunks /\ at[Q(D + 1)] \in Chunks
        BY <1>1, <1>10, <3>1 DEF Chain
      <3>4. /\ begin' = Cell(at[Q(D + 1)], 0)
            /\ prev' = [prev EXCEPT ![at[Q(D + 1)]] = NoChunk]
            /\ spare_chunk' = at[Q(D)]
            /\ live' = live \ {spare_chunk}
        BY <1>2, <1>7, <2>3, <3>3 DEF pop
      <3>5. /\ prev' \in [Chunks -> Chunks \cup {NoChunk}] /\ live' \subseteq Chunks
            /\ \A k \in Chunks : k # at[Q(D + 1)] => prev'[k] = prev[k]
        BY <1>2, <3>3, <3>4 DEF TypeOK
      <3>6. ASSUME NEW q \in Window', q + 1 \in Window' PROVE prev'[at[q + 1]] = prev[at[q + 1]]
        <4>1. q + 1 \in Window /\ q + 1 # Q(D + 1)
          BY <3>2, <3>6
        <4>2. at[q + 1] # at[Q(D + 1)] /\ at[q + 1] \in Chunks
          BY <1>1, <1>10, <4>1 DEF Chain
        <4> QED
          BY <3>5, <4>2
      <3>7. {at[q] : q \in Window} = {at[q] : q \in Window'} \cup {at[Q(D)]}
        BY <3>2
      <3>8. \A q \in Window : spare_chunk # at[q]
        BY <1>1 DEF Chain
      <3>9. live' = {at[q] : q \in Window'} \cup {at[Q(D)]}
        BY <2>1, <3>2, <3>4, <3>7, <3>8
      <3>10. \A q \in Window' : at[q] # at[Q(D)]
        BY <1>1, <1>10, <3>2 DEF Chain
      <3>11. live' = {at[q] : q \in Window'} \cup ({spare_chunk'} \ {NoChunk})
        BY <3>3, <3>4, <3>9, NullAssumption
      <3>12. begin' = At(at, D + 1)
        BY <3>1, <3>4 DEF At
      <3> QED
        BY <3>2, <3>3, <3>4, <3>5, <3>6, <3>10, <3>11, <3>12
    <2> QED
      BY <2>2, <2>3
  <1>12. PICK at2 : at2 = [q \in Window' |-> at[q]]
    OBVIOUS
  <1>13. at2 \in [Window' -> Chunks] /\ \A q \in Window' : at2[q] = at[q] /\ q \in Window
    BY <1>11, <1>12
  <1>14. Chain(at2)'
    <2>1. {at2[q] : q \in Window'} = {at[q] : q \in Window'}
      BY <1>13
    <2>2. live' = {at2[q] : q \in Window'} \cup ({spare_chunk'} \ {NoChunk})
      BY <1>11, <2>1
    <2>3. \A q \in Window' : spare_chunk' # at2[q]
      BY <1>11, <1>13
    <2>4. \A p, q \in Window' : at2[p] = at2[q] => p = q
      BY <1>1, <1>13 DEF Chain
    <2>5. \A q \in Window' : q + 1 \in Window' =>
             next'[at2[q]] = at2[q + 1] /\ prev'[at2[q + 1]] = at2[q]
      BY <1>1, <1>2, <1>11, <1>13 DEF Chain
    <2> QED
      BY <2>2, <2>3, <2>4, <2>5 DEF Chain
  <1>15. Counts'
    <2>1. ASSUME NEW i \in 1 .. D + 1 PROVE out'[i] = stream[i]
      <3>1. i \in 1 .. D \/ i = D + 1
        BY <1>3
      <3> QED
        BY <1>2, <1>8, <1>9, <3>1 DEF Counts
    <2> QED
      BY <1>2, <1>3, <1>6, <1>9, <2>1 DEF Counts
  <1>16. Calls'
    BY <1>2 DEF Calls
  <1>17. ASSUME NEW i \in D + 1 .. K + 1 PROVE At(at2, i) = At(at, i) /\ Q(i) \in Window'
    <2>1. i \in Nat /\ D + 1 \in Nat /\ K + 1 \in Nat /\ D + 1 <= i /\ i <= K + 1
      BY <1>3
    <2>2. Q(i) \in Nat /\ Q(D + 1) <= Q(i) /\ Q(i) <= Q(K + 1)
      BY <2>1, Tape, TapeOrder
    <2>3. Q(i) \in Window'
      BY <1>10, <2>2
    <2> QED
      BY <1>13, <2>3 DEF At
  <1>18. Pointers(at2)'
    <2>1. \A i : At(at2, i)' = At(at2, i)
      BY DEF At, Q, P, Cell
    <2>2. /\ D + 1 \in D + 1 .. K + 1 /\ flushed \in D + 1 .. K + 1 /\ complete \in D + 1 .. K + 1
          /\ K \in D + 1 .. K + 1 /\ K + 1 \in D + 1 .. K + 1 /\ m \in D + 1 .. K + 1
      BY <1>3, <1>6
    <2>3. /\ begin' = At(at2, D + 1) /\ w = At(at2, flushed) /\ f = At(at2, complete)
          /\ back = At(at2, K) /\ end = At(at2, K + 1) /\ r = At(at2, m)
      BY <1>1, <1>4, <1>11, <1>17, <2>2 DEF Pointers
    <2>4. c = NULL \/ c = w
      BY <1>1 DEF Pointers
    <2> QED
      BY <1>2, <1>6, <1>9, <2>1, <2>3, <2>4 DEF Pointers
  <1>19. Contents(at2)'
    <2> SUFFICES ASSUME NEW i \in 1 .. K, i > D + 1
                 PROVE  values[at2[Q(i - 1)]][P(i - 1)] = stream[i]
      BY <1>2, <1>9 DEF Contents, Q, P
    <2>1. i - 1 \in D + 1 .. K + 1 /\ i > D
      BY <1>3
    <2>2. at2[Q(i - 1)] = at[Q(i - 1)]
      BY <1>13, <1>17, <2>1
    <2> QED
      BY <1>1, <2>1, <2>2 DEF Contents
  <1>20. TypeOK'
    <2>1. begin' \in Cells
      <3>1. D + 1 \in D .. K + 1
        BY <1>3, <1>6
      <3> QED
        BY <1>1, <1>2, <1>11, <3>1, Apart
    <2> QED
      BY <1>2, <1>9, <1>11, <2>1 DEF TypeOK
  <1> QED
    BY <1>13, <1>14, <1>15, <1>16, <1>18, <1>19, <1>20 DEF PipeInv

-----------------------------------------------------------------------------
(* The invariant, and what it gives *)

LEMMA NextInv == PipeInv /\ [Next]_vars => PipeInv'
  <1> SUFFICES ASSUME PipeInv, [Next]_vars PROVE PipeInv'
    OBVIOUS
  <1>1. ASSUME NEW incomplete \in BOOLEAN, write(incomplete) PROVE PipeInv'
    BY <1>1, writeInv
  <1>2. CASE unwrite
    BY <1>2, unwriteInv
  <1>3. CASE flush \/ flushAsleep
    BY <1>3, flushInv
  <1>4. CASE check_read
    BY <1>4, check_readInv
  <1>5. CASE read
    BY <1>5, readInv
  <1>6. CASE UNCHANGED vars
    BY <1>6, StutterInv
  <1> QED
    BY <1>1, <1>2, <1>3, <1>4, <1>5, <1>6 DEF Next, Writer, Reader

\* The chunks between front and end are linked as the tape says, and every pointer
\* of writer and reader is to the cell its history says.
THEOREM Inductive == Spec => []PipeInv
  BY InitInv, NextInv, PTL DEF Spec

\* No thread holds a pointer into freed memory, no chunk leaks, and flush reports a
\* sleeping reader exactly when there is one.
THEOREM Sound == Spec => []PipeSound
  BY Inductive, InvSound, PTL

-----------------------------------------------------------------------------
(* The pipe implements the abstract queue *)

\* A part of a sequence: its length and its elements.
LEMMA PartFacts ==
  ASSUME NEW S, NEW s \in Seq(S), NEW d \in Nat, NEW m \in Nat, d <= m, m <= Len(s)
  PROVE  /\ SubSeq(s, d + 1, m) \in Seq(S)
         /\ Len(SubSeq(s, d + 1, m)) = m - d
         /\ \A i \in 1 .. m - d : SubSeq(s, d + 1, m)[i] = s[d + i] /\ s[d + i] \in S
  <1>1. \A i \in d + 1 .. m : s[i] \in S
    OBVIOUS
  <1>2. d + 1 \in Int /\ m \in Int
    OBVIOUS
  <1>3. /\ SubSeq(s, d + 1, m) \in Seq(S)
        /\ Len(SubSeq(s, d + 1, m)) = IF d + 1 <= m THEN m - (d + 1) + 1 ELSE 0
        /\ \A i \in 1 .. m - (d + 1) + 1 : SubSeq(s, d + 1, m)[i] = s[d + 1 + i - 1]
    BY <1>1, <1>2, SubSeqProperties
  <1>4. /\ m - (d + 1) + 1 = m - d
        /\ \A i \in 1 .. m - d : d + 1 + i - 1 = d + i /\ d + i \in d + 1 .. m
    OBVIOUS
  <1>5. Len(SubSeq(s, d + 1, m)) = m - d
    BY <1>3
  <1> QED
    BY <1>1, <1>3, <1>4, <1>5

\* It depends on nothing but what it shows.
LEMMA SamePart ==
  ASSUME NEW S, NEW s \in Seq(S), NEW t \in Seq(S), NEW d \in Nat, NEW m \in Nat,
         d <= m, m <= Len(s), m <= Len(t), \A i \in 1 .. m : s[i] = t[i]
  PROVE  SubSeq(s, d + 1, m) = SubSeq(t, d + 1, m)
  <1>1. /\ SubSeq(s, d + 1, m) \in Seq(S) /\ Len(SubSeq(s, d + 1, m)) = m - d
        /\ SubSeq(t, d + 1, m) \in Seq(S) /\ Len(SubSeq(t, d + 1, m)) = m - d
    BY PartFacts
  <1>2. \A i \in 1 .. m - d : d + i \in 1 .. m
    OBVIOUS
  <1>3. \A i \in 1 .. m - d : SubSeq(s, d + 1, m)[i] = SubSeq(t, d + 1, m)[i]
    BY <1>2, PartFacts
  <1> QED
    BY <1>1, <1>3, SeqEqual

\* A longer part begins with the shorter one.
LEMMA PartGrows ==
  ASSUME NEW S, NEW s \in Seq(S), NEW d \in Nat, NEW m \in Nat, NEW n \in Nat,
         d <= m, m <= n, n <= Len(s)
  PROVE  SubSeq(SubSeq(s, d + 1, n), 1, m - d) = SubSeq(s, d + 1, m)
  <1>1. PICK a, b : a = SubSeq(s, d + 1, m) /\ b = SubSeq(s, d + 1, n)
    OBVIOUS
  <1>2. /\ a \in Seq(S) /\ Len(a) = m - d /\ \A i \in 1 .. m - d : a[i] = s[d + i]
        /\ b \in Seq(S) /\ Len(b) = n - d /\ \A i \in 1 .. n - d : b[i] = s[d + i]
    <2>1. d <= n /\ m <= Len(s)
      OBVIOUS
    <2> QED
      BY <1>1, <2>1, PartFacts
  <1>3. m - d \in Nat /\ 0 \in Nat /\ 0 <= m - d /\ m - d <= Len(b) /\ 0 + 1 = 1 /\ (m - d) - 0 = m - d
    BY <1>2
  <1>4. /\ SubSeq(b, 1, m - d) \in Seq(S) /\ Len(SubSeq(b, 1, m - d)) = m - d
        /\ \A i \in 1 .. m - d : SubSeq(b, 1, m - d)[i] = b[0 + i]
    BY <1>2, <1>3, PartFacts
  <1>5. \A i \in 1 .. m - d : i \in 1 .. n - d /\ 0 + i = i
    OBVIOUS
  <1>6. \A i \in 1 .. m - d : SubSeq(b, 1, m - d)[i] = a[i]
    BY <1>2, <1>4, <1>5
  <1> QED
    BY <1>1, <1>2, <1>4, <1>6, SeqEqual

\* What is published and not read lies within the stream.
LEMMA Published ==
  ASSUME PipeInv
  PROVE  /\ stream \in Seq(Items) /\ Len(stream) \in Nat /\ Len(out) \in Nat /\ flushed \in Nat
         /\ complete \in Nat
         /\ Len(out) <= flushed /\ flushed <= complete /\ complete <= Len(stream)
  BY Numbers DEF PipeInv, TypeOK

\* An empty pipe is an empty queue.
LEMMA InitRefines == Init => Fifo!Init
  <1> SUFFICES ASSUME Init PROVE Fifo!Init
    OBVIOUS
  <1>1. stream = <<>> /\ out = <<>> /\ flushed = 0
    BY DEF Init
  <1>2. SubSeq(stream, Len(out) + 1, flushed) = <<>>
    BY <1>1, SubSeqEmpty
  <1> QED
    BY <1>1, <1>2 DEF Fifo!Init

\* What is written or taken back is not published: nobody sees it.
LEMMA StreamRefines ==
  ASSUME PipeInv, NEW incomplete \in BOOLEAN, write(incomplete) \/ unwrite
  PROVE  UNCHANGED Fifo!fifoVars
  <1>1. PICK at \in [Window -> Chunks] : Chain(at) /\ Pointers(at)
    BY DEF PipeInv
  <1>2. /\ stream' \in Seq(Items) /\ flushed <= Len(stream')
        /\ \A i \in 1 .. flushed : stream[i] = stream'[i]
    <2>1. CASE write(incomplete)
      <3>1. writes + 1 \in Items
        BY <2>1, WritesAssumption DEF PipeInv, TypeOK, Items, write
      <3>2. stream' = Append(stream, writes + 1)
        BY <2>1 DEF write
      <3>3. /\ stream' \in Seq(Items) /\ Len(stream') = Len(stream) + 1
            /\ \A i \in 1 .. Len(stream) : stream'[i] = stream[i]
        <4>1. stream \in Seq(Items)
          BY Published
        <4> QED
          BY <3>1, <3>2, <4>1, AppendProperties
      <3> QED
        BY <3>3, Published
    <2>2. CASE unwrite
      <3>1. complete # Len(stream)
        BY <1>1, <2>2 DEF unwrite, Pointers
      <3>2. Len(stream) - 1 \in Nat /\ flushed <= Len(stream) - 1
        BY <3>1, Published
      <3>3. /\ SubSeq(stream, 1, Len(stream) - 1) \in Seq(Items)
            /\ Len(SubSeq(stream, 1, Len(stream) - 1)) = Len(stream) - 1
            /\ \A i \in 1 .. Len(stream) - 1 : SubSeq(stream, 1, Len(stream) - 1)[i] = stream[i]
        <4>1. stream \in Seq(Items) /\ Len(stream) \in Nat
          BY Published
        <4>2. PICK m \in Nat : m = Len(stream) - 1
          BY <3>2
        <4>3. 0 \in Nat /\ 0 <= m /\ m <= Len(stream) /\ 0 + 1 = 1 /\ m - 0 = m
          BY <4>1, <4>2
        <4>4. /\ SubSeq(stream, 0 + 1, m) \in Seq(Items) /\ Len(SubSeq(stream, 0 + 1, m)) = m - 0
              /\ \A i \in 1 .. m - 0 : SubSeq(stream, 0 + 1, m)[i] = stream[0 + i]
          BY <4>1, <4>3, PartFacts
        <4>5. \A i \in 1 .. m : 0 + i = i
          OBVIOUS
        <4> QED
          BY <4>2, <4>3, <4>4, <4>5
      <3>4. stream' = SubSeq(stream, 1, Len(stream) - 1)
        BY <2>2 DEF unwrite
      <3> QED
        BY <3>2, <3>3, <3>4, Published
    <2> QED
      BY <2>1, <2>2
  <1>3. UNCHANGED <<out, flushed>>
    BY DEF write, unwrite
  <1>4. SubSeq(stream, Len(out) + 1, flushed) = SubSeq(stream', Len(out) + 1, flushed)
    <2>1. flushed <= Len(stream)
      BY Published
    <2> QED
      BY <1>2, <2>1, Published, SamePart
  <1> QED
    BY <1>3, <1>4 DEF Fifo!fifoVars

\* flush publishes all that was completed since the flush before, as one batch: the
\* step that sets c does, whichever of the two it is.
LEMMA FlushRefines ==
  ASSUME PipeInv, flush \/ flushAsleep
  PROVE  Fifo!Publish \/ UNCHANGED Fifo!fifoVars
  <1> DEFINE old == SubSeq(stream, Len(out) + 1, flushed)
             new == SubSeq(stream, Len(out) + 1, complete)
  <1>1. CASE UNCHANGED <<stream, out, flushed>>
    BY <1>1 DEF Fifo!fifoVars
  <1>2. CASE w # f /\ flushed' = complete /\ UNCHANGED <<stream, out>>
    <2>1. PICK at \in [Window -> Chunks] : Chain(at) /\ Pointers(at)
      BY DEF PipeInv
    <2>2. flushed # complete
      BY <1>2, <2>1 DEF Pointers
    <2>3. /\ flushed < complete /\ flushed <= Len(stream) /\ Len(out) <= complete
          /\ Len(out) <= flushed /\ flushed <= complete /\ complete <= Len(stream)
      BY <2>2, Published
    <2>4. /\ old \in Seq(Items) /\ Len(old) = flushed - Len(out)
          /\ new \in Seq(Items) /\ Len(new) = complete - Len(out)
      BY <2>3, Published, PartFacts
    <2>5. SubSeq(new, 1, flushed - Len(out)) = old
      BY <2>3, Published, PartGrows
    <2> HIDE DEF old, new
    <2>6. Len(new) > Len(old)
      BY <2>3, <2>4, Published
    <2>7. \A i \in Len(old) + 1 .. Len(new) : new[i] \in Items
      BY <2>4, <2>6, Published
    <2> QED
      BY <1>2, <2>4, <2>5, <2>6, <2>7 DEF Fifo!Publish, old, new
  <1> QED
    BY <1>1, <1>2 DEF flush, flushAsleep, PipeInv, Calls

\* read receives the oldest item that is published.
LEMMA ReadRefines ==
  ASSUME PipeInv, read PROVE Fifo!Receive
  <1> DEFINE D == Len(out)
  <1>1. PICK at \in [Window -> Chunks] : Chain(at) /\ Pointers(at) /\ Contents(at)
    BY DEF PipeInv
  <1>2. /\ out' = Append(out, values[begin.chunk][begin.pos]) /\ UNCHANGED <<stream, flushed>>
        /\ r # begin /\ r # NULL
    BY DEF read, PipeInv, Calls
  <1>3. PICK m \in D .. flushed : r = At(at, m)
    BY <1>1, <1>2 DEF Pointers
  <1>4. D # m
    BY <1>1, <1>2, <1>3 DEF Pointers
  <1>5. /\ D + 1 \in 1 .. Len(stream) /\ D + 1 > D /\ (D + 1) - 1 = D /\ D < flushed
        /\ flushed \in D + 1 .. Len(stream) /\ flushed <= Len(stream)
    BY <1>3, <1>4, Published
  <1>6. values[begin.chunk][begin.pos] = stream[D + 1]
    <2>1. values[at[Q((D + 1) - 1)]][P((D + 1) - 1)] = stream[D + 1]
      BY <1>1, <1>5 DEF Contents
    <2>2. begin.chunk = at[Q(D)] /\ begin.pos = P(D)
      BY <1>1, CellEq DEF Pointers, At
    <2> QED
      BY <1>5, <2>1, <2>2
  <1>7. /\ Head(SubSeq(stream, D + 1, flushed)) = stream[D + 1]
        /\ Tail(SubSeq(stream, D + 1, flushed)) = SubSeq(stream, D + 1 + 1, flushed)
    BY <1>5, Published, HeadTailOfSubSeq
  <1>8. SubSeq(stream, D + 1, flushed) # <<>>
    <2>1. Len(SubSeq(stream, D + 1, flushed)) = flushed - D
      BY <1>5, Published, PartFacts
    <2>2. flushed - D # 0
      <3>1. D \in Nat /\ flushed \in Nat
        BY Published
      <3>2. D < flushed
        BY <1>5
      <3> HIDE DEF D
      <3> QED
        BY <3>1, <3>2
    <2>3. Len(<<>>) = 0
      OBVIOUS
    <2> QED
      BY <2>1, <2>2, <2>3
  <1>9. Len(out') = D + 1
    <2>1. stream \in Seq(Items) /\ out \in Seq(Items \cup {Garbage})
      BY DEF PipeInv, TypeOK
    <2>2. stream[D + 1] \in Items
      BY <1>5, <2>1, ElementOfSeq
    <2>3. stream[D + 1] \in Items \cup {Garbage}
      BY <2>2
    <2> QED
      BY <1>2, <1>6, <2>1, <2>3, AppendProperties
  <1> QED
    BY <1>2, <1>6, <1>7, <1>8, <1>9 DEF Fifo!Receive

\* Every step of the pipe is a step of the abstract queue or leaves it alone.
LEMMA NextRefines == PipeInv /\ [Next]_vars => [Fifo!Next]_(Fifo!fifoVars)
  <1> SUFFICES ASSUME PipeInv, [Next]_vars PROVE Fifo!Next \/ UNCHANGED Fifo!fifoVars
    OBVIOUS
  <1>1. ASSUME NEW incomplete \in BOOLEAN, write(incomplete) PROVE UNCHANGED Fifo!fifoVars
    BY <1>1, StreamRefines
  <1>2. CASE unwrite
    BY <1>2, StreamRefines
  <1>3. CASE flush \/ flushAsleep
    BY <1>3, FlushRefines DEF Fifo!Next
  <1>4. CASE check_read
    BY <1>4 DEF check_read, Fifo!fifoVars
  <1>5. CASE read
    BY <1>5, ReadRefines DEF Fifo!Next
  <1>6. CASE UNCHANGED vars
    BY <1>6 DEF vars, Fifo!fifoVars
  <1> QED
    BY <1>1, <1>2, <1>3, <1>4, <1>5, <1>6 DEF Next, Writer, Reader

\* ypipe_t implements the first-in first-out queue: flush takes effect where it sets
\* c, read where it pops; items that were not completed are never seen.
THEOREM Refines == Spec => ImplementsFifo
  BY Inductive, InitRefines, NextRefines, PTL DEF Spec, ImplementsFifo, Fifo!Spec
=============================================================================
