------------------------------- MODULE YPipe --------------------------------
(***************************************************************************)
(* ypipe_t<T, N> over yqueue_t<T, N> of 7.3cas_queue: a pipe for one       *)
(* writer and one reader thread.                                           *)
(*                                                                         *)
(* Cells live in chunks of N; a chunk that was read empty is kept as the   *)
(* spare one and handed back to the writer through an atomic exchange.     *)
(* The writer publishes what it completed by moving c to f, the reader     *)
(* prefetches up to c and, when there is nothing, sets c to NULL: that is  *)
(* how the next flush learns that the reader went to sleep.                *)
(*                                                                         *)
(* Pointers to cells are [chunk, pos] pairs, compared as addresses are:    *)
(* a recycled or re-allocated chunk gives equal pointers again.            *)
(***************************************************************************)
EXTENDS Integers, Sequences, FiniteSets

CONSTANTS
    Chunks,         \* addresses malloc can return for a chunk
    N,              \* cells of a chunk
    MaxWrites       \* bound: calls of write

ASSUME GranularityAssumption == N \in Nat \ {0}
ASSUME WritesAssumption == MaxWrites \in Nat

VARIABLES
    values,         \* values[k][i]: cell i of chunk k
    next, prev,     \* the links of each chunk
    live,           \* chunks allocated and not freed
    begin,          \* begin_chunk, begin_pos: the front cell (reader)
    back, end,      \* back_ and end_ chunk and pos (writer)
    spare_chunk,    \* shared by xchg
    w, f,           \* first un-flushed cell, flush up to here (writer)
    r,              \* first un-prefetched cell (reader)
    c,              \* shared by cas: what is published; NULL if the reader sleeps
    wpc, rpc,       \* where writer and reader are in their call
    writes,         \* calls of write so far
    stream,         \* history: items written and not unwritten, in order
    complete,       \* history: how many of them lie before f
    flushed,        \* history: how many of them were published
    asleep,         \* history: the last read found nothing and nothing was published since
    out             \* history: items read

queueVars == <<values, next, prev, live, begin, back, end, spare_chunk>>
pipeVars == <<w, f, r, c>>
history == <<stream, complete, flushed, asleep, out>>
vars == <<values, next, prev, live, begin, back, end, spare_chunk, w, f, r, c, wpc, rpc,
          writes, stream, complete, flushed, asleep, out>>

NoChunk == "no chunk"                   \* a NULL chunk_t pointer
NULL == [chunk |-> NoChunk, pos |-> 0]  \* a NULL pointer to a cell
ASSUME NullAssumption == NoChunk \notin Chunks

Cells == [chunk : Chunks, pos : 0 .. N - 1]
Items == 1 .. MaxWrites                 \* the value of the k-th write is k
Garbage == 0                            \* what a fresh or freed cell holds

TypeOK ==
    /\ values \in [Chunks -> [0 .. N - 1 -> Items \cup {Garbage}]]
    /\ next \in [Chunks -> Chunks \cup {NoChunk}]
    /\ prev \in [Chunks -> Chunks \cup {NoChunk}]
    /\ live \subseteq Chunks
    /\ {begin, back, end, w, f} \subseteq Cells
    /\ {r, c} \subseteq Cells \cup {NULL}
    /\ spare_chunk \in Chunks \cup {NoChunk}
    /\ wpc \in {"idle", "set"}
    /\ rpc \in {"idle", "pop"}
    /\ writes \in 0 .. MaxWrites
    /\ stream \in Seq(Items) /\ out \in Seq(Items \cup {Garbage})
    /\ complete \in 0 .. MaxWrites /\ flushed \in 0 .. MaxWrites
    /\ asleep \in BOOLEAN

-----------------------------------------------------------------------------
(* yqueue_t *)

Cell(k, i) == [chunk |-> k, pos |-> i]

\* Faulty variant: the spare chunk is read but not taken out of spare_chunk.
PushKeepsSpare ==
    /\ back' = end
    /\ IF end.pos + 1 # N
         THEN /\ end' = [end EXCEPT !.pos = @ + 1]
              /\ UNCHANGED <<next, prev, live, spare_chunk>>
         ELSE \E k \in IF spare_chunk # NoChunk THEN {spare_chunk} ELSE Chunks \ live :
                /\ next' = [next EXCEPT ![end.chunk] = k]
                /\ prev' = [prev EXCEPT ![k] = end.chunk]
                /\ live' = live \cup {k}
                /\ end' = Cell(k, 0)
                /\ UNCHANGED spare_chunk

\* push: back moves to end; when end leaves the chunk, the spare chunk (taken
\* by xchg with NULL) or a new one is linked behind it.
push ==
    /\ back' = end
    /\ IF end.pos + 1 # N
         THEN /\ end' = [end EXCEPT !.pos = @ + 1]
              /\ UNCHANGED <<next, prev, live, spare_chunk>>
         ELSE \E k \in IF spare_chunk # NoChunk THEN {spare_chunk} ELSE Chunks \ live :
                /\ next' = [next EXCEPT ![end.chunk] = k]
                /\ prev' = [prev EXCEPT ![k] = end.chunk]
                /\ live' = live \cup {k}
                /\ end' = Cell(k, 0)
                /\ spare_chunk' = NoChunk

\* unpush: back and end move one cell back; a chunk end leaves is freed.
unpush ==
    /\ back' = IF back.pos # 0 THEN [back EXCEPT !.pos = @ - 1]
                               ELSE Cell(prev[back.chunk], N - 1)
    /\ IF end.pos # 0
         THEN /\ end' = [end EXCEPT !.pos = @ - 1]
              /\ UNCHANGED <<next, live>>
         ELSE LET last == prev[end.chunk] IN
              /\ end' = Cell(last, N - 1)
              /\ live' = live \ {next[last]}
              /\ next' = [next EXCEPT ![last] = NoChunk]

\* pop: when the front leaves a chunk, that chunk becomes the spare one and
\* the spare one before it is freed.
pop ==
    IF begin.pos + 1 # N
      THEN /\ begin' = [begin EXCEPT !.pos = @ + 1]
           /\ UNCHANGED <<prev, live, spare_chunk>>
      ELSE LET k == next[begin.chunk] IN
           /\ begin' = Cell(k, 0)
           /\ prev' = [prev EXCEPT ![k] = NoChunk]
           /\ spare_chunk' = begin.chunk
           /\ live' = live \ {spare_chunk}

\* yqueue_t::yqueue_t, then ypipe_t::ypipe_t pushes the terminator and points
\* r, w, f and c at it.
Init ==
    \E k \in Chunks :
        /\ values = [j \in Chunks |-> [i \in 0 .. N - 1 |-> Garbage]]
        /\ begin = Cell(k, 0) /\ back = Cell(k, 0)
        /\ IF N # 1
             THEN /\ end = Cell(k, 1) /\ live = {k}
                  /\ next = [j \in Chunks |-> NoChunk]
                  /\ prev = [j \in Chunks |-> NoChunk]
             ELSE \E j \in Chunks \ {k} :
                  /\ end = Cell(j, 0) /\ live = {k, j}
                  /\ next = [[i \in Chunks |-> NoChunk] EXCEPT ![k] = j]
                  /\ prev = [[i \in Chunks |-> NoChunk] EXCEPT ![j] = k]
        /\ spare_chunk = NoChunk
        /\ w = Cell(k, 0) /\ f = Cell(k, 0) /\ r = Cell(k, 0) /\ c = Cell(k, 0)
        /\ wpc = "idle" /\ rpc = "idle"
        /\ writes = 0
        /\ stream = <<>> /\ complete = 0 /\ flushed = 0
        /\ asleep = FALSE
        /\ out = <<>>

-----------------------------------------------------------------------------
(* ypipe_t: the writer *)

\* Everything write and unwrite touch is the writer's own, but for the
\* exchange of the spare chunk: one step each.
write(incomplete) ==
    /\ wpc = "idle"
    /\ writes < MaxWrites
    /\ values' = [values EXCEPT ![back.chunk][back.pos] = writes + 1]
    /\ push
    /\ f' = IF incomplete THEN f ELSE back'
    /\ writes' = writes + 1
    /\ stream' = Append(stream, writes + 1)
    /\ complete' = IF incomplete THEN complete ELSE Len(stream')
    /\ UNCHANGED <<begin, w, r, c, wpc, rpc, flushed, asleep, out>>

\* Items that are not completed yet can be taken back.
unwrite ==
    /\ wpc = "idle"
    /\ f # back
    /\ unpush
    /\ stream' = SubSeq(stream, 1, Len(stream) - 1)
    /\ UNCHANGED <<values, prev, begin, spare_chunk, pipeVars, wpc, rpc, writes,
                   complete, flushed, asleep, out>>

\* Faulty variant: flush also publishes items that are not completed.
FlushEverything ==
    /\ wpc = "idle"
    /\ w # f
    /\ IF c = w
         THEN /\ c' = back /\ w' = f
              /\ flushed' = complete /\ asleep' = FALSE
              /\ UNCHANGED wpc
         ELSE /\ wpc' = "set"
              /\ UNCHANGED <<c, w, flushed, asleep>>
    /\ UNCHANGED <<queueVars, f, r, rpc, writes, stream, complete, out>>

\* flush, up to its CAS on c; it returns true at once if the CAS succeeds.
\* (With nothing to flush it changes nothing and returns true.)
flush ==
    /\ wpc = "idle"
    /\ w # f
    /\ IF c = w
         THEN /\ c' = f /\ w' = f
              /\ flushed' = complete /\ asleep' = FALSE
              /\ UNCHANGED wpc
         ELSE /\ wpc' = "set"
              /\ UNCHANGED <<c, w, flushed, asleep>>
    /\ UNCHANGED <<queueVars, f, r, rpc, writes, stream, complete, out>>

\* Faulty variant: with the reader asleep, c is left for the reader to find.
FlushForgetsC ==
    /\ wpc = "set"
    /\ w' = f
    /\ flushed' = complete /\ asleep' = FALSE
    /\ wpc' = "idle"
    /\ UNCHANGED <<queueVars, f, r, c, rpc, writes, stream, complete, out>>

\* The rest of a flush that found the reader asleep: c.set(f), return false.
flushAsleep ==
    /\ wpc = "set"
    /\ c' = f /\ w' = f
    /\ flushed' = complete /\ asleep' = FALSE
    /\ wpc' = "idle"
    /\ UNCHANGED <<queueVars, f, r, rpc, writes, stream, complete, out>>

-----------------------------------------------------------------------------
(* ypipe_t: the reader *)

Prefetched == begin # r /\ r # NULL

\* check_read: r = c.cas(&queue.front(), NULL) unless items are prefetched.
\* read returns false if there is still nothing.
check_read ==
    /\ rpc = "idle"
    /\ IF Prefetched
         THEN /\ rpc' = "pop"
              /\ UNCHANGED <<r, c, asleep>>
         ELSE /\ r' = c
              /\ c' = IF c = begin THEN NULL ELSE c
              /\ rpc' = IF r' = begin \/ r' = NULL THEN "idle" ELSE "pop"
              /\ asleep' = (r' = begin \/ r' = NULL)
    /\ UNCHANGED <<queueVars, w, f, wpc, writes, stream, complete, flushed, out>>

\* The rest of read: the front item is copied out and popped.
read ==
    /\ rpc = "pop"
    /\ out' = Append(out, values[begin.chunk][begin.pos])
    /\ pop
    /\ rpc' = "idle"
    /\ UNCHANGED <<values, next, back, end, pipeVars, wpc, writes, stream, complete,
                   flushed, asleep>>

-----------------------------------------------------------------------------
Writer == (\E incomplete \in BOOLEAN : write(incomplete)) \/ unwrite \/ flush \/ flushAsleep
Reader == check_read \/ read

Next == Writer \/ Reader

Spec == Init /\ [][Next]_vars

\* The reader keeps calling read, and a call that was begun ends.
FairSpec == Spec /\ WF_vars(Reader) /\ WF_vars(flushAsleep)

-----------------------------------------------------------------------------
(* Properties *)

\* The chunks met when following the next links from the front to the end: the
\* smallest set that has the first one and every successor.
Follows(S) ==
    /\ begin.chunk \in S
    /\ \A k \in S \ {end.chunk} : next[k] \in S \cup {NoChunk}

Linked == {k \in Chunks : \A S \in SUBSET Chunks : Follows(S) => k \in S}

\* No thread holds a pointer into memory that was freed or set aside for
\* reuse, and every allocated chunk is either linked or the spare one,
\* although the two threads free, hand over and link chunks on their own.
ChunksSound ==
    /\ live = Linked \cup ({spare_chunk} \ {NoChunk})
    /\ spare_chunk \notin Linked
    /\ {begin.chunk, back.chunk, end.chunk, w.chunk, f.chunk} \subseteq Linked
    /\ {r.chunk, c.chunk} \ {NoChunk} \subseteq Linked

\* c is NULL exactly while the reader was told that there is nothing and the writer
\* has not published since.  flush returns false, asking its caller to wake the
\* reader, when its CAS finds NULL: then, and only then, the reader went to sleep.
NullMeansAsleep == (c = NULL) <=> asleep

\* The pipe implements the abstract queue: flush publishes the completed
\* items as one batch, read receives them one by one; incomplete items can
\* be taken back and are never seen by the reader.
Fifo == INSTANCE FifoQueue WITH
    queue <- SubSeq(stream, Len(out) + 1, flushed),
    received <- out

ImplementsFifo == Fifo!Spec

\* Whatever the writer does, in the end everything it published is read.
EveryItemRead == <>[](Len(out) = flushed)

\* The memory of the pipe is sound, and flush reports a sleeping reader exactly
\* when there is one.
PipeSound == TypeOK /\ ChunksSound /\ NullMeansAsleep
=============================================================================
