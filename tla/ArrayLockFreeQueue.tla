------------------------- MODULE ArrayLockFreeQueue -------------------------
(***************************************************************************)
(* ArrayLockFreeQueue<ELEM_T, Q_SIZE>: the multi-producer multi-consumer   *)
(* ring of 7.3cas_queue, synchronised by compare-and-swap only.            *)
(*                                                                         *)
(* A producer reserves a slot by a CAS on m_writeIndex, stores its element *)
(* and then publishes the slot by a CAS on m_maximumReadIndex, in the      *)
(* order of the reservations.  A consumer reads the slot at m_readIndex    *)
(* and then claims what it read by a CAS on m_readIndex.  Every load,      *)
(* store and CAS on shared memory is a step of its own, so that threads    *)
(* interleave between any two of them.                                     *)
(*                                                                         *)
(* The indices are 64-bit counters that only ever grow (countToIndex maps  *)
(* them to slots); they are modelled as naturals, since 2^64 operations    *)
(* are out of reach.  m_count keeps its wrap-around: it can be decremented *)
(* before it is incremented.                                               *)
(***************************************************************************)
EXTENDS Integers, Sequences, FiniteSets

CONSTANTS
    Producers,        \* threads that call enqueue
    Consumers,        \* threads that call dequeue
    QSize,            \* Q_SIZE
    MaxCalls,         \* bound: successful enqueue calls of one producer
    CountMod          \* m_count is kept modulo this (2^64 in the code)

ASSUME QSizeAssumption == QSize \in Nat \ {0}
ASSUME MaxCallsAssumption == MaxCalls \in Nat
ASSUME CountModAssumption == CountMod \in Nat /\ CountMod > QSize
ASSUME ThreadsAssumption == Producers \cap Consumers = {}
ASSUME FiniteAssumption == IsFiniteSet(Producers) /\ IsFiniteSet(Consumers)

VARIABLES
    m_thequeue,           \* the slots
    m_count,
    m_writeIndex,         \* next index to reserve
    m_readIndex,          \* next index to consume
    m_maximumReadIndex,   \* indices below this one are published
    pc,                   \* where each thread is in its call
    curW,                 \* currentWriteIndex of each producer
    curR,                 \* currentReadIndex of each thread
    data,                 \* a_data of each consumer
    calls,                \* completed enqueue calls of each producer
    log,                  \* history: elements in the order of reservation
    out                   \* history: elements in the order of consumption

shared == <<m_thequeue, m_count, m_writeIndex, m_readIndex, m_maximumReadIndex>>
locals == <<pc, curW, curR, data, calls>>
history == <<log, out>>
vars == <<m_thequeue, m_count, m_writeIndex, m_readIndex, m_maximumReadIndex,
          pc, curW, curR, data, calls, log, out>>

Threads == Producers \cup Consumers
Elements == Producers \X Nat        \* <<p, k>> is what p enqueues with its k-th call
NoElement == <<>>                   \* what an unwritten slot holds
Slots == 0 .. QSize - 1

ProducerPC == {"idle", "loadRead", "casWrite", "store", "commit", "count"}
ConsumerPC == {"idle", "loadMax", "read", "casRead", "count"}

TypeOK ==
    /\ m_thequeue \in [Slots -> Elements \cup {NoElement}]
    /\ m_count \in 0 .. CountMod - 1
    /\ m_writeIndex \in Nat
    /\ m_readIndex \in Nat
    /\ m_maximumReadIndex \in Nat
    /\ pc \in [Threads -> ProducerPC \cup ConsumerPC]
    /\ \A p \in Producers : pc[p] \in ProducerPC
    /\ \A c \in Consumers : pc[c] \in ConsumerPC
    /\ curW \in [Producers -> Nat]
    /\ curR \in [Threads -> Nat]
    /\ data \in [Consumers -> Elements \cup {NoElement}]
    /\ calls \in [Producers -> Nat]
    /\ log \in Seq(Elements)
    /\ out \in Seq(Elements \cup {NoElement})

-----------------------------------------------------------------------------
countToIndex(a_count) == a_count % QSize

\* What producer p passes to the enqueue call it is in.
Element(p) == <<p, calls[p]>>

\* CAS(&m_writeIndex, ...) and its siblings succeed exactly when the word
\* still holds the expected value (__sync_bool_compare_and_swap).
CASSucceeds(word, expected) == word = expected

Goto(t, label) == pc' = [pc EXCEPT ![t] = label]

Init ==
    /\ m_thequeue = [i \in Slots |-> NoElement]
    /\ m_count = 0
    /\ m_writeIndex = 0
    /\ m_readIndex = 0
    /\ m_maximumReadIndex = 0
    /\ pc = [t \in Threads |-> "idle"]
    /\ curW = [p \in Producers |-> 0]
    /\ curR = [t \in Threads |-> 0]
    /\ data = [c \in Consumers |-> NoElement]
    /\ calls = [p \in Producers |-> 0]
    /\ log = <<>>
    /\ out = <<>>

-----------------------------------------------------------------------------
(* enqueue *)

\* currentWriteIndex = m_writeIndex, at the start of a call ...
EnqueueLoadWrite(p) ==
    /\ pc[p] = "idle"
    /\ calls[p] < MaxCalls
    /\ curW' = [curW EXCEPT ![p] = m_writeIndex]
    /\ Goto(p, "loadRead")
    /\ UNCHANGED <<shared, curR, data, calls, history>>

\* ... then currentReadIndex = m_readIndex and the test for a full ring.
LooksFull(w, r) == countToIndex(w + 1) = countToIndex(r)

EnqueueLoadRead(p) ==
    /\ pc[p] = "loadRead"
    /\ curR' = [curR EXCEPT ![p] = m_readIndex]
    /\ Goto(p, IF LooksFull(curW[p], m_readIndex) THEN "idle" ELSE "casWrite")
    /\ UNCHANGED <<shared, curW, data, calls, history>>

\* Faulty variant: after a failed CAS the new index is not tested for room.
ReserveWithoutRetest(p) ==
    /\ pc[p] = "casWrite"
    /\ IF CASSucceeds(m_writeIndex, curW[p])
         THEN /\ m_writeIndex' = m_writeIndex + 1
              /\ log' = Append(log, Element(p))
              /\ Goto(p, "store")
              /\ UNCHANGED curW
         ELSE /\ curW' = [curW EXCEPT ![p] = m_writeIndex]
              /\ UNCHANGED <<m_writeIndex, log, pc>>
    /\ UNCHANGED <<m_thequeue, m_count, m_readIndex, m_maximumReadIndex,
                   curR, data, calls, out>>

\* The CAS that reserves the slot; when it fails the loop starts over with
\* a new load of m_writeIndex (the index only grows, so the load after a
\* failed CAS still finds it changed: one step for both).
EnqueueReserve(p) ==
    /\ pc[p] = "casWrite"
    /\ IF CASSucceeds(m_writeIndex, curW[p])
         THEN /\ m_writeIndex' = m_writeIndex + 1
              /\ log' = Append(log, Element(p))
              /\ Goto(p, "store")
              /\ UNCHANGED curW
         ELSE /\ curW' = [curW EXCEPT ![p] = m_writeIndex]
              /\ Goto(p, "loadRead")
              /\ UNCHANGED <<m_writeIndex, log>>
    /\ UNCHANGED <<m_thequeue, m_count, m_readIndex, m_maximumReadIndex,
                   curR, data, calls, out>>

\* Faulty variant: the slot is computed from a new load of m_writeIndex.
StoreAtNewestSlot(p) ==
    /\ pc[p] = "store"
    /\ m_thequeue' = [m_thequeue EXCEPT ![countToIndex(m_writeIndex - 1)] = Element(p)]
    /\ Goto(p, "commit")
    /\ UNCHANGED <<m_count, m_writeIndex, m_readIndex, m_maximumReadIndex,
                   curW, curR, data, calls, history>>

EnqueueStore(p) ==
    /\ pc[p] = "store"
    /\ m_thequeue' = [m_thequeue EXCEPT ![countToIndex(curW[p])] = Element(p)]
    /\ Goto(p, "commit")
    /\ UNCHANGED <<m_count, m_writeIndex, m_readIndex, m_maximumReadIndex,
                   curW, curR, data, calls, history>>

\* Faulty variant: a reserved slot is published whatever its turn.
CommitOutOfTurn(p) ==
    /\ pc[p] = "commit"
    /\ m_maximumReadIndex' = m_maximumReadIndex + 1
    /\ Goto(p, "count")
    /\ UNCHANGED <<m_thequeue, m_count, m_writeIndex, m_readIndex,
                   curW, curR, data, calls, history>>

\* Faulty variant: a producer whose publishing CAS fails gives up.
CommitOrGiveUp(p) ==
    /\ pc[p] = "commit"
    /\ IF CASSucceeds(m_maximumReadIndex, curW[p])
         THEN m_maximumReadIndex' = m_maximumReadIndex + 1
         ELSE UNCHANGED m_maximumReadIndex
    /\ Goto(p, "count")
    /\ UNCHANGED <<m_thequeue, m_count, m_writeIndex, m_readIndex,
                   curW, curR, data, calls, history>>

\* The publishing CAS spins (sched_yield) until every earlier reservation
\* has been published: a failed attempt changes nothing.
EnqueueCommit(p) ==
    /\ pc[p] = "commit"
    /\ CASSucceeds(m_maximumReadIndex, curW[p])
    /\ m_maximumReadIndex' = m_maximumReadIndex + 1
    /\ Goto(p, "count")
    /\ UNCHANGED <<m_thequeue, m_count, m_writeIndex, m_readIndex,
                   curW, curR, data, calls, history>>

\* Faulty variant: m_count is recomputed from the indices instead of incremented.
CountRecomputed(p) ==
    /\ pc[p] = "count"
    /\ m_count' = (m_maximumReadIndex - m_readIndex) % CountMod
    /\ calls' = [calls EXCEPT ![p] = @ + 1]
    /\ Goto(p, "idle")
    /\ UNCHANGED <<m_thequeue, m_writeIndex, m_readIndex, m_maximumReadIndex,
                   curW, curR, data, history>>

EnqueueCount(p) ==
    /\ pc[p] = "count"
    /\ m_count' = (m_count + 1) % CountMod
    /\ calls' = [calls EXCEPT ![p] = @ + 1]
    /\ Goto(p, "idle")
    /\ UNCHANGED <<m_thequeue, m_writeIndex, m_readIndex, m_maximumReadIndex,
                   curW, curR, data, history>>

-----------------------------------------------------------------------------
(* dequeue, and try_dequeue, which only calls it *)

DequeueLoadRead(c) ==
    /\ pc[c] = "idle"
    /\ curR' = [curR EXCEPT ![c] = m_readIndex]
    /\ Goto(c, "loadMax")
    /\ UNCHANGED <<shared, curW, data, calls, history>>

LooksEmpty(r, m) == countToIndex(r) = countToIndex(m)

DequeueLoadMax(c) ==
    /\ pc[c] = "loadMax"
    /\ Goto(c, IF LooksEmpty(curR[c], m_maximumReadIndex) THEN "idle" ELSE "read")
    /\ UNCHANGED <<shared, curW, curR, data, calls, history>>

DequeueRead(c) ==
    /\ pc[c] = "read"
    /\ data' = [data EXCEPT ![c] = m_thequeue[countToIndex(curR[c])]]
    /\ Goto(c, "casRead")
    /\ UNCHANGED <<shared, curW, curR, calls, history>>

\* Faulty variant: m_readIndex is advanced without comparing it first.
ClaimWithoutCAS(c) ==
    /\ pc[c] = "casRead"
    /\ m_readIndex' = m_readIndex + 1
    /\ out' = Append(out, data[c])
    /\ Goto(c, "count")
    /\ UNCHANGED <<m_thequeue, m_count, m_writeIndex, m_maximumReadIndex,
                   curW, curR, data, calls, log>>

\* The CAS that claims what was read; when it fails the loop starts over
\* with a new load of m_readIndex.
DequeueClaim(c) ==
    /\ pc[c] = "casRead"
    /\ IF CASSucceeds(m_readIndex, curR[c])
         THEN /\ m_readIndex' = m_readIndex + 1
              /\ out' = Append(out, data[c])
              /\ Goto(c, "count")
              /\ UNCHANGED curR
         ELSE /\ curR' = [curR EXCEPT ![c] = m_readIndex]
              /\ Goto(c, "loadMax")
              /\ UNCHANGED <<m_readIndex, out>>
    /\ UNCHANGED <<m_thequeue, m_count, m_writeIndex, m_maximumReadIndex,
                   curW, data, calls, log>>

DequeueCount(c) ==
    /\ pc[c] = "count"
    /\ m_count' = (m_count - 1) % CountMod
    /\ Goto(c, "idle")
    /\ UNCHANGED <<m_thequeue, m_writeIndex, m_readIndex, m_maximumReadIndex,
                   curW, curR, data, calls, history>>

-----------------------------------------------------------------------------
Enqueue(p) ==
    \/ EnqueueLoadWrite(p) \/ EnqueueLoadRead(p) \/ EnqueueReserve(p)
    \/ EnqueueStore(p) \/ EnqueueCommit(p) \/ EnqueueCount(p)

Dequeue(c) ==
    \/ DequeueLoadRead(c) \/ DequeueLoadMax(c) \/ DequeueRead(c)
    \/ DequeueClaim(c) \/ DequeueCount(c)

Next ==
    \/ \E p \in Producers : Enqueue(p)
    \/ \E c \in Consumers : Dequeue(c)

Spec == Init /\ [][Next]_vars

\* Every thread the operating system can run is eventually run.
Fairness ==
    /\ \A p \in Producers : WF_vars(Enqueue(p))
    /\ \A c \in Consumers : WF_vars(Dequeue(c))

FairSpec == Spec /\ Fairness

-----------------------------------------------------------------------------
(* Properties *)

\* Nothing is lost, duplicated, reordered or made up: the k-th successful
\* dequeue returns the element of the k-th reservation (the CAS on
\* m_writeIndex), although the slot is read before the CAS on m_readIndex.
ConsumedInReservationOrder ==
    \A i \in 1 .. Len(out) : i <= Len(log) /\ out[i] = log[i]

\* No producer overwrites a published element that has not been consumed,
\* and no slot is published before its element is stored.
PublishedIntact ==
    \A i \in m_readIndex .. m_maximumReadIndex - 1 :
        m_thequeue[countToIndex(i)] = log[i + 1]

\* One slot always stays free: that is what tells a full ring from an empty
\* one, and it holds although the index of the test for fullness is stale
\* by the time of the reserving CAS.
OneSlotFree ==
    /\ m_readIndex <= m_maximumReadIndex
    /\ m_maximumReadIndex <= m_writeIndex
    /\ m_writeIndex - m_readIndex <= QSize - 1

\* m_count may pass below zero while a dequeue overtakes the AtomicAdd of
\* the enqueue it took from, but it is exact whenever no call is under way.
CountExactWhenQuiet ==
    (\A t \in Threads : pc[t] # "count")
        => m_count = (m_maximumReadIndex - m_readIndex) % CountMod

\* Once the producers have made their calls, every reserved slot has been
\* published and consumed, however those that spin on m_maximumReadIndex are
\* scheduled.
EveryElementConsumed == <>[](Len(out) = Len(log))

\* The ring implements the abstract queue: publishing is the CAS on
\* m_maximumReadIndex, receiving the CAS on m_readIndex.
Fifo == INSTANCE FifoQueue WITH
    Items <- Elements,
    queue <- SubSeq(log, m_readIndex + 1, m_maximumReadIndex),
    received <- out

ImplementsFifo == Fifo!Spec
=============================================================================
