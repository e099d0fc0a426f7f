------------------------- MODULE SimpleLockFreeQueue -------------------------
(***************************************************************************)
(* SimpleLockFreeQueue<T> of 7.3cas_queue: a linked queue with compare-    *)
(* and-swap on head and tail, whose nodes are recycled through a lock-free *)
(* free list.                                                              *)
(*                                                                         *)
(* Nodes are named by versioned indices: an index carries the node and a   *)
(* version that grows each time the node is taken from the free list, so   *)
(* that a CAS on a recycled node fails.  The head also carries a consumed  *)
(* flag: the last node stays at the head after its item was taken.         *)
(*                                                                         *)
(* Every access to an atomic and every access to an item is a step; a      *)
(* load whose value only feeds the CAS loop it precedes is merged with the *)
(* CAS.  Executions are sequentially consistent.  The tree of blocks that  *)
(* maps an index to an address is abstracted to the node itself.           *)
(***************************************************************************)
EXTENDS Integers, Sequences, FiniteSets

CONSTANTS
    Producers,      \* threads that call enqueue
    Consumers,      \* threads that call try_dequeue
    MaxCalls,       \* bound: enqueue calls of one producer
    VersionMod      \* versions are kept modulo this (2^24 in the code)

ASSUME CallsAssumption == MaxCalls \in Nat
ASSUME ProducersAssumption == IsFiniteSet(Producers)
\* Versions do not come round: a node is not taken from the free list 2^24 times.
ASSUME VersionAssumption == VersionMod \in Nat /\ Cardinality(Producers) * MaxCalls < VersionMod
ASSUME RolesAssumption == Producers \cap Consumers = {}

VARIABLES
    nextNodeIdx,    \* the next node never used so far
    head, tail, freeListHead,
    next,           \* next[n]: the index stored in node n
    item,           \* item[n]: the item constructed in node n, if any
    pc,
    mine,           \* nodeIdx of a producer, rawHead_ of a consumer
    seen,           \* the last index read: a list head, tail_ or headNode->next
    calls,          \* completed enqueue calls of each producer
    log,            \* history: [idx, item] in the order of the exchanges of tail
    claims,         \* history: indices in the order in which they were claimed
    taken           \* history: the set of [idx, item] moved out

atomics == <<nextNodeIdx, head, tail, freeListHead>>
nodes == <<next, item>>
history == <<log, claims, taken>>
vars == <<nextNodeIdx, head, tail, freeListHead, next, item, pc, mine, seen, calls,
          log, claims, taken>>

Threads == Producers \cup Consumers
MaxNodes == 1 + Cardinality(Producers) * MaxCalls
Nodes == 1 .. MaxNodes
Items == Producers \X (0 .. MaxCalls)
NoItem == <<>>                          \* no object lives in the node

Index == [node : Nodes, ver : 0 .. VersionMod - 1, consumed : BOOLEAN]
Null == [node |-> 0, ver |-> 0, consumed |-> FALSE]

ProducerPC == {"idle", "readNext", "pop", "fresh", "reset", "construct", "exchange", "link"}
ConsumerPC == {"idle", "readNext", "claim", "take", "advance", "takeOld", "push", "pushCAS"}

TypeOK ==
    /\ nextNodeIdx \in 1 .. MaxNodes + 1
    /\ head \in Index
    /\ tail \in Index                      \* head and tail are never null
    /\ freeListHead \in Index \cup {Null}
    /\ next \in [Nodes -> Index \cup {Null}]
    /\ item \in [Nodes -> Items \cup {NoItem}]
    /\ pc \in [Threads -> ProducerPC \cup ConsumerPC]
    /\ mine \in [Threads -> Index \cup {Null}]
    /\ seen \in [Threads -> Index \cup {Null}]
    /\ calls \in [Producers -> 0 .. MaxCalls]
    /\ log \in Seq([idx : Index, item : Items])
    /\ claims \in Seq(Index)
    /\ taken \subseteq [idx : Index, item : Items \cup {NoItem}]

-----------------------------------------------------------------------------
set_consumed_flag(idx) == [idx EXCEPT !.consumed = TRUE]
clear_consumed_flag(idx) == [idx EXCEPT !.consumed = FALSE]

\* Faulty variant: a recycled node keeps its version.
SameVersion(idx) == idx

NextVersion(idx) == [idx EXCEPT !.ver = (@ + 1) % VersionMod]

Goto(t, label) == pc' = [pc EXCEPT ![t] = label]
Remember(t, idx) == mine' = [mine EXCEPT ![t] = idx]
See(t, idx) == seen' = [seen EXCEPT ![t] = idx]

\* The constructor takes the first node for the head, already consumed.
Init ==
    LET initialNode == [node |-> 1, ver |-> 0, consumed |-> FALSE] IN
    /\ nextNodeIdx = 2
    /\ head = set_consumed_flag(initialNode)
    /\ tail = initialNode
    /\ freeListHead = Null
    /\ next = [n \in Nodes |-> Null]
    /\ item = [n \in Nodes |-> NoItem]
    /\ pc = [t \in Threads |-> "idle"]
    /\ mine = [t \in Threads |-> Null]
    /\ seen = [t \in Threads |-> Null]
    /\ calls = [p \in Producers |-> 0]
    /\ log = <<>>
    /\ claims = <<>>
    /\ taken = {}

-----------------------------------------------------------------------------
(* enqueue: allocate_node_for ... *)

\* Where the loop of try_get_node_from_free_list goes with this list head.
PopOrFresh(idx) == IF idx = Null THEN "fresh" ELSE "readNext"

EnqueueLoadFree(p) ==
    /\ pc[p] = "idle"
    /\ calls[p] < MaxCalls
    /\ Remember(p, freeListHead)
    /\ Goto(p, PopOrFresh(freeListHead))
    /\ UNCHANGED <<atomics, nodes, seen, calls, history>>

\* The new value of the CAS is read from the node first; the node may be
\* in use again by then.
EnqueueReadNext(p) ==
    /\ pc[p] = "readNext"
    /\ See(p, next[mine[p].node])
    /\ Goto(p, "pop")
    /\ UNCHANGED <<atomics, nodes, mine, calls, history>>

EnqueuePop(p) ==
    /\ pc[p] = "pop"
    /\ IF freeListHead = mine[p]
         THEN /\ freeListHead' = seen[p]
              /\ Remember(p, NextVersion(mine[p]))
              /\ Goto(p, "reset")
         ELSE /\ Remember(p, freeListHead)
              /\ Goto(p, PopOrFresh(freeListHead))
              /\ UNCHANGED freeListHead
    /\ UNCHANGED <<nextNodeIdx, head, tail, nodes, seen, calls, history>>

EnqueueReset(p) ==
    /\ pc[p] = "reset"
    /\ next' = [next EXCEPT ![mine[p].node] = Null]
    /\ Goto(p, "construct")
    /\ UNCHANGED <<atomics, item, mine, seen, calls, history>>

EnqueueConstruct(p) ==
    /\ pc[p] = "construct"
    /\ item' = [item EXCEPT ![mine[p].node] = <<p, calls[p]>>]
    /\ Goto(p, "exchange")
    /\ UNCHANGED <<atomics, next, mine, seen, calls, history>>

\* new_node_address and the constructor of a node nobody else can see yet.
EnqueueFresh(p) ==
    /\ pc[p] = "fresh"
    /\ nextNodeIdx' = nextNodeIdx + 1
    /\ Remember(p, [node |-> nextNodeIdx, ver |-> 0, consumed |-> FALSE])
    /\ next' = [next EXCEPT ![nextNodeIdx] = Null]
    /\ item' = [item EXCEPT ![nextNodeIdx] = <<p, calls[p]>>]
    /\ Goto(p, "exchange")
    /\ UNCHANGED <<head, tail, freeListHead, seen, calls, history>>

(* ... then the node becomes the tail and is linked to the old tail. *)

EnqueueExchange(p) ==
    /\ pc[p] = "exchange"
    /\ See(p, tail)
    /\ tail' = mine[p]
    /\ log' = Append(log, [idx |-> mine[p], item |-> <<p, calls[p]>>])
    /\ Goto(p, "link")
    /\ UNCHANGED <<nextNodeIdx, head, freeListHead, nodes, mine, calls, claims, taken>>

\* Faulty variant: the node is linked to what is the tail by now.
LinkToNewestTail(p) ==
    /\ pc[p] = "link"
    /\ next' = [next EXCEPT ![tail.node] = mine[p]]
    /\ calls' = [calls EXCEPT ![p] = @ + 1]
    /\ Goto(p, "idle")
    /\ UNCHANGED <<atomics, item, mine, seen, history>>

EnqueueLink(p) ==
    /\ pc[p] = "link"
    /\ next' = [next EXCEPT ![seen[p].node] = mine[p]]
    /\ calls' = [calls EXCEPT ![p] = @ + 1]
    /\ Goto(p, "idle")
    /\ UNCHANGED <<atomics, item, mine, seen, history>>

-----------------------------------------------------------------------------
(* try_dequeue *)

DequeueLoadHead(c) ==
    /\ pc[c] = "idle"
    /\ Remember(c, head)
    /\ Goto(c, "readNext")
    /\ UNCHANGED <<atomics, nodes, seen, calls, history>>

\* next is loaded from the node at the head: without a successor the node
\* can only be consumed in place, and if it already is, try_dequeue fails.
DequeueReadNext(c) ==
    LET nx == next[mine[c].node] IN
    /\ pc[c] = "readNext"
    /\ See(c, nx)
    /\ Goto(c, IF nx # Null THEN "advance"
               ELSE IF mine[c].consumed THEN "idle" ELSE "claim")
    /\ UNCHANGED <<atomics, nodes, mine, calls, history>>

DequeueClaim(c) ==
    /\ pc[c] = "claim"
    /\ IF head = mine[c]
         THEN /\ head' = set_consumed_flag(mine[c])
              /\ claims' = Append(claims, mine[c])
              /\ Goto(c, "take")
         ELSE /\ Goto(c, "idle")
              /\ UNCHANGED <<head, claims>>
    /\ UNCHANGED <<nextNodeIdx, tail, freeListHead, nodes, mine, seen, calls, log, taken>>

\* item = std::move(*headNode->item()); headNode->item()->~T()
MoveItem(c) ==
    /\ taken' = taken \cup {[idx |-> clear_consumed_flag(mine[c]), item |-> item[mine[c].node]]}
    /\ item' = [item EXCEPT ![mine[c].node] = NoItem]

DequeueTake(c) ==
    /\ pc[c] = "take"
    /\ MoveItem(c)
    /\ Goto(c, "idle")
    /\ UNCHANGED <<atomics, next, mine, seen, calls, log, claims>>

\* A head with a successor is replaced by it; its item is this call's unless
\* it was consumed already.
DequeueAdvance(c) ==
    /\ pc[c] = "advance"
    /\ IF head = mine[c]
         THEN /\ head' = seen[c]
              /\ claims' = IF mine[c].consumed THEN claims ELSE Append(claims, mine[c])
              /\ Goto(c, IF mine[c].consumed THEN "push" ELSE "takeOld")
              /\ See(c, freeListHead)
         ELSE /\ Goto(c, "idle")
              /\ UNCHANGED <<head, claims, seen>>
    /\ UNCHANGED <<nextNodeIdx, tail, freeListHead, nodes, mine, calls, log, taken>>

\* Faulty variant: the node is put on the free list before its item is taken.
FreeBeforeTake(c) ==
    /\ pc[c] = "takeOld"
    /\ next' = [next EXCEPT ![mine[c].node] = freeListHead]
    /\ freeListHead' = clear_consumed_flag(mine[c])
    /\ Goto(c, "take")
    /\ UNCHANGED <<nextNodeIdx, head, tail, item, mine, seen, calls, history>>

\* The item is taken, and add_node_to_free_list loads the list head.
DequeueTakeOld(c) ==
    /\ pc[c] = "takeOld"
    /\ MoveItem(c)
    /\ See(c, freeListHead)
    /\ Goto(c, "push")
    /\ UNCHANGED <<atomics, next, mine, calls, log, claims>>

DequeuePush(c) ==
    /\ pc[c] = "push"
    /\ next' = [next EXCEPT ![mine[c].node] = seen[c]]
    /\ Goto(c, "pushCAS")
    /\ UNCHANGED <<atomics, item, mine, seen, calls, history>>

\* The node is on the free list once the CAS succeeds; the call returns or,
\* if the node held no item any more, starts over: idle stands for both.
DequeuePushCAS(c) ==
    /\ pc[c] = "pushCAS"
    /\ IF freeListHead = seen[c]
         THEN /\ freeListHead' = clear_consumed_flag(mine[c])
              /\ Goto(c, "idle")
              /\ UNCHANGED seen
         ELSE /\ See(c, freeListHead)
              /\ Goto(c, "push")
              /\ UNCHANGED freeListHead
    /\ UNCHANGED <<nextNodeIdx, head, tail, nodes, mine, calls, history>>

-----------------------------------------------------------------------------
Enqueue(p) ==
    \/ EnqueueLoadFree(p) \/ EnqueueReadNext(p) \/ EnqueuePop(p) \/ EnqueueReset(p)
    \/ EnqueueConstruct(p) \/ EnqueueFresh(p) \/ EnqueueExchange(p) \/ EnqueueLink(p)

Dequeue(c) ==
    \/ DequeueLoadHead(c) \/ DequeueReadNext(c) \/ DequeueClaim(c) \/ DequeueTake(c)
    \/ DequeueAdvance(c) \/ DequeueTakeOld(c) \/ DequeuePush(c) \/ DequeuePushCAS(c)

Next ==
    \/ \E p \in Producers : Enqueue(p)
    \/ \E c \in Consumers : Dequeue(c)

Spec == Init /\ [][Next]_vars

\* Every thread the operating system can run is eventually run.
FairSpec ==
    /\ Spec
    /\ \A p \in Producers : WF_vars(Enqueue(p))
    /\ \A c \in Consumers : WF_vars(Dequeue(c))

-----------------------------------------------------------------------------
(* Properties *)

\* Items are claimed once each and in the order in which their nodes became
\* the tail, although head and nodes are read before the CAS that claims.
ClaimedInOrder ==
    \A i \in 1 .. Len(claims) : i <= Len(log) /\ claims[i] = log[i].idx

\* A claim yields the very item that was enqueued in the claimed node.
TakenAsEnqueued ==
    \A t \in taken : \E i \in 1 .. Len(log) : log[i] = t

\* The nodes met when following the next indices from an index.
Closed(S) == \A n \in S : next[n] # Null => next[n].node \in S
Follow(start) ==
    {n \in Nodes : \A S \in SUBSET Nodes :
        Closed(S) /\ (start # Null => start.node \in S) => n \in S}

Allocating(t) == pc[t] \in {"reset", "construct"} \/ (t \in Producers /\ pc[t] = "exchange")
Freeing(t) == pc[t] \in {"takeOld", "push", "pushCAS"}

\* A node is never at two places: the queue, the free list, a producer that
\* fills it and a consumer that frees it keep their nodes apart, which is
\* what the versions in the indices are for.
NodesApart ==
    /\ Follow(head) \cap Follow(freeListHead) = {}
    /\ \A t \in Threads : Allocating(t) \/ Freeing(t) =>
          /\ mine[t].node \notin Follow(head) \cup Follow(freeListHead)
          /\ \A u \in Threads \ {t} :
                Allocating(u) \/ Freeing(u) => mine[u].node # mine[t].node

\* Once the producers have made their calls, every enqueued item is claimed.
EveryItemClaimed == <>[](Len(claims) = Len(log))

\* Nodes are kept apart and claimed in the order in which enqueue linked them, and
\* indices stay indices.
NodesSound == TypeOK /\ NodesApart /\ ClaimedInOrder
=============================================================================
