---------------------- MODULE SimpleLockFreeQueueProof ----------------------
(***************************************************************************)
(* For any number of producers and consumers, and calls fewer than there   *)
(* are versions: the nodes of the queue, of the free list and of the       *)
(* threads are kept apart and items are claimed in the order of the        *)
(* enqueues; with one consumer, each claim yields the item enqueued.       *)
(***************************************************************************)
EXTENDS SimpleLockFreeQueue, FiniteSetTheorems, TLAPS

\* The chain: position 0 is the constructor's node, position i that of the i-th
\* exchange of tail.
First == [node |-> 1, ver |-> 0, consumed |-> FALSE]
Chain == 0 .. Len(log)
at == [i \in Chain |-> IF i = 0 THEN First ELSE log[i].idx]
HeadPos == IF head.consumed THEN Len(claims) ELSE Len(claims) + 1
InQueue == HeadPos .. Len(log)

\* Where the nodes are: in the queue, with a thread, or else on the free list.
Used == 1 .. nextNodeIdx - 1
Live == {at[i].node : i \in InQueue}
Owners == {t \in Threads : Allocating(t) \/ Freeing(t)}
Free == {n \in Used : n \notin Live /\ \A t \in Owners : mine[t].node # n}

\* The calls that have got a node.
Filling == {"reset", "construct", "exchange", "link"}
Calls == Producers \X (0 .. MaxCalls - 1)
Begun == {k \in Calls : k[2] < calls[k[1]] \/ (k[2] = calls[k[1]] /\ pc[k[1]] \in Filling)}

\* The same use of the same node, whatever the flag says.
Same(x, y) == x.node = y.node /\ x.ver = y.ver

Roles ==
    /\ \A p \in Producers : pc[p] \in ProducerPC /\ (pc[p] # "idle" => calls[p] < MaxCalls)
    /\ \A c \in Consumers : pc[c] \in ConsumerPC

\* In what follows cur is the version of each node: how often it was taken from
\* the free list.  Each call takes one node.
Counting(cur) ==
    /\ 2 <= nextNodeIdx /\ nextNodeIdx - 2 <= Cardinality(Begun)
    /\ \A n \in Nodes : cur[n] <= Cardinality(Begun) /\ (n \notin Used => cur[n] = 0)

\* No two positions are the same use of a node, and those in the queue are the
\* latest uses of theirs.
ChainSound(cur) ==
    /\ \A i \in Chain : at[i].node \in Used /\ at[i].ver <= cur[at[i].node] /\ ~at[i].consumed
    /\ \A i, j \in Chain : Same(at[i], at[j]) => i = j
    /\ \A i \in InQueue : at[i].ver = cur[at[i].node]

\* The queue is linked from the head to the tail but for links still to be set.
Queue ==
    /\ HeadPos \in Chain
    /\ Same(head, at[HeadPos]) /\ tail = at[Len(log)]
    /\ next[tail.node] = Null
    /\ \A i \in HeadPos .. Len(log) - 1 : next[at[i].node] \in {at[i + 1], Null}

\* The free list stays among the free nodes, and no two indices lead to one node.
Latest(idx, cur) == idx.node \in Free /\ idx.ver = cur[idx.node] /\ ~idx.consumed
FreeList(cur) ==
    /\ freeListHead # Null => Latest(freeListHead, cur)
    /\ \A n \in Free : next[n] # Null => Latest(next[n], cur) /\ next[n].node # freeListHead.node
    /\ \A n, m \in Free : next[n] # Null /\ next[n].node = next[m].node => n = m

\* A thread's node is its own.
Owned(cur) ==
    /\ \A t \in Owners : mine[t].node \in Used \ Live /\ mine[t].ver = cur[mine[t].node]
    /\ \A t, u \in Owners : mine[t].node = mine[u].node => t = u

\* A producer's node was never before in the queue in its present version.
Fills(p, cur) == pc[p] \in {"reset", "construct", "exchange"} =>
    /\ ~mine[p].consumed
    /\ \A i \in Chain : at[i].node = mine[p].node => at[i].ver < cur[mine[p].node]
    /\ pc[p] # "reset" => next[mine[p].node] = Null

\* A link still to be set belongs to a node that cannot have been freed.
Links(p) == pc[p] = "link" =>
    \E i \in HeadPos .. Len(log) - 1 :
        /\ seen[p] = at[i] /\ mine[p] = at[i + 1] /\ next[at[i].node] = Null
        /\ log[i + 1].item = <<p, calls[p]>>

\* A producer's view of the free list is out of date, or its node is still there and
\* still has the successor that was read.
Pops(p, cur) == pc[p] \in {"readNext", "pop"} =>
    /\ mine[p].node \in Used /\ mine[p].ver <= cur[mine[p].node] /\ ~mine[p].consumed
    /\ mine[p].ver = cur[mine[p].node] =>
          mine[p].node \in Free /\ (pc[p] = "pop" => seen[p] = next[mine[p].node])

\* A consumer's view of the head is out of date for ever, or the successor that was
\* read is still the successor.
Views(c) ==
    /\ pc[c] \in {"readNext", "claim", "take", "advance"} => \E i \in 0 .. HeadPos : Same(mine[c], at[i])
    /\ pc[c] = "claim" => ~mine[c].consumed
    /\ pc[c] = "advance" => seen[c] # Null /\ (Same(mine[c], head) => seen[c] = next[head.node])
    /\ pc[c] = "pushCAS" => next[mine[c].node] = seen[c]

ThreadsSound(cur) ==
    /\ \A p \in Producers : Fills(p, cur) /\ Links(p) /\ Pops(p, cur)
    /\ \A c \in Consumers : Views(c)

LinkInv(cur) ==
    /\ TypeOK /\ Roles /\ ClaimedInOrder
    /\ Counting(cur) /\ ChainSound(cur) /\ Queue /\ FreeList(cur) /\ Owned(cur)
    /\ ThreadsSound(cur)

Linked == \E cur \in [Nodes -> Nat] : LinkInv(cur)

-----------------------------------------------------------------------------
(* Indices and counting *)

LEMMA Indices ==
  /\ \A x \in Index : x.node \in Nodes /\ x.ver \in Nat /\ x.ver < VersionMod /\ x.consumed \in BOOLEAN
  /\ Null \notin Index /\ Null.node = 0
  BY VersionAssumption DEF Index, Null, Nodes

LEMMA SameIndex ==
  ASSUME NEW x \in Index, NEW y \in Index, Same(x, y), ~x.consumed, ~y.consumed
  PROVE  x = y
  BY DEF Index, Same

LEMMA Flags ==
  ASSUME NEW x \in Index
  PROVE  /\ set_consumed_flag(x) \in Index /\ Same(set_consumed_flag(x), x)
         /\ set_consumed_flag(x).consumed
         /\ clear_consumed_flag(x) \in Index /\ Same(clear_consumed_flag(x), x)
         /\ ~clear_consumed_flag(x).consumed
  BY DEF Index, set_consumed_flag, clear_consumed_flag, Same

LEMMA Versions ==
  ASSUME NEW x \in Index, x.ver + 1 < VersionMod
  PROVE  /\ NextVersion(x) \in Index /\ NextVersion(x).node = x.node
         /\ NextVersion(x).ver = x.ver + 1 /\ NextVersion(x).consumed = x.consumed
<1>1. x.ver \in Nat /\ (x.ver + 1) % VersionMod = x.ver + 1 /\ x.ver + 1 \in 0 .. VersionMod - 1
  BY Indices, VersionAssumption
<1> QED
  BY <1>1 DEF NextVersion, Index

\* Every node there is comes from the constructor or from a call of its own.
LEMMA Bounds ==
  /\ IsFiniteSet(Calls) /\ Cardinality(Calls) \in Nat
  /\ MaxNodes = Cardinality(Calls) + 1 /\ Cardinality(Calls) < VersionMod
  /\ First \in Index /\ First.node = 1 /\ First.ver = 0 /\ ~First.consumed
<1>1. IsFiniteSet(0 .. MaxCalls - 1) /\ Cardinality(0 .. MaxCalls - 1) = MaxCalls
  BY FS_Interval, CallsAssumption
<1>2. IsFiniteSet(Calls) /\ Cardinality(Calls) = Cardinality(Producers) * Cardinality(0 .. MaxCalls - 1)
  BY <1>1, FS_Product, ProducersAssumption DEF Calls
<1>3. Cardinality(Calls) \in Nat
  BY <1>2, FS_CardinalityType
<1>4. MaxNodes = Cardinality(Calls) + 1 /\ Cardinality(Calls) < VersionMod
  BY <1>1, <1>2, <1>3, VersionAssumption DEF MaxNodes
<1>5. First \in Index /\ First.node = 1 /\ First.ver = 0 /\ ~First.consumed
  BY <1>3, <1>4, VersionAssumption DEF First, Index, Nodes
<1> QED
  BY <1>2, <1>3, <1>4, <1>5

LEMMA BegunCount ==
  /\ IsFiniteSet(Begun) /\ Cardinality(Begun) \in Nat /\ Cardinality(Begun) <= Cardinality(Calls)
<1>1. Begun \in SUBSET Calls
  BY DEF Begun
<1> QED
  BY <1>1, Bounds, FS_Subset, FS_CardinalityType

\* A producer gets a node for the call it makes.
LEMMA BegunGrows ==
  ASSUME NEW p \in Producers, calls \in [Producers -> 0 .. MaxCalls], calls[p] < MaxCalls,
         calls' = calls, pc[p] \notin Filling, pc'[p] \in Filling,
         \A q \in Producers \ {p} : pc'[q] = pc[q]
  PROVE  Begun' = Begun \cup {<<p, calls[p]>>}
<1>1. \A k \in Calls : k[1] \in Producers /\ k = <<k[1], k[2]>>
  BY DEF Calls
<1>2. <<p, calls[p]>> \in Calls
  BY CallsAssumption DEF Calls
<1>3. ASSUME NEW k \in Calls
      PROVE  k \in Begun' <=> k \in Begun \/ k = <<p, calls[p]>>
  <2>1. CASE k[1] = p
    BY <1>1, <2>1 DEF Begun
  <2>2. CASE k[1] # p
    BY <1>1, <2>2 DEF Begun
  <2> QED
    BY <2>1, <2>2
<1>4. Begun \subseteq Calls /\ Begun' \subseteq Calls
  BY DEF Begun
<1> QED
  BY <1>2, <1>3, <1>4

\* A producer without a node has one to come, so there is a node left for it.
LEMMA OneMore ==
  ASSUME NEW p \in Producers, calls \in [Producers -> 0 .. MaxCalls], calls[p] < MaxCalls,
         pc[p] \notin Filling,
         Begun' = Begun \cup {<<p, calls[p]>>}
  PROVE  /\ Cardinality(Begun') = Cardinality(Begun) + 1
         /\ Cardinality(Begun) + 1 <= Cardinality(Calls)
<1> DEFINE k == <<p, calls[p]>>
<1>1. k \in Calls /\ k \notin Begun
  BY CallsAssumption DEF Calls, Begun
<1>2. Cardinality(Begun \cup {k}) = Cardinality(Begun) + 1 /\ IsFiniteSet(Begun \cup {k})
  BY <1>1, BegunCount, FS_AddElement
<1>3. Begun \cup {k} \in SUBSET Calls
  BY <1>1 DEF Begun
<1>4. Cardinality(Begun \cup {k}) <= Cardinality(Calls)
  BY <1>3, Bounds, FS_Subset
<1> QED
  BY <1>2, <1>4

\* The chain consists of indices, and its nodes exist.
LEMMA ChainType ==
  ASSUME TypeOK
  PROVE  /\ Len(log) \in Nat /\ Len(claims) \in Nat /\ HeadPos \in Nat
         /\ \A i \in Chain : at[i] \in Index
         /\ at[0] = First /\ \A i \in 1 .. Len(log) : at[i] = log[i].idx
<1>1. log \in Seq([idx : Index, item : Items]) /\ claims \in Seq(Index) /\ head \in Index
  BY DEF TypeOK
<1>2. Len(log) \in Nat /\ Len(claims) \in Nat
  BY <1>1
<1>3. HeadPos \in Nat
  BY <1>2 DEF HeadPos
<1>4. \A i \in 1 .. Len(log) : log[i].idx \in Index
  <2> DEFINE Entry == [idx : Index, item : Items]
  <2>1. log \in Seq(Entry)
    BY <1>1
  <2>2. \A e \in Entry : e.idx \in Index
    OBVIOUS
  <2> HIDE DEF Entry
  <2> QED
    BY <2>1, <2>2
<1>5. at[0] = First /\ \A i \in 1 .. Len(log) : at[i] = log[i].idx
  BY <1>2 DEF at, Chain
<1>6. \A i \in Chain : i = 0 \/ i \in 1 .. Len(log)
  BY <1>2 DEF Chain
<1> QED
  BY <1>2, <1>3, <1>4, <1>5, <1>6, Bounds

\* What is used, is a node.
LEMMA UsedNodes ==
  ASSUME TypeOK
  PROVE  Used \subseteq Nodes /\ nextNodeIdx \in Nat /\ MaxNodes \in Nat
  BY Bounds DEF Used, Nodes, TypeOK

-----------------------------------------------------------------------------
(* Steps that move no node *)

\* Thread t reads, or writes to a node of its own, and no node changes its place.
Quiet(t) ==
    /\ UNCHANGED <<atomics, calls, log, claims>>
    /\ \A u \in Threads \ {t} : pc'[u] = pc[u] /\ mine'[u] = mine[u] /\ seen'[u] = seen[u]
    /\ Owners' = Owners /\ (t \in Owners => mine'[t] = mine[t])
    /\ pc[t] \in Filling <=> pc'[t] \in Filling
    /\ pc[t] # "link" /\ pc'[t] # "link"
    /\ \A n \in Nodes : next'[n] = next[n] \/ (t \in Owners /\ n = mine[t].node)

LEMMA QuietSets ==
  ASSUME NEW t \in Threads, Quiet(t), TypeOK, Roles
  PROVE  /\ Chain' = Chain /\ at' = at /\ HeadPos' = HeadPos /\ InQueue' = InQueue
         /\ Used' = Used /\ Live' = Live /\ Free' = Free /\ Begun' = Begun
<1> USE DEF Quiet, atomics
<1>1. Chain' = Chain /\ HeadPos' = HeadPos /\ Used' = Used
  BY DEF Chain, HeadPos, Used
<1>2. at' = at
  BY <1>1 DEF at
<1>3. InQueue' = InQueue
  BY <1>1 DEF InQueue
<1>4. Live' = Live
  BY <1>2, <1>3 DEF Live
<1>5. \A u \in Owners : mine'[u] = mine[u]
  BY DEF Owners
<1>6. Free' = Free
  BY <1>1, <1>4, <1>5 DEF Free
<1>7. Begun' = Begun
  <2>1. \A p \in Producers : pc'[p] \in Filling <=> pc[p] \in Filling
    BY DEF Threads
  <2> HIDE DEF Quiet
  <2>2. calls' = calls
    BY DEF Quiet, atomics
  <2>3. \A k \in Calls : k[1] \in Producers
    BY DEF Calls
  <2> QED
    BY <2>1, <2>2, <2>3 DEF Begun
<1> QED
  BY <1>1, <1>2, <1>3, <1>4, <1>6, <1>7

\* What a quiet step leaves to be shown is about t alone.
LEMMA QuietStep ==
  ASSUME NEW cur \in [Nodes -> Nat], NEW t \in Threads, LinkInv(cur), Quiet(t), TypeOK', Roles',
         t \in Producers => (Fills(t, cur) /\ Pops(t, cur))',
         t \in Consumers => Views(t)'
  PROVE  LinkInv(cur)'
<1>0. TypeOK /\ Roles /\ ClaimedInOrder /\ Counting(cur) /\ ChainSound(cur) /\ Queue /\ FreeList(cur) /\ Owned(cur) /\ ThreadsSound(cur)
  BY DEF LinkInv
<1>1. /\ Chain' = Chain /\ at' = at /\ HeadPos' = HeadPos /\ InQueue' = InQueue
      /\ Used' = Used /\ Live' = Live /\ Free' = Free /\ Begun' = Begun
  BY <1>0, QuietSets
<1>2. /\ nextNodeIdx' = nextNodeIdx /\ head' = head /\ tail' = tail /\ freeListHead' = freeListHead
      /\ calls' = calls /\ log' = log /\ claims' = claims /\ Owners' = Owners
  BY DEF Quiet, atomics
<1>3. \A u \in Threads \ {t} : pc'[u] = pc[u] /\ mine'[u] = mine[u] /\ seen'[u] = seen[u]
  BY DEF Quiet
<1>4. \A u \in Owners : mine'[u] = mine[u]
  BY <1>3 DEF Quiet, Owners
<1>5. \A n \in Nodes : next'[n] = next[n] \/ (t \in Owners /\ n = mine[t].node)
  BY DEF Quiet
<1>6. \A n \in Live : next'[n] = next[n]
  <2>1. \A n \in Live : n \in Nodes
    BY <1>0, UsedNodes DEF ChainSound, Live, InQueue, Chain, Queue
  <2> QED
    BY <2>1, <1>0, <1>5 DEF Owned
<1>7. \A n \in Free : next'[n] = next[n]
  BY <1>0, <1>5, UsedNodes DEF Free
<1>8. \A i \in InQueue : at[i].node \in Live
  BY DEF Live
<1>9. /\ Len(log) \in Nat /\ HeadPos \in Nat /\ HeadPos <= Len(log)
      /\ \A i \in HeadPos .. Len(log) - 1 : i \in InQueue /\ i + 1 \in InQueue
      /\ Len(log) \in InQueue /\ HeadPos \in InQueue
  BY <1>0, ChainType DEF Queue, Chain, InQueue
<1>10. ClaimedInOrder'
  BY <1>0, <1>2 DEF ClaimedInOrder
<1>11. Counting(cur)'
  BY <1>0, <1>1, <1>2 DEF Counting
<1>12. ChainSound(cur)'
  BY <1>0, <1>1 DEF ChainSound
<1>13. Queue'
  <2>1. HeadPos' \in Chain' /\ Same(head, at[HeadPos])' /\ (tail = at[Len(log)])'
    BY <1>0, <1>1, <1>2 DEF Queue, Same
  <2>2. next'[tail.node] = Null
    BY <1>0, <1>6, <1>8, <1>9 DEF Queue
  <2>3. ASSUME NEW i \in HeadPos .. Len(log) - 1
        PROVE  next'[at[i].node] \in {at[i + 1], Null}
    BY <1>0, <1>6, <1>8, <1>9, <2>3 DEF Queue
  <2> QED
    BY <2>1, <2>2, <2>3, <1>1, <1>2 DEF Queue
<1>14. FreeList(cur)'
  BY <1>0, <1>1, <1>2, <1>7 DEF FreeList, Latest
<1>15. Owned(cur)'
  BY <1>0, <1>1, <1>2, <1>4 DEF Owned
<1>16. ASSUME NEW p \in Producers, p # t
       PROVE  Fills(p, cur)' /\ Pops(p, cur)'
  <2>1. pc'[p] = pc[p] /\ mine'[p] = mine[p] /\ seen'[p] = seen[p]
    BY <1>3, <1>16 DEF Threads
  <2>2. Fills(p, cur) /\ Pops(p, cur)
    BY <1>0 DEF ThreadsSound
  <2>3. Fills(p, cur)'
    <3>1. pc[p] \in {"reset", "construct", "exchange"} => p \in Owners
      BY DEF Owners, Allocating, Threads
    <3>2. p \in Owners => next'[mine[p].node] = next[mine[p].node]
      BY <1>0, <1>5, <1>16, UsedNodes DEF Owned
    <3> QED
      BY <1>1, <2>1, <2>2, <3>1, <3>2 DEF Fills
  <2>4. Pops(p, cur)'
    BY <1>1, <1>7, <2>1, <2>2 DEF Pops
  <2> QED
    BY <2>3, <2>4
<1>17. ASSUME NEW p \in Producers
       PROVE  Links(p)'
  <2>1. CASE p = t
    BY <2>1 DEF Links, Quiet
  <2>2. CASE p # t
    <3>1. pc'[p] = pc[p] /\ mine'[p] = mine[p] /\ seen'[p] = seen[p]
      BY <1>3, <2>2 DEF Threads
    <3> SUFFICES ASSUME pc[p] = "link"
                 PROVE  Links(p)'
      BY <3>1 DEF Links
    <3>2. PICK i \in HeadPos .. Len(log) - 1 :
            /\ seen[p] = at[i] /\ mine[p] = at[i + 1] /\ next[at[i].node] = Null
            /\ log[i + 1].item = <<p, calls[p]>>
      BY <1>0 DEF ThreadsSound, Links
    <3>3. next'[at[i].node] = Null
      BY <3>2, <1>6, <1>8, <1>9
    <3> QED
      BY <1>1, <1>2, <3>1, <3>2, <3>3 DEF Links
  <2> QED
    BY <2>1, <2>2
<1>18. ASSUME NEW c \in Consumers, c # t
       PROVE  Views(c)'
  <2>1. pc'[c] = pc[c] /\ mine'[c] = mine[c] /\ seen'[c] = seen[c]
    BY <1>3, <1>18 DEF Threads
  <2>2. Views(c)
    BY <1>0 DEF ThreadsSound
  <2>3. next'[head.node] = next[head.node]
    BY <1>0, <1>6, <1>8, <1>9 DEF Queue, Same
  <2>4. pc[c] = "pushCAS" => next'[mine[c].node] = next[mine[c].node]
    <3>1. pc[c] = "pushCAS" => c \in Owners
      BY DEF Owners, Freeing, Threads
    <3> QED
      BY <3>1, <1>0, <1>5, <1>18, UsedNodes DEF Owned
  <2> QED
    BY <1>1, <1>2, <2>1, <2>2, <2>3, <2>4 DEF Views, Same
<1>19. ThreadsSound(cur)'
  BY <1>16, <1>17, <1>18 DEF ThreadsSound
<1> QED
  BY <1>10, <1>11, <1>12, <1>13, <1>14, <1>15, <1>19 DEF LinkInv

\* Who owns a node is seen from where the threads are.
LEMMA OwnerOf ==
  ASSUME TypeOK, Roles
  PROVE  /\ Owners \subseteq Threads
         /\ \A p \in Producers : p \in Owners <=> pc[p] \in {"reset", "construct", "exchange"}
         /\ \A c \in Consumers : c \in Owners <=> pc[c] \in {"takeOld", "push", "pushCAS"}
<1>1. \A p \in Producers : p \in Threads /\ p \notin Consumers
  BY RolesAssumption DEF Threads
<1>2. \A c \in Consumers : c \in Threads /\ c \notin Producers
  BY RolesAssumption DEF Threads
<1>3. \A p \in Producers : pc[p] \in ProducerPC
  BY DEF Roles
<1>4. \A c \in Consumers : pc[c] \in ConsumerPC
  BY DEF Roles
<1>5. ASSUME NEW p \in Producers
      PROVE  p \in Owners <=> pc[p] \in {"reset", "construct", "exchange"}
  BY <1>1, <1>3 DEF Owners, Allocating, Freeing, ProducerPC
<1>6. ASSUME NEW c \in Consumers
      PROVE  c \in Owners <=> pc[c] \in {"takeOld", "push", "pushCAS"}
  BY <1>2, <1>4 DEF Owners, Allocating, Freeing, ConsumerPC
<1> QED
  BY <1>5, <1>6 DEF Owners

LEMMA ProducerMoves ==
  ASSUME TypeOK, Roles, NEW p \in Producers, NEW l \in ProducerPC, Goto(p, l),
         calls' = calls, calls[p] < MaxCalls
  PROVE  /\ Roles' /\ pc' \in [Threads -> ProducerPC \cup ConsumerPC] /\ pc'[p] = l
         /\ \A u \in Threads \ {p} : pc'[u] = pc[u]
         /\ p \in Threads /\ p \notin Consumers
         /\ Owners' = IF l \in {"reset", "construct", "exchange"} THEN Owners \cup {p} ELSE Owners \ {p}
<1>1. p \in Threads /\ p \notin Consumers /\ pc \in [Threads -> ProducerPC \cup ConsumerPC]
  BY RolesAssumption DEF Threads, TypeOK
<1>2. /\ pc' \in [Threads -> ProducerPC \cup ConsumerPC] /\ pc'[p] = l
      /\ \A u \in Threads \ {p} : pc'[u] = pc[u]
  BY <1>1 DEF Goto
<1>3. Roles'
  BY <1>1, <1>2 DEF Roles, Threads
<1>4. \A u \in Threads \ {p} : u \in Owners' <=> u \in Owners
  BY <1>2 DEF Owners, Allocating, Freeing
<1>5. p \in Owners' <=> l \in {"reset", "construct", "exchange"}
  BY <1>1, <1>2 DEF Owners, Allocating, Freeing, ProducerPC
<1>6. Owners \subseteq Threads /\ Owners' \subseteq Threads
  BY DEF Owners
<1> QED
  BY <1>1, <1>2, <1>3, <1>4, <1>5, <1>6

LEMMA ConsumerMoves ==
  ASSUME TypeOK, Roles, NEW c \in Consumers, NEW l \in ConsumerPC, Goto(c, l), calls' = calls
  PROVE  /\ Roles' /\ pc' \in [Threads -> ProducerPC \cup ConsumerPC] /\ pc'[c] = l
         /\ \A u \in Threads \ {c} : pc'[u] = pc[u]
         /\ c \in Threads /\ c \notin Producers
         /\ Owners' = IF l \in {"takeOld", "push", "pushCAS"} THEN Owners \cup {c} ELSE Owners \ {c}
<1>1. c \in Threads /\ c \notin Producers /\ pc \in [Threads -> ProducerPC \cup ConsumerPC]
  BY RolesAssumption DEF Threads, TypeOK
<1>2. /\ pc' \in [Threads -> ProducerPC \cup ConsumerPC] /\ pc'[c] = l
      /\ \A u \in Threads \ {c} : pc'[u] = pc[u]
  BY <1>1 DEF Goto
<1>3. Roles'
  BY <1>1, <1>2 DEF Roles, Threads
<1>4. \A u \in Threads \ {c} : u \in Owners' <=> u \in Owners
  BY <1>2 DEF Owners, Allocating, Freeing
<1>5. c \in Owners' <=> l \in {"takeOld", "push", "pushCAS"}
  BY <1>1, <1>2 DEF Owners, Allocating, Freeing, ConsumerPC
<1>6. Owners \subseteq Threads /\ Owners' \subseteq Threads
  BY DEF Owners
<1> QED
  BY <1>1, <1>2, <1>3, <1>4, <1>5, <1>6

\* A producer looks at the free list.
LEMMA LooksInv ==
  ASSUME NEW cur \in [Nodes -> Nat], LinkInv(cur), NEW p \in Producers,
         pc[p] \in {"idle", "pop"}, calls[p] < MaxCalls,
         Remember(p, freeListHead), Goto(p, PopOrFresh(freeListHead)),
         UNCHANGED <<atomics, nodes, seen, calls, history>>
  PROVE  LinkInv(cur)'
<1>0. TypeOK /\ Roles /\ FreeList(cur)
  BY DEF LinkInv
<1>1. PopOrFresh(freeListHead) \in ProducerPC /\ PopOrFresh(freeListHead) \in {"fresh", "readNext"}
  BY DEF PopOrFresh, ProducerPC
<1>2. /\ calls' = calls /\ next' = next /\ item' = item /\ seen' = seen
      /\ nextNodeIdx' = nextNodeIdx /\ head' = head /\ tail' = tail /\ freeListHead' = freeListHead
      /\ log' = log /\ claims' = claims /\ taken' = taken
  BY DEF atomics, nodes, history
<1>3. /\ Roles' /\ pc' \in [Threads -> ProducerPC \cup ConsumerPC] /\ pc'[p] = PopOrFresh(freeListHead)
      /\ \A u \in Threads \ {p} : pc'[u] = pc[u]
      /\ p \in Threads /\ p \notin Consumers /\ Owners' = Owners \ {p}
  BY <1>0, <1>1, <1>2, ProducerMoves
<1>4. p \notin Owners /\ Owners' = Owners
  BY <1>0, <1>3, OwnerOf
<1>5. TypeOK'
  BY <1>0, <1>2, <1>3 DEF TypeOK, Remember
<1>6. mine'[p] = freeListHead /\ \A u \in Threads \ {p} : mine'[u] = mine[u]
  BY <1>0, <1>3 DEF TypeOK, Remember
<1>7. Quiet(p)
  BY <1>1, <1>2, <1>3, <1>4, <1>6 DEF Quiet, Filling, atomics
<1>8. Fills(p, cur)'
  BY <1>1, <1>3 DEF Fills
<1>9. Pops(p, cur)'
  <2>1. freeListHead # Null => freeListHead.node \in Free /\ freeListHead.ver = cur[freeListHead.node] /\ ~freeListHead.consumed
    BY <1>0 DEF FreeList, Latest
  <2>2. pc'[p] = "readNext" => freeListHead # Null
    BY <1>3 DEF PopOrFresh
  <2>3. Free' = Free /\ Used' = Used /\ Free \subseteq Used
    BY <1>0, <1>3, <1>7, QuietSets DEF Free
  <2>4. freeListHead # Null => freeListHead.ver \in Nat
    BY <1>0, Indices DEF TypeOK
  <2> QED
    BY <1>1, <1>3, <1>6, <2>1, <2>2, <2>3, <2>4 DEF Pops
<1> QED
  BY <1>3, <1>5, <1>7, <1>8, <1>9, QuietStep

LEMMA EnqueueReadNextInv ==
  ASSUME NEW cur \in [Nodes -> Nat], LinkInv(cur), NEW p \in Producers, EnqueueReadNext(p)
  PROVE  LinkInv(cur)'
<1>0. TypeOK /\ Roles /\ ThreadsSound(cur)
  BY DEF LinkInv
<1>1. pc[p] = "readNext" /\ calls[p] < MaxCalls /\ Goto(p, "pop") /\ See(p, next[mine[p].node])
  BY <1>0 DEF EnqueueReadNext, Roles
<1>2. /\ calls' = calls /\ next' = next /\ item' = item /\ mine' = mine
      /\ nextNodeIdx' = nextNodeIdx /\ head' = head /\ tail' = tail /\ freeListHead' = freeListHead
      /\ log' = log /\ claims' = claims /\ taken' = taken
  BY DEF EnqueueReadNext, atomics, nodes, history
<1>3. /\ Roles' /\ pc' \in [Threads -> ProducerPC \cup ConsumerPC] /\ pc'[p] = "pop"
      /\ \A u \in Threads \ {p} : pc'[u] = pc[u]
      /\ p \in Threads /\ p \notin Consumers /\ Owners' = Owners \ {p}
  BY <1>0, <1>1, <1>2, ProducerMoves DEF ProducerPC
<1>4. p \notin Owners /\ Owners' = Owners
  BY <1>0, <1>1, <1>3, OwnerOf
<1>5. Pops(p, cur) /\ mine[p].node \in Used /\ mine[p].node \in Nodes
  BY <1>0, <1>1, UsedNodes DEF ThreadsSound, Pops
<1>6. TypeOK'
  BY <1>0, <1>1, <1>2, <1>3, <1>5 DEF TypeOK, See
<1>7. seen'[p] = next[mine[p].node] /\ \A u \in Threads \ {p} : seen'[u] = seen[u]
  BY <1>0, <1>1, <1>3 DEF TypeOK, See
<1>8. Quiet(p)
  BY <1>1, <1>2, <1>3, <1>4, <1>7 DEF Quiet, Filling, atomics
<1>9. Fills(p, cur)'
  BY <1>3 DEF Fills
<1>10. Pops(p, cur)'
  <2>1. Free' = Free /\ Used' = Used
    BY <1>0, <1>3, <1>8, QuietSets
  <2> QED
    BY <1>1, <1>2, <1>3, <1>5, <1>7, <2>1 DEF Pops
<1> QED
  BY <1>3, <1>6, <1>8, <1>9, <1>10, QuietStep

LEMMA EnqueueResetInv ==
  ASSUME NEW cur \in [Nodes -> Nat], LinkInv(cur), NEW p \in Producers, EnqueueReset(p)
  PROVE  LinkInv(cur)'
<1>0. TypeOK /\ Roles /\ ThreadsSound(cur) /\ Owned(cur)
  BY DEF LinkInv
<1>1. /\ pc[p] = "reset" /\ calls[p] < MaxCalls /\ Goto(p, "construct")
      /\ next' = [next EXCEPT ![mine[p].node] = Null]
  BY <1>0 DEF EnqueueReset, Roles
<1>2. /\ calls' = calls /\ item' = item /\ mine' = mine /\ seen' = seen
      /\ nextNodeIdx' = nextNodeIdx /\ head' = head /\ tail' = tail /\ freeListHead' = freeListHead
      /\ log' = log /\ claims' = claims /\ taken' = taken
  BY DEF EnqueueReset, atomics, history
<1>3. /\ Roles' /\ pc' \in [Threads -> ProducerPC \cup ConsumerPC] /\ pc'[p] = "construct"
      /\ \A u \in Threads \ {p} : pc'[u] = pc[u]
      /\ p \in Threads /\ p \notin Consumers /\ Owners' = Owners \cup {p}
  BY <1>0, <1>1, <1>2, ProducerMoves DEF ProducerPC
<1>4. p \in Owners /\ Owners' = Owners
  BY <1>0, <1>1, <1>3, OwnerOf
<1>5. Fills(p, cur) /\ mine[p].node \in Nodes
  BY <1>0, <1>4, UsedNodes DEF ThreadsSound, Owned
<1>6. TypeOK'
  BY <1>0, <1>1, <1>2, <1>3 DEF TypeOK
<1>7. next'[mine[p].node] = Null /\ \A n \in Nodes : n # mine[p].node => next'[n] = next[n]
  BY <1>0, <1>1, <1>5 DEF TypeOK
<1>8. Quiet(p)
  BY <1>1, <1>2, <1>3, <1>4, <1>7 DEF Quiet, Filling, atomics
<1>9. Fills(p, cur)'
  <2>1. Chain' = Chain /\ at' = at
    BY <1>0, <1>3, <1>8, QuietSets
  <2> QED
    BY <1>1, <1>2, <1>3, <1>5, <1>7, <2>1 DEF Fills
<1>10. Pops(p, cur)'
  BY <1>3 DEF Pops
<1> QED
  BY <1>3, <1>6, <1>8, <1>9, <1>10, QuietStep

LEMMA EnqueueConstructInv ==
  ASSUME NEW cur \in [Nodes -> Nat], LinkInv(cur), NEW p \in Producers, EnqueueConstruct(p)
  PROVE  LinkInv(cur)'
<1>0. TypeOK /\ Roles /\ ThreadsSound(cur)
  BY DEF LinkInv
<1>1. /\ pc[p] = "construct" /\ calls[p] < MaxCalls /\ Goto(p, "exchange")
      /\ item' = [item EXCEPT ![mine[p].node] = <<p, calls[p]>>]
  BY <1>0 DEF EnqueueConstruct, Roles
<1>2. /\ calls' = calls /\ next' = next /\ mine' = mine /\ seen' = seen
      /\ nextNodeIdx' = nextNodeIdx /\ head' = head /\ tail' = tail /\ freeListHead' = freeListHead
      /\ log' = log /\ claims' = claims /\ taken' = taken
  BY DEF EnqueueConstruct, atomics, history
<1>3. /\ Roles' /\ pc' \in [Threads -> ProducerPC \cup ConsumerPC] /\ pc'[p] = "exchange"
      /\ \A u \in Threads \ {p} : pc'[u] = pc[u]
      /\ p \in Threads /\ p \notin Consumers /\ Owners' = Owners \cup {p}
  BY <1>0, <1>1, <1>2, ProducerMoves DEF ProducerPC
<1>4. p \in Owners /\ Owners' = Owners
  BY <1>0, <1>1, <1>3, OwnerOf
<1>5. Fills(p, cur)
  BY <1>0 DEF ThreadsSound
<1>6. TypeOK'
  <2>1. <<p, calls[p]>> \in Items
    BY <1>0 DEF TypeOK, Items
  <2> QED
    BY <1>0, <1>1, <1>2, <1>3, <2>1 DEF TypeOK
<1>7. Quiet(p)
  BY <1>1, <1>2, <1>3, <1>4 DEF Quiet, Filling, atomics
<1>8. Fills(p, cur)'
  <2>1. Chain' = Chain /\ at' = at
    BY <1>0, <1>3, <1>7, QuietSets
  <2> QED
    BY <1>1, <1>2, <1>3, <1>5, <2>1 DEF Fills
<1>9. Pops(p, cur)'
  BY <1>3 DEF Pops
<1> QED
  BY <1>3, <1>6, <1>7, <1>8, <1>9, QuietStep

LEMMA DequeueLoadHeadInv ==
  ASSUME NEW cur \in [Nodes -> Nat], LinkInv(cur), NEW c \in Consumers, DequeueLoadHead(c)
  PROVE  LinkInv(cur)'
<1>0. TypeOK /\ Roles /\ Queue
  BY DEF LinkInv
<1>1. pc[c] = "idle" /\ Goto(c, "readNext") /\ Remember(c, head)
  BY DEF DequeueLoadHead
<1>2. /\ calls' = calls /\ next' = next /\ item' = item /\ seen' = seen
      /\ nextNodeIdx' = nextNodeIdx /\ head' = head /\ tail' = tail /\ freeListHead' = freeListHead
      /\ log' = log /\ claims' = claims /\ taken' = taken
  BY DEF DequeueLoadHead, atomics, nodes, history
<1>3. /\ Roles' /\ pc' \in [Threads -> ProducerPC \cup ConsumerPC] /\ pc'[c] = "readNext"
      /\ \A u \in Threads \ {c} : pc'[u] = pc[u]
      /\ c \in Threads /\ c \notin Producers /\ Owners' = Owners \ {c}
  BY <1>0, <1>1, <1>2, ConsumerMoves DEF ConsumerPC
<1>4. c \notin Owners /\ Owners' = Owners
  BY <1>0, <1>1, <1>3, OwnerOf
<1>5. TypeOK'
  BY <1>0, <1>1, <1>2, <1>3 DEF TypeOK, Remember
<1>6. mine'[c] = head /\ \A u \in Threads \ {c} : mine'[u] = mine[u]
  BY <1>0, <1>1, <1>3 DEF TypeOK, Remember
<1>7. Quiet(c)
  BY <1>1, <1>2, <1>3, <1>4, <1>6 DEF Quiet, Filling, atomics
<1>8. Views(c)'
  <2>1. HeadPos' = HeadPos /\ at' = at
    BY <1>0, <1>3, <1>7, QuietSets
  <2>2. HeadPos \in 0 .. HeadPos /\ Same(head, at[HeadPos])
    BY <1>0, ChainType DEF Queue
  <2> QED
    BY <1>3, <1>6, <2>1, <2>2 DEF Views, Same
<1> QED
  BY <1>3, <1>5, <1>7, <1>8, QuietStep

LEMMA DequeueReadNextInv ==
  ASSUME NEW cur \in [Nodes -> Nat], LinkInv(cur), NEW c \in Consumers, DequeueReadNext(c)
  PROVE  LinkInv(cur)'
<1> DEFINE nx == next[mine[c].node]
           l == IF nx # Null THEN "advance" ELSE IF mine[c].consumed THEN "idle" ELSE "claim"
<1>0. TypeOK /\ Roles /\ Queue /\ ChainSound(cur) /\ ThreadsSound(cur)
  BY DEF LinkInv
<1>1. pc[c] = "readNext" /\ Goto(c, l) /\ See(c, nx)
  BY DEF DequeueReadNext
<1>2. /\ calls' = calls /\ next' = next /\ item' = item /\ mine' = mine
      /\ nextNodeIdx' = nextNodeIdx /\ head' = head /\ tail' = tail /\ freeListHead' = freeListHead
      /\ log' = log /\ claims' = claims /\ taken' = taken
  BY DEF DequeueReadNext, atomics, nodes, history
<1>3. l \in ConsumerPC /\ l \in {"advance", "idle", "claim"}
  BY DEF ConsumerPC
<1>4. /\ l = "advance" => nx # Null
      /\ l = "claim" => ~mine[c].consumed
  OBVIOUS
<1> HIDE DEF l
<1>5. /\ Roles' /\ pc' \in [Threads -> ProducerPC \cup ConsumerPC] /\ pc'[c] = l
      /\ \A u \in Threads \ {c} : pc'[u] = pc[u]
      /\ c \in Threads /\ c \notin Producers /\ Owners' = Owners \ {c}
  BY <1>0, <1>1, <1>2, <1>3, ConsumerMoves
<1>6. c \notin Owners /\ Owners' = Owners
  BY <1>0, <1>1, <1>5, OwnerOf
<1>7. Views(c)
  BY <1>0 DEF ThreadsSound
<1>8. PICK i \in 0 .. HeadPos : Same(mine[c], at[i])
  BY <1>1, <1>7 DEF Views
<1>9. mine[c].node \in Nodes
  <2>1. i \in Chain
    BY <1>0, ChainType DEF Queue, Chain
  <2> QED
    BY <1>0, <1>8, <2>1, UsedNodes DEF ChainSound, Same
<1>10. TypeOK'
  BY <1>0, <1>1, <1>2, <1>5, <1>9 DEF TypeOK, See
<1>11. seen'[c] = nx /\ \A u \in Threads \ {c} : seen'[u] = seen[u]
  BY <1>0, <1>1, <1>5 DEF TypeOK, See
<1>12. Quiet(c)
  BY <1>1, <1>2, <1>3, <1>5, <1>6, <1>11 DEF Quiet, Filling, atomics
<1>13. Views(c)'
  <2>1. HeadPos' = HeadPos /\ at' = at
    BY <1>0, <1>5, <1>12, QuietSets
  <2> QED
    BY <1>2, <1>3, <1>4, <1>5, <1>8, <1>11, <2>1 DEF Views, Same
<1> QED
  BY <1>5, <1>10, <1>12, <1>13, QuietStep

\* A consumer gives up because the head has changed.
LEMMA GivesUpInv ==
  ASSUME NEW cur \in [Nodes -> Nat], LinkInv(cur), NEW c \in Consumers,
         pc[c] \in {"claim", "advance"}, Goto(c, "idle"),
         UNCHANGED <<atomics, nodes, mine, seen, calls, history>>
  PROVE  LinkInv(cur)'
<1>0. TypeOK /\ Roles
  BY DEF LinkInv
<1>1. /\ calls' = calls /\ next' = next /\ item' = item /\ mine' = mine /\ seen' = seen
      /\ nextNodeIdx' = nextNodeIdx /\ head' = head /\ tail' = tail /\ freeListHead' = freeListHead
      /\ log' = log /\ claims' = claims /\ taken' = taken
  BY DEF atomics, nodes, history
<1>2. /\ Roles' /\ pc' \in [Threads -> ProducerPC \cup ConsumerPC] /\ pc'[c] = "idle"
      /\ \A u \in Threads \ {c} : pc'[u] = pc[u]
      /\ c \in Threads /\ c \notin Producers /\ Owners' = Owners \ {c}
  BY <1>0, <1>1, ConsumerMoves DEF ConsumerPC
<1>3. c \notin Owners /\ Owners' = Owners
  BY <1>0, <1>2, OwnerOf
<1>4. TypeOK'
  BY <1>0, <1>1, <1>2 DEF TypeOK
<1>5. Quiet(c)
  BY <1>1, <1>2, <1>3 DEF Quiet, Filling, atomics
<1>6. Views(c)'
  BY <1>2 DEF Views
<1> QED
  BY <1>2, <1>4, <1>5, <1>6, QuietStep

\* A consumer moves the item out.
LEMMA TakesInv ==
  ASSUME NEW cur \in [Nodes -> Nat], LinkInv(cur), NEW c \in Consumers,
         DequeueTake(c) \/ DequeueTakeOld(c)
  PROVE  LinkInv(cur)'
<1> DEFINE l == IF pc[c] = "take" THEN "idle" ELSE "push"
           x == IF pc[c] = "take" THEN seen[c] ELSE freeListHead
<1>0. TypeOK /\ Roles /\ Owned(cur) /\ Queue /\ ChainSound(cur) /\ Views(c)
  BY DEF LinkInv, ThreadsSound
<1>1. c \in Threads /\ pc[c] \in {"take", "takeOld"} /\ Goto(c, l) /\ MoveItem(c)
  BY DEF DequeueTake, DequeueTakeOld, Threads
<1>2. /\ calls' = calls /\ next' = next /\ mine' = mine
      /\ nextNodeIdx' = nextNodeIdx /\ head' = head /\ tail' = tail /\ freeListHead' = freeListHead
      /\ log' = log /\ claims' = claims
  BY DEF DequeueTake, DequeueTakeOld, atomics
<1>3. seen' = [seen EXCEPT ![c] = x]
  BY <1>0, <1>1 DEF DequeueTake, DequeueTakeOld, See, TypeOK
<1>4. x \in Index \cup {Null}
  BY <1>0, <1>1 DEF TypeOK
<1>5. l \in ConsumerPC /\ l \in {"idle", "push"} /\ (l = "push" <=> pc[c] = "takeOld")
  BY <1>1 DEF ConsumerPC
<1> HIDE DEF l, x
<1>6. /\ Roles' /\ pc' \in [Threads -> ProducerPC \cup ConsumerPC] /\ pc'[c] = l
      /\ \A u \in Threads \ {c} : pc'[u] = pc[u]
      /\ c \in Threads /\ c \notin Producers
      /\ Owners' = IF l = "push" THEN Owners \cup {c} ELSE Owners \ {c}
  BY <1>0, <1>1, <1>2, <1>5, ConsumerMoves
<1>7. Owners' = Owners
  BY <1>0, <1>1, <1>5, <1>6, OwnerOf
<1>8. TypeOK'
  <2>1. mine[c].node \in Nodes
    <3>1. CASE pc[c] = "take"
      <4>1. PICK i \in 0 .. HeadPos : Same(mine[c], at[i])
        BY <1>0, <3>1 DEF Views
      <4>2. i \in Chain
        BY <1>0, ChainType DEF Queue, Chain
      <4> QED
        BY <1>0, <4>1, <4>2, UsedNodes DEF ChainSound, Same
    <3>2. CASE pc[c] = "takeOld"
      BY <1>0, <3>2, OwnerOf, UsedNodes DEF Owned
    <3> QED
      BY <1>1, <3>1, <3>2
  <2>2. mine[c] \in Index
    BY <1>0, <1>1, <2>1, Indices DEF TypeOK, Nodes
  <2>3. clear_consumed_flag(mine[c]) \in Index /\ item[mine[c].node] \in Items \cup {NoItem}
    BY <1>0, <2>1, <2>2, Flags DEF TypeOK
  <2>4. taken' \subseteq [idx : Index, item : Items \cup {NoItem}]
    BY <1>0, <1>1, <2>3 DEF TypeOK, MoveItem
  <2>5. item' \in [Nodes -> Items \cup {NoItem}]
    BY <1>0, <1>1 DEF TypeOK, MoveItem
  <2> QED
    BY <1>0, <1>2, <1>3, <1>4, <1>6, <2>4, <2>5 DEF TypeOK
<1>9. \A u \in Threads \ {c} : seen'[u] = seen[u]
  BY <1>0, <1>3, <1>6 DEF TypeOK
<1>10. Quiet(c)
  BY <1>1, <1>2, <1>5, <1>6, <1>7, <1>9 DEF Quiet, Filling, atomics
<1>11. Views(c)'
  BY <1>5, <1>6 DEF Views
<1> QED
  BY <1>6, <1>8, <1>10, <1>11, QuietStep

LEMMA DequeuePushInv ==
  ASSUME NEW cur \in [Nodes -> Nat], LinkInv(cur), NEW c \in Consumers, DequeuePush(c)
  PROVE  LinkInv(cur)'
<1>0. TypeOK /\ Roles /\ Owned(cur)
  BY DEF LinkInv
<1>1. pc[c] = "push" /\ Goto(c, "pushCAS") /\ next' = [next EXCEPT ![mine[c].node] = seen[c]]
  BY DEF DequeuePush
<1>2. /\ calls' = calls /\ item' = item /\ mine' = mine /\ seen' = seen
      /\ nextNodeIdx' = nextNodeIdx /\ head' = head /\ tail' = tail /\ freeListHead' = freeListHead
      /\ log' = log /\ claims' = claims /\ taken' = taken
  BY DEF DequeuePush, atomics, history
<1>3. /\ Roles' /\ pc' \in [Threads -> ProducerPC \cup ConsumerPC] /\ pc'[c] = "pushCAS"
      /\ \A u \in Threads \ {c} : pc'[u] = pc[u]
      /\ c \in Threads /\ c \notin Producers /\ Owners' = Owners \cup {c}
  BY <1>0, <1>1, <1>2, ConsumerMoves DEF ConsumerPC
<1>4. c \in Owners /\ Owners' = Owners
  BY <1>0, <1>1, <1>3, OwnerOf
<1>5. mine[c].node \in Nodes
  BY <1>0, <1>4, UsedNodes DEF Owned
<1>6. TypeOK'
  BY <1>0, <1>1, <1>2, <1>3 DEF TypeOK
<1>7. next'[mine[c].node] = seen[c] /\ \A n \in Nodes : n # mine[c].node => next'[n] = next[n]
  BY <1>0, <1>1, <1>5 DEF TypeOK
<1>8. Quiet(c)
  BY <1>1, <1>2, <1>3, <1>4, <1>7 DEF Quiet, Filling, atomics
<1>9. Views(c)'
  BY <1>2, <1>3, <1>7 DEF Views
<1> QED
  BY <1>3, <1>6, <1>8, <1>9, QuietStep

\* The list head has changed: add_node_to_free_list tries again.
LEMMA RetriesInv ==
  ASSUME NEW cur \in [Nodes -> Nat], LinkInv(cur), NEW c \in Consumers,
         DequeuePushCAS(c), freeListHead # seen[c]
  PROVE  LinkInv(cur)'
<1>0. TypeOK /\ Roles
  BY DEF LinkInv
<1>1. pc[c] = "pushCAS" /\ Goto(c, "push") /\ See(c, freeListHead)
  BY DEF DequeuePushCAS
<1>2. /\ calls' = calls /\ next' = next /\ item' = item /\ mine' = mine
      /\ nextNodeIdx' = nextNodeIdx /\ head' = head /\ tail' = tail /\ freeListHead' = freeListHead
      /\ log' = log /\ claims' = claims /\ taken' = taken
  BY DEF DequeuePushCAS, nodes, history
<1>3. /\ Roles' /\ pc' \in [Threads -> ProducerPC \cup ConsumerPC] /\ pc'[c] = "push"
      /\ \A u \in Threads \ {c} : pc'[u] = pc[u]
      /\ c \in Threads /\ c \notin Producers /\ Owners' = Owners \cup {c}
  BY <1>0, <1>1, <1>2, ConsumerMoves DEF ConsumerPC
<1>4. c \in Owners /\ Owners' = Owners
  BY <1>0, <1>1, <1>3, OwnerOf
<1>5. TypeOK'
  BY <1>0, <1>1, <1>2, <1>3 DEF TypeOK, See
<1>6. \A u \in Threads \ {c} : seen'[u] = seen[u]
  BY <1>0, <1>1, <1>3 DEF TypeOK, See
<1>7. Quiet(c)
  BY <1>1, <1>2, <1>3, <1>4, <1>6 DEF Quiet, Filling, atomics
<1>8. Views(c)'
  BY <1>3 DEF Views
<1> QED
  BY <1>3, <1>5, <1>7, <1>8, QuietStep

-----------------------------------------------------------------------------
(* Steps that move a node *)

\* try_get_node_from_free_list succeeds: the version in the index vouches for the
\* successor that was read before.
LEMMA PopsInv ==
  ASSUME NEW cur \in [Nodes -> Nat], LinkInv(cur), NEW p \in Producers, EnqueuePop(p),
         freeListHead = mine[p]
  PROVE  Linked'
<1> DEFINE n == mine[p].node
<1>a. PICK nw : nw = [cur EXCEPT ![n] = cur[n] + 1]
  OBVIOUS
<1>0. /\ TypeOK /\ Roles /\ ClaimedInOrder /\ Counting(cur) /\ ChainSound(cur) /\ Queue /\ FreeList(cur)
      /\ Owned(cur) /\ ThreadsSound(cur)
  BY DEF LinkInv
<1>1. /\ pc[p] = "pop" /\ calls[p] < MaxCalls /\ Goto(p, "reset") /\ Remember(p, NextVersion(mine[p]))
      /\ freeListHead' = seen[p]
  BY <1>0 DEF EnqueuePop, Roles
<1>2. /\ calls' = calls /\ next' = next /\ item' = item /\ seen' = seen
      /\ nextNodeIdx' = nextNodeIdx /\ head' = head /\ tail' = tail
      /\ log' = log /\ claims' = claims /\ taken' = taken
  BY DEF EnqueuePop, nodes, history
<1>3. /\ Roles' /\ pc' \in [Threads -> ProducerPC \cup ConsumerPC] /\ pc'[p] = "reset"
      /\ \A u \in Threads \ {p} : pc'[u] = pc[u]
      /\ p \in Threads /\ p \notin Consumers /\ Owners' = Owners \cup {p}
  BY <1>0, <1>1, <1>2, ProducerMoves DEF ProducerPC
<1>4. p \notin Owners /\ Owners \subseteq Threads
  BY <1>0, <1>1, OwnerOf
<1>5. mine[p] \in Index /\ n \in Used /\ n \in Nodes
  BY <1>0, <1>1, <1>3, UsedNodes, Indices DEF ThreadsSound, Pops, TypeOK, Nodes
<1>6. n \in Free /\ mine[p].ver = cur[n] /\ ~mine[p].consumed /\ seen[p] = next[n]
  <2>1. mine[p] # Null
    BY <1>5, Indices
  <2>2. mine[p].ver = cur[n] /\ ~mine[p].consumed
    BY <1>0, <2>1 DEF FreeList, Latest
  <2> QED
    BY <1>0, <1>1, <2>2 DEF ThreadsSound, Pops
<1>7. Begun' = Begun \cup {<<p, calls[p]>>}
  <2>1. pc'[p] \in Filling /\ pc[p] \notin Filling /\ \A q \in Producers \ {p} : pc'[q] = pc[q]
    BY <1>1, <1>3 DEF Filling, Threads
  <2> QED
    BY <1>0, <1>1, <1>2, <2>1, BegunGrows DEF TypeOK
<1>8. /\ Cardinality(Begun') = Cardinality(Begun) + 1
      /\ Cardinality(Begun) + 1 <= Cardinality(Calls)
  BY <1>0, <1>1, <1>7, OneMore DEF TypeOK, Filling
<1>9. cur[n] \in Nat /\ cur[n] + 1 < VersionMod
  BY <1>0, <1>5, <1>8, Bounds, BegunCount, VersionAssumption DEF Counting
<1>10. /\ NextVersion(mine[p]) \in Index /\ NextVersion(mine[p]).node = n
       /\ NextVersion(mine[p]).ver = cur[n] + 1 /\ ~NextVersion(mine[p]).consumed
  BY <1>5, <1>6, <1>9, Versions
<1>11. mine'[p] = NextVersion(mine[p]) /\ \A u \in Threads \ {p} : mine'[u] = mine[u]
  BY <1>0, <1>1, <1>3 DEF TypeOK, Remember
<1>12. nw \in [Nodes -> Nat] /\ nw[n] = cur[n] + 1 /\ \A m \in Nodes : m # n => nw[m] = cur[m]
  BY <1>a, <1>5, <1>9
<1>13. Chain' = Chain /\ HeadPos' = HeadPos /\ Used' = Used /\ at' = at /\ InQueue' = InQueue /\ Live' = Live
  BY <1>2 DEF Chain, HeadPos, Used, at, InQueue, Live
<1>14. Free' = Free \ {n}
  <2>1. \A u \in Owners : mine'[u] = mine[u]
    BY <1>4, <1>11
  <2>2. mine'[p].node = n
    BY <1>10, <1>11
  <2> HIDE DEF n
  <2> QED
    BY <1>3, <1>13, <2>1, <2>2 DEF Free
<1>15. TypeOK'
  BY <1>0, <1>1, <1>2, <1>3, <1>10 DEF TypeOK, Remember
<1>16. \A m \in Nodes : cur[m] \in Nat /\ cur[m] <= nw[m]
  BY <1>12
<1>17. Free \subseteq Nodes /\ n \notin Live /\ \A u \in Owners : mine[u].node # n
  BY <1>0, <1>6, UsedNodes DEF Free
<1>18. ClaimedInOrder'
  BY <1>0, <1>2 DEF ClaimedInOrder
<1>19. Counting(nw)'
  <2>1. Cardinality(Begun) \in Nat /\ nextNodeIdx \in Nat
    BY BegunCount, UsedNodes, <1>0
  <2> QED
    BY <1>0, <1>2, <1>5, <1>8, <1>12, <1>13, <2>1 DEF Counting
<1>20. ChainSound(nw)'
  <2>1. \A i \in Chain : at[i].node \in Nodes /\ at[i].ver \in Nat
    BY <1>0, ChainType, Indices
  <2>2. \A i \in InQueue : i \in Chain /\ at[i].node # n
    BY <1>0, <1>17, ChainType DEF InQueue, Chain, Live
  <2> QED
    BY <1>0, <1>12, <1>13, <1>16, <2>1, <2>2 DEF ChainSound
<1>21. Queue'
  BY <1>0, <1>2, <1>13 DEF Queue, Same
<1>22. FreeList(nw)'
  <2>1. \A m \in Free : next[m] \in Index \cup {Null}
    BY <1>0, <1>17 DEF TypeOK
  <2>2. ASSUME NEW m \in Free, next[m] # Null
        PROVE  Latest(next[m], nw)' /\ (m # n => next[m].node # next[n].node)
    <3>1. Latest(next[m], cur) /\ next[m].node # n
      BY <1>0, <2>2 DEF FreeList
    <3>2. m # n => next[m].node # next[n].node
      BY <1>0, <1>6, <2>2 DEF FreeList
    <3> QED
      BY <1>2, <1>12, <1>14, <1>17, <3>1, <3>2 DEF Latest
  <2>3. freeListHead' # Null => Latest(freeListHead, nw)'
    BY <1>1, <1>2, <1>6, <2>2 DEF Latest
  <2> QED
    BY <1>0, <1>1, <1>2, <1>6, <1>14, <2>2, <2>3 DEF FreeList, Latest
<1>23. Owned(nw)'
  <2>1. \A u \in Owners : mine'[u] = mine[u] /\ mine[u].node \in Nodes /\ mine[u].node # n
    BY <1>0, <1>4, <1>11, <1>17, UsedNodes DEF Owned
  <2>2. mine'[p].node = n /\ mine'[p].ver = nw[n] /\ n \in Used \ Live
    BY <1>5, <1>10, <1>11, <1>12, <1>17
  <2>3. \A u \in Owners' : mine'[u].node \in Used \ Live /\ mine'[u].ver = nw[mine'[u].node]
    BY <1>0, <1>3, <1>12, <2>1, <2>2 DEF Owned
  <2>4. \A u, v \in Owners' : mine'[u].node = mine'[v].node => u = v
    BY <1>0, <1>3, <2>1, <2>2 DEF Owned
  <2> QED
    BY <1>13, <2>3, <2>4 DEF Owned
<1>24. ASSUME NEW q \in Producers
       PROVE  Fills(q, nw)' /\ Links(q)' /\ Pops(q, nw)'
  <2>0. Fills(q, cur) /\ Links(q) /\ Pops(q, cur) /\ q \in Threads
    BY <1>0 DEF ThreadsSound, Threads
  <2>1. CASE q = p
    <3>1. \A i \in Chain : at[i].node = n => at[i].ver < nw[n]
      <4>1. \A i \in Chain : at[i].ver \in Nat
        BY <1>0, ChainType, Indices
      <4> QED
        BY <1>0, <1>9, <1>12, <4>1 DEF ChainSound
    <3>2. Fills(q, nw)'
      BY <1>3, <1>10, <1>11, <1>13, <2>1, <3>1 DEF Fills
    <3> QED
      BY <1>3, <2>1, <3>2 DEF Links, Pops
  <2>2. CASE q # p
    <3>1. pc'[q] = pc[q] /\ mine'[q] = mine[q]
      BY <1>3, <1>11, <2>0, <2>2
    <3>2. Fills(q, nw)'
      <4>1. pc[q] \in {"reset", "construct", "exchange"} => mine[q].node \in Nodes /\ mine[q].node # n
        BY <1>0, <1>17, OwnerOf, UsedNodes DEF Owned
      <4> QED
        BY <1>2, <1>12, <1>13, <2>0, <3>1, <4>1 DEF Fills
    <3>3. Links(q)'
      BY <1>2, <1>13, <2>0, <3>1 DEF Links
    <3>4. Pops(q, nw)'
      <4>1. SUFFICES ASSUME pc[q] \in {"readNext", "pop"}
                     PROVE  Pops(q, nw)'
        BY <3>1 DEF Pops
      <4>2. mine[q].node \in Nodes /\ mine[q].ver \in Nat
        BY <1>0, <2>0, <4>1, UsedNodes, Indices DEF TypeOK, Pops, Nodes
      <4>3. CASE mine[q].node = n
        BY <1>9, <1>12, <1>13, <2>0, <3>1, <4>1, <4>2, <4>3 DEF Pops
      <4>4. CASE mine[q].node # n
        BY <1>2, <1>12, <1>13, <1>14, <2>0, <3>1, <4>1, <4>2, <4>4 DEF Pops
      <4> QED
        BY <4>3, <4>4
    <3> QED
      BY <3>2, <3>3, <3>4
  <2> QED
    BY <2>1, <2>2
<1>25. ASSUME NEW c \in Consumers
       PROVE  Views(c)'
  <2>1. Views(c) /\ c \in Threads \ {p}
    BY <1>0, <1>3 DEF ThreadsSound, Threads
  <2>2. pc'[c] = pc[c] /\ mine'[c] = mine[c]
    BY <1>3, <1>11, <2>1
  <2> QED
    BY <1>2, <1>13, <2>1, <2>2 DEF Views, Same
<1>26. LinkInv(nw)'
  BY <1>3, <1>15, <1>18, <1>19, <1>20, <1>21, <1>22, <1>23, <1>24, <1>25 DEF LinkInv, ThreadsSound
<1> QED
  BY <1>12, <1>26 DEF Linked

\* new_node_address: there is a node left, and nobody has an index of it.
LEMMA EnqueueFreshInv ==
  ASSUME NEW cur \in [Nodes -> Nat], LinkInv(cur), NEW p \in Producers, EnqueueFresh(p)
  PROVE  LinkInv(cur)'
<1> DEFINE n == nextNodeIdx
           new == [node |-> n, ver |-> 0, consumed |-> FALSE]
<1>0. /\ TypeOK /\ Roles /\ ClaimedInOrder /\ Counting(cur) /\ ChainSound(cur) /\ Queue /\ FreeList(cur)
      /\ Owned(cur) /\ ThreadsSound(cur)
  BY DEF LinkInv
<1>1. /\ pc[p] = "fresh" /\ calls[p] < MaxCalls /\ Goto(p, "exchange") /\ Remember(p, new)
      /\ next' = [next EXCEPT ![n] = Null] /\ item' = [item EXCEPT ![n] = <<p, calls[p]>>]
      /\ nextNodeIdx' = n + 1
  BY <1>0 DEF EnqueueFresh, Roles
<1>2. /\ calls' = calls /\ seen' = seen /\ head' = head /\ tail' = tail /\ freeListHead' = freeListHead
      /\ log' = log /\ claims' = claims /\ taken' = taken
  BY DEF EnqueueFresh, history
<1>3. /\ Roles' /\ pc' \in [Threads -> ProducerPC \cup ConsumerPC] /\ pc'[p] = "exchange"
      /\ \A u \in Threads \ {p} : pc'[u] = pc[u]
      /\ p \in Threads /\ p \notin Consumers /\ Owners' = Owners \cup {p}
  BY <1>0, <1>1, <1>2, ProducerMoves DEF ProducerPC
<1>4. p \notin Owners /\ Owners \subseteq Threads
  BY <1>0, <1>1, OwnerOf
<1>5. Begun' = Begun \cup {<<p, calls[p]>>}
  <2>1. pc'[p] \in Filling /\ pc[p] \notin Filling /\ \A q \in Producers \ {p} : pc'[q] = pc[q]
    BY <1>1, <1>3 DEF Filling, Threads
  <2> QED
    BY <1>0, <1>1, <1>2, <2>1, BegunGrows DEF TypeOK
<1>6. /\ Cardinality(Begun') = Cardinality(Begun) + 1
      /\ Cardinality(Begun) + 1 <= Cardinality(Calls) /\ Cardinality(Begun) \in Nat
  BY <1>0, <1>1, <1>5, OneMore, BegunCount DEF TypeOK, Filling
<1>7. n \in Nodes /\ n \notin Used /\ n \in Nat /\ n + 1 \in 1 .. MaxNodes + 1
  BY <1>0, <1>6, Bounds, UsedNodes DEF Counting, Nodes, Used
<1>8. cur[n] = 0 /\ new \in Index
  <2>1. 0 \in 0 .. VersionMod - 1
    BY Bounds, VersionAssumption
  <2> QED
    BY <1>0, <1>7, <2>1 DEF Counting, Index
<1>9. new.node = n /\ new.ver = 0 /\ ~new.consumed
  OBVIOUS
<1> HIDE DEF n, new
<1>10. mine'[p] = new /\ \A u \in Threads \ {p} : mine'[u] = mine[u]
  BY <1>0, <1>1, <1>3 DEF TypeOK, Remember
<1>11. Used' = Used \cup {n}
  <2>1. nextNodeIdx' = nextNodeIdx + 1 /\ nextNodeIdx \in Nat /\ 1 <= nextNodeIdx /\ n = nextNodeIdx
    BY <1>0, <1>1, <1>7 DEF n, Counting
  <2> QED
    BY <2>1 DEF Used
<1>12. Chain' = Chain /\ HeadPos' = HeadPos /\ at' = at /\ InQueue' = InQueue /\ Live' = Live
  BY <1>2 DEF Chain, HeadPos, at, InQueue, Live
<1>13. /\ \A i \in Chain : at[i].node \in Used /\ at[i].node # n
       /\ InQueue \subseteq Chain /\ Live \subseteq Used
  BY <1>0, <1>7, ChainType DEF ChainSound, InQueue, Chain, Live
<1>14. Owners' = Owners \cup {p} /\ \A u \in Owners : mine'[u] = mine[u] /\ mine[u].node \in Used
  BY <1>0, <1>3, <1>4, <1>10 DEF Owned
<1>15. Free' = Free
  BY <1>7, <1>9, <1>10, <1>11, <1>12, <1>14 DEF Free
<1>16. next'[n] = Null /\ \A m \in Used : next'[m] = next[m]
  BY <1>0, <1>1, <1>7, UsedNodes DEF TypeOK
<1>17. TypeOK'
  <2>1. <<p, calls[p]>> \in Items
    BY <1>0 DEF TypeOK, Items
  <2> QED
    BY <1>0, <1>1, <1>2, <1>3, <1>7, <1>8, <2>1 DEF TypeOK, Remember
<1>18. ClaimedInOrder'
  BY <1>0, <1>2 DEF ClaimedInOrder
<1>19. Counting(cur)'
  <2>1. /\ nextNodeIdx' = nextNodeIdx + 1 /\ nextNodeIdx \in Nat
        /\ 2 <= nextNodeIdx /\ nextNodeIdx - 2 <= Cardinality(Begun)
    BY <1>0, <1>1, <1>7 DEF n, Counting
  <2>2. \A m \in Nodes : cur[m] \in Nat /\ cur[m] <= Cardinality(Begun) /\ (m \notin Used => cur[m] = 0)
    BY <1>0 DEF Counting
  <2> QED
    BY <1>6, <1>11, <2>1, <2>2 DEF Counting
<1>20. ChainSound(cur)'
  BY <1>0, <1>11, <1>12 DEF ChainSound
<1>21. Queue'
  <2>1. /\ HeadPos \in Chain /\ tail = at[Len(log)] /\ Len(log) \in Chain
        /\ \A i \in HeadPos .. Len(log) - 1 : i \in Chain
    BY <1>0, ChainType DEF Queue, Chain
  <2>2. next'[tail.node] = Null /\ \A i \in HeadPos .. Len(log) - 1 : next'[at[i].node] = next[at[i].node]
    BY <1>0, <1>13, <1>16, <2>1 DEF Queue
  <2> QED
    BY <1>0, <1>2, <1>12, <2>2 DEF Queue, Same
<1>22. FreeList(cur)'
  <2>1. \A m \in Free : next'[m] = next[m]
    BY <1>16 DEF Free
  <2> QED
    BY <1>0, <1>2, <1>15, <2>1 DEF FreeList, Latest
<1>23. Owned(cur)'
  <2>1. mine'[p].node = n /\ mine'[p].ver = cur[n] /\ n \in Used' \ Live
    BY <1>7, <1>8, <1>9, <1>10, <1>11, <1>13
  <2>2. \A u \in Owners' : mine'[u].node \in Used' \ Live /\ mine'[u].ver = cur[mine'[u].node]
    BY <1>0, <1>11, <1>14, <2>1 DEF Owned
  <2>3. \A u, v \in Owners' : mine'[u].node = mine'[v].node => u = v
    BY <1>0, <1>7, <1>14, <2>1 DEF Owned
  <2> QED
    BY <1>12, <2>2, <2>3 DEF Owned
<1>24. ASSUME NEW q \in Producers
       PROVE  Fills(q, cur)' /\ Links(q)' /\ Pops(q, cur)'
  <2>0. Fills(q, cur) /\ Links(q) /\ Pops(q, cur) /\ q \in Threads
    BY <1>0 DEF ThreadsSound, Threads
  <2>1. CASE q = p
    <3>1. Fills(q, cur)'
      BY <1>3, <1>9, <1>10, <1>12, <1>13, <1>16, <2>1 DEF Fills
    <3> QED
      BY <1>3, <2>1, <3>1 DEF Links, Pops
  <2>2. CASE q # p
    <3>1. pc'[q] = pc[q] /\ mine'[q] = mine[q]
      BY <1>3, <1>10, <2>0, <2>2
    <3>2. Fills(q, cur)'
      <4>1. pc[q] \in {"reset", "construct", "exchange"} => mine[q].node \in Used
        BY <1>0, OwnerOf DEF Owned
      <4> QED
        BY <1>12, <1>16, <2>0, <3>1, <4>1 DEF Fills
    <3>3. Links(q)'
      <4>1. \A i \in HeadPos .. Len(log) - 1 : i \in Chain
        BY <1>0, ChainType DEF Queue, Chain
      <4>2. \A i \in HeadPos .. Len(log) - 1 : next'[at[i].node] = next[at[i].node]
        BY <4>1, <1>13, <1>16
      <4> QED
        BY <1>2, <1>12, <2>0, <3>1, <4>2 DEF Links
    <3>4. Pops(q, cur)'
      BY <1>2, <1>11, <1>15, <1>16, <2>0, <3>1 DEF Pops
    <3> QED
      BY <3>2, <3>3, <3>4
  <2> QED
    BY <2>1, <2>2
<1>25. ASSUME NEW c \in Consumers
       PROVE  Views(c)'
  <2>1. Views(c) /\ c \in Threads \ {p}
    BY <1>0, <1>3 DEF ThreadsSound, Threads
  <2>2. pc'[c] = pc[c] /\ mine'[c] = mine[c]
    BY <1>3, <1>10, <2>1
  <2>3. next'[head.node] = next[head.node]
    BY <1>0, <1>13, <1>16 DEF Queue, Same
  <2>4. pc[c] = "pushCAS" => next'[mine[c].node] = next[mine[c].node]
    BY <1>0, <1>16, OwnerOf DEF Owned
  <2> QED
    BY <1>2, <1>12, <2>1, <2>2, <2>3, <2>4 DEF Views, Same
<1> QED
  BY <1>3, <1>17, <1>18, <1>19, <1>20, <1>21, <1>22, <1>23, <1>24, <1>25 DEF LinkInv, ThreadsSound

\* The node becomes the tail.
LEMMA EnqueueExchangeInv ==
  ASSUME NEW cur \in [Nodes -> Nat], LinkInv(cur), NEW p \in Producers, EnqueueExchange(p)
  PROVE  LinkInv(cur)'
<1> DEFINE n == mine[p].node
           e == [idx |-> mine[p], item |-> <<p, calls[p]>>]
<1>0. /\ TypeOK /\ Roles /\ ClaimedInOrder /\ Counting(cur) /\ ChainSound(cur) /\ Queue /\ FreeList(cur)
      /\ Owned(cur) /\ ThreadsSound(cur)
  BY DEF LinkInv
<1>1. /\ pc[p] = "exchange" /\ calls[p] < MaxCalls /\ Goto(p, "link") /\ See(p, tail)
      /\ tail' = mine[p] /\ log' = Append(log, e)
  BY <1>0 DEF EnqueueExchange, Roles
<1>2. /\ calls' = calls /\ next' = next /\ item' = item /\ mine' = mine /\ nextNodeIdx' = nextNodeIdx
      /\ head' = head /\ freeListHead' = freeListHead /\ claims' = claims /\ taken' = taken
  BY DEF EnqueueExchange, nodes
<1>3. /\ Roles' /\ pc' \in [Threads -> ProducerPC \cup ConsumerPC] /\ pc'[p] = "link"
      /\ \A u \in Threads \ {p} : pc'[u] = pc[u]
      /\ p \in Threads /\ p \notin Consumers /\ Owners' = Owners \ {p}
  BY <1>0, <1>1, <1>2, ProducerMoves DEF ProducerPC
<1>4. /\ p \in Owners /\ n \in Used \ Live /\ n \in Nodes /\ mine[p].ver = cur[n] /\ ~mine[p].consumed
      /\ (\A i \in Chain : at[i].node = n => at[i].ver < cur[n]) /\ next[n] = Null
  BY <1>0, <1>1, OwnerOf, UsedNodes DEF Owned, ThreadsSound, Fills
<1>5. mine[p] \in Index /\ e \in [idx : Index, item : Items]
  <2>1. mine[p] \in Index
    BY <1>0, <1>3, <1>4, Indices DEF TypeOK, Nodes
  <2>2. <<p, calls[p]>> \in Items
    BY <1>0 DEF TypeOK, Items
  <2> QED
    BY <2>1, <2>2
<1>6. e.idx = mine[p] /\ e.item = <<p, calls[p]>>
  OBVIOUS
<1> HIDE DEF n, e
<1>7. seen'[p] = tail /\ \A u \in Threads \ {p} : seen'[u] = seen[u]
  BY <1>0, <1>1, <1>3 DEF TypeOK, See
<1>8. /\ Len(log) \in Nat /\ Len(log') = Len(log) + 1 /\ log'[Len(log) + 1] = e
      /\ \A i \in 1 .. Len(log) : log'[i] = log[i]
      /\ log' \in Seq([idx : Index, item : Items])
  BY <1>0, <1>1, <1>5 DEF TypeOK
<1>9. Chain' = Chain \cup {Len(log) + 1} /\ Len(log) + 1 \notin Chain /\ Len(log) \in Chain
  BY <1>8 DEF Chain
<1>10. at'[Len(log) + 1] = mine[p] /\ \A i \in Chain : at'[i] = at[i]
  BY <1>6, <1>8, <1>9 DEF at, Chain
<1>11. HeadPos' = HeadPos /\ HeadPos \in Chain /\ Used' = Used
  BY <1>0, <1>2 DEF HeadPos, Used, Queue
<1>12. InQueue' = InQueue \cup {Len(log) + 1} /\ InQueue \subseteq Chain
  BY <1>8, <1>9, <1>11 DEF InQueue, Chain
<1>13. Live' = Live \cup {n}
  <2>1. mine[p].node = n
    BY DEF n
  <2>2. \A i \in InQueue : at'[i].node = at[i].node
    BY <1>10, <1>12
  <2> QED
    BY <1>10, <1>12, <2>1, <2>2 DEF Live
<1>14. Free' = Free
  <2>1. \A u \in Owners : mine[u].node = n => u = p
    BY <1>0, <1>4 DEF Owned, n
  <2>2. mine[p].node = n
    BY DEF n
  <2> QED
    BY <1>2, <1>3, <1>4, <1>11, <1>13, <2>1, <2>2 DEF Free
<1>15. Begun' = Begun
  <2>1. \A q \in Producers : pc'[q] \in Filling <=> pc[q] \in Filling
    BY <1>1, <1>3 DEF Filling, Threads
  <2>2. \A k \in Calls : k[1] \in Producers
    BY DEF Calls
  <2> QED
    BY <1>2, <2>1, <2>2 DEF Begun
<1>16. TypeOK'
  BY <1>0, <1>1, <1>2, <1>3, <1>5, <1>8 DEF TypeOK, See
<1>17. ClaimedInOrder'
  BY <1>0, <1>2, <1>8, ChainType DEF ClaimedInOrder
<1>18. Counting(cur)'
  BY <1>0, <1>2, <1>11, <1>15 DEF Counting
<1>19. ChainSound(cur)'
  <2>1. mine[p].node = n /\ cur[n] \in Nat
    BY <1>4 DEF n
  <2>2. \A i \in Chain' : at'[i].node \in Used /\ at'[i].ver <= cur[at'[i].node] /\ ~at'[i].consumed
    BY <1>0, <1>4, <1>9, <1>10, <2>1 DEF ChainSound
  <2>3. \A i \in Chain : ~Same(at[i], mine[p]) /\ ~Same(mine[p], at[i])
    BY <1>4, <2>1 DEF Same
  <2>4. ASSUME NEW i \in Chain', NEW j \in Chain', Same(at'[i], at'[j])
        PROVE  i = j
    BY <1>0, <1>9, <1>10, <2>3, <2>4 DEF ChainSound
  <2>5. \A i \in InQueue' : at'[i].ver = cur[at'[i].node]
    BY <1>0, <1>4, <1>10, <1>12, <2>1 DEF ChainSound
  <2> QED
    BY <1>11, <2>2, <2>4, <2>5 DEF ChainSound, Same
<1>20. Queue'
  <2>1. HeadPos' \in Chain' /\ Same(head, at[HeadPos])'
    BY <1>0, <1>2, <1>9, <1>10, <1>11 DEF Queue, Same
  <2>2. tail' = at'[Len(log')] /\ next'[tail'.node] = Null
    BY <1>1, <1>2, <1>4, <1>8, <1>10 DEF n
  <2>3. ASSUME NEW i \in HeadPos .. Len(log') - 1
        PROVE  next'[at'[i].node] \in {at'[i + 1], Null}
    <3>1. i \in Chain /\ at'[i] = at[i] /\ i <= Len(log)
      BY <1>8, <1>10, <1>11 DEF Chain
    <3>2. CASE i = Len(log)
      BY <1>0, <1>2, <3>1, <3>2 DEF Queue
    <3>3. CASE i # Len(log)
      <4>1. i \in HeadPos .. Len(log) - 1 /\ i + 1 \in Chain
        BY <1>8, <1>11, <3>1, <3>3 DEF Chain
      <4> QED
        BY <1>0, <1>2, <1>10, <3>1, <4>1 DEF Queue
    <3> QED
      BY <3>2, <3>3
  <2> QED
    BY <1>11, <2>1, <2>2, <2>3 DEF Queue
<1>21. FreeList(cur)'
  BY <1>0, <1>2, <1>14 DEF FreeList, Latest
<1>22. Owned(cur)'
  <2>1. \A u \in Owners' : u \in Owners /\ mine[u].node # n
    BY <1>0, <1>3, <1>4 DEF Owned, n
  <2> QED
    BY <1>0, <1>2, <1>11, <1>13, <2>1 DEF Owned
<1>23. ASSUME NEW q \in Producers
       PROVE  Fills(q, cur)' /\ Links(q)' /\ Pops(q, cur)'
  <2>0. Fills(q, cur) /\ Links(q) /\ Pops(q, cur) /\ q \in Threads
    BY <1>0 DEF ThreadsSound, Threads
  <2>1. CASE q = p
    <3>1. Len(log) \in HeadPos .. Len(log') - 1
      BY <1>8, <1>11 DEF Chain
    <3>2. seen'[p] = at'[Len(log)] /\ mine'[p] = at'[Len(log) + 1] /\ next'[at'[Len(log)].node] = Null
      BY <1>0, <1>2, <1>7, <1>9, <1>10 DEF Queue
    <3>3. log'[Len(log) + 1].item = <<p, calls'[p]>>
      BY <1>2, <1>6, <1>8
    <3>4. Links(p)'
      BY <1>11, <3>1, <3>2, <3>3 DEF Links
    <3> QED
      BY <1>3, <2>1, <3>4 DEF Fills, Pops
  <2>2. CASE q # p
    <3>1. pc'[q] = pc[q] /\ mine'[q] = mine[q] /\ seen'[q] = seen[q]
      BY <1>2, <1>3, <1>7, <2>0, <2>2
    <3>2. Fills(q, cur)'
      <4>1. pc[q] \in {"reset", "construct", "exchange"} => mine[q].node # n
        BY <1>0, <1>4, <2>2, OwnerOf DEF Owned, n
      <4>2. mine[p].node = n
        BY DEF n
      <4> QED
        BY <1>2, <1>9, <1>10, <2>0, <3>1, <4>1, <4>2 DEF Fills
    <3>3. Links(q)'
      <4>1. SUFFICES ASSUME pc[q] = "link"
                     PROVE  Links(q)'
        BY <3>1 DEF Links
      <4>2. PICK i \in HeadPos .. Len(log) - 1 :
              /\ seen[q] = at[i] /\ mine[q] = at[i + 1] /\ next[at[i].node] = Null
              /\ log[i + 1].item = <<q, calls[q]>>
        BY <2>0, <4>1 DEF Links
      <4>3. /\ i \in Chain /\ i + 1 \in Chain /\ i \in HeadPos .. Len(log') - 1
            /\ i + 1 \in 1 .. Len(log)
        BY <1>8, <1>11 DEF Chain
      <4> QED
        BY <1>2, <1>8, <1>10, <1>11, <3>1, <4>2, <4>3 DEF Links
    <3>4. Pops(q, cur)'
      BY <1>2, <1>11, <1>14, <2>0, <3>1 DEF Pops
    <3> QED
      BY <3>2, <3>3, <3>4
  <2> QED
    BY <2>1, <2>2
<1>24. ASSUME NEW c \in Consumers
       PROVE  Views(c)'
  <2>1. Views(c) /\ c \in Threads \ {p}
    BY <1>0, <1>3 DEF ThreadsSound, Threads
  <2>2. pc'[c] = pc[c] /\ mine'[c] = mine[c] /\ seen'[c] = seen[c]
    BY <1>2, <1>3, <1>7, <2>1
  <2>3. \A i \in 0 .. HeadPos : at'[i] = at[i]
    BY <1>8, <1>10, <1>11 DEF Chain
  <2> QED
    BY <1>2, <1>11, <2>1, <2>2, <2>3 DEF Views, Same
<1> QED
  BY <1>3, <1>16, <1>17, <1>18, <1>19, <1>20, <1>21, <1>22, <1>23, <1>24 DEF LinkInv, ThreadsSound

\* Positions in the queue have nodes of their own.
LEMMA InQueueApart ==
  ASSUME NEW cur \in [Nodes -> Nat], TypeOK, Queue, ChainSound(cur)
  PROVE  /\ \A i, j \in InQueue : at[i].node = at[j].node => i = j
         /\ InQueue \subseteq Chain /\ HeadPos \in InQueue /\ Len(log) \in InQueue
         /\ \A i \in HeadPos .. Len(log) - 1 : i \in InQueue /\ i + 1 \in InQueue
         /\ Live \subseteq Used /\ \A i \in InQueue : at[i].node \in Live
<1>1. /\ InQueue \subseteq Chain /\ HeadPos \in InQueue /\ Len(log) \in InQueue
      /\ \A i \in HeadPos .. Len(log) - 1 : i \in InQueue /\ i + 1 \in InQueue
  BY ChainType DEF Queue, InQueue, Chain
<1>2. \A i, j \in InQueue : at[i].node = at[j].node => i = j
  BY <1>1 DEF ChainSound, Same
<1>3. Live \subseteq Used /\ \A i \in InQueue : at[i].node \in Live
  BY <1>1 DEF Live, ChainSound
<1> QED
  BY <1>1, <1>2, <1>3

\* The old tail gets its successor; it is still in the queue.
LEMMA EnqueueLinkInv ==
  ASSUME NEW cur \in [Nodes -> Nat], LinkInv(cur), NEW p \in Producers, EnqueueLink(p)
  PROVE  LinkInv(cur)'
<1>0. /\ TypeOK /\ Roles /\ ClaimedInOrder /\ Counting(cur) /\ ChainSound(cur) /\ Queue /\ FreeList(cur)
      /\ Owned(cur) /\ ThreadsSound(cur)
  BY DEF LinkInv
<1>1. /\ pc[p] = "link" /\ calls[p] < MaxCalls /\ Goto(p, "idle")
      /\ next' = [next EXCEPT ![seen[p].node] = mine[p]] /\ calls' = [calls EXCEPT ![p] = @ + 1]
  BY <1>0 DEF EnqueueLink, Roles
<1>2. /\ item' = item /\ mine' = mine /\ seen' = seen
      /\ nextNodeIdx' = nextNodeIdx /\ head' = head /\ tail' = tail /\ freeListHead' = freeListHead
      /\ log' = log /\ claims' = claims /\ taken' = taken
  BY DEF EnqueueLink, atomics, history
<1>3. p \in Threads /\ p \notin Consumers /\ calls[p] \in Nat
  BY <1>0, RolesAssumption DEF Threads, TypeOK
<1>4. /\ pc' \in [Threads -> ProducerPC \cup ConsumerPC] /\ pc'[p] = "idle"
      /\ \A u \in Threads \ {p} : pc'[u] = pc[u]
  BY <1>0, <1>1, <1>3 DEF TypeOK, Goto, ProducerPC
<1>5. /\ calls' \in [Producers -> 0 .. MaxCalls] /\ calls'[p] = calls[p] + 1
      /\ \A q \in Producers \ {p} : calls'[q] = calls[q]
  BY <1>0, <1>1, CallsAssumption DEF TypeOK
<1>6. Roles'
  BY <1>0, <1>3, <1>4, <1>5 DEF Roles, Threads, ProducerPC
<1>7. Owners' = Owners
  <2>1. p \notin Owners /\ p \notin Owners'
    BY <1>1, <1>4 DEF Owners, Allocating, Freeing
  <2>2. \A u \in Threads \ {p} : u \in Owners' <=> u \in Owners
    BY <1>4 DEF Owners, Allocating, Freeing
  <2>3. Owners \subseteq Threads /\ Owners' \subseteq Threads
    BY DEF Owners
  <2> QED
    BY <2>1, <2>2, <2>3
<1>8. PICK i \in HeadPos .. Len(log) - 1 :
        /\ seen[p] = at[i] /\ mine[p] = at[i + 1] /\ next[at[i].node] = Null
        /\ log[i + 1].item = <<p, calls[p]>>
  BY <1>0, <1>1 DEF ThreadsSound, Links
<1>9. /\ \A j, k \in InQueue : at[j].node = at[k].node => j = k
      /\ InQueue \subseteq Chain /\ HeadPos \in InQueue /\ Len(log) \in InQueue
      /\ \A j \in HeadPos .. Len(log) - 1 : j \in InQueue /\ j + 1 \in InQueue
      /\ Live \subseteq Used /\ \A j \in InQueue : at[j].node \in Live
  BY <1>0, InQueueApart
<1>10. i \in InQueue /\ at[i].node \in Live /\ at[i].node \in Nodes /\ i # Len(log)
  BY <1>0, <1>9, UsedNodes, ChainType
<1>11. next'[at[i].node] = at[i + 1] /\ \A n \in Nodes : n # at[i].node => next'[n] = next[n]
  BY <1>0, <1>1, <1>8, <1>10 DEF TypeOK
<1>12. /\ Chain' = Chain /\ HeadPos' = HeadPos /\ Used' = Used /\ at' = at /\ InQueue' = InQueue
       /\ Live' = Live /\ Free' = Free
  BY <1>2, <1>7 DEF Chain, HeadPos, Used, at, InQueue, Live, Free
<1>13. Begun' = Begun
  <2>1. \A k \in Calls : k[1] \in Producers /\ k[2] \in Int
    BY DEF Calls
  <2>2. pc[p] \in Filling /\ pc'[p] \notin Filling
    BY <1>1, <1>4 DEF Filling
  <2>3. ASSUME NEW k \in Calls
        PROVE  k \in Begun' <=> k \in Begun
    <3>1. CASE k[1] = p
      BY <1>3, <1>5, <2>1, <2>2, <3>1 DEF Begun
    <3>2. CASE k[1] # p
      BY <1>4, <1>5, <2>1, <3>2 DEF Begun, Threads
    <3> QED
      BY <3>1, <3>2
  <2>4. Begun \subseteq Calls /\ Begun' \subseteq Calls
    BY DEF Begun
  <2> QED
    BY <2>3, <2>4
<1>14. TypeOK'
  <2>1. next' \in [Nodes -> Index \cup {Null}]
    BY <1>0, <1>1, <1>3 DEF TypeOK
  <2> QED
    BY <1>0, <1>2, <1>4, <1>5, <2>1 DEF TypeOK
<1>15. ClaimedInOrder' /\ Counting(cur)' /\ ChainSound(cur)'
  BY <1>0, <1>2, <1>12, <1>13 DEF ClaimedInOrder, Counting, ChainSound
<1>16. \A j \in InQueue : j # i => next'[at[j].node] = next[at[j].node]
  BY <1>0, <1>9, <1>10, <1>11, UsedNodes
<1>17. Queue'
  <2>1. (HeadPos \in Chain)' /\ Same(head, at[HeadPos])' /\ (tail = at[Len(log)])'
    BY <1>0, <1>2, <1>12 DEF Queue, Same
  <2>2. next'[tail.node] = Null
    BY <1>0, <1>9, <1>10, <1>16 DEF Queue
  <2>3. ASSUME NEW j \in HeadPos .. Len(log) - 1
        PROVE  next'[at[j].node] \in {at[j + 1], Null}
    BY <1>0, <1>9, <1>11, <1>16 DEF Queue
  <2> QED
    BY <1>2, <1>12, <2>1, <2>2, <2>3 DEF Queue
<1>18. FreeList(cur)'
  <2>1. \A n \in Free : next'[n] = next[n]
    BY <1>0, <1>10, <1>11, UsedNodes DEF Free
  <2> QED
    BY <1>0, <1>2, <1>12, <2>1 DEF FreeList, Latest
<1>19. Owned(cur)'
  BY <1>0, <1>2, <1>7, <1>12 DEF Owned
<1>20. \A u \in Owners : next'[mine[u].node] = next[mine[u].node]
  BY <1>0, <1>10, <1>11, UsedNodes DEF Owned
<1>21. ASSUME NEW q \in Producers
       PROVE  Fills(q, cur)' /\ Links(q)' /\ Pops(q, cur)'
  <2>0. Fills(q, cur) /\ Links(q) /\ Pops(q, cur) /\ q \in Threads
    BY <1>0 DEF ThreadsSound, Threads
  <2>1. CASE q = p
    BY <1>4, <2>1 DEF Fills, Links, Pops
  <2>2. CASE q # p
    <3>1. pc'[q] = pc[q] /\ calls'[q] = calls[q]
      BY <1>4, <1>5, <2>0, <2>2
    <3>2. Fills(q, cur)'
      <4>1. pc[q] \in {"reset", "construct", "exchange"} => next'[mine[q].node] = next[mine[q].node]
        BY <1>0, <1>20, OwnerOf
      <4> QED
        BY <1>2, <1>12, <2>0, <3>1, <4>1 DEF Fills
    <3>3. Links(q)'
      <4>1. SUFFICES ASSUME pc[q] = "link"
                     PROVE  Links(q)'
        BY <3>1 DEF Links
      <4>2. PICK j \in HeadPos .. Len(log) - 1 :
              /\ seen[q] = at[j] /\ mine[q] = at[j + 1] /\ next[at[j].node] = Null
              /\ log[j + 1].item = <<q, calls[q]>>
        BY <2>0, <4>1 DEF Links
      <4>3. j # i
        BY <1>8, <2>2, <4>2
      <4>4. next'[at[j].node] = Null
        BY <1>9, <1>16, <4>2, <4>3
      <4> QED
        BY <1>2, <1>12, <3>1, <4>2, <4>4 DEF Links
    <3>4. Pops(q, cur)'
      <4>1. mine[q].node \in Free => next'[mine[q].node] = next[mine[q].node]
        BY <1>0, <1>10, <1>11, UsedNodes DEF Free
      <4> QED
        BY <1>2, <1>12, <2>0, <3>1, <4>1 DEF Pops
    <3> QED
      BY <3>2, <3>3, <3>4
  <2> QED
    BY <2>1, <2>2
<1>22. ASSUME NEW c \in Consumers
       PROVE  Views(c)'
  <2>1. Views(c) /\ c \in Threads \ {p} /\ pc'[c] = pc[c]
    BY <1>0, <1>3, <1>4 DEF ThreadsSound, Threads
  <2>2. next[head.node] # Null => next'[head.node] = next[head.node]
    BY <1>0, <1>8, <1>9, <1>16 DEF Queue, Same
  <2>3. pc[c] = "pushCAS" => next'[mine[c].node] = next[mine[c].node]
    BY <1>0, <1>20, OwnerOf
  <2> QED
    BY <1>2, <1>12, <2>1, <2>2, <2>3 DEF Views, Same
<1> QED
  BY <1>6, <1>14, <1>15, <1>17, <1>18, <1>19, <1>21, <1>22 DEF LinkInv, ThreadsSound

\* The item of the last node is claimed in place.
LEMMA ClaimsInv ==
  ASSUME NEW cur \in [Nodes -> Nat], LinkInv(cur), NEW c \in Consumers, DequeueClaim(c), head = mine[c]
  PROVE  LinkInv(cur)'
<1>0. /\ TypeOK /\ Roles /\ ClaimedInOrder /\ Counting(cur) /\ ChainSound(cur) /\ Queue /\ FreeList(cur)
      /\ Owned(cur) /\ ThreadsSound(cur)
  BY DEF LinkInv
<1>1. /\ pc[c] = "claim" /\ Goto(c, "take") /\ head' = set_consumed_flag(head)
      /\ claims' = Append(claims, head)
  BY DEF DequeueClaim
<1>2. /\ calls' = calls /\ next' = next /\ item' = item /\ mine' = mine /\ seen' = seen
      /\ nextNodeIdx' = nextNodeIdx /\ tail' = tail /\ freeListHead' = freeListHead
      /\ log' = log /\ taken' = taken
  BY DEF DequeueClaim, nodes
<1>3. /\ Roles' /\ pc' \in [Threads -> ProducerPC \cup ConsumerPC] /\ pc'[c] = "take"
      /\ \A u \in Threads \ {c} : pc'[u] = pc[u]
      /\ c \in Threads /\ c \notin Producers /\ Owners' = Owners \ {c}
  BY <1>0, <1>1, <1>2, ConsumerMoves DEF ConsumerPC
<1>4. c \notin Owners /\ Owners' = Owners
  BY <1>0, <1>1, <1>3, OwnerOf
<1>5. head \in Index /\ ~head.consumed /\ Views(c)
  BY <1>0, <1>1 DEF TypeOK, ThreadsSound, Views
<1>6. head' \in Index /\ Same(head', head) /\ head'.consumed
  BY <1>1, <1>5, Flags
<1>7. /\ Len(claims) \in Nat /\ Len(claims') = Len(claims) + 1 /\ claims'[Len(claims) + 1] = head
      /\ \A i \in 1 .. Len(claims) : claims'[i] = claims[i]
      /\ claims' \in Seq(Index)
  BY <1>0, <1>1, <1>5 DEF TypeOK
<1>8. HeadPos' = HeadPos /\ HeadPos = Len(claims) + 1
  BY <1>5, <1>6, <1>7 DEF HeadPos
<1>9. Chain' = Chain /\ Used' = Used /\ at' = at
  BY <1>2 DEF Chain, Used, at
<1>10. InQueue' = InQueue /\ Live' = Live
  BY <1>2, <1>8, <1>9 DEF InQueue, Live
<1>11. Free' = Free
  BY <1>2, <1>4, <1>9, <1>10 DEF Free
<1>12. Begun' = Begun
  <2>1. \A q \in Producers : pc'[q] = pc[q]
    BY <1>3 DEF Threads
  <2>2. \A k \in Calls : k[1] \in Producers
    BY DEF Calls
  <2> QED
    BY <1>2, <2>1, <2>2 DEF Begun
<1>13. TypeOK'
  BY <1>0, <1>2, <1>3, <1>6, <1>7 DEF TypeOK
<1>14. ClaimedInOrder'
  <2>1. HeadPos \in Chain /\ at[HeadPos] \in Index /\ ~at[HeadPos].consumed /\ Same(head, at[HeadPos])
    BY <1>0, ChainType DEF Queue, ChainSound
  <2>2. head = at[HeadPos]
    BY <1>5, <2>1, SameIndex
  <2>3. HeadPos \in 1 .. Len(log) /\ Len(log) \in Nat
    BY <1>0, <1>7, <1>8, <2>1, ChainType DEF Chain
  <2>4. head = log[Len(claims) + 1].idx /\ Len(claims) + 1 <= Len(log)
    BY <1>0, <1>8, <2>2, <2>3, ChainType
  <2>5. \A i \in 1 .. Len(claims') : i \in 1 .. Len(claims) \/ i = Len(claims) + 1
    BY <1>7
  <2> QED
    BY <1>0, <1>2, <1>7, <2>4, <2>5 DEF ClaimedInOrder
<1>15. Counting(cur)' /\ ChainSound(cur)'
  BY <1>0, <1>2, <1>9, <1>10, <1>12 DEF Counting, ChainSound
<1>16. Queue'
  BY <1>0, <1>2, <1>6, <1>8, <1>9 DEF Queue, Same
<1>17. FreeList(cur)' /\ Owned(cur)'
  BY <1>0, <1>2, <1>4, <1>9, <1>10, <1>11 DEF FreeList, Latest, Owned
<1>18. ASSUME NEW q \in Producers
       PROVE  Fills(q, cur)' /\ Links(q)' /\ Pops(q, cur)'
  <2>1. Fills(q, cur) /\ Links(q) /\ Pops(q, cur) /\ pc'[q] = pc[q]
    BY <1>0, <1>3 DEF ThreadsSound, Threads
  <2> QED
    BY <1>2, <1>8, <1>9, <1>11, <2>1 DEF Fills, Links, Pops
<1>19. ASSUME NEW d \in Consumers
       PROVE  Views(d)'
  <2>1. Views(d) /\ d \in Threads
    BY <1>0 DEF ThreadsSound, Threads
  <2>2. CASE d = c
    BY <1>1, <1>2, <1>3, <1>5, <1>8, <1>9, <2>2 DEF Views, Same
  <2>3. CASE d # c
    BY <1>2, <1>3, <1>6, <1>8, <1>9, <2>1, <2>3 DEF Views, Same
  <2> QED
    BY <2>2, <2>3
<1> QED
  BY <1>3, <1>13, <1>14, <1>15, <1>16, <1>17, <1>18, <1>19 DEF LinkInv, ThreadsSound

\* The head is replaced by its successor, and its node leaves the queue.
LEMMA AdvancesInv ==
  ASSUME NEW cur \in [Nodes -> Nat], LinkInv(cur), NEW c \in Consumers, DequeueAdvance(c), head = mine[c]
  PROVE  LinkInv(cur)'
<1> DEFINE n == head.node
           l == IF head.consumed THEN "push" ELSE "takeOld"
<1>0. /\ TypeOK /\ Roles /\ ClaimedInOrder /\ Counting(cur) /\ ChainSound(cur) /\ Queue /\ FreeList(cur)
      /\ Owned(cur) /\ ThreadsSound(cur)
  BY DEF LinkInv
<1>1. /\ pc[c] = "advance" /\ Goto(c, l) /\ head' = seen[c] /\ See(c, freeListHead)
      /\ claims' = IF head.consumed THEN claims ELSE Append(claims, head)
  BY DEF DequeueAdvance
<1>2. /\ calls' = calls /\ next' = next /\ item' = item /\ mine' = mine
      /\ nextNodeIdx' = nextNodeIdx /\ tail' = tail /\ freeListHead' = freeListHead
      /\ log' = log /\ taken' = taken
  BY DEF DequeueAdvance, nodes
<1>3. l \in ConsumerPC /\ l \in {"push", "takeOld"}
  BY DEF ConsumerPC
<1> HIDE DEF l
<1>4. /\ Roles' /\ pc' \in [Threads -> ProducerPC \cup ConsumerPC] /\ pc'[c] = l
      /\ \A u \in Threads \ {c} : pc'[u] = pc[u]
      /\ c \in Threads /\ c \notin Producers /\ Owners' = Owners \cup {c}
  BY <1>0, <1>1, <1>2, <1>3, ConsumerMoves
<1>5. c \notin Owners /\ Owners \subseteq Threads
  BY <1>0, <1>1, OwnerOf
<1>6. /\ \A j, k \in InQueue : at[j].node = at[k].node => j = k
      /\ InQueue \subseteq Chain /\ HeadPos \in InQueue /\ Len(log) \in InQueue
      /\ \A j \in HeadPos .. Len(log) - 1 : j \in InQueue /\ j + 1 \in InQueue
      /\ Live \subseteq Used /\ \A j \in InQueue : at[j].node \in Live
  BY <1>0, InQueueApart
<1>7. Len(log) \in Nat /\ HeadPos \in Nat /\ HeadPos <= Len(log) /\ Len(claims) \in Nat
  BY <1>0, ChainType DEF Queue, Chain
<1>8. seen[c] # Null /\ seen[c] = next[n] /\ n = at[HeadPos].node /\ head.ver = at[HeadPos].ver
  BY <1>0, <1>1 DEF ThreadsSound, Views, Queue, Same
<1>9. HeadPos < Len(log) /\ seen[c] = at[HeadPos + 1] /\ HeadPos + 1 \in InQueue
  <2>1. HeadPos # Len(log)
    BY <1>0, <1>8 DEF Queue
  <2>2. HeadPos \in HeadPos .. Len(log) - 1
    BY <1>7, <2>1
  <2> QED
    BY <1>0, <1>6, <1>7, <1>8, <2>1, <2>2 DEF Queue
<1>10. head' = at[HeadPos + 1] /\ head' \in Index /\ ~head'.consumed
  BY <1>0, <1>1, <1>6, <1>9, ChainType DEF ChainSound
<1> HIDE DEF n
<1>11. /\ claims' \in Seq(Index) /\ Len(claims') = HeadPos
       /\ \A i \in 1 .. Len(claims') : claims'[i] = IF i <= Len(claims) THEN claims[i] ELSE head
  <2>1. CASE head.consumed
    BY <1>0, <1>1, <2>1 DEF TypeOK, HeadPos
  <2>2. CASE ~head.consumed
    <3>1. claims' = Append(claims, head) /\ claims \in Seq(Index) /\ head \in Index /\ HeadPos = Len(claims) + 1
      BY <1>0, <1>1, <2>2 DEF TypeOK, HeadPos
    <3> QED
      BY <3>1
  <2> QED
    BY <2>1, <2>2
<1>12. HeadPos' = HeadPos + 1
  BY <1>7, <1>10, <1>11 DEF HeadPos
<1>13. Chain' = Chain /\ Used' = Used /\ at' = at
  BY <1>2 DEF Chain, Used, at
<1>14. InQueue' = InQueue \ {HeadPos}
  BY <1>2, <1>7, <1>12 DEF InQueue
<1>15. Live' = Live \ {n}
  BY <1>6, <1>8, <1>13, <1>14 DEF Live
<1>16. n \in Live /\ n \in Used /\ \A u \in Owners : mine[u].node # n
  BY <1>0, <1>6, <1>8 DEF Owned
<1>17. mine[c].node = n /\ mine[c].ver = cur[n]
  <2>1. mine[c].node = n
    BY DEF n
  <2> QED
    BY <1>0, <1>6, <1>8, <2>1 DEF ChainSound
<1>18. Free' = Free
  BY <1>2, <1>4, <1>13, <1>15, <1>16, <1>17 DEF Free
<1>19. Begun' = Begun
  <2>1. \A q \in Producers : pc'[q] = pc[q]
    BY <1>4 DEF Threads
  <2>2. \A k \in Calls : k[1] \in Producers
    BY DEF Calls
  <2> QED
    BY <1>2, <2>1, <2>2 DEF Begun
<1>20. TypeOK'
  <2>1. seen' \in [Threads -> Index \cup {Null}]
    BY <1>0, <1>1 DEF TypeOK, See
  <2> QED
    BY <1>0, <1>2, <1>4, <1>10, <1>11, <2>1 DEF TypeOK
<1>21. \A u \in Threads \ {c} : seen'[u] = seen[u]
  BY <1>0, <1>1, <1>4 DEF TypeOK, See
<1>22. ClaimedInOrder'
  <2>1. ASSUME NEW i \in 1 .. Len(claims')
        PROVE  i <= Len(log) /\ claims'[i] = log[i].idx
    <3>1. i <= HeadPos /\ i <= Len(log) /\ i \in Nat
      BY <1>7, <1>11
    <3>2. CASE i <= Len(claims)
      BY <1>0, <1>11, <3>1, <3>2 DEF ClaimedInOrder
    <3>3. CASE ~(i <= Len(claims))
      <4>1. i = HeadPos /\ ~head.consumed
        BY <1>7, <3>1, <3>3 DEF HeadPos
      <4>2. at[HeadPos] \in Index /\ head \in Index /\ ~at[HeadPos].consumed /\ Same(head, at[HeadPos])
        BY <1>0, <1>6, ChainType DEF TypeOK, ChainSound, Queue
      <4>3. head = at[HeadPos]
        BY <4>1, <4>2, SameIndex
      <4>4. at[HeadPos] = log[i].idx
        BY <1>0, <1>7, <3>1, <4>1, ChainType
      <4> QED
        BY <1>11, <3>1, <3>3, <4>3, <4>4
    <3> QED
      BY <3>2, <3>3
  <2> QED
    BY <1>2, <2>1 DEF ClaimedInOrder
<1>23. Counting(cur)' /\ ChainSound(cur)'
  BY <1>0, <1>2, <1>13, <1>14, <1>19 DEF Counting, ChainSound
<1>24. Queue'
  <2>1. HeadPos' \in Chain' /\ Same(head, at[HeadPos])'
    BY <1>6, <1>9, <1>10, <1>12, <1>13 DEF Same
  <2>2. \A i \in HeadPos' .. Len(log) - 1 : i \in HeadPos .. Len(log) - 1
    BY <1>7, <1>12
  <2> QED
    BY <1>0, <1>2, <1>13, <2>1, <2>2 DEF Queue
<1>25. FreeList(cur)'
  BY <1>0, <1>2, <1>18 DEF FreeList, Latest
<1>26. Owned(cur)'
  <2>1. \A u \in Owners' : mine[u].node \in Used \ Live' /\ mine[u].ver = cur[mine[u].node]
    BY <1>0, <1>4, <1>15, <1>16, <1>17 DEF Owned
  <2>2. \A u, v \in Owners' : mine[u].node = mine[v].node => u = v
    BY <1>0, <1>4, <1>16, <1>17 DEF Owned
  <2> QED
    BY <1>2, <1>13, <2>1, <2>2 DEF Owned
<1>27. ASSUME NEW q \in Producers
       PROVE  Fills(q, cur)' /\ Links(q)' /\ Pops(q, cur)'
  <2>1. /\ Fills(q, cur) /\ Links(q) /\ Pops(q, cur)
        /\ pc'[q] = pc[q] /\ seen'[q] = seen[q]
    BY <1>0, <1>4, <1>21 DEF ThreadsSound, Threads
  <2>2. Fills(q, cur)' /\ Pops(q, cur)'
    BY <1>2, <1>13, <1>18, <2>1 DEF Fills, Pops
  <2>3. Links(q)'
    <3>1. SUFFICES ASSUME pc[q] = "link"
                   PROVE  Links(q)'
      BY <2>1 DEF Links
    <3>2. PICK j \in HeadPos .. Len(log) - 1 :
            /\ seen[q] = at[j] /\ mine[q] = at[j + 1] /\ next[at[j].node] = Null
            /\ log[j + 1].item = <<q, calls[q]>>
      BY <2>1, <3>1 DEF Links
    <3>3. j # HeadPos
      BY <1>8, <3>2
    <3>4. j \in HeadPos' .. Len(log) - 1
      BY <1>7, <1>12, <3>3
    <3> QED
      BY <1>2, <1>13, <2>1, <3>2, <3>4 DEF Links
  <2> QED
    BY <2>2, <2>3
<1>28. ASSUME NEW d \in Consumers
       PROVE  Views(d)'
  <2>1. Views(d) /\ d \in Threads
    BY <1>0 DEF ThreadsSound, Threads
  <2>2. CASE d = c
    BY <1>3, <1>4, <2>2 DEF Views
  <2>3. CASE d # c
    <3>1. pc'[d] = pc[d] /\ seen'[d] = seen[d]
      BY <1>4, <1>21, <2>1, <2>3
    <3>2. \A i \in 0 .. HeadPos : i \in 0 .. HeadPos'
      BY <1>7, <1>12
    <3>3. pc[d] = "advance" => ~Same(mine[d], head')
      <4>1. SUFFICES ASSUME pc[d] = "advance", Same(mine[d], head')
                     PROVE  FALSE
        OBVIOUS
      <4>2. PICK i \in 0 .. HeadPos : Same(mine[d], at[i])
        BY <2>1, <4>1 DEF Views
      <4>3. i \in Chain /\ HeadPos + 1 \in Chain /\ i # HeadPos + 1
        BY <1>6, <1>7, <1>9 DEF Chain
      <4>4. Same(at[i], at[HeadPos + 1])
        BY <1>10, <4>1, <4>2 DEF Same
      <4> QED
        BY <1>0, <4>3, <4>4 DEF ChainSound
    <3> QED
      BY <1>2, <1>13, <2>1, <3>1, <3>2, <3>3 DEF Views, Same
  <2> QED
    BY <2>2, <2>3
<1> QED
  BY <1>4, <1>20, <1>22, <1>23, <1>24, <1>25, <1>26, <1>27, <1>28 DEF LinkInv, ThreadsSound

\* add_node_to_free_list succeeds.
LEMMA PushesInv ==
  ASSUME NEW cur \in [Nodes -> Nat], LinkInv(cur), NEW c \in Consumers, DequeuePushCAS(c),
         freeListHead = seen[c]
  PROVE  LinkInv(cur)'
<1> DEFINE n == mine[c].node
<1>0. /\ TypeOK /\ Roles /\ ClaimedInOrder /\ Counting(cur) /\ ChainSound(cur) /\ Queue /\ FreeList(cur)
      /\ Owned(cur) /\ ThreadsSound(cur)
  BY DEF LinkInv
<1>1. pc[c] = "pushCAS" /\ Goto(c, "idle") /\ freeListHead' = clear_consumed_flag(mine[c])
  BY DEF DequeuePushCAS
<1>2. /\ calls' = calls /\ next' = next /\ item' = item /\ mine' = mine /\ seen' = seen
      /\ nextNodeIdx' = nextNodeIdx /\ head' = head /\ tail' = tail
      /\ log' = log /\ claims' = claims /\ taken' = taken
  BY DEF DequeuePushCAS, nodes, history
<1>3. /\ Roles' /\ pc' \in [Threads -> ProducerPC \cup ConsumerPC] /\ pc'[c] = "idle"
      /\ \A u \in Threads \ {c} : pc'[u] = pc[u]
      /\ c \in Threads /\ c \notin Producers /\ Owners' = Owners \ {c}
  BY <1>0, <1>1, <1>2, ConsumerMoves DEF ConsumerPC
<1>4. /\ c \in Owners /\ n \in Used \ Live /\ mine[c].ver = cur[n] /\ n \in Nodes
      /\ next[n] = freeListHead
  BY <1>0, <1>1, OwnerOf, UsedNodes DEF Owned, ThreadsSound, Views
<1>5. mine[c] \in Index
  BY <1>0, <1>3, <1>4, Indices DEF TypeOK, Nodes
<1>6. /\ freeListHead' \in Index /\ freeListHead'.node = n /\ freeListHead'.ver = cur[n]
      /\ ~freeListHead'.consumed
  BY <1>1, <1>4, <1>5, Flags DEF Same
<1> HIDE DEF n
<1>7. /\ Chain' = Chain /\ HeadPos' = HeadPos /\ Used' = Used /\ at' = at /\ InQueue' = InQueue
      /\ Live' = Live
  BY <1>2 DEF Chain, HeadPos, Used, at, InQueue, Live
<1>8. mine[c].node = n /\ n \notin Free /\ \A u \in Owners : mine[u].node = n => u = c
  BY <1>0, <1>4 DEF Owned, Free, n
<1>9. Free' = Free \cup {n}
  BY <1>2, <1>3, <1>4, <1>7, <1>8 DEF Free
<1>10. Begun' = Begun
  <2>1. \A q \in Producers : pc'[q] = pc[q]
    BY <1>3 DEF Threads
  <2>2. \A k \in Calls : k[1] \in Producers
    BY DEF Calls
  <2> QED
    BY <1>2, <2>1, <2>2 DEF Begun
<1>11. TypeOK'
  BY <1>0, <1>2, <1>3, <1>6 DEF TypeOK
<1>12. ClaimedInOrder' /\ Counting(cur)' /\ ChainSound(cur)'
  BY <1>0, <1>2, <1>7, <1>10 DEF ClaimedInOrder, Counting, ChainSound
<1>13. Queue'
  BY <1>0, <1>2, <1>7 DEF Queue, Same
<1>14. FreeList(cur)'
  <2>1. freeListHead # Null => Latest(freeListHead, cur)
    BY <1>0 DEF FreeList
  <2>2. Latest(freeListHead, cur)'
    BY <1>6, <1>9 DEF Latest
  <2>3. ASSUME NEW m \in Free', next[m] # Null
        PROVE  Latest(next[m], cur) /\ next[m].node # n
    <3>1. Latest(next[m], cur)
      BY <1>0, <1>4, <1>9, <2>1, <2>3 DEF FreeList
    <3> QED
      BY <1>8, <3>1 DEF Latest
  <2>4. ASSUME NEW m \in Free', NEW k \in Free', next[m] # Null, next[m].node = next[k].node
        PROVE  m = k
    <3>1. CASE m \in Free /\ k \in Free
      BY <1>0, <2>4, <3>1 DEF FreeList
    <3>2. CASE m = n /\ k \in Free
      <4>1. next[m] = freeListHead /\ freeListHead # Null /\ freeListHead.node \in Free
        BY <1>4, <2>1, <2>4, <3>2 DEF Latest
      <4>2. next[k] # Null
        BY <1>0, <2>4, <4>1, Indices, UsedNodes DEF Free, Nodes
      <4> QED
        BY <1>0, <2>4, <3>2, <4>1, <4>2 DEF FreeList
    <3>3. CASE m \in Free /\ k = n
      BY <1>0, <1>4, <2>4, <3>3 DEF FreeList
    <3>4. CASE m = n /\ k = n
      BY <3>4
    <3> QED
      BY <1>9, <3>1, <3>2, <3>3, <3>4
  <2>5. \A m \in Free' : next[m] # Null => Latest(next[m], cur)'
    BY <1>2, <1>9, <2>3 DEF Latest
  <2> QED
    BY <1>2, <1>6, <2>2, <2>3, <2>4, <2>5 DEF FreeList
<1>15. Owned(cur)'
  BY <1>0, <1>2, <1>3, <1>7 DEF Owned
<1>16. ASSUME NEW q \in Producers
       PROVE  Fills(q, cur)' /\ Links(q)' /\ Pops(q, cur)'
  <2>1. Fills(q, cur) /\ Links(q) /\ Pops(q, cur) /\ pc'[q] = pc[q]
    BY <1>0, <1>3 DEF ThreadsSound, Threads
  <2> QED
    BY <1>2, <1>7, <1>9, <2>1 DEF Fills, Links, Pops
<1>17. ASSUME NEW d \in Consumers
       PROVE  Views(d)'
  <2>1. Views(d) /\ d \in Threads
    BY <1>0 DEF ThreadsSound, Threads
  <2>2. CASE d = c
    BY <1>3, <2>2 DEF Views
  <2>3. CASE d # c
    BY <1>2, <1>3, <1>7, <2>1, <2>3 DEF Views, Same
  <2> QED
    BY <2>2, <2>3
<1> QED
  BY <1>3, <1>11, <1>12, <1>13, <1>14, <1>15, <1>16, <1>17 DEF LinkInv, ThreadsSound

-----------------------------------------------------------------------------
(* The theorems *)

LEMMA InitInv == Init => Linked
<1> SUFFICES ASSUME Init PROVE Linked
  OBVIOUS
<1>a. PICK cur : cur = [n \in Nodes |-> 0]
  OBVIOUS
<1>b. cur \in [Nodes -> Nat] /\ \A n \in Nodes : cur[n] = 0
  BY <1>a
<1>1. /\ nextNodeIdx = 2 /\ tail = First /\ head = set_consumed_flag(First) /\ freeListHead = Null
      /\ next = [n \in Nodes |-> Null] /\ item = [n \in Nodes |-> NoItem]
      /\ pc = [t \in Threads |-> "idle"] /\ mine = [t \in Threads |-> Null] /\ seen = [t \in Threads |-> Null]
      /\ calls = [p \in Producers |-> 0] /\ log = <<>> /\ claims = <<>> /\ taken = {}
  BY DEF Init, First
<1>2. /\ head \in Index /\ head.consumed /\ Same(head, First) /\ First \in Index
      /\ First.node = 1 /\ First.ver = 0 /\ ~First.consumed /\ 1 \in Nodes
  BY <1>1, Flags, Bounds, Indices
<1>3. TypeOK
  <2>1. nextNodeIdx \in 1 .. MaxNodes + 1
    BY <1>1, Bounds
  <2>2. /\ calls \in [Producers -> 0 .. MaxCalls] /\ pc \in [Threads -> ProducerPC \cup ConsumerPC]
        /\ mine \in [Threads -> Index \cup {Null}] /\ seen \in [Threads -> Index \cup {Null}]
        /\ next \in [Nodes -> Index \cup {Null}] /\ item \in [Nodes -> Items \cup {NoItem}]
    BY <1>1, CallsAssumption DEF ProducerPC
  <2>3. /\ log \in Seq([idx : Index, item : Items]) /\ claims \in Seq(Index)
        /\ taken \subseteq [idx : Index, item : Items \cup {NoItem}]
    BY <1>1
  <2> QED
    BY <1>1, <1>2, <2>1, <2>2, <2>3 DEF TypeOK
<1>4. Roles
  BY <1>1 DEF Roles, ProducerPC, ConsumerPC, Threads
<1>5. Len(log) = 0 /\ Len(claims) = 0
  BY <1>1
<1>6. Chain = {0} /\ at[0] = First /\ HeadPos = 0 /\ InQueue = {0} /\ Used = {1}
  <2>1. Chain = {0} /\ HeadPos = 0
    BY <1>2, <1>5 DEF Chain, HeadPos
  <2>2. InQueue = {0} /\ Used = {1}
    BY <1>1, <1>5, <2>1 DEF InQueue, Used
  <2> QED
    BY <2>1, <2>2 DEF at
<1>7. Owners = {}
  BY <1>1 DEF Owners, Allocating, Freeing
<1>8. Live = {1} /\ Free = {}
  BY <1>2, <1>6 DEF Live, Free
<1>9. ClaimedInOrder
  BY <1>5 DEF ClaimedInOrder
<1>10. Counting(cur)
  <2>1. Cardinality(Begun) \in Nat
    BY BegunCount
  <2> QED
    BY <1>b, <1>1, <2>1 DEF Counting
<1>11. ChainSound(cur)
  BY <1>b, <1>2, <1>6 DEF ChainSound
<1>12. Queue
  BY <1>1, <1>2, <1>5, <1>6 DEF Queue
<1>13. FreeList(cur) /\ Owned(cur)
  BY <1>1, <1>7, <1>8 DEF FreeList, Owned
<1>14. ThreadsSound(cur)
  BY <1>1 DEF ThreadsSound, Fills, Links, Pops, Views, Threads
<1> QED
  BY <1>b, <1>3, <1>4, <1>9, <1>10, <1>11, <1>12, <1>13, <1>14 DEF Linked, LinkInv

LEMMA EnqueueInv ==
  ASSUME NEW cur \in [Nodes -> Nat], LinkInv(cur), NEW p \in Producers, Enqueue(p)
  PROVE  Linked'
<1>1. CASE EnqueueLoadFree(p)
  BY <1>1, LooksInv DEF EnqueueLoadFree, Linked
<1>2. CASE EnqueueReadNext(p)
  BY <1>2, EnqueueReadNextInv DEF Linked
<1>3. CASE EnqueuePop(p) /\ freeListHead = mine[p]
  BY <1>3, PopsInv
<1>4. CASE EnqueuePop(p) /\ freeListHead # mine[p]
  <2>1. Roles
    BY DEF LinkInv
  <2>2. pc[p] = "pop" /\ calls[p] < MaxCalls
    BY <1>4, <2>1 DEF EnqueuePop, Roles
  <2>3. UNCHANGED <<atomics, nodes, seen, calls, history>>
    BY <1>4 DEF EnqueuePop, atomics, nodes, history
  <2>4. Remember(p, freeListHead) /\ Goto(p, PopOrFresh(freeListHead))
    BY <1>4 DEF EnqueuePop
  <2> QED
    BY <2>2, <2>3, <2>4, LooksInv DEF Linked
<1>5. CASE EnqueueReset(p)
  BY <1>5, EnqueueResetInv DEF Linked
<1>6. CASE EnqueueConstruct(p)
  BY <1>6, EnqueueConstructInv DEF Linked
<1>7. CASE EnqueueFresh(p)
  BY <1>7, EnqueueFreshInv DEF Linked
<1>8. CASE EnqueueExchange(p)
  BY <1>8, EnqueueExchangeInv DEF Linked
<1>9. CASE EnqueueLink(p)
  BY <1>9, EnqueueLinkInv DEF Linked
<1> QED
  BY <1>1, <1>2, <1>3, <1>4, <1>5, <1>6, <1>7, <1>8, <1>9 DEF Enqueue

LEMMA DequeueInv ==
  ASSUME NEW cur \in [Nodes -> Nat], LinkInv(cur), NEW c \in Consumers, Dequeue(c)
  PROVE  LinkInv(cur)'
<1>1. CASE DequeueLoadHead(c)
  BY <1>1, DequeueLoadHeadInv
<1>2. CASE DequeueReadNext(c)
  BY <1>2, DequeueReadNextInv
<1>3. CASE DequeueClaim(c) /\ head = mine[c]
  BY <1>3, ClaimsInv
<1>4. CASE DequeueClaim(c) /\ head # mine[c]
  BY <1>4, GivesUpInv DEF DequeueClaim, atomics, history
<1>5. CASE DequeueTake(c) \/ DequeueTakeOld(c)
  BY <1>5, TakesInv
<1>6. CASE DequeueAdvance(c) /\ head = mine[c]
  BY <1>6, AdvancesInv
<1>7. CASE DequeueAdvance(c) /\ head # mine[c]
  BY <1>7, GivesUpInv DEF DequeueAdvance, atomics, history
<1>8. CASE DequeuePush(c)
  BY <1>8, DequeuePushInv
<1>9. CASE DequeuePushCAS(c)
  BY <1>9, RetriesInv, PushesInv
<1> QED
  BY <1>1, <1>2, <1>3, <1>4, <1>5, <1>6, <1>7, <1>8, <1>9 DEF Dequeue

LEMMA NextInv == Linked /\ [Next]_vars => Linked'
<1> SUFFICES ASSUME Linked, [Next]_vars PROVE Linked'
  OBVIOUS
<1>1. PICK cur \in [Nodes -> Nat] : LinkInv(cur)
  BY DEF Linked
<1>2. CASE \E p \in Producers : Enqueue(p)
  BY <1>1, <1>2, EnqueueInv
<1>3. CASE \E c \in Consumers : Dequeue(c)
  BY <1>1, <1>3, DequeueInv DEF Linked
<1>4. CASE UNCHANGED vars
  <2>1. /\ nextNodeIdx' = nextNodeIdx /\ head' = head /\ tail' = tail /\ freeListHead' = freeListHead
        /\ next' = next /\ item' = item /\ pc' = pc /\ mine' = mine /\ seen' = seen /\ calls' = calls
        /\ log' = log /\ claims' = claims /\ taken' = taken
    BY <1>4 DEF vars
  <2>2. /\ Chain' = Chain /\ HeadPos' = HeadPos /\ Used' = Used /\ at' = at /\ InQueue' = InQueue
        /\ Live' = Live /\ Owners' = Owners /\ Begun' = Begun
    BY <2>1 DEF Chain, HeadPos, Used, at, InQueue, Live, Owners, Allocating, Freeing, Begun
  <2>3. Free' = Free
    BY <2>1, <2>2 DEF Free
  <2>4. TypeOK' /\ Roles' /\ ClaimedInOrder'
    BY <1>1, <2>1 DEF LinkInv, TypeOK, Roles, ClaimedInOrder
  <2>5. Counting(cur)' /\ ChainSound(cur)' /\ Queue'
    BY <1>1, <2>1, <2>2 DEF LinkInv, Counting, ChainSound, Queue, Same
  <2>6. FreeList(cur)' /\ Owned(cur)'
    BY <1>1, <2>1, <2>2, <2>3 DEF LinkInv, FreeList, Latest, Owned
  <2>7. ThreadsSound(cur)'
    BY <1>1, <2>1, <2>2, <2>3 DEF LinkInv, ThreadsSound, Fills, Links, Pops, Views, Same
  <2> QED
    BY <2>4, <2>5, <2>6, <2>7 DEF LinkInv, Linked
<1> QED
  BY <1>2, <1>3, <1>4 DEF Next

\* The inductive invariant: each node is in the queue, with one thread or free, and an
\* index whose version is the node's latest has kept its meaning since it was read.
THEOREM Inductive == Spec => []Linked
<1> QED
  BY InitInv, NextInv, PTL DEF Spec

\* What is followed from an index stays in a closed set that contains its node.
LEMMA FollowIn ==
  ASSUME NEW x, NEW S \in SUBSET Nodes, x # Null => x.node \in S,
         \A n \in S : next[n] # Null => next[n].node \in S
  PROVE  Follow(x) \subseteq S
  BY DEF Follow, Closed

LEMMA LinkedSound == Linked => NodesSound
<1> SUFFICES ASSUME Linked PROVE NodesSound
  OBVIOUS
<1>1. PICK cur \in [Nodes -> Nat] : LinkInv(cur)
  BY DEF Linked
<1>2. /\ TypeOK /\ Roles /\ ClaimedInOrder /\ ChainSound(cur) /\ Queue /\ FreeList(cur) /\ Owned(cur)
  BY <1>1 DEF LinkInv
<1>3. /\ InQueue \subseteq Chain /\ HeadPos \in InQueue
      /\ Live \subseteq Used /\ \A j \in InQueue : at[j].node \in Live
      /\ \A j \in HeadPos .. Len(log) - 1 : j \in InQueue /\ j + 1 \in InQueue
  BY <1>2, InQueueApart
<1>4. Live \in SUBSET Nodes /\ Free \in SUBSET Nodes /\ Live \cap Free = {}
  BY <1>2, <1>3, UsedNodes DEF Free
<1>5. Follow(head) \subseteq Live
  <2>1. head.node \in Live
    BY <1>2, <1>3 DEF Queue, Same
  <2>2. ASSUME NEW n \in Live, next[n] # Null
        PROVE  next[n].node \in Live
    <3>1. PICK i \in InQueue : n = at[i].node
      BY DEF Live
    <3>2. i # Len(log)
      BY <1>2, <2>2, <3>1 DEF Queue
    <3>3. i \in HeadPos .. Len(log) - 1
      BY <1>2, <3>2, ChainType DEF InQueue
    <3>4. next[n] = at[i + 1]
      BY <1>2, <2>2, <3>1, <3>3 DEF Queue
    <3> QED
      BY <1>3, <3>3, <3>4
  <2> QED
    BY <1>4, <2>1, <2>2, FollowIn
<1>6. Follow(freeListHead) \subseteq Free
  BY <1>2, <1>4, FollowIn DEF FreeList, Latest
<1>7. NodesApart
  <2>1. \A t \in Threads : Allocating(t) \/ Freeing(t) => t \in Owners
    BY DEF Owners
  <2>2. \A t \in Owners : mine[t].node \notin Live /\ mine[t].node \notin Free
    BY <1>2 DEF Owned, Free
  <2> QED
    BY <1>2, <1>4, <1>5, <1>6, <2>1, <2>2 DEF NodesApart, Owned
<1> QED
  BY <1>2, <1>7 DEF NodesSound

\* NodesSound: a node is never at two places and items are claimed in the order of the
\* exchanges of tail, for any number of threads.
THEOREM Sound == Spec => []NodesSound
<1> QED
  BY Inductive, LinkedSound, PTL

-----------------------------------------------------------------------------
(* One consumer *)

\* An item stays in its node until the consumer that claimed it has moved it out: with
\* one consumer there is no other claim before that.
Contents ==
    /\ \A i \in Len(claims) + 1 .. Len(log) : item[at[i].node] = log[i].item
    /\ \A p \in Producers : pc[p] = "exchange" => item[mine[p].node] = <<p, calls[p]>>
    /\ \A c \in Consumers : pc[c] \in {"take", "takeOld"} =>
          /\ Len(claims) > 0 /\ mine[c] = at[Len(claims)]
          /\ item[mine[c].node] = log[Len(claims)].item
          /\ pc[c] = "take" => head.consumed
    /\ TakenAsEnqueued

\* A step that leaves items, claims and whoever holds an item alone.
LEMMA ContentsKept ==
  ASSUME Contents, item' = item, log' = log, claims' = claims, head' = head, taken' = taken,
         \A p \in Producers : pc'[p] = "exchange" =>
            pc[p] = "exchange" /\ mine'[p] = mine[p] /\ calls'[p] = calls[p],
         \A c \in Consumers : pc'[c] \in {"take", "takeOld"} => pc'[c] = pc[c] /\ mine'[c] = mine[c]
  PROVE  Contents'
<1>1. at' = at
  BY DEF at, Chain
<1>2. TakenAsEnqueued'
  BY DEF Contents, TakenAsEnqueued
<1>3. \A i \in Len(claims) + 1 .. Len(log) : item'[at'[i].node] = log'[i].item
  BY <1>1 DEF Contents
<1>4. \A p \in Producers : pc'[p] = "exchange" => item'[mine'[p].node] = <<p, calls'[p]>>
  BY DEF Contents
<1>5. ASSUME NEW c \in Consumers, pc'[c] \in {"take", "takeOld"}
      PROVE  /\ Len(claims) > 0 /\ mine'[c] = at'[Len(claims)]
             /\ item'[mine'[c].node] = log'[Len(claims)].item
             /\ pc'[c] = "take" => head'.consumed
  BY <1>1, <1>5 DEF Contents
<1> QED
  BY <1>2, <1>3, <1>4, <1>5 DEF Contents

\* Unclaimed positions are in the queue; what was claimed is in the chain.
LEMMA Unclaimed ==
  ASSUME NEW cur \in [Nodes -> Nat], LinkInv(cur)
  PROVE  /\ Len(claims) \in Nat /\ Len(log) \in Nat /\ Len(claims) <= Len(log)
         /\ \A i \in Len(claims) + 1 .. Len(log) : i \in InQueue /\ i \in 1 .. Len(log)
         /\ head.consumed => Len(claims) \in InQueue /\ HeadPos = Len(claims)
<1>1. TypeOK /\ Queue /\ ClaimedInOrder
  BY DEF LinkInv
<1>2. Len(claims) \in Nat /\ Len(log) \in Nat /\ HeadPos \in Nat
  BY <1>1, ChainType
<1>3. HeadPos <= Len(log) /\ Len(claims) <= HeadPos /\ HeadPos <= Len(claims) + 1
  BY <1>1, <1>2 DEF Queue, Chain, HeadPos
<1> QED
  BY <1>2, <1>3 DEF InQueue, HeadPos

\* A node that a thread writes an item to, or moves the item out of, is nobody else's.
LEMMA WrittenAlone ==
  ASSUME NEW cur \in [Nodes -> Nat], LinkInv(cur), Contents, NEW t \in Owners, NEW n, n = mine[t].node
  PROVE  /\ n \in Nodes
         /\ \A i \in Len(claims) + 1 .. Len(log) : at[i].node # n /\ at[i].node \in Nodes
         /\ \A p \in Producers \ {t} : pc[p] = "exchange" => mine[p].node # n /\ mine[p].node \in Nodes
         /\ \A c \in Consumers \ {t} : pc[c] \in {"take", "takeOld"} =>
               mine[c].node # n /\ mine[c].node \in Nodes
<1>1. TypeOK /\ Roles /\ Queue /\ ChainSound(cur) /\ Owned(cur)
  BY DEF LinkInv
<1>2. n \in Used \ Live /\ n \in Nodes
  BY <1>1, UsedNodes DEF Owned
<1>3. Live \subseteq Used /\ \A j \in InQueue : at[j].node \in Live
  BY <1>1, InQueueApart
<1>4. \A i \in Len(claims) + 1 .. Len(log) : at[i].node # n /\ at[i].node \in Nodes
  BY <1>1, <1>2, <1>3, Unclaimed, UsedNodes
<1>5. ASSUME NEW p \in Producers \ {t}, pc[p] = "exchange"
      PROVE  mine[p].node # n /\ mine[p].node \in Nodes
  BY <1>1, <1>5, OwnerOf, UsedNodes DEF Owned
<1>6. ASSUME NEW c \in Consumers \ {t}, pc[c] \in {"take", "takeOld"}
      PROVE  mine[c].node # n /\ mine[c].node \in Nodes
  <2>1. CASE pc[c] = "take"
    BY <1>1, <1>2, <1>3, <2>1, Unclaimed, UsedNodes DEF Contents
  <2>2. CASE pc[c] = "takeOld"
    BY <1>1, <2>2, OwnerOf, UsedNodes DEF Owned
  <2> QED
    BY <1>6, <2>1, <2>2
<1> QED
  BY <1>2, <1>4, <1>5, <1>6

LEMMA ConstructContents ==
  ASSUME NEW cur \in [Nodes -> Nat], LinkInv(cur), Contents, NEW p \in Producers, EnqueueConstruct(p)
  PROVE  Contents'
<1> DEFINE n == mine[p].node
<1>0. TypeOK /\ Roles
  BY DEF LinkInv
<1>1. pc[p] = "construct" /\ Goto(p, "exchange") /\ item' = [item EXCEPT ![n] = <<p, calls[p]>>]
  BY DEF EnqueueConstruct
<1>2. mine' = mine /\ calls' = calls /\ log' = log /\ claims' = claims /\ head' = head /\ taken' = taken
  BY DEF EnqueueConstruct, atomics, history
<1>3. at' = at
  BY <1>2 DEF at, Chain
<1>4. p \in Owners /\ p \in Threads /\ p \notin Consumers
  BY <1>0, <1>1, OwnerOf, RolesAssumption DEF Threads
<1>5. /\ n \in Nodes
      /\ \A i \in Len(claims) + 1 .. Len(log) : at[i].node # n /\ at[i].node \in Nodes
      /\ \A q \in Producers \ {p} : pc[q] = "exchange" => mine[q].node # n /\ mine[q].node \in Nodes
      /\ \A c \in Consumers \ {p} : pc[c] \in {"take", "takeOld"} => mine[c].node # n /\ mine[c].node \in Nodes
  BY <1>4, WrittenAlone
<1>6. item'[n] = <<p, calls[p]>> /\ \A m \in Nodes : m # n => item'[m] = item[m]
  BY <1>0, <1>1, <1>5 DEF TypeOK
<1>7. \A u \in Threads \ {p} : pc'[u] = pc[u]
  BY <1>0, <1>1 DEF TypeOK, Goto
<1>8. \A i \in Len(claims) + 1 .. Len(log) : item'[at[i].node] = log[i].item
  BY <1>5, <1>6 DEF Contents
<1>9. \A q \in Producers : pc'[q] = "exchange" => item'[mine[q].node] = <<q, calls[q]>>
  BY <1>5, <1>6, <1>7 DEF Contents, Threads
<1>10. ASSUME NEW c \in Consumers, pc'[c] \in {"take", "takeOld"}
       PROVE  /\ Len(claims) > 0 /\ mine[c] = at[Len(claims)]
              /\ item'[mine[c].node] = log[Len(claims)].item
              /\ pc'[c] = "take" => head.consumed
  <2>1. c # p /\ pc'[c] = pc[c]
    BY <1>4, <1>7 DEF Threads
  <2> QED
    BY <1>5, <1>6, <1>10, <2>1 DEF Contents
<1>11. TakenAsEnqueued'
  BY <1>2 DEF Contents, TakenAsEnqueued
<1> QED
  BY <1>2, <1>3, <1>8, <1>9, <1>10, <1>11 DEF Contents

LEMMA FreshContents ==
  ASSUME NEW cur \in [Nodes -> Nat], LinkInv(cur), Contents, NEW p \in Producers, EnqueueFresh(p)
  PROVE  Contents'
<1> DEFINE n == nextNodeIdx
<1>0. TypeOK /\ Roles /\ Queue /\ ChainSound(cur) /\ Owned(cur) /\ LinkInv(cur)'
  BY EnqueueFreshInv DEF LinkInv
<1>1. /\ pc[p] = "fresh" /\ Goto(p, "exchange") /\ item' = [item EXCEPT ![n] = <<p, calls[p]>>]
      /\ Remember(p, [node |-> n, ver |-> 0, consumed |-> FALSE]) /\ nextNodeIdx' = n + 1
  BY DEF EnqueueFresh
<1>2. calls' = calls /\ log' = log /\ claims' = claims /\ head' = head /\ taken' = taken
  BY DEF EnqueueFresh, history
<1>3. at' = at
  BY <1>2 DEF at, Chain
<1>4. p \in Threads /\ p \notin Consumers
  BY RolesAssumption DEF Threads
<1>5. n \in Nodes /\ n \notin Used
  BY <1>0, <1>1, UsedNodes DEF LinkInv, TypeOK, Used, Nodes
<1>6. mine'[p].node = n /\ \A u \in Threads \ {p} : mine'[u] = mine[u]
  BY <1>0, <1>1, <1>4 DEF TypeOK, Remember
<1> HIDE DEF n
<1>7. item'[n] = <<p, calls[p]>> /\ \A m \in Used : item'[m] = item[m]
  BY <1>0, <1>1, <1>5, UsedNodes DEF TypeOK
<1>8. \A u \in Threads \ {p} : pc'[u] = pc[u]
  BY <1>0, <1>1 DEF TypeOK, Goto
<1>9. Live \subseteq Used /\ InQueue \subseteq Chain /\ \A i \in Chain : at[i].node \in Used
  BY <1>0, InQueueApart DEF ChainSound
<1>10. \A i \in Len(claims) + 1 .. Len(log) : item'[at[i].node] = log[i].item
  BY <1>7, <1>9, Unclaimed DEF Contents
<1>11. ASSUME NEW q \in Producers, pc'[q] = "exchange"
       PROVE  item'[mine'[q].node] = <<q, calls[q]>>
  <2>1. CASE q = p
    BY <1>6, <1>7, <2>1
  <2>2. CASE q # p
    <3>1. pc[q] = "exchange" /\ mine'[q] = mine[q]
      BY <1>6, <1>8, <1>11, <2>2 DEF Threads
    <3>2. mine[q].node \in Used
      BY <1>0, <3>1, OwnerOf DEF Owned
    <3> QED
      BY <1>7, <3>1, <3>2 DEF Contents
  <2> QED
    BY <2>1, <2>2
<1>12. ASSUME NEW c \in Consumers, pc'[c] \in {"take", "takeOld"}
       PROVE  /\ Len(claims) > 0 /\ mine'[c] = at[Len(claims)]
              /\ item'[mine'[c].node] = log[Len(claims)].item
              /\ pc'[c] = "take" => head.consumed
  <2>1. c # p /\ pc'[c] = pc[c] /\ mine'[c] = mine[c]
    BY <1>4, <1>6, <1>8 DEF Threads
  <2>2. mine[c] = at[Len(claims)] /\ Len(claims) \in Chain
    BY <1>12, <2>1, Unclaimed DEF Contents, Chain
  <2> QED
    BY <1>7, <1>9, <1>12, <2>1, <2>2 DEF Contents
<1>13. TakenAsEnqueued'
  BY <1>2 DEF Contents, TakenAsEnqueued
<1> QED
  BY <1>2, <1>3, <1>10, <1>11, <1>12, <1>13 DEF Contents

LEMMA ExchangeContents ==
  ASSUME NEW cur \in [Nodes -> Nat], LinkInv(cur), Contents, NEW p \in Producers, EnqueueExchange(p)
  PROVE  Contents'
<1> DEFINE e == [idx |-> mine[p], item |-> <<p, calls[p]>>]
<1>0. TypeOK /\ Roles /\ TypeOK'
  BY EnqueueExchangeInv DEF LinkInv
<1>1. pc[p] = "exchange" /\ Goto(p, "link") /\ log' = Append(log, e)
  BY DEF EnqueueExchange
<1>2. mine' = mine /\ calls' = calls /\ item' = item /\ claims' = claims /\ head' = head /\ taken' = taken
  BY DEF EnqueueExchange, nodes
<1>3. e.idx = mine[p] /\ e.item = <<p, calls[p]>>
  OBVIOUS
<1> HIDE DEF e
<1>4. /\ Len(log) \in Nat /\ Len(log') = Len(log) + 1 /\ log'[Len(log) + 1] = e
      /\ \A i \in 1 .. Len(log) : log'[i] = log[i]
  BY <1>0, <1>1 DEF TypeOK
<1>5. at'[Len(log) + 1] = mine[p] /\ \A i \in Chain : at'[i] = at[i]
  BY <1>3, <1>4 DEF at, Chain
<1>6. pc'[p] = "link" /\ \A u \in Threads \ {p} : pc'[u] = pc[u]
  BY <1>0, <1>1 DEF TypeOK, Goto, Threads
<1>7. Len(claims) \in Nat /\ Len(claims) <= Len(log)
  BY Unclaimed
<1>8. ASSUME NEW i \in Len(claims) + 1 .. Len(log')
      PROVE  item[at'[i].node] = log'[i].item
  <2>1. CASE i = Len(log) + 1
    BY <1>1, <1>3, <1>4, <1>5, <2>1 DEF Contents
  <2>2. CASE i # Len(log) + 1
    <3>1. i \in Len(claims) + 1 .. Len(log) /\ i \in 1 .. Len(log) /\ i \in Chain
      BY <1>4, <1>7, <2>2 DEF Chain
    <3> QED
      BY <1>4, <1>5, <3>1 DEF Contents
  <2> QED
    BY <2>1, <2>2
<1>9. \A q \in Producers : pc'[q] = "exchange" => item[mine[q].node] = <<q, calls[q]>>
  BY <1>6 DEF Contents, Threads
<1>10. ASSUME NEW c \in Consumers, pc'[c] \in {"take", "takeOld"}
       PROVE  /\ Len(claims) > 0 /\ mine[c] = at'[Len(claims)]
              /\ item[mine[c].node] = log'[Len(claims)].item
              /\ pc'[c] = "take" => head.consumed
  <2>1. pc'[c] = pc[c]
    BY <1>6, <1>10 DEF Threads
  <2>2. Len(claims) \in Chain /\ (Len(claims) > 0 => Len(claims) \in 1 .. Len(log))
    BY <1>4, <1>7 DEF Chain
  <2> QED
    BY <1>4, <1>5, <1>10, <2>1, <2>2 DEF Contents
<1>11. TakenAsEnqueued'
  <2>1. ASSUME NEW t \in taken
        PROVE  \E i \in 1 .. Len(log') : log'[i] = t
    <3>1. PICK i \in 1 .. Len(log) : log[i] = t
      BY DEF Contents, TakenAsEnqueued
    <3>2. i \in 1 .. Len(log')
      BY <1>4
    <3> QED
      BY <1>4, <3>1, <3>2
  <2> QED
    BY <1>2, <2>1 DEF TakenAsEnqueued
<1> QED
  BY <1>2, <1>8, <1>9, <1>10, <1>11 DEF Contents

\* The consumer moves out what it claimed.
LEMMA TakeContents ==
  ASSUME NEW cur \in [Nodes -> Nat], LinkInv(cur), Contents, \A c, d \in Consumers : c = d,
         NEW c \in Consumers, DequeueTake(c) \/ DequeueTakeOld(c)
  PROVE  Contents'
<1> DEFINE n == mine[c].node
           k == Len(claims)
<1>0. TypeOK /\ Roles /\ Queue /\ ChainSound(cur) /\ Owned(cur) /\ ClaimedInOrder
  BY DEF LinkInv
<1>1. pc[c] \in {"take", "takeOld"} /\ MoveItem(c) /\ c \in Threads /\ c \notin Producers
  BY RolesAssumption DEF DequeueTake, DequeueTakeOld, Threads
<1>2. mine' = mine /\ calls' = calls /\ log' = log /\ claims' = claims /\ head' = head
  BY DEF DequeueTake, DequeueTakeOld, atomics
<1>3. at' = at
  BY <1>2 DEF at, Chain
<1>4. pc'[c] \in {"idle", "push"} /\ \A u \in Threads \ {c} : pc'[u] = pc[u]
  BY <1>0, <1>1 DEF DequeueTake, DequeueTakeOld, Goto, TypeOK
<1>5. k \in Nat /\ k <= Len(log) /\ Len(log) \in Nat /\ k > 0 /\ mine[c] = at[k] /\ item[n] = log[k].item
  BY <1>1, Unclaimed DEF Contents
<1>6. k \in Chain /\ at[k] \in Index /\ ~at[k].consumed /\ at[k] = log[k].idx /\ n \in Nodes
  <2>1. k \in Chain /\ k \in 1 .. Len(log)
    BY <1>5 DEF Chain
  <2> QED
    BY <1>0, <1>5, <2>1, ChainType, Indices DEF ChainSound
<1>7. /\ \A i \in Len(claims) + 1 .. Len(log) : at[i].node # n /\ at[i].node \in Nodes
      /\ \A p \in Producers : pc[p] = "exchange" => mine[p].node # n /\ mine[p].node \in Nodes
  <2>1. CASE pc[c] = "takeOld"
    <3>1. c \in Owners
      BY <1>0, <2>1, OwnerOf
    <3> QED
      BY <1>1, <3>1, WrittenAlone
  <2>2. CASE pc[c] = "take"
    <3>1. k \in InQueue
      BY <2>2, Unclaimed DEF Contents
    <3>2. /\ \A i, j \in InQueue : at[i].node = at[j].node => i = j
          /\ Live \subseteq Used /\ \A j \in InQueue : at[j].node \in Live
      BY <1>0, InQueueApart
    <3>3. \A i \in Len(claims) + 1 .. Len(log) : i \in InQueue /\ i # k
      BY <1>5, Unclaimed
    <3>4. n \in Live
      BY <1>5, <3>1, <3>2
    <3>5. \A p \in Producers : pc[p] = "exchange" => mine[p].node \in Used \ Live
      BY <1>0, OwnerOf DEF Owned
    <3> QED
      BY <1>0, <1>5, <3>1, <3>2, <3>3, <3>4, <3>5, UsedNodes
  <2> QED
    BY <1>1, <2>1, <2>2
<1>8. \A m \in Nodes : m # n => item'[m] = item[m]
  BY <1>0, <1>1 DEF TypeOK, MoveItem
<1>9. taken' = taken \cup {log[k]}
  <2>1. clear_consumed_flag(mine[c]) = at[k]
    BY <1>5, <1>6 DEF clear_consumed_flag, Index
  <2>2. log[k] = [idx |-> at[k], item |-> log[k].item]
    <3> DEFINE Entry == [idx : Index, item : Items]
    <3>1. log \in Seq(Entry) /\ k \in 1 .. Len(log)
      BY <1>0, <1>5 DEF TypeOK
    <3>2. \A e \in Entry : e = [idx |-> e.idx, item |-> e.item]
      OBVIOUS
    <3> HIDE DEF Entry
    <3>3. log[k] \in Entry
      BY <3>1
    <3> QED
      BY <1>6, <3>2, <3>3
  <2>3. taken' = taken \cup {[idx |-> at[k], item |-> log[k].item]}
    BY <1>1, <1>5, <2>1 DEF MoveItem
  <2> QED
    BY <2>2, <2>3
<1> HIDE DEF n, k
<1>10. TakenAsEnqueued'
  <2>1. k \in 1 .. Len(log)
    BY <1>5
  <2> QED
    BY <1>2, <1>9, <2>1 DEF Contents, TakenAsEnqueued
<1>11. \A i \in Len(claims) + 1 .. Len(log) : item'[at[i].node] = log[i].item
  BY <1>7, <1>8 DEF Contents
<1>12. \A p \in Producers : pc'[p] = "exchange" => item'[mine[p].node] = <<p, calls[p]>>
  BY <1>1, <1>4, <1>7, <1>8 DEF Contents, Threads
<1>13. \A d \in Consumers : pc'[d] \notin {"take", "takeOld"}
  BY <1>4
<1> QED
  BY <1>2, <1>3, <1>10, <1>11, <1>12, <1>13 DEF Contents

\* A claim makes the next unclaimed position the consumer's.
LEMMA ClaimContents ==
  ASSUME NEW cur \in [Nodes -> Nat], LinkInv(cur), LinkInv(cur)', Contents,
         \A c, d \in Consumers : c = d, NEW c \in Consumers,
         item' = item, log' = log, taken' = taken, mine' = mine, calls' = calls,
         claims' = Append(claims, mine[c]),
         pc'[c] = "take" => head'.consumed,
         \A u \in Producers : pc'[u] = pc[u]
  PROVE  Contents'
<1>0. TypeOK /\ TypeOK' /\ ClaimedInOrder' /\ mine[c] \in Index \cup {Null}
  BY DEF LinkInv, TypeOK, Threads
<1>1. at' = at
  BY DEF at, Chain
<1>2. /\ Len(claims) \in Nat /\ Len(claims') = Len(claims) + 1 /\ claims'[Len(claims) + 1] = mine[c]
  BY <1>0 DEF TypeOK
<1>3. /\ Len(claims) + 1 <= Len(log) /\ mine[c] = log[Len(claims) + 1].idx /\ Len(log) \in Nat
  BY <1>0, <1>2, Unclaimed DEF ClaimedInOrder
<1>4. mine[c] = at[Len(claims) + 1] /\ item[mine[c].node] = log[Len(claims) + 1].item
  <2>1. Len(claims) + 1 \in 1 .. Len(log) /\ Len(claims) + 1 \in Len(claims) + 1 .. Len(log)
    BY <1>2, <1>3
  <2>2. mine[c] = at[Len(claims) + 1]
    BY <1>0, <1>3, <2>1, ChainType
  <2> QED
    BY <2>1, <2>2 DEF Contents
<1>5. \A i \in Len(claims') + 1 .. Len(log) : i \in Len(claims) + 1 .. Len(log)
  BY <1>2, <1>3
<1>6. TakenAsEnqueued'
  BY DEF Contents, TakenAsEnqueued
<1>7. \A i \in Len(claims') + 1 .. Len(log') : item'[at'[i].node] = log'[i].item
  BY <1>1, <1>5 DEF Contents
<1>8. \A p \in Producers : pc'[p] = "exchange" => item'[mine'[p].node] = <<p, calls'[p]>>
  BY DEF Contents
<1>9. ASSUME NEW d \in Consumers, pc'[d] \in {"take", "takeOld"}
      PROVE  /\ Len(claims') > 0 /\ mine'[d] = at'[Len(claims')]
             /\ item'[mine'[d].node] = log'[Len(claims')].item
             /\ pc'[d] = "take" => head'.consumed
  BY <1>1, <1>2, <1>4, <1>9
<1> QED
  BY <1>6, <1>7, <1>8, <1>9 DEF Contents

LEMMA ContentsNext ==
  ASSUME NEW cur \in [Nodes -> Nat], LinkInv(cur), Contents, [Next]_vars,
         \A c, d \in Consumers : c = d
  PROVE  Contents'
<1>0. TypeOK /\ Roles /\ pc \in [Threads -> ProducerPC \cup ConsumerPC] /\ mine \in [Threads -> Index \cup {Null}]
      /\ calls \in [Producers -> 0 .. MaxCalls]
  BY DEF LinkInv, TypeOK
<1>1. /\ Producers \subseteq Threads /\ Consumers \subseteq Threads
      /\ \A p \in Producers : p \notin Consumers /\ pc[p] \notin {"take", "takeOld"}
      /\ \A c \in Consumers : c \notin Producers /\ pc[c] # "exchange"
  BY <1>0, RolesAssumption DEF Threads, Roles, ProducerPC, ConsumerPC
<1>2. ASSUME NEW p \in Producers, Enqueue(p)
      PROVE  Contents'
  <2>1. CASE EnqueueLoadFree(p)
    BY <1>0, <1>1, <2>1, ContentsKept DEF EnqueueLoadFree, Goto, Remember, PopOrFresh, nodes, history, atomics
  <2>2. CASE EnqueueReadNext(p)
    BY <1>0, <1>1, <2>2, ContentsKept DEF EnqueueReadNext, Goto, nodes, history, atomics
  <2>3. CASE EnqueuePop(p)
    BY <1>0, <1>1, <2>3, ContentsKept DEF EnqueuePop, Goto, Remember, PopOrFresh, nodes, history
  <2>4. CASE EnqueueReset(p)
    BY <1>0, <1>1, <2>4, ContentsKept DEF EnqueueReset, Goto, history, atomics
  <2>5. CASE EnqueueConstruct(p)
    BY <2>5, ConstructContents
  <2>6. CASE EnqueueFresh(p)
    BY <2>6, FreshContents
  <2>7. CASE EnqueueExchange(p)
    BY <2>7, ExchangeContents
  <2>8. CASE EnqueueLink(p)
    BY <1>0, <1>1, <2>8, ContentsKept DEF EnqueueLink, Goto, history, atomics
  <2> QED
    BY <1>2, <2>1, <2>2, <2>3, <2>4, <2>5, <2>6, <2>7, <2>8 DEF Enqueue
<1>3. ASSUME NEW c \in Consumers, Dequeue(c)
      PROVE  Contents'
  <2>0. LinkInv(cur)'
    BY <1>3, DequeueInv
  <2>1. CASE DequeueLoadHead(c)
    BY <1>0, <1>1, <2>1, ContentsKept DEF DequeueLoadHead, Goto, Remember, nodes, history, atomics
  <2>2. CASE DequeueReadNext(c)
    BY <1>0, <1>1, <2>2, ContentsKept DEF DequeueReadNext, Goto, nodes, history, atomics
  <2>3. CASE DequeueClaim(c) /\ head = mine[c]
    <3>1. /\ item' = item /\ log' = log /\ taken' = taken /\ mine' = mine /\ calls' = calls
          /\ claims' = Append(claims, mine[c]) /\ head' = set_consumed_flag(head)
          /\ \A u \in Producers : pc'[u] = pc[u]
      BY <1>0, <1>1, <2>3 DEF DequeueClaim, Goto, nodes
    <3>2. head'.consumed
      BY <1>0, <3>1, Flags DEF TypeOK
    <3> QED
      BY <2>0, <3>1, <3>2, ClaimContents
  <2>4. CASE DequeueClaim(c) /\ head # mine[c]
    BY <1>0, <1>1, <2>4, ContentsKept DEF DequeueClaim, Goto, nodes
  <2>5. CASE DequeueTake(c) \/ DequeueTakeOld(c)
    BY <2>5, TakeContents
  <2>6. CASE DequeueAdvance(c) /\ head = mine[c] /\ ~mine[c].consumed
    <3>1. /\ item' = item /\ log' = log /\ taken' = taken /\ mine' = mine /\ calls' = calls
          /\ claims' = Append(claims, mine[c]) /\ pc'[c] = "takeOld"
          /\ \A u \in Producers : pc'[u] = pc[u]
      BY <1>0, <1>1, <2>6 DEF DequeueAdvance, Goto, nodes
    <3> QED
      BY <2>0, <3>1, ClaimContents
  <2>7. CASE DequeueAdvance(c) /\ head = mine[c] /\ mine[c].consumed
    <3>1. /\ item' = item /\ log' = log /\ taken' = taken /\ mine' = mine /\ calls' = calls
          /\ claims' = claims /\ pc'[c] = "push"
          /\ \A u \in Producers : pc'[u] = pc[u]
      BY <1>0, <1>1, <2>7 DEF DequeueAdvance, Goto, nodes
    <3>2. \A d \in Consumers : pc'[d] \notin {"take", "takeOld"}
      BY <3>1
    <3>3. at' = at
      BY <3>1 DEF at, Chain
    <3>4. TakenAsEnqueued'
      BY <3>1 DEF Contents, TakenAsEnqueued
    <3> QED
      BY <3>1, <3>2, <3>3, <3>4 DEF Contents
  <2>8. CASE DequeueAdvance(c) /\ head # mine[c]
    BY <1>0, <1>1, <2>8, ContentsKept DEF DequeueAdvance, Goto, nodes
  <2>9. CASE DequeuePush(c)
    BY <1>0, <1>1, <2>9, ContentsKept DEF DequeuePush, Goto, history, atomics
  <2>10. CASE DequeuePushCAS(c)
    BY <1>0, <1>1, <2>10, ContentsKept DEF DequeuePushCAS, Goto, nodes, history
  <2> QED
    BY <1>3, <2>1, <2>2, <2>3, <2>4, <2>5, <2>6, <2>7, <2>8, <2>9, <2>10 DEF Dequeue
<1>4. CASE UNCHANGED vars
  BY <1>4, ContentsKept DEF vars
<1> QED
  BY <1>2, <1>3, <1>4 DEF Next

\* TakenAsEnqueued: as long as there is one consumer, each claim yields the item that
\* was enqueued in the claimed node.
THEOREM TakenByOne ==
  ASSUME \A c, d \in Consumers : c = d
  PROVE  Spec => []TakenAsEnqueued
<1>1. Init => Contents
  <2> SUFFICES ASSUME Init PROVE Contents
    OBVIOUS
  <2>1. log = <<>> /\ claims = <<>> /\ taken = {} /\ pc = [t \in Threads |-> "idle"]
    BY DEF Init
  <2>2. Len(log) = 0 /\ Len(claims) = 0
    BY <2>1
  <2>3. TakenAsEnqueued
    BY <2>1 DEF TakenAsEnqueued
  <2> QED
    BY <2>1, <2>2, <2>3 DEF Contents, Threads
<1>2. Linked /\ Contents /\ [Next]_vars => Contents'
  BY ContentsNext DEF Linked
<1>3. Contents => TakenAsEnqueued
  BY DEF Contents
<1> QED
  BY Inductive, <1>1, <1>2, <1>3, PTL DEF Spec

=============================================================================
