----------------------------- MODULE FifoQueue -----------------------------
(***************************************************************************)
(* The abstract specification every queue of the repository is held to:    *)
(* an unbounded first-in first-out channel.  A writer publishes a          *)
(* non-empty batch of items in one step (ypipe publishes many items with   *)
(* one flush, the other queues one at a time); a reader removes the oldest *)
(* published item.  An operation that answers "full" or "empty" is a       *)
(* stuttering step.                                                        *)
(***************************************************************************)
EXTENDS Integers, Sequences

CONSTANT Items        \* what can be sent through the queue

VARIABLES
    queue,            \* published and not yet received, oldest first
    received          \* everything received so far, in order of reception

fifoVars == <<queue, received>>

TypeOK ==
    /\ queue \in Seq(Items)
    /\ received \in Seq(Items)

Init ==
    /\ queue = <<>>
    /\ received = <<>>

Publish ==
    /\ Len(queue') > Len(queue)
    /\ SubSeq(queue', 1, Len(queue)) = queue
    /\ \A i \in Len(queue) + 1 .. Len(queue') : queue'[i] \in Items
    /\ UNCHANGED received

Receive ==
    /\ queue # <<>>
    /\ received' = Append(received, Head(queue))
    /\ queue' = Tail(queue)

Next == Publish \/ Receive

Spec == Init /\ [][Next]_fifoVars
=============================================================================
