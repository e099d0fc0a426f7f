------------------------------ MODULE TimeWheel ------------------------------
(***************************************************************************)
(* The hierarchical timing wheel of 7.2timers/timers/timewheel.c: a near   *)
(* wheel of TIME_NEAR lists and four levels of TIME_LEVEL lists, a clock   *)
(* that counts as far as they reach, and a node per timer.                 *)
(*                                                                         *)
(* Shifts and masks are quotients and remainders.  A list is the bag of    *)
(* its nodes, how often each is linked to it: the order in which the       *)
(* callbacks of one tick run is left open.                                 *)
(*                                                                         *)
(* One thread calls expire_timer; any thread calls add_timer and           *)
(* del_timer.  The spin lock is held between lock and unlock, which is     *)
(* what pc = "execute" stands for; it is free while the lists' callbacks   *)
(* run.  A timer with time <= 0 never enters the wheel: its callback runs  *)
(* inside add_timer and no state is left, so that such calls are no steps. *)
(*                                                                         *)
(* clear_timer takes no lock, and tw-timer.c calls it while its threads    *)
(* still add timers.  It is therefore a step for each node that it frees   *)
(* and each list that it empties, with add_timer in between.  An add_timer *)
(* that links to the very list that clear_timer is at may race with it (pc *)
(* = "raced"): link_clear drops the node that was linked after the walk,   *)
(* link writes to a tail that was freed, or the walk follows the node's    *)
(* next before link sets it.  Nothing is said of what the program does     *)
(* after that.                                                             *)
(***************************************************************************)
EXTENDS Integers, FiniteSets, TLC

CONSTANTS
    TIME_NEAR, TIME_LEVEL,
    Nodes,          \* addresses malloc gives out for nodes
    Delays          \* the arguments of add_timer

ASSUME SizesAssumption == TIME_NEAR \in Nat \ {0, 1} /\ TIME_LEVEL \in Nat \ {0, 1}

\* What lies less than Reach(l) ahead fits into the levels up to l: the limits of
\* add_node and the masks of timer_shift.
Reach(level) ==
    CASE level = 0 -> TIME_NEAR
      [] level = 1 -> TIME_NEAR * TIME_LEVEL
      [] level = 2 -> TIME_NEAR * TIME_LEVEL * TIME_LEVEL
      [] level = 3 -> TIME_NEAR * TIME_LEVEL * TIME_LEVEL * TIME_LEVEL
      [] level = 4 -> TIME_NEAR * TIME_LEVEL * TIME_LEVEL * TIME_LEVEL * TIME_LEVEL

Range32 == Reach(4)                     \* the values of uint32_t

\* time is an int, so that the code's delays end at half the clock's range; when
\* a level has two lists only longer ones reach the topmost level.
ASSUME DelaysAssumption == Delays \subseteq 1 .. Range32 - 1

VARIABLES
    lists,          \* near and t: how often each node is in each list
    time,           \* T->time
    expire, cancel, \* of each node
    state,          \* of each node: free, set, or freed after its callback
    current,        \* dispatch_list: the nodes still to be dispatched
    pc, shifted,    \* where the driving thread is; timer_shift was called
    list,           \* clear_timer: the list that it is at
    late,           \* history: nodes in the wheel whose time has passed
    old             \* history: nodes set before clear_timer and not yet freed by it

vars == <<lists, time, expire, cancel, state, current, pc, shifted, list, late, old>>

\* The lists: near[i] is <<0, i>> and t[l][i] is <<l + 1, i>>.
Near == {<<0, i>> : i \in 0 .. TIME_NEAR - 1}
Levels == 1 .. 4
Places == Near \cup (Levels \X (0 .. TIME_LEVEL - 1))

EmptyList == [n \in Nodes |-> 0]

\* The nodes between malloc and free.
Set == {n \in Nodes : state[n] = "set"}

TypeOK ==
    /\ lists \in [Places -> [Nodes -> Nat]]
    /\ time \in 0 .. Range32 - 1
    /\ expire \in [Nodes -> 0 .. Range32 - 1]
    /\ cancel \in [Nodes -> BOOLEAN]
    /\ state \in [Nodes -> {"free", "set", "fired"}]
    /\ current \in [Nodes -> Nat]
    /\ pc \in {"idle", "execute", "dispatch", "clear", "empty", "freed", "raced"}
    /\ shifted \in BOOLEAN
    /\ list \in Places
    /\ late \subseteq Set
    /\ old \subseteq Set

\* init_timer and timer_create_timer.
Init ==
    /\ lists = [p \in Places |-> EmptyList]
    /\ time = 0
    /\ expire = [n \in Nodes |-> 0]
    /\ cancel = [n \in Nodes |-> FALSE]
    /\ state = [n \in Nodes |-> "free"]
    /\ current = EmptyList
    /\ pc = "idle" /\ shifted = FALSE
    /\ list = <<0, 0>>
    /\ late = {} /\ old = {}

-----------------------------------------------------------------------------
(* The wheel *)

Slot(level, at) == (at \div Reach(level - 1)) % TIME_LEVEL

\* The list that add_node links a node to, by the distance of its time.
\* Faulty variant: the distance is not reduced modulo the width of the clock.
PlaceOfSigned(at, now) ==
    LET msec == at - now
    IN IF msec < TIME_NEAR
       THEN <<0, at % TIME_NEAR>>
       ELSE LET level == CHOOSE l \in Levels :
                            /\ l = 4 \/ msec < Reach(l)
                            /\ \A k \in 1 .. l - 1 : msec >= Reach(k)
            IN <<level, Slot(level, at)>>

PlaceOf(at, now) ==
    LET msec == (at - now) % Range32
    IN IF msec < TIME_NEAR
       THEN <<0, at % TIME_NEAR>>
       ELSE LET level == CHOOSE l \in Levels :
                            /\ l = 4 \/ msec < Reach(l)
                            /\ \A k \in 1 .. l - 1 : msec >= Reach(k)
            IN <<level, Slot(level, at)>>

\* Take the list and link its nodes again, each by its expiry.
\* Faulty variant: the list is not emptied.
MoveWithoutClear(ls, p, now) ==
    [q \in Places |-> [n \in Nodes |->
        ls[q][n] + IF PlaceOf(expire[n], now) = q THEN ls[p][n] ELSE 0]]

move_list(ls, p, now) ==
    LET cleared == [ls EXCEPT ![p] = EmptyList]
    IN [q \in Places |-> [n \in Nodes |->
           cleared[q][n] + IF PlaceOf(expire[n], now) = q THEN ls[p][n] ELSE 0]]

\* The list that timer_shift moves when the clock becomes ct: of the levels
\* whose lower digits are all zero, the first one whose own digit is not; the
\* first list of the topmost level when the clock wraps.
\* Faulty variant: nothing is moved when the clock wraps.
DueNoWrap(ct) ==
    {<<l, Slot(l, ct)>> : l \in {k \in Levels :
        ct % Reach(k - 1) = 0 /\ Slot(k, ct) # 0}}

Due(ct) ==
    IF ct = 0 THEN {<<4, 0>>}
    ELSE {<<l, Slot(l, ct)>> : l \in {k \in Levels :
             ct % Reach(k - 1) = 0 /\ Slot(k, ct) # 0}}

\* Lists of a lower level that no value of the clock makes due.
NeverMoved == {<<l, 0>> : l \in 1 .. 3}

-----------------------------------------------------------------------------
(* The callers *)

\* free: nothing reads what the nodes hold before add_timer sets it again.
Forget(S) ==
    /\ expire' = [n \in Nodes |-> IF n \in S THEN 0 ELSE expire[n]]
    /\ cancel' = [n \in Nodes |-> IF n \in S THEN FALSE ELSE cancel[n]]

\* In clear_timer: walking the list, or past its tail, after it found the list empty
\* or freed its last node.
Clearing == pc \in {"clear", "empty", "freed"}

\* cancel is not initialised: what the memory holds decides.  The node is linked
\* to its list; or the list is the one that clear_timer is at, and a write of link
\* falls between reads and writes of the walk or of link_clear.
add_timer(n, delay) ==
    /\ pc \notin {"execute", "raced"}
    /\ n \notin Set
    /\ state' = [state EXCEPT ![n] = "set"]
    /\ expire' = [expire EXCEPT ![n] = (delay + time) % Range32]
    /\ \E garbage \in BOOLEAN : cancel' = [cancel EXCEPT ![n] = garbage]
    /\ LET p == PlaceOf(expire'[n], time)
       IN \/ /\ ~(pc = "freed" /\ p = list)         \* the tail is memory to write to
             /\ lists' = [lists EXCEPT ![p][n] = @ + 1]
             /\ UNCHANGED pc
          \/ /\ Clearing /\ p = list
             /\ pc' = "raced"
             /\ UNCHANGED lists
    /\ UNCHANGED <<time, current, shifted, list, late, old>>

\* No lock; the node may be another timer's by now.  A write to a freed node is
\* part of the garbage of add_timer.
del_timer(n) ==
    /\ n \in Set
    /\ cancel' = [cancel EXCEPT ![n] = TRUE]
    /\ UNCHANGED <<lists, time, expire, state, current, pc, shifted, list, late, old>>

-----------------------------------------------------------------------------
(* The thread that drives the wheel *)

\* expire_timer calls timer_update once for every tick since its last call;
\* timer_update takes the lock.
expire_timer ==
    /\ pc = "idle"
    /\ pc' = "execute" /\ shifted' = FALSE
    /\ UNCHANGED <<lists, time, expire, cancel, state, current, list, late, old>>

Here == <<0, time % TIME_NEAR>>

\* timer_execute: take the whole list, unlock, dispatch.
timer_execute ==
    /\ pc = "execute"
    /\ lists[Here] # EmptyList
    /\ current' = lists[Here]
    /\ lists' = [lists EXCEPT ![Here] = EmptyList]
    /\ pc' = "dispatch"
    /\ UNCHANGED <<time, expire, cancel, state, shifted, list, late, old>>

\* dispatch_list: one node.
\* Faulty variant: the test of cancel is the wrong way round.
DispatchCancelled ==
    /\ pc = "dispatch"
    /\ \E n \in Nodes :
        /\ current[n] > 0
        /\ state' = [state EXCEPT ![n] = IF cancel[n] THEN "fired" ELSE "free"]
        /\ late' = late \ {n}
        /\ current' = [current EXCEPT ![n] = @ - 1]
        /\ Forget({n})
    /\ UNCHANGED <<lists, time, pc, shifted, list, old>>

DispatchNode ==
    /\ pc = "dispatch"
    /\ \E n \in Nodes :
        /\ current[n] > 0
        /\ state' = [state EXCEPT ![n] = IF cancel[n] THEN "free" ELSE "fired"]
        /\ late' = late \ {n}
        /\ current' = [current EXCEPT ![n] = @ - 1]
        /\ Forget({n})
    /\ UNCHANGED <<lists, time, pc, shifted, list, old>>

\* dispatch_list is done: timer_execute locks and looks at the list again.
Relock ==
    /\ pc = "dispatch" /\ current = EmptyList
    /\ pc' = "execute"
    /\ UNCHANGED <<lists, time, expire, cancel, state, current, shifted, list, late, old>>

timer_shift ==
    /\ pc = "execute" /\ lists[Here] = EmptyList /\ ~shifted
    /\ LET ct == (time + 1) % Range32
       IN /\ time' = ct
          /\ lists' = IF Due(ct) = {} THEN lists
                      ELSE move_list(lists, CHOOSE p \in Due(ct) : TRUE, ct)
    /\ late' = late \cup {n \in Set : expire[n] = time}
    /\ shifted' = TRUE
    /\ UNCHANGED <<expire, cancel, state, current, pc, list, old>>

\* timer_update unlocks.
UpdateEnds ==
    /\ pc = "execute" /\ lists[Here] = EmptyList /\ shifted
    /\ pc' = "idle"
    /\ UNCHANGED <<lists, time, expire, cancel, state, current, shifted, list, late, old>>

-----------------------------------------------------------------------------
(* The end: the driving thread calls clear_timer, which takes no lock *)

clear_timer ==
    /\ pc = "idle"
    /\ pc' = "clear" /\ list' = <<0, 0>>
    /\ old' = Set
    /\ UNCHANGED <<lists, time, expire, cancel, state, current, shifted, late>>

\* The walk reads a node's next and frees the node; when next is NULL that was the
\* tail.
ClearNode ==
    /\ pc = "clear"
    /\ \E n \in Nodes :
        /\ lists[list][n] > 0
        /\ lists' = [lists EXCEPT ![list][n] = @ - 1]
        /\ state' = [state EXCEPT ![n] = "free"]
        /\ late' = late \ {n} /\ old' = old \ {n}
        /\ Forget({n})
    /\ pc' = IF lists'[list] = EmptyList THEN "freed" ELSE "clear"
    /\ UNCHANGED <<time, current, shifted, list>>

\* head.next was NULL.
FoundEmpty ==
    /\ pc = "clear" /\ lists[list] = EmptyList
    /\ pc' = "empty"
    /\ UNCHANGED <<lists, time, expire, cancel, state, current, shifted, list, late, old>>

\* The near wheel from its first list to its last, then each level.
\* Faulty variant: the last list of each is left out.
AfterShort(p) ==
    LET last == IF p[1] = 0 THEN TIME_NEAR - 1 ELSE TIME_LEVEL - 1
    IN IF p[2] + 1 < last THEN <<p[1], p[2] + 1>> ELSE <<p[1] + 1, 0>>

After(p) ==
    LET last == IF p[1] = 0 THEN TIME_NEAR - 1 ELSE TIME_LEVEL - 1
    IN IF p[2] < last THEN <<p[1], p[2] + 1>> ELSE <<p[1] + 1, 0>>

\* link_clear, which drops whatever was linked since the walk, and on to the next
\* list.
ClearList ==
    /\ pc \in {"empty", "freed"}
    /\ lists' = [lists EXCEPT ![list] = EmptyList]
    /\ \/ lists[list] # EmptyList /\ pc' = "raced" /\ UNCHANGED list
       \/ /\ lists[list] = EmptyList
          /\ IF After(list) \in Places
             THEN pc' = "clear" /\ list' = After(list)
             ELSE pc' = "idle" /\ list' = <<0, 0>>
    /\ UNCHANGED <<time, expire, cancel, state, current, shifted, late, old>>

-----------------------------------------------------------------------------
Next ==
    \/ \E n \in Nodes, d \in Delays : add_timer(n, d)
    \/ \E n \in Nodes : del_timer(n)
    \/ expire_timer
    \/ timer_execute
    \/ DispatchNode
    \/ Relock
    \/ timer_shift
    \/ UpdateEnds
    \/ clear_timer
    \/ ClearNode
    \/ FoundEmpty
    \/ ClearList

Spec == Init /\ [][Next]_vars

\* Nodes are alike.
Symmetry == Permutations(Nodes)

-----------------------------------------------------------------------------
(* Properties *)

\* A node that was allocated is in one list once, on the wheel or in the list
\* being dispatched, and a freed node is in none: no callback runs twice, no node
\* is lost and no list leads into freed memory (link, move_list, dispatch_list).
\* Of the list that clear_timer is at this speaks of what is still to be walked.
EachNodeOnce ==
    \A n \in Nodes :
        /\ \A p \in Places : lists[p][n] <= 1
        /\ Cardinality({p \in Places : lists[p][n] > 0}) + current[n] = IF n \in Set THEN 1 ELSE 0

\* What is being dispatched expires now: neither a tick early nor a tick late,
\* whatever levels the timer passed through and wherever the clock wrapped.
FiresOnTime ==
    \A n \in Nodes : current[n] > 0 => expire[n] = time /\ n \notin late

\* A timer is overdue only in the first list of one of the three lower
\* levels: every other list is moved down before its timers expire, and the
\* near wheel never has a timer of a past round.
OverdueOnlyInNeverMoved ==
    \A p \in Places \ NeverMoved : \A n \in Nodes : lists[p][n] > 0 => n \notin late

\* timer_update calls timer_execute before timer_shift too; nothing can have
\* been put in the list of the current tick since it was executed.
FirstExecuteFindsNothing ==
    ~shifted \/ pc \notin {"execute", "dispatch"} => lists[Here] = EmptyList

\* A node is freed by dispatch_list in the tick of its expiry, after its
\* callback unless it was cancelled, or by clear_timer.
FreedInItsTick ==
    [][\A n \in Set : n \notin Set' =>
          \/ expire[n] = time /\ (cancel[n] \/ state'[n] = "fired")
          \/ ClearNode]_vars

\* The lists of the wheel are sound whatever add_timer, del_timer, the dispatch and
\* clear_timer do in between, until an add_timer and clear_timer meet at one list:
\* timers may be added to lists that it has cleared already or has still to come to.
WheelSound == TypeOK /\ (pc # "raced" => EachNodeOnce) /\ FirstExecuteFindsNothing

\* When clear_timer has returned, no timer that was set when it was called is left,
\* whatever was added meanwhile, overdue timers included: every list is visited,
\* and a timer never changes to a list that was visited already.
ClearFreesAll == pc \in {"idle", "execute", "dispatch"} => old = {}
=============================================================================
