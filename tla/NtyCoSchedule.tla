---------------------------- MODULE NtyCoSchedule ----------------------------
(***************************************************************************)
(* The coroutine scheduler of 5.2coroutine_impl/NtyCo: one thread runs     *)
(* nty_schedule_run, which resumes coroutines from the ready queue and     *)
(* those whose descriptor epoll reports; a coroutine runs until it yields. *)
(*                                                                         *)
(* The coroutines do what those of the sample servers do: create others    *)
(* for a new descriptor, wait for their own (every socket call waits in    *)
(* nty_poll_inner with time-out 1, which sets no timer), give way with     *)
(* nty_coroutine_sleep(0), close their descriptor and return.  No caller   *)
(* sleeps longer, so that the tree of sleepers stays empty and is left     *)
(* out.  Descriptors and coroutines are reused as soon as they are free.   *)
(***************************************************************************)
EXTENDS Integers, Sequences, SequencesExt, FiniteSets

CONSTANTS
    Coroutines,     \* addresses of nty_coroutine
    Fds,            \* descriptors of sockets
    First, FirstFd  \* the coroutine that main creates, and its descriptor

ASSUME FirstAssumption == First \in Coroutines /\ FirstFd \in Fds

None == "none"
ASSUME NoneAssumption == None \notin Coroutines /\ None \notin Fds

VARIABLES
    ready,          \* sched->ready
    waiting,        \* sched->waiting: the coroutine that waits for each descriptor
    epoll,          \* descriptors registered with the poller
    events,         \* sched->eventlist: descriptors reported and not yet served
    curr,           \* sched->curr_thread
    last,           \* last_co_ready
    pc,             \* where nty_schedule_run is
    fdOf,           \* the descriptor of each coroutine, none if it is not allocated
    avail           \* descriptors with something to read

coVars == <<ready, waiting, epoll, events, curr, last, pc, fdOf, avail>>

Allocated == {c \in Coroutines : fdOf[c] # None}

CoTypeOK ==
    /\ ready \in Seq(Coroutines)
    /\ waiting \in [Fds -> Coroutines \cup {None}]
    /\ epoll \subseteq Fds
    /\ events \subseteq Fds
    /\ curr \in Allocated \cup {None}
    /\ last \in Coroutines \cup {None}
    /\ pc \in {"top", "ready", "epoll", "events", "done"}
    /\ fdOf \in [Coroutines -> Fds \cup {None}]
    /\ avail \subseteq Fds

\* main has created a coroutine and calls nty_schedule_run.
CoInit ==
    /\ ready = <<First>>
    /\ waiting = [f \in Fds |-> None]
    /\ epoll = {} /\ events = {}
    /\ curr = None /\ last = None
    /\ pc = "top"
    /\ fdOf = [c \in Coroutines |-> IF c = First THEN FirstFd ELSE None]
    /\ avail = {}

-----------------------------------------------------------------------------
(* The scheduler, while no coroutine runs *)

nty_schedule_isdone == ready = <<>> /\ \A f \in Fds : waiting[f] = None

\* The test of the loop; the last of the coroutines that are ready now.
RunLoop ==
    /\ curr = None /\ pc = "top"
    /\ IF nty_schedule_isdone
       THEN pc' = "done" /\ UNCHANGED last
       ELSE /\ pc' = "ready"
            /\ last' = IF ready = <<>> THEN None ELSE Last(ready)
    /\ UNCHANGED <<ready, waiting, epoll, events, curr, fdOf, avail>>

\* The next coroutine of the ready queue, or the end of the round.
\* Faulty variant: the round goes on until the queue is empty.
RunReadyUntilEmpty ==
    /\ curr = None /\ pc = "ready"
    /\ IF ready = <<>>
       THEN pc' = "epoll" /\ UNCHANGED <<ready, curr>>
       ELSE /\ curr' = Head(ready)
            /\ ready' = Tail(ready)
            /\ UNCHANGED pc
    /\ UNCHANGED <<waiting, epoll, events, last, fdOf, avail>>

\* The branch for a coroutine whose descriptor reached its end is never taken:
\* nty_schedule_desched_wait resets the status before the coroutine is ready.
RunReady ==
    /\ curr = None /\ pc = "ready"
    /\ IF ready = <<>>
       THEN pc' = "epoll" /\ UNCHANGED <<ready, curr>>
       ELSE /\ curr' = Head(ready)
            /\ ready' = Tail(ready)
            /\ pc' = IF Head(ready) = last THEN "epoll" ELSE "ready"
    /\ UNCHANGED <<waiting, epoll, events, last, fdOf, avail>>

\* nty_schedule_epoll: the poller is asked only when no coroutine is ready.  It
\* reports what is there, or nothing after default_timeout.
nty_schedule_epoll ==
    /\ curr = None /\ pc = "epoll"
    /\ IF ready = <<>>
       THEN events' = epoll \cap avail /\ pc' = "events"
       ELSE pc' = "top" /\ UNCHANGED events
    /\ UNCHANGED <<ready, waiting, epoll, curr, last, fdOf, avail>>

\* One event, in the order of the poller: resume who waits for it.
RunEvent(f) ==
    /\ curr = None /\ pc = "events"
    /\ f \in events
    /\ events' = events \ {f}
    /\ curr' = waiting[f]
    /\ UNCHANGED <<ready, waiting, epoll, last, pc, fdOf, avail>>

EventsDone ==
    /\ curr = None /\ pc = "events" /\ events = {}
    /\ pc' = "top"
    /\ UNCHANGED <<ready, waiting, epoll, events, curr, last, fdOf, avail>>

-----------------------------------------------------------------------------
(* The coroutine that runs *)

\* What a coroutine does first when it is resumed inside nty_poll_inner: take
\* its descriptor out of the poller and itself out of waiting, and read.
InPoll == curr # None /\ waiting[fdOf[curr]] = curr

\* Faulty variant: the descriptor stays in the poller.
PollEndsRegistered ==
    /\ InPoll
    /\ waiting' = [waiting EXCEPT ![fdOf[curr]] = None]
    /\ avail' = avail \ {fdOf[curr]}
    /\ UNCHANGED <<ready, epoll, events, curr, last, pc, fdOf>>

PollEnds ==
    /\ InPoll
    /\ epoll' = epoll \ {fdOf[curr]}
    /\ waiting' = [waiting EXCEPT ![fdOf[curr]] = None]
    /\ avail' = avail \ {fdOf[curr]}
    /\ UNCHANGED <<ready, events, curr, last, pc, fdOf>>

\* nty_poll_inner up to its yield.
\* Faulty variant: the descriptor is not registered with the poller.
PollUnregistered ==
    /\ curr # None /\ ~InPoll
    /\ waiting' = [waiting EXCEPT ![fdOf[curr]] = curr]
    /\ curr' = None
    /\ UNCHANGED <<ready, epoll, events, last, pc, fdOf, avail>>

nty_poll_inner ==
    /\ curr # None /\ ~InPoll
    /\ epoll' = epoll \cup {fdOf[curr]}
    /\ waiting' = [waiting EXCEPT ![fdOf[curr]] = curr]
    /\ curr' = None
    /\ UNCHANGED <<ready, events, last, pc, fdOf, avail>>

\* nty_coroutine_create for a descriptor that accept returned.
\* Faulty variant: the new coroutine goes before the others.
CreateAtHead(c, f) ==
    /\ curr # None /\ ~InPoll
    /\ c \notin Allocated
    /\ \A d \in Allocated : fdOf[d] # f
    /\ fdOf' = [fdOf EXCEPT ![c] = f]
    /\ avail' = avail \ {f}
    /\ ready' = <<c>> \o ready
    /\ UNCHANGED <<waiting, epoll, events, curr, last, pc>>

nty_coroutine_create(c, f) ==
    /\ curr # None /\ ~InPoll
    /\ c \notin Allocated
    /\ \A d \in Allocated : fdOf[d] # f
    /\ fdOf' = [fdOf EXCEPT ![c] = f]
    /\ avail' = avail \ {f}
    /\ ready' = Append(ready, c)
    /\ UNCHANGED <<waiting, epoll, events, curr, last, pc>>

\* nty_coroutine_sleep(0).
nty_coroutine_sleep ==
    /\ curr # None /\ ~InPoll
    /\ ready' = Append(ready, curr)
    /\ curr' = None
    /\ UNCHANGED <<waiting, epoll, events, last, pc, fdOf, avail>>

\* The coroutine's function closes its descriptor and returns: _exec yields for
\* good, and nty_coroutine_resume frees the coroutine.
\* Faulty variant: it is put in the ready queue, as nty_close once did.
ExitStaysReady ==
    /\ curr # None /\ ~InPoll
    /\ fdOf' = [fdOf EXCEPT ![curr] = None]
    /\ ready' = Append(ready, curr)
    /\ curr' = None
    /\ UNCHANGED <<waiting, epoll, events, last, pc, avail>>

Exit ==
    /\ curr # None /\ ~InPoll
    /\ fdOf' = [fdOf EXCEPT ![curr] = None]
    /\ curr' = None
    /\ UNCHANGED <<ready, waiting, epoll, events, last, pc, avail>>

-----------------------------------------------------------------------------
\* The peer of an open socket sends something, or closes.
Arrive(f) ==
    /\ pc # "done"
    /\ f \notin avail
    /\ \E c \in Allocated : fdOf[c] = f
    /\ avail' = avail \cup {f}
    /\ UNCHANGED <<ready, waiting, epoll, events, curr, last, pc, fdOf>>

Scheduler ==
    \/ RunLoop
    \/ RunReady
    \/ nty_schedule_epoll
    \/ \E f \in Fds : RunEvent(f)
    \/ EventsDone

Yield == nty_poll_inner \/ nty_coroutine_sleep \/ Exit

CoNext ==
    \/ Scheduler
    \/ PollEnds
    \/ Yield
    \/ \E c \in Coroutines, f \in Fds : nty_coroutine_create(c, f)
    \/ \E f \in Fds : Arrive(f)

CoSpec == CoInit /\ [][CoNext]_coVars

\* The thread runs, and a coroutine that runs comes to its next yield: one that
\* creates coroutines for ever is not among the samples.
CoFairSpec == CoSpec /\ WF_coVars(Scheduler) /\ WF_coVars(PollEnds) /\ WF_coVars(Yield)

-----------------------------------------------------------------------------
(* Properties *)

Times(c, s) == Cardinality({i \in DOMAIN s : s[i] = c})

\* A coroutine that is not freed runs, is ready or waits for its own descriptor,
\* in one of these places and once (but for the moment between its resumption and
\* its leaving the tree); a freed one is in none of them.
OnePlace ==
    \A c \in Coroutines :
        LET places == Times(c, ready) + (IF c = curr /\ ~InPoll THEN 1 ELSE 0)
                      + Cardinality({f \in Fds : waiting[f] = c})
        IN /\ places = IF c \in Allocated THEN 1 ELSE 0
           /\ \A f \in Fds : waiting[f] = c => fdOf[c] = f

\* Every event has a coroutine that waits for it, until it is served: the coroutine
\* that nty_schedule_search_wait finds and writes to, without a test, is there.
EventsHaveWaiters ==
    /\ \A f \in events : waiting[f] # None
    /\ epoll = {f \in Fds : waiting[f] # None}

\* nty_schedule_run returns when every coroutine has returned, and not before.
DoneMeansAllReturned == pc = "done" => Allocated = {}

\* A coroutine in the ready queue gets its turn.
ReadyGetsTurn == \A c \in Coroutines : c \in ToSet(ready) ~> curr = c

\* A coroutine that waits for a descriptor with something to read is resumed,
\* if the scheduler gets to poll again and again: it does not while there is
\* always some coroutine that gives way with nty_coroutine_sleep(0).
ReadableIsResumed ==
    []<>(pc \in {"events", "done"}) =>
        \A f \in Fds : waiting[f] # None /\ f \in avail ~> waiting[f] = None \/ curr = waiting[f]

\* A round over the ready queue comes to an end: coroutines that become ready
\* meanwhile do not prolong it for ever.
RoundEnds == pc = "ready" ~> pc = "epoll"

\* Coroutines are in one place, and nty_schedule_run leaves none behind.
SchedulerSound == CoTypeOK /\ OnePlace /\ DoneMeansAllReturned
=============================================================================
