--------------------------- MODULE ZeroThreadPool ---------------------------
(***************************************************************************)
(* ZERO_ThreadPool of 6.4mysql_connect_pool: an owner that calls init,     *)
(* start and stop, clients that call exec and waitForAllDone, and worker   *)
(* threads that run the tasks.                                             *)
(*                                                                         *)
(* Workers and clients wait on the same condition variable.  Each wait     *)
(* tests its predicate again when it is notified, so a wake-up that comes  *)
(* for nothing changes nothing and is left out.  What runs under _mutex is *)
(* one step; _atomic is changed and _bTerminate is read without it.        *)
(***************************************************************************)
EXTENDS Integers, Sequences, FiniteSets

CONSTANTS
    Workers,        \* addresses of std::thread objects
    Clients,        \* threads that submit tasks and wait
    MaxTasks        \* bound: calls of exec

ASSUME WorkersAssumption == IsFiniteSet(Workers) /\ Workers # {}
ASSUME TasksAssumption == MaxTasks \in Nat

VARIABLES
    _tasks,         \* task k is the one of the k-th exec
    _threads,       \* the threads of the vector
    _threadNum, _bTerminate, _atomic,
    wpc, task,      \* run: where each worker is, and its task
    cpc, timed,     \* waitForAllDone: where each client is; millsecond >= 0
    opc,            \* the owner: idle, or joining the threads in stop
    submitted,      \* calls of exec so far
    finished        \* history: tasks that were run or found expired

pool == <<_tasks, _threads, _threadNum, _bTerminate, _atomic>>
clients == <<cpc, timed>>
vars == <<_tasks, _threads, _threadNum, _bTerminate, _atomic, wpc, task, cpc, timed, opc,
          submitted, finished>>

Tasks == 1 .. MaxTasks
NoTask == 0
Busy == {"begin", "run", "ran"}
WorkerPC == {"none", "check", "get", "waiting", "report", "ended"} \cup Busy
ClientPC == {"idle", "waiting", "notified", "true", "false"}

\* _atomic, changed outside the mutex, is the number of workers between the
\* increment and the decrement.
TypeOK ==
    /\ _tasks \in Seq(Tasks)
    /\ _threads \subseteq Workers
    /\ _threadNum \in 0 .. Cardinality(Workers)
    /\ _bTerminate \in BOOLEAN
    /\ _atomic = Cardinality({w \in Workers : wpc[w] \in {"run", "ran"}})
    /\ wpc \in [Workers -> WorkerPC]
    /\ task \in [Workers -> Tasks \cup {NoTask}]
    /\ cpc \in [Clients -> ClientPC]
    /\ timed \in [Clients -> BOOLEAN]
    /\ opc \in {"idle", "join"}
    /\ submitted \in 0 .. MaxTasks
    /\ finished \subseteq Tasks

Init ==
    /\ _tasks = <<>> /\ _threads = {}
    /\ _threadNum = 1 /\ _bTerminate = FALSE /\ _atomic = 0
    /\ wpc = [w \in Workers |-> "none"]
    /\ task = [w \in Workers |-> NoTask]
    /\ cpc = [c \in Clients |-> "idle"]
    /\ timed = [c \in Clients |-> FALSE]
    /\ opc = "idle"
    /\ submitted = 0
    /\ finished = {}

-----------------------------------------------------------------------------
(* _condition *)

WaitingWorkers == {w \in Workers : wpc[w] = "waiting"}
WaitingClients == {c \in Clients : cpc[c] = "waiting"}

\* from is the wpc of the step up to the notification.
NotifyAll(from) ==
    /\ wpc' = [w \in Workers |-> IF w \in WaitingWorkers THEN "get" ELSE from[w]]
    /\ cpc' = [c \in Clients |-> IF c \in WaitingClients THEN "notified" ELSE cpc[c]]

\* Any one of those that wait, worker or client.
NotifyOne ==
    \/ /\ WaitingWorkers = {} /\ WaitingClients = {}
       /\ UNCHANGED <<wpc, cpc>>
    \/ \E w \in WaitingWorkers : wpc' = [wpc EXCEPT ![w] = "get"] /\ UNCHANGED cpc
    \/ \E c \in WaitingClients : cpc' = [cpc EXCEPT ![c] = "notified"] /\ UNCHANGED wpc

-----------------------------------------------------------------------------
(* The owner *)

init(num) ==
    /\ opc = "idle"
    /\ _threads = {}
    /\ _threadNum' = num
    /\ UNCHANGED <<_tasks, _threads, _bTerminate, _atomic, wpc, task, clients, opc,
                   submitted, finished>>

start ==
    /\ opc = "idle"
    /\ _threads = {}
    /\ \E S \in SUBSET Workers :
          /\ Cardinality(S) = _threadNum
          /\ _threads' = S
          /\ wpc' = [w \in Workers |-> IF w \in S THEN "check" ELSE wpc[w]]
    /\ UNCHANGED <<_tasks, _threadNum, _bTerminate, _atomic, task, clients, opc,
                   submitted, finished>>

\* stop, also called by the destructor, up to the joins.
stop ==
    /\ opc = "idle"
    /\ _bTerminate' = TRUE
    /\ NotifyAll(wpc)
    /\ opc' = "join"
    /\ UNCHANGED <<_tasks, _threads, _threadNum, _atomic, task, timed, submitted, finished>>

\* Every thread was joined and deleted.
StopEnds ==
    /\ opc = "join"
    /\ \A w \in _threads : wpc[w] = "ended"
    /\ wpc' = [w \in Workers |-> "none"]
    /\ _threads' = {}
    /\ opc' = "idle"
    /\ UNCHANGED <<_tasks, _threadNum, _bTerminate, _atomic, task, clients, submitted,
                   finished>>

-----------------------------------------------------------------------------
(* The workers: run and get *)

\* Faulty variant: the loop has no condition.
RunChecksNothing(w) ==
    /\ wpc[w] = "check"
    /\ wpc' = [wpc EXCEPT ![w] = "get"]
    /\ UNCHANGED <<pool, task, clients, opc, submitted, finished>>

\* while (!isTerminate())
RunChecks(w) ==
    /\ wpc[w] = "check"
    /\ wpc' = [wpc EXCEPT ![w] = IF _bTerminate THEN "ended" ELSE "get"]
    /\ UNCHANGED <<pool, task, clients, opc, submitted, finished>>

\* Faulty variant: the front task is copied and not taken off the queue.
TakeWithoutPop(w) ==
    /\ task' = [task EXCEPT ![w] = Head(_tasks)]
    /\ UNCHANGED _tasks

Take(w) ==
    /\ task' = [task EXCEPT ![w] = Head(_tasks)]
    /\ _tasks' = Tail(_tasks)

\* get, from the lock or from a notification to the return or the wait.
get(w) ==
    /\ wpc[w] = "get"
    /\ \/ /\ _bTerminate
          /\ wpc' = [wpc EXCEPT ![w] = "check"]
          /\ UNCHANGED <<_tasks, task>>
       \/ /\ ~_bTerminate /\ _tasks = <<>>
          /\ wpc' = [wpc EXCEPT ![w] = "waiting"]
          /\ UNCHANGED <<_tasks, task>>
       \/ /\ ~_bTerminate /\ _tasks # <<>>
          /\ Take(w)
          /\ wpc' = [wpc EXCEPT ![w] = "begin"]
    /\ UNCHANGED <<_threads, _threadNum, _bTerminate, _atomic, clients, opc, submitted,
                   finished>>

\* ++_atomic
RunBegins(w) ==
    /\ wpc[w] = "begin"
    /\ _atomic' = _atomic + 1
    /\ wpc' = [wpc EXCEPT ![w] = "run"]
    /\ UNCHANGED <<_tasks, _threads, _threadNum, _bTerminate, task, clients, opc, submitted,
                   finished>>

\* The task is run, throws, or is dropped because its time has passed.
RunTask(w) ==
    /\ wpc[w] = "run"
    /\ finished' = finished \cup {task[w]}
    /\ wpc' = [wpc EXCEPT ![w] = "ran"]
    /\ UNCHANGED <<pool, task, clients, opc, submitted>>

\* --_atomic
RunEnds(w) ==
    /\ wpc[w] = "ran"
    /\ _atomic' = _atomic - 1
    /\ task' = [task EXCEPT ![w] = NoTask]
    /\ wpc' = [wpc EXCEPT ![w] = "report"]
    /\ UNCHANGED <<_tasks, _threads, _threadNum, _bTerminate, clients, opc, submitted,
                   finished>>

\* Faulty variants: one thread is notified, or nobody is.
ReportNotifiesOne(w) ==
    /\ wpc[w] = "report"
    /\ IF _atomic = 0 /\ _tasks = <<>> /\ WaitingWorkers \cup WaitingClients # {}
         THEN \/ /\ \E v \in WaitingWorkers :
                       wpc' = [wpc EXCEPT ![v] = "get", ![w] = "check"]
                 /\ UNCHANGED cpc
              \/ /\ \E c \in WaitingClients : cpc' = [cpc EXCEPT ![c] = "notified"]
                 /\ wpc' = [wpc EXCEPT ![w] = "check"]
         ELSE /\ wpc' = [wpc EXCEPT ![w] = "check"]
              /\ UNCHANGED cpc
    /\ UNCHANGED <<pool, task, timed, opc, submitted, finished>>

\* Under the mutex: the worker that finds everything done tells all.
RunReports(w) ==
    /\ wpc[w] = "report"
    /\ LET from == [wpc EXCEPT ![w] = "check"] IN
          IF _atomic = 0 /\ _tasks = <<>>
            THEN NotifyAll(from)
            ELSE wpc' = from /\ UNCHANGED cpc
    /\ UNCHANGED <<pool, task, timed, opc, submitted, finished>>

-----------------------------------------------------------------------------
(* The clients *)

\* Faulty variant: nobody is notified.
ExecWithoutNotify(c) ==
    /\ cpc[c] = "idle"
    /\ submitted < MaxTasks
    /\ submitted' = submitted + 1
    /\ _tasks' = Append(_tasks, submitted')
    /\ UNCHANGED <<_threads, _threadNum, _bTerminate, _atomic, wpc, task, clients, opc,
                   finished>>

exec(c) ==
    /\ cpc[c] = "idle"
    /\ submitted < MaxTasks
    /\ submitted' = submitted + 1
    /\ _tasks' = Append(_tasks, submitted')
    /\ NotifyOne
    /\ UNCHANGED <<_threads, _threadNum, _bTerminate, _atomic, task, timed, opc, finished>>

waitForAllDone(c, timeout) ==
    /\ cpc[c] = "idle"
    /\ timed' = [timed EXCEPT ![c] = timeout]
    /\ cpc' = [cpc EXCEPT ![c] = IF _tasks = <<>> THEN "true" ELSE "waiting"]
    /\ UNCHANGED <<pool, wpc, task, opc, submitted, finished>>

WaitNotified(c) ==
    /\ cpc[c] = "notified"
    /\ cpc' = [cpc EXCEPT ![c] = IF _tasks = <<>> THEN "true" ELSE "waiting"]
    /\ UNCHANGED <<pool, wpc, task, timed, opc, submitted, finished>>

\* wait_for runs out; it returns what its predicate says by then.
WaitTimesOut(c) ==
    /\ cpc[c] \in {"waiting", "notified"}
    /\ timed[c]
    /\ cpc' = [cpc EXCEPT ![c] = IF _tasks = <<>> THEN "true" ELSE "false"]
    /\ UNCHANGED <<pool, wpc, task, timed, opc, submitted, finished>>

\* The client has used the answer and goes on.
GoOn(c) ==
    /\ cpc[c] \in {"true", "false"}
    /\ cpc' = [cpc EXCEPT ![c] = "idle"]
    /\ UNCHANGED <<pool, wpc, task, timed, opc, submitted, finished>>

-----------------------------------------------------------------------------
Owner == (\E num \in 0 .. Cardinality(Workers) : init(num)) \/ start \/ stop \/ StopEnds

Worker(w) ==
    RunChecks(w) \/ get(w) \/ RunBegins(w) \/ RunTask(w) \/ RunEnds(w) \/ RunReports(w)

Client(c) ==
    \/ exec(c) \/ WaitNotified(c) \/ WaitTimesOut(c) \/ GoOn(c)
    \/ \E timeout \in BOOLEAN : waitForAllDone(c, timeout)

Next ==
    \/ Owner
    \/ \E w \in Workers : Worker(w)
    \/ \E c \in Clients : Client(c)

Spec == Init /\ [][Next]_vars

\* Threads are scheduled, tasks come to an end and time passes; nobody has to
\* submit a task, to wait, or to start or stop the pool.
FairSpec ==
    /\ Spec
    /\ WF_vars(StopEnds)
    /\ \A w \in Workers : WF_vars(Worker(w))
    /\ \A c \in Clients : WF_vars(WaitNotified(c)) /\ WF_vars(WaitTimesOut(c))

-----------------------------------------------------------------------------
(* Properties *)

Queued == {_tasks[i] : i \in 1 .. Len(_tasks)}
InHand == {task[w] : w \in {v \in Workers : wpc[v] \in {"begin", "run"}}}

\* Every submitted task is at one place: on the queue once, with one worker
\* that has yet to run it, or done; none is lost or run twice.
TasksAccounted ==
    /\ Queued \cup InHand \cup finished = 1 .. submitted
    /\ Len(_tasks) + Cardinality({w \in Workers : wpc[w] \in {"begin", "run"}})
          + Cardinality(finished) = submitted

Awake == {w \in _threads : wpc[w] # "waiting"}

\* With one condition variable for workers and clients a notification for a
\* worker may go to a client and the other way round.  All the same, while
\* the pool runs, a queued task or a client that is still to be notified
\* always finds a worker awake that will come to see to it.
NobodyStranded ==
    ~_bTerminate /\ _threads # {} /\ (_tasks # <<>> \/ WaitingClients # {}) => Awake # {}

\* A task submitted to a running pool is done unless the pool is stopped.
EveryTaskDone ==
    \A t \in Tasks : (t \in Queued /\ _threads # {}) ~> (t \in finished \/ _bTerminate)

\* A client that waits for a running pool returns once no more tasks come,
\* unless the pool is stopped.
WaitersReturn ==
    \A c \in Clients :
        (cpc[c] \in {"waiting", "notified"} /\ _threads # {})
            ~> (cpc[c] \notin {"waiting", "notified"} \/ _bTerminate)

\* stop returns: every worker ends, those it finds waiting included.
StopReturns == (opc = "join") ~> (opc = "idle")

\* Tasks are neither lost nor run twice, and none is left with all workers asleep.
TasksSound == TypeOK /\ TasksAccounted /\ NobodyStranded
=============================================================================
