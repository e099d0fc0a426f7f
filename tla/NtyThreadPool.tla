---------------------------- MODULE NtyThreadPool ----------------------------
(***************************************************************************)
(* The thread pool of 6.1thread_pool: ntyThreadPoolCreate, Queue and       *)
(* Shutdown, called by one client thread, and the workers' loop.           *)
(*                                                                         *)
(* What runs under jobs_mtx never blocks while holding it, so a critical   *)
(* section is one step and the mutex itself needs no variable; terminate   *)
(* and the list of workers are accessed without it and get steps of their  *)
(* own.  Jobs and workers are memory: king_counter frees its job, a worker *)
(* frees itself, and the address of a freed job is used again.             *)
(***************************************************************************)
EXTENDS Integers, FiniteSets

CONSTANTS
    Workers,        \* addresses of nWorker
    Jobs,           \* addresses of nJob
    MaxJobs,        \* bound: calls of ntyThreadPoolQueue
    NULL

ASSUME JobsAssumption == MaxJobs \in Nat
ASSUME NullAssumption == NULL \notin Workers \cup Jobs

VARIABLES
    workers,        \* workqueue->workers
    wnext,          \* worker->next
    terminate,      \* worker->terminate
    wpc, job,       \* the loop of each worker and its local job
    waiting_jobs,   \* workqueue->waiting_jobs
    jnext, jprev,   \* job->next, job->prev
    allocated,      \* jobs between malloc and free
    mpc, cursor,    \* the client thread; worker in the loop of Shutdown
    queued          \* calls of ntyThreadPoolQueue so far

workerVars == <<workers, wnext, terminate>>
jobVars == <<waiting_jobs, jnext, jprev, allocated>>
mainVars == <<mpc, cursor, queued>>
vars == <<workers, wnext, terminate, wpc, job, waiting_jobs, jnext, jprev, allocated,
          mpc, cursor, queued>>

WorkerPC == {"unborn", "lock", "waiting", "run", "exit", "gone"}
MainPC == {"create", "addWorker", "idle", "tell", "walk", "broadcast", "shut"}

TypeOK ==
    /\ workers \in Workers \cup {NULL}
    /\ wnext \in [Workers -> Workers \cup {NULL}]
    /\ terminate \in [Workers -> BOOLEAN]
    /\ wpc \in [Workers -> WorkerPC]
    /\ job \in [Workers -> Jobs \cup {NULL}]
    /\ waiting_jobs \in Jobs \cup {NULL}
    /\ jnext \in [Jobs -> Jobs \cup {NULL}]
    /\ jprev \in [Jobs -> Jobs \cup {NULL}]
    /\ allocated \subseteq Jobs
    /\ mpc \in MainPC
    /\ cursor \in Workers \cup {NULL}
    /\ queued \in 0 .. MaxJobs
    /\ \A w \in Workers : (wpc[w] = "run") = (job[w] # NULL)

Unborn == {w \in Workers : wpc[w] = "unborn"}
Waiting == {w \in Workers : wpc[w] = "waiting"}

Init ==
    /\ workers = NULL
    /\ wnext = [w \in Workers |-> NULL]
    /\ terminate = [w \in Workers |-> FALSE]
    /\ wpc = [w \in Workers |-> "unborn"]
    /\ job = [w \in Workers |-> NULL]
    /\ waiting_jobs = NULL
    /\ jnext = [j \in Jobs |-> NULL]
    /\ jprev = [j \in Jobs |-> NULL]
    /\ allocated = {}
    /\ mpc = "create"
    /\ cursor = NULL
    /\ queued = 0

-----------------------------------------------------------------------------
(* ntyThreadPoolCreate *)

\* malloc and pthread_create succeed: the thread runs before it is listed.
CreateThread(w) ==
    /\ mpc = "create"
    /\ wpc[w] = "unborn"
    /\ wpc' = [wpc EXCEPT ![w] = "lock"]
    /\ cursor' = w
    /\ mpc' = "addWorker"
    /\ UNCHANGED <<workerVars, job, jobVars, queued>>

\* LL_ADD(worker, workqueue->workers)
AddWorker ==
    /\ mpc = "addWorker"
    /\ wnext' = [wnext EXCEPT ![cursor] = workers]
    /\ workers' = cursor
    /\ mpc' = IF Unborn = {} THEN "idle" ELSE "create"
    /\ UNCHANGED <<terminate, wpc, job, jobVars, cursor, queued>>

\* malloc or pthread_create fails: the pool is left with fewer workers, and
\* the caller carries on.
CreateFails ==
    /\ mpc = "create"
    /\ mpc' = "idle"
    /\ UNCHANGED <<workerVars, wpc, job, jobVars, cursor, queued>>

-----------------------------------------------------------------------------
(* ntyThreadPoolQueue *)

\* pthread_cond_signal wakes one waiting worker, if there is one.
Signal ==
    \/ /\ Waiting = {} /\ UNCHANGED wpc
    \/ \E w \in Waiting : wpc' = [wpc EXCEPT ![w] = "lock"]

\* LL_ADD(job, waiting_jobs): the old head does not learn of its new
\* predecessor, which is harmless as long as only the head is removed.
LL_ADD(j) ==
    /\ jprev' = [jprev EXCEPT ![j] = NULL]
    /\ jnext' = [jnext EXCEPT ![j] = waiting_jobs]
    /\ waiting_jobs' = j

\* Faulty variant: no worker is signalled.
QueueWithoutSignal(j) ==
    /\ mpc = "idle"
    /\ queued < MaxJobs
    /\ j \notin allocated
    /\ allocated' = allocated \cup {j}
    /\ LL_ADD(j)
    /\ queued' = queued + 1
    /\ UNCHANGED <<workerVars, wpc, job, mpc, cursor>>

\* The caller allocates the job and queues it.
ntyThreadPoolQueue(j) ==
    /\ mpc = "idle"
    /\ queued < MaxJobs
    /\ j \notin allocated
    /\ allocated' = allocated \cup {j}
    /\ LL_ADD(j)
    /\ Signal
    /\ queued' = queued + 1
    /\ UNCHANGED <<workerVars, job, mpc, cursor>>

-----------------------------------------------------------------------------
(* ntyThreadPoolShutdown *)

ShutdownBegins ==
    /\ mpc = "idle"
    /\ cursor' = workers
    /\ mpc' = IF workers = NULL THEN "broadcast" ELSE "tell"
    /\ UNCHANGED <<workerVars, wpc, job, jobVars, queued>>

\* worker->terminate = 1, without the mutex
ShutdownTells ==
    /\ mpc = "tell"
    /\ terminate' = [terminate EXCEPT ![cursor] = TRUE]
    /\ mpc' = "walk"
    /\ UNCHANGED <<workers, wnext, wpc, job, jobVars, cursor, queued>>

\* worker = worker->next.  A worker that saw terminate may have freed itself
\* by now: what is read then is whatever the allocator left there, the old
\* link or a null pointer among others.
ShutdownWalks ==
    /\ mpc = "walk"
    /\ cursor' \in {wnext[cursor]} \cup (IF wpc[cursor] = "gone" THEN {NULL} ELSE {})
    /\ mpc' = IF cursor' = NULL THEN "broadcast" ELSE "tell"
    /\ UNCHANGED <<workerVars, wpc, job, jobVars, queued>>

\* Faulty variant: only one worker is woken.
ShutdownSignals ==
    /\ mpc = "broadcast"
    /\ workers' = NULL
    /\ waiting_jobs' = NULL
    /\ Signal
    /\ mpc' = "shut"
    /\ UNCHANGED <<wnext, terminate, job, jnext, jprev, allocated, cursor, queued>>

\* Under the mutex: the lists are emptied and every waiting worker is woken.
ShutdownBroadcasts ==
    /\ mpc = "broadcast"
    /\ workers' = NULL
    /\ waiting_jobs' = NULL
    /\ wpc' = [w \in Workers |-> IF wpc[w] = "waiting" THEN "lock" ELSE wpc[w]]
    /\ mpc' = "shut"
    /\ UNCHANGED <<wnext, terminate, job, jnext, jprev, allocated, cursor, queued>>

-----------------------------------------------------------------------------
(* ntyWorkerThread *)

\* Faulty variant: the head is removed without unlinking its successor.
RemoveKeepsHead(j) ==
    /\ jnext' = [jnext EXCEPT ![j] = NULL]
    /\ UNCHANGED <<waiting_jobs, jprev>>

\* LL_REMOVE(job, waiting_jobs)
LL_REMOVE(j) ==
    LET p == jprev[j]
        n == jnext[j] IN
    /\ jnext' = [k \in Jobs |-> IF k = j THEN NULL ELSE IF k = p THEN n ELSE jnext[k]]
    /\ jprev' = [k \in Jobs |-> IF k = j THEN NULL ELSE IF k = n THEN p ELSE jprev[k]]
    /\ waiting_jobs' = IF waiting_jobs = j THEN n ELSE waiting_jobs

\* From the lock to the unlock or the wait; a woken worker starts here too.
WorkerChecks(w) ==
    /\ wpc[w] = "lock"
    /\ \/ /\ waiting_jobs = NULL /\ ~terminate[w]
          /\ wpc' = [wpc EXCEPT ![w] = "waiting"]
          /\ UNCHANGED <<job, jobVars>>
       \/ /\ terminate[w]
          /\ wpc' = [wpc EXCEPT ![w] = "exit"]
          /\ UNCHANGED <<job, jobVars>>
       \/ /\ waiting_jobs # NULL /\ ~terminate[w]
          /\ job' = [job EXCEPT ![w] = waiting_jobs]
          /\ LL_REMOVE(waiting_jobs)
          /\ wpc' = [wpc EXCEPT ![w] = "run"]
          /\ UNCHANGED allocated
    /\ UNCHANGED <<workerVars, mainVars>>

\* job->job_function(job): king_counter frees the job.
WorkerRuns(w) ==
    /\ wpc[w] = "run"
    /\ allocated' = allocated \ {job[w]}
    /\ job' = [job EXCEPT ![w] = NULL]
    /\ wpc' = [wpc EXCEPT ![w] = "lock"]
    /\ UNCHANGED <<workerVars, waiting_jobs, jnext, jprev, mainVars>>

\* free(worker); pthread_exit(NULL)
WorkerExits(w) ==
    /\ wpc[w] = "exit"
    /\ wpc' = [wpc EXCEPT ![w] = "gone"]
    /\ UNCHANGED <<workerVars, job, jobVars, mainVars>>

\* pthread_cond_wait may return without a signal.
SpuriousWakeup(w) ==
    /\ wpc[w] = "waiting"
    /\ wpc' = [wpc EXCEPT ![w] = "lock"]
    /\ UNCHANGED <<workerVars, job, jobVars, mainVars>>

-----------------------------------------------------------------------------
Create == (\E w \in Workers : CreateThread(w)) \/ AddWorker \/ CreateFails
Shutdown == ShutdownTells \/ ShutdownWalks \/ ShutdownBroadcasts
Worker(w) == WorkerChecks(w) \/ WorkerRuns(w) \/ WorkerExits(w)

\* Everything has come to rest after a shutdown.
Rest == mpc = "shut" /\ UNCHANGED vars

Next ==
    \/ Create \/ ShutdownBegins \/ Shutdown \/ Rest
    \/ \E j \in Jobs : ntyThreadPoolQueue(j)
    \/ \E w \in Workers : Worker(w) \/ SpuriousWakeup(w)

Spec == Init /\ [][Next]_vars

\* Threads are scheduled; nobody has to queue a job or to shut the pool down,
\* and no wake-up comes for nothing.
FairSpec ==
    /\ Spec
    /\ WF_vars(Create) /\ WF_vars(Shutdown)
    /\ \A w \in Workers : WF_vars(Worker(w))

-----------------------------------------------------------------------------
(* Properties *)

\* The jobs met when following next from the head of the list: the smallest
\* set that has the head and every successor.
Follows(S) ==
    /\ waiting_jobs \in S \cup {NULL}
    /\ \A j \in S : jnext[j] \in S \cup {NULL}

Listed == {j \in Jobs : \A S \in SUBSET Jobs : Follows(S) => j \in S}

Held == {job[w] : w \in Workers} \ {NULL}

\* A job is never in two hands: what is listed is allocated and not being
\* run, no two workers run the same job, and until the shutdown drops the
\* list no allocated job is forgotten.
JobsInOneHand ==
    /\ Listed \cap Held = {}
    /\ Listed \cup Held \subseteq allocated
    /\ \A v, w \in Workers : v # w /\ job[v] # NULL => job[v] # job[w]
    /\ mpc # "shut" => allocated = Listed \cup Held

\* A signal is never lost: as long as the pool is in use, workers only sleep
\* on a non-empty list if another one is awake and will look at the list.
NobodySleepsOnWork ==
    (mpc = "idle" /\ waiting_jobs # NULL /\ Waiting # {}) =>
        \E w \in Workers : wpc[w] \in {"lock", "run"}

\* A queued job is taken by a worker, or dropped by a shutdown, once the
\* client stops queueing (the list is last in, first out: under an endless
\* supply the oldest job would starve).
EveryJobTaken ==
    \A j \in Jobs : (j \in Listed /\ Unborn # Workers) ~> (j \notin Listed)

\* A worker that was told to terminate exits, although it is told without
\* the mutex that protects its wait.
ToldWorkersExit ==
    \A w \in Workers : terminate[w] ~> (wpc[w] = "gone")

\* Jobs are neither shared nor forgotten, and no worker sleeps on them.
JobsSound == TypeOK /\ JobsInOneHand /\ NobodySleepsOnWork
=============================================================================
