------------------------------ MODULE NtyProof ------------------------------
(***************************************************************************)
(* The worker pool and the coroutine scheduler.                            *)
(*                                                                         *)
(* For any number of workers and jobs, with every interleaving of creation,*)
(* queueing, running and shutdown: a job is on the list or with one worker,*)
(* none is forgotten before the shutdown, and no worker sleeps on work     *)
(* unless another is awake.                                                *)
(*                                                                         *)
(* For any set of coroutines and descriptors: a coroutine is in one place  *)
(* of the scheduler at a time, every reported event finds the coroutine    *)
(* that waits for it, and nty_schedule_run leaves no coroutine behind.     *)
(***************************************************************************)
EXTENDS NtyThreadPool, NtyCoSchedule, SequenceTheorems, FiniteSetTheorems, TLAPS

-----------------------------------------------------------------------------
(* The worker pool *)

\* The list is one: nothing links to its head, no two jobs have the same
\* successor, and prev is null throughout, since LL_ADD sets no back link.
OneList ==
    /\ \A j \in Listed : jnext[j] # waiting_jobs
    /\ \A j, k \in Listed : jnext[j] = jnext[k] /\ jnext[j] # NULL => j = k
    /\ \A j \in Listed : jprev[j] = NULL

\* Where the client thread is tells which jobs and workers there can be.
Phases ==
    /\ mpc \in {"create", "addWorker", "shut"} => waiting_jobs = NULL
    /\ mpc \in {"create", "addWorker", "idle"} =>
          \A w \in Workers : ~terminate[w] /\ wpc[w] \notin {"exit", "gone"}
    /\ mpc \in {"addWorker", "tell", "walk"} => cursor # NULL

JobInv ==
    /\ TypeOK
    /\ OneList
    /\ Phases
    /\ JobsInOneHand
    /\ NobodySleepsOnWork

-----------------------------------------------------------------------------
(* The list *)

\* What is listed is closed under next, and is in every set that is.
LEMMA ListedFollows ==
  ASSUME TypeOK
  PROVE  /\ Listed \subseteq Jobs /\ Follows(Listed) /\ NULL \notin Listed
         /\ \A S : Follows(S) => Listed \subseteq S
  <1>1. Listed \subseteq Jobs /\ NULL \notin Listed
    BY NullAssumption DEF Listed
  <1>2. Follows(Listed)
    BY DEF TypeOK, Listed, Follows
  <1>3. ASSUME NEW S, Follows(S) PROVE Listed \subseteq S
    <2>1. S \cap Jobs \in SUBSET Jobs /\ Follows(S \cap Jobs)
      BY <1>3 DEF TypeOK, Follows
    <2> QED
      BY <2>1 DEF Listed
  <1> QED
    BY <1>1, <1>2, <1>3

\* The same for the next state; stated apart because the operator is primed.
LEMMA ListedFollowsNext ==
  ASSUME TypeOK'
  PROVE  /\ Listed' \subseteq Jobs /\ Follows(Listed)' /\ NULL \notin Listed'
         /\ waiting_jobs' = NULL => Listed' = {}
         /\ \A S \in SUBSET Jobs :
               /\ waiting_jobs' \in S \cup {NULL}
               /\ \A j \in S : jnext'[j] \in S \cup {NULL}
               => Listed' \subseteq S
  <1>1. Listed' \subseteq Jobs /\ NULL \notin Listed'
    BY NullAssumption DEF Listed
  <1>2. Follows(Listed)'
    BY DEF TypeOK, Listed, Follows
  <1>3. ASSUME NEW S \in SUBSET Jobs, waiting_jobs' \in S \cup {NULL},
               \A j \in S : jnext'[j] \in S \cup {NULL}
        PROVE  Listed' \subseteq S
    BY <1>3 DEF Listed, Follows
  <1>4. ASSUME waiting_jobs' = NULL PROVE Listed' = {}
    <2>1. {} \in SUBSET Jobs /\ waiting_jobs' \in {} \cup {NULL}
      BY <1>4
    <2>2. Listed' \subseteq {}
      BY <1>3, <2>1
    <2> QED
      BY <2>2
  <1> QED
    BY <1>1, <1>2, <1>3, <1>4

\* An empty list has nothing on it, and the head is on its list.
LEMMA HeadListed ==
  ASSUME TypeOK
  PROVE  /\ waiting_jobs = NULL => Listed = {}
         /\ waiting_jobs # NULL => waiting_jobs \in Listed
  <1>1. waiting_jobs = NULL => Follows({})
    BY DEF Follows
  <1>2. waiting_jobs \in Listed \cup {NULL}
    BY ListedFollows DEF Follows
  <1>3. waiting_jobs = NULL => Listed \subseteq {}
    BY <1>1, ListedFollows
  <1> QED
    BY <1>2, <1>3

\* LL_ADD puts a job on the list that was not there.
LEMMA AddLists ==
  ASSUME TypeOK, TypeOK', OneList, NEW j \in Jobs, j \notin Listed, LL_ADD(j)
  PROVE  Listed' = Listed \cup {j} /\ OneList'
  <1>1. /\ Listed \subseteq Jobs /\ NULL \notin Listed
        /\ waiting_jobs \in Listed \cup {NULL}
        /\ \A k \in Listed : jnext[k] \in Listed \cup {NULL}
        /\ \A S : Follows(S) => Listed \subseteq S
    BY ListedFollows DEF Follows
  <1>2. /\ waiting_jobs' = j /\ jnext'[j] = waiting_jobs /\ jprev'[j] = NULL
        /\ \A k \in Jobs : k # j => jnext'[k] = jnext[k] /\ jprev'[k] = jprev[k]
    BY DEF TypeOK, LL_ADD
  <1>3. Listed' \subseteq Listed \cup {j}
    <2> DEFINE S == Listed \cup {j}
    <2>1. S \in SUBSET Jobs /\ waiting_jobs' \in S \cup {NULL}
      BY <1>1, <1>2
    <2>2. \A k \in S : jnext'[k] \in S \cup {NULL}
      BY <1>1, <1>2
    <2> QED
      BY <2>1, <2>2, ListedFollowsNext
  <1>4. /\ Listed' \subseteq Jobs /\ j \in Listed'
        /\ \A k \in Listed' : jnext'[k] \in Listed' \cup {NULL}
    BY <1>2, ListedFollowsNext, NullAssumption DEF Follows
  <1>5. Follows(Listed \cap Listed')
    BY <1>1, <1>2, <1>4 DEF Follows
  <1>6. Listed' = Listed \cup {j}
    BY <1>1, <1>3, <1>4, <1>5
  <1>7. OneList'
    BY <1>1, <1>2, <1>6, NullAssumption DEF OneList
  <1> QED
    BY <1>6, <1>7

\* LL_REMOVE takes the head off the list, and nothing else.
LEMMA RemoveUnlists ==
  ASSUME TypeOK, TypeOK', OneList, waiting_jobs # NULL, LL_REMOVE(waiting_jobs)
  PROVE  Listed' = Listed \ {waiting_jobs} /\ OneList'
  <1> DEFINE j == waiting_jobs
  <1>1. /\ Listed \subseteq Jobs /\ NULL \notin Listed
        /\ j \in Listed
        /\ \A k \in Listed : jnext[k] \in Listed \cup {NULL}
        /\ \A S : Follows(S) => Listed \subseteq S
    BY ListedFollows, HeadListed DEF Follows
  <1>2. /\ j \in Jobs /\ waiting_jobs' = jnext[j] /\ jprev[j] = NULL
        /\ \A k \in Jobs : k # j => jnext'[k] = jnext[k]
        /\ \A k \in Listed : jprev'[k] = NULL
    BY <1>1, NullAssumption DEF TypeOK, LL_REMOVE, OneList
  <1>3. Listed' \subseteq Listed \ {j}
    <2> DEFINE S == Listed \ {j}
    <2>1. S \in SUBSET Jobs /\ waiting_jobs' \in S \cup {NULL}
      BY <1>1, <1>2 DEF OneList
    <2>2. \A k \in S : jnext'[k] \in S \cup {NULL}
      BY <1>1, <1>2 DEF OneList
    <2> QED
      BY <2>1, <2>2, ListedFollowsNext
  <1>4. /\ Listed' \subseteq Jobs /\ waiting_jobs' \in Listed' \cup {NULL}
        /\ \A k \in Listed' : jnext'[k] \in Listed' \cup {NULL}
    BY ListedFollowsNext DEF Follows
  <1>5. Follows(Listed' \cup {j})
    <2>1. ASSUME NEW k \in Listed' \cup {j} PROVE jnext[k] \in Listed' \cup {j, NULL}
      BY <1>2, <1>3, <1>4
    <2> QED
      BY <2>1 DEF Follows
  <1>6. Listed' = Listed \ {j}
    BY <1>1, <1>3, <1>5
  <1>7. OneList'
    <2>1. \A k \in Listed' : k \in Listed /\ k # j /\ k \in Jobs /\ jnext'[k] = jnext[k]
      BY <1>1, <1>2, <1>6
    <2>2. \A k \in Listed' : jnext'[k] # waiting_jobs'
      <3> SUFFICES ASSUME NEW k \in Listed', jnext[k] = jnext[j] PROVE FALSE
        BY <1>2, <2>1
      <3>1. jnext[k] # NULL
        BY <1>2, ListedFollowsNext
      <3> QED
        BY <1>1, <2>1, <3>1 DEF OneList
    <2> QED
      BY <1>2, <2>1, <2>2 DEF OneList
  <1> QED
    BY <1>6, <1>7

-----------------------------------------------------------------------------
(* Each step preserves JobInv *)

LEMMA InitInv == Init => JobInv
  <1> SUFFICES ASSUME Init PROVE JobInv
    OBVIOUS
  <1>1. terminate \in [Workers -> BOOLEAN]
    BY Zenon DEF Init
  <1>2. TypeOK
    BY <1>1, JobsAssumption DEF Init, TypeOK, WorkerPC, MainPC
  <1>3. Listed = {}
    BY <1>2, HeadListed DEF Init
  <1>4. Held = {}
    BY DEF Init, Held
  <1> QED
    BY <1>2, <1>3, <1>4
       DEF Init, JobInv, OneList, Phases, JobsInOneHand, NobodySleepsOnWork

\* Steps that leave the jobs alone.
LEMMA JobsStay ==
  ASSUME JobInv, UNCHANGED <<job, jobVars>>
  PROVE  /\ OneList' /\ Listed' = Listed
         /\ (mpc' # "shut" => mpc # "shut") => JobsInOneHand'
  <1>1. Listed' = Listed
    BY DEF jobVars, Listed, Follows
  <1> QED
    BY <1>1 DEF JobInv, jobVars, OneList, JobsInOneHand, Held

LEMMA CreateInv == JobInv /\ Create => JobInv'
  <1> SUFFICES ASSUME JobInv, Create PROVE JobInv'
    OBVIOUS
  <1>1. UNCHANGED <<job, jobVars>> /\ mpc # "shut" /\ mpc \in {"create", "addWorker"}
    BY DEF Create, CreateThread, AddWorker, CreateFails
  <1>2. OneList' /\ JobsInOneHand'
    BY <1>1, JobsStay
  <1>3. waiting_jobs = NULL /\ UNCHANGED waiting_jobs
    BY <1>1 DEF JobInv, Phases, jobVars
  <1>4. NobodySleepsOnWork'
    BY <1>3 DEF NobodySleepsOnWork
  <1>5. CASE \E w \in Workers : CreateThread(w)
    <2>1. PICK w \in Workers : CreateThread(w)
      BY <1>5
    <2> USE <2>1 DEF CreateThread, workerVars, jobVars
    <2>2. TypeOK'
      BY DEF JobInv, TypeOK, MainPC, WorkerPC
    <2>3. Phases'
      BY <1>3, NullAssumption DEF JobInv, TypeOK, Phases
    <2> QED
      BY <1>2, <1>4, <2>2, <2>3 DEF JobInv
  <1>6. CASE AddWorker \/ CreateFails
    <2>1. TypeOK'
      BY <1>6 DEF AddWorker, CreateFails, workerVars, jobVars, JobInv, TypeOK, MainPC
    <2>2. Phases'
      BY <1>3, <1>6 DEF AddWorker, CreateFails, workerVars, JobInv, Phases
    <2> QED
      BY <1>2, <1>4, <2>1, <2>2 DEF JobInv
  <1> QED
    BY <1>5, <1>6 DEF Create

\* A job is queued.  Its address was free, so that it is neither listed nor held;
\* the signalled worker, if there is one, is awake.
LEMMA QueueInv == ASSUME JobInv, NEW j \in Jobs, ntyThreadPoolQueue(j) PROVE JobInv'
  <1> USE DEF JobInv, ntyThreadPoolQueue, workerVars
  <1>1. /\ wpc' \in [Workers -> WorkerPC]
        /\ \A w \in Workers : wpc'[w] = wpc[w] \/ (wpc[w] = "waiting" /\ wpc'[w] = "lock")
        /\ \A w \in Workers : wpc'[w] = "waiting" => \E v \in Workers : wpc'[v] = "lock"
    <2>1. CASE Waiting = {} /\ UNCHANGED wpc
      BY <2>1 DEF TypeOK, Waiting
    <2>2. CASE \E w \in Waiting : wpc' = [wpc EXCEPT ![w] = "lock"]
      BY <2>2 DEF TypeOK, Waiting, WorkerPC
    <2> QED
      BY <2>1, <2>2 DEF Signal
  <1>2. TypeOK'
    <2>1. /\ waiting_jobs' \in Jobs \cup {NULL}
          /\ jnext' \in [Jobs -> Jobs \cup {NULL}] /\ jprev' \in [Jobs -> Jobs \cup {NULL}]
      BY DEF TypeOK, LL_ADD
    <2>2. queued' \in 0 .. MaxJobs /\ allocated' \subseteq Jobs
      BY JobsAssumption DEF TypeOK
    <2>3. \A w \in Workers : (wpc'[w] = "run") = (job'[w] # NULL)
      <3>1. ASSUME NEW w \in Workers PROVE wpc'[w] = "run" <=> wpc[w] = "run"
        BY <1>1
      <3> QED
        BY <3>1 DEF TypeOK
    <2> QED
      BY <1>1, <2>1, <2>2, <2>3 DEF TypeOK
  <1>3. j \notin Listed \cup Held
    BY DEF JobsInOneHand
  <1>4. Listed' = Listed \cup {j} /\ OneList'
    BY <1>2, <1>3, AddLists
  <1>5. Held' = Held
    BY DEF Held
  <1>6. JobsInOneHand'
    BY <1>3, <1>4, <1>5 DEF JobsInOneHand
  <1>7. Phases' /\ NobodySleepsOnWork'
    BY <1>1 DEF Phases, NobodySleepsOnWork, Waiting
  <1> QED
    BY <1>2, <1>4, <1>6, <1>7

LEMMA ShutdownInv ==
  JobInv /\ (ShutdownBegins \/ ShutdownTells \/ ShutdownWalks \/ UNCHANGED vars) => JobInv'
  <1> SUFFICES ASSUME JobInv,
                      ShutdownBegins \/ ShutdownTells \/ ShutdownWalks \/ UNCHANGED vars
               PROVE  JobInv'
    OBVIOUS
  <1> USE DEF ShutdownBegins, ShutdownTells, ShutdownWalks, vars, workerVars, jobVars
  <1>1. UNCHANGED <<job, jobVars>> /\ (mpc' # "shut" => mpc # "shut")
    OBVIOUS
  <1>2. OneList' /\ JobsInOneHand'
    BY <1>1, JobsStay
  <1>3. TypeOK'
    <2>1. cursor' \in Workers \cup {NULL}
      BY DEF JobInv, TypeOK, Phases
    <2>2. terminate' \in [Workers -> BOOLEAN]
      BY DEF JobInv, TypeOK
    <2>3. mpc' \in MainPC /\ UNCHANGED <<workers, wnext, wpc, queued>>
      BY DEF JobInv, TypeOK, MainPC
    <2> QED
      BY <1>1, <2>1, <2>2, <2>3 DEF JobInv, TypeOK
  <1>4. Phases'
    BY DEF JobInv, TypeOK, Phases
  <1>5. NobodySleepsOnWork'
    BY DEF JobInv, NobodySleepsOnWork, Waiting
  <1> QED
    BY <1>2, <1>3, <1>4, <1>5 DEF JobInv

\* The jobs still listed are dropped.
LEMMA ShutdownBroadcastsInv == JobInv /\ ShutdownBroadcasts => JobInv'
  <1> SUFFICES ASSUME JobInv, ShutdownBroadcasts PROVE JobInv'
    OBVIOUS
  <1> USE DEF JobInv, ShutdownBroadcasts
  <1>1. /\ wpc' \in [Workers -> WorkerPC]
        /\ \A w \in Workers : wpc'[w] = "run" <=> wpc[w] = "run"
    BY DEF TypeOK, WorkerPC
  <1>2. TypeOK'
    BY <1>1 DEF TypeOK, MainPC
  <1>3. Listed' = {} /\ Held' = Held
    BY <1>2, ListedFollowsNext DEF Held
  <1> QED
    BY <1>2, <1>3 DEF OneList, Phases, JobsInOneHand, NobodySleepsOnWork

\* A worker takes the head of the list.
LEMMA TakeInv ==
  ASSUME JobInv, NEW w \in Workers, wpc[w] = "lock", waiting_jobs # NULL,
         job' = [job EXCEPT ![w] = waiting_jobs], LL_REMOVE(waiting_jobs),
         wpc' = [wpc EXCEPT ![w] = "run"], UNCHANGED <<allocated, workerVars, mainVars>>
  PROVE  JobInv'
  <1> USE DEF JobInv, workerVars, mainVars
  <1> DEFINE j == waiting_jobs
  <1>1. j \in Jobs /\ j \in Listed /\ Listed \subseteq Jobs
    BY HeadListed, ListedFollows DEF TypeOK
  <1>2. /\ wpc' \in [Workers -> WorkerPC] /\ wpc'[w] = "run"
        /\ job' \in [Workers -> Jobs \cup {NULL}] /\ job'[w] = j /\ job[w] = NULL
        /\ \A v \in Workers : v # w => wpc'[v] = wpc[v] /\ job'[v] = job[v]
    BY <1>1 DEF TypeOK, WorkerPC
  <1>3. TypeOK'
    <2>1. /\ waiting_jobs' \in Jobs \cup {NULL}
          /\ jnext' \in [Jobs -> Jobs \cup {NULL}] /\ jprev' \in [Jobs -> Jobs \cup {NULL}]
      BY <1>1 DEF TypeOK, LL_REMOVE
    <2>2. \A v \in Workers : (wpc'[v] = "run") = (job'[v] # NULL)
      BY <1>2 DEF TypeOK
    <2> QED
      BY <1>2, <2>1, <2>2 DEF TypeOK
  <1>4. Listed' = Listed \ {j} /\ OneList'
    BY <1>3, RemoveUnlists
  <1>5. Held' = Held \cup {j}
    BY <1>1, <1>2, NullAssumption DEF Held
  <1>6. JobsInOneHand'
    BY <1>1, <1>2, <1>4, <1>5 DEF JobsInOneHand, Held
  <1>7. waiting_jobs' # NULL => mpc \notin {"create", "addWorker", "shut"}
    BY DEF Phases
  <1>8. Phases' /\ NobodySleepsOnWork'
    BY <1>2, <1>7 DEF Phases, NobodySleepsOnWork
  <1> QED
    BY <1>3, <1>4, <1>6, <1>8

\* A worker moves on without a job.
LEMMA WorkerMoves ==
  ASSUME JobInv, NEW w \in Workers, NEW label \in {"lock", "waiting", "exit", "gone"}, wpc[w] # "run",
         label \in {"exit", "gone"} => terminate[w] \/ wpc[w] = "exit",
         label = "waiting" => waiting_jobs = NULL,
         wpc' = [wpc EXCEPT ![w] = label], UNCHANGED <<workerVars, job, jobVars, mainVars>>
  PROVE  JobInv'
  <1> USE DEF JobInv, workerVars, jobVars, mainVars
  <1>1. /\ wpc' \in [Workers -> WorkerPC] /\ wpc'[w] = label
        /\ \A v \in Workers : v # w => wpc'[v] = wpc[v]
    BY DEF TypeOK, WorkerPC
  <1>2. OneList' /\ JobsInOneHand'
    BY JobsStay
  <1>3. TypeOK'
    BY <1>1 DEF TypeOK
  <1>4. Phases'
    BY <1>1 DEF Phases
  <1>5. NobodySleepsOnWork'
    BY <1>1, <1>4 DEF Phases, NobodySleepsOnWork, Waiting
  <1> QED
    BY <1>2, <1>3, <1>4, <1>5

\* The job is run and freed.
LEMMA WorkerRunsInv == ASSUME JobInv, NEW w \in Workers, WorkerRuns(w) PROVE JobInv'
  <1> USE DEF JobInv, WorkerRuns, workerVars, mainVars
  <1>1. /\ wpc' \in [Workers -> WorkerPC] /\ wpc'[w] = "lock"
        /\ job' \in [Workers -> Jobs \cup {NULL}] /\ job'[w] = NULL /\ job[w] \in Jobs
        /\ job[w] # NULL
        /\ \A v \in Workers : v # w => wpc'[v] = wpc[v] /\ job'[v] = job[v]
    BY DEF TypeOK, WorkerPC
  <1>2. TypeOK'
    <2>1. \A v \in Workers : (wpc'[v] = "run") = (job'[v] # NULL)
      BY <1>1 DEF TypeOK
    <2> QED
      BY <1>1, <2>1 DEF TypeOK
  <1>3. Listed' = Listed
    BY DEF Listed, Follows
  <1>4. OneList'
    BY <1>3 DEF OneList
  <1>5. Held' = Held \ {job[w]} /\ job[w] \in Held
    BY <1>1 DEF Held, JobsInOneHand
  <1>6. JobsInOneHand'
    BY <1>1, <1>3, <1>5 DEF JobsInOneHand
  <1>7. Phases' /\ NobodySleepsOnWork'
    BY <1>1 DEF Phases, NobodySleepsOnWork
  <1> QED
    BY <1>2, <1>4, <1>6, <1>7

LEMMA WorkerInv ==
  ASSUME JobInv, NEW w \in Workers, Worker(w) \/ SpuriousWakeup(w) PROVE JobInv'
  <1>1. CASE WorkerChecks(w) /\ waiting_jobs = NULL /\ ~terminate[w]
    BY <1>1, WorkerMoves DEF WorkerChecks, WorkerPC
  <1>2. CASE WorkerChecks(w) /\ terminate[w]
    BY <1>2, WorkerMoves DEF WorkerChecks, WorkerPC
  <1>3. CASE WorkerChecks(w) /\ waiting_jobs # NULL /\ ~terminate[w]
    BY <1>3, TakeInv DEF WorkerChecks
  <1>4. CASE WorkerRuns(w)
    BY <1>4, WorkerRunsInv
  <1>5. CASE WorkerExits(w)
    BY <1>5, WorkerMoves DEF WorkerExits, WorkerPC
  <1>6. CASE SpuriousWakeup(w)
    BY <1>6, WorkerMoves DEF SpuriousWakeup, WorkerPC
  <1> QED
    BY <1>1, <1>2, <1>3, <1>4, <1>5, <1>6 DEF Worker, WorkerChecks

-----------------------------------------------------------------------------
(* The theorems *)

LEMMA NextInv == JobInv /\ [Next]_vars => JobInv'
  <1> SUFFICES ASSUME JobInv, [Next]_vars PROVE JobInv'
    OBVIOUS
  <1>1. CASE Create
    BY <1>1, CreateInv
  <1>2. CASE ShutdownBegins \/ Shutdown \/ Rest \/ UNCHANGED vars
    BY <1>2, ShutdownInv, ShutdownBroadcastsInv DEF Shutdown, Rest
  <1>3. CASE \E j \in Jobs : ntyThreadPoolQueue(j)
    BY <1>3, QueueInv
  <1>4. CASE \E w \in Workers : Worker(w) \/ SpuriousWakeup(w)
    BY <1>4, WorkerInv
  <1> QED
    BY <1>1, <1>2, <1>3, <1>4 DEF Next

\* The strengthened invariant: the list is one chain without back links, and
\* where the client is bounds what the workers can be told.
THEOREM Inductive == Spec => []JobInv
  BY InitInv, NextInv, PTL DEF Spec

\* For any number of workers, job addresses and calls of ntyThreadPoolQueue,
\* with spurious wake-ups and workers that could not be created: a job is on the
\* list or run by one worker, none is forgotten before the shutdown drops the
\* list, and workers sleep on a non-empty list only if another one is awake.
THEOREM Sound == Spec => []JobsSound
  <1>1. JobInv => JobsSound
    BY DEF JobInv, JobsSound
  <1> QED
    BY <1>1, Inductive, PTL

-----------------------------------------------------------------------------
(* The coroutine scheduler *)

Waits(c) == waiting[fdOf[c]] = c

\* No two live coroutines share a descriptor.
FdsDistinct ==
    \A c, d \in Coroutines : fdOf[c] # None /\ fdOf[c] = fdOf[d] => c = d

\* A coroutine in the tree of waiters waits for its own descriptor.
WaitsForOwn ==
    \A f \in Fds : waiting[f] # None =>
        waiting[f] \in Coroutines /\ fdOf[waiting[f]] = f

\* The ready queue holds live coroutines, each once; they neither run nor wait.
ReadyIdle ==
    \A i \in 1..Len(ready) :
        /\ fdOf[ready[i]] # None
        /\ ready[i] # curr
        /\ ~Waits(ready[i])
        /\ \A j \in 1..Len(ready) : ready[i] = ready[j] => i = j

\* A live coroutine is somewhere.
NoneLost ==
    \A c \in Coroutines : fdOf[c] # None =>
        c = curr \/ Waits(c) \/ \E i \in 1..Len(ready) : ready[i] = c

\* Events are left over only while their round is served, and the one being
\* served has left the list.
EventsInRound ==
    /\ pc # "events" => events = {}
    /\ InPoll => fdOf[curr] \notin events
    /\ pc = "done" => curr = None

SchedInv ==
    /\ CoTypeOK
    /\ FdsDistinct
    /\ WaitsForOwn
    /\ ReadyIdle
    /\ NoneLost
    /\ EventsInRound
    /\ EventsHaveWaiters
    /\ DoneMeansAllReturned

-----------------------------------------------------------------------------
\* The state in which main calls nty_schedule_run.
LEMMA CoInitInv == CoInit => SchedInv
  <1> SUFFICES ASSUME CoInit PROVE SchedInv
    OBVIOUS
  <1>1. CoTypeOK
    BY FirstAssumption, NoneAssumption DEF CoInit, CoTypeOK, Allocated
  <1>2. FdsDistinct /\ WaitsForOwn /\ EventsInRound /\ EventsHaveWaiters
        /\ DoneMeansAllReturned
    BY DEF CoInit, FdsDistinct, WaitsForOwn, EventsInRound, EventsHaveWaiters,
           DoneMeansAllReturned, InPoll
  <1>3. Len(ready) = 1 /\ ready[1] = First
    BY DEF CoInit
  <1>4. ReadyIdle
    BY <1>3, FirstAssumption, NoneAssumption DEF CoInit, ReadyIdle, Waits
  <1>5. NoneLost
    BY <1>3, FirstAssumption, NoneAssumption DEF CoInit, NoneLost
  <1> QED
    BY <1>1, <1>2, <1>4, <1>5 DEF SchedInv

\* The loop's test: when nothing is ready and nothing waits, nothing is left.
LEMMA RunLoopInv == SchedInv /\ RunLoop => SchedInv'
  <1> SUFFICES ASSUME SchedInv, RunLoop PROVE SchedInv'
    OBVIOUS
  <1> USE DEF SchedInv, RunLoop
  <1>1. ready # <<>> => Last(ready) \in Coroutines
    BY ElementOfSeq, EmptySeq DEF CoTypeOK, Last
  <1>2. CoTypeOK'
    BY <1>1 DEF CoTypeOK, Allocated
  <1>3. (FdsDistinct /\ WaitsForOwn /\ ReadyIdle /\ NoneLost)'
    BY DEF FdsDistinct, WaitsForOwn, ReadyIdle, NoneLost, Waits
  <1>4. EventsInRound' /\ EventsHaveWaiters'
    BY DEF EventsInRound, EventsHaveWaiters, InPoll
  <1>5. DoneMeansAllReturned'
    <2> SUFFICES ASSUME nty_schedule_isdone, NEW c \in Coroutines PROVE fdOf[c] = None
      BY DEF DoneMeansAllReturned, Allocated
    <2>1. Len(ready) = 0
      BY DEF nty_schedule_isdone
    <2>2. fdOf[c] \in Fds \cup {None}
      BY DEF CoTypeOK
    <2> QED
      BY <2>1, <2>2, NoneAssumption DEF nty_schedule_isdone, NoneLost, Waits
  <1> QED
    BY <1>2, <1>3, <1>4, <1>5

\* The head of the ready queue runs: it is alive, waits for nothing and is
\* nowhere else in the queue.
LEMMA RunReadyInv == SchedInv /\ RunReady => SchedInv'
  <1> SUFFICES ASSUME SchedInv, RunReady PROVE SchedInv'
    OBVIOUS
  <1> USE DEF SchedInv, RunReady
  <1>1. CASE ready = <<>>
    <2>1. CoTypeOK'
      BY <1>1 DEF CoTypeOK, Allocated
    <2>2. (FdsDistinct /\ WaitsForOwn /\ ReadyIdle /\ NoneLost)'
      BY <1>1 DEF FdsDistinct, WaitsForOwn, ReadyIdle, NoneLost, Waits
    <2>3. (EventsInRound /\ EventsHaveWaiters /\ DoneMeansAllReturned)'
      BY <1>1 DEF EventsInRound, EventsHaveWaiters, InPoll, DoneMeansAllReturned
    <2> QED
      BY <2>1, <2>2, <2>3
  <1>2. CASE ready # <<>>
    <2>1. /\ Len(ready) \in Nat \ {0}
          /\ curr' = ready[1]
          /\ curr' \in Coroutines
          /\ ready' \in Seq(Coroutines)
          /\ Len(ready') = Len(ready) - 1
          /\ \A i \in 1..Len(ready') : ready'[i] = ready[i+1]
      BY <1>2, HeadTailProperties, EmptySeq, ElementOfSeq DEF CoTypeOK
    <2>2. fdOf[curr'] # None /\ ~Waits(curr')
      BY <2>1 DEF ReadyIdle
    <2>3. CoTypeOK'
      BY <1>2, <2>1, <2>2 DEF CoTypeOK, Allocated
    <2>4. FdsDistinct' /\ WaitsForOwn'
      BY DEF FdsDistinct, WaitsForOwn
    <2>5. ReadyIdle'
      <3> SUFFICES ASSUME NEW i \in 1..Len(ready')
                   PROVE  /\ fdOf[ready'[i]] # None
                          /\ ready'[i] # curr'
                          /\ ~Waits(ready'[i])
                          /\ \A j \in 1..Len(ready') : ready'[i] = ready'[j] => i = j
        BY DEF ReadyIdle, Waits
      <3>1. i + 1 \in 1..Len(ready) /\ i + 1 # 1 /\ ready'[i] = ready[i+1]
        BY <2>1
      <3>2. ASSUME NEW j \in 1..Len(ready'), ready'[i] = ready'[j] PROVE i = j
        <4>1. j + 1 \in 1..Len(ready) /\ ready'[j] = ready[j+1]
          BY <2>1
        <4>2. i + 1 = j + 1
          BY <3>1, <3>2, <4>1 DEF ReadyIdle
        <4> QED
          BY <4>2
      <3>3. fdOf[ready[i+1]] # None /\ ready[i+1] # ready[1] /\ ~Waits(ready[i+1])
        BY <3>1, <2>1 DEF ReadyIdle
      <3> QED
        BY <3>1, <3>2, <3>3, <2>1
    <2>6. NoneLost'
      <3> SUFFICES ASSUME NEW c \in Coroutines, fdOf[c] # None, c # curr', ~Waits(c)
                   PROVE  \E i \in 1..Len(ready') : ready'[i] = c
        BY DEF NoneLost, Waits
      <3>1. PICK i \in 1..Len(ready) : ready[i] = c
        BY NoneAssumption DEF NoneLost
      <3>2. i # 1 /\ i - 1 \in 1..Len(ready')
        BY <3>1, <2>1
      <3>3. ready'[i-1] = ready[i]
        BY <3>2, <2>1
      <3> QED
        BY <3>1, <3>2, <3>3
    <2>7. (EventsInRound /\ EventsHaveWaiters /\ DoneMeansAllReturned)'
      BY <1>2, <2>2 DEF EventsInRound, EventsHaveWaiters, InPoll, DoneMeansAllReturned, Waits
    <2> QED
      BY <2>3, <2>4, <2>5, <2>6, <2>7
  <1> QED
    BY <1>1, <1>2

\* The poller's report, and the end of a list of events.
LEMMA EpollInv == SchedInv /\ (nty_schedule_epoll \/ EventsDone) => SchedInv'
  <1> SUFFICES ASSUME SchedInv, nty_schedule_epoll \/ EventsDone PROVE SchedInv'
    OBVIOUS
  <1> USE DEF SchedInv, nty_schedule_epoll, EventsDone
  <1>1. CoTypeOK'
    BY DEF CoTypeOK, Allocated
  <1>2. (FdsDistinct /\ WaitsForOwn /\ ReadyIdle /\ NoneLost)'
    BY DEF FdsDistinct, WaitsForOwn, ReadyIdle, NoneLost, Waits
  <1>3. (EventsInRound /\ EventsHaveWaiters /\ DoneMeansAllReturned)'
    BY DEF EventsInRound, EventsHaveWaiters, InPoll, DoneMeansAllReturned
  <1> QED
    BY <1>1, <1>2, <1>3

\* The coroutine resumed for an event exists, and it is the one that waits.
LEMMA RunEventInv == ASSUME NEW f \in Fds, SchedInv, RunEvent(f) PROVE SchedInv'
  <1> USE DEF SchedInv, RunEvent
  <1>1. curr' \in Coroutines /\ fdOf[curr'] = f /\ curr' # None /\ f # None
    BY NoneAssumption DEF EventsHaveWaiters, WaitsForOwn
  <1>2. CoTypeOK'
    BY <1>1 DEF CoTypeOK, Allocated
  <1>3. FdsDistinct' /\ WaitsForOwn'
    BY DEF FdsDistinct, WaitsForOwn
  <1>4. ReadyIdle'
    BY <1>1 DEF ReadyIdle, Waits
  <1>5. NoneLost'
    BY NoneAssumption DEF NoneLost, Waits
  <1>6. (EventsInRound /\ EventsHaveWaiters /\ DoneMeansAllReturned)'
    BY <1>1 DEF EventsInRound, EventsHaveWaiters, InPoll, DoneMeansAllReturned
  <1> QED
    BY <1>2, <1>3, <1>4, <1>5, <1>6

\* A resumed coroutine leaves the tree and the poller together, and no event of
\* the list is for its descriptor any more.
LEMMA PollEndsInv == SchedInv /\ PollEnds => SchedInv'
  <1> SUFFICES ASSUME SchedInv, PollEnds PROVE SchedInv'
    OBVIOUS
  <1> USE DEF SchedInv, PollEnds
  <1>1. curr \in Coroutines /\ fdOf[curr] \in Fds /\ curr # None /\ waiting[fdOf[curr]] = curr
    BY NoneAssumption DEF CoTypeOK, Allocated, InPoll
  <1>2. waiting' = [waiting EXCEPT ![fdOf[curr]] = None]
    OBVIOUS
  <1>3. CoTypeOK'
    BY <1>1 DEF CoTypeOK, Allocated
  <1>4. FdsDistinct' /\ WaitsForOwn'
    BY <1>1 DEF CoTypeOK, FdsDistinct, WaitsForOwn
  <1>5. ReadyIdle'
    <2> SUFFICES ASSUME NEW i \in 1..Len(ready)
                 PROVE  waiting'[fdOf[ready[i]]] # ready[i]
      BY DEF ReadyIdle, Waits
    <2>1. ready[i] \in Coroutines
      BY ElementOfSeq DEF CoTypeOK
    <2> QED
      BY <1>1, <2>1, NoneAssumption DEF CoTypeOK, ReadyIdle, Waits
  <1>6. NoneLost'
    BY <1>1 DEF CoTypeOK, NoneLost, Waits, FdsDistinct
  <1>7. fdOf[curr] \notin events
    BY DEF EventsInRound
  <1>8. EventsHaveWaiters'
    BY <1>1, <1>7 DEF CoTypeOK, EventsHaveWaiters
  <1>9. EventsInRound' /\ DoneMeansAllReturned'
    BY <1>1, <1>7 DEF CoTypeOK, EventsInRound, InPoll, DoneMeansAllReturned, Allocated
  <1> QED
    BY <1>3, <1>4, <1>5, <1>6, <1>8, <1>9

\* nty_poll_inner enters the tree and the poller together.
LEMMA PollInnerInv == SchedInv /\ nty_poll_inner => SchedInv'
  <1> SUFFICES ASSUME SchedInv, nty_poll_inner PROVE SchedInv'
    OBVIOUS
  <1> USE DEF SchedInv, nty_poll_inner
  <1>1. curr \in Coroutines /\ fdOf[curr] \in Fds /\ curr # None /\ fdOf[curr] # None
    BY NoneAssumption DEF CoTypeOK, Allocated
  <1>2. CoTypeOK'
    BY <1>1 DEF CoTypeOK, Allocated
  <1>3. FdsDistinct' /\ WaitsForOwn'
    BY <1>1 DEF CoTypeOK, FdsDistinct, WaitsForOwn
  <1>4. ReadyIdle'
    <2> SUFFICES ASSUME NEW i \in 1..Len(ready)
                 PROVE  ready[i] # None /\ ~(waiting'[fdOf[ready[i]]] = ready[i])
      BY DEF ReadyIdle, Waits
    <2>1. ready[i] \in Coroutines
      BY ElementOfSeq DEF CoTypeOK
    <2> QED
      BY <1>1, <2>1, NoneAssumption DEF CoTypeOK, ReadyIdle, Waits
  <1>5. NoneLost'
    BY <1>1 DEF CoTypeOK, NoneLost, Waits, FdsDistinct
  <1>6. EventsHaveWaiters'
    BY <1>1 DEF CoTypeOK, EventsHaveWaiters
  <1>7. EventsInRound' /\ DoneMeansAllReturned'
    BY <1>1 DEF CoTypeOK, EventsInRound, InPoll, DoneMeansAllReturned, Allocated
  <1> QED
    BY <1>2, <1>3, <1>4, <1>5, <1>6, <1>7

\* An element appended to the ready queue: the queue before it is as it was.
LEMMA Appended ==
  ASSUME CoTypeOK, NEW c \in Coroutines, ready' = Append(ready, c)
  PROVE  /\ ready' \in Seq(Coroutines)
         /\ Len(ready) \in Nat
         /\ Len(ready') = Len(ready) + 1
         /\ \A i \in 1..Len(ready) : ready'[i] = ready[i] /\ ready[i] \in Coroutines
         /\ ready'[Len(ready')] = c
  BY AppendProperties, ElementOfSeq, LenProperties DEF CoTypeOK

\* nty_coroutine_sleep(0): the coroutine goes to the end of the queue.
LEMMA SleepInv == SchedInv /\ nty_coroutine_sleep => SchedInv'
  <1> SUFFICES ASSUME SchedInv, nty_coroutine_sleep PROVE SchedInv'
    OBVIOUS
  <1> USE DEF SchedInv, nty_coroutine_sleep
  <1>1. curr \in Coroutines /\ fdOf[curr] \in Fds /\ curr # None /\ fdOf[curr] # None /\ ~Waits(curr)
    BY NoneAssumption DEF CoTypeOK, Allocated, InPoll, Waits
  <1>2. /\ ready' \in Seq(Coroutines)
        /\ Len(ready) \in Nat
        /\ Len(ready') = Len(ready) + 1
        /\ \A i \in 1..Len(ready) : ready'[i] = ready[i] /\ ready[i] \in Coroutines
        /\ ready'[Len(ready')] = curr
    BY <1>1, Appended
  <1>3. CoTypeOK'
    BY <1>1, <1>2 DEF CoTypeOK, Allocated
  <1>4. FdsDistinct' /\ WaitsForOwn'
    BY DEF FdsDistinct, WaitsForOwn
  <1>5. ReadyIdle'
    <2> SUFFICES ASSUME NEW i \in 1..Len(ready')
                 PROVE  /\ fdOf[ready'[i]] # None
                        /\ ready'[i] # None
                        /\ ~Waits(ready'[i])
                        /\ \A j \in 1..Len(ready') : ready'[i] = ready'[j] => i = j
      BY DEF ReadyIdle, Waits
    <2>1. \A j \in 1..Len(ready') : j \in 1..Len(ready) \/ j = Len(ready')
      BY <1>2
    <2>2. fdOf[ready'[i]] # None /\ ready'[i] # None /\ ~Waits(ready'[i])
      BY <1>1, <1>2, <2>1, NoneAssumption DEF ReadyIdle
    <2>3. \A j \in 1..Len(ready') : ready'[i] = ready'[j] => i = j
      BY <1>2, <2>1 DEF ReadyIdle
    <2> QED
      BY <2>2, <2>3
  <1>6. NoneLost'
    BY <1>2 DEF NoneLost, Waits
  <1>7. (EventsInRound /\ EventsHaveWaiters /\ DoneMeansAllReturned)'
    BY DEF EventsInRound, EventsHaveWaiters, InPoll, DoneMeansAllReturned, Allocated
  <1> QED
    BY <1>3, <1>4, <1>5, <1>6, <1>7

\* nty_coroutine_create: the new coroutine is in no place yet, and its
\* descriptor is nobody's.
LEMMA CoCreateInv ==
  ASSUME NEW c \in Coroutines, NEW f \in Fds, SchedInv, nty_coroutine_create(c, f)
  PROVE  SchedInv'
  <1> USE DEF SchedInv, nty_coroutine_create
  <1>1. /\ curr \in Coroutines /\ curr # c /\ curr # None
        /\ fdOf[c] = None /\ f # None
        /\ \A d \in Coroutines : fdOf[d] # f
        /\ waiting[f] = None
        /\ \A g \in Fds : waiting[g] # c
    BY NoneAssumption DEF CoTypeOK, Allocated, WaitsForOwn
  <1>2. /\ fdOf' \in [Coroutines -> Fds \cup {None}]
        /\ fdOf'[c] = f
        /\ \A d \in Coroutines : d # c => fdOf'[d] = fdOf[d]
    BY DEF CoTypeOK
  <1>3. /\ ready' \in Seq(Coroutines)
        /\ Len(ready) \in Nat
        /\ Len(ready') = Len(ready) + 1
        /\ \A i \in 1..Len(ready) : ready'[i] = ready[i] /\ ready[i] \in Coroutines
        /\ ready'[Len(ready')] = c
    BY Appended
  <1>4. CoTypeOK'
    BY <1>1, <1>2, <1>3 DEF CoTypeOK, Allocated
  <1>5. FdsDistinct' /\ WaitsForOwn'
    BY <1>1, <1>2 DEF FdsDistinct, WaitsForOwn
  <1>6. ReadyIdle'
    <2> SUFFICES ASSUME NEW i \in 1..Len(ready')
                 PROVE  /\ fdOf'[ready'[i]] # None
                        /\ ready'[i] # curr
                        /\ waiting[fdOf'[ready'[i]]] # ready'[i]
                        /\ \A j \in 1..Len(ready') : ready'[i] = ready'[j] => i = j
      BY DEF ReadyIdle, Waits
    <2>1. \A j \in 1..Len(ready') : j \in 1..Len(ready) \/ j = Len(ready')
      BY <1>3
    <2>2. \A j \in 1..Len(ready) : ready[j] # c
      BY <1>1 DEF ReadyIdle
    <2>3. CASE i = Len(ready')
      BY <1>1, <1>2, <1>3, <2>1, <2>2, <2>3, NoneAssumption
    <2>4. CASE i \in 1..Len(ready)
      BY <1>1, <1>2, <1>3, <2>1, <2>2, <2>4 DEF ReadyIdle, Waits
    <2> QED
      BY <2>1, <2>3, <2>4
  <1>7. NoneLost'
    <2> SUFFICES ASSUME NEW d \in Coroutines, fdOf'[d] # None
                 PROVE  d = curr \/ waiting[fdOf'[d]] = d \/ \E i \in 1..Len(ready') : ready'[i] = d
      BY DEF NoneLost, Waits
    <2>1. CASE d = c
      BY <1>3, <2>1
    <2>2. CASE d # c
      BY <1>2, <1>3, <2>2 DEF NoneLost, Waits
    <2> QED
      BY <2>1, <2>2
  <1>8. EventsInRound' /\ EventsHaveWaiters'
    BY <1>1, <1>2 DEF EventsInRound, EventsHaveWaiters, InPoll
  <1>9. DoneMeansAllReturned'
    BY <1>1 DEF DoneMeansAllReturned, EventsInRound
  <1> QED
    BY <1>4, <1>5, <1>6, <1>7, <1>8, <1>9

\* The coroutine's function returns and the coroutine is freed: it waits for
\* nothing and is not in the queue, so nothing refers to it.
LEMMA ExitInv == SchedInv /\ Exit => SchedInv'
  <1> SUFFICES ASSUME SchedInv, Exit PROVE SchedInv'
    OBVIOUS
  <1> USE DEF SchedInv, Exit
  <1>1. /\ curr \in Coroutines /\ curr # None /\ fdOf[curr] # None /\ ~Waits(curr)
        /\ \A g \in Fds : waiting[g] # curr
    BY NoneAssumption DEF CoTypeOK, Allocated, InPoll, Waits, WaitsForOwn
  <1>2. /\ fdOf' \in [Coroutines -> Fds \cup {None}]
        /\ fdOf'[curr] = None
        /\ \A d \in Coroutines : d # curr => fdOf'[d] = fdOf[d]
    BY <1>1 DEF CoTypeOK
  <1>3. \A i \in 1..Len(ready) : ready[i] \in Coroutines /\ ready[i] # curr
    BY ElementOfSeq DEF CoTypeOK, ReadyIdle
  <1>4. CoTypeOK'
    BY <1>2 DEF CoTypeOK
  <1>5. FdsDistinct' /\ WaitsForOwn'
    BY <1>1, <1>2 DEF FdsDistinct, WaitsForOwn
  <1>6. ReadyIdle'
    BY <1>2, <1>3, NoneAssumption DEF ReadyIdle, Waits
  <1>7. NoneLost'
    BY <1>2 DEF NoneLost, Waits
  <1>8. EventsInRound' /\ EventsHaveWaiters'
    BY DEF EventsInRound, EventsHaveWaiters, InPoll
  <1>9. DoneMeansAllReturned'
    BY <1>1 DEF DoneMeansAllReturned, EventsInRound
  <1> QED
    BY <1>4, <1>5, <1>6, <1>7, <1>8, <1>9

LEMMA ArriveInv == ASSUME NEW f \in Fds, SchedInv, Arrive(f) PROVE SchedInv'
  <1> USE DEF SchedInv, Arrive
  <1>1. CoTypeOK'
    BY DEF CoTypeOK, Allocated
  <1>2. (FdsDistinct /\ WaitsForOwn /\ ReadyIdle /\ NoneLost)'
    BY DEF FdsDistinct, WaitsForOwn, ReadyIdle, NoneLost, Waits
  <1>3. (EventsInRound /\ EventsHaveWaiters /\ DoneMeansAllReturned)'
    BY DEF EventsInRound, EventsHaveWaiters, InPoll, DoneMeansAllReturned, Allocated
  <1> QED
    BY <1>1, <1>2, <1>3

LEMMA CoNextInv == SchedInv /\ [CoNext]_coVars => SchedInv'
  <1> SUFFICES ASSUME SchedInv, [CoNext]_coVars PROVE SchedInv'
    OBVIOUS
  <1>1. CASE Scheduler
    BY <1>1, RunLoopInv, RunReadyInv, EpollInv, RunEventInv DEF Scheduler
  <1>2. CASE PollEnds \/ Yield
    BY <1>2, PollEndsInv, PollInnerInv, SleepInv, ExitInv DEF Yield
  <1>3. CASE \E c \in Coroutines, f \in Fds : nty_coroutine_create(c, f)
    BY <1>3, CoCreateInv
  <1>4. CASE \E f \in Fds : Arrive(f)
    BY <1>4, ArriveInv
  <1>5. CASE UNCHANGED coVars
    <2> USE <1>5 DEF SchedInv, coVars
    <2>1. CoTypeOK' /\ DoneMeansAllReturned'
      BY DEF CoTypeOK, Allocated, DoneMeansAllReturned
    <2>2. (FdsDistinct /\ WaitsForOwn /\ ReadyIdle /\ NoneLost)'
      BY DEF FdsDistinct, WaitsForOwn, ReadyIdle, NoneLost, Waits
    <2>3. (EventsInRound /\ EventsHaveWaiters)'
      BY DEF EventsInRound, EventsHaveWaiters, InPoll
    <2> QED
      BY <2>1, <2>2, <2>3
  <1> QED
    BY <1>1, <1>2, <1>3, <1>4, <1>5 DEF CoNext

\* SchedInv is an invariant of the scheduler.
THEOREM CoInductive == CoSpec => []SchedInv
  <1> QED
    BY CoInitInv, CoNextInv, PTL DEF CoSpec

-----------------------------------------------------------------------------
\* Counting an element of the queue: once if it is there, else never.
LEMMA TimesInReady ==
  ASSUME CoTypeOK, ReadyIdle, NEW c \in Coroutines
  PROVE  Times(c, ready) = IF \E i \in 1..Len(ready) : ready[i] = c THEN 1 ELSE 0
  <1> DEFINE At == {i \in DOMAIN ready : ready[i] = c}
  <1>1. DOMAIN ready = 1..Len(ready)
    BY LenProperties DEF CoTypeOK
  <1>2. CASE \E i \in 1..Len(ready) : ready[i] = c
    <2>1. PICK i \in 1..Len(ready) : ready[i] = c
      BY <1>2
    <2>2. At = {i}
      BY <1>1, <2>1 DEF ReadyIdle
    <2> QED
      BY <1>2, <2>2, FS_Singleton DEF Times
  <1>3. CASE ~\E i \in 1..Len(ready) : ready[i] = c
    <2>1. At = {}
      BY <1>1, <1>3
    <2> QED
      BY <1>3, <2>1, FS_EmptySet DEF Times
  <1> QED
    BY <1>2, <1>3

\* The same for the tree of waiters.
LEMMA TimesInWaiting ==
  ASSUME SchedInv, NEW c \in Coroutines
  PROVE  Cardinality({f \in Fds : waiting[f] = c})
           = IF fdOf[c] # None /\ Waits(c) THEN 1 ELSE 0
  <1> DEFINE W == {f \in Fds : waiting[f] = c}
  <1> USE DEF SchedInv
  <1>1. fdOf[c] \in Fds \cup {None} /\ c # None
    BY NoneAssumption DEF CoTypeOK
  <1>2. CASE fdOf[c] # None /\ Waits(c)
    <2>1. W = {fdOf[c]}
      BY <1>1, <1>2 DEF WaitsForOwn, Waits
    <2> QED
      BY <1>2, <2>1, FS_Singleton
  <1>3. CASE ~(fdOf[c] # None /\ Waits(c))
    <2>1. W = {}
      BY <1>1, <1>3, NoneAssumption DEF WaitsForOwn, Waits
    <2> QED
      BY <1>3, <2>1, FS_EmptySet
  <1> QED
    BY <1>2, <1>3

LEMMA PlacesFromInv == SchedInv => OnePlace
  <1> SUFFICES ASSUME SchedInv, NEW c \in Coroutines
               PROVE  LET places == Times(c, ready) + (IF c = curr /\ ~InPoll THEN 1 ELSE 0)
                                    + Cardinality({f \in Fds : waiting[f] = c})
                      IN /\ places = IF c \in Allocated THEN 1 ELSE 0
                         /\ \A f \in Fds : waiting[f] = c => fdOf[c] = f
    BY DEF OnePlace
  <1> DEFINE InReady == \E i \in 1..Len(ready) : ready[i] = c
             Runs == c = curr /\ ~InPoll
             W == fdOf[c] # None /\ Waits(c)
  <1>1. Times(c, ready) = IF InReady THEN 1 ELSE 0
    BY TimesInReady DEF SchedInv
  <1>2. Cardinality({f \in Fds : waiting[f] = c}) = IF W THEN 1 ELSE 0
    BY TimesInWaiting
  <1>3. c # None /\ (c \in Allocated <=> fdOf[c] # None)
    BY NoneAssumption DEF Allocated
  <1>4. Runs => fdOf[c] # None /\ ~W
    BY <1>3 DEF SchedInv, CoTypeOK, Allocated, InPoll, Waits
  <1>5. InReady => fdOf[c] # None /\ ~W /\ ~Runs
    BY DEF SchedInv, ReadyIdle
  <1>6. fdOf[c] # None => InReady \/ Runs \/ W
    BY <1>3 DEF SchedInv, NoneLost, InPoll, Waits
  <1>7. \A f \in Fds : waiting[f] = c => fdOf[c] = f
    BY <1>3 DEF SchedInv, WaitsForOwn
  <1> QED
    BY <1>1, <1>2, <1>3, <1>4, <1>5, <1>6, <1>7

\* Coroutines are in one place, and nty_schedule_run leaves none behind: the
\* ready queue, the tree of waiters and the running coroutine never overlap, and
\* a freed coroutine is referred to by none of them.
THEOREM CoSound == CoSpec => []SchedulerSound
  <1>1. SchedInv => SchedulerSound
    BY PlacesFromInv DEF SchedInv, SchedulerSound
  <1> QED
    BY <1>1, CoInductive, PTL

\* nty_schedule_search_wait finds a coroutine for every event it is asked about.
THEOREM Waiters == CoSpec => []EventsHaveWaiters
  <1>1. SchedInv => EventsHaveWaiters
    BY DEF SchedInv
  <1> QED
    BY <1>1, CoInductive, PTL
=============================================================================
