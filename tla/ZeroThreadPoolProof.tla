------------------------ MODULE ZeroThreadPoolProof -------------------------
(***************************************************************************)
(* For any number of workers, clients and tasks: no task is lost or run    *)
(* twice, _atomic counts the workers that run one, and while the pool runs *)
(* a queued task or a waiting client always finds a worker awake, although *)
(* workers and clients share one condition variable.                       *)
(***************************************************************************)
EXTENDS ZeroThreadPool, SequenceTheorems, FiniteSetTheorems, TLAPS

\* The workers that have a task still to run, and those that _atomic counts.
Hands == {w \in Workers : wpc[w] \in {"begin", "run"}}
Counted == {w \in Workers : wpc[w] \in {"run", "ran"}}

\* Only the threads of the vector run, and stop joins after it has told them.
ThreadsRun ==
    /\ \A w \in Workers : w \notin _threads => wpc[w] = "none"
    /\ opc = "join" => _bTerminate

\* A task is on the queue once, or with one worker, or done.
OnePlace ==
    /\ \A i, j \in 1 .. Len(_tasks) : _tasks[i] = _tasks[j] => i = j
    /\ \A i \in 1 .. Len(_tasks) :
          _tasks[i] \notin finished /\ \A w \in Hands : task[w] # _tasks[i]
    /\ \A v, w \in Hands : task[v] = task[w] => v = w
    /\ \A w \in Hands : task[w] \in Tasks /\ task[w] \notin finished

\* A client that is still to be notified although the queue is empty will be: a
\* worker has a task, or is about to look whether everything is done.
Watched ==
    ~_bTerminate /\ _tasks = <<>> /\ WaitingClients # {} =>
        \E w \in Workers : wpc[w] \in Busy \cup {"report"}

TaskInv ==
    /\ TypeOK
    /\ ThreadsRun
    /\ OnePlace
    /\ TasksAccounted
    /\ Watched
    /\ NobodyStranded

-----------------------------------------------------------------------------
(* Steps that leave the tasks where they are *)

\* The sets of workers are finite.
LEMMA Finite ==
  ASSUME TypeOK
  PROVE  /\ IsFiniteSet(Hands) /\ Cardinality(Hands) \in Nat
         /\ IsFiniteSet(Counted) /\ Cardinality(Counted) \in Nat /\ _atomic = Cardinality(Counted)
         /\ IsFiniteSet(finished) /\ Cardinality(finished) \in Nat
  <1>1. Hands \subseteq Workers /\ Counted \subseteq Workers
    BY DEF Hands, Counted
  <1>2. IsFiniteSet(Hands) /\ IsFiniteSet(Counted)
    BY <1>1, WorkersAssumption, FS_Subset
  <1>3. IsFiniteSet(Tasks)
    BY TasksAssumption, FS_Interval DEF Tasks
  <1>4. IsFiniteSet(finished)
    BY <1>3, FS_Subset DEF TypeOK
  <1> QED
    BY <1>2, <1>4, FS_CardinalityType DEF TypeOK, Counted

\* Waking those who wait, worker or client, moves no task.
LEMMA Wakes ==
  ASSUME TypeOK, NEW from \in [Workers -> WorkerPC], NotifyAll(from)
  PROVE  /\ wpc' \in [Workers -> WorkerPC]
         /\ cpc' \in [Clients -> ClientPC]
         /\ WaitingClients' = {}
         /\ \A w \in Workers :
               wpc'[w] = IF wpc[w] = "waiting" THEN "get" ELSE from[w]
  BY DEF TypeOK, NotifyAll, WaitingWorkers, WaitingClients, ClientPC, WorkerPC

LEMMA WakesOne ==
  ASSUME TypeOK, NotifyOne
  PROVE  /\ wpc' \in [Workers -> WorkerPC]
         /\ cpc' \in [Clients -> ClientPC]
         /\ \A w \in Workers : wpc'[w] = wpc[w] \/ (wpc[w] = "waiting" /\ wpc'[w] = "get")
  <1>1. wpc \in [Workers -> WorkerPC] /\ cpc \in [Clients -> ClientPC]
    BY DEF TypeOK
  <1>2. ASSUME NEW w \in Workers, wpc[w] = "waiting", wpc' = [wpc EXCEPT ![w] = "get"]
        PROVE  /\ wpc' \in [Workers -> WorkerPC]
               /\ \A v \in Workers : wpc'[v] = wpc[v] \/ (wpc[v] = "waiting" /\ wpc'[v] = "get")
    BY <1>1, <1>2 DEF WorkerPC
  <1>3. ASSUME NEW c \in Clients, cpc' = [cpc EXCEPT ![c] = "notified"]
        PROVE  cpc' \in [Clients -> ClientPC]
    BY <1>1, <1>3 DEF ClientPC
  <1>4. CASE UNCHANGED <<wpc, cpc>>
    BY <1>1, <1>4
  <1>5. CASE \E w \in WaitingWorkers : wpc' = [wpc EXCEPT ![w] = "get"] /\ UNCHANGED cpc
    BY <1>1, <1>2, <1>5 DEF WaitingWorkers
  <1>6. CASE \E c \in WaitingClients : cpc' = [cpc EXCEPT ![c] = "notified"] /\ UNCHANGED wpc
    BY <1>1, <1>3, <1>6 DEF WaitingClients
  <1> QED
    BY <1>4, <1>5, <1>6 DEF NotifyOne

LEMMA TasksStay ==
  ASSUME TaskInv, UNCHANGED <<_tasks, finished, submitted>>, Hands' = Hands,
         \A w \in Hands : task'[w] = task[w]
  PROVE  OnePlace' /\ TasksAccounted'
  <1> USE DEF TaskInv
  <1>1. OnePlace'
    BY DEF OnePlace
  <1>2. InHand = {task[w] : w \in Hands} /\ InHand' = {task'[w] : w \in Hands'}
    BY DEF InHand, Hands
  <1>3. InHand' = InHand /\ Queued' = Queued
    BY <1>2 DEF Queued
  <1>4. TasksAccounted'
    BY <1>3 DEF TasksAccounted, Hands
  <1> QED
    BY <1>1, <1>4

-----------------------------------------------------------------------------
(* The owner *)

LEMMA InitInv == Init => TaskInv
  <1> SUFFICES ASSUME Init PROVE TaskInv
    OBVIOUS
  <1> USE DEF Init
  <1>1. Hands = {} /\ Counted = {}
    BY DEF Hands, Counted
  <1>2. Cardinality(Hands) = 0 /\ Cardinality(Counted) = 0 /\ Cardinality(finished) = 0
    BY <1>1, FS_EmptySet
  <1>3. 1 \in 0 .. Cardinality(Workers)
    BY WorkersAssumption, FS_EmptySet, FS_CardinalityType
  <1>4. timed \in [Clients -> BOOLEAN] /\ _bTerminate \in BOOLEAN
    BY Zenon
  <1>5. _tasks \in Seq(Tasks) /\ Len(_tasks) = 0
    OBVIOUS
  <1>6. TypeOK
    BY <1>2, <1>3, <1>4, <1>5, TasksAssumption
       DEF TypeOK, Counted, WorkerPC, ClientPC, NoTask
  <1>7. OnePlace
    BY <1>1, <1>5 DEF OnePlace
  <1>8. TasksAccounted
    <2>1. InHand = {} /\ Queued = {}
      BY <1>1, <1>5 DEF InHand, Queued, Hands
    <2> QED
      BY <1>2, <1>5, <2>1 DEF TasksAccounted, Hands
  <1> QED
    BY <1>6, <1>7, <1>8 DEF TaskInv, ThreadsRun, Watched, NobodyStranded, WaitingClients

LEMMA StutterInv == TaskInv /\ UNCHANGED vars => TaskInv'
  <1> SUFFICES ASSUME TaskInv, UNCHANGED vars PROVE TaskInv'
    OBVIOUS
  <1> USE DEF TaskInv, vars
  <1>1. Hands' = Hands
    BY DEF Hands
  <1>2. OnePlace' /\ TasksAccounted'
    BY <1>1, TasksStay
  <1>3. TypeOK'
    BY DEF TypeOK
  <1> QED
    BY <1>2, <1>3 DEF ThreadsRun, Watched, NobodyStranded, Awake, WaitingClients

LEMMA initInv ==
  ASSUME TaskInv, NEW num \in 0 .. Cardinality(Workers), init(num) PROVE TaskInv'
  <1> USE DEF TaskInv, init, clients
  <1>1. Hands' = Hands
    BY DEF Hands
  <1>2. OnePlace' /\ TasksAccounted'
    BY <1>1, TasksStay
  <1>3. TypeOK'
    BY DEF TypeOK
  <1> QED
    BY <1>2, <1>3 DEF ThreadsRun, Watched, NobodyStranded, Awake, WaitingClients

LEMMA startInv == TaskInv /\ start => TaskInv'
  <1> SUFFICES ASSUME TaskInv, start PROVE TaskInv'
    OBVIOUS
  <1> USE DEF TaskInv, start, clients
  <1>1. PICK S \in SUBSET Workers :
           /\ _threads' = S
           /\ wpc' = [w \in Workers |-> IF w \in S THEN "check" ELSE wpc[w]]
    OBVIOUS
  <1>2. \A w \in Workers : wpc[w] = "none"
    BY DEF ThreadsRun
  <1>3. Hands' = Hands /\ Counted' = Counted
    BY <1>1, <1>2 DEF Hands, Counted
  <1>4. OnePlace' /\ TasksAccounted'
    BY <1>3, TasksStay
  <1>5. TypeOK'
    BY <1>1, <1>3 DEF TypeOK, Counted, WorkerPC
  <1>6. ThreadsRun' /\ NobodyStranded'
    BY <1>1, <1>2 DEF ThreadsRun, NobodyStranded, Awake
  <1>7. Watched'
    BY <1>2 DEF Watched, Busy, WaitingClients
  <1> QED
    BY <1>4, <1>5, <1>6, <1>7

LEMMA stopInv == TaskInv /\ stop => TaskInv'
  <1> SUFFICES ASSUME TaskInv, stop PROVE TaskInv'
    OBVIOUS
  <1> USE DEF TaskInv, stop
  <1>1. /\ wpc' \in [Workers -> WorkerPC] /\ cpc' \in [Clients -> ClientPC]
        /\ \A w \in Workers : wpc'[w] = IF wpc[w] = "waiting" THEN "get" ELSE wpc[w]
    BY Wakes DEF TypeOK
  <1>2. Hands' = Hands /\ Counted' = Counted
    BY <1>1 DEF Hands, Counted
  <1>3. OnePlace' /\ TasksAccounted'
    BY <1>2, TasksStay
  <1>4. _bTerminate' \in BOOLEAN
    BY Zenon
  <1>5. TypeOK'
    BY <1>1, <1>2, <1>4 DEF TypeOK, Counted
  <1> QED
    BY <1>1, <1>3, <1>5 DEF ThreadsRun, Watched, NobodyStranded

LEMMA StopEndsInv == TaskInv /\ StopEnds => TaskInv'
  <1> SUFFICES ASSUME TaskInv, StopEnds PROVE TaskInv'
    OBVIOUS
  <1> USE DEF TaskInv, StopEnds, clients
  <1>1. \A w \in Workers : wpc[w] \in {"none", "ended"}
    BY DEF ThreadsRun
  <1>2. Hands' = Hands /\ Counted' = Counted
    BY <1>1 DEF Hands, Counted
  <1>3. OnePlace' /\ TasksAccounted'
    BY <1>2, TasksStay
  <1>4. TypeOK'
    BY <1>2 DEF TypeOK, Counted, WorkerPC
  <1> QED
    BY <1>3, <1>4 DEF ThreadsRun, Watched, NobodyStranded

-----------------------------------------------------------------------------
(* The workers *)

\* A worker that has no task to run and will have none moves on, and nobody
\* starts to wait.
LEMMA IdleMoves ==
  ASSUME TaskInv, NEW w \in Workers, NEW p \in WorkerPC \ (Busy \cup {"none", "waiting", "report"}),
         wpc[w] \in {"check", "get"}, wpc' = [wpc EXCEPT ![w] = p],
         UNCHANGED <<pool, task, clients, opc, submitted, finished>>
  PROVE  TaskInv'
  <1> USE DEF TaskInv, pool, clients
  <1>1. /\ wpc' \in [Workers -> WorkerPC] /\ wpc'[w] = p
        /\ \A v \in Workers : v # w => wpc'[v] = wpc[v]
    BY DEF TypeOK
  <1>2. Hands' = Hands /\ Counted' = Counted
    BY <1>1 DEF Hands, Counted, Busy
  <1>3. OnePlace' /\ TasksAccounted'
    BY <1>2, TasksStay
  <1>4. TypeOK'
    BY <1>1, <1>2 DEF TypeOK, Counted
  <1>5. w \in _threads
    BY DEF ThreadsRun
  <1>6. ThreadsRun' /\ NobodyStranded'
    BY <1>1, <1>5 DEF ThreadsRun, NobodyStranded, Awake
  <1>7. Watched'
    BY <1>1 DEF Watched, Busy, WaitingClients
  <1> QED
    BY <1>3, <1>4, <1>6, <1>7

LEMMA RunChecksInv == ASSUME TaskInv, NEW w \in Workers, RunChecks(w) PROVE TaskInv'
  <1> DEFINE p == IF _bTerminate THEN "ended" ELSE "get"
  <1>1. p \in WorkerPC \ (Busy \cup {"none", "waiting", "report"})
    BY DEF WorkerPC, Busy
  <1>2. wpc[w] \in {"check", "get"} /\ wpc' = [wpc EXCEPT ![w] = p]
    BY DEF RunChecks
  <1> HIDE DEF p
  <1> QED
    BY <1>1, <1>2, IdleMoves DEF RunChecks

\* The front task goes from the queue to the worker.
LEMMA TakeInv ==
  ASSUME TaskInv, NEW w \in Workers, wpc[w] = "get", _tasks # <<>>, Take(w),
         wpc' = [wpc EXCEPT ![w] = "begin"],
         UNCHANGED <<_threads, _threadNum, _bTerminate, _atomic, clients, opc, submitted,
                     finished>>
  PROVE  TaskInv'
  <1> USE DEF TaskInv, clients
  <1> DEFINE t == Head(_tasks)
  <1>1. /\ Len(_tasks) \in Nat \ {0} /\ t = _tasks[1] /\ t \in Tasks
        /\ _tasks' \in Seq(Tasks) /\ Len(_tasks') \in Nat /\ Len(_tasks') = Len(_tasks) - 1
        /\ \A i \in 1 .. Len(_tasks') : _tasks'[i] = _tasks[i+1]
    BY HeadTailProperties, EmptySeq, LenProperties DEF TypeOK, Take
  <1>2. task' = [task EXCEPT ![w] = t]
    BY DEF Take
  <1> HIDE DEF t
  <1>3. /\ wpc' \in [Workers -> WorkerPC] /\ wpc'[w] = "begin"
        /\ \A v \in Workers : v # w => wpc'[v] = wpc[v]
        /\ w \notin Hands /\ Hands' = Hands \cup {w} /\ Counted' = Counted
    BY DEF TypeOK, Hands, Counted, WorkerPC, Busy
  <1>4. task'[w] = t /\ \A v \in Hands : v # w /\ task'[v] = task[v]
    BY <1>2, <1>3 DEF TypeOK, Hands
  <1>5. 1 \in 1 .. Len(_tasks) /\ \A i \in 1 .. Len(_tasks') : i + 1 \in 1 .. Len(_tasks)
    BY <1>1
  <1>6. TypeOK'
    <2>1. task' \in [Workers -> Tasks \cup {NoTask}]
      BY <1>1, <1>2 DEF TypeOK
    <2> QED
      BY <1>1, <1>3, <2>1 DEF TypeOK, Counted
  <1>7. OnePlace'
    <2>1. ASSUME NEW i \in 1 .. Len(_tasks'), NEW j \in 1 .. Len(_tasks'),
                 _tasks'[i] = _tasks'[j]
          PROVE  i = j
      <3>1. i + 1 = j + 1
        BY <1>1, <1>5, <2>1 DEF OnePlace
      <3> QED
        BY <3>1
    <2>2. ASSUME NEW i \in 1 .. Len(_tasks')
          PROVE  /\ _tasks'[i] \notin finished'
                 /\ \A v \in Hands' : task'[v] # _tasks'[i]
      <3>1. i + 1 \in 1 .. Len(_tasks) /\ i + 1 # 1 /\ _tasks'[i] = _tasks[i+1]
        BY <1>1, <1>5
      <3>2. _tasks[i+1] # t
        BY <1>1, <1>5, <3>1 DEF OnePlace
      <3> QED
        BY <1>3, <1>4, <3>1, <3>2 DEF OnePlace
    <2>3. \A u, v \in Hands' : task'[u] = task'[v] => u = v
      BY <1>1, <1>3, <1>4, <1>5 DEF OnePlace
    <2>4. \A v \in Hands' : task'[v] \in Tasks /\ task'[v] \notin finished'
      BY <1>1, <1>3, <1>4, <1>5 DEF OnePlace
    <2> QED
      BY <2>1, <2>2, <2>3, <2>4 DEF OnePlace
  <1>8. TasksAccounted'
    <2>1. /\ InHand = {task[v] : v \in Hands}
          /\ InHand' = {task'[v] : v \in Hands'}
      BY DEF InHand, Hands
    <2>2. InHand' = InHand \cup {t}
      BY <1>3, <1>4, <2>1
    <2>3. Queued = Queued' \cup {t}
      <3>1. Queued' \cup {t} \subseteq Queued
        BY <1>1, <1>5 DEF Queued
      <3>2. ASSUME NEW i \in 1 .. Len(_tasks) PROVE _tasks[i] \in Queued' \cup {t}
        <4>1. CASE i = 1
          BY <1>1, <4>1
        <4>2. CASE i # 1
          <5>1. i - 1 \in 1 .. Len(_tasks') /\ (i - 1) + 1 = i
            BY <1>1, <4>2
          <5>2. _tasks'[i-1] = _tasks[i]
            BY <1>1, <5>1
          <5> QED
            BY <5>1, <5>2 DEF Queued
        <4> QED
          BY <4>1, <4>2
      <3> QED
        BY <3>1, <3>2 DEF Queued
    <2>4. Cardinality(Hands') = Cardinality(Hands) + 1
      BY <1>3, Finite, FS_AddElement
    <2>5. Len(_tasks) + Cardinality(Hands) + Cardinality(finished) = submitted
      BY DEF TasksAccounted, Hands
    <2>6. Len(_tasks') + Cardinality(Hands') + Cardinality(finished') = submitted'
      BY <1>1, <2>4, <2>5, Finite
    <2>7. Queued' \cup InHand' \cup finished' = 1 .. submitted'
      BY <2>2, <2>3 DEF TasksAccounted
    <2> QED
      BY <2>6, <2>7 DEF TasksAccounted, Hands
  <1>9. ThreadsRun' /\ Watched' /\ NobodyStranded'
    <2>1. w \in _threads
      BY DEF ThreadsRun
    <2> QED
      BY <1>3, <2>1 DEF ThreadsRun, Watched, NobodyStranded, Awake, Busy
  <1> QED
    BY <1>6, <1>7, <1>8, <1>9

\* With the queue empty the worker waits.  A client that waits as well has
\* another worker to see to it.
LEMMA GetWaitsInv ==
  ASSUME TaskInv, NEW w \in Workers, wpc[w] = "get", _tasks = <<>>, ~_bTerminate,
         wpc' = [wpc EXCEPT ![w] = "waiting"],
         UNCHANGED <<pool, task, clients, opc, submitted, finished>>
  PROVE  TaskInv'
  <1> USE DEF TaskInv, pool, clients
  <1>1. /\ wpc' \in [Workers -> WorkerPC] /\ wpc'[w] = "waiting"
        /\ \A v \in Workers : v # w => wpc'[v] = wpc[v]
    BY DEF TypeOK, WorkerPC
  <1>2. Hands' = Hands /\ Counted' = Counted
    BY <1>1 DEF Hands, Counted
  <1>3. OnePlace' /\ TasksAccounted'
    BY <1>2, TasksStay
  <1>4. TypeOK'
    BY <1>1, <1>2 DEF TypeOK, Counted
  <1>5. ThreadsRun'
    BY <1>1 DEF ThreadsRun
  <1>6. Watched'
    BY <1>1 DEF Watched, Busy, WaitingClients
  <1>7. NobodyStranded'
    BY <1>1, <1>5, <1>6 DEF ThreadsRun, Watched, NobodyStranded, Awake, Busy
  <1> QED
    BY <1>3, <1>4, <1>5, <1>6, <1>7

LEMMA getInv == ASSUME TaskInv, NEW w \in Workers, get(w) PROVE TaskInv'
  <1> USE DEF get, pool
  <1>1. CASE _bTerminate
    <2>1. "check" \in WorkerPC \ (Busy \cup {"none", "waiting", "report"})
      BY DEF WorkerPC, Busy
    <2> QED
      BY <1>1, <2>1, IdleMoves
  <1>2. CASE ~_bTerminate /\ _tasks = <<>>
    BY <1>2, GetWaitsInv
  <1>3. CASE ~_bTerminate /\ _tasks # <<>>
    BY <1>3, TakeInv
  <1> QED
    BY <1>1, <1>2, <1>3

\* A worker with a task is awake, and stays so.
LEMMA WorkerAwake ==
  ASSUME TaskInv, NEW w \in Workers, wpc[w] \in Busy \cup {"report"}, wpc'[w] \in Busy \cup {"report"},
         \A v \in Workers : v # w => wpc'[v] = wpc[v],
         UNCHANGED <<_threads, opc, _bTerminate>>
  PROVE  ThreadsRun' /\ Watched' /\ NobodyStranded'
  BY DEF TaskInv, ThreadsRun, Watched, NobodyStranded, Awake, Busy

LEMMA RunBeginsInv == ASSUME TaskInv, NEW w \in Workers, RunBegins(w) PROVE TaskInv'
  <1> USE DEF TaskInv, RunBegins, clients
  <1>1. /\ wpc' \in [Workers -> WorkerPC] /\ wpc'[w] = "run"
        /\ \A v \in Workers : v # w => wpc'[v] = wpc[v]
        /\ Hands' = Hands /\ w \notin Counted /\ Counted' = Counted \cup {w}
    BY DEF TypeOK, Hands, Counted, WorkerPC, Busy
  <1>2. OnePlace' /\ TasksAccounted'
    BY <1>1, TasksStay
  <1>3. Cardinality(Counted') = Cardinality(Counted) + 1
    BY <1>1, Finite, FS_AddElement
  <1>4. TypeOK'
    BY <1>1, <1>3, Finite DEF TypeOK, Counted
  <1> QED
    BY <1>1, <1>2, <1>4, WorkerAwake DEF Busy

\* The task goes from the worker to the finished ones.
LEMMA RunTaskInv == ASSUME TaskInv, NEW w \in Workers, RunTask(w) PROVE TaskInv'
  <1> USE DEF TaskInv, RunTask, clients, pool
  <1>1. /\ wpc' \in [Workers -> WorkerPC] /\ wpc'[w] = "ran"
        /\ \A v \in Workers : v # w => wpc'[v] = wpc[v]
        /\ w \in Hands /\ Hands' = Hands \ {w} /\ Counted' = Counted
    BY DEF TypeOK, Hands, Counted, WorkerPC, Busy
  <1>2. task[w] \in Tasks \ finished /\ finished' = finished \cup {task[w]}
    BY <1>1 DEF OnePlace
  <1>3. TypeOK'
    BY <1>1, <1>2 DEF TypeOK, Counted
  <1>4. OnePlace'
    BY <1>1, <1>2 DEF OnePlace
  <1>5. TasksAccounted'
    <2>1. /\ InHand = {task[v] : v \in Hands}
          /\ InHand' = {task[v] : v \in Hands'}
      BY DEF InHand, Hands
    <2>2. InHand = InHand' \cup {task[w]}
      BY <1>1, <2>1
    <2>3. Cardinality(Hands') = Cardinality(Hands) - 1
      BY <1>1, Finite, FS_RemoveElement
    <2>4. Cardinality(finished') = Cardinality(finished) + 1
      BY <1>2, Finite, FS_AddElement
    <2>5. Len(_tasks) + Cardinality(Hands) + Cardinality(finished) = submitted
          /\ Len(_tasks) \in Nat
      BY LenProperties DEF TasksAccounted, Hands, TypeOK
    <2>6. Len(_tasks') + Cardinality(Hands') + Cardinality(finished') = submitted'
      BY <2>3, <2>4, <2>5, Finite
    <2>7. Queued' = Queued
      BY DEF Queued
    <2>8. Queued' \cup InHand' \cup finished' = 1 .. submitted'
      BY <1>2, <2>2, <2>7 DEF TasksAccounted
    <2> QED
      BY <2>6, <2>8 DEF TasksAccounted, Hands
  <1> QED
    BY <1>1, <1>3, <1>4, <1>5, WorkerAwake DEF Busy

LEMMA RunEndsInv == ASSUME TaskInv, NEW w \in Workers, RunEnds(w) PROVE TaskInv'
  <1> USE DEF TaskInv, RunEnds, clients
  <1>1. /\ wpc' \in [Workers -> WorkerPC] /\ wpc'[w] = "report"
        /\ \A v \in Workers : v # w => wpc'[v] = wpc[v]
        /\ w \notin Hands /\ Hands' = Hands /\ w \in Counted /\ Counted' = Counted \ {w}
    BY DEF TypeOK, Hands, Counted, WorkerPC, Busy
  <1>2. \A v \in Hands : task'[v] = task[v]
    BY <1>1 DEF TypeOK, Hands
  <1>3. OnePlace' /\ TasksAccounted'
    BY <1>1, <1>2, TasksStay
  <1>4. Cardinality(Counted') = Cardinality(Counted) - 1
    BY <1>1, Finite, FS_RemoveElement
  <1>5. TypeOK'
    BY <1>1, <1>4, Finite DEF TypeOK, Counted
  <1> QED
    BY <1>1, <1>3, <1>5, WorkerAwake DEF Busy

\* The worker that finds everything done tells all; one that does not leaves a
\* task on the queue or a worker that counts itself.
LEMMA RunReportsInv == ASSUME TaskInv, NEW w \in Workers, RunReports(w) PROVE TaskInv'
  <1> USE DEF TaskInv, RunReports, clients, pool
  <1> DEFINE from == [wpc EXCEPT ![w] = "check"]
  <1>1. /\ from \in [Workers -> WorkerPC] /\ from[w] = "check"
        /\ \A v \in Workers : v # w => from[v] = wpc[v]
    BY DEF TypeOK, WorkerPC
  <1>2. w \in _threads
    BY DEF ThreadsRun
  <1> HIDE DEF from
  <1>3. CASE _atomic = 0 /\ _tasks = <<>>
    <2>1. NotifyAll(from)
      BY <1>3 DEF from
    <2>2. /\ wpc' \in [Workers -> WorkerPC] /\ cpc' \in [Clients -> ClientPC]
          /\ WaitingClients' = {}
          /\ \A v \in Workers : wpc'[v] = IF wpc[v] = "waiting" THEN "get" ELSE from[v]
      BY <1>1, <2>1, Wakes
    <2>3. Hands' = Hands /\ Counted' = Counted
      BY <1>1, <2>2 DEF Hands, Counted
    <2>4. OnePlace' /\ TasksAccounted'
      BY <2>3, TasksStay
    <2>5. TypeOK'
      BY <2>2, <2>3 DEF TypeOK, Counted
    <2>6. ThreadsRun' /\ Watched' /\ NobodyStranded'
      BY <1>1, <1>2, <2>2 DEF ThreadsRun, Watched, NobodyStranded, Awake
    <2> QED
      BY <2>4, <2>5, <2>6
  <1>4. CASE ~(_atomic = 0 /\ _tasks = <<>>)
    <2>1. wpc' = from /\ UNCHANGED cpc
      BY <1>4 DEF from
    <2>2. Hands' = Hands /\ Counted' = Counted
      BY <1>1, <2>1 DEF Hands, Counted
    <2>3. OnePlace' /\ TasksAccounted'
      BY <2>2, TasksStay
    <2>4. TypeOK'
      BY <1>1, <2>1, <2>2 DEF TypeOK, Counted
    <2>5. ThreadsRun' /\ NobodyStranded'
      BY <1>1, <1>2, <2>1 DEF ThreadsRun, NobodyStranded, Awake
    <2>6. Watched'
      <3>1. CASE _tasks # <<>>
        BY <3>1 DEF Watched
      <3>2. CASE _atomic # 0
        <4>1. Counted # {}
          BY <3>2, Finite, FS_EmptySet
        <4>2. PICK v \in Workers : wpc[v] \in {"run", "ran"}
          BY <4>1 DEF Counted
        <4>3. wpc'[v] \in Busy \cup {"report"}
          BY <1>1, <2>1, <4>2 DEF Busy
        <4> QED
          BY <4>3 DEF Watched
      <3> QED
        BY <1>4, <3>1, <3>2
    <2> QED
      BY <2>3, <2>4, <2>5, <2>6
  <1> QED
    BY <1>3, <1>4

-----------------------------------------------------------------------------
(* The clients *)

\* A task is queued and one thread is woken.  When that is a client, it waited,
\* and by NobodyStranded a worker is awake already.
LEMMA execInv == ASSUME TaskInv, NEW c \in Clients, exec(c) PROVE TaskInv'
  <1> USE DEF TaskInv, exec
  <1> DEFINE t == submitted + 1
  <1>1. t \in Tasks /\ submitted' = t /\ submitted' \in 0 .. MaxTasks /\ submitted \in Nat
    BY TasksAssumption DEF TypeOK, Tasks
  <1>2. /\ Len(_tasks) \in Nat /\ _tasks' \in Seq(Tasks)
        /\ Len(_tasks') = Len(_tasks) + 1
        /\ \A i \in 1 .. Len(_tasks) : _tasks'[i] = _tasks[i]
        /\ _tasks'[Len(_tasks')] = t
    BY <1>1, AppendProperties, LenProperties DEF TypeOK
  <1>3. _tasks' # <<>>
    BY <1>2, EmptySeq
  <1> HIDE DEF t
  <1>4. /\ wpc' \in [Workers -> WorkerPC] /\ cpc' \in [Clients -> ClientPC]
        /\ \A w \in Workers : wpc'[w] = wpc[w] \/ (wpc[w] = "waiting" /\ wpc'[w] = "get")
    BY WakesOne
  <1>5. Hands' = Hands /\ Counted' = Counted
    BY <1>4 DEF Hands, Counted
  <1>6. TypeOK'
    BY <1>1, <1>2, <1>4, <1>5 DEF TypeOK, Counted
  <1>7. InHand = {task[w] : w \in Hands} /\ InHand' = {task[w] : w \in Hands'}
    BY DEF InHand, Hands
  <1>8. t \notin Queued \cup InHand \cup finished
    BY <1>1 DEF TasksAccounted, t
  <1>9. \A i \in 1 .. Len(_tasks') : i \in 1 .. Len(_tasks) \/ i = Len(_tasks')
    BY <1>2
  <1>10. OnePlace'
    <2>1. /\ \A i \in 1 .. Len(_tasks) : _tasks[i] # t
          /\ \A w \in Hands : task[w] # t
          /\ t \notin finished
      BY <1>7, <1>8 DEF Queued
    <2>2. \A i, j \in 1 .. Len(_tasks') : _tasks'[i] = _tasks'[j] => i = j
      BY <1>2, <1>9, <2>1 DEF OnePlace
    <2>3. \A i \in 1 .. Len(_tasks') :
             _tasks'[i] \notin finished' /\ \A w \in Hands' : task'[w] # _tasks'[i]
      BY <1>2, <1>5, <1>9, <2>1 DEF OnePlace
    <2> QED
      BY <1>5, <2>2, <2>3 DEF OnePlace
  <1>11. TasksAccounted'
    <2>1. Queued' = Queued \cup {t}
      <3>1. \A i \in 1 .. Len(_tasks) : i \in 1 .. Len(_tasks')
        BY <1>2
      <3>2. Len(_tasks') \in 1 .. Len(_tasks')
        BY <1>2
      <3> QED
        BY <1>2, <1>9, <3>1, <3>2 DEF Queued
    <2>2. 1 .. submitted' = (1 .. submitted) \cup {t}
      BY <1>1 DEF t
    <2>3. Queued' \cup InHand' \cup finished' = 1 .. submitted'
      BY <1>5, <1>7, <2>1, <2>2 DEF TasksAccounted
    <2>4. Len(_tasks) + Cardinality(Hands) + Cardinality(finished) = submitted
      BY DEF TasksAccounted, Hands
    <2>5. Len(_tasks') + Cardinality(Hands') + Cardinality(finished') = submitted'
      BY <1>1, <1>2, <1>5, <2>4, Finite DEF t
    <2> QED
      BY <2>3, <2>5 DEF TasksAccounted, Hands
  <1>12. ThreadsRun' /\ Watched'
    BY <1>3, <1>4 DEF ThreadsRun, Watched
  <1>13. NobodyStranded'
    <2> SUFFICES ASSUME ~_bTerminate, _threads # {} PROVE Awake' # {}
      BY DEF NobodyStranded
    <2>1. Awake \subseteq Awake'
      BY <1>4 DEF Awake, TypeOK
    <2>2. CASE WaitingWorkers = {} /\ WaitingClients = {}
      BY <2>1, <2>2 DEF WaitingWorkers, Awake, TypeOK
    <2>3. CASE \E w \in WaitingWorkers : wpc' = [wpc EXCEPT ![w] = "get"]
      BY <2>3 DEF WaitingWorkers, Awake, TypeOK, ThreadsRun
    <2>4. CASE WaitingClients # {}
      BY <2>1, <2>4 DEF NobodyStranded
    <2> QED
      BY <2>2, <2>3, <2>4 DEF NotifyOne
  <1> QED
    BY <1>6, <1>10, <1>11, <1>12, <1>13

\* A client starts to wait only while tasks are queued.
LEMMA ClientMoves ==
  ASSUME TaskInv, NEW c \in Clients, NEW p \in ClientPC,
         p = "waiting" => _tasks # <<>>,
         cpc' = [cpc EXCEPT ![c] = p], timed' \in [Clients -> BOOLEAN],
         UNCHANGED <<pool, wpc, task, opc, submitted, finished>>
  PROVE  TaskInv'
  <1> USE DEF TaskInv, pool
  <1>1. Hands' = Hands
    BY DEF Hands
  <1>2. OnePlace' /\ TasksAccounted'
    BY <1>1, TasksStay
  <1>3. TypeOK'
    BY DEF TypeOK
  <1>4. _tasks = <<>> => WaitingClients' \subseteq WaitingClients
    BY DEF TypeOK, WaitingClients
  <1>5. Watched' /\ NobodyStranded'
    BY <1>4 DEF Watched, NobodyStranded, Awake
  <1> QED
    BY <1>2, <1>3, <1>5 DEF ThreadsRun

LEMMA ClientInv == ASSUME TaskInv, NEW c \in Clients, Client(c) PROVE TaskInv'
  <1>1. CASE exec(c)
    BY <1>1, execInv
  <1>2. ASSUME NEW timeout \in BOOLEAN, waitForAllDone(c, timeout) PROVE TaskInv'
    <2> DEFINE p == IF _tasks = <<>> THEN "true" ELSE "waiting"
    <2>1. timed' \in [Clients -> BOOLEAN]
      BY <1>2 DEF waitForAllDone, TaskInv, TypeOK
    <2>2. p \in ClientPC /\ (p = "waiting" => _tasks # <<>>)
      BY DEF ClientPC
    <2>3. cpc' = [cpc EXCEPT ![c] = p]
      BY <1>2 DEF waitForAllDone
    <2> HIDE DEF p
    <2> QED
      BY <1>2, <2>1, <2>2, <2>3, ClientMoves DEF waitForAllDone
  <1>3. CASE WaitNotified(c) \/ WaitTimesOut(c) \/ GoOn(c)
    <2>1. timed' = timed /\ timed \in [Clients -> BOOLEAN]
      BY <1>3, Zenon DEF WaitNotified, WaitTimesOut, GoOn, TaskInv, TypeOK
    <2>2. PICK p \in ClientPC : /\ p = "waiting" => _tasks # <<>>
                                /\ cpc' = [cpc EXCEPT ![c] = p]
      BY <1>3 DEF WaitNotified, WaitTimesOut, GoOn, ClientPC
    <2>3. UNCHANGED <<pool, wpc, task, opc, submitted, finished>>
      BY <1>3 DEF WaitNotified, WaitTimesOut, GoOn
    <2> QED
      BY <2>1, <2>2, <2>3, ClientMoves
  <1> QED
    BY <1>1, <1>2, <1>3 DEF Client

-----------------------------------------------------------------------------
(* The theorems *)

LEMMA NextInv == TaskInv /\ [Next]_vars => TaskInv'
  <1> SUFFICES ASSUME TaskInv, [Next]_vars PROVE TaskInv'
    OBVIOUS
  <1>1. CASE Owner
    BY <1>1, initInv, startInv, stopInv, StopEndsInv DEF Owner
  <1>2. ASSUME NEW w \in Workers, Worker(w) PROVE TaskInv'
    BY <1>2, RunChecksInv, getInv, RunBeginsInv, RunTaskInv, RunEndsInv, RunReportsInv
       DEF Worker
  <1>3. ASSUME NEW c \in Clients, Client(c) PROVE TaskInv'
    BY <1>3, ClientInv
  <1>4. CASE UNCHANGED vars
    BY <1>4, StutterInv
  <1> QED
    BY <1>1, <1>2, <1>3, <1>4 DEF Next

\* The strengthened invariant: where every task is, which threads run, and who
\* will tell a waiting client.
THEOREM Inductive == Spec => []TaskInv
  BY InitInv, NextInv, PTL DEF Spec

\* For any number of workers, clients and tasks, with the pool started and
\* stopped at any time: every submitted task is at one place, _atomic counts
\* the workers that run one, and while the pool runs a queued task or a waiting
\* client finds a worker awake.
THEOREM Sound == Spec => []TasksSound
  <1>1. TaskInv => TasksSound
    BY DEF TaskInv, TasksSound
  <1> QED
    BY <1>1, Inductive, PTL
=============================================================================
