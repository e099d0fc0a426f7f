# Verification of cpp_track_1

cpp_track_1 is a collection of C and C++ programs, one per topic: lock-free
queues, thread pools, connection pools, timers, reactors, coroutines, loggers,
detectors. They share no framework, so the project is a family of models, one
per program, with one abstract specification (`FifoQueue`) that the queues are
held to. The programs whose correctness rests on interleavings come first.

## The system's parts

| Part | State | Operations | What makes it hard |
|---|---|---|---|
| array lock-free queue (`7.3cas_queue/.../ArrayLockFreeQueue*.h`) | ring of slots, write, read and maximum read index, count | `enqueue`, `dequeue` | indices loaded before the CAS that uses them; publishing in reservation order |
| linked lock-free queue (`SimpleLockFreeQueue.h`) | nodes, head, tail, free list, versions | `enqueue`, `try_dequeue` | node reuse (ABA), the item taken after the claim |
| pipe (`ypipe.hpp`, `yqueue.hpp`) | chunks, `w`, `f`, `r`, `c`, spare chunk | `write`, `unwrite`, `flush`, `check_read`, `read` | a sleeping reader, recycled chunks |
| the pipe's test program (`4_test_lock_free_queue.cpp`) | mutex, condition variable | producer and consumer loop | a notification before the wait |
| pthread worker pool (`6.1thread_pool/thread_pool.c`) | list of jobs, list of workers, `terminate` | create, queue, shutdown, worker loop | a flag set without the mutex, workers that free themselves |
| MySQL connection pool (`6.4.../mysql_pool/DBPool.cpp`) | free and used list, count, abort flag | `Init`, `GetDBConn`, `RelDBConn`, destructor | time-outs racing notifications, failed connects |
| C++11 thread pool (`ZeroThreadpool.*`) | task queue, threads, `_atomic`, `_bTerminate` | `init`, `start`, `stop`, `exec`, `waitForAllDone`, `run` | one condition variable for workers and clients |
| asynchronous logging (`8.2log4cpp/.../muduo_log/AsyncLogging.*`) | current and next buffer, full buffers, the thread's two spare buffers, `running_` | `append`, `start`, `stop`, `threadFunc` | buffers that change hands and are recycled, a timed wait without a predicate, dropping, stopping |
| log files (`LogFile.*`, `FileUtil.*`) | the open file, counters, period, times of the last roll and flush | `append`, `flush`, `rollFile` | a clock that is looked at only now and then, names with a resolution of a second |
| hierarchical timing wheel (`7.2timers/timers/timewheel.*`) | near wheel, four levels, clock | `add_timer`, `del_timer`, `expire_timer`, `clear_timer` | a clock that wraps, lists that move down, the lock released around callbacks, clearing without the lock |
| coroutine scheduler (`5.2coroutine_impl/NtyCo`) | ready queue, waiting tree, poller, events, running coroutine | `nty_schedule_run`, create, sleep, poll, exit | coroutines and descriptors reused, events applied after other coroutines ran, starvation |
| memory pool (`6.2mem_pool/mmpool.c`) | list of blocks, current block, list of large blocks | create, destroy, reset, allocate, free | records kept in the pool's own memory, unsigned differences |
| Redis connection pool, deadlock detector, other timers, DNS client, reactors, WebSocket and TCP/IP, synchronised queues, trees | see `PROJECT.json` | | not modelled, see below |
| language examples, vendored libraries, benchmarks, SQL | | | not modelled: no concurrent or lasting state of the repository's own |

The components interact by calls: the tasks of the C++11 pool are the clients of
the connection pool (`test_dbpool.cpp`); the producer and consumer of the queue
test program call the pipe (`YPipeCondition` composes the two by extending
`YPipe` and taking its actions as the bodies of the loops); the logging thread is
the only caller of the log file (`AsyncLogging` extends `LogFile`, whose
operations are functions from the file's state to the next, and makes a buffer's
append and flush part of its own steps).

## How the models correspond to the code

All models take memory operations to be sequentially consistent: the code is
built for x86 with `lock`-prefixed instructions, gcc's `__sync` builtins, mutexes, or
`std::atomic` operations whose acquire and release pairs are the ones the
algorithms need; weaker orders are not explored. A critical section that does not block
inside is one action; a load, store or CAS of memory shared without a lock is an
action of its own. Histories (`log`, `out`, `claims`, `taken`, `stream`,
`finished`, `dropped`, `strays`, `late`, `old`, `given`) record what happened and never influence a step. `PROJECT.json`
maps each definition to its lines. Definitions with the comment "Faulty variant"
are plausible bugs of the definition after them, used to show that a property
notices them; no specification uses them.

**`FifoQueue`** is the abstract queue: `Publish` appends a non-empty batch,
`Receive` removes the oldest item.

**`ArrayLockFreeQueue`**: `enqueue` is six actions (load `m_writeIndex`, load
`m_readIndex` and test for full, CAS to reserve, store the element, CAS to
publish, count) and `dequeue` five. The indices grow for ever in the model, as
they do in the code until a 32 bit word wraps (ring sizes that divide 2^32 are
not affected by the wrap; others would be, and the wrap is out of reach of TLC);
`m_count` wraps at `CountMod`.

**`SimpleLockFreeQueue`**: an index is node, version and consumed flag, as in
`idx_t`; `head`, `tail` and `freeListHead` are single words. Blocks of nodes that are
allocated lazily are abstracted to the node itself. What a list holds (`Follow`) is the smallest
set with its head that is closed under `next`.

**`YPipe`**: pointers to cells are chunk and position; freed chunks may be
allocated again at the same address, so equal pointers need not be the same cell.
The constructors are `Init`, the destructor and `probe` are left out. The chunks that
are linked, like the jobs that are listed in `NtyThreadPool`, are the smallest set with the first one
that is closed under `next`.

**`YPipeCondition`**: the loops of the test program around the pipe, with
`ypipe_mutex_`; a notification reaches only a thread that waits.

**`NtyThreadPool`**: `terminate` and the list of workers are used without the
mutex, so setting a flag and reading `worker->next` are separate actions. Reading
`next` of a worker that freed itself yields the old link or a null pointer: two of the
outcomes the allocator can produce.

**`DBPool`**: clients follow `workUsePool` of the test program: they release once
whatever `GetDBConn` returned, NULL after a failure included. Connecting
succeeds or fails. A client that released twice could end up sharing a
connection: the test against it (`DBPool.cpp`, line 567) only recognises a
connection that is still free. No caller in the repository does so. `m_used_list` is
a set: its order is never looked at, and `list::remove` takes out every copy.

**`ZeroThreadPool`**: `_atomic` is incremented and decremented outside the
mutex, in actions of their own; a task that throws or has expired ends like one that
ran. One owner calls `init`, `start` and `stop`, in any order and repeatedly.
The predicate of `waitForAllDone` looks at the queue only, so that a client that
waits without a time-out stays there when the pool is stopped with tasks
queued, although `ZeroThreadpool.h` (line 38) says that stop ends the wait;
`WaitersReturn` is therefore about a pool that is not stopped.

**`LogFile`** is `append_unlocked`, `flush` and `rollFile` on a record of the
file's variables. A file is the second of its name and its lines; `unflushed`
counts the lines that are still in the stream's buffer. A roll takes place only in a later second
than the last one; the period and the flush interval are looked at every
`checkEveryN_` appends, by a counter that a roll by size leaves alone.

**`AsyncLogging`**: `append` is one action (it runs under `mutex_`); `threadFunc` is the
test of `running_`, the wait, the swap, the dropping of too many buffers, one action per
buffer written (the clock may move in between) and the refill with the
flush. A buffer is the sequence of its lines, so a recycled buffer that was not
reset would show. `LinesInOrder` and `GapsAnnounced` speak of places, a piece (file or buffer) and a
position in it, so that neither needs the concatenation of all lines. The wait is timed and tests no predicate, so it may end
at any moment; notifications are not needed for it to end.

**`TimeWheel`**: nodes move between lists named by level and index as `add_node`,
`move_list` and `timer_shift` move them. `TIME_NEAR` and `TIME_LEVEL` are constants and
the clock counts as far as all levels reach, 2^32 in the code, so that
smaller wheels wrap sooner. A list is a bag: how often each node is linked to it. In which
order the nodes of one list are dispatched is left open, so the code's order is one of
those allowed; no property depends on it.
`add_timer` leaves `cancel` as malloc gave it (any value), and `del_timer` may come at any
time between allocation and free. While the callbacks of a list run the lock is free and other
threads add and delete. `clear_timer` takes no lock, and the demo program calls it before it joins the
threads that add timers: reading and freeing one node (`ClearNode`), finding the end of a list
(`FoundEmpty`) and `link_clear` (`ClearList`) are steps of their own, between which
`add_timer` links nodes. Linked to a list that is cleared already or still to come, a
node is safe. Linked to the list the walk is at, it may be walked, dropped by
`link_clear`, or written behind a tail that was just freed; where the outcome is
undefined, or the node is lost, the model ends in `raced`.

**`NtyCoSchedule`**: the scheduler's loop (test, one resumption per step of the ready
queue, poll, one resumption per event) and what a coroutine does before it
yields: wait for its descriptor (`nty_poll_inner`), give way
(`nty_coroutine_sleep(0)`), create another one, or close and return. A resumed coroutine first
takes itself out of the waiting tree and the poller. The branch of the ready loop for a coroutine whose
descriptor reached its end (`nty_schedule.c`, lines 324 to 327) is left out:
`nty_schedule_desched_wait` resets that status before the coroutine gets there. The tree of sleepers is left
out: every caller passes 0 to sleep or the time-out 1 that sets no timer.

**`MemPool`**: offsets are in words of 8 bytes from the start of an aligned
block, so that the sizes of the structures and the alignment keep their true proportions.
Differences are taken modulo the width of `size_t`, as the code's cast does.
`mp_create_pool` does not set `head->next`: `garbage` says whether the memory
happened to hold a null pointer, and whoever follows it otherwise ends in `wild`, where the model
stops. It stops there too as soon as memory behind the end of a block has been handed out: an
offset has a meaning only within its block, and behind it may lie another block, its structures or
a record. Allocations from the system may fail. Requests of size 0, which hand out
no memory, are left out.

## The runs

There is one passing run per program, which checks its safety and, where it
waits for something, its liveness, and two runs for disagreements between a program and its comments.

| Run | Shows |
|---|---|
| `ring` | 2 producers, 2 consumers, 3 slots, 2 calls each (the ring wraps): elements arrive once, in the order of reservation; no unread slot is overwritten; one slot stays free; the count is exact when no call is counting; the invariant of the proof holds; the ring implements `FifoQueue`; every reserved element is consumed |
| `linked` | 2 producers, 1 consumer: claims in order, each claim yields the enqueued item, no node in two places, every item is claimed |
| `linked_taken` | violated: with 2 consumers an item can be taken from a node that was recycled after the claim |
| `pipe` | 6 writes, chunks of 2 cells, 4 chunk addresses: no pointer into freed or spare memory, `flush` reports a sleeping reader exactly when there is one, the pipe implements `FifoQueue` (unwritten and incomplete items are never seen), what was flushed is read |
| `pipe_condition` | violated: the test program's consumer can wait for ever, the notification having come before its wait |
| `workers` | 3 workers, 3 jobs at 2 addresses: a job is in one hand, none is forgotten, no worker sleeps on work, jobs are taken, a worker told to terminate exits |
| `connections` | 4 clients, 2 connections: one holder each, exact count, no lost notification, releasing the pool ends all waits |
| `tasks` | 2 workers, 2 clients, an owner, 3 tasks: tasks are accounted for, nobody is stranded although workers and clients share a condition variable, tasks are done, clients return, `stop` returns |
| `logging` | 7 lines, buffers of 2, dropping beyond 2 buffers, 3 seconds, periods of 2: files and buffers hold every line once and in order except the dropped ones, which are announced; the thread's assertions about its spare buffers hold; file names differ, few lines land in a file of an earlier period, a file exceeds its size only within its first second; lines reach the disk while the logger runs; `stop` returns |
| `wheel` | 2 timers, wheels of 2 lists, a clock of 32 ticks that wraps: a node is in one list, is dispatched exactly in its tick, is freed then or by `clear_timer`, and is overdue only in a list that `timer_shift` never moves; timers added while `clear_timer` runs do no harm unless they meet it at one list, and none set before it is left |
| `coroutines` | 3 coroutines and 3 descriptors, both reused: a coroutine is in one structure at a time, every event finds its waiting coroutine, the loop ends only when all have returned, rounds end, ready coroutines get their turn, and readable ones are resumed as long as the ready queue drains |
| `mempool` | up to 8 blocks, 2 large blocks, all operations in any order: memory handed out lies in its block and is disjoint until an allocation begins behind the end of its block, and leaves its block in no other way; large blocks and their records are neither lost nor freed twice; a block is given up only after its own failures |

The invariant of a program that is about its own bookkeeping is one conjunction of named parts:
`NodesSound`, `PipeSound`, `JobsSound`, `ConnectionsSound`, `TasksSound`,
`WheelSound`, `LoggerSound`, `SchedulerSound`, `PoolSound`, and `IndInv` of the
ring, each with the module's type invariant (`TypeOK`, `CoTypeOK`, `LoggerTypeOK`) as its first part.

Each violated run states what a comment of the code says; the findings in
`PROJECT.json` quote it.

## Observations

What modelling showed of the code besides the two violated runs; the passing
properties say how far the damage goes.

- Timing wheel: `add_node` puts a timer into list 0 of a lower level when its
  time crosses a multiple of the level's span; `timer_shift` skips that list
  (`timewheel.c`, line 108), so the timer never fires: `add_timer(1000)` at time 15400 is
  one. `OverdueOnlyInNeverMoved` shows that nothing else is ever overdue.
- Timing wheel: `clear_timer` (`timewheel.c`, lines 210 to 235) runs without the lock while
  the demo's threads still add timers (`tw-timer.c`, line 64 before the joins): a timer may be lost, or
  linked to a freed node. `EachNodeOnce` alone is therefore violated (by `raced`); `WheelSound` and `ClearFreesAll` show that
  only the list being cleared is in danger, and that no timer set before escapes.
- Asynchronous logging: `stop` loses what was appended after the last swap
  (`AsyncLogging.cc`, line 71): the loop ends and the buffers stay full. `LinesInOrder`
  shows that exactly the lines still in the buffers are missing.
- Memory pool: when aligning moves the start of an allocation behind the end of
  the block, `p->end - m` is negative, wraps as a `size_t`, and every size fits
  (`mmpool.c`, line 221): the memory lies outside the block and may be another
  block's, so that nothing can be said from there on. In a pool of 4096 bytes, whose
  head ends at offset 4152, calls of `mp_alloc` with size 16 get there: `last` is 4144 and the next
  aligned start 4160. `InsideOrBeyond` shows that there is no other way out, and
  `PoolSound`, of which it is a part, that all is well until then. `head->next` is read without ever having been set.
- Array queue: `enqueue` and `dequeue` load two indices one after the other and
  compare them modulo the ring size, so a stale one a lap behind makes them answer "full" or
  "empty" when that was never so during the call (`ArrayLockFreeQueueImp.h`, lines 55 and 101).
- Worker pool: `ntyThreadPoolShutdown` reads the link of a worker that may have freed itself
  (`thread_pool.c`, line 124), and may leave workers untold. Jobs are taken last in, first out;
  a failed `pthread_create` leaves fewer workers and `main` ignores it.
- Connection pool: `workUsePool` releases what a failed `GetDBConn` returned, so
  that NULL gets on the free list and is handed out (`test_dbpool.cpp`, line 80).
- C++11 pool: `waitForAllDone` looks at the queue only and returns true before the
  last task has run (`ZeroThreadpool.cpp`, line 131); without a time-out it does not notice a stop; `start`
  after `stop` starts threads that end at once.
- Coroutines: `nty_coroutine_sleep` with a positive time enters the tree of
  sleepers and does not yield (`nty_coroutine.c`, line 221); no caller does so.
- Linked queue: versions have 24 bits, so a thread that sleeps through 2^24
  reuses of a node meets the same index; a bound no small instance reaches.

## Bounds and fairness

**Bounds.** `MaxCalls`, `MaxWrites`, `MaxJobs` and `MaxTasks` bound the number
of calls; they are chosen so that rings wrap, nodes, chunks and jobs are reused
and a queue is full and empty again. `VersionMod` and `CountMod` are the widths
of the version and of `m_count`; they are larger than the number of steps that change them in a run, except
that `m_count` does pass below zero. Two threads of each kind suffice for each
race known here; three workers let two of them sleep while the third runs, four
clients let two wait for two connections. In `wheel` the delays reach from the
next tick to almost the whole range of the clock (1, 3, 8 and 29 of 32), so that every level is used, and two timers let
one be added or deleted while the other is dispatched; `MaxNow` lets a file be
rolled by size and by period. In `mempool` a block of 5 words makes both ends of the
comparison happen, a rest too small and a start behind the end; 8 blocks are
needed before `current` moves.
Symmetry is used in `wheel` and `mempool`, which check no liveness.

**Fairness.** Weak fairness of each thread's next step: the operating system
runs every thread that can run, and tasks and connections come to an end. In the two
lock-free queues that includes the calls: producers and consumers of the test program
call in a loop, so weak fairness is of `Enqueue` and `Dequeue` as a whole, up to
`MaxCalls`. Elsewhere no fairness is assumed of callers: nobody has to write, queue a
job, ask for a connection, start a pool or shut it down. The logging thread runs and its timed wait ends. The scheduler's thread runs, and a
coroutine that runs comes to a yield, as those of the samples do; that the ready
queue drains is not assumed but is the premise of `ReadableIsResumed`: coroutines
that give way for ever keep the scheduler from polling. Spurious wake-ups are allowed (`NtyThreadPool`) or have no effect (waits
that test a predicate) and are never relied on. In `YPipeCondition` they are left
out, since a program must not depend on them. The liveness of `workers` and
`tasks` is about a supply of jobs that ends, which the bounds enforce: the
job list is last in, first out, so an endless supply could starve a job.

## What is proved

Ten programs have proofs, in modules that extend those of the models: NtyCo's scheduler and the
worker pool share one, and so do the memory pool and the logger; the definitions
that two such models both need (`CoSpec`, `LoggerSpec`) have a prefix. The
theorems hold for every value of the constants; the runs show the same
properties on a small instance. Every invariant that a passing run checks is proved.

| Module | Theorems | State that |
|---|---|---|
| `ArrayLockFreeQueueProof` | `InductiveInvariant`, `TypeCorrect`, `NothingLostOrDuplicated`, `NoOverwrite`, `RingBounded` | the ring is sound: parts of `IndInv` |
| | `CountExact` | `CountExactWhenQuiet` |
| | `Linearizable` | the ring implements `FifoQueue` |
| `YPipeProof` | `Inductive`, `Sound` | `PipeSound` |
| | `Refines` | the pipe implements `FifoQueue` |
| `SimpleLockFreeQueueProof` | `Inductive`, `Sound` | `NodesSound` |
| | `TakenByOne` | with one consumer, `TakenAsEnqueued` |
| `NtyProof` | `Inductive`, `Sound` | worker pool: `JobsSound` |
| | `CoInductive`, `CoSound`, `Waiters` | coroutines: `SchedulerSound`, `EventsHaveWaiters` |
| `DBPoolProof` | `Inductive`, `Sound`, `Notifications` | `ConnectionsSound`, `NoLostNotification` |
| `ZeroThreadPoolProof` | `Inductive`, `Sound` | `TasksSound` |
| `MemPoolAsyncLoggingProof` | `Inductive`, `Sound`, `Bounds`, `LargeFreedOnce` | memory pool: `PoolSound`, `InsideOrBeyond`, `LargeOnce` |
| | `SoundInMemory` | the same allocations are disjoint as addresses, wherever the blocks are |
| | `LogInductive`, `LogSound`, `LogInOrder`, `LogGaps`, `LogOversize` | logger: `LoggerSound`, `LinesInOrder`, `GapsAnnounced`, `OversizeOnlyInItsSecond` |
| `TimeWheelProof` | `Inductive`, `Sound`, `ClearedAll`, `OnTime`, `Overdue`, `Freed` | `WheelSound`, `ClearFreesAll`, `FiresOnTime`, `OverdueOnlyInNeverMoved`, `FreedInItsTick` |

All invariants have the same argument: a strengthening that `Init` establishes
and every action keeps, one lemma per action. TLC checked each strengthening on
small instances before it was proved; what each adds, and why:

**Array queue** (`IndInv`). A thread acts on indices it loaded earlier, so the
invariant says what such a thread may rely on: the indices it holds never run
ahead (`EnqueueView`, `DequeueView`), and *if* the index its CAS compares has
not moved, the test it made still holds and the element it read is still the one
of that index. `Ownership` says that a reserved index belongs to one producer and
lies between `m_maximumReadIndex` and `m_writeIndex`; with `OneSlotFree` that
makes its slot different from all slots with unread elements
(`NearIndicesDiffer`), so storing into it overwrites nothing. For the counter the
proof follows `Lag`, what the indices say minus `m_count` minus what the threads
between CAS and counting still owe: it is 0 modulo the width of the word in every
state, although each of its terms changes at a different step (`CountLags`). The
publishing CAS is `Publish`, the claiming CAS is `Receive`, all else stutters.

**Pipe** (`PipeInv`). Pointers are compared as addresses and addresses are
reused, so "the same pointer" says nothing by itself. The invariant lays the
items on an endless tape, item i + 1 in cell `i % N` of chunk number `i \div N`, and says
that some injective assignment of addresses to the chunk numbers between front
and end agrees with all links, all pointers and all contents. Two positions
between front and end are then the same cell only if they are the same
position (`Apart`), which is what the comparisons `w # f`, `f # back`, `c = w` and
`front # r` need in order to mean what they are meant to. `Calls` adds that whoever is
between two steps of `flush` or `read` still has its premise: c is NULL and
stays so until the writer sets it, and the reader's item stays published. In the
refinement the step that sets c publishes everything completed, `read` receives,
`write` and `unwrite` change only what lies behind `flushed`.

**Linked queue** (`Linked`). There is a function `cur`, the version each node has
by now, such that every node is in the queue, with one thread or free (`Owned`,
`FreeList`), and an index whose version is the present one still means what it meant
when it was read: a producer's free node is still free and has the successor that was
read (`Pops`), a consumer's head still has its successor (`Views`). An index with an older
version can never be current again, so its CAS fails; that is so because each call takes
one node (`Begun`, `Counting`), which bounds the versions by the number of calls. The
exchanges of `tail` make a chain (`at`); a link still to be set is the gap of one
producer, whose predecessor cannot have been freed (`Links`). For one consumer a second invariant says that
the item of each node in the queue is the one enqueued, and stays so between the claim and the
taking, since nobody else frees nodes; with two consumers this fails, as `linked_taken` shows.

**Worker pool** (`JobInv`). `LL_ADD` sets no back link, and
removal trusts `prev` and `next`; `OneList` says that the list is a chain all the
same: nothing links to its head and no two jobs have the same successor. `Phases`
ties the workers to where the client is (nobody is told to terminate while jobs can
be queued).

**Connection pool** (`ConnInv`). `FreeOnce` and `UsedByOne` say of all entries,
the NULL that a client may release included, what `OneHolder` says of
connections; `Released` and `NotStarted` tie them to the phases of the pool. For
`NoLostNotification` a second induction compares the length of the free list with the number of
notified clients.

**C++11 pool** (`TaskInv`). `OnePlace` says for each task what
`TasksAccounted` says as a sum. `Watched` is what makes sharing one condition
variable safe: a client still to be notified while the queue is empty has a
worker that holds a task or is about to look whether all is done.

**Coroutines** (`SchedInv`). `WaitsForOwn`, `FdsDistinct`, `ReadyIdle` and `NoneLost`
are `OnePlace` without counting; `EventsInRound` says that events are left over only
while their round is served, and never the one being served: so another
coroutine that runs in between cannot take the waiter of a pending event away.

**Memory pool** (`PoolInv`). `BlocksSound` fixes where each block ends and that
its free part never begins before its memory; `CutApart` says of the offsets, in every state, that
what was handed out of a block is cut one after the other, and `LastInside` that while the pool
is live the next cut is still within the block: together they are `RegionsDisjoint`. `RegionsReal`
and `NotTired` are what an allocation needs to keep these and `GivenUpWhenTired`. `SoundInMemory` goes
from offsets to addresses: blocks that do not overlap are placed anywhere, and then no two
allocations overlap, nor an allocation and the structures of a block.

**Logger** (`LogInv`). Files, buffers being written, full buffers and the current
one are four sequences of pieces, each sorted and each before the next (`Ordered`); together they hold
what was appended and not dropped (`Covered`). Moving a buffer, splitting off the first two, or
writing one to a file then only moves lines between neighbours (`ConcatSorted`, `HeadTail`,
`FirstTwoRest`, `GrowsSorted`), so that no induction over the lines is needed. `BuffersSound`
says why there are enough buffers to refill from: the front ends have used up
`nextBuffer_` only if a buffer is full. For the gaps, the lines dropped at once follow
each other (`DroppedTogether`): what lies between two of them was dropped earlier, or is
in a piece before or behind, all of which the order excludes. Each drop therefore adds at most
one end of a gap and one mark, and `Announced` keeps an injection from ends to
marks that stand before the line after the gap. `FilesSound` ties the open file to the last
roll; appends of a later period are counted by `count_` as well, and stay in a later period since
periods are monotone in time (`PeriodMonotone`).

**Timing wheel** (`WheelInv`). `RightPlace` says which list a timer may be in at
each time of the clock. In the near wheel it is within reach, and then only the present
time has the present list's remainder (`NearNow`). On a level, what its lower digits say is
less than what the clock still has to run: when the two become equal the clock has reached exactly
the level's digit, its lower digits are zero (`DigitReached`), and the list is the
one that `timer_shift` moves in that tick, the only one (`DueWhen`, from `ZeroBelow` and,
for the wrap, `ZeroAll`). Of the lists in `NeverMoved` nothing is claimed. For `clear_timer`, `Cleared` says that what it
found set is freed or in a list that it has not passed: `add_timer` adds no such timer, and
nothing moves while it runs. `OneList` lets a node be in no list only in `raced`. The
arithmetic of quotients and remainders is proved first, for all sizes, since the
provers know no more of `%` than its definition.

**Assumptions.** They are named in the modules and TLC evaluates them in the
runs. Sizes and bounds are natural numbers of the right order; NULL is not an
object; sets of threads and clients are finite where the code or a property
counts them (`FiniteAssumption`, `ClientsAssumption`, `WorkersAssumption`, `ProducersAssumption`).
`VersionAssumption` says that the linked queue gets fewer calls than there are versions, 2^24 in
the code: beyond that a sleeping thread may meet its index again.
`CountModAssumption` says that the ring has fewer slots than `m_count` has values;
`SizesAssumption` that each wheel has at least two lists, `DelaysAssumption` that a delay is
positive and below the range of the clock, as an `int` is; `MaxConnAssumption` that the limit is not below the number of connections `Init`
makes; `LayoutAssumption` that the
header of a block is a multiple of the alignment, as `sizeof(struct mp_node_s)`
is; `BoundAssumption` that the offsets in a block fit in a `size_t`. The bounds
on calls stay parameters, so the theorems hold for every bound.

**Only model-checked.** Liveness, everywhere: the prover has neither fairness nor
`ENABLED`. Without the one consumer `TakenAsEnqueued` is false and has no theorem. What the
smallest-set definitions (`Listed`, `Follow`, and `Linked` of the pipe) replace, a recursive walk
along `next`, could not be reasoned about; the proofs show that they are the chain one
expects (`LinkedIsWindow`, `ListedFollows`).

## Not modelled

The reasons are with the components in `PROJECT.json`. Read and set aside:

- the reactor library: its write path sends new bytes before the pending ones and
  stops watching for writability, and its error path closes descriptor 0 after
  `del_event` cleared the field; a model would have to count bytes in three
  buffers to say more;
- the trees: the red-black tree is unfinished by its own comment
  (`1.1rbtree/rbtree.c`, lines 183 to 191), and the B-tree's deletion uses a
  node after freeing it;
- the Redis pool repeats the algorithm of the MySQL pool;
- the deadlock detector shares all its tables between threads without a lock.

Vendored and generated code (JSON libraries, protobuf, log4cpp, ZeroMQ, hiredis) makes
up almost all lines of the repository and is not its own.

## Plan

1. Done: the queues, the pipe, the three pools, the logger with its files, the
   timing wheel, the coroutine scheduler, the memory pool; proofs of the safety of each.
2. Later models: the deadlock detector, the TCP listener; the C++11 pool running
   clients of the connection pool.
