---------------------------- MODULE AsyncLogging ----------------------------
(***************************************************************************)
(* AsyncLogging of 8.2log4cpp/.../muduo_log: front ends append lines to a  *)
(* buffer under mutex_, one thread swaps the buffers and writes them to a  *)
(* LogFile without it, an owner calls start and stop.                      *)
(*                                                                         *)
(* A buffer is the sequence of its lines and a unique_ptr a sequence of at *)
(* most one buffer, so that a buffer that was not reset shows.  Lines have *)
(* one length and are numbered in the order in which append gets mutex_.   *)
(* The wait on cond_ ends by a notification, by its time-out or            *)
(* spuriously, so that it may end at any time and notify has no effect of  *)
(* its own.                                                                *)
(***************************************************************************)
EXTENDS LogFile

CONSTANTS
    BufferLines,    \* lines that fit into a buffer (kLargeBuffer)
    TooMany,        \* buffers beyond which lines are dropped (25)
    MaxLines        \* bound: calls of append

ASSUME BuffersAssumption == BufferLines \in Nat \ {0} /\ TooMany \in Nat \ {0, 1}
ASSUME LinesAssumption == MaxLines \in Nat

VARIABLES
    running_,
    currentBuffer_, nextBuffer_, buffers_,
    newBuffer1, newBuffer2, buffersToWrite,     \* locals of threadFunc
    toAppend,       \* threadFunc: buffers not yet given to output.append
    pc,             \* where threadFunc is
    owner,          \* where the owner is
    appended,       \* calls of append so far
    dropped         \* history: the lines of buffers that were dropped

front == <<currentBuffer_, nextBuffer_, buffers_, appended>>
back == <<newBuffer1, newBuffer2, buffersToWrite, toAppend, dropped>>
loggerVars == <<now, logfile, running_, front, back, pc, owner>>

Null == <<>>
Empty == <<>>
Buffer == {b \in Seq(1 .. MaxLines) : Len(b) <= BufferLines}
Ptr == {p \in Seq(Buffer) : Len(p) <= 1}
DroppedMark == 0
File == [at : 1 .. MaxNow, lines : Seq(0 .. MaxLines)]

LoggerTypeOK ==
    /\ now \in 1 .. MaxNow
    /\ files \in Seq(File)
    /\ unflushed \in Nat /\ strays \in Nat
    /\ count_ \in 0 .. checkEveryN_ - 1
    /\ lastRoll_ \in 0 .. MaxNow /\ lastFlush_ \in 0 .. MaxNow /\ startOfPeriod_ \in Nat
    /\ running_ \in BOOLEAN
    /\ currentBuffer_ \in Ptr \ {Null} /\ nextBuffer_ \in Ptr
    /\ newBuffer1 \in Ptr /\ newBuffer2 \in Ptr
    /\ buffers_ \in Seq(Buffer) /\ buffersToWrite \in Seq(Buffer) /\ toAppend \in Seq(Buffer)
    /\ pc \in {"none", "begin", "loop", "lock", "waiting", "drop", "write", "ended"}
    /\ owner \in {"new", "latch", "started", "join", "stopped"}
    /\ appended \in 0 .. MaxLines
    /\ dropped \subseteq 1 .. MaxLines

LoggerInit ==
    /\ LogFileInit
    /\ running_ = FALSE
    /\ currentBuffer_ = <<Empty>> /\ nextBuffer_ = <<Empty>> /\ buffers_ = <<>>
    /\ newBuffer1 = Null /\ newBuffer2 = Null
    /\ buffersToWrite = <<>> /\ toAppend = <<>>
    /\ pc = "none" /\ owner = "new"
    /\ appended = 0 /\ dropped = {}

-----------------------------------------------------------------------------
(* A front end *)

append ==
    /\ appended < MaxLines
    /\ appended' = appended + 1
    /\ IF Len(currentBuffer_[1]) < BufferLines
       THEN /\ currentBuffer_' = <<Append(currentBuffer_[1], appended')>>
            /\ UNCHANGED <<nextBuffer_, buffers_>>
       ELSE /\ buffers_' = buffers_ \o currentBuffer_
            /\ LET b == IF nextBuffer_ # Null THEN nextBuffer_[1] ELSE Empty
               IN currentBuffer_' = <<Append(b, appended')>>
            /\ nextBuffer_' = Null
    /\ UNCHANGED <<now, logfile, running_, back, pc, owner>>

-----------------------------------------------------------------------------
(* The owner *)

start ==
    /\ owner = "new"
    /\ running_' = TRUE
    /\ pc' = "begin"
    /\ owner' = "latch"
    /\ UNCHANGED <<now, logfile, front, back>>

\* latch_.wait returns.
StartEnds ==
    /\ owner = "latch" /\ pc # "begin"
    /\ owner' = "started"
    /\ UNCHANGED <<now, logfile, running_, front, back, pc>>

\* stop, or the destructor, up to the join.
stop ==
    /\ owner = "started"
    /\ running_' = FALSE
    /\ owner' = "join"
    /\ UNCHANGED <<now, logfile, front, back, pc>>

StopEnds ==
    /\ owner = "join" /\ pc = "ended"
    /\ owner' = "stopped"
    /\ UNCHANGED <<now, logfile, running_, front, back, pc>>

-----------------------------------------------------------------------------
(* threadFunc *)

\* Up to the loop; the LogFile's constructor opens the first file.
ThreadBegins ==
    /\ pc = "begin"
    /\ LogFileBecomes(rollFile(Here))
    /\ newBuffer1' = <<Empty>> /\ newBuffer2' = <<Empty>>
    /\ pc' = "loop"
    /\ UNCHANGED <<now, running_, front, buffersToWrite, toAppend, dropped, owner>>

\* while (running_), and the last flush.
TestRunning ==
    /\ pc = "loop"
    /\ IF running_
       THEN pc' = "lock" /\ UNCHANGED logfile
       ELSE pc' = "ended" /\ LogFileBecomes(flush(Here))
    /\ UNCHANGED <<now, running_, front, back, owner>>

Wait ==
    /\ pc = "lock" /\ buffers_ = <<>>
    /\ pc' = "waiting"
    /\ UNCHANGED <<now, logfile, running_, front, back, owner>>

\* Faulty variant: a wait without a time-out, repeated until a buffer is full.
SwapOnlyFull ==
    /\ pc \in {"waiting", "lock"} /\ buffers_ # <<>>
    /\ buffersToWrite' = buffers_ \o currentBuffer_
    /\ toAppend' = buffersToWrite'
    /\ buffers_' = <<>>
    /\ currentBuffer_' = newBuffer1 /\ newBuffer1' = Null
    /\ IF nextBuffer_ = Null
       THEN nextBuffer_' = newBuffer2 /\ newBuffer2' = Null
       ELSE UNCHANGED <<nextBuffer_, newBuffer2>>
    /\ pc' = "drop"
    /\ UNCHANGED <<now, logfile, running_, appended, dropped, owner>>

\* Under mutex_, after the wait if there was one.
Swap ==
    /\ pc = "waiting" \/ (pc = "lock" /\ buffers_ # <<>>)
    /\ buffersToWrite' = buffers_ \o currentBuffer_
    /\ toAppend' = buffersToWrite'
    /\ buffers_' = <<>>
    /\ currentBuffer_' = newBuffer1 /\ newBuffer1' = Null
    /\ IF nextBuffer_ = Null
       THEN nextBuffer_' = newBuffer2 /\ newBuffer2' = Null
       ELSE UNCHANGED <<nextBuffer_, newBuffer2>>
    /\ pc' = "drop"
    /\ UNCHANGED <<now, logfile, running_, appended, dropped, owner>>

\* erase and resize.
FirstTwo(bs) == SubSeq(bs, 1, IF Len(bs) < 2 THEN Len(bs) ELSE 2)

LinesOf(bs) == UNION {ToSet(bs[i]) : i \in DOMAIN bs}

\* Faulty variant: nothing in the file tells of the lines dropped.
DropSilently ==
    /\ pc = "drop"
    /\ IF Len(buffersToWrite) > TooMany
       THEN /\ buffersToWrite' = FirstTwo(buffersToWrite)
            /\ toAppend' = buffersToWrite'
            /\ dropped' = dropped \cup LinesOf(SubSeq(buffersToWrite, 3, Len(buffersToWrite)))
       ELSE UNCHANGED <<buffersToWrite, toAppend, dropped>>
    /\ pc' = "write"
    /\ UNCHANGED <<now, logfile, running_, front, newBuffer1, newBuffer2, owner>>

DropIfTooMany ==
    /\ pc = "drop"
    /\ IF Len(buffersToWrite) > TooMany
       THEN /\ LogFileBecomes(append_unlocked(Here, <<DroppedMark>>))
            /\ buffersToWrite' = FirstTwo(buffersToWrite)
            /\ toAppend' = buffersToWrite'
            /\ dropped' = dropped \cup LinesOf(SubSeq(buffersToWrite, 3, Len(buffersToWrite)))
       ELSE UNCHANGED <<logfile, buffersToWrite, toAppend, dropped>>
    /\ pc' = "write"
    /\ UNCHANGED <<now, running_, front, newBuffer1, newBuffer2, owner>>

\* One turn of the loop over buffersToWrite.
WriteBuffer ==
    /\ pc = "write" /\ toAppend # <<>>
    /\ LogFileBecomes(append_unlocked(Here, Head(toAppend)))
    /\ toAppend' = Tail(toAppend)
    /\ UNCHANGED <<now, running_, front, newBuffer1, newBuffer2, buffersToWrite, dropped,
                   pc, owner>>

\* Flush, and take the buffers back for the next turn, from the end of the first
\* two that were written.
\* Faulty variant: newBuffer1 is not reset.
RefillWithoutReset ==
    /\ pc = "write" /\ toAppend = <<>>
    /\ LogFileBecomes(flush(Here))
    /\ LET kept == FirstTwo(buffersToWrite)
           rest == IF newBuffer1 = Null THEN Front(kept) ELSE kept
       IN /\ newBuffer1' = IF newBuffer1 = Null THEN <<Last(kept)>> ELSE newBuffer1
          /\ newBuffer2' = IF newBuffer2 = Null /\ rest # <<>> THEN <<Empty>> ELSE newBuffer2
    /\ buffersToWrite' = <<>>
    /\ pc' = "loop"
    /\ UNCHANGED <<now, running_, front, toAppend, dropped, owner>>

Refill ==
    /\ pc = "write" /\ toAppend = <<>>
    /\ LogFileBecomes(flush(Here))
    /\ LET kept == FirstTwo(buffersToWrite)
           rest == IF newBuffer1 = Null THEN Front(kept) ELSE kept
       IN /\ newBuffer1' = IF newBuffer1 = Null THEN <<Empty>> ELSE newBuffer1
          /\ newBuffer2' = IF newBuffer2 = Null /\ rest # <<>> THEN <<Empty>> ELSE newBuffer2
    /\ buffersToWrite' = <<>>
    /\ pc' = "loop"
    /\ UNCHANGED <<now, running_, front, toAppend, dropped, owner>>

-----------------------------------------------------------------------------
Thread ==
    \/ ThreadBegins
    \/ TestRunning
    \/ Wait
    \/ Swap
    \/ DropIfTooMany
    \/ WriteBuffer
    \/ Refill

LoggerNext ==
    \/ append
    \/ start
    \/ StartEnds
    \/ stop
    \/ StopEnds
    \/ Thread
    \/ ClockTicks /\ UNCHANGED <<logfile, running_, front, back, pc, owner>>

LoggerSpec == LoggerInit /\ [][LoggerNext]_loggerVars

\* The thread runs, waits end after flushInterval_ at the latest, and a stop that
\* was called goes on.
LoggerFairSpec ==
    /\ LoggerSpec
    /\ WF_loggerVars(Thread) /\ WF_loggerVars(StartEnds) /\ WF_loggerVars(StopEnds)

-----------------------------------------------------------------------------
(* Properties *)

IsLine(l) == l # DroppedMark

\* What the files, the buffers being written, the full buffers and the current one
\* hold, in this order, and the places in it.
Lines == [i \in DOMAIN files |-> files[i].lines]
Pieces == Lines \o toAppend \o buffers_ \o currentBuffer_
Places(pieces) == UNION {{<<i, k>> : k \in DOMAIN pieces[i]} : i \in DOMAIN pieces}
Before(a, b) == a[1] < b[1] \/ (a[1] = b[1] /\ a[2] < b[2])

\* Every line appended and not dropped is in one of them, once, in the order of the
\* calls: swapping, recycling and rolling neither lose, repeat nor reorder a line.
LinesInOrder ==
    LET pieces == Pieces
        at(a) == pieces[a[1]][a[2]]
        places == {a \in Places(pieces) : IsLine(at(a))}
    IN  /\ \A a, b \in places : Before(a, b) => at(a) < at(b)
        /\ {at(a) : a \in places} = (1 .. appended) \ dropped

\* The assertions of threadFunc: both spare buffers are there and empty at the top
\* of the loop, and enough buffers were written to take them from.
AssertionsHold ==
    /\ pc \in {"loop", "lock", "waiting"} =>
          newBuffer1 = <<Empty>> /\ newBuffer2 = <<Empty>> /\ buffersToWrite = <<>>
    /\ pc \in {"drop", "write"} =>
          Len(buffersToWrite) >= Cardinality({i \in 1 .. 2 : <<newBuffer1, newBuffer2>>[i] = Null})

\* Where lines are missing from the files, a "Dropped log messages" line was written
\* before: each gap has one of its own.
GapsAnnounced ==
    LET at(a) == files[a[1]].lines[a[2]]
        marks == {a \in Places(Lines) : at(a) = DroppedMark}
        gaps == {a \in Places(Lines) : IsLine(at(a)) /\ at(a) - 1 \in dropped}
    IN  \E f \in Injection(gaps, marks) : \A a \in gaps : Before(f[a], a)

OnDisk == ToSet(SubSeq(AllLines, 1, Len(AllLines) - unflushed))

\* While the logger runs, a line that was appended gets to the disk or is dropped.
LinesGetWritten ==
    \A l \in 1 .. MaxLines :
        running_ /\ l <= appended ~> l \in OnDisk \cup dropped \/ ~running_

\* stop returns.
StopReturns == owner = "join" ~> owner = "stopped"

\* The buffers of threadFunc and the files of LogFile are sound.
LoggerSound == LoggerTypeOK /\ AssertionsHold /\ NamesDistinct /\ StraysBounded
=============================================================================
