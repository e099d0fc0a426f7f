------------------------------- MODULE LogFile -------------------------------
(***************************************************************************)
(* LogFile of 8.2log4cpp/.../muduo_log, with the AppendFile it writes to:  *)
(* files named after the second in which they are opened, rolled when they *)
(* grow beyond rollSize_ or when a new period begins.  Used by one thread  *)
(* (threadSafe false).  Lengths are counted in lines.                      *)
(***************************************************************************)
EXTENDS Integers, Sequences, SequencesExt, FiniteSets

CONSTANTS
    rollSize_, checkEveryN_, flushInterval_, kRollPerSeconds_,
    MaxNow          \* bound: the last second of the clock

ASSUME RollAssumption == /\ rollSize_ \in Nat /\ checkEveryN_ \in Nat \ {0}
                         /\ flushInterval_ \in Nat /\ kRollPerSeconds_ \in Nat \ {0}
ASSUME ClockAssumption == MaxNow \in Nat \ {0}

VARIABLES
    now,            \* time(NULL)
    files,          \* the files: the second of their name and their lines
    unflushed,      \* lines of the open file that are still in its buffer
    count_, startOfPeriod_, lastRoll_, lastFlush_,
    strays          \* history: appends to the open file in a later period

logfile == <<files, unflushed, count_, startOfPeriod_, lastRoll_, lastFlush_, strays>>

Period(t) == (t \div kRollPerSeconds_) * kRollPerSeconds_

\* Before the constructor.
LogFileInit ==
    /\ now = 1
    /\ files = <<>> /\ unflushed = 0
    /\ count_ = 0 /\ startOfPeriod_ = 0 /\ lastRoll_ = 0 /\ lastFlush_ = 0
    /\ strays = 0

\* The file that is open, its lines, and all lines of all files in order.
file_ == Last(files)
writtenBytes == Len(file_.lines)
AllLines == FlattenSeq([i \in DOMAIN files |-> files[i].lines])

-----------------------------------------------------------------------------
(* What an operation leaves behind, as a record of the variables. *)

Here == [files |-> files, unflushed |-> unflushed, count |-> count_,
         period |-> startOfPeriod_, roll |-> lastRoll_, flush |-> lastFlush_,
         strays |-> strays]

LogFileBecomes(s) ==
    /\ files' = s.files /\ unflushed' = s.unflushed /\ count_' = s.count
    /\ startOfPeriod_' = s.period /\ lastRoll_' = s.roll /\ lastFlush_' = s.flush
    /\ strays' = s.strays

\* Opening a file closes the one before, which writes out its buffer.
\* Faulty variant: a file may be rolled twice in a second.
RollAlways(s) ==
    [s EXCEPT !.files = Append(@, [at |-> now, lines |-> <<>>]), !.unflushed = 0,
              !.roll = now, !.flush = now, !.period = Period(now), !.strays = 0]

rollFile(s) ==
    IF now > s.roll
    THEN [s EXCEPT !.files = Append(@, [at |-> now, lines |-> <<>>]), !.unflushed = 0,
                   !.roll = now, !.flush = now, !.period = Period(now), !.strays = 0]
    ELSE s

\* AppendFile::append; a write that fails is not modelled.
Put(s, lines) ==
    [s EXCEPT !.files[Len(s.files)].lines = @ \o lines,
              !.unflushed = @ + Len(lines),
              !.strays = @ + IF Period(now) # s.period THEN 1 ELSE 0]

\* Faulty variant: the size is looked at before the append.
AppendChecksFirst(s, lines) ==
    LET put == Put(IF Len(Last(s.files).lines) > rollSize_ THEN rollFile(s) ELSE s, lines)
        checked == [put EXCEPT !.count = 0]
    IN IF put.count + 1 < checkEveryN_ THEN [put EXCEPT !.count = @ + 1]
       ELSE IF Period(now) # put.period THEN rollFile(checked)
       ELSE checked

append_unlocked(s, lines) ==
    LET put == Put(s, lines)
        checked == [put EXCEPT !.count = 0]
    IN IF Len(Last(put.files).lines) > rollSize_ THEN rollFile(put)
       ELSE IF put.count + 1 < checkEveryN_ THEN [put EXCEPT !.count = @ + 1]
       ELSE IF Period(now) # put.period THEN rollFile(checked)
       ELSE IF now - put.flush > flushInterval_
            THEN [checked EXCEPT !.flush = now, !.unflushed = 0]
       ELSE checked

flush(s) == [s EXCEPT !.unflushed = 0]

\* Time passes.
ClockTicks == now < MaxNow /\ now' = now + 1

-----------------------------------------------------------------------------
(* Properties *)

\* A file's name has the second it was opened in, and files are opened to
\* append: no two files get the same name.
NamesDistinct ==
    \A i, j \in DOMAIN files : i < j => files[i].at < files[j].at

\* A file is left at the latest with its checkEveryN_-th append of a later period,
\* although the clock is looked at only now and then and a roll by size does
\* not reset count_.
StraysBounded == strays < checkEveryN_

\* After an append a file that is too large was opened this very second: a file
\* may outgrow rollSize_ without bound within a second, and never beyond it.
OversizeOnlyInItsSecond ==
    [][files' # <<>> /\ writtenBytes' > rollSize_ => file_.at' = now]_files

=============================================================================
