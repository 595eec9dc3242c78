------------------------------ MODULE LogFile ------------------------------
(***************************************************************************)
(* src/logger/LogFile.cc over FileUtil.cc: the back end of AsyncLogging,    *)
(* which writes to one file at a time and opens another when this one is    *)
(* too large or a day old.  The caller is a single thread (threadSafe is    *)
(* false), so append() is one step; time() returns any now, smaller than    *)
(* before too when the clock was set back, but the same twice in one call.  *)
(*                                                                          *)
(* A file is the second it was opened in, the name it was opened under and  *)
(* the lines appended through it, whose lengths (second components) add up  *)
(* to writtenBytes_.  The name is the local time, which is not one-to-one:  *)
(* where summer time ends, later seconds have the local time of earlier     *)
(* ones, and fopen(.., "ae") then goes on with an old file.                 *)
(***************************************************************************)
EXTENDS Naturals, Sequences, SequencesExt

CONSTANTS
  rollSize_, flushInterval_, checkEveryN_,
  kRollPerSeconds_,     \* the seconds of a day
  MaxTime,              \* bound: time() returns 1..MaxTime
  localtime             \* localtime_r() and strftime(): the text of a second

ASSUME RollAssumption ==
  /\ rollSize_ \in Nat /\ flushInterval_ \in Nat
  /\ checkEveryN_ \in Nat \ {0} /\ kRollPerSeconds_ \in Nat \ {0}
  /\ MaxTime \in Nat \ {0}

Times == 1..MaxTime
ASSUME LocaltimeAssumption == localtime \in [Times -> Nat]

VARIABLES
  files,                                \* all files, file_ being the last
  flushed,                              \* lines out of the stdio buffers
  count_, lastRoll_, lastFlush_, startOfPeriod_,
  wroteLater,                           \* history: was the last append to
                                        \* file_ after lastRoll_?
  overdue                               \* history: appends to file_ in a row
                                        \* on a later day than it was opened

unflushed == <<files, count_, lastRoll_, lastFlush_, startOfPeriod_,
               wroteLater, overdue>>
logFile == <<unflushed, flushed>>

period(t) == (t \div kRollPerSeconds_) * kRollPerSeconds_
Used(lines) == FoldLeft(LAMBDA sum, line : sum + line[2], 0, lines)
Written(fs) == FlattenSeq([i \in DOMAIN fs |-> fs[i].lines])
newFile(now) == [name |-> localtime[now], openedAt |-> now, lines |-> <<>>]

\* The object is made by threadFunc()
InitLogFile ==
  /\ files = <<>> /\ flushed = 0
  /\ count_ = 0 /\ lastRoll_ = 0 /\ lastFlush_ = 0 /\ startOfPeriod_ = 0
  /\ wroteLater = FALSE /\ overdue = 0

LogFileCtor(now) ==
  /\ files' = <<newFile(now)>> /\ lastRoll_' = now /\ lastFlush_' = now
  /\ startOfPeriod_' = period(now)
  /\ UNCHANGED <<flushed, count_, wroteLater, overdue>>
-----------------------------------------------------------------------------
neverFlush == UNCHANGED flushed                         \* mutant of flush

flush == flushed' = Len(Written(files))

\* rollFile() after lines were appended, giving fs: not twice in a second.
\* Closing the old file flushes it.
rollFile(fs, late, now) ==
  IF now > lastRoll_
    THEN /\ files' = Append(fs, newFile(now)) /\ flushed' = Len(Written(fs))
         /\ lastRoll_' = now /\ lastFlush_' = now
         /\ startOfPeriod_' = period(now)
         /\ wroteLater' = FALSE /\ overdue' = 0
    ELSE /\ files' = fs /\ wroteLater' = (now > lastRoll_) /\ overdue' = late
         /\ UNCHANGED <<flushed, lastRoll_, lastFlush_, startOfPeriod_>>

stays(fs, late, now) ==
  /\ files' = fs /\ wroteLater' = (now > lastRoll_) /\ overdue' = late
  /\ IF count_' = 0 /\ now > lastFlush_ + flushInterval_
       THEN lastFlush_' = now /\ flushed' = Len(Written(fs))
       ELSE UNCHANGED <<lastFlush_, flushed>>
  /\ UNCHANGED <<lastRoll_, startOfPeriod_>>

\* mutant of counts
countsOneMore == count_' = IF count_ + 1 > checkEveryN_ THEN 0 ELSE count_ + 1

counts == count_' = IF count_ + 1 >= checkEveryN_ THEN 0 ELSE count_ + 1

\* appendUnLocked(): FileUtil::append(), then the test of the size, and at
\* every checkEveryN_-th append that of the day and of the last flush
appendLines(lines, now) ==
  LET n == Len(files)
      fs == [files EXCEPT ![n].lines = @ \o lines]
      late == IF period(now) > startOfPeriod_ THEN overdue + 1 ELSE 0
  IN IF Used(fs[n].lines) > rollSize_
       THEN rollFile(fs, late, now) /\ UNCHANGED count_
       ELSE /\ counts
            /\ IF count_' = 0 /\ period(now) # startOfPeriod_
                 THEN rollFile(fs, late, now)
                 ELSE stays(fs, late, now)
-----------------------------------------------------------------------------
\* The local time was set back, or stood still, between two seconds
SetBack(s, t) == s < t /\ localtime[t] <= localtime[s]

\* A file is left in time.  One that was given more than rollSize_ was written
\* last in the second it was opened in, or before it by a clock set back;
\* fewer than checkEveryN_ appends in a row go to a file of an earlier day;
\* and one that is opened goes on with an older file of that name only where
\* the local time was set back, never because of two rolls in one second or a
\* clock that was set back.
FilesRoll ==
  files # <<>> =>
    /\ Used(Last(files).lines) > rollSize_ => ~wroteLater
    /\ overdue < checkEveryN_
    /\ \A i, j \in DOMAIN files :
         i < j /\ files[i].name = files[j].name =>
           SetBack(files[i].openedAt, files[j].openedAt)
=============================================================================
