---------------------------- MODULE AsyncLogging ----------------------------
(***************************************************************************)
(* src/logger/AsyncLogging.{h,cc} over FixedBuffer.h: front-end threads     *)
(* append log lines to a current buffer, and a back-end thread swaps the    *)
(* filled buffers out under mutex_, writes them to a LogFile and recycles   *)
(* them.                                                                    *)
(*                                                                          *)
(* A BufferPtr is a sequence of at most one buffer, <<>> being null; a      *)
(* buffer is the sequence of lines in it; a line is <<number, length>>.     *)
(* append() is one critical section, so the front-end threads need no       *)
(* identity.  pc is where the back-end thread is:                           *)
(*   off      before start()                                                *)
(*   check    at while (running_)                                           *)
(*   lock     running_ was true; about to take mutex_                       *)
(*   waiting  in cond_.wait_for(), mutex_ released; a notify_one() reaches  *)
(*            it only here                                                  *)
(*   write    between two buffers of buffersToWrite                         *)
(*   recycle  all written                                                   *)
(*   done     threadFunc() has returned                                     *)
(***************************************************************************)
EXTENDS LogFile, FiniteSets

CONSTANTS
  Size,         \* kLargeBuffer
  Lengths,      \* lengths a log line can have
  MaxLines      \* bound: lines appended in a behaviour

ASSUME SizeAssumption == Size \in Nat \ {0}
\* A line comes out of a LogStream, whose buffer is kSmallBuffer bytes
ASSUME LengthsAssumption == Lengths \subseteq 1..(Size - 1)
ASSUME LinesAssumption == MaxLines \in Nat

VARIABLES
  currentBuffer_, nextBuffer_, buffers_,      \* guarded by mutex_
  running_,
  notified,                                   \* cond_ was notified in the wait
  stopping,                                   \* where stop() is: "no",
                                              \* "notify" (about to), "join"
  pc, newBuffer1, newBuffer2, buffersToWrite, \* the back-end's locals
  pos,                                        \* next buffer to write
  appended                                    \* history: append() calls

front == <<currentBuffer_, nextBuffer_, buffers_>>
back == <<pc, newBuffer1, newBuffer2, buffersToWrite, pos>>
vars == <<front, running_, notified, stopping, back, logFile, appended>>

Null == <<>>
Fresh == << <<>> >>                 \* a pointer to an empty buffer

avail(buffer) == Size - Used(buffer)

\* FixedBuffer::append(): silently nothing when the line does not fit
put(buffer, line) ==
  IF avail(buffer) > line[2] THEN Append(buffer, line) ELSE buffer

Init ==
  /\ currentBuffer_ = Fresh /\ nextBuffer_ = Fresh /\ buffers_ = <<>>
  /\ running_ = FALSE /\ notified = FALSE /\ stopping = "no"
  /\ pc = "off" /\ newBuffer1 = Null /\ newBuffer2 = Null
  /\ buffersToWrite = <<>> /\ pos = 1
  /\ InitLogFile
  /\ appended = <<>>
-----------------------------------------------------------------------------
(* The front end                                                            *)

\* notify_one(): lost unless the back end is waiting
notify_one == notified' = (pc = "waiting")

append(len) ==
  LET line == <<Len(appended) + 1, len>>
      current == currentBuffer_[1]
      next == IF nextBuffer_ # Null THEN nextBuffer_[1] ELSE <<>>
  IN /\ Len(appended) < MaxLines
     /\ appended' = Append(appended, line)
     /\ IF avail(current) > len
          THEN /\ currentBuffer_' = <<put(current, line)>>
               /\ UNCHANGED <<nextBuffer_, buffers_, notified>>
          ELSE /\ buffers_' = Append(buffers_, current)
               /\ currentBuffer_' = <<put(next, line)>>
               /\ nextBuffer_' = Null
               /\ notify_one
     /\ UNCHANGED <<running_, stopping, back, logFile>>

start ==
  /\ pc = "off"
  /\ running_' = TRUE
  /\ pc' = "check"
  /\ \E now \in Times : LogFileCtor(now)
  /\ newBuffer1' = Fresh /\ newBuffer2' = Fresh
  /\ UNCHANGED <<front, notified, stopping, buffersToWrite, pos, appended>>

\* stop(), without mutex_: the store, then the notify; its join() returns when
\* the back end does
stop ==
  /\ running_
  /\ running_' = FALSE /\ stopping' = "notify"
  /\ UNCHANGED <<front, notified, back, logFile, appended>>

StopNotifies ==
  /\ stopping = "notify"
  /\ notify_one /\ stopping' = "join"
  /\ UNCHANGED <<front, running_, back, logFile, appended>>
-----------------------------------------------------------------------------
(* The back end                                                             *)

\* mutant of refillNext
refillAlways == nextBuffer_' = newBuffer2 /\ newBuffer2' = Null

refillNext == IF nextBuffer_ = Null
                THEN nextBuffer_' = newBuffer2 /\ newBuffer2' = Null
                ELSE UNCHANGED <<nextBuffer_, newBuffer2>>

\* The critical section after the wait, mutex_ held again
swap ==
  /\ buffersToWrite' = buffers_ \o currentBuffer_
  /\ buffers_' = <<>>
  /\ currentBuffer_' = newBuffer1 /\ newBuffer1' = Null
  /\ refillNext
  /\ pos' = 1
  /\ pc' = "write"
  /\ notified' = FALSE
  /\ UNCHANGED <<running_, stopping, logFile, appended>>

\* while (running_): read without the lock
KeepRunning ==
  /\ pc = "check" /\ running_
  /\ pc' = "lock"
  /\ UNCHANGED <<front, running_, notified, stopping, newBuffer1, newBuffer2,
                 buffersToWrite, pos, logFile, appended>>

\* With the lock: wait only if nothing is filled
SwapAtOnce ==
  /\ pc = "lock" /\ buffers_ # <<>>
  /\ swap

Wait ==
  /\ pc = "lock" /\ buffers_ = <<>>
  /\ pc' = "waiting"
  /\ UNCHANGED <<front, running_, notified, stopping, newBuffer1, newBuffer2,
                 buffersToWrite, pos, logFile, appended>>

Notified ==
  /\ pc = "waiting" /\ notified
  /\ swap

\* mutant of TimedOut: cond_.wait() without the three seconds
waitForNotify == Notified

\* The three seconds are over (or the wait ended spuriously, which nothing
\* counts on)
TimedOut ==
  /\ pc = "waiting"
  /\ swap

Exit ==
  /\ pc = "check" /\ ~running_
  /\ pc' = "done"
  /\ flush
  /\ UNCHANGED <<front, running_, notified, stopping, newBuffer1, newBuffer2,
                 buffersToWrite, pos, unflushed, appended>>

WriteBuffer ==
  /\ pc = "write"
  /\ IF pos <= Len(buffersToWrite)
       THEN /\ \E now \in Times : appendLines(buffersToWrite[pos], now)
            /\ pos' = pos + 1
            /\ pc' = pc
       ELSE pc' = "recycle" /\ pos' = 1 /\ UNCHANGED logFile
  /\ UNCHANGED <<front, running_, notified, stopping, newBuffer1, newBuffer2,
                 buffersToWrite, appended>>

\* resize(2), back() and pop_back(), then reset() of what is taken
unreset(kept, i) == <<kept[i]>>                         \* mutant of recycled

recycled(kept, i) == Fresh

keep(buffers) == IF Len(buffers) > 2 THEN SubSeq(buffers, 1, 2) ELSE buffers

Recycle ==
  LET kept == keep(buffersToWrite)
      left == IF newBuffer1 = Null THEN Len(kept) - 1 ELSE Len(kept)
  IN /\ pc = "recycle"
     /\ newBuffer1' = IF newBuffer1 = Null THEN recycled(kept, Len(kept))
                                           ELSE newBuffer1
     /\ newBuffer2' = IF newBuffer2 = Null THEN recycled(kept, left)
                                           ELSE newBuffer2
     /\ buffersToWrite' = <<>>
     /\ flush
     /\ pc' = "check"
     /\ UNCHANGED <<front, running_, notified, stopping, pos, unflushed,
                    appended>>
-----------------------------------------------------------------------------
BackEnd ==
  \/ KeepRunning \/ SwapAtOnce \/ Wait \/ Notified \/ TimedOut
  \/ WriteBuffer \/ Recycle \/ Exit

Next ==
  \/ \E len \in Lengths : append(len)
  \/ start \/ stop \/ StopNotifies
  \/ BackEnd

Spec == Init /\ [][Next]_vars

(* The back-end thread keeps running, and wait_for() returns after three    *)
(* seconds; that the thread in stop() gets to its notify is not needed.     *)
FairSpec == Spec /\ WF_vars(BackEnd)
-----------------------------------------------------------------------------
(* Properties                                                               *)

Lines == (1..MaxLines) \X Lengths

IsPointer(p) == Len(p) <= 1 /\ \A i \in DOMAIN p : Range(p[i]) \subseteq Lines

\* Types, and FixedBuffer::append() never fills a buffer to its last unit.
TypeOK ==
  /\ \A p \in {currentBuffer_, nextBuffer_, newBuffer1, newBuffer2} :
       IsPointer(p)
  /\ \A b \in Range(buffers_) \cup Range(buffersToWrite) :
       Used(b) < Size /\ Range(b) \subseteq Lines
  /\ running_ \in BOOLEAN /\ notified \in BOOLEAN
  /\ stopping \in {"no", "notify", "join"}
  /\ pc \in {"off", "check", "lock", "waiting", "write", "recycle", "done"}
  /\ pos \in 1..(Len(buffersToWrite) + 1) \/ buffersToWrite = <<>>
  /\ flushed \in 0..Len(Written(files))
  /\ Range(appended) \subseteq Lines

\* No line is lost, duplicated, torn or reordered on its way through the
\* buffers: what was appended is what the files hold, then what the back
\* end still has to write, then the filled buffers, then the current one, each
\* well formed.
NoLineLost ==
  LET unwritten == IF pc = "write"
                     THEN SubSeq(buffersToWrite, pos, Len(buffersToWrite))
                     ELSE <<>>
  IN /\ TypeOK
     /\ appended = Written(files)
                     \o FlattenSeq(unwritten \o buffers_ \o currentBuffer_)

\* No null pointer is used: the front end always finds a current buffer, the
\* back end always has one to give it, and back() is never called on an
\* empty vector.
NoNullBuffer ==
  /\ currentBuffer_ # Null
  /\ pc \in {"check", "lock", "waiting"} =>
       newBuffer1 # Null /\ newBuffer2 # Null
  /\ pc = "recycle" =>
       Cardinality({i \in {1, 2} : <<newBuffer1, newBuffer2>>[i] = Null})
         <= Len(keep(buffersToWrite))

\* A line appended while the logger runs reaches the flushed file, in three
\* seconds and a write at most, unless the logger is stopped.
LineIsFlushed ==
  \A n \in 1..MaxLines :
    (running_ /\ Len(appended) >= n) ~> (flushed >= n \/ ~running_)

\* stop() joins: the back end comes out of its wait and returns, also when the
\* notify comes between its test of running_ and its wait and is lost.
StopReturns == (pc # "off" /\ ~running_) ~> pc = "done"
=============================================================================
