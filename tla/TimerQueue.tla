----------------------------- MODULE TimerQueue -----------------------------
(***************************************************************************)
(* src/net/TimerQueue.cc and Timer.cc: the timers of one event loop, the    *)
(* timerfd that alarms for the earliest, and the threads that add and       *)
(* cancel them.                                                             *)
(*                                                                          *)
(* Expirations are wall-clock times (gettimeofday) while the timerfd counts *)
(* on CLOCK_MONOTONIC, so there are two clocks, and the wall clock may be   *)
(* stepped.  A tick stands for the least delay the timerfd is armed with,   *)
(* the 100 microseconds of howMuchTimeFromNow().                            *)
(*                                                                          *)
(* addTimer() and cancel() of the loop's thread take effect on the spot,    *)
(* inside a callback; those of other threads are functors of the loop, run  *)
(* between two polls.  pc is where the loop thread is:                      *)
(*   loop      outside TimerQueue::handleRead()                             *)
(*   running   handleRead(), between two expired timers                     *)
(*   callback  inside the callback of an expired timer                      *)
(***************************************************************************)
EXTENDS Integers, FiniteSets, Sequences, FiniteSetsExt

CONSTANTS
  Timers,       \* the Timer objects a behaviour creates
  Repeating,    \* those with an interval
  Interval,     \* their interval, in ticks
  Horizon,      \* bound: last moment a timer is added or is set for
  MaxTime,      \* bound: the monotonic clock stops here
  MaxSteps,     \* bound: how often the wall clock is stepped
  MaxCalls      \* bound: functors of other threads waiting at once

ASSUME TimersAssumption == IsFiniteSet(Timers) /\ Repeating \subseteq Timers
ASSUME TimeAssumption ==
  /\ Interval \in Nat \ {0} /\ Horizon \in Nat \ {0}
  /\ MaxTime \in Nat /\ MaxTime > Horizon
  /\ MaxSteps \in Nat /\ MaxCalls \in Nat

VARIABLES
  wall, mono, steps,       \* the clocks, and how often wall was stepped
  armedAt,                 \* mono time the timerfd alarms at, 0: disarmed
  readable,                \* the timerfd has expired and was not read
  reported,                \* poll() has reported the timerfd
  timers_,                 \* set of [when, timer], ordered by when
  activeTimers_, cancelingTimers_, callingExpiredTimers_,
  pc,
  now, expired, rest,      \* handleRead(): its locals; rest of the for loop
  life,                    \* per timer: "none", "queued", "live", "deleted"
  calls,                   \* functors of other threads, in order
  fired, cancelled,        \* history: callbacks begun, cancelInLoop() done
  stopped                  \* history: cancelled during the batch they are of

clocks == <<wall, mono, steps>>
timerfd == <<armedAt, readable>>
sets == <<timers_, activeTimers_, cancelingTimers_, callingExpiredTimers_>>
handler == <<pc, now, expired, rest>>
history == <<cancelled, stopped>>
vars == <<clocks, timerfd, reported, sets, handler, life, calls, fired,
          history>>

Times == 1..(MaxTime + MaxSteps)
Entries == [when : Nat, timer : Timers]
Expirations(entries) == {e.when : e \in entries}
Earliest(entries) == Min(Expirations(entries))

Init ==
  /\ wall = 1 /\ mono = 1 /\ steps = 0
  /\ armedAt = 0 /\ readable = FALSE /\ reported = FALSE
  /\ timers_ = {} /\ activeTimers_ = {} /\ cancelingTimers_ = {}
  /\ callingExpiredTimers_ = FALSE
  /\ pc = "loop" /\ now = 0 /\ expired = {} /\ rest = {}
  /\ life = [t \in Timers |-> "none"]
  /\ calls = <<>>
  /\ fired = {} /\ cancelled = {} /\ stopped = {}
-----------------------------------------------------------------------------
(* Time, and the kernel's timerfd (external).                               *)

\* A tick of both clocks; the one-shot alarm makes the timerfd readable.
\* (Bound: past the Horizon the loop keeps up with the clock, so that the time
\* left until MaxTime is enough for every timer.)
Busy == pc # "loop" \/ reported \/ readable \/ calls # <<>>

Tick ==
  /\ mono < MaxTime
  /\ mono >= Horizon => ~Busy
  /\ mono' = mono + 1 /\ wall' = wall + 1
  /\ IF armedAt = mono + 1 THEN armedAt' = 0 /\ readable' = TRUE
                           ELSE UNCHANGED timerfd
  /\ UNCHANGED <<steps, reported, sets, handler, life, calls, fired, history>>

StepClock ==
  /\ steps < MaxSteps /\ wall <= Horizon
  /\ steps' = steps + 1
  /\ wall' \in {wall - 1, wall + 1} \cap Times
  /\ UNCHANGED <<mono, timerfd, reported, sets, handler, life, calls, fired,
                 history>>

\* howMuchTimeFromNow() and timerfd_settime(), which also forgets an alarm
\* that was not read yet
howMuchTimeFromNow(when) == IF when - wall < 1 THEN 1 ELSE when - wall

resetTimerfd(when) ==
  /\ armedAt' = mono + howMuchTimeFromNow(when)
  /\ readable' = FALSE

\* poll() finds the timerfd readable; other channels' callbacks may still
\* come before its handler
PollReports ==
  /\ pc = "loop" /\ readable /\ ~reported
  /\ reported' = TRUE
  /\ UNCHANGED <<clocks, timerfd, sets, handler, life, calls, fired, history>>
-----------------------------------------------------------------------------
(* The queue                                                                *)

\* insert(): timers_ alone is filled in
earliestLast(when) == timers_ = {}             \* mutant of earliestChanged

earliestChanged(when) == timers_ = {} \/ when < Earliest(timers_)

insert(t, when) == timers_' = timers_ \cup {[when |-> when, timer |-> t]}

addTimerInLoop(t, when) ==
  /\ insert(t, when)
  /\ IF earliestChanged(when) THEN resetTimerfd(when) ELSE UNCHANGED timerfd
  /\ life' = [life EXCEPT ![t] = "live"]
  /\ UNCHANGED <<activeTimers_, cancelingTimers_, callingExpiredTimers_>>

cancelAndDelete(t) ==                          \* mutant of cancelInLoop
  /\ life' = [life EXCEPT ![t] = "deleted"]
  /\ UNCHANGED <<timers_, activeTimers_, cancelingTimers_, timerfd,
                 callingExpiredTimers_>>

marked(t) == cancelingTimers_                  \* mutant of marking

\* cancelInLoop(), its else: noted for the reset() of the batch being called
marking(t) == IF callingExpiredTimers_ THEN cancelingTimers_ \cup {t}
                                       ELSE cancelingTimers_

\* cancelInLoop(): activeTimers_ is looked up first; a timer of the batch
\* that is being called is only marked
cancelInLoop(t) ==
  /\ IF t \in activeTimers_
       THEN /\ timers_' = {e \in timers_ : e.timer # t}
            /\ activeTimers_' = activeTimers_ \ {t}
            /\ life' = [life EXCEPT ![t] = "deleted"]
            /\ UNCHANGED cancelingTimers_
       ELSE /\ cancelingTimers_' = marking(t)
            /\ UNCHANGED <<timers_, activeTimers_, life>>
  /\ UNCHANGED <<timerfd, callingExpiredTimers_>>

\* The history of a cancel: it has no part in what the code does
noted(t) ==
  /\ cancelled' = cancelled \cup {t}
  /\ stopped' = IF \E e \in expired : e.timer = t THEN stopped \cup {t}
                                                 ELSE stopped
-----------------------------------------------------------------------------
(* handleRead()                                                             *)

\* getExpired(now): all entries up to (now, UINTPTR_MAX)
due(entries, time) == {e \in entries : e.when <= time}

HandleRead ==
  /\ pc = "loop" /\ reported
  /\ reported' = FALSE
  /\ readable' = FALSE
  /\ now' = wall
  /\ expired' = due(timers_, wall) /\ rest' = expired'
  /\ timers_' = timers_ \ expired'
  /\ activeTimers_' = activeTimers_ \ {e.timer : e \in expired'}
  /\ callingExpiredTimers_' = TRUE
  /\ cancelingTimers_' = {}
  /\ pc' = "running"
  /\ UNCHANGED <<clocks, armedAt, life, calls, fired, history>>

\* timer->run(), in order of expiration
RunTimer(e) ==
  /\ pc = "running"
  /\ e \in rest /\ e.when = Earliest(rest)
  /\ rest' = rest \ {e}
  /\ fired' = fired \cup {e.timer}
  /\ pc' = "callback"
  /\ UNCHANGED <<clocks, timerfd, reported, sets, now, expired, life, calls,
                 history>>

CallbackReturns ==
  /\ pc = "callback"
  /\ pc' = "running"
  /\ UNCHANGED <<clocks, timerfd, reported, sets, now, expired, rest, life,
                 calls, fired, history>>

\* reset(expired, now): repeating timers start again, the others are deleted
restarts(t) == t \in Repeating /\ t \notin cancelingTimers_

restart(t) == [when |-> now + Interval, timer |-> t]

neverRearm(entries) == UNCHANGED timerfd       \* mutant of rearm

rearm(entries) == IF entries # {} THEN resetTimerfd(Earliest(entries))
                                  ELSE UNCHANGED timerfd

Reset ==
  LET batch == {e.timer : e \in expired}
      again == {t \in batch : restarts(t)}
      left == timers_ \cup {restart(t) : t \in again}
  IN /\ pc = "running" /\ rest = {}
     /\ pc' = "loop"
     /\ callingExpiredTimers_' = FALSE
     /\ timers_' = left
     /\ life' = [t \in Timers |->
                   IF t \in batch \ again THEN "deleted" ELSE life[t]]
     /\ rearm(left)
     /\ expired' = {} /\ now' = 0
     /\ UNCHANGED <<clocks, reported, activeTimers_, cancelingTimers_, rest,
                    calls, fired, history>>
-----------------------------------------------------------------------------
(* addTimer() and cancel()                                                  *)

InLoopThread == pc \in {"loop", "callback"}
Created == {t \in Timers : life[t] # "none"}

AddHere(t, when) ==
  /\ InLoopThread
  /\ life[t] = "none" /\ mono <= Horizon
  /\ addTimerInLoop(t, when)
  /\ UNCHANGED <<clocks, reported, handler, calls, fired, history>>

CancelHere(t) ==
  /\ InLoopThread
  /\ t \in Created
  /\ cancelInLoop(t) /\ noted(t)
  /\ UNCHANGED <<clocks, reported, handler, calls, fired>>

AddElsewhere(t, when) ==
  /\ life[t] = "none" /\ mono <= Horizon /\ Len(calls) < MaxCalls
  /\ life' = [life EXCEPT ![t] = "queued"]
  /\ calls' = Append(calls, <<"add", t, when>>)
  /\ UNCHANGED <<clocks, timerfd, reported, sets, handler, fired, history>>

CancelElsewhere(t) ==
  /\ t \in Created \ cancelled /\ Len(calls) < MaxCalls
  /\ calls' = Append(calls, <<"cancel", t>>)
  /\ UNCHANGED <<clocks, timerfd, reported, sets, handler, life, fired,
                 history>>

\* The loop runs the functors after the channels of the poll are handled
RunCall ==
  /\ pc = "loop" /\ ~reported /\ calls # <<>>
  /\ calls' = Tail(calls)
  /\ LET call == Head(calls)
     IN \/ /\ call[1] = "add" /\ addTimerInLoop(call[2], call[3])
           /\ UNCHANGED history
        \/ call[1] = "cancel" /\ cancelInLoop(call[2]) /\ noted(call[2])
  /\ UNCHANGED <<clocks, reported, handler, fired>>
-----------------------------------------------------------------------------
LoopStep == PollReports \/ HandleRead \/ (\E e \in rest : RunTimer(e))
              \/ CallbackReturns \/ Reset

Call == \E t \in Timers :
          \/ \E when \in 1..Horizon : AddHere(t, when) \/ AddElsewhere(t, when)
          \/ CancelHere(t) \/ CancelElsewhere(t)

Next == Tick \/ StepClock \/ LoopStep \/ RunCall \/ Call

Spec == Init /\ [][Next]_vars

(* Time passes, and the loop handles what poll reports and what is queued. *)
Fairness == WF_vars(Tick) /\ WF_vars(LoopStep) /\ WF_vars(RunCall)

FairSpec == Spec /\ Fairness
-----------------------------------------------------------------------------
(* Properties                                                               *)

\* Types; restart() never sets a timer before its time, and the timers still
\* to be called are of the batch getExpired() took.
TypeOK ==
  /\ wall \in Times /\ mono \in Times /\ steps \in 0..MaxSteps
  /\ armedAt \in Nat /\ readable \in BOOLEAN /\ reported \in BOOLEAN
  /\ timers_ \subseteq Entries /\ expired \subseteq Entries
  /\ rest \subseteq expired
  /\ activeTimers_ \subseteq Timers /\ cancelingTimers_ \subseteq Timers
  /\ callingExpiredTimers_ \in BOOLEAN
  /\ pc \in {"loop", "running", "callback"} /\ now \in {0} \cup Times
  /\ life \in [Timers -> {"none", "queued", "live", "deleted"}]
  /\ fired \subseteq Timers /\ cancelled \subseteq Timers
  /\ stopped \subseteq cancelled

\* Neither a dangling pointer nor a leak: the live timers are exactly those
\* in timers_ or in the batch being called, each in one place once and of
\* its type.
OwnedOnce ==
  LET owned == {e.timer : e \in timers_} \cup {e.timer : e \in expired}
  IN /\ TypeOK
     /\ owned = {t \in Timers : life[t] = "live"}
     /\ Cardinality(timers_) + Cardinality(expired) = Cardinality(owned)

\* Outside handleRead() a waiting timer always has an alarm ahead of it, an
\* alarm that was not read yet, or its handler about to run.  Without steps
\* of the wall clock the alarm is never set past the earliest timer, so none
\* is late by more than the least delay.
AlarmInTime ==
  pc = "loop" /\ timers_ # {} =>
    /\ armedAt > mono \/ readable \/ reported
    /\ steps = 0 /\ armedAt # 0
         => armedAt - mono <= howMuchTimeFromNow(Earliest(timers_))

\* A timer cancelled while its batch is being called, from its own callback or
\* another's, before its turn or after it, does not outlive the batch: it is
\* not started again, and reset() deletes it.
CancelInBatch ==
  \A t \in stopped :
    /\ \A e \in timers_ : e.timer # t
    /\ life[t] = "deleted" \/ \E e \in expired : e.timer = t

\* Every timer added by any thread runs unless that very timer is cancelled,
\* whatever is added or cancelled around it and however the wall clock is
\* stepped.
AddedFires ==
  \A t \in Timers : life[t] # "none" ~> t \in fired \/ t \in cancelled

\* What cancel() is for: once cancelInLoop() has run on a timer that is not in
\* the batch being called, its callback is not called any more.
CancelledNeverFires ==
  [][\A e \in rest : rest' = rest \ {e} /\ pc' = "callback"
                       => e.timer \notin cancelled \ stopped]_vars
=============================================================================
