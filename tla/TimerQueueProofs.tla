-------------------------- MODULE TimerQueueProofs --------------------------
(***************************************************************************)
(* Proofs about TimerQueue: no timer is leaked, freed twice or called when  *)
(* freed, the timerfd alarms in time for the earliest one, and a timer      *)
(* cancelled inside its batch is not started again; for any timers, any     *)
(* threads that add and cancel them and any steps of the wall clock.        *)
(***************************************************************************)
EXTENDS TimerQueue, TLAPS, FiniteSetTheorems, SequenceTheorems

TimersOf(entries) == {e.timer : e \in entries}

-----------------------------------------------------------------------------
(* The earliest expiration                                                  *)

\* A set of times that is not empty has an earliest one.
LEMMA MinProperties ==
  ASSUME NEW S \in SUBSET Nat, S # {}
  PROVE  Min(S) \in S /\ \A y \in S : Min(S) <= y
<1>1. \E x \in S : \A y \in S : x <= y
  <2>1. PICK x \in S : \A y \in S : ~(<<y, x>> \in OpToRel(<, Nat))
    BY NatLessThanWellFounded, WFMin
  <2>2. \A y \in S : ~(y < x)
    BY <2>1 DEF OpToRel
  <2>3. \A y \in S : x <= y
    BY <2>2
  <2> QED
    BY <2>3
<1> QED
  BY <1>1 DEF Min

\* Earliest(entries) is the time of an entry and no later than any other.
LEMMA EarliestProperties ==
  ASSUME NEW E \in SUBSET Entries, E # {}
  PROVE  /\ Earliest(E) \in Nat
         /\ \E e \in E : e.when = Earliest(E)
         /\ \A e \in E : Earliest(E) <= e.when
<1> DEFINE W == Expirations(E)
<1>1. W \in SUBSET Nat /\ W # {}
  BY DEF Expirations, Entries
<1>2. Earliest(E) \in W /\ \A y \in W : Earliest(E) <= y
  BY <1>1, MinProperties DEF Earliest
<1> QED
  BY <1>1, <1>2 DEF Expirations

\* It is the only such time.
LEMMA EarliestIs ==
  ASSUME NEW E \in SUBSET Entries, NEW e \in E,
         \A f \in E : e.when <= f.when
  PROVE  Earliest(E) = e.when
BY EarliestProperties DEF Entries

\* Adding an entry that is not earlier than the earliest keeps it; one that
\* is, as earliestChanged() tells, becomes it.
LEMMA EarliestInsert ==
  ASSUME timers_ \in SUBSET Entries, NEW t \in Timers, NEW when \in Nat,
         NEW E, E = timers_ \cup {[when |-> when, timer |-> t]}
  PROVE  /\ E \in SUBSET Entries /\ E # {}
         /\ earliestChanged(when) => Earliest(E) = when
         /\ ~earliestChanged(when) =>
              timers_ # {} /\ Earliest(E) = Earliest(timers_)
<1> DEFINE n == [when |-> when, timer |-> t]
<1>1. n \in Entries /\ n.when = when
  BY DEF Entries
<1>2. E \in SUBSET Entries /\ E # {} /\ n \in E
  BY <1>1
<1> HIDE DEF n
<1>3. ASSUME earliestChanged(when) PROVE Earliest(E) = when
  <2>1. \A f \in timers_ : when <= f.when
    BY <1>3, EarliestProperties DEF earliestChanged, Entries
  <2>2. \A f \in E : n.when <= f.when
    BY <1>1, <2>1 DEF n
  <2> QED
    BY <1>1, <1>2, <2>2, EarliestIs
<1>4. ASSUME ~earliestChanged(when)
      PROVE  timers_ # {} /\ Earliest(E) = Earliest(timers_)
  <2>1. timers_ # {} /\ ~(when < Earliest(timers_))
    BY <1>4 DEF earliestChanged
  <2>2. PICK e \in timers_ : e.when = Earliest(timers_)
    BY <2>1, EarliestProperties
  <2>3. \A f \in timers_ : e.when <= f.when
    BY <2>1, <2>2, EarliestProperties
  <2>4. e.when <= n.when
    BY <1>1, <2>1, <2>2, EarliestProperties
  <2>5. \A f \in E : e.when <= f.when
    BY <2>3, <2>4 DEF n
  <2> QED
    BY <1>2, <2>1, <2>2, <2>5, EarliestIs
<1> QED
  BY <1>2, <1>3, <1>4

\* Taking entries away never makes the earliest one earlier.
LEMMA EarliestSubset ==
  ASSUME timers_ \in SUBSET Entries, NEW E, E \subseteq timers_, E # {}
  PROVE  /\ timers_ # {} /\ E \in SUBSET Entries
         /\ Earliest(timers_) <= Earliest(E)
<1>1. PICK e \in E : e.when = Earliest(E)
  BY EarliestProperties
<1> QED
  BY <1>1, EarliestProperties
-----------------------------------------------------------------------------
(* Counting                                                                 *)

\* Each timer is in one entry
Unique(entries) == \A e, f \in entries : e.timer = f.timer => e = f

\* Entries of different timers are as many as their timers.
LEMMA CountTimers ==
  ASSUME NEW E \in SUBSET Entries, Unique(E)
  PROVE  IsFiniteSet(E) /\ Cardinality(E) = Cardinality(TimersOf(E))
<1> DEFINE f == [e \in E |-> e.timer]
<1>1. f \in [E -> Timers] /\ f \in [E -> TimersOf(E)]
  BY DEF Entries, TimersOf
<1>2. f \in Injection(E, Timers)
  BY <1>1 DEF Injection, Unique, IsInjective
<1>3. IsFiniteSet(E)
  BY <1>2, TimersAssumption, FS_Injection
<1>4. f \in Bijection(E, TimersOf(E))
  BY <1>1 DEF Bijection, Injection, Surjection, Unique, TimersOf, IsInjective
<1> QED
  BY <1>3, <1>4, FS_Bijection DEF ExistsBijection

\* The two sets of entries together.
LEMMA CountOwned ==
  ASSUME NEW E \in SUBSET Entries, NEW F \in SUBSET Entries,
         Unique(E), Unique(F), TimersOf(E) \cap TimersOf(F) = {}
  PROVE  Cardinality(E) + Cardinality(F)
           = Cardinality(TimersOf(E) \cup TimersOf(F))
<1>1. E \cap F = {}
  BY DEF TimersOf
<1>2. /\ IsFiniteSet(E) /\ Cardinality(E) \in Nat
      /\ IsFiniteSet(F) /\ Cardinality(F) \in Nat
  BY CountTimers, FS_CardinalityType
<1>3. Cardinality(E \cup F) = Cardinality(E) + Cardinality(F)
  BY <1>1, <1>2, FS_Union, FS_EmptySet
<1>4. Unique(E \cup F)
  BY DEF Unique, TimersOf
<1>5. TimersOf(E \cup F) = TimersOf(E) \cup TimersOf(F)
  BY DEF TimersOf
<1> QED
  BY <1>3, <1>4, <1>5, CountTimers
-----------------------------------------------------------------------------
(* The inductive invariant                                                  *)

\* Time: the wall clock runs ahead of the monotonic one by its steps only
ClockInv ==
  /\ mono \in 1..MaxTime /\ steps \in 0..MaxSteps
  /\ wall \in 1..(mono + steps)
  /\ steps = 0 => wall = mono

\* The timerfd and the handler
HandlerTypes ==
  /\ armedAt \in Nat /\ readable \in BOOLEAN /\ reported \in BOOLEAN
  /\ callingExpiredTimers_ \in BOOLEAN
  /\ pc \in {"loop", "running", "callback"} /\ now \in {0} \cup Times

SetTypes ==
  /\ timers_ \in SUBSET Entries /\ expired \in SUBSET Entries
  /\ rest \subseteq expired
  /\ activeTimers_ \subseteq Timers /\ cancelingTimers_ \subseteq Timers
  /\ fired \subseteq Timers /\ cancelled \subseteq Timers

LifeTypes == life \in [Timers -> {"none", "queued", "live", "deleted"}]

\* The functors of other threads: the timer of an addTimer() that has not
\* run is not in the queue yet, and is in one such functor only
AddCalls == {"add"} \X Timers \X Nat
CancelCalls == {"cancel"} \X Timers

CallInv ==
  /\ calls \in Seq(AddCalls \cup CancelCalls)
  /\ \A i \in 1..Len(calls) :
       calls[i] \in AddCalls => life[calls[i][2]] = "queued"
  /\ \A i, j \in 1..Len(calls) :
       /\ calls[i] \in AddCalls /\ calls[j] \in AddCalls
       /\ calls[i][2] = calls[j][2]
       => i = j

\* A live timer is in one entry, of timers_ or of the batch, and no other
\* timer is in any
OwnInv ==
  /\ Unique(timers_ \cup expired)
  /\ timers_ \cap expired = {}
  /\ \A e \in timers_ \cup expired : life[e.timer] = "live"
  /\ \A t \in Timers :
       life[t] = "live" => \E e \in timers_ \cup expired : e.timer = t
  /\ \A t \in activeTimers_ : \E e \in timers_ : e.timer = t
  /\ pc = "loop" => expired = {}

\* What was cancelled in the batch it is of is marked for reset(), or gone
StopInv ==
  /\ callingExpiredTimers_ = (pc # "loop")
  /\ stopped \subseteq cancelled
  /\ \A t \in stopped :
       \/ life[t] = "deleted"
       \/ t \in cancelingTimers_ /\ \E e \in expired : e.timer = t

Types == ClockInv /\ HandlerTypes /\ SetTypes /\ LifeTypes

IInv == Types /\ CallInv /\ OwnInv /\ StopInv /\ AlarmInTime
-----------------------------------------------------------------------------
(* Every step keeps it                                                      *)

\* The constructor.
LEMMA InitIInv == Init => IInv
<1> SUFFICES ASSUME Init PROVE IInv
  OBVIOUS
<1>1. ClockInv
  BY TimeAssumption DEF Init, ClockInv
<1>2. HandlerTypes
  BY DEF Init, HandlerTypes
<1>3. SetTypes /\ LifeTypes
  BY DEF Init, SetTypes, LifeTypes
<1>4. CallInv
  <2>1. calls = <<>> /\ <<>> \in Seq(AddCalls \cup CancelCalls)
        /\ Len(<<>>) = 0
    BY EmptySeq DEF Init
  <2> QED
    BY <2>1 DEF CallInv
<1>5. OwnInv
  BY DEF Init, OwnInv, Unique
<1>6. AlarmInTime /\ StopInv
  BY DEF Init, AlarmInTime, StopInv
<1> QED
  BY <1>1, <1>2, <1>3, <1>4, <1>5, <1>6 DEF IInv, Types

\* timerfd_settime() is never given a time that is not in the future.
LEMMA ResetTimerfd ==
  ASSUME ClockInv, NEW when \in Nat, resetTimerfd(when)
  PROVE  /\ armedAt' \in Nat /\ armedAt' > mono /\ readable' = FALSE
         /\ armedAt' - mono = howMuchTimeFromNow(when)
<1>1. mono \in Nat /\ wall \in Nat
  BY TimeAssumption DEF ClockInv
<1> QED
  BY <1>1 DEF resetTimerfd, howMuchTimeFromNow

\* The two clocks.
LEMMA ClockStep ==
  ASSUME ClockInv, [Next]_vars
  PROVE  ClockInv' /\ (Tick \/ StepClock \/ UNCHANGED clocks)
<1>1. CASE Tick
  <2>1. /\ mono' = mono + 1 /\ wall' = wall + 1 /\ steps' = steps
        /\ mono < MaxTime
    BY <1>1 DEF Tick
  <2> QED
    BY <1>1, <2>1, TimeAssumption DEF ClockInv
<1>2. CASE StepClock
  <2>1. /\ mono' = mono /\ steps' = steps + 1 /\ steps < MaxSteps
        /\ wall' \in {wall - 1, wall + 1} /\ wall' \in Times
    BY <1>2 DEF StepClock
  <2> QED
    BY <1>2, <2>1, TimeAssumption DEF ClockInv, Times
<1>3. CASE UNCHANGED clocks
  BY <1>3 DEF clocks, ClockInv
<1>4. CASE LoopStep
  <2>1. UNCHANGED clocks
    BY <1>4 DEF LoopStep, PollReports, HandleRead, RunTimer, CallbackReturns,
                Reset
  <2> QED
    BY <1>3, <2>1
<1>5. CASE RunCall \/ Call
  <2>1. UNCHANGED clocks
    BY <1>5 DEF RunCall, Call, AddHere, AddElsewhere, CancelHere,
                CancelElsewhere
  <2> QED
    BY <1>3, <2>1
<1>6. CASE UNCHANGED vars
  BY <1>3, <1>6 DEF vars
<1> QED
  BY <1>1, <1>2, <1>4, <1>5, <1>6 DEF Next

\* All but the calls and the clocks, which the next lemmas carry along.
Queue == HandlerTypes /\ SetTypes /\ LifeTypes /\ OwnInv /\ AlarmInTime

\* addTimerInLoop() of a timer that is not in the queue.
LEMMA AddKeeps ==
  ASSUME ClockInv, Queue, NEW t \in Timers, NEW when \in Nat,
         life[t] \in {"none", "queued"}, addTimerInLoop(t, when),
         UNCHANGED <<clocks, reported, handler, fired, history>>
  PROVE  Queue'
<1> DEFINE n == [when |-> when, timer |-> t]
<1>1. /\ timers_' = timers_ \cup {n}
      /\ UNCHANGED <<activeTimers_, cancelingTimers_, callingExpiredTimers_>>
      /\ UNCHANGED <<wall, mono, steps>>
      /\ UNCHANGED <<pc, now, expired, rest>>
      /\ UNCHANGED <<reported, fired, cancelled>>
      /\ life' = [life EXCEPT ![t] = "live"]
  BY DEF history, addTimerInLoop, insert, clocks, handler
<1>2. n \in Entries /\ n.timer = t /\ n.when = when
  BY DEF Entries
<1>3. timers_ \in SUBSET Entries /\ expired \in SUBSET Entries
  BY DEF Queue, SetTypes
<1>4. life \in [Timers -> {"none", "queued", "live", "deleted"}]
  BY DEF Queue, LifeTypes
<1>5. /\ life'[t] = "live"
      /\ \A u \in Timers : u # t => life'[u] = life[u]
  BY <1>1, <1>4
<1>6. \A e \in Entries : e.timer \in Timers
  BY DEF Entries
<1>7. \A e \in timers_ \cup expired : e.timer # t
  BY DEF Queue, OwnInv
<1>8. /\ earliestChanged(when) => resetTimerfd(when)
      /\ ~earliestChanged(when) => UNCHANGED <<armedAt, readable>>
  BY DEF addTimerInLoop, timerfd
<1>9. /\ earliestChanged(when) => Earliest(timers_') = when
      /\ ~earliestChanged(when) =>
           timers_ # {} /\ Earliest(timers_') = Earliest(timers_)
  BY <1>1, <1>3, EarliestInsert
<1> HIDE DEF n
<1>10. HandlerTypes'
  <2>1. armedAt' \in Nat /\ readable' \in BOOLEAN
    BY <1>8, ResetTimerfd DEF Queue, HandlerTypes
  <2> QED
    BY <1>1, <2>1 DEF Queue, HandlerTypes, Times
<1>11. SetTypes'
  BY <1>1, <1>2 DEF Queue, SetTypes
<1>12. LifeTypes'
  BY <1>1, <1>4 DEF LifeTypes
<1>13. OwnInv'
  <2> USE <1>1, <1>2, <1>3, <1>5, <1>6, <1>7
  <2>1. Unique(timers_ \cup expired)'
    BY DEF Queue, OwnInv, Unique
  <2>2. (timers_ \cap expired)' = {}
    BY DEF Queue, OwnInv
  <2>3. \A e \in (timers_ \cup expired)' : life'[e.timer] = "live"
    BY DEF Queue, OwnInv
  <2>4. \A u \in Timers : life'[u] = "live" =>
          \E e \in (timers_ \cup expired)' : e.timer = u
    BY DEF Queue, OwnInv
  <2>5. \A u \in activeTimers_' : \E e \in timers_' : e.timer = u
    BY DEF Queue, OwnInv
  <2>6. pc' = "loop" => expired' = {}
    BY DEF Queue, OwnInv
  <2> QED
    BY <2>1, <2>2, <2>3, <2>4, <2>5, <2>6 DEF OwnInv
<1>14. AlarmInTime'
  <2>1. CASE earliestChanged(when)
    <3>1. armedAt' > mono /\ armedAt' - mono = howMuchTimeFromNow(when)
      BY <1>8, <2>1, ResetTimerfd
    <3>2. armedAt' - mono <= howMuchTimeFromNow(when)
      BY <3>1, TimeAssumption DEF ClockInv, howMuchTimeFromNow
    <3>3. (howMuchTimeFromNow(Earliest(timers_)))' = howMuchTimeFromNow(when)
      BY <1>1, <1>9, <2>1 DEF howMuchTimeFromNow
    <3> QED
      BY <1>1, <3>1, <3>2, <3>3 DEF AlarmInTime
  <2>2. CASE ~earliestChanged(when)
    <3>1. (howMuchTimeFromNow(Earliest(timers_)))'
             = howMuchTimeFromNow(Earliest(timers_))
      BY <1>1, <1>9, <2>2 DEF howMuchTimeFromNow
    <3> QED
      BY <1>1, <1>8, <1>9, <2>2, <3>1 DEF Queue, AlarmInTime
  <2> QED
    BY <2>1, <2>2
<1> QED
  BY <1>10, <1>11, <1>12, <1>13, <1>14 DEF Queue

\* cancelInLoop(): the timer is taken out and deleted, or only marked.
LEMMA CancelKeeps ==
  ASSUME ClockInv, Queue, NEW t \in Timers, cancelInLoop(t), noted(t),
         UNCHANGED <<clocks, reported, handler, fired>>
  PROVE  Queue' /\ \A u \in Timers : life[u] = "queued" => life'[u] = "queued"
<1>1. /\ UNCHANGED <<wall, mono, steps>> /\ UNCHANGED <<armedAt, readable>>
      /\ UNCHANGED <<pc, now, expired, rest>>
      /\ UNCHANGED <<reported, fired, callingExpiredTimers_>>
      /\ cancelled' = cancelled \cup {t}
  BY DEF noted, cancelInLoop, clocks, handler, timerfd
<1>2. HandlerTypes'
  BY <1>1 DEF Queue, HandlerTypes, Times
<1>3. CASE t \notin activeTimers_
  <2>1. /\ UNCHANGED <<timers_, activeTimers_, life>>
        /\ cancelingTimers_' \subseteq cancelingTimers_ \cup {t}
    BY <1>3 DEF marking, cancelInLoop
  <2>2. SetTypes' /\ LifeTypes'
    BY <1>1, <2>1 DEF Queue, SetTypes, LifeTypes
  <2>3. OwnInv'
    BY <1>1, <2>1 DEF Queue, OwnInv, Unique
  <2>4. AlarmInTime'
    BY <1>1, <2>1 DEF Queue, AlarmInTime, howMuchTimeFromNow
  <2> QED
    BY <1>2, <2>1, <2>2, <2>3, <2>4 DEF Queue
<1>4. CASE t \in activeTimers_
  <2>1. /\ timers_' = {e \in timers_ : e.timer # t}
        /\ activeTimers_' = activeTimers_ \ {t}
        /\ life' = [life EXCEPT ![t] = "deleted"]
        /\ cancelingTimers_' = cancelingTimers_
    BY <1>4 DEF cancelInLoop
  <2>2. life \in [Timers -> {"none", "queued", "live", "deleted"}]
    BY DEF Queue, LifeTypes
  <2>3. /\ life'[t] = "deleted"
        /\ \A u \in Timers : u # t => life'[u] = life[u]
    BY <2>1, <2>2
  <2>4. timers_ \in SUBSET Entries /\ expired \in SUBSET Entries
    BY DEF Queue, SetTypes
  <2>5. \A e \in Entries : e.timer \in Timers
    BY DEF Entries
  <2>6. PICK c \in timers_ : c.timer = t
    BY <1>4 DEF Queue, OwnInv
  <2>7. life[t] = "live"
    BY <2>6 DEF Queue, OwnInv
  <2>8. \A e \in expired : e.timer # t
    BY <2>6 DEF Queue, OwnInv, Unique
  <2>9. SetTypes' /\ LifeTypes'
    BY <1>1, <2>1, <2>2 DEF Queue, SetTypes, LifeTypes
  <2>10. OwnInv'
    <3> USE <1>1, <2>1, <2>3, <2>4, <2>5, <2>8
    <3>1. Unique(timers_ \cup expired)'
      BY DEF Queue, OwnInv, Unique
    <3>2. (timers_ \cap expired)' = {}
      BY DEF Queue, OwnInv
    <3>3. \A e \in (timers_ \cup expired)' : life'[e.timer] = "live"
      BY DEF Queue, OwnInv
    <3>4. \A u \in Timers : life'[u] = "live" =>
            \E e \in (timers_ \cup expired)' : e.timer = u
      BY DEF Queue, OwnInv
    <3>5. \A u \in activeTimers_' : \E e \in timers_' : e.timer = u
      BY DEF Queue, OwnInv
    <3>6. pc' = "loop" => expired' = {}
      BY DEF Queue, OwnInv
    <3> QED
      BY <3>1, <3>2, <3>3, <3>4, <3>5, <3>6 DEF OwnInv
  <2>11. AlarmInTime'
    <3> SUFFICES ASSUME pc = "loop", timers_' # {}
                 PROVE  AlarmInTime'
      BY <1>1 DEF AlarmInTime
    <3>1. /\ timers_ # {} /\ timers_' \in SUBSET Entries
          /\ Earliest(timers_) <= Earliest(timers_')
      BY <2>1, <2>4, EarliestSubset
    <3>2. Earliest(timers_) \in Nat /\ Earliest(timers_') \in Nat
      BY <2>4, <3>1, EarliestProperties
    <3>3. wall \in Nat /\ mono \in Nat /\ armedAt \in Nat
      BY TimeAssumption DEF ClockInv, Queue, HandlerTypes
    <3>4. howMuchTimeFromNow(Earliest(timers_))
            <= howMuchTimeFromNow(Earliest(timers_'))
      BY <3>1, <3>2, <3>3 DEF howMuchTimeFromNow
    <3>5. /\ howMuchTimeFromNow(Earliest(timers_)) \in Int
          /\ howMuchTimeFromNow(Earliest(timers_')) \in Int
      BY <3>2, <3>3 DEF howMuchTimeFromNow
    <3>6. (howMuchTimeFromNow(Earliest(timers_)))'
            = howMuchTimeFromNow(Earliest(timers_'))
      BY <1>1 DEF howMuchTimeFromNow
    <3>7. /\ armedAt > mono \/ readable \/ reported
          /\ steps = 0 /\ armedAt # 0
               => armedAt - mono <= howMuchTimeFromNow(Earliest(timers_))
      BY <3>1 DEF Queue, AlarmInTime
    <3>8. steps = 0 /\ armedAt # 0
            => armedAt - mono <= howMuchTimeFromNow(Earliest(timers_'))
      BY <3>3, <3>4, <3>5, <3>7
    <3> QED
      BY <1>1, <3>6, <3>7, <3>8 DEF AlarmInTime
  <2> QED
    BY <1>2, <2>3, <2>7, <2>9, <2>10, <2>11 DEF Queue
<1> QED
  BY <1>3, <1>4

\* Time passes; the alarm goes off at its moment and not before.
LEMMA TimeKeeps ==
  ASSUME ClockInv, Queue, Tick \/ StepClock
  PROVE  Queue'
<1>1. UNCHANGED sets /\ UNCHANGED handler /\ UNCHANGED <<life, fired, cancelled>>
      /\ reported' = reported
  BY DEF history, Tick, StepClock
<1>2. /\ UNCHANGED <<timers_, activeTimers_, cancelingTimers_>>
      /\ callingExpiredTimers_' = callingExpiredTimers_
      /\ UNCHANGED <<pc, now, expired, rest>>
  BY <1>1 DEF sets, handler
<1>3. SetTypes' /\ LifeTypes' /\ OwnInv'
  BY <1>1, <1>2 DEF Queue, SetTypes, LifeTypes, OwnInv, Unique
<1>4. mono \in Nat /\ wall \in Nat /\ armedAt \in Nat
  BY TimeAssumption DEF ClockInv, Queue, HandlerTypes
<1>5. CASE StepClock
  <2>1. UNCHANGED <<mono, armedAt, readable>> /\ steps' = steps + 1
        /\ steps \in Nat
    BY <1>5 DEF StepClock, timerfd, ClockInv
  <2>2. HandlerTypes'
    BY <1>1, <1>2, <2>1 DEF Queue, HandlerTypes, Times
  <2>3. AlarmInTime'
    BY <1>1, <1>2, <2>1 DEF Queue, AlarmInTime
  <2> QED
    BY <1>3, <2>2, <2>3 DEF Queue
<1>6. CASE Tick
  <2>1. /\ mono' = mono + 1 /\ wall' = wall + 1 /\ steps' = steps
        /\ \/ armedAt = mono + 1 /\ armedAt' = 0 /\ readable' = TRUE
           \/ armedAt # mono + 1 /\ UNCHANGED <<armedAt, readable>>
    BY <1>6 DEF Tick, timerfd
  <2>2. HandlerTypes'
    <3>1. armedAt' \in Nat
      BY <1>4, <2>1
    <3>2. readable' \in BOOLEAN
      BY <2>1, Zenon DEF Queue, HandlerTypes
    <3> QED
      BY <1>1, <1>2, <3>1, <3>2 DEF Queue, HandlerTypes, Times
  <2>3. ASSUME pc = "loop", timers_ # {}, armedAt # mono + 1,
               UNCHANGED <<armedAt, readable>>
        PROVE  AlarmInTime'
    <3>1. Earliest(timers_) \in Nat
      BY <2>3, EarliestProperties DEF Queue, SetTypes
    <3>2. (Earliest(timers_))' = Earliest(timers_)
      BY <1>2
    <3> HIDE DEF Earliest
    <3>3. armedAt > mono => armedAt' > mono'
      BY <1>4, <2>1, <2>3
    <3>4. armedAt - mono <= howMuchTimeFromNow(Earliest(timers_)) =>
            armedAt' - mono' <= (howMuchTimeFromNow(Earliest(timers_)))'
      BY <1>4, <2>1, <2>3, <3>1, <3>2 DEF howMuchTimeFromNow
    <3> QED
      BY <1>1, <1>2, <2>1, <2>3, <3>3, <3>4 DEF Queue, AlarmInTime
  <2>4. ASSUME armedAt' = 0, readable' = TRUE PROVE AlarmInTime'
    BY <2>4 DEF AlarmInTime
  <2>5. ASSUME ~(pc = "loop" /\ timers_ # {}) PROVE AlarmInTime'
    BY <1>2, <2>5 DEF AlarmInTime
  <2> QED
    BY <1>3, <2>1, <2>2, <2>3, <2>4, <2>5 DEF Queue
<1> QED
  BY <1>5, <1>6

\* poll(), and the callbacks of the batch.
LEMMA CallbackKeeps ==
  ASSUME Queue,
         PollReports \/ CallbackReturns \/ \E e \in rest : RunTimer(e)
  PROVE  Queue' /\ life' = life
<1>1. /\ UNCHANGED <<wall, mono, steps>> /\ UNCHANGED <<armedAt, readable>>
      /\ UNCHANGED <<timers_, activeTimers_, cancelingTimers_>>
      /\ callingExpiredTimers_' = callingExpiredTimers_
      /\ UNCHANGED <<now, expired, life, cancelled>>
  BY DEF history, PollReports, CallbackReturns, RunTimer, clocks, timerfd, sets, handler
<1>2. CASE PollReports
  <2>1. UNCHANGED <<pc, rest, fired>> /\ reported' = TRUE
    BY <1>2 DEF PollReports, handler
  <2>2. HandlerTypes'
    BY <1>1, <2>1 DEF Queue, HandlerTypes, Times
  <2>3. SetTypes' /\ LifeTypes' /\ OwnInv'
    BY <1>1, <2>1 DEF Queue, SetTypes, LifeTypes, OwnInv, Unique
  <2>4. AlarmInTime'
    BY <1>1, <2>1 DEF Queue, AlarmInTime, howMuchTimeFromNow
  <2> QED
    BY <1>1, <2>2, <2>3, <2>4 DEF Queue
<1>3. CASE CallbackReturns \/ \E e \in rest : RunTimer(e)
  <2>1. /\ pc' \in {"running", "callback"} /\ reported' = reported
        /\ rest' \subseteq rest
    BY <1>3 DEF CallbackReturns, RunTimer
  <2>2. fired' \subseteq fired \cup Timers
    BY <1>3 DEF CallbackReturns, RunTimer, Queue, SetTypes, Entries
  <2>3. HandlerTypes'
    BY <1>1, <2>1 DEF Queue, HandlerTypes, Times
  <2>4. SetTypes' /\ LifeTypes'
    BY <1>1, <2>1, <2>2 DEF Queue, SetTypes, LifeTypes
  <2>5. OwnInv' /\ AlarmInTime'
    BY <1>1, <2>1 DEF Queue, OwnInv, Unique, AlarmInTime
  <2> QED
    BY <1>1, <2>3, <2>4, <2>5 DEF Queue
<1> QED
  BY <1>2, <1>3

\* handleRead() moves the due entries from timers_ to the batch.
LEMMA HandleReadKeeps ==
  ASSUME ClockInv, Queue, HandleRead
  PROVE  Queue' /\ life' = life
<1> DEFINE b == due(timers_, wall)
<1>1. /\ expired' = b /\ rest' = b /\ timers_' = timers_ \ b
      /\ activeTimers_' = activeTimers_ \ {e.timer : e \in b}
      /\ cancelingTimers_' = {} /\ pc = "loop" /\ pc' = "running"
      /\ UNCHANGED <<armedAt, life, fired, cancelled>>
      /\ reported' = FALSE /\ readable' = FALSE /\ now' = wall
      /\ callingExpiredTimers_' = TRUE
  BY DEF history, HandleRead
<1>2. b \subseteq timers_ /\ timers_ \in SUBSET Entries
  BY DEF due, Queue, SetTypes
<1> HIDE DEF b
<1>3. expired = {} /\ (timers_ \cup expired)' = timers_ \cup expired
  BY <1>1, <1>2 DEF Queue, OwnInv
<1>4. HandlerTypes'
  <2>1. wall \in Times
    BY TimeAssumption DEF ClockInv, Times
  <2> QED
    BY <1>1, <2>1 DEF Queue, HandlerTypes, Times
<1>5. SetTypes' /\ LifeTypes'
  BY <1>1, <1>2 DEF Queue, SetTypes, LifeTypes
<1>6. OwnInv'
  <2>1. Unique(timers_ \cup expired)'
    BY <1>3 DEF Queue, OwnInv, Unique
  <2>2. (timers_ \cap expired)' = {}
    BY <1>1
  <2>3. \A u \in activeTimers_' : \E e \in timers_' : e.timer = u
    BY <1>1 DEF Queue, OwnInv
  <2> QED
    BY <1>1, <1>3, <2>1, <2>2, <2>3 DEF Queue, OwnInv
<1>7. AlarmInTime'
  BY <1>1 DEF AlarmInTime
<1> QED
  BY <1>1, <1>4, <1>5, <1>6, <1>7 DEF Queue

\* reset(): each timer of the batch starts again or is deleted, and the
\* timerfd is set for the earliest timer left.
LEMMA ResetKeeps ==
  ASSUME ClockInv, Queue, Reset
  PROVE  Queue' /\ \A u \in Timers : life[u] = "queued" => life'[u] = "queued"
<1> DEFINE batch == {e.timer : e \in expired}
           again == {t \in batch : restarts(t)}
           new == {restart(t) : t \in again}
           left == timers_ \cup new
<1>1. /\ pc' = "loop" /\ callingExpiredTimers_' = FALSE
      /\ timers_' = left /\ rearm(left) /\ expired' = {} /\ now' = 0
      /\ rest = {}
      /\ life' = [t \in Timers |->
                    IF t \in batch \ again THEN "deleted" ELSE life[t]]
      /\ UNCHANGED <<wall, mono, steps>>
      /\ UNCHANGED <<activeTimers_, cancelingTimers_, rest, fired, cancelled>>
      /\ reported' = reported
  BY DEF history, Reset, clocks
<1>2. timers_ \in SUBSET Entries /\ expired \in SUBSET Entries
  BY DEF Queue, SetTypes
<1>3. batch \subseteq Timers /\ again \subseteq batch
  BY <1>2 DEF Entries
<1>4. now + Interval \in Nat
  BY TimeAssumption DEF Queue, HandlerTypes, Times
<1>5. \A t \in Timers : restart(t) \in Entries /\ restart(t).timer = t
  BY <1>4 DEF restart, Entries
<1>6. /\ new \subseteq Entries /\ \A e \in new : e.timer \in again
      /\ \A t \in again : \E e \in new : e.timer = t
      /\ \A e, f \in new : e.timer = f.timer => e = f
  BY <1>3, <1>5
<1>7. \A t \in batch : \E e \in expired : e.timer = t
  OBVIOUS
<1>8. \A e \in expired : e.timer \in batch
  OBVIOUS
<1> HIDE DEF batch, again, new
<1>9. left \in SUBSET Entries
  BY <1>2, <1>6
<1> HIDE DEF left
<1>10. \A t \in Timers :
         life'[t] = IF t \in batch \ again THEN "deleted" ELSE life[t]
  BY <1>1
<1>11. \A t \in batch : life[t] = "live"
  BY <1>7 DEF Queue, OwnInv
<1>12. \A e \in timers_ : e.timer \in Timers /\ e.timer \notin batch
  <2>1. \A e \in timers_ : e \notin expired
    BY DEF Queue, OwnInv
  <2>2. \A e \in timers_, f \in expired : e.timer = f.timer => e = f
    BY DEF Queue, OwnInv, Unique
  <2> QED
    BY <1>2, <1>7, <2>1, <2>2 DEF Entries
<1>13. left # {} => /\ resetTimerfd(Earliest(left))
                    /\ Earliest(left) \in Nat
  BY <1>1, <1>9, EarliestProperties DEF rearm
<1>14. left = {} => UNCHANGED <<armedAt, readable>>
  BY <1>1 DEF rearm, timerfd
<1>15. HandlerTypes'
  <2>1. armedAt' \in Nat /\ readable' \in BOOLEAN
    BY <1>13, <1>14, ResetTimerfd DEF Queue, HandlerTypes
  <2> QED
    BY <1>1, <2>1 DEF Queue, HandlerTypes
<1>16. SetTypes'
  BY <1>1, <1>9 DEF Queue, SetTypes
<1>17. LifeTypes'
  BY <1>1 DEF Queue, LifeTypes
<1>18. OwnInv'
  <2>1. Unique(timers_ \cup expired)'
    BY <1>1, <1>3, <1>6, <1>12 DEF Queue, OwnInv, Unique, left
  <2>2. \A e \in (timers_ \cup expired)' : life'[e.timer] = "live"
    <3>1. \A e \in timers_ : life[e.timer] = "live"
      BY DEF Queue, OwnInv
    <3> QED
      BY <1>1, <1>3, <1>6, <1>10, <1>11, <1>12, <3>1 DEF left
  <2>3. \A u \in Timers : life'[u] = "live" =>
          \E e \in (timers_ \cup expired)' : e.timer = u
    <3> SUFFICES ASSUME NEW u \in Timers, life'[u] = "live"
                 PROVE  \E e \in left : e.timer = u
      BY <1>1
    <3>1. u \notin batch \ again /\ life[u] = "live"
      BY <1>10
    <3>2. \E e \in timers_ \cup expired : e.timer = u
      BY <3>1 DEF Queue, OwnInv
    <3>3. CASE u \in again
      BY <1>6, <3>3 DEF left
    <3>4. CASE u \notin again
      BY <1>8, <3>1, <3>2, <3>4 DEF left
    <3> QED
      BY <3>3, <3>4
  <2>4. \A u \in activeTimers_' : \E e \in timers_' : e.timer = u
    BY <1>1 DEF Queue, OwnInv, left
  <2> QED
    BY <1>1, <2>1, <2>2, <2>3, <2>4 DEF OwnInv
<1>19. AlarmInTime'
  <2> SUFFICES ASSUME left # {} PROVE AlarmInTime'
    BY <1>1 DEF AlarmInTime
  <2>1. /\ armedAt' > mono
        /\ armedAt' - mono = howMuchTimeFromNow(Earliest(left))
    BY <1>13, ResetTimerfd
  <2>2. armedAt' - mono <= howMuchTimeFromNow(Earliest(left))
    BY <1>13, <2>1, TimeAssumption DEF ClockInv, howMuchTimeFromNow
  <2>3. (howMuchTimeFromNow(Earliest(timers_)))'
          = howMuchTimeFromNow(Earliest(left))
    BY <1>1 DEF howMuchTimeFromNow
  <2> QED
    BY <1>1, <2>1, <2>2, <2>3 DEF AlarmInTime
<1>20. \A u \in Timers : life[u] = "queued" => life'[u] = "queued"
  BY <1>10, <1>11
<1> QED
  BY <1>15, <1>16, <1>17, <1>18, <1>19, <1>20 DEF Queue
-----------------------------------------------------------------------------
(* The functors of other threads                                            *)

\* The kind of a functor is its first field.
LEMMA CallKinds ==
  ASSUME NEW c \in AddCalls \cup CancelCalls
  PROVE  /\ c[2] \in Timers
         /\ c[1] = "add" <=> c \in AddCalls
         /\ c[1] = "cancel" <=> c \in CancelCalls
         /\ c \in AddCalls => c[3] \in Nat
BY DEF AddCalls, CancelCalls

\* No functor is touched, and no timer of one is added or deleted.
LEMMA CallsKept ==
  ASSUME CallInv, calls' = calls,
         \A u \in Timers : life[u] = "queued" => life'[u] = "queued"
  PROVE  CallInv'
<1>1. \A i \in 1..Len(calls) : calls[i] \in AddCalls \cup CancelCalls
  BY DEF CallInv
<1>2. \A i \in 1..Len(calls) : calls[i][2] \in Timers
  BY <1>1, CallKinds
<1> QED
  BY <1>2 DEF CallInv

\* A functor is queued; an addTimer() is the first one for its timer.
LEMMA CallsPushed ==
  ASSUME CallInv, NEW c \in AddCalls \cup CancelCalls,
         calls' = Append(calls, c),
         \A u \in Timers : life[u] = "queued" => life'[u] = "queued",
         c \in AddCalls => life[c[2]] # "queued" /\ life'[c[2]] = "queued"
  PROVE  CallInv'
<1>1. calls \in Seq(AddCalls \cup CancelCalls)
  BY DEF CallInv
<1>2. /\ calls' \in Seq(AddCalls \cup CancelCalls)
      /\ Len(calls') = Len(calls) + 1 /\ Len(calls) \in Nat
      /\ \A i \in 1..Len(calls) : calls'[i] = calls[i]
      /\ calls'[Len(calls) + 1] = c
  BY <1>1, AppendProperties
<1>3. \A i \in 1..Len(calls') : i \in 1..Len(calls) \/ i = Len(calls) + 1
  BY <1>2
<1>4. \A i \in 1..Len(calls) : calls[i][2] \in Timers
  BY <1>1, CallKinds
<1>5. \A i \in 1..Len(calls) : calls[i] \in AddCalls =>
        life[calls[i][2]] = "queued"
  BY DEF CallInv
<1>6. \A i, j \in 1..Len(calls) :
        /\ calls[i] \in AddCalls /\ calls[j] \in AddCalls
        /\ calls[i][2] = calls[j][2]
        => i = j
  BY DEF CallInv
<1>7. \A i \in 1..Len(calls') : calls'[i] \in AddCalls =>
        life'[calls'[i][2]] = "queued"
  BY <1>2, <1>3, <1>4, <1>5
<1>8. \A i, j \in 1..Len(calls') :
        /\ calls'[i] \in AddCalls /\ calls'[j] \in AddCalls
        /\ calls'[i][2] = calls'[j][2]
        => i = j
  BY <1>2, <1>3, <1>5, <1>6
<1> QED
  BY <1>2, <1>7, <1>8 DEF CallInv

\* The loop runs the first functor.
LEMMA CallsPopped ==
  ASSUME CallInv, calls # <<>>, calls' = Tail(calls),
         \A u \in Timers :
           /\ life[u] = "queued"
           /\ Head(calls) \in AddCalls => u # Head(calls)[2]
           => life'[u] = "queued"
  PROVE  CallInv'
<1>1. calls \in Seq(AddCalls \cup CancelCalls)
  BY DEF CallInv
<1>2. /\ calls' \in Seq(AddCalls \cup CancelCalls)
      /\ Len(calls') = Len(calls) - 1 /\ Len(calls) \in Nat \ {0}
      /\ Head(calls) = calls[1]
      /\ \A i \in 1..Len(calls') : calls'[i] = calls[i + 1]
  BY <1>1, HeadTailProperties, EmptySeq
<1>3. /\ 1 \in 1..Len(calls)
      /\ \A i \in 1..Len(calls') : i + 1 \in 1..Len(calls) /\ i + 1 # 1
  BY <1>2
<1>4. \A i \in 1..Len(calls) : calls[i][2] \in Timers
  BY <1>1, CallKinds
<1>5. \A i \in 1..Len(calls') : calls'[i] \in AddCalls =>
        life'[calls'[i][2]] = "queued"
  <2> SUFFICES ASSUME NEW i \in 1..Len(calls'), calls[i + 1] \in AddCalls
               PROVE  life'[calls[i + 1][2]] = "queued"
    BY <1>2
  <2>1. /\ life[calls[i + 1][2]] = "queued"
        /\ calls[i + 1][2] \in Timers
    BY <1>3, <1>4 DEF CallInv
  <2>2. calls[1] \in AddCalls => calls[i + 1][2] # calls[1][2]
    BY <1>3 DEF CallInv
  <2> QED
    BY <1>2, <2>1, <2>2
<1>6. \A i, j \in 1..Len(calls') :
        /\ calls'[i] \in AddCalls /\ calls'[j] \in AddCalls
        /\ calls'[i][2] = calls'[j][2]
        => i = j
  <2> SUFFICES ASSUME NEW i \in 1..Len(calls'), NEW j \in 1..Len(calls'),
                      calls[i + 1] \in AddCalls, calls[j + 1] \in AddCalls,
                      calls[i + 1][2] = calls[j + 1][2]
               PROVE  i = j
    BY <1>2
  <2>1. i + 1 = j + 1
    BY <1>3 DEF CallInv
  <2> QED
    BY <2>1
<1> QED
  BY <1>2, <1>5, <1>6 DEF CallInv

\* addTimer() and cancel(), in the loop's thread and in another.
LEMMA CallKeeps ==
  ASSUME ClockInv, Queue, CallInv, Call
  PROVE  Queue' /\ CallInv'
<1>1. PICK t \in Timers :
        \/ \E when \in 1..Horizon : AddHere(t, when) \/ AddElsewhere(t, when)
        \/ CancelHere(t) \/ CancelElsewhere(t)
  BY DEF Call
<1>2. life \in [Timers -> {"none", "queued", "live", "deleted"}]
  BY DEF Queue, LifeTypes
<1>3. ASSUME NEW when \in 1..Horizon, AddHere(t, when)
      PROVE  Queue' /\ CallInv'
  <2>1. /\ life[t] = "none" /\ addTimerInLoop(t, when)
        /\ UNCHANGED <<clocks, reported, handler, fired, history>>
        /\ calls' = calls
    BY <1>3 DEF AddHere
  <2>2. \A u \in Timers : life[u] = "queued" => life'[u] = "queued"
    BY <1>2, <2>1 DEF addTimerInLoop
  <2>3. when \in Nat
    BY TimeAssumption
  <2> QED
    BY <2>1, <2>2, <2>3, AddKeeps, CallsKept
<1>4. ASSUME NEW when \in 1..Horizon, AddElsewhere(t, when)
      PROVE  Queue' /\ CallInv'
  <2>1. /\ life[t] = "none" /\ life' = [life EXCEPT ![t] = "queued"]
        /\ calls' = Append(calls, <<"add", t, when>>)
        /\ UNCHANGED <<wall, mono, steps>> /\ UNCHANGED <<armedAt, readable>>
        /\ UNCHANGED <<timers_, activeTimers_, cancelingTimers_>>
        /\ callingExpiredTimers_' = callingExpiredTimers_
        /\ UNCHANGED <<pc, now, expired, rest>>
        /\ UNCHANGED <<reported, fired, cancelled>>
    BY <1>4 DEF history, AddElsewhere, clocks, timerfd, sets, handler
  <2>2. /\ life'[t] = "queued"
        /\ \A u \in Timers : u # t => life'[u] = life[u]
    BY <1>2, <2>1
  <2>3. HandlerTypes' /\ SetTypes' /\ AlarmInTime'
    BY <2>1 DEF Queue, HandlerTypes, Times, SetTypes, AlarmInTime,
                howMuchTimeFromNow
  <2>4. LifeTypes'
    BY <1>2, <2>1 DEF LifeTypes
  <2>5. OwnInv'
    <3>1. \A e \in timers_ \cup expired : e.timer \in Timers /\ e.timer # t
      BY <2>1 DEF Queue, OwnInv, SetTypes, Entries
    <3> QED
      BY <2>1, <2>2, <3>1 DEF Queue, OwnInv, Unique
  <2>6. CallInv'
    <3> DEFINE c == <<"add", t, when>>
    <3>1. c \in AddCalls /\ c[2] = t
      BY TimeAssumption DEF AddCalls
    <3> HIDE DEF c
    <3>2. calls' = Append(calls, c)
      BY <2>1 DEF c
    <3>3. c \in AddCalls \cup CancelCalls
      BY <3>1
    <3>4. \A u \in Timers : life[u] = "queued" => life'[u] = "queued"
      BY <2>2
    <3>5. life[c[2]] # "queued" /\ life'[c[2]] = "queued"
      BY <2>1, <2>2, <3>1
    <3> QED
      BY <3>2, <3>3, <3>4, <3>5, CallsPushed
  <2> QED
    BY <2>3, <2>4, <2>5, <2>6 DEF Queue
<1>5. ASSUME CancelHere(t)
      PROVE  Queue' /\ CallInv'
  <2>1. /\ cancelInLoop(t) /\ noted(t) /\ calls' = calls
        /\ UNCHANGED <<clocks, reported, handler, fired>>
    BY <1>5 DEF CancelHere
  <2> QED
    BY <2>1, CancelKeeps, CallsKept
<1>6. ASSUME CancelElsewhere(t)
      PROVE  Queue' /\ CallInv'
  <2>1. /\ calls' = Append(calls, <<"cancel", t>>)
        /\ UNCHANGED <<wall, mono, steps>> /\ UNCHANGED <<armedAt, readable>>
        /\ UNCHANGED <<timers_, activeTimers_, cancelingTimers_>>
        /\ callingExpiredTimers_' = callingExpiredTimers_
        /\ UNCHANGED <<pc, now, expired, rest>>
        /\ UNCHANGED <<reported, life, fired, cancelled>>
    BY <1>6 DEF history, CancelElsewhere, clocks, timerfd, sets, handler
  <2>2. HandlerTypes' /\ SetTypes' /\ AlarmInTime'
    BY <2>1 DEF Queue, HandlerTypes, Times, SetTypes, AlarmInTime,
                howMuchTimeFromNow
  <2>3. LifeTypes' /\ OwnInv'
    BY <2>1 DEF Queue, LifeTypes, OwnInv, Unique
  <2>4. CallInv'
    <3> DEFINE c == <<"cancel", t>>
    <3>1. c \in CancelCalls /\ c \notin AddCalls
      BY DEF AddCalls, CancelCalls
    <3> HIDE DEF c
    <3>2. calls' = Append(calls, c)
      BY <2>1 DEF c
    <3>3. c \in AddCalls \cup CancelCalls
      BY <3>1
    <3>4. \A u \in Timers : life[u] = "queued" => life'[u] = "queued"
      BY <2>1
    <3> QED
      BY <3>1, <3>2, <3>3, <3>4, CallsPushed
  <2> QED
    BY <2>2, <2>3, <2>4 DEF Queue
<1> QED
  BY <1>1, <1>3, <1>4, <1>5, <1>6

\* The loop runs what another thread asked for.
LEMMA RunCallKeeps ==
  ASSUME ClockInv, Queue, CallInv, RunCall
  PROVE  Queue' /\ CallInv'
<1> DEFINE c == Head(calls)
<1>1. /\ calls # <<>> /\ calls' = Tail(calls)
      /\ \/ /\ c[1] = "add" /\ addTimerInLoop(c[2], c[3])
            /\ UNCHANGED history
         \/ c[1] = "cancel" /\ cancelInLoop(c[2]) /\ noted(c[2])
      /\ UNCHANGED <<clocks, reported, handler, fired>>
  BY DEF RunCall
<1>2. c \in AddCalls \cup CancelCalls
  BY <1>1, HeadTailProperties DEF CallInv
<1>3. 1 \in 1..Len(calls) /\ c = calls[1]
  BY <1>1, HeadTailProperties, EmptySeq DEF CallInv
<1>4. c[2] \in Timers /\ (c \in AddCalls => c[3] \in Nat)
  BY <1>2, CallKinds
<1>5. c \in AddCalls => life[c[2]] = "queued"
  BY <1>3 DEF CallInv
<1>6. life \in [Timers -> {"none", "queued", "live", "deleted"}]
  BY DEF Queue, LifeTypes
<1>7. CASE c[1] = "add"
  <2>1. c \in AddCalls
    BY <1>2, <1>7, CallKinds
  <2>2. addTimerInLoop(c[2], c[3]) /\ UNCHANGED history
    BY <1>1, <1>7
  <2>3. Queue'
    BY <1>1, <1>4, <1>5, <2>1, <2>2, AddKeeps
  <2>4. \A u \in Timers : life[u] = "queued" /\ u # c[2] =>
          life'[u] = "queued"
    BY <1>6, <2>2 DEF addTimerInLoop
  <2> HIDE DEF c
  <2>5. CallInv'
    BY <1>1, <2>1, <2>4, CallsPopped DEF c
  <2> QED
    BY <2>3, <2>5
<1>8. CASE c[1] = "cancel"
  <2>1. cancelInLoop(c[2]) /\ noted(c[2])
    BY <1>1, <1>8
  <2>2. Queue' /\ \A u \in Timers : life[u] = "queued" => life'[u] = "queued"
    BY <1>1, <1>4, <2>1, CancelKeeps
  <2>3. CallInv'
    BY <1>1, <2>2, CallsPopped
  <2> QED
    BY <2>2, <2>3
<1> QED
  BY <1>1, <1>7, <1>8

\* A deleted timer is never added again, and a cancel inside the batch marks
\* the timer, which is not in activeTimers_: reset() then deletes it.
LEMMA StopStep ==
  ASSUME Queue, CallInv, StopInv, [Next]_vars
  PROVE  StopInv'
<1> DEFINE InBatch(t) == \E e \in expired : e.timer = t
<1>0. /\ callingExpiredTimers_ = (pc # "loop") /\ stopped \subseteq cancelled
      /\ \A t \in stopped : life[t] = "deleted" \/
           (t \in cancelingTimers_ /\ InBatch(t))
  BY DEF StopInv
<1>1. /\ life \in [Timers -> {"none", "queued", "live", "deleted"}]
      /\ stopped \subseteq Timers
  BY <1>0 DEF Queue, LifeTypes, SetTypes
<1>2. ASSUME UNCHANGED <<pc, callingExpiredTimers_, cancelled, stopped>>,
             UNCHANGED <<cancelingTimers_, expired>>,
             \A t \in Timers : life[t] = "deleted" => life'[t] = "deleted"
      PROVE  StopInv'
  BY <1>0, <1>1, <1>2 DEF StopInv
<1>3. ASSUME NEW t \in Timers, NEW when, addTimerInLoop(t, when),
             life[t] # "deleted", UNCHANGED <<handler, history>>
      PROVE  StopInv'
  <2>1. /\ UNCHANGED <<pc, callingExpiredTimers_, cancelled, stopped>>
        /\ UNCHANGED <<cancelingTimers_, expired>>
        /\ life' = [life EXCEPT ![t] = "live"]
    BY <1>3 DEF addTimerInLoop, handler, history
  <2>2. \A u \in Timers : life[u] = "deleted" => life'[u] = "deleted"
    BY <1>1, <1>3, <2>1
  <2> QED
    BY <1>2, <2>1, <2>2
<1>4. ASSUME NEW t \in Timers, cancelInLoop(t), noted(t), UNCHANGED handler
      PROVE  StopInv'
  <2>1. /\ UNCHANGED <<pc, expired, callingExpiredTimers_>>
        /\ cancelled' = cancelled \cup {t}
        /\ stopped' = IF InBatch(t) THEN stopped \cup {t} ELSE stopped
    BY <1>4 DEF cancelInLoop, noted, handler
  <2>2. \A u \in Timers : life[u] = "deleted" => life'[u] = "deleted"
    BY <1>1, <1>4 DEF cancelInLoop
  <2>3. cancelingTimers_ \subseteq cancelingTimers_'
    BY <1>4 DEF cancelInLoop, marking
  <2>4. InBatch(t) => t \in cancelingTimers_'
    <3> SUFFICES ASSUME InBatch(t) PROVE t \in cancelingTimers_'
      OBVIOUS
    <3>1. t \notin activeTimers_
      BY DEF Queue, OwnInv, Unique
    <3>2. callingExpiredTimers_
      BY <1>0 DEF Queue, OwnInv
    <3> QED
      BY <1>4, <3>1, <3>2 DEF cancelInLoop, marking
  <2>5. (callingExpiredTimers_ = (pc # "loop"))'
    BY <1>0, <2>1
  <2>6. (stopped \subseteq cancelled)'
    BY <1>0, <2>1
  <2>7. \A u \in stopped' : life'[u] = "deleted" \/
          (u \in cancelingTimers_' /\ \E e \in expired' : e.timer = u)
    BY <1>0, <1>1, <2>1, <2>2, <2>3, <2>4
  <2> QED
    BY <2>5, <2>6, <2>7 DEF StopInv
<1>5. CASE Tick \/ StepClock \/ PollReports
  <2>1. UNCHANGED <<sets, handler, life, history>>
    BY <1>5 DEF Tick, StepClock, PollReports
  <2> QED
    BY <1>2, <2>1 DEF sets, handler, history
<1>6. CASE HandleRead
  <2>1. /\ expired = {} /\ pc = "loop" /\ pc' = "running"
        /\ callingExpiredTimers_' = TRUE
        /\ UNCHANGED <<life, cancelled, stopped>>
    BY <1>6 DEF HandleRead, history, Queue, OwnInv
  <2> QED
    BY <1>0, <2>1 DEF StopInv
<1>7. CASE \E e \in rest : RunTimer(e)
  <2>1. /\ pc = "running" /\ pc' = "callback"
        /\ UNCHANGED <<callingExpiredTimers_, cancelingTimers_, expired>>
        /\ UNCHANGED <<life, cancelled, stopped>>
    BY <1>7 DEF RunTimer, sets, history
  <2> QED
    BY <1>0, <2>1 DEF StopInv
<1>8. CASE CallbackReturns
  <2>1. /\ pc = "callback" /\ pc' = "running"
        /\ UNCHANGED <<callingExpiredTimers_, cancelingTimers_, expired>>
        /\ UNCHANGED <<life, cancelled, stopped>>
    BY <1>8 DEF CallbackReturns, sets, history
  <2> QED
    BY <1>0, <2>1 DEF StopInv
<1>9. CASE Reset
  <2> DEFINE batch == {e.timer : e \in expired}
             again == {t \in batch : restarts(t)}
  <2>1. /\ pc' = "loop" /\ callingExpiredTimers_' = FALSE
        /\ life' = [t \in Timers |->
                      IF t \in batch \ again THEN "deleted" ELSE life[t]]
        /\ UNCHANGED <<cancelled, stopped>>
    BY <1>9 DEF Reset, history
  <2>2. \A t \in stopped : life'[t] = "deleted"
    <3> SUFFICES ASSUME NEW t \in stopped PROVE life'[t] = "deleted"
      OBVIOUS
    <3>1. CASE life[t] = "deleted"
      BY <1>1, <2>1, <3>1
    <3>2. CASE t \in cancelingTimers_ /\ InBatch(t)
      <4>1. t \in batch /\ t \notin again
        BY <3>2 DEF restarts
      <4> QED
        BY <1>1, <2>1, <4>1
    <3> QED
      BY <1>0, <3>1, <3>2
  <2>3. (callingExpiredTimers_ = (pc # "loop"))'
    BY <2>1
  <2> QED
    BY <1>0, <2>1, <2>2, <2>3 DEF StopInv
<1>10. CASE RunCall
  <2> DEFINE c == Head(calls)
  <2>1. /\ calls # <<>> /\ UNCHANGED handler
        /\ \/ /\ c[1] = "add" /\ addTimerInLoop(c[2], c[3])
              /\ UNCHANGED history
           \/ c[1] = "cancel" /\ cancelInLoop(c[2]) /\ noted(c[2])
    BY <1>10 DEF RunCall
  <2>2. c \in AddCalls \cup CancelCalls
    BY <2>1, HeadTailProperties DEF CallInv
  <2>3. 1 \in 1..Len(calls) /\ c = calls[1]
    BY <2>1, HeadTailProperties, EmptySeq DEF CallInv
  <2>4. c[2] \in Timers
    BY <2>2, CallKinds
  <2>5. c[1] = "add" => life[c[2]] = "queued"
    <3>1. c[1] = "add" => c \in AddCalls
      BY <2>2, CallKinds
    <3> QED
      BY <2>3, <3>1 DEF CallInv
  <2> HIDE DEF c
  <2>6. CASE c[1] = "add" /\ addTimerInLoop(c[2], c[3]) /\ UNCHANGED history
    BY <1>3, <2>1, <2>4, <2>5, <2>6
  <2>7. CASE cancelInLoop(c[2]) /\ noted(c[2])
    BY <1>4, <2>1, <2>4, <2>7
  <2> QED
    BY <2>1, <2>6, <2>7
<1>11. CASE Call
  <2>1. PICK t \in Timers :
          \/ \E when \in 1..Horizon : AddHere(t, when) \/ AddElsewhere(t, when)
          \/ CancelHere(t) \/ CancelElsewhere(t)
    BY <1>11 DEF Call
  <2>2. ASSUME NEW when, AddHere(t, when) PROVE StopInv'
    BY <1>3, <2>2 DEF AddHere
  <2>3. ASSUME NEW when, AddElsewhere(t, when) PROVE StopInv'
    <3>1. life[t] = "none" /\ life' = [life EXCEPT ![t] = "queued"]
      BY <2>3 DEF AddElsewhere
    <3>2. UNCHANGED sets /\ UNCHANGED handler /\ UNCHANGED history
      BY <2>3 DEF AddElsewhere
    <3>3. \A u \in Timers : life[u] = "deleted" => life'[u] = "deleted"
      BY <1>1, <3>1
    <3> QED
      BY <1>2, <3>2, <3>3 DEF sets, handler, history
  <2>4. CASE CancelHere(t)
    BY <1>4, <2>4 DEF CancelHere
  <2>5. CASE CancelElsewhere(t)
    <3>1. UNCHANGED <<sets, handler, life, history>>
      BY <2>5 DEF CancelElsewhere
    <3> QED
      BY <1>2, <3>1 DEF sets, handler, history
  <2> QED
    BY <2>1, <2>2, <2>3, <2>4, <2>5
<1>12. CASE UNCHANGED vars
  <2>1. UNCHANGED <<sets, handler, life, history>>
    BY <1>12 DEF vars
  <2> QED
    BY <1>2, <2>1 DEF sets, handler, history
<1> QED
  BY <1>5, <1>6, <1>7, <1>8, <1>9, <1>10, <1>11, <1>12 DEF Next, LoopStep
-----------------------------------------------------------------------------
(* The theorems                                                             *)

\* Every step keeps the invariant.
LEMMA IInvStep == IInv /\ [Next]_vars => IInv'
<1> SUFFICES ASSUME IInv, [Next]_vars PROVE IInv'
  OBVIOUS
<1>1. ClockInv /\ Queue /\ CallInv /\ StopInv
  BY DEF IInv, Types, Queue
<1>2. ClockInv' /\ StopInv'
  BY <1>1, ClockStep, StopStep
<1>3. CASE Tick \/ StepClock
  <2>1. UNCHANGED <<life, calls>>
    BY <1>3 DEF Tick, StepClock
  <2> QED
    BY <1>1, <1>2, <1>3, <2>1, TimeKeeps, CallsKept DEF IInv, Types, Queue
<1>4. CASE PollReports \/ CallbackReturns \/ (\E e \in rest : RunTimer(e))
  <2>1. calls' = calls
    BY <1>4 DEF PollReports, CallbackReturns, RunTimer
  <2> QED
    BY <1>1, <1>2, <1>4, <2>1, CallbackKeeps, CallsKept
       DEF IInv, Types, Queue
<1>5. CASE HandleRead
  <2>1. calls' = calls
    BY <1>5 DEF HandleRead
  <2> QED
    BY <1>1, <1>2, <1>5, <2>1, HandleReadKeeps, CallsKept
       DEF IInv, Types, Queue
<1>6. CASE Reset
  <2>1. calls' = calls
    BY <1>6 DEF Reset
  <2> QED
    BY <1>1, <1>2, <1>6, <2>1, ResetKeeps, CallsKept DEF IInv, Types, Queue
<1>7. CASE RunCall \/ Call
  BY <1>1, <1>2, <1>7, RunCallKeeps, CallKeeps DEF IInv, Types, Queue
<1>8. CASE UNCHANGED vars
  <2>1. UNCHANGED clocks /\ UNCHANGED timerfd /\ UNCHANGED sets
        /\ UNCHANGED handler
        /\ UNCHANGED <<reported, life, calls, fired, cancelled>>
    BY <1>8 DEF history, vars
  <2>2. HandlerTypes'
    BY <1>1, <2>1 DEF timerfd, sets, handler, Queue, HandlerTypes, Times
  <2>3. SetTypes' /\ LifeTypes' /\ OwnInv'
    BY <1>1, <2>1 DEF sets, handler, Queue, SetTypes, LifeTypes, OwnInv, Unique
  <2>4. AlarmInTime'
    BY <1>1, <2>1 DEF clocks, timerfd, sets, handler, Queue, AlarmInTime,
                      howMuchTimeFromNow
  <2>5. CallInv'
    BY <1>1, <2>1, CallsKept
  <2> QED
    BY <1>2, <2>2, <2>3, <2>4, <2>5 DEF IInv, Types
<1> QED
  BY <1>3, <1>4, <1>5, <1>6, <1>7, <1>8 DEF Next, LoopStep

\* The invariant holds for any timers, threads and clock steps.
THEOREM Invariance == Spec => []IInv
BY InitIInv, IInvStep, PTL DEF Spec

\* Every Timer object is owned exactly once while it is live, and by nothing
\* afterwards.
THEOREM OwnershipSafety == Spec => []OwnedOnce
<1>1. IInv => OwnedOnce
  <2> SUFFICES ASSUME IInv PROVE OwnedOnce
    OBVIOUS
  <2>1. ClockInv /\ HandlerTypes /\ SetTypes /\ LifeTypes /\ OwnInv
    BY DEF IInv, Types
  <2>2. wall \in Times /\ mono \in Times /\ steps \in 0..MaxSteps
    BY <2>1, TimeAssumption DEF ClockInv, Times
  <2>3. stopped \subseteq cancelled
    BY DEF IInv, StopInv
  <2>4. TypeOK
    BY <2>1, <2>2, <2>3, Zenon DEF TypeOK, HandlerTypes, SetTypes, LifeTypes
  <2>5. TimersOf(timers_) \cup TimersOf(expired)
          = {t \in Timers : life[t] = "live"}
    <3>1. \A e \in timers_ \cup expired : e.timer \in Timers
      BY <2>1 DEF SetTypes, Entries
    <3> QED
      BY <2>1, <3>1 DEF OwnInv, TimersOf
  <2>6. /\ Unique(timers_) /\ Unique(expired)
        /\ TimersOf(timers_) \cap TimersOf(expired) = {}
    BY <2>1 DEF OwnInv, Unique, TimersOf
  <2>7. Cardinality(timers_) + Cardinality(expired)
          = Cardinality(TimersOf(timers_) \cup TimersOf(expired))
    BY <2>1, <2>6, CountOwned DEF SetTypes
  <2> QED
    BY <2>4, <2>5, <2>7 DEF OwnedOnce, TimersOf
<1> QED
  BY Invariance, <1>1, PTL

\* A waiting timer has its alarm, and without clock steps in time.
THEOREM AlarmSafety == Spec => []AlarmInTime
<1>1. IInv => AlarmInTime
  BY DEF IInv
<1> QED
  BY Invariance, <1>1, PTL

\* A timer cancelled inside its batch, from whichever callback, does not
\* outlive the batch.
THEOREM CancelSafety == Spec => []CancelInBatch
<1>1. IInv => CancelInBatch
  <2> SUFFICES ASSUME IInv PROVE CancelInBatch
    OBVIOUS
  <2>1. OwnInv /\ StopInv
    BY DEF IInv
  <2>2. \A e \in timers_ : life[e.timer] = "live"
                          /\ \A f \in expired : f.timer # e.timer
    BY <2>1 DEF OwnInv, Unique
  <2> QED
    BY <2>1, <2>2 DEF StopInv, CancelInBatch
<1> QED
  BY Invariance, <1>1, PTL
=============================================================================
