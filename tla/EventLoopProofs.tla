-------------------------- MODULE EventLoopProofs --------------------------
(***************************************************************************)
(* What EventLoop's handshake guarantees for any number of threads,         *)
(* functors and channels: queueInLoop() loses nothing, no wakeup is lost,   *)
(* and the loop implements the serial executor of TaskQueue.                *)
(* A loop in a thread of its own is an EventLoop, so that all of this holds *)
(* of it; and as long as only the destructor ends it, nobody is given a     *)
(* null loop and nobody but the destructor's own wakeup() touches a         *)
(* destroyed one.                                                           *)
(***************************************************************************)
EXTENDS EventLoopThread, SequenceTheorems, TLAPS

\* Outside the stretch from the poll's return to the swap, whatever is
\* pending and was not posted early has been or is being signalled.  Inside
\* it the counter may already be drained, but the swap is still to come.
WakeupInv ==
  pc \notin {"events", "callback", "calling"}
     /\ ~(Range(pendingFunctors_) \subseteq early) => Signalled

IInv == Types /\ Position /\ NothingLost /\ WakeupInv /\ NoLostQuit
-----------------------------------------------------------------------------
(* Sequences                                                                *)

\* Appending to the right part of a concatenation appends to the whole.
LEMMA ConcatAppend ==
  ASSUME NEW S, NEW s \in Seq(S), NEW t \in Seq(S), NEW e \in S
  PROVE  s \o Append(t, e) = Append(s \o t, e)
<1>1. s \o t \in Seq(S) /\ Len(s \o t) = Len(s) + Len(t)
  BY ConcatProperties
<1>2. Append(t, e) \in Seq(S) /\ Len(Append(t, e)) = Len(t) + 1
  OBVIOUS
<1>3. s \o Append(t, e) \in Seq(S)
  BY <1>2, ConcatProperties
<1>4. Append(s \o t, e) \in Seq(S)
  BY <1>1
<1>5. Len(s \o Append(t, e)) = Len(Append(s \o t, e))
  BY <1>1, <1>2
<1>6. \A i \in 1..Len(s \o Append(t, e)) :
         (s \o Append(t, e))[i] = Append(s \o t, e)[i]
  BY <1>1, <1>2
<1> QED
  BY <1>3, <1>4, <1>5, <1>6, SeqEqual

\* Moving the head of the right part to the end of the left one keeps the
\* concatenation: what one call of a functor does to the history.
LEMMA MoveHead ==
  ASSUME NEW S, NEW s \in Seq(S), NEW t \in Seq(S), t # <<>>
  PROVE  Append(s, Head(t)) \o Tail(t) = s \o t
<1>1. /\ Head(t) \in S /\ Tail(t) \in Seq(S) /\ Len(Tail(t)) = Len(t) - 1
      /\ Len(t) \in Nat \ {0} /\ Head(t) = t[1]
      /\ \A i \in 1..Len(Tail(t)) : Tail(t)[i] = t[i + 1]
  BY HeadTailProperties, EmptySeq
<1>2. /\ Append(s, Head(t)) \in Seq(S)
      /\ Len(Append(s, Head(t))) = Len(s) + 1
  BY <1>1
<1> DEFINE l == Append(s, Head(t)) \o Tail(t)
           r == s \o t
<1>3. l \in Seq(S) /\ r \in Seq(S) /\ Len(l) = Len(r)
  BY <1>1, <1>2, ConcatProperties
<1>4. \A i \in 1..Len(l) : l[i] = r[i]
  BY <1>1, <1>2
<1> QED
  BY <1>3, <1>4, SeqEqual

\* The head and the tail of a concatenation whose left part is not empty.
LEMMA HeadTailConcat ==
  ASSUME NEW S, NEW s \in Seq(S), NEW t \in Seq(S), s # <<>>
  PROVE  /\ s \o t # <<>>
         /\ Head(s \o t) = Head(s)
         /\ Tail(s \o t) = Tail(s) \o t
<1>1. /\ s \o t \in Seq(S) /\ Len(s \o t) = Len(s) + Len(t)
      /\ Len(s) \in Nat \ {0}
  BY ConcatProperties, EmptySeq
<1>2. s \o t # <<>>
  BY <1>1
<1>3. Head(s \o t) = Head(s)
  BY <1>1, <1>2
<1>4. /\ Tail(s \o t) \in Seq(S) /\ Len(Tail(s \o t)) = Len(s) + Len(t) - 1
      /\ \A i \in 1..Len(Tail(s \o t)) : Tail(s \o t)[i] = (s \o t)[i + 1]
  BY <1>1, <1>2, HeadTailProperties
<1>5. /\ Tail(s) \in Seq(S) /\ Len(Tail(s)) = Len(s) - 1
      /\ \A i \in 1..Len(Tail(s)) : Tail(s)[i] = s[i + 1]
  BY HeadTailProperties
<1>6. /\ Tail(s) \o t \in Seq(S) /\ Len(Tail(s) \o t) = Len(s) - 1 + Len(t)
  BY <1>5, ConcatProperties
<1>7. \A i \in 1..Len(Tail(s) \o t) : Tail(s \o t)[i] = (Tail(s) \o t)[i]
  BY <1>1, <1>4, <1>5, <1>6
<1>8. Tail(s \o t) = Tail(s) \o t
  BY <1>4, <1>6, <1>7, SeqEqual
<1> QED
  BY <1>2, <1>3, <1>8
-----------------------------------------------------------------------------
(* The inductive invariant                                                  *)

USE DEF flags, history

\* The constructor establishes the invariant.
LEMMA InitIInv == Init => IInv
<1> SUFFICES ASSUME Init PROVE IInv
  OBVIOUS
<1>1. Types
  <2>1. <<>> \in Seq(Functors)
    BY EmptySeq
  <2>2. 0 \in 0..EventFdMax
    BY EventFdAssumption
  <2> QED
    BY <2>1, <2>2 DEF Init, Types, Locations
<1>2. Position
  BY DEF Init, Position
<1>3. NothingLost
  BY DEF Init, NothingLost
<1>4. WakeupInv
  BY DEF Init, WakeupInv, Range
<1>5. NoLostQuit
  BY DEF Init, NoLostQuit
<1> QED
  BY <1>1, <1>2, <1>3, <1>4, <1>5 DEF IInv

\* Every step keeps the types; wakeup() saturates where write() fails.
LEMMA TypeStep == Types /\ [Next]_vars => Types'
<1> SUFFICES ASSUME Types, [Next]_vars PROVE Types'
  OBVIOUS
<1> USE EventFdAssumption DEF Types, Locations
<1>1. CASE LoopEnter
  BY <1>1 DEF LoopEnter
<1>2. CASE LoopStart
  BY <1>2 DEF LoopStart
<1>3. CASE LoopTurn
  BY <1>3 DEF LoopTurn
<1>4. CASE LoopExit
  BY <1>4 DEF LoopExit
<1>5. CASE PollReady
  BY <1>5 DEF PollReady, PollReturn, Reported
<1>6. CASE PollTimeout
  BY <1>6 DEF PollTimeout, PollReturn
<1>7. CASE HandleWakeup
  BY <1>7 DEF HandleWakeup, handleRead
<1>8. ASSUME NEW c \in Channels, HandleEvent(c) PROVE Types'
  BY <1>8 DEF HandleEvent
<1>9. CASE CallbackReturns
  BY <1>9 DEF CallbackReturns
<1>10. CASE EventsHandled
  BY <1>10 DEF EventsHandled
<1>11. CASE SwapFunctors
  BY <1>11 DEF SwapFunctors, swap
<1>12. CASE RunFunctor
  BY <1>12, HeadTailProperties DEF RunFunctor
<1>13. CASE FunctorReturns
  BY <1>13 DEF FunctorReturns
<1>14. CASE FunctorsDone
  BY <1>14 DEF FunctorsDone
<1>15. ASSUME NEW f \in Functors, QueueInOwnLoop(f) PROVE Types'
  BY <1>15 DEF QueueInOwnLoop, push, wakeup
<1>16. ASSUME NEW f \in Functors, RunInOwnLoop(f) PROVE Types'
  BY <1>16 DEF RunInOwnLoop
<1>17. CASE QuitOwnLoop
  BY <1>17 DEF QuitOwnLoop
<1>18. ASSUME NEW t \in Threads, NEW f \in Functors, QueueInLoop(t, f)
       PROVE  Types'
  BY <1>18 DEF QueueInLoop, push
<1>19. ASSUME NEW t \in Threads, Quit(t) PROVE Types'
  BY <1>19 DEF Quit
<1>20. ASSUME NEW t \in Threads, Wakeup(t) PROVE Types'
  BY <1>20 DEF Wakeup, wakeup
<1>21. CASE UNCHANGED vars
  BY <1>21 DEF vars
<1> QED
  BY <1>1, <1>2, <1>3, <1>4, <1>5, <1>6, <1>7, <1>8, <1>9, <1>10, <1>11,
     <1>12, <1>13, <1>14, <1>15, <1>16, <1>17, <1>18, <1>19, <1>20, <1>21
     DEF Next, LoopStep, OwnCall, ThreadStep

\* Every step that moves the loop thread sets the flags of its new position.
LEMMA PositionStep == Types /\ Position /\ [Next]_vars => Position'
<1> SUFFICES ASSUME Types, Position, [Next]_vars PROVE Position'
  OBVIOUS
<1> USE DEF Position
<1>1. CASE LoopEnter \/ LoopStart \/ LoopTurn \/ LoopExit
  BY <1>1 DEF LoopEnter, LoopStart, LoopTurn, LoopExit
<1>2. CASE PollReady \/ PollTimeout
  BY <1>2 DEF PollReady, PollTimeout, PollReturn
<1>3. CASE HandleWakeup \/ (\E c \in Channels : HandleEvent(c))
  BY <1>3 DEF HandleWakeup, HandleEvent
<1>4. CASE CallbackReturns \/ EventsHandled
  BY <1>4 DEF CallbackReturns, EventsHandled
<1>5. CASE SwapFunctors
  BY <1>5 DEF SwapFunctors, swap
<1>6. CASE RunFunctor \/ FunctorReturns
  BY <1>6 DEF RunFunctor, FunctorReturns
<1>7. CASE FunctorsDone
  BY <1>7 DEF FunctorsDone
<1>8. CASE OwnCall
  BY <1>8 DEF OwnCall, QueueInOwnLoop, RunInOwnLoop, QuitOwnLoop, push
<1>9. CASE \E t \in Threads : ThreadStep(t)
  BY <1>9 DEF ThreadStep, QueueInLoop, Quit, Wakeup, push
<1>10. CASE UNCHANGED vars
  BY <1>10 DEF vars
<1> QED
  BY <1>1, <1>2, <1>3, <1>4, <1>5, <1>6, <1>7, <1>8, <1>9, <1>10
     DEF Next, LoopStep

\* The steps that touch neither the queue nor its history.
QueueUntouched == UNCHANGED <<pendingFunctors_, functors, posted, ran>>

\* Only five kinds of step touch the queue: the swap, the call of a functor,
\* and the three ways to push.
LEMMA QueueSteps ==
  ASSUME [Next]_vars
  PROVE  \/ SwapFunctors \/ RunFunctor
         \/ \E f \in Functors : push(f) /\ UNCHANGED <<functors, ran>>
         \/ QueueUntouched
<1> USE DEF QueueUntouched
<1>1. CASE LoopEnter \/ LoopStart \/ LoopTurn \/ LoopExit
  BY <1>1 DEF LoopEnter, LoopStart, LoopTurn, LoopExit
<1>2. CASE PollReady \/ PollTimeout
  BY <1>2 DEF PollReady, PollTimeout, PollReturn
<1>3. CASE HandleWakeup \/ (\E c \in Channels : HandleEvent(c))
  BY <1>3 DEF HandleWakeup, HandleEvent
<1>4. CASE CallbackReturns \/ EventsHandled \/ FunctorReturns \/ FunctorsDone
  BY <1>4 DEF CallbackReturns, EventsHandled, FunctorReturns, FunctorsDone
<1>5. CASE OwnCall
  BY <1>5 DEF OwnCall, QueueInOwnLoop, RunInOwnLoop, QuitOwnLoop
<1>6. CASE \E t \in Threads : ThreadStep(t)
  BY <1>6 DEF ThreadStep, QueueInLoop, Quit, Wakeup
<1>7. CASE UNCHANGED vars
  BY <1>7 DEF vars
<1> QED
  BY <1>1, <1>2, <1>3, <1>4, <1>5, <1>6, <1>7 DEF Next, LoopStep

\* No step loses, duplicates or reorders a posted functor.
LEMMA NothingLostStep ==
  ASSUME Types, Position, NothingLost, [Next]_vars
  PROVE  NothingLost'
<1>1. CASE SwapFunctors
  <2>1. functors = <<>> /\ functors' = pendingFunctors_
        /\ pendingFunctors_' = <<>> /\ ran' = ran /\ posted' = posted
    BY <1>1 DEF SwapFunctors, swap, Position
  <2>2. ran \o <<>> \o pendingFunctors_ = ran \o pendingFunctors_ \o <<>>
    BY ConcatEmptySeq, ConcatProperties DEF Types
  <2> QED
    BY <2>1, <2>2 DEF NothingLost
<1>2. CASE RunFunctor
  <2>1. functors # <<>> /\ functors' = Tail(functors)
        /\ ran' = Append(ran, Head(functors))
        /\ UNCHANGED <<posted, pendingFunctors_>>
    BY <1>2 DEF RunFunctor
  <2>2. Append(ran, Head(functors)) \o Tail(functors) = ran \o functors
    BY <2>1, MoveHead DEF Types
  <2> QED
    BY <2>1, <2>2 DEF NothingLost
<1>3. ASSUME NEW f \in Functors, push(f), UNCHANGED <<functors, ran>>
      PROVE  NothingLost'
  <2>1. ran \o functors \in Seq(Functors)
    BY ConcatProperties DEF Types
  <2>2. (ran \o functors) \o Append(pendingFunctors_, f)
          = Append((ran \o functors) \o pendingFunctors_, f)
    BY <2>1, ConcatAppend DEF Types
  <2> QED
    BY <1>3, <2>2 DEF NothingLost, push
<1>4. CASE QueueUntouched
  BY <1>4 DEF QueueUntouched, NothingLost
<1> QED
  BY <1>1, <1>2, <1>3, <1>4, QueueSteps

\* Every step keeps the wakeup invariant: a push by another thread or by a
\* functor signals, a push by a callback comes before the swap, and the
\* counter is drained only before the swap.
LEMMA WakeupStep ==
  ASSUME Types, Position, WakeupInv, [Next]_vars
  PROVE  WakeupInv'
<1> USE DEF WakeupInv, Signalled
<1>1. CASE LoopEnter \/ LoopStart \/ LoopTurn \/ LoopExit
  BY <1>1 DEF LoopEnter, LoopStart, LoopTurn, LoopExit
<1>2. CASE PollReady \/ PollTimeout
  BY <1>2 DEF PollReady, PollTimeout, PollReturn
<1>3. CASE HandleWakeup \/ (\E c \in Channels : HandleEvent(c))
  BY <1>3 DEF HandleWakeup, HandleEvent
<1>4. CASE CallbackReturns \/ EventsHandled
  BY <1>4 DEF CallbackReturns, EventsHandled
<1>5. CASE SwapFunctors
  BY <1>5 DEF SwapFunctors, swap, Range
<1>6. CASE RunFunctor \/ FunctorReturns \/ FunctorsDone
  BY <1>6 DEF RunFunctor, FunctorReturns, FunctorsDone
<1>7. ASSUME NEW f \in Functors, QueueInOwnLoop(f) PROVE WakeupInv'
  <2>1. pc' = pc /\ waking' = waking
        /\ pendingFunctors_' = Append(pendingFunctors_, f)
    BY <1>7 DEF QueueInOwnLoop, push
  <2>2. CASE pc = "idle"
    <3>1. early' = early \cup {f} /\ wakeupFd_' = wakeupFd_
      BY <1>7, <2>2 DEF QueueInOwnLoop, OwnPostWakes, Position
    <3>2. Range(pendingFunctors_') \subseteq Range(pendingFunctors_) \cup {f}
      BY <2>1 DEF Types, Range
    <3> QED
      BY <2>1, <3>1, <3>2
  <2>3. CASE pc = "functor"
    <3>1. wakeupFd_' > 0
      BY <1>7, <2>3, EventFdAssumption
         DEF QueueInOwnLoop, OwnPostWakes, wakeup, Position, Types
    <3> QED
      BY <3>1
  <2>4. CASE pc = "callback"
    BY <2>1, <2>4
  <2> QED
    BY <1>7, <2>2, <2>3, <2>4 DEF QueueInOwnLoop, InUserCode
<1>8. ASSUME NEW f \in Functors, RunInOwnLoop(f) PROVE WakeupInv'
  BY <1>8 DEF RunInOwnLoop
<1>9. CASE QuitOwnLoop
  BY <1>9 DEF QuitOwnLoop
<1>10. ASSUME NEW t \in Threads, NEW f \in Functors, QueueInLoop(t, f)
       PROVE  WakeupInv'
  BY <1>10 DEF QueueInLoop
<1>11. ASSUME NEW t \in Threads, Quit(t) PROVE WakeupInv'
  BY <1>11 DEF Quit
<1>12. ASSUME NEW t \in Threads, Wakeup(t) PROVE WakeupInv'
  BY <1>12, EventFdAssumption DEF Wakeup, wakeup, Types
<1>13. CASE UNCHANGED vars
  BY <1>13 DEF vars
<1> QED
  BY <1>1, <1>2, <1>3, <1>4, <1>5, <1>6, <1>7, <1>8, <1>9, <1>10, <1>11,
     <1>12, <1>13 DEF Next, LoopStep, OwnCall, ThreadStep

\* quit_ becomes true under a blocked poll only by another thread's store,
\* which a wakeup() follows.
LEMMA QuitStep ==
  ASSUME Types, NoLostQuit, [Next]_vars
  PROVE  NoLostQuit'
<1> USE DEF NoLostQuit, Signalled
<1>1. CASE LoopEnter \/ LoopStart \/ LoopTurn \/ LoopExit
  BY <1>1 DEF LoopEnter, LoopStart, LoopTurn, LoopExit
<1>2. CASE PollReady \/ PollTimeout
  BY <1>2 DEF PollReady, PollTimeout, PollReturn
<1>3. CASE HandleWakeup \/ (\E c \in Channels : HandleEvent(c))
  BY <1>3 DEF HandleWakeup, HandleEvent
<1>4. CASE CallbackReturns \/ EventsHandled \/ SwapFunctors \/ RunFunctor
           \/ FunctorReturns \/ FunctorsDone
  BY <1>4 DEF CallbackReturns, EventsHandled, SwapFunctors, RunFunctor,
              FunctorReturns, FunctorsDone
<1>5. CASE OwnCall
  BY <1>5 DEF OwnCall, QueueInOwnLoop, RunInOwnLoop, QuitOwnLoop, InUserCode
<1>6. ASSUME NEW t \in Threads, NEW f \in Functors, QueueInLoop(t, f)
      PROVE  NoLostQuit'
  BY <1>6 DEF QueueInLoop
<1>7. ASSUME NEW t \in Threads, Quit(t) PROVE NoLostQuit'
  BY <1>7 DEF Quit
<1>8. ASSUME NEW t \in Threads, Wakeup(t) PROVE NoLostQuit'
  BY <1>8, EventFdAssumption DEF Wakeup, wakeup, Types
<1>9. CASE UNCHANGED vars
  BY <1>9 DEF vars
<1> QED
  BY <1>1, <1>2, <1>3, <1>4, <1>5, <1>6, <1>7, <1>8, <1>9
     DEF Next, LoopStep, ThreadStep

\* IInv is an invariant of the loop and of the threads that use it.
THEOREM Invariance == Spec => []IInv
<1>1. IInv /\ [Next]_vars => IInv'
  BY TypeStep, PositionStep, NothingLostStep, WakeupStep, QuitStep DEF IInv
<1> QED
  BY InitIInv, <1>1, PTL DEF Spec
-----------------------------------------------------------------------------
(* What follows from it                                                     *)

\* The types, the eventfd's bound, and looping_, eventHandling_ and
\* callingPendingFunctors_ follow the loop thread, whatever it and the other
\* threads call.
THEOREM TypeCorrect == Spec => []TypeOK
<1>1. IInv => TypeOK
  BY DEF IInv, TypeOK
<1> QED
  BY Invariance, <1>1, PTL

\* queueInLoop() loses, duplicates and reorders nothing.
THEOREM QueueSafety == Spec => []NothingLost
<1>1. IInv => NothingLost
  BY DEF IInv
<1> QED
  BY Invariance, <1>1, PTL

\* A loop blocked in poll() on somebody's functor has its wakeup coming.
THEOREM WakeupSafety == Spec => []NoLostWakeup
<1>1. IInv => NoLostWakeup
  BY DEF IInv, WakeupInv, NoLostWakeup
<1> QED
  BY Invariance, <1>1, PTL

\* A loop blocked in poll() with quit_ set has its wakeup coming.
THEOREM QuitSafety == Spec => []NoLostQuit
<1>1. IInv => NoLostQuit
  BY DEF IInv
<1> QED
  BY Invariance, <1>1, PTL

\* The event loop implements the serial executor: a push posts, the call of
\* a functor executes, and every other step, the swap included, is a stutter.
THEOREM Refinement == Spec => SerialExecutor
<1>1. Init => Executor!Init
  BY ConcatEmptySeq, EmptySeq DEF Init, Executor!Init
<1>2. IInv /\ [Next]_vars => [Executor!Next]_(Executor!vars)
  <2> SUFFICES ASSUME IInv, [Next]_vars
               PROVE  [Executor!Next]_(Executor!vars)
    OBVIOUS
  <2> USE DEF IInv, Types
  <2>1. CASE SwapFunctors
    <3>1. functors = <<>> /\ functors' = pendingFunctors_
          /\ pendingFunctors_' = <<>> /\ ran' = ran
      BY <2>1 DEF SwapFunctors, swap, Position
    <3>2. <<>> \o pendingFunctors_ = pendingFunctors_ \o <<>>
      BY ConcatEmptySeq
    <3> QED
      BY <3>1, <3>2 DEF Executor!vars
  <2>2. CASE RunFunctor
    <3>1. functors # <<>> /\ functors' = Tail(functors)
          /\ ran' = Append(ran, Head(functors))
          /\ pendingFunctors_' = pendingFunctors_
      BY <2>2 DEF RunFunctor
    <3>2. /\ functors \o pendingFunctors_ # <<>>
          /\ Head(functors \o pendingFunctors_) = Head(functors)
          /\ Tail(functors \o pendingFunctors_)
               = Tail(functors) \o pendingFunctors_
      BY <3>1, HeadTailConcat
    <3> QED
      BY <3>1, <3>2 DEF Executor!Next, Executor!Execute
  <2>3. ASSUME NEW f \in Functors, push(f), UNCHANGED <<functors, ran>>
        PROVE  Executor!Next
    <3>1. functors \o Append(pendingFunctors_, f)
            = Append(functors \o pendingFunctors_, f)
      BY ConcatAppend
    <3> QED
      BY <2>3, <3>1 DEF push, Executor!Next, Executor!Post
  <2>4. CASE QueueUntouched
    BY <2>4 DEF QueueUntouched, Executor!vars
  <2> QED
    BY <2>1, <2>2, <2>3, <2>4, QueueSteps
<1> QED
  BY <1>1, <1>2, Invariance, PTL DEF Spec, SerialExecutor, Executor!Spec
-----------------------------------------------------------------------------
(* The composition implements EventLoop                                     *)

\* Every step of the owner, of the thread and of the users is a step of the
\* loop, or leaves the loop alone.
LEMMA ThreadStepIsLoopStep == [NextThread]_allVars => [Next]_vars
<1> SUFFICES ASSUME [NextThread]_allVars PROVE [Next]_vars
  OBVIOUS
<1>1. CASE BaseLoop
  BY <1>1 DEF BaseLoop, InBase
<1>2. CASE EnterLoop \/ TurnLoop
  BY <1>2 DEF EnterLoop, TurnLoop, Next
<1>3. CASE ThreadBorn \/ Publish \/ ClearLoop \/ EndThread
  BY <1>3 DEF ThreadBorn, Publish, ClearLoop, EndThread
<1>4. CASE ThreadCall
  BY <1>4 DEF ThreadCall, Next, OwnCall
<1>5. CASE PollLoop(PollReady) \/ PollLoop(PollTimeout)
  BY <1>5 DEF PollLoop, Next
<1>6. CASE StartThread \/ ThreadStarted \/ TestLoop \/ ReturnLoop
           \/ SpuriousWakeup \/ Destroy \/ JoinThread
  BY <1>6 DEF StartThread, ThreadStarted, TestLoop, ReturnLoop,
              SpuriousWakeup, Destroy, JoinThread
<1>7. CASE QuitThread
  BY <1>7, OwnerAssumption DEF QuitThread, Next, ThreadStep
<1>8. ASSUME NEW t \in Threads, CallLoop(t) \/ WakeLoop(t)
      PROVE  Next
  BY <1>8 DEF CallLoop, WakeLoop, Next, ThreadStep
<1>9. CASE UNCHANGED allVars
  BY <1>9 DEF allVars
<1> QED
  BY <1>1, <1>2, <1>3, <1>4, <1>5, <1>6, <1>7, <1>8, <1>9
     DEF NextThread, LoopThread, OwnerStep

\* A loop that an EventLoopThread runs is an EventLoop.
THEOREM ThreadRunsEventLoop == SpecThread => Spec
<1>1. InitThread => Init
  BY DEF InitThread
<1> QED
  BY <1>1, ThreadStepIsLoopStep, PTL DEF SpecThread, Spec

\* Hence neither the start nor the end of the thread loses a functor, a
\* wakeup or a quit().
THEOREM ThreadedLoopSafety ==
  SpecThread => [](TypeOK /\ NothingLost /\ NoLostWakeup /\ NoLostQuit)
BY ThreadRunsEventLoop, TypeCorrect, QueueSafety, WakeupSafety, QuitSafety, PTL

\* ... and the loop in its thread is still the serial executor.
THEOREM ThreadedLoopRefines == SpecThread => SerialExecutor
BY ThreadRunsEventLoop, Refinement, PTL
-----------------------------------------------------------------------------
(* The life of the loop object                                              *)

\* The owner has called quit(): only then may the thread be ending
OwnerQuit == ownerPc \in {"quitting", "joining", "done"}

\* Where the two threads are
ThreadTypes ==
  /\ threadPc \in {"main", "unborn", "init", "published", "looping",
                   "returned", "cleared", "ended"}
  /\ ownerPc \in {"none", "new", "starting", "locking", "waiting",
                  "returning", "using", "quit", "quitting", "joining",
                  "done", "crashed"}
  /\ loop_ \in BOOLEAN /\ userQuit \in BOOLEAN

\* The base loop has no owner, and loop_ is set from the publication until
\* the end of loop()
Published ==
  /\ threadPc = "main" <=> ownerPc = "none"
  /\ loop_ <=> threadPc \in {"published", "looping", "returned"}
  /\ ownerPc \in {"returning", "quit"} =>
       threadPc \in {"published", "looping", "returned", "cleared", "ended"}

\* Unless a user calls quit(), quit_ is set and loop() returns only after
\* the destructor's quit()
OnlyDestructorQuits ==
  /\ ~userQuit /\ threadPc # "main"
  /\ quit_ \/ threadPc \in {"returned", "cleared", "ended"}
  => OwnerQuit

ThreadInv ==
  /\ ThreadTypes
  /\ Published
  /\ OnlyDestructorQuits
  /\ LoopOutlivesUse

\* The loop's own steps: loop() is left only when quit_ is set, and no step
\* of loop() sets it.
LEMMA LoopStepQuits ==
  ASSUME TypeOK, LoopStep
  PROVE  /\ quit_' => quit_
         /\ pc' = "idle" => quit_
<1>1. CASE LoopStart \/ LoopTurn \/ LoopExit
  BY <1>1 DEF LoopStart, LoopTurn, LoopExit, flags, TypeOK
<1>2. CASE HandleWakeup \/ (\E c \in Channels : HandleEvent(c))
  BY <1>2 DEF HandleWakeup, HandleEvent, flags
<1>3. CASE CallbackReturns \/ EventsHandled \/ SwapFunctors \/ RunFunctor
           \/ FunctorReturns \/ FunctorsDone
  BY <1>3 DEF CallbackReturns, EventsHandled, SwapFunctors, RunFunctor,
              FunctorReturns, FunctorsDone, flags
<1> QED
  BY <1>1, <1>2, <1>3 DEF LoopStep

\* Every step keeps it.
LEMMA ThreadInvStep ==
  ASSUME TypeOK, ThreadInv, [NextThread]_allVars
  PROVE  ThreadInv'
<1> USE DEF ThreadInv, ThreadTypes, Published, OnlyDestructorQuits,
            OwnerQuit, LoopOutlivesUse
<1>1. CASE BaseLoop
  BY <1>1 DEF BaseLoop, InBase, threadVars
<1>2. CASE EnterLoop
  BY <1>2 DEF EnterLoop, LoopEnter
<1>3. CASE TurnLoop
  <2>1. quit_' => quit_
    BY <1>3, LoopStepQuits DEF TurnLoop
  <2>2. pc' = "idle" => quit_
    BY <1>3, LoopStepQuits DEF TurnLoop
  <2> QED
    BY <1>3, <2>1, <2>2 DEF TurnLoop
<1>4. CASE ThreadBorn
  BY <1>4 DEF ThreadBorn, vars
<1>5. CASE Publish
  BY <1>5 DEF Publish, notify, vars
<1>6. CASE ClearLoop \/ EndThread
  <2>1. CASE ClearLoop
    BY <2>1 DEF ClearLoop, vars
  <2>2. CASE EndThread
    BY <2>2 DEF EndThread, vars
  <2> QED
    BY <1>6, <2>1, <2>2
<1>7. CASE ThreadCall
  <2>1. /\ threadPc \in {"init", "looping"}
        /\ UNCHANGED <<threadPc, ownerPc, loop_, result, fault>>
    BY <1>7 DEF ThreadCall
  <2>2. UNCHANGED <<quit_, userQuit>> \/ userQuit' = TRUE
    BY <1>7 DEF ThreadCall, QueueInOwnLoop, RunInOwnLoop, flags
  <2>3. CASE UNCHANGED <<quit_, userQuit>>
    BY <2>1, <2>3
  <2>4. CASE userQuit' = TRUE
    BY <2>1, <2>4
  <2> QED
    BY <2>2, <2>3, <2>4
<1>8. CASE PollLoop(PollReady) \/ PollLoop(PollTimeout)
  BY <1>8 DEF PollLoop, PollReady, PollTimeout, PollReturn, threadVars
<1>9. CASE StartThread \/ ThreadStarted \/ SpuriousWakeup \/ JoinThread
  BY <1>9 DEF StartThread, ThreadStarted, SpuriousWakeup, JoinThread, vars
<1>10. CASE TestLoop
  BY <1>10 DEF TestLoop, seesLoop, vars
<1>11. CASE ReturnLoop
  BY <1>11 DEF ReturnLoop, vars
<1>12. CASE Destroy
  BY <1>12 DEF Destroy, vars
<1>13. CASE QuitThread
  BY <1>13 DEF QuitThread, Quit, vars
<1>14. ASSUME NEW t \in Threads, CallLoop(t)
       PROVE  ThreadInv'
  <2>1. /\ ownerPc = "using"
        /\ UNCHANGED <<threadPc, ownerPc, loop_, result>>
        /\ fault' = fault \/ threadPc = "ended"
    BY <1>14 DEF CallLoop, uses
  <2>2. UNCHANGED <<quit_, userQuit>> \/ userQuit' = TRUE
    BY <1>14 DEF CallLoop, QueueInLoop, flags
  <2>3. CASE UNCHANGED <<quit_, userQuit>>
    BY <2>1, <2>3
  <2>4. CASE userQuit' = TRUE
    BY <2>1, <2>4
  <2> QED
    BY <2>2, <2>3, <2>4
<1>15. ASSUME NEW t \in Threads, WakeLoop(t)
       PROVE  ThreadInv'
  BY <1>15 DEF WakeLoop, Wakeup, uses, flags
<1>16. CASE UNCHANGED allVars
  BY <1>16 DEF allVars, vars, threadVars
<1> QED
  BY <1>1, <1>2, <1>3, <1>4, <1>5, <1>6, <1>7, <1>8, <1>9, <1>10, <1>11,
     <1>12, <1>13, <1>14, <1>15, <1>16 DEF NextThread, LoopThread, OwnerStep

\* The invariant holds for any number of threads, users and functors.
THEOREM ThreadInvariance == SpecThread => []ThreadInv
<1>1. InitThread => ThreadInv
  BY DEF InitThread, Init, ThreadInv, ThreadTypes, Published,
         OnlyDestructorQuits, OwnerQuit, LoopOutlivesUse
<1>2. TypeOK /\ ThreadInv /\ [NextThread]_allVars => ThreadInv'
  BY ThreadInvStep
<1> QED
  BY <1>1, <1>2, ThreadedLoopSafety, PTL DEF SpecThread

\* As long as only the destructor ends the loop, startLoop() returns the
\* loop, ~EventLoopThread does not read a null loop_, and the only access to
\* a destroyed loop is the wakeup() of its own quit().
THEOREM LoopLifetimeSafety == SpecThread => []LoopOutlivesUse
<1>1. ThreadInv => LoopOutlivesUse
  BY DEF ThreadInv
<1> QED
  BY ThreadInvariance, <1>1, PTL
=============================================================================
