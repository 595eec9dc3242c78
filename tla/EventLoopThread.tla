-------------------------- MODULE EventLoopThread --------------------------
(***************************************************************************)
(* src/net/EventLoopThread.cc and src/base/Thread.cc composed with          *)
(* EventLoop: a loop lives either in the thread that made it (the base      *)
(* loop, used from main()) or on the stack of the thread that an            *)
(* EventLoopThread starts, publishes through loop_ and joins.               *)
(*                                                                          *)
(* threadPc is the thread that owns the loop object:                        *)
(*   main       the base loop: EventLoop's own specification, unchanged     *)
(*   unborn     thread_.start() not called, or the thread not yet run       *)
(*   init       in threadFunc(), loop constructed, callback_ running        *)
(*   published  loop_ stored and notified, loop() not entered yet           *)
(*   looping    inside loop.loop()                                          *)
(*   returned   loop() has returned                                         *)
(*   cleared    loop_ is null again, the loop object still alive            *)
(*   ended      threadFunc() has returned, the loop is destroyed            *)
(* ownerPc is the thread that holds the EventLoopThread:                    *)
(*   new, starting (sem_wait in start()), locking (about to test loop_),    *)
(*   waiting (in cond_.wait), returning (lock released, loop_ not re-read), *)
(*   using, quit (destructor saw loop_, about to use it), quitting (in      *)
(*   loop_->quit(), stored, not woken), joining, done, crashed              *)
(* The other threads get the loop once startLoop() has returned, and no     *)
(* longer use it when the destructor runs: that is the user's contract.     *)
(***************************************************************************)
EXTENDS EventLoop

CONSTANT Owner          \* the thread that holds the EventLoopThread
ASSUME OwnerAssumption == Owner \in Threads

VARIABLES
  threadPc, ownerPc,
  loop_,          \* is EventLoopThread::loop_ set
  result,         \* what startLoop() returned: "none" yet, "loop", "null"
  userQuit,       \* history: quit() by anyone but the destructor
  fault           \* first use of a null ("null") or destroyed loop: by
                  \* queueInLoop ("post") or by wakeup() alone ("wakeup")

threadVars == <<threadPc, ownerPc, loop_, result, userQuit, fault>>
allVars == <<vars, threadVars>>

InitThread ==
  /\ Init
  /\ \/ threadPc = "main" /\ ownerPc = "none"
     \/ threadPc = "unborn" /\ ownerPc = "new"
  /\ loop_ = FALSE /\ result = "none" /\ userQuit = FALSE /\ fault = "none"

\* A call on the loop object: it is still there, or this is the fault
uses(how) == fault' = IF fault = "none" /\ threadPc = "ended" THEN how
                                                              ELSE fault
-----------------------------------------------------------------------------
(* The base loop                                                            *)
InBase(step) == threadPc = "main" /\ step /\ UNCHANGED threadVars

BaseLoop == InBase(Next)
-----------------------------------------------------------------------------
(* threadFunc()                                                             *)

\* Thread::start(): the lambda runs, posts the semaphore and calls func_
ThreadBorn ==
  /\ threadPc = "unborn" /\ ownerPc = "starting"
  /\ threadPc' = "init"
  /\ UNCHANGED <<vars, ownerPc, loop_, result, userQuit, fault>>

\* Calls on the loop in its own thread: by the user's callback_, which runs
\* before loop(), or by callbacks and functors inside it
ThreadCall ==
  /\ threadPc \in {"init", "looping"}
  /\ \/ /\ \E f \in Functors : QueueInOwnLoop(f) \/ RunInOwnLoop(f)
        /\ UNCHANGED userQuit
     \/ QuitOwnLoop /\ userQuit' = TRUE
  /\ UNCHANGED <<threadPc, ownerPc, loop_, result, fault>>

publishQuietly == UNCHANGED ownerPc              \* mutant of notify

notify == ownerPc' = IF ownerPc = "waiting" THEN "locking" ELSE ownerPc

Publish ==
  /\ threadPc = "init"
  /\ threadPc' = "published"
  /\ loop_' = TRUE
  /\ notify
  /\ UNCHANGED <<vars, result, userQuit, fault>>

EnterLoop ==
  /\ threadPc = "published"
  /\ LoopEnter
  /\ threadPc' = "looping"
  /\ UNCHANGED <<ownerPc, loop_, result, userQuit, fault>>

TurnLoop ==
  /\ threadPc = "looping"
  /\ LoopStep
  /\ threadPc' = IF pc' = "idle" THEN "returned" ELSE "looping"
  /\ UNCHANGED <<ownerPc, loop_, result, userQuit, fault>>

PollLoop(poll) ==
  /\ threadPc = "looping"
  /\ poll
  /\ UNCHANGED threadVars

ClearLoop ==
  /\ threadPc = "returned"
  /\ threadPc' = "cleared"
  /\ loop_' = FALSE
  /\ UNCHANGED <<vars, ownerPc, result, userQuit, fault>>

\* The lock goes first, then ~EventLoop
EndThread ==
  /\ threadPc = "cleared"
  /\ threadPc' = "ended"
  /\ UNCHANGED <<vars, ownerPc, loop_, result, userQuit, fault>>
-----------------------------------------------------------------------------
(* startLoop(), in the owner's thread                                       *)

StartThread ==
  /\ ownerPc = "new"
  /\ ownerPc' = "starting"
  /\ UNCHANGED <<vars, threadPc, loop_, result, userQuit, fault>>

ThreadStarted ==
  /\ ownerPc = "starting" /\ threadPc # "unborn"
  /\ ownerPc' = "locking"
  /\ UNCHANGED <<vars, threadPc, loop_, result, userQuit, fault>>

neverWait == TRUE                                \* mutant of seesLoop

\* while (loop_ == nullptr), under mutex_
seesLoop == loop_

TestLoop ==
  /\ ownerPc = "locking"
  /\ ownerPc' = IF seesLoop THEN "returning" ELSE "waiting"
  /\ UNCHANGED <<vars, threadPc, loop_, result, userQuit, fault>>

SpuriousWakeup ==
  /\ ownerPc = "waiting"
  /\ ownerPc' = "locking"
  /\ UNCHANGED <<vars, threadPc, loop_, result, userQuit, fault>>

\* return loop_: the member again, without the lock
ReturnLoop ==
  /\ ownerPc = "returning"
  /\ result' = IF loop_ THEN "loop" ELSE "null"
  /\ ownerPc' = "using"
  /\ UNCHANGED <<vars, threadPc, loop_, userQuit, fault>>
-----------------------------------------------------------------------------
(* Everybody's use of the loop that startLoop() returned                    *)

CallLoop(t) ==
  /\ ownerPc = "using" /\ result = "loop"
  /\ \/ /\ \E f \in Functors : QueueInLoop(t, f)
        /\ UNCHANGED userQuit
     \/ /\ Quit(t)
        /\ userQuit' = TRUE
  /\ uses("post")
  /\ UNCHANGED <<threadPc, ownerPc, loop_, result>>

WakeLoop(t) ==
  /\ threadPc # "main"
  /\ Wakeup(t)
  /\ uses("wakeup")
  /\ ownerPc' = IF t = Owner /\ ownerPc = "quitting" THEN "joining" ELSE ownerPc
  /\ UNCHANGED <<threadPc, loop_, result, userQuit>>
-----------------------------------------------------------------------------
(* ~EventLoopThread()                                                       *)

\* if (loop_ != nullptr), without the lock
Destroy ==
  /\ ownerPc \in {"new", "using"} /\ waking = {}
  /\ ownerPc' = IF loop_ THEN "quit" ELSE "done"
  /\ UNCHANGED <<vars, threadPc, loop_, result, userQuit, fault>>

\* loop_->quit(), loop_ read again
QuitThread ==
  /\ ownerPc = "quit"
  /\ IF loop_ THEN Quit(Owner) /\ ownerPc' = "quitting" /\ UNCHANGED fault
              ELSE UNCHANGED vars /\ ownerPc' = "crashed" /\ fault' = "null"
  /\ UNCHANGED <<threadPc, loop_, result, userQuit>>

JoinThread ==
  /\ ownerPc = "joining" /\ threadPc = "ended"
  /\ ownerPc' = "done"
  /\ UNCHANGED <<vars, threadPc, loop_, result, userQuit, fault>>
-----------------------------------------------------------------------------
LoopThread == \/ ThreadBorn \/ Publish \/ EnterLoop \/ TurnLoop \/ ClearLoop
              \/ EndThread
OwnerStep == ThreadStarted \/ TestLoop \/ ReturnLoop \/ QuitThread \/ JoinThread

NextThread ==
  \/ BaseLoop \/ LoopThread \/ ThreadCall
  \/ PollLoop(PollReady) \/ PollLoop(PollTimeout)
  \/ StartThread \/ OwnerStep \/ SpuriousWakeup \/ Destroy
  \/ \E t \in Threads : CallLoop(t) \/ WakeLoop(t)

(* As in EventLoop: threads that are running go on, epoll_wait returns      *)
(* while the eventfd is readable, the user's callback_ returns.  Nobody     *)
(* has to start, to call or to destroy anything, and neither the poll       *)
(* timeout nor a spurious wakeup is counted on.                             *)
ThreadFairness ==
  /\ WF_allVars(InBase(LoopStep))
  /\ WF_allVars(InBase(wakeupFd_ > 0 /\ PollReady))
  /\ \A t \in Threads : WF_allVars(InBase(Wakeup(t))) /\ WF_allVars(WakeLoop(t))
  /\ WF_allVars(LoopThread) /\ WF_allVars(OwnerStep)
  /\ WF_allVars(PollLoop(wakeupFd_ > 0 /\ PollReady))

SpecThread == InitThread /\ [][NextThread]_allVars /\ ThreadFairness
-----------------------------------------------------------------------------
(* Properties                                                               *)

\* startLoop() comes back with the loop whatever the order in which the new
\* thread publishes it and the owner looks for it.  Only a loop that was told
\* to quit from its own thread before that can leave it waiting, or return
\* null because loop_ is read again after the lock is gone.
StartLoopReturns == ownerPc = "starting" ~> (result = "loop" \/ userQuit)

\* A quit() that comes after loop() has reset quit_ ends loop(), and the one
\* of ~EventLoopThread ends the join.  (A destructor that runs while the
\* thread is between publishing loop_ and that reset waits for ever.)
JoinReturns ==
  /\ QuitStopsLoop
  /\ (ownerPc = "joining" /\ Running /\ quit_) ~> ownerPc = "done"

\* As long as only the destructor ends the loop, nobody is given a null loop
\* and nobody uses a destroyed one, but for one access: the thread may end
\* between the store and the wakeup() of the destructor's quit().
LoopOutlivesUse ==
  ~userQuit => result # "null" /\ fault \in {"none", "wakeup"}
=============================================================================
