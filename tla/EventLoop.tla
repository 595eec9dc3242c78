----------------------------- MODULE EventLoop -----------------------------
(***************************************************************************)
(* src/net/EventLoop.{h,cc}: one event loop, the thread that runs it and    *)
(* the other threads that post callbacks to it or ask it to quit.           *)
(*                                                                          *)
(* The loop thread turns loop(): poll, handle the active channels, run the  *)
(* pending functors.  Other threads only touch pendingFunctors_ (under      *)
(* mutex_), quit_ (atomic) and the wakeup eventfd, and they do so in two    *)
(* steps that anything may come between: first the store, then wakeup().    *)
(*                                                                          *)
(* pc is where the loop thread is:                                          *)
(*   idle      not inside loop(): before the first call or after a return   *)
(*   starting  in loop(), between looping_ = true and quit_ = false         *)
(*   check     at the while (!quit_) test                                   *)
(*   poll      blocked in epoll_wait                                        *)
(*   events    between two channels of activeChannels_                      *)
(*   callback  inside the callback of a user's channel                      *)
(*   calling   doPendingFunctors(), flag set, before the swap               *)
(*   functors  between two functors of the swapped batch                    *)
(*   functor   inside a functor                                             *)
(***************************************************************************)
EXTENDS Naturals, Sequences, SequencesExt

CONSTANTS Threads,      \* the threads other than the loop's own
          Functors,     \* the callbacks that are posted, each at most once
          Channels,     \* the user's channels (sockets, the timerfd)
          WakeupChannel,\* wakeupChannel_
          EventFdMax    \* largest value an eventfd counter holds

ASSUME ChannelsAssumption == WakeupChannel \notin Channels
ASSUME EventFdAssumption == EventFdMax \in Nat \ {0}

VARIABLES
  pc,                      \* the loop thread's program counter
  looping_, quit_, eventHandling_, callingPendingFunctors_,
  activeChannels_,         \* channels of this turn still to be handled
  pendingFunctors_,        \* guarded by mutex_
  functors,                \* doPendingFunctors(): rest of the swapped batch
  wakeupFd_,               \* the eventfd's counter
  waking,                  \* other threads between their store and wakeup()
  posted,                  \* history: queueInLoop() calls in mutex_ order
  ran,                     \* history: functors invoked, in order
  inlined,                 \* history: callbacks runInLoop() ran on the spot
  early                    \* history: pending functors that the loop thread
                           \* posted outside loop()

vars == <<pc, looping_, quit_, eventHandling_, callingPendingFunctors_,
          activeChannels_, pendingFunctors_, functors, wakeupFd_, waking,
          posted, ran, inlined, early>>

flags == <<looping_, quit_, eventHandling_, callingPendingFunctors_>>
history == <<posted, ran, inlined, early>>

Locations == {"idle", "starting", "check", "poll", "events", "callback",
              "calling", "functors", "functor"}

\* Code of the user's, run by the loop thread: before loop() is called or
\* after it returned, in a channel's callback, or in a functor.
InUserCode == pc \in {"idle", "callback", "functor"}

Running == pc \notin {"idle", "starting"}

Unused == Functors \ (Range(posted) \cup inlined)
-----------------------------------------------------------------------------
(* The eventfd.  A write of 1 that would take the counter past its maximum  *)
(* fails with EAGAIN and wakeup() only logs it; a read empties it.          *)
wakeup == wakeupFd_' = IF wakeupFd_ < EventFdMax THEN wakeupFd_ + 1
                                                 ELSE wakeupFd_

handleRead == wakeupFd_' = 0

(* pendingFunctors_, touched only under mutex_.                             *)
pushFront(f) == /\ pendingFunctors_' = <<f>> \o pendingFunctors_
                /\ posted' = Append(posted, f)         \* mutant of push

push(f) == /\ pendingFunctors_' = Append(pendingFunctors_, f)
           /\ posted' = Append(posted, f)

copy == /\ functors' = pendingFunctors_                \* mutant of swap
        /\ UNCHANGED pendingFunctors_

swap == /\ functors' = pendingFunctors_
        /\ pendingFunctors_' = <<>>

(* The constructor: flags false, wakeupChannel_ registered for reading.     *)
Init ==
  /\ pc = "idle"
  /\ looping_ = FALSE /\ quit_ = FALSE
  /\ eventHandling_ = FALSE /\ callingPendingFunctors_ = FALSE
  /\ activeChannels_ = {}
  /\ pendingFunctors_ = <<>> /\ functors = <<>>
  /\ wakeupFd_ = 0
  /\ waking = {}
  /\ posted = <<>> /\ ran = <<>> /\ inlined = {} /\ early = {}
-----------------------------------------------------------------------------
(* loop()                                                                   *)

LoopEnter ==
  /\ pc = "idle"
  /\ pc' = "starting"
  /\ looping_' = TRUE
  /\ UNCHANGED <<quit_, eventHandling_, callingPendingFunctors_,
                 activeChannels_, pendingFunctors_, functors, wakeupFd_,
                 waking, history>>

LoopStart ==
  /\ pc = "starting"
  /\ pc' = "check"
  /\ quit_' = FALSE
  /\ UNCHANGED <<looping_, eventHandling_, callingPendingFunctors_,
                 activeChannels_, pendingFunctors_, functors, wakeupFd_,
                 waking, history>>

\* mutant of LoopTurn: quit_ is not tested
LoopTurnAlways ==
  /\ pc = "check"
  /\ pc' = "poll"
  /\ activeChannels_' = {}
  /\ UNCHANGED <<flags, pendingFunctors_, functors, wakeupFd_, waking,
                 history>>

\* while (!quit_): another turn, which starts by clearing activeChannels_
LoopTurn ==
  /\ pc = "check"
  /\ ~quit_
  /\ pc' = "poll"
  /\ activeChannels_' = {}
  /\ UNCHANGED <<flags, pendingFunctors_, functors, wakeupFd_, waking,
                 history>>

LoopExit ==
  /\ pc = "check"
  /\ quit_
  /\ pc' = "idle"
  /\ looping_' = FALSE
  /\ UNCHANGED <<quit_, eventHandling_, callingPendingFunctors_,
                 activeChannels_, pendingFunctors_, functors, wakeupFd_,
                 waking, history>>

\* The channels epoll_wait would report now.  A user's channel may become
\* readable or writable at any time; wakeupChannel_ is level-triggered.
Reported(users) == users \cup (IF wakeupFd_ > 0 THEN {WakeupChannel} ELSE {})

\* Poller::poll() comes back with the set active of channels.  The empty set
\* is its timeout (kPollTimeMs) or a signal: both just return.
PollReturn(active) ==
  /\ pc = "poll"
  /\ pc' = "events"
  /\ activeChannels_' = active
  /\ eventHandling_' = TRUE
  /\ UNCHANGED <<looping_, quit_, callingPendingFunctors_, pendingFunctors_,
                 functors, wakeupFd_, waking, history>>

PollReady == \E users \in SUBSET Channels :
               /\ Reported(users) # {}
               /\ PollReturn(Reported(users))

PollTimeout == wakeupFd_ = 0 /\ PollReturn({})

\* handleEvent() of wakeupChannel_: EventLoop::handleRead()
HandleWakeup ==
  /\ pc = "events"
  /\ WakeupChannel \in activeChannels_
  /\ activeChannels_' = activeChannels_ \ {WakeupChannel}
  /\ handleRead
  /\ UNCHANGED <<pc, flags, pendingFunctors_, functors, waking, history>>

\* handleEvent() of a user's channel: enter its callback.  epoll reports the
\* channels in no order the program may rely on.
HandleEvent(c) ==
  /\ pc = "events"
  /\ c \in activeChannels_ \ {WakeupChannel}
  /\ activeChannels_' = activeChannels_ \ {c}
  /\ pc' = "callback"
  /\ UNCHANGED <<flags, pendingFunctors_, functors, wakeupFd_, waking,
                 history>>

CallbackReturns ==
  /\ pc = "callback"
  /\ pc' = "events"
  /\ UNCHANGED <<flags, activeChannels_, pendingFunctors_, functors,
                 wakeupFd_, waking, history>>

\* All channels handled: doPendingFunctors() announces itself first ...
EventsHandled ==
  /\ pc = "events"
  /\ activeChannels_ = {}
  /\ pc' = "calling"
  /\ eventHandling_' = FALSE
  /\ callingPendingFunctors_' = TRUE
  /\ UNCHANGED <<looping_, quit_, activeChannels_, pendingFunctors_, functors,
                 wakeupFd_, waking, history>>

\* ... then takes the whole vector in one critical section of mutex_ ...
SwapFunctors ==
  /\ pc = "calling"
  /\ pc' = "functors"
  /\ swap
  /\ early' = {}
  /\ UNCHANGED <<flags, activeChannels_, wakeupFd_, waking, posted, ran,
                 inlined>>

\* ... and calls the functors outside it.
RunFunctor ==
  /\ pc = "functors"
  /\ functors # <<>>
  /\ pc' = "functor"
  /\ functors' = Tail(functors)
  /\ ran' = Append(ran, Head(functors))
  /\ UNCHANGED <<flags, activeChannels_, pendingFunctors_, wakeupFd_, waking,
                 posted, inlined, early>>

FunctorReturns ==
  /\ pc = "functor"
  /\ pc' = "functors"
  /\ UNCHANGED <<flags, activeChannels_, pendingFunctors_, functors,
                 wakeupFd_, waking, history>>

\* mutant of FunctorsDone: callingPendingFunctors_ is not reset
FunctorsDoneFlagKept ==
  /\ pc = "functors"
  /\ functors = <<>>
  /\ pc' = "check"
  /\ UNCHANGED <<flags, activeChannels_, pendingFunctors_, functors,
                 wakeupFd_, waking, history>>

FunctorsDone ==
  /\ pc = "functors"
  /\ functors = <<>>
  /\ pc' = "check"
  /\ callingPendingFunctors_' = FALSE
  /\ UNCHANGED <<looping_, quit_, eventHandling_, activeChannels_,
                 pendingFunctors_, functors, wakeupFd_, waking, history>>
-----------------------------------------------------------------------------
(* Calls of the loop thread itself, from the user's code.  Nothing but this *)
(* thread reads what these calls write before its next poll, so each is one *)
(* step.                                                                    *)

\* queueInLoop() tests callingPendingFunctors_ when isInLoopThread(): only a
\* functor's post, which comes after the swap, needs the next poll woken
OwnPostNeverWakes == FALSE                      \* mutant of OwnPostWakes

OwnPostWakes == callingPendingFunctors_

QueueInOwnLoop(f) ==
  /\ InUserCode
  /\ f \in Unused
  /\ push(f)
  /\ IF OwnPostWakes THEN wakeup ELSE UNCHANGED wakeupFd_
  /\ early' = IF pc = "idle" THEN early \cup {f} ELSE early
  /\ UNCHANGED <<pc, flags, activeChannels_, functors, waking, ran, inlined>>

\* runInLoop() when isInLoopThread(): cb() on the spot, past the queue
RunInOwnLoop(f) ==
  /\ InUserCode
  /\ f \in Unused
  /\ inlined' = inlined \cup {f}
  /\ UNCHANGED <<pc, flags, activeChannels_, pendingFunctors_, functors,
                 wakeupFd_, waking, posted, ran, early>>

\* quit() when isInLoopThread(): the flag alone
QuitOwnLoop ==
  /\ InUserCode
  /\ quit_' = TRUE
  /\ UNCHANGED <<pc, looping_, eventHandling_, callingPendingFunctors_,
                 activeChannels_, pendingFunctors_, functors, wakeupFd_,
                 waking, history>>
-----------------------------------------------------------------------------
(* Calls of another thread t.                                               *)

\* mutant of QueueInLoop: no wakeup while the loop runs its functors
QueueInLoopQuietly(t, f) ==
  /\ t \notin waking
  /\ f \in Unused
  /\ push(f)
  /\ waking' = IF callingPendingFunctors_ THEN waking ELSE waking \cup {t}
  /\ UNCHANGED <<pc, flags, activeChannels_, functors, wakeupFd_, ran,
                 inlined, early>>

\* queueInLoop(), and runInLoop() which forwards to it: the critical section
QueueInLoop(t, f) ==
  /\ t \notin waking
  /\ f \in Unused
  /\ push(f)
  /\ waking' = waking \cup {t}
  /\ UNCHANGED <<pc, flags, activeChannels_, functors, wakeupFd_, ran,
                 inlined, early>>

\* mutant of Quit: the flag alone, as in the loop's own thread
QuitQuietly(t) ==
  /\ t \notin waking
  /\ quit_' = TRUE
  /\ UNCHANGED <<pc, looping_, eventHandling_, callingPendingFunctors_,
                 activeChannels_, pendingFunctors_, functors, wakeupFd_,
                 waking, history>>

\* quit(): the store
Quit(t) ==
  /\ t \notin waking
  /\ quit_' = TRUE
  /\ waking' = waking \cup {t}
  /\ UNCHANGED <<pc, looping_, eventHandling_, callingPendingFunctors_,
                 activeChannels_, pendingFunctors_, functors, wakeupFd_,
                 history>>

\* the wakeup() both end with
Wakeup(t) ==
  /\ t \in waking
  /\ waking' = waking \ {t}
  /\ wakeup
  /\ UNCHANGED <<pc, flags, activeChannels_, pendingFunctors_, functors,
                 history>>
-----------------------------------------------------------------------------
OwnCall == \/ \E f \in Functors : QueueInOwnLoop(f) \/ RunInOwnLoop(f)
           \/ QuitOwnLoop

\* The steps of loop() other than a poll that finds nothing to report
LoopStep ==
  \/ LoopStart \/ LoopTurn \/ LoopExit \/ HandleWakeup
  \/ \E c \in Channels : HandleEvent(c)
  \/ CallbackReturns \/ EventsHandled \/ SwapFunctors \/ RunFunctor
  \/ FunctorReturns \/ FunctorsDone

ThreadStep(t) == (\E f \in Functors : QueueInLoop(t, f)) \/ Quit(t) \/ Wakeup(t)

Next == \/ LoopEnter \/ LoopStep \/ PollReady \/ PollTimeout \/ OwnCall
        \/ \E t \in Threads : ThreadStep(t)

Spec == Init /\ [][Next]_vars

(* The loop thread keeps running, epoll_wait returns while the eventfd is    *)
(* readable, and a thread that stored goes on to its wakeup().  Nothing is   *)
(* assumed of the poll timeout, of the users' channels, or of anybody        *)
(* calling anything.                                                         *)
Fairness == /\ WF_vars(LoopStep)
            /\ WF_vars(wakeupFd_ > 0 /\ PollReady)
            /\ \A t \in Threads : WF_vars(Wakeup(t))

FairSpec == Spec /\ Fairness
-----------------------------------------------------------------------------
(* Properties                                                               *)

Types ==
  /\ pc \in Locations
  /\ looping_ \in BOOLEAN /\ quit_ \in BOOLEAN
  /\ eventHandling_ \in BOOLEAN /\ callingPendingFunctors_ \in BOOLEAN
  /\ activeChannels_ \subseteq Channels \cup {WakeupChannel}
  /\ pendingFunctors_ \in Seq(Functors) /\ functors \in Seq(Functors)
  /\ wakeupFd_ \in 0..EventFdMax
  /\ waking \subseteq Threads
  /\ posted \in Seq(Functors) /\ ran \in Seq(Functors)
  /\ inlined \subseteq Functors /\ early \subseteq Functors

Position ==
  /\ looping_ <=> pc # "idle"
  /\ eventHandling_ <=> pc \in {"events", "callback"}
  /\ callingPendingFunctors_ <=> pc \in {"calling", "functors", "functor"}
  /\ pc \notin {"functors", "functor"} => functors = <<>>

\* Types, and the flags follow the loop thread's position over any number of
\* turns and calls of loop(): assert(!looping_) holds whenever loop() is
\* called, removeChannel() looks at activeChannels_ exactly while they are
\* handled, queueInLoop() sees callingPendingFunctors_ exactly from before
\* the swap until the last functor returned, and no batch is left behind.
TypeOK == Types /\ Position

Signalled == wakeupFd_ > 0 \/ waking # {}

\* queueInLoop() loses nothing, duplicates nothing and reorders nothing, over
\* any number of swaps, restarts of loop() and posts from any thread or from
\* a functor: what was posted is what ran, then the rest of the batch, then
\* pendingFunctors_.
NothingLost == posted = ran \o functors \o pendingFunctors_

\* No lost wakeup: the loop never sits in poll() on a functor posted by
\* another thread or by a functor unless the eventfd is readable or about to
\* be written.  (A functor the loop thread queued before calling loop() is
\* not covered: it waits for the first poll to return, kPollTimeMs at worst.)
NoLostWakeup ==
  pc = "poll" /\ ~(Range(pendingFunctors_) \subseteq early) => Signalled

\* The same for quit(): a loop blocked in poll() with quit_ set is woken.
NoLostQuit == pc = "poll" /\ quit_ => Signalled

\* Every functor that another thread or a functor posts to a running loop is
\* executed, without help from the poll timeout, unless the loop is told to
\* quit; and one that is pending before the swap of a turn is executed even
\* then: quit() drops only what is posted after the last swap.
BeforeSwap == pc \in {"poll", "events", "callback", "calling"}
PostedRuns ==
  \A f \in Functors :
    /\ (Running /\ f \in Range(pendingFunctors_) \ early)
         ~> (f \in Range(ran) \/ quit_)
    /\ (BeforeSwap /\ f \in Range(pendingFunctors_) \ early)
         ~> f \in Range(ran)

\* quit() of any thread, once loop() has reset the flag, makes loop() return.
QuitStopsLoop == (Running /\ quit_) ~> ~looping_

\* The loop is a serial executor of what is posted to it.
Executor == INSTANCE TaskQueue WITH todo <- functors \o pendingFunctors_,
                                    done <- ran
SerialExecutor == Executor!Spec
=============================================================================
