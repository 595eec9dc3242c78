----------------------------- MODULE Connector -----------------------------
(***************************************************************************)
(* src/net/Connector.cc: one outgoing connection attempt at a time, retried *)
(* from a timer with a doubling delay, started and stopped by any thread.   *)
(* TcpClient composes it with the connection it makes.                      *)
(*                                                                          *)
(* The loop that runs it takes turns: the event of one poll, then the       *)
(* functors that were pending at the swap; phase says where it is.  What    *)
(* is posted during the functors waits for the next turn.                   *)
(*                                                                          *)
(* Operators named after the code's functions are what these functions do;  *)
(* timers and posted are the retry timers and the functors as the caller    *)
(* leaves them.  fault says how the process came to grief: a failed assert, *)
(* a null channel_, a Channel destroyed while the poller holds it           *)
(* ("dangling") or a functor on a freed object ("uaf").                     *)
(***************************************************************************)
EXTENDS Integers, Sequences, SequencesExt

CONSTANTS
  MaxSock,              \* bound: descriptors are 1..MaxSock
  kInitRetryDelayMs, kMaxRetryDelayMs,
  Asserts               \* is the build one with assert()

ASSUME DelayAssumption ==
  /\ kInitRetryDelayMs \in Nat \ {0} /\ kMaxRetryDelayMs \in Nat
  /\ kInitRetryDelayMs <= kMaxRetryDelayMs
ASSUME BuildAssumption == Asserts \in BOOLEAN
ASSUME SockAssumption == MaxSock \in Nat

VARIABLES
  connect_, state_, retryDelayMs_,
  channel_,             \* descriptor of the Channel, None when null
  attached,             \* is that Channel in the poller
  timers,               \* pending runAfter(startInLoop) timers
  open,                 \* descriptors that are open
  pendingFunctors_, functors, phase,   \* the loop
  clientAlive,          \* the client and its reference to the connector
  goal,                 \* history: what the caller wants and how it went
  fault

connector == <<connect_, state_, retryDelayMs_, channel_, attached, timers>>
loop == <<pendingFunctors_, functors, phase>>

None == 0
Socks == 1..MaxSock

InitConnector ==
  /\ connect_ = FALSE /\ state_ = "kDisconnected"
  /\ retryDelayMs_ = kInitRetryDelayMs
  /\ channel_ = None /\ attached = FALSE /\ timers = 0
  /\ open = {}
  /\ pendingFunctors_ = <<>> /\ functors = <<>> /\ phase = "poll"
  /\ clientAlive = TRUE /\ goal = "none" /\ fault = "none"
-----------------------------------------------------------------------------
dies(how) == fault' = how
lives == fault' = fault

\* socket(2) gives the lowest free descriptor
newSock == CHOOSE s \in Socks \ open : \A r \in Socks \ open : s <= r

nextDelay(delay) == IF delay * 2 < kMaxRetryDelayMs THEN delay * 2
                                                    ELSE kMaxRetryDelayMs

neverRetry == FALSE                              \* mutant of mayRetry

mayRetry == connect_

\* The end of retry(): a timer, unless stopped meanwhile
rearm(left, delay) ==
  /\ timers' = IF mayRetry THEN left + 1 ELSE left
  /\ retryDelayMs_' = IF mayRetry THEN nextDelay(delay) ELSE delay

leaveOpen(s) == open' = open                     \* mutant of closeSock

closeSock(s) == open' = open \ {s}

retry(s) ==
  /\ closeSock(s)
  /\ state_' = "kDisconnected"
  /\ rearm(timers, retryDelayMs_)

\* connecting(sockfd): a new Channel, where there must be none.  Called by
\* the timer that holds the last reference, it is freed with the connector.
connecting(left, delay) ==
  /\ open # Socks                       \* bound: a descriptor is free
  /\ open' = open \cup {newSock}
  /\ state_' = "kConnecting"
  /\ channel_' = newSock /\ attached' = TRUE
  /\ timers' = left /\ retryDelayMs_' = delay
  /\ LET last == ~clientAlive /\ left = 0
     IN CASE Asserts /\ (channel_ # None \/ last) -> dies("assert")
          [] ~Asserts /\ (attached \/ last) -> dies("dangling")
          [] OTHER -> lives
  /\ UNCHANGED goal

\* connect(): under way; refused, so closed and retried; or closed for good
connect(left, state, delay) ==
  \/ connecting(left, delay)
  \/ /\ state_' = "kDisconnected" /\ rearm(left, delay)
     /\ lives /\ UNCHANGED <<open, channel_, attached, goal>>
  \/ /\ state_' = state /\ timers' = left /\ retryDelayMs_' = delay
     /\ goal' = IF goal = "wanted" THEN "gaveUp" ELSE goal
     /\ lives /\ UNCHANGED <<open, channel_, attached>>

startInLoop(left, state, delay) ==
  IF connect_
    THEN connect(left, state, delay)
    ELSE /\ state_' = state /\ timers' = left /\ retryDelayMs_' = delay
         /\ lives /\ UNCHANGED <<open, channel_, attached, goal>>

restart == startInLoop(timers, "kConnecting", kInitRetryDelayMs)

\* removeAndResetChannel(): out of the poller now, destroyed by a functor.
removeAndResetChannel(posted) ==
  /\ attached' = FALSE
  /\ pendingFunctors_' = Append(posted, <<"resetChannel">>)

resetChannel ==
  /\ channel_' = None /\ attached' = FALSE
  /\ IF attached THEN dies("dangling") ELSE lives

stopAnyway == TRUE                               \* mutant of stoppable

stoppable == state_ = "kConnecting"

\* With channel_ null there is nothing to remove
stopInLoop ==
  IF stoppable /\ channel_ # None
    THEN removeAndResetChannel(pendingFunctors_) /\ retry(channel_) /\ lives
    ELSE /\ IF stoppable THEN dies("null") ELSE lives
         /\ UNCHANGED <<state_, retryDelayMs_, attached, timers, open,
                        pendingFunctors_>>
-----------------------------------------------------------------------------
(* The poller reports the descriptor: handleEvent() calls handleError() on  *)
(* POLLERR and then handleWrite() on POLLOUT.                               *)

attempt == phase = "poll" /\ attached /\ state_ = "kConnecting"

writeActsAlways(state) == TRUE                   \* mutant of writeActs

\* handleWrite() after handleError(), which leaves state_ kDisconnected
writeActs(state) == state = "kConnecting"

\* EventLoop::removeChannel() asserts that the channel is not one of those
\* this poll reported, which inside handleEvent() it is.
removeInEvent == IF Asserts THEN dies("assert") ELSE lives

\* SO_ERROR is set, or the socket is connected to itself
AttemptFails ==
  /\ attempt
  /\ removeInEvent /\ removeAndResetChannel(pendingFunctors_)
  /\ closeSock(channel_)
  /\ state_' = "kDisconnected"
  /\ IF writeActs("kDisconnected")
       THEN rearm(timers + 1, nextDelay(retryDelayMs_))
       ELSE rearm(timers, retryDelayMs_)
  /\ phase' = "swap"
  /\ UNCHANGED <<connect_, channel_, functors, goal>>

\* Connected: what becomes of the descriptor is for TcpClient to say
AttemptSucceeds ==
  /\ attempt
  /\ removeAndResetChannel(pendingFunctors_)
  /\ state_' = "kConnected"
  /\ phase' = "swap"
  /\ UNCHANGED <<connect_, channel_, retryDelayMs_, timers, functors>>

\* A retry timer expires
RetryTimer ==
  /\ phase = "poll" /\ timers > 0
  /\ startInLoop(timers - 1, state_, retryDelayMs_)
  /\ phase' = "swap"
  /\ UNCHANGED <<connect_, pendingFunctors_, functors>>
-----------------------------------------------------------------------------
(* The loop's turn                                                          *)

SwapFunctors ==
  /\ phase = "swap" \/ (phase = "poll" /\ pendingFunctors_ # <<>>)
  /\ functors' = pendingFunctors_ /\ pendingFunctors_' = <<>>
  /\ phase' = "functors"
  /\ UNCHANGED <<connector, open, goal, fault>>

FunctorsDone ==
  /\ phase = "functors" /\ functors = <<>>
  /\ phase' = "poll"
  /\ UNCHANGED <<connector, open, pendingFunctors_, functors, goal, fault>>

runs(name) == /\ phase = "functors" /\ functors # <<>>
              /\ Head(functors)[1] = name
              /\ functors' = Tail(functors)

StartFunctor ==
  /\ runs("startInLoop")
  /\ startInLoop(timers, state_, retryDelayMs_)
  /\ UNCHANGED <<connect_, pendingFunctors_, phase>>

StopFunctor ==
  /\ runs("stopInLoop")
  /\ stopInLoop
  /\ UNCHANGED <<connect_, channel_, phase, goal>>

ResetFunctor ==
  /\ runs("resetChannel")
  /\ resetChannel
  /\ UNCHANGED <<connect_, state_, retryDelayMs_, timers, open,
                 pendingFunctors_, phase, goal>>
=============================================================================
