----------------------------- MODULE TcpClient -----------------------------
(***************************************************************************)
(* src/net/TcpClient.cc over Connector: a client that connects, reconnects  *)
(* when its connection is lost, and may be told to disconnect or stop by    *)
(* its loop's thread or by another one, or be destroyed.                    *)
(*                                                                          *)
(* A TcpConnection is what the client sees of it (TcpConnection.tla has the *)
(* rest): up, shut down, down and waiting for connectDestroyed, or forced   *)
(* closed by ~TcpClient; it is named by its descriptor, which its Socket    *)
(* closes.  The user thread's calls are one step per store, lock or post.   *)
(* Phases of the loop beyond Connector's: "start" and "restart", inside     *)
(* connect() and removeConnection() of the loop's own thread.               *)
(***************************************************************************)
EXTENDS Connector, FiniteSets

CONSTANT MaxCalls       \* bound: calls of connect, disconnect and stop
ASSUME CallsAssumption == MaxCalls \in Nat

VARIABLES
  clientConnect_,       \* TcpClient::connect_
  retry_,
  connection_,          \* guarded by mutex_; a descriptor or None
  connState,            \* the TcpConnection on each descriptor
  userPc,               \* the user thread: <<"idle">> or <<call, where>>
  calls,                \* calls made so far
  overlap               \* history: connect() while an earlier call, an attempt,
                        \* a retry or a connection was there, or stop() of one
                        \* thread inside a call of another

client == <<clientConnect_, retry_, connection_, connState, clientAlive>>
user == <<userPc, calls>>
vars == <<connector, open, loop, goal, fault, client, user, overlap>>

Calls == {"connect", "disconnect", "stop"}
Live == {s \in Socks : connState[s] \in {"up", "shut"}}
Busy == \/ channel_ # None \/ timers > 0 \/ phase = "start"
        \/ \E s \in Socks : connState[s] # "none"
        \/ pendingFunctors_ # <<>> \/ functors # <<>> \/ userPc # <<"idle">>

\* connector_ goes with the client, unless a retry timer shares it
ConnectorFreed == ~clientAlive /\ timers = 0

\* connect_ and retry_ are not initialised
Init ==
  /\ InitConnector
  /\ clientConnect_ \in BOOLEAN /\ retry_ \in BOOLEAN
  /\ connection_ = None /\ connState = [s \in Socks |-> "none"]
  /\ userPc = <<"idle">> /\ calls = 0
  /\ overlap = FALSE

Running == fault = "none"
-----------------------------------------------------------------------------
(* Connector's steps, with what they call in TcpClient                      *)

\* connection_ drops a connection that is not s; if nobody keeps it, it is
\* freed with its Channel registered and its socket is closed.
dropped(s, kept) == IF connection_ \in {None, s} \/ kept
                      THEN {} ELSE {connection_}

freed(lost, s, state) ==
  [c \in Socks |-> IF c = s THEN state ELSE IF c \in lost THEN "none"
                                                         ELSE connState[c]]

newConnection(s, kept) ==
  /\ connection_' = s
  /\ connState' = freed(dropped(s, kept), s, "up")
  /\ open' = open \ dropped(s, kept)
  /\ goal' = IF goal = "wanted" THEN "reached" ELSE goal
  /\ removeInEvent
  /\ UNCHANGED <<clientConnect_, retry_, clientAlive>>

\* newConnectionCallback_ takes the descriptor unless stop() came meanwhile
Connected(kept) ==
  /\ AttemptSucceeds
  /\ CASE ~connect_ -> /\ closeSock(channel_) /\ removeInEvent
                       /\ UNCHANGED <<client, goal>>
       [] connect_ /\ clientAlive -> newConnection(channel_, kept)
       [] OTHER -> /\ dies(IF Asserts THEN "assert" ELSE "uaf")
                   /\ UNCHANGED <<open, client, goal>>
  /\ UNCHANGED <<user, overlap>>

Failed == AttemptFails /\ UNCHANGED <<client, user, overlap>>

RetryExpires == RetryTimer /\ UNCHANGED <<client, user, overlap>>

\* A functor of the connector's, bound to this
ConnectorFunctor ==
  /\ IF ConnectorFreed
       THEN /\ runs("startInLoop") \/ runs("stopInLoop") \/ runs("resetChannel")
            /\ dies("uaf")
            /\ UNCHANGED <<connector, open, pendingFunctors_, phase, goal>>
       ELSE StartFunctor \/ StopFunctor \/ ResetFunctor
  /\ UNCHANGED <<client, user, overlap>>

Turn == (SwapFunctors \/ FunctorsDone) /\ UNCHANGED <<client, user, overlap>>
-----------------------------------------------------------------------------
(* The connection                                                           *)

postDestroyed(s) ==
  pendingFunctors_' = Append(pendingFunctors_, <<"connectDestroyed", s>>)

reconnects == retry_ /\ clientConnect_

\* handleClose() and closeCallback_: removeConnection() of the client, which
\* ~TcpClient replaces, for its connection_ alone, by detail::removeConnection
ConnectionCloses(s, kept) ==
  LET lost == IF clientAlive THEN dropped(s, kept) ELSE {}
  IN /\ phase = "poll" /\ s \in Live
     /\ connState' = freed(lost, s, "down") /\ open' = open \ lost
     /\ postDestroyed(s)
     /\ IF clientAlive /\ reconnects
          THEN phase' = "restart" /\ goal' = "wanted"
          ELSE phase' = "swap" /\ UNCHANGED goal
     /\ connection_' = IF clientAlive THEN None ELSE connection_
     /\ CASE ~clientAlive /\ connection_ # s -> dies("uaf")
          [] lost # {} /\ Asserts -> dies("assert")
          [] OTHER -> lives
     /\ UNCHANGED <<connector, functors, clientConnect_, retry_, clientAlive,
                    user, overlap>>

\* ... which may go on to restart the connector
Restart ==
  /\ phase = "restart"
  /\ restart
  /\ phase' = "swap"
  /\ UNCHANGED <<connect_, pendingFunctors_, functors, client, user, overlap>>

\* connectDestroyed() drops the last reference; so does forceCloseInLoop(),
\* which finds kDisconnected and does nothing, its Channel still registered
ConnectionFreed ==
  /\ runs("connectDestroyed") \/ runs("forceCloseInLoop")
  /\ LET s == Head(functors)[2]
     IN /\ connState' = [connState EXCEPT ![s] = "none"]
        /\ closeSock(s)
        /\ IF Asserts /\ connState[s] = "forced" THEN dies("assert") ELSE lives
  /\ UNCHANGED <<connector, pendingFunctors_, phase, goal, clientConnect_,
                 retry_, connection_, clientAlive, user, overlap>>

shutdown == connState' = IF connection_ = None \/ connState[connection_] # "up"
                           THEN connState
                           ELSE [connState EXCEPT ![connection_] = "shut"]
-----------------------------------------------------------------------------
(* Calls from the loop's thread                                             *)

notes(mixed) == overlap' = (overlap \/ mixed)

mayCall == phase = "poll" /\ clientAlive /\ calls < MaxCalls

\* connect(): both flags, then startInLoop() on the spot
LoopConnect ==
  /\ mayCall /\ calls' = calls + 1
  /\ clientConnect_' = TRUE /\ connect_' = TRUE
  /\ goal' = "wanted" /\ notes(Busy)
  /\ phase' = "start"
  /\ UNCHANGED <<state_, retryDelayMs_, channel_, attached, timers, open,
                 pendingFunctors_, functors, fault, retry_, connection_,
                 connState, clientAlive, userPc>>

Start ==
  /\ phase = "start"
  /\ startInLoop(timers, state_, retryDelayMs_)
  /\ phase' = "swap"
  /\ UNCHANGED <<connect_, pendingFunctors_, functors, client, user, overlap>>

LoopStop ==
  /\ mayCall /\ calls' = calls + 1
  /\ clientConnect_' = FALSE /\ connect_' = FALSE
  /\ goal' = "stopped" /\ notes(userPc # <<"idle">>)
  /\ pendingFunctors_' = Append(pendingFunctors_, <<"stopInLoop">>)
  /\ phase' = "swap"
  /\ UNCHANGED <<state_, retryDelayMs_, channel_, attached, timers, open,
                 functors, fault, retry_, connection_, connState, clientAlive,
                 userPc>>

LoopDisconnect ==
  /\ mayCall /\ calls' = calls + 1
  /\ clientConnect_' = FALSE
  /\ shutdown
  /\ phase' = "swap"
  /\ UNCHANGED <<connector, open, pendingFunctors_, functors, goal, fault,
                 retry_, connection_, clientAlive, userPc, overlap>>

\* ~TcpClient().  With a connection nobody else holds, forceClose(), which
\* only stores kDisconnected and queues; without one, Connector::stop()
DestroyClient(unique) ==
  /\ phase = "poll" /\ clientAlive /\ userPc = <<"idle">>
  /\ clientAlive' = FALSE /\ goal' = "stopped" /\ phase' = "swap"
  /\ IF connection_ # None
       THEN /\ connect_' = connect_
            /\ IF unique
                 THEN /\ connState' = [connState EXCEPT ![connection_] = "forced"]
                      /\ pendingFunctors_' = Append(pendingFunctors_,
                                       <<"forceCloseInLoop", connection_>>)
                 ELSE UNCHANGED <<connState, pendingFunctors_>>
       ELSE /\ connect_' = FALSE
            /\ pendingFunctors_' = Append(pendingFunctors_, <<"stopInLoop">>)
            /\ UNCHANGED connState
  /\ IF timers > 0 \/ channel_ = None THEN lives
     ELSE IF Asserts THEN dies("assert")
     ELSE IF attached THEN dies("dangling") ELSE lives
  /\ UNCHANGED <<state_, retryDelayMs_, channel_, attached, timers, open,
                 functors, clientConnect_, retry_, connection_, user, overlap>>
-----------------------------------------------------------------------------
(* Calls from another thread, one step per store, lock or post              *)

untouchedByUser == <<state_, retryDelayMs_, channel_, attached, timers, open,
                     functors, phase, fault, retry_, connection_, clientAlive>>

UserCalls(call) ==
  /\ userPc = <<"idle">> /\ clientAlive /\ calls < MaxCalls
  /\ calls' = calls + 1
  /\ clientConnect_' = (call = "connect")
  /\ IF call = "connect" THEN notes(Busy) ELSE UNCHANGED overlap
  /\ userPc' = <<call, IF call = "disconnect" THEN "lock" ELSE "store">>
  /\ UNCHANGED <<connect_, pendingFunctors_, goal, connState, untouchedByUser>>

storeNothing == connect_' = connect_             \* mutant of storeConnect

storeConnect == connect_' = (userPc[1] = "connect")

UserStores ==
  /\ userPc # <<"idle">> /\ userPc[2] = "store"
  /\ storeConnect
  /\ userPc' = <<userPc[1], "post">>
  /\ UNCHANGED <<calls, clientConnect_, pendingFunctors_, goal, connState,
                 overlap, untouchedByUser>>

UserPosts ==
  /\ userPc # <<"idle">> /\ userPc[2] = "post"
  /\ IF userPc[1] = "connect"
       THEN /\ goal' = "wanted"
            /\ pendingFunctors_' = Append(pendingFunctors_, <<"startInLoop">>)
       ELSE /\ goal' = "stopped"
            /\ pendingFunctors_' = Append(pendingFunctors_, <<"stopInLoop">>)
  /\ userPc' = <<"idle">>
  /\ UNCHANGED <<calls, connect_, clientConnect_, connState, overlap,
                 untouchedByUser>>

UserLocks ==
  /\ userPc # <<"idle">> /\ userPc[2] = "lock"
  /\ shutdown
  /\ userPc' = <<"idle">>
  /\ UNCHANGED <<calls, connect_, clientConnect_, pendingFunctors_, goal,
                 overlap, untouchedByUser>>

enableRetry ==
  /\ clientAlive /\ ~retry_
  /\ retry_' = TRUE
  /\ UNCHANGED <<connector, open, loop, goal, fault, clientConnect_,
                 connection_, connState, clientAlive, user, overlap>>
-----------------------------------------------------------------------------
LoopStep == \/ Turn \/ ConnectorFunctor \/ ConnectionFreed \/ Start \/ Restart
UserStep == UserStores \/ UserPosts \/ UserLocks

Next ==
  /\ Running
  /\ \/ LoopStep \/ UserStep
     \/ Failed \/ RetryExpires
     \/ \E kept \in BOOLEAN : Connected(kept)
     \/ \E s \in Socks, kept \in BOOLEAN : ConnectionCloses(s, kept)
     \/ LoopConnect \/ LoopStop \/ LoopDisconnect
     \/ \E unique \in BOOLEAN : DestroyClient(unique)
     \/ \E call \in Calls : UserCalls(call)
     \/ enableRetry

Spec == Init /\ [][Next]_vars

(* The loop goes on, a thread inside a call goes on, an expired timer is    *)
(* handled in one of the turns that follow, and a server that is tried      *)
(* again and again is under way one time and accepts in the end.            *)
FairSpec ==
  /\ Spec
  /\ WF_vars(Running /\ LoopStep) /\ WF_vars(Running /\ UserStep)
  /\ SF_vars(Running /\ RetryExpires)
  /\ SF_vars(Running /\ RetryExpires /\ attached')
  /\ SF_vars(Running /\ \E kept \in BOOLEAN : Connected(kept))
-----------------------------------------------------------------------------
(* Properties                                                               *)

\* Types; the retry delay stays between its first value and its cap.
TypeOK ==
  /\ connect_ \in BOOLEAN /\ clientConnect_ \in BOOLEAN /\ retry_ \in BOOLEAN
  /\ state_ \in {"kDisconnected", "kConnecting", "kConnected"}
  /\ retryDelayMs_ \in kInitRetryDelayMs..kMaxRetryDelayMs
  /\ channel_ \in Socks \cup {None} /\ attached \in BOOLEAN
  /\ timers \in Nat /\ open \subseteq Socks
  /\ connection_ \in Socks \cup {None}
  /\ connState \in [Socks -> {"none", "up", "shut", "down", "forced"}]
  /\ phase \in {"poll", "swap", "functors", "start", "restart"}
  /\ goal \in {"none", "wanted", "reached", "gaveUp", "stopped"}
  /\ clientAlive \in BOOLEAN /\ overlap \in BOOLEAN /\ calls \in 0..MaxCalls
  /\ fault \in {"none", "assert", "null", "dangling", "uaf"}

\* Every socket that connect() opens has one owner until it is closed: the
\* connector's channel while the attempt lasts, then the connection.  None
\* leaks and none is closed twice, over retries, stops and lost connections.
SocketsOwned ==
  Running =>
    LET attempted == IF attached THEN {channel_} ELSE {}
        connected == {s \in Socks : connState[s] # "none"}
    IN attempted \cap connected = {} /\ open = attempted \cup connected

\* An attempt, a pending retry and a live connection exclude one another,
\* however stop(), disconnect(), failures and losses interleave, unless the
\* user calls connect() while one of them is there.
OneAtATime ==
  Running /\ ~overlap =>
    (IF attached THEN 1 ELSE 0) + timers + Cardinality(Live) <= 1

\* What can go wrong has a cause the user can avoid: channel_ is null in
\* stopInLoop() only where reconnecting is on (a stop() that races with
\* restart(), or a restart() whose connect() fails for good); a registered
\* Channel dies only after overlapping connect() calls or with the client; a
\* functor runs on a freed Connector only after ~TcpClient.
FaultsExplained ==
  /\ TypeOK
  /\ fault = "null" => retry_
  /\ fault = "dangling" => overlap \/ ~clientAlive
  /\ fault = "uaf" => ~clientAlive

Quiet == channel_ = None /\ timers = 0

\* stop() of a client without a connection ends the attempt or the retries
\* under way, and no connection comes of them, unless calls are mixed up.
StopEndsAttempt ==
  (goal = "stopped" /\ connection_ = None /\ ~overlap)
    ~> (Quiet /\ connection_ = None) \/ goal # "stopped" \/ overlap \/ ~Running

\* connect(), and the reconnect after a lost connection, lead to a connection
\* once the server accepts, over any number of failures, unless stopped, met
\* by an error that is not retried, or mixed up with another call.
ConnectReaches ==
  (goal = "wanted" /\ ~overlap) ~> (goal # "wanted" \/ overlap \/ ~Running)

\* No assert of Connector, TcpConnection, Channel or EventLoop fails.
NoAssertFails == fault # "assert"
=============================================================================
