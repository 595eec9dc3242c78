--------------------------- MODULE TcpConnection ---------------------------
(***************************************************************************)
(* src/net/TcpConnection.cc with its Channel and the part of TcpServer.cc   *)
(* that owns it: the life of one accepted connection.                       *)
(*                                                                          *)
(* Four actors: the io loop (handlers, functors and the user's callbacks),  *)
(* the base loop (TcpServer), one user thread that holds a TcpConnectionPtr *)
(* and calls send/shutdown/forceClose, and the kernel with the peer.  A     *)
(* loop is what TaskQueue promises: a FIFO of functors run one at a time;   *)
(* its wakeups are EventLoop's matter.  The io loop handles the connection's*)
(* event of one poll before it runs functors again, and callbacks of other  *)
(* channels may come between that poll and that event.                      *)
(*                                                                          *)
(* state_ is the only thing two threads store to, so a call of the user     *)
(* thread is split where it reads or writes state_ or pushes a functor, and *)
(* the io loop's handlers are single steps.  fault records how the process  *)
(* died: a failed assert, SIGPIPE (nothing ignores it), or a functor that   *)
(* ran on a freed connection.                                               *)
(***************************************************************************)
EXTENDS Naturals, Integers, Sequences, SequencesExt

CONSTANTS
  Messages,         \* what the user sends, each once
  MsgLen,           \* units of data in a message
  MaxInbound,       \* bound: unread pieces of data from the peer
  IoCalls,          \* calls the user makes in the io loop's thread
  UserCalls,        \* calls the user thread makes
  UserMayDrop,      \* may the user thread release its TcpConnectionPtr
  WriteMayRefuse,   \* may the direct write() of sendInLoop find no room
  ServerMayDie      \* may ~TcpServer run

Calls == {"send", "shutdown", "forceClose"}

ASSUME CallsAssumption == IoCalls \subseteq Calls /\ UserCalls \subseteq Calls
ASSUME BoundsAssumption == MsgLen \in Nat \ {0} /\ MaxInbound \in Nat
ASSUME FlagsAssumption ==
  UserMayDrop \in BOOLEAN /\ WriteMayRefuse \in BOOLEAN
    /\ ServerMayDie \in BOOLEAN

VARIABLES
  state_,           \* StateE, or "unborn" before newConnection()
  events_, index_, addedToLoop_,   \* the Channel and its place in the poller
  revents_,         \* reported by poll(), not handled yet; {} when none
  inMessage,        \* io loop: inside messageCallback_, POLLOUT still to do
  outputBuffer_,
  ioQueue, baseQueue,              \* functors of the two loops
  connections_,     \* is the connection in TcpServer's map
  serverAlive,      \* ~TcpServer has not run
  userRef,          \* does the user thread hold a TcpConnectionPtr
  userPc,           \* the user thread inside a call: <<"idle">> or its rest
  shut, soError, peer, inbound,    \* the socket, as the kernel keeps it
  wire,             \* history: units write() took
  sent,             \* history: units of the messages sendInLoop() took
  used,             \* history: messages given to send()
  seen,             \* history: the user's callbacks, "bad" once out of order
  fault

channel == <<events_, index_, addedToLoop_>>
socket == <<shut, soError, peer, inbound>>
output == <<outputBuffer_, wire, sent>>
user == <<userRef, userPc>>
server == <<connections_, serverAlive>>
vars == <<state_, channel, revents_, inMessage, output, ioQueue, baseQueue,
          server, user, socket, used, seen, fault>>

States == {"unborn", "kConnecting", "kConnected", "kDisconnecting",
           "kDisconnected"}

Data == Messages \X (1..MsgLen)
Garbage == <<"garbage", 0>>         \* a byte outside the message
Units(m) == [i \in 1..MsgLen |-> <<m, i>>]

\* Functors: those bound to a shared_ptr keep the connection alive, those
\* bound to this do not.
OwningButDestroy ==                             \* mutant of Owning
  {<<"connectEstablished">>, <<"forceCloseInLoop">>, <<"writeComplete">>}

Owning == {<<"connectEstablished">>, <<"connectDestroyed">>,
           <<"forceCloseInLoop">>, <<"writeComplete">>}
Borrowing == {<<"shutdownInLoop">>} \cup {<<"sendInLoop", m>> : m \in Messages}

\* No TcpConnectionPtr is left, so ~TcpConnection has run.
Freed ==
  /\ state_ # "unborn"
  /\ ~connections_ /\ ~userRef
  /\ baseQueue = <<>>
  /\ Range(ioQueue) \cap Owning = {}
  /\ ~inMessage

Init ==
  /\ state_ = "unborn"
  /\ events_ = {} /\ index_ = "kNew" /\ addedToLoop_ = FALSE
  /\ revents_ = {} /\ inMessage = FALSE
  /\ outputBuffer_ = <<>> /\ wire = <<>> /\ sent = <<>>
  /\ ioQueue = <<>> /\ baseQueue = <<>>
  /\ connections_ = FALSE /\ serverAlive = TRUE
  /\ userRef = FALSE /\ userPc = <<"idle">>
  /\ shut = FALSE /\ soError = FALSE /\ peer = "open" /\ inbound = 0
  /\ used = {} /\ seen = "nothing" /\ fault = "none"
-----------------------------------------------------------------------------
(* The kernel's side (external).                                            *)

\* Data for a socket whose reading side is shut down resets it instead
PeerSends ==
  /\ peer = "open" /\ state_ # "unborn" /\ ~shut /\ inbound < MaxInbound
  /\ inbound' = inbound + 1
  /\ UNCHANGED <<state_, channel, revents_, inMessage, output, ioQueue,
                 baseQueue, server, user, shut, soError, peer, used,
                 seen, fault>>

PeerCloses ==
  /\ peer = "open" /\ state_ # "unborn"
  /\ peer' = "fin"
  /\ UNCHANGED <<state_, channel, revents_, inMessage, output, ioQueue,
                 baseQueue, server, user, shut, soError, inbound, used,
                 seen, fault>>

PeerResets ==
  /\ peer # "rst" /\ state_ # "unborn"
  /\ peer' = "rst" /\ soError' = TRUE
  /\ UNCHANGED <<state_, channel, revents_, inMessage, output, ioQueue,
                 baseQueue, server, user, shut, inbound, used, seen,
                 fault>>

\* write(fd, units): what it returns, -1 for any error.  A broken socket
\* reports its pending error once and kills the process after that (EPIPE).
WriteBroken == shut \/ peer = "rst"
WriteResults(units) ==
  IF ~WriteBroken THEN 1..Len(units) ELSE IF soError THEN {-1} ELSE {}
Refused == IF WriteMayRefuse /\ ~WriteBroken THEN {-1} ELSE {}     \* EAGAIN

\* Conditions epoll reports whatever the interest, and those it filters.
Readable == inbound > 0 \/ peer # "open" \/ shut
Hung == shut \/ peer = "rst"
MustReport == (IF Readable THEN events_ \cap {"IN"} ELSE {})
                \cup (IF soError THEN {"ERR"} ELSE {})
                \cup (IF Hung THEN {"HUP"} ELSE {})
-----------------------------------------------------------------------------
(* Channel and EPollPoller                                                  *)

\* Channel::update() and EPollPoller::updateChannel()
update(events) ==
  /\ events_' = events
  /\ addedToLoop_' = TRUE
  /\ index_' = IF index_ = "kAdded" /\ events = {} THEN "kDeleted" ELSE "kAdded"

\* Channel::remove() and EPollPoller::removeChannel(), whose assert holds
CanRemove == events_ = {} /\ index_ \in {"kAdded", "kDeleted"}
remove == /\ addedToLoop_' = FALSE
          /\ index_' = "kNew"
          /\ events_' = events_

dies(how) == fault' = how
lives == fault' = fault

\* The user's connection and message callbacks, in the only legal order
callUp == seen' = IF seen = "nothing" THEN "up" ELSE "bad"
callMessage == seen' = IF seen = "up" THEN "up" ELSE "bad"
callDown == seen' = IF seen = "up" THEN "down" ELSE "bad"
-----------------------------------------------------------------------------
(* TcpServer, in the base loop                                              *)

forgetDestroy == UNCHANGED ioQueue               \* mutant of postDestroy

postDestroy == ioQueue' = Append(ioQueue, <<"connectDestroyed">>)

newConnection ==
  /\ state_ = "unborn" /\ serverAlive
  /\ state_' = "kConnecting"
  /\ connections_' = TRUE
  /\ ioQueue' = Append(ioQueue, <<"connectEstablished">>)
  /\ UNCHANGED <<channel, revents_, inMessage, output, baseQueue,
                 serverAlive, user, socket, used, seen, fault>>

removeConnectionInLoop ==
  /\ baseQueue # <<>> /\ serverAlive
  /\ baseQueue' = Tail(baseQueue)
  /\ IF connections_
       THEN /\ connections_' = FALSE
            /\ postDestroy
            /\ lives
       ELSE dies("assert") /\ UNCHANGED <<connections_, ioQueue>>
  /\ UNCHANGED <<state_, channel, revents_, inMessage, output, serverAlive,
                 user, socket, used, seen>>

\* ~TcpServer, after the base loop has returned: its functors never run
destroyServer ==
  /\ ServerMayDie
  /\ connections_
  /\ connections_' = FALSE /\ serverAlive' = FALSE
  /\ postDestroy
  /\ UNCHANGED <<state_, channel, revents_, inMessage, output, baseQueue,
                 user, socket, used, seen, fault>>
-----------------------------------------------------------------------------
(* TcpConnection: what the handlers and the functors do.  queue is the io   *)
(* loop's functors without the one that is running.                         *)

isWriting == "OUT" \in events_

closableConnected == state_ = "kConnected"       \* mutant of closable

closable == state_ \in {"kConnected", "kDisconnecting"}

\* handleClose(): asserts, then state_, the channel, the user's callback and
\* TcpServer::removeConnection(), which posts to the base loop
handleClose ==
  IF closable
    THEN /\ state_' = "kDisconnected"
         /\ update({})
         /\ callDown
         /\ baseQueue' = Append(baseQueue, <<"removeConnectionInLoop">>)
         /\ lives
    ELSE /\ dies("assert")
         /\ UNCHANGED <<state_, channel, seen, baseQueue>>

\* shutdownInLoop(): only once everything buffered is written
shutdownNow(writing) == shut' = TRUE             \* mutant of shutdownInLoop

shutdownInLoop(writing) == shut' = (shut \/ ~writing)

\* message.data() + n .. message.data() + n + remain.  A failed write leaves
\* n = -1, one byte before the message.
Rest(m, n, remain) ==
  [i \in 1..remain |-> IF n + i \in 1..MsgLen THEN Units(m)[n + i] ELSE Garbage]

\* The branch of sendInLoop() that write()s and got n, and the append of what
\* is left.  With data already waiting nothing is written and n is 0.
sendResult(m, n, queue) ==
  LET taken == IF n > 0 THEN n ELSE 0
      remain == MsgLen - taken
  IN /\ wire' = wire \o SubSeq(Units(m), 1, taken)
     /\ outputBuffer_' = outputBuffer_ \o Rest(m, n, remain)
     /\ sent' = sent \o Units(m)
     /\ IF remain > 0 /\ ~isWriting THEN update(events_ \cup {"OUT"})
                                    ELSE UNCHANGED channel
     /\ ioQueue' = IF remain = 0 THEN Append(queue, <<"writeComplete">>)
                                 ELSE queue

directWriteAlways == TRUE                        \* mutant of directWrite

directWrite == ~isWriting /\ outputBuffer_ = <<>>

sendInLoop(m, queue) ==
  IF state_ = "kDisconnected"
    THEN ioQueue' = queue /\ lives /\ UNCHANGED <<output, channel, soError>>
    ELSE IF ~directWrite
      THEN sendResult(m, 0, queue) /\ lives /\ UNCHANGED soError
      ELSE \/ /\ \E n \in WriteResults(Units(m)) \cup Refused :
                   sendResult(m, n, queue)
              /\ soError' = (soError /\ ~WriteBroken)
              /\ lives
           \/ /\ WriteBroken
              /\ dies("sigpipe")
              /\ ioQueue' = queue /\ UNCHANGED <<output, channel, soError>>
-----------------------------------------------------------------------------
(* The io loop: functors                                                    *)

Between == fault = "none" /\ revents_ = {} /\ ~inMessage

Runs(name) == Between /\ ioQueue # <<>> /\ Head(ioQueue)[1] = name

connectEstablished ==
  /\ Runs("connectEstablished")
  /\ ioQueue' = Tail(ioQueue)
  /\ IF state_ = "kConnecting"
       THEN /\ state_' = "kConnected"
            /\ update({"IN"})
            /\ callUp
            /\ userRef' = (UserCalls # {})
            /\ lives
       ELSE dies("assert") /\ UNCHANGED <<state_, channel, seen, userRef>>
  /\ UNCHANGED <<revents_, inMessage, output, baseQueue, server, userPc,
                 socket, used>>

stillUpAlways == TRUE                            \* mutant of stillUp

stillUp == state_ = "kConnected"

connectDestroyed ==
  /\ Runs("connectDestroyed")
  /\ ioQueue' = Tail(ioQueue)
  /\ CASE stillUp ->
            /\ state_' = "kDisconnected"
            /\ events_' = {} /\ index_' = "kNew" /\ addedToLoop_' = FALSE
            /\ callDown
            /\ lives
       [] ~stillUp /\ CanRemove ->
            remove /\ lives /\ UNCHANGED <<state_, seen>>
       [] OTHER -> dies("assert") /\ UNCHANGED <<state_, channel, seen>>
  /\ UNCHANGED <<revents_, inMessage, output, baseQueue, server, user, socket,
                 used>>

forceCloseInLoop ==
  /\ Runs("forceCloseInLoop")
  /\ ioQueue' = Tail(ioQueue)
  /\ IF state_ \in {"kConnected", "kDisconnecting"}
       THEN handleClose
       ELSE UNCHANGED <<state_, channel, seen, baseQueue, fault>>
  /\ UNCHANGED <<revents_, inMessage, output, server, user, socket, used>>

\* The user's writeCompleteCallback_; its calls are IoCall steps.  It is
\* optional, and taken to be set: a call that makes no IoCall is as none.
writeComplete ==
  /\ Runs("writeComplete")
  /\ ioQueue' = Tail(ioQueue)
  /\ UNCHANGED <<state_, channel, revents_, inMessage, output, baseQueue,
                 server, user, socket, used, seen, fault>>

queuedShutdown ==
  /\ Runs("shutdownInLoop")
  /\ ioQueue' = Tail(ioQueue)
  /\ IF Freed THEN dies("uaf") /\ UNCHANGED shut
              ELSE shutdownInLoop(isWriting) /\ lives
  /\ UNCHANGED <<state_, channel, revents_, inMessage, output, baseQueue,
                 server, user, soError, peer, inbound, used, seen>>

queuedSend ==
  /\ Runs("sendInLoop")
  /\ IF Freed
       THEN /\ dies("uaf") /\ ioQueue' = Tail(ioQueue)
            /\ UNCHANGED <<output, channel, soError>>
       ELSE sendInLoop(Head(ioQueue)[2], Tail(ioQueue))
  /\ UNCHANGED <<state_, revents_, inMessage, baseQueue, server, user, shut,
                 peer, inbound, used, seen>>
-----------------------------------------------------------------------------
(* The io loop: events.  Channel::handleEventWithGuard() calls close, error,*)
(* read and write in that order on the revents_ of the last poll.           *)

\* epoll_wait: what it must report, and POLLOUT when there is room
PollReturn(room) ==
  /\ Between /\ index_ = "kAdded"
  /\ revents_' = MustReport \cup (IF room THEN events_ \cap {"OUT"} ELSE {})
  /\ revents_' # {}
  /\ UNCHANGED <<state_, channel, inMessage, output, ioQueue, baseQueue,
                 server, user, socket, used, seen, fault>>

\* handleError() fetches, and so clears, the pending error before the read
ErrorLeft == soError /\ "ERR" \notin revents_
Handling == fault = "none" /\ ~inMessage /\ revents_ \notin {{}, {"OUT"}}
RestOfEvents == revents_' = revents_ \cap {"OUT"}

\* handleRead() with data: n > 0 and the user's messageCallback_
HandleMessage ==
  /\ Handling
  /\ "IN" \in revents_ /\ inbound > 0
  /\ inbound' = 0 /\ soError' = ErrorLeft
  /\ callMessage
  /\ inMessage' = TRUE
  /\ RestOfEvents
  /\ UNCHANGED <<state_, channel, output, ioQueue, baseQueue, server, user,
                 shut, peer, used, fault>>

MessageReturns ==
  /\ fault = "none" /\ inMessage
  /\ inMessage' = FALSE
  /\ UNCHANGED <<state_, channel, revents_, output, ioQueue, baseQueue,
                 server, user, socket, used, seen, fault>>

\* POLLHUP without POLLIN, or handleRead() with n == 0
HandleClose ==
  /\ Handling
  /\ \/ "HUP" \in revents_ /\ "IN" \notin revents_
     \/ "IN" \in revents_ /\ inbound = 0 /\ ~ErrorLeft /\ Readable
  /\ soError' = ErrorLeft
  /\ handleClose
  /\ RestOfEvents
  /\ UNCHANGED <<inMessage, output, ioQueue, server, user, shut, peer,
                 inbound, used>>

\* handleRead() with n < 0: logged, and the pending error is gone
HandleReadError ==
  /\ Handling
  /\ "IN" \in revents_ /\ inbound = 0 /\ ErrorLeft
  /\ soError' = FALSE
  /\ RestOfEvents
  /\ UNCHANGED <<state_, channel, inMessage, output, ioQueue, baseQueue,
                 server, user, shut, peer, inbound, used, seen, fault>>

\* handleWrite(): write what is buffered; when that was all, stop watching
\* POLLOUT, post writeComplete and finish a pending shutdown()
keepWriting == UNCHANGED channel                 \* mutant of disableWriting

disableWriting == update(events_ \ {"OUT"})

neverFinishShutdown == FALSE                     \* mutant of finishShutdown

finishShutdown == state_ = "kDisconnecting"

written(n) ==
  LET drained == n = Len(outputBuffer_)
  IN /\ wire' = wire \o SubSeq(outputBuffer_, 1, n)
     /\ outputBuffer_' = SubSeq(outputBuffer_, n + 1, Len(outputBuffer_))
     /\ IF drained THEN disableWriting ELSE UNCHANGED channel
     /\ ioQueue' = IF drained THEN Append(ioQueue, <<"writeComplete">>)
                              ELSE ioQueue
     /\ IF drained /\ finishShutdown
          THEN shutdownInLoop(FALSE) ELSE UNCHANGED shut

handleWrite ==
  /\ fault = "none" /\ ~inMessage /\ revents_ = {"OUT"}
  /\ revents_' = {}
  /\ \/ /\ isWriting
        /\ \E n \in WriteResults(outputBuffer_) :
             IF n > 0 THEN written(n) /\ UNCHANGED soError
             ELSE soError' = FALSE
                    /\ UNCHANGED <<outputBuffer_, wire, channel, ioQueue, shut>>
        /\ lives
     \/ /\ isWriting /\ WriteBroken
        /\ dies("sigpipe")
        /\ UNCHANGED <<outputBuffer_, wire, channel, ioQueue, shut, soError>>
     \/ /\ ~isWriting /\ lives
        /\ UNCHANGED <<outputBuffer_, wire, channel, ioQueue, shut, soError>>
  /\ UNCHANGED <<state_, inMessage, sent, baseQueue, server, user, peer,
                 inbound, used, seen>>
-----------------------------------------------------------------------------
(* Calls of the user's in the io loop's thread: from messageCallback_, from *)
(* a functor, or from the callback of another channel of the same poll.     *)

InIoThread(call) == fault = "none" /\ call \in IoCalls /\ ~Freed

ioSend(m) ==
  /\ InIoThread("send")
  /\ m \notin used /\ used' = used \cup {m}
  /\ state_ = "kConnected"
  /\ sendInLoop(m, ioQueue)
  /\ UNCHANGED <<state_, revents_, inMessage, baseQueue, server, user, shut,
                 peer, inbound, seen>>

ioShutdown ==
  /\ InIoThread("shutdown")
  /\ state_ = "kConnected"
  /\ state_' = "kDisconnecting"
  /\ shutdownInLoop(isWriting)
  /\ UNCHANGED <<channel, revents_, inMessage, output, ioQueue, baseQueue,
                 server, user, soError, peer, inbound, used, seen, fault>>

ioForceClose ==
  /\ InIoThread("forceClose")
  /\ state_ \in {"kConnected", "kDisconnecting"}
  /\ state_' = "kDisconnected"
  /\ ioQueue' = Append(ioQueue, <<"forceCloseInLoop">>)
  /\ UNCHANGED <<channel, revents_, inMessage, output, baseQueue, server,
                 user, socket, used, seen, fault>>
-----------------------------------------------------------------------------
(* Calls of the user thread, one step per access to state_ or to the queue  *)

InUserThread(call) ==
  fault = "none" /\ call \in UserCalls /\ userRef /\ userPc = <<"idle">>

untouchedByUser == <<channel, revents_, inMessage, output, baseQueue, server,
                     userRef, socket, seen, fault>>

\* The tests that let the call go on; failing, it returns at once
userSend(m) ==
  /\ InUserThread("send")
  /\ m \notin used /\ used' = used \cup {m}
  /\ state_ = "kConnected"
  /\ userPc' = <<"sendInLoop", m>>
  /\ UNCHANGED <<state_, ioQueue, untouchedByUser>>

userShutdown ==
  /\ InUserThread("shutdown")
  /\ state_ = "kConnected" /\ state_' = "kDisconnecting"
  /\ userPc' = <<"shutdownInLoop">>
  /\ UNCHANGED <<ioQueue, used, untouchedByUser>>

userForceClose ==
  /\ InUserThread("forceClose")
  /\ state_ \in {"kConnected", "kDisconnecting"}
  /\ userPc' = <<"setState">>
  /\ UNCHANGED <<state_, ioQueue, used, untouchedByUser>>

userSetState ==
  /\ fault = "none" /\ userPc = <<"setState">>
  /\ state_' = "kDisconnected"
  /\ userPc' = <<"forceCloseInLoop">>
  /\ UNCHANGED <<ioQueue, used, untouchedByUser>>

\* runInLoop() or queueInLoop() of another thread: the push
userPush ==
  /\ fault = "none" /\ userPc \in Owning \cup Borrowing
  /\ ioQueue' = Append(ioQueue, userPc)
  /\ userPc' = <<"idle">>
  /\ UNCHANGED <<state_, used, untouchedByUser>>

userDrop ==
  /\ fault = "none" /\ UserMayDrop /\ userRef /\ userPc = <<"idle">>
  /\ userRef' = FALSE
  /\ UNCHANGED <<state_, channel, revents_, inMessage, output, ioQueue,
                 baseQueue, server, userPc, socket, used, seen, fault>>
-----------------------------------------------------------------------------
Kernel == fault = "none" /\ (PeerSends \/ PeerCloses \/ PeerResets)
Base == fault = "none"
          /\ (newConnection \/ removeConnectionInLoop \/ destroyServer)
Functor == \/ connectEstablished \/ connectDestroyed \/ forceCloseInLoop
           \/ writeComplete \/ queuedShutdown \/ queuedSend
Event == HandleMessage \/ MessageReturns \/ HandleClose \/ HandleReadError
           \/ handleWrite
IoCall == (\E m \in Messages : ioSend(m)) \/ ioShutdown \/ ioForceClose
UserCall == \/ \E m \in Messages : userSend(m)
            \/ userShutdown \/ userForceClose \/ userDrop
UserRest == userSetState \/ userPush

Next == \/ Kernel \/ Base \/ Functor \/ Event \/ IoCall \/ UserCall \/ UserRest
        \/ \E room \in BOOLEAN : PollReturn(room)

Spec == Init /\ [][Next]_vars

(* Every turn of the io loop ends in doPendingFunctors() and every functor  *)
(* batch in a new poll, so neither starves the other: strong fairness of    *)
(* both, with room for output whenever poll is asked often enough because   *)
(* the peer drains its end.  The handlers return, the base loop runs, and a *)
(* thread inside a call goes on.  Nobody has to call, send or close.        *)
Fairness ==
  /\ SF_vars(Functor) /\ SF_vars(PollReturn(TRUE))
  /\ WF_vars(Event) /\ WF_vars(UserRest)
  /\ WF_vars(fault = "none" /\ removeConnectionInLoop)

FairSpec == Spec /\ Fairness
-----------------------------------------------------------------------------
(* Properties                                                               *)

\* Types; what sendInLoop() hands to write() or keeps is made of units of the
\* messages and of at most the byte in front of one.
TypeOK ==
  /\ state_ \in States
  /\ events_ \subseteq {"IN", "OUT"}
  /\ index_ \in {"kNew", "kAdded", "kDeleted"}
  /\ addedToLoop_ \in BOOLEAN /\ inMessage \in BOOLEAN
  /\ revents_ \subseteq {"IN", "OUT", "ERR", "HUP"}
  /\ outputBuffer_ \in Seq(Data \cup {Garbage})
  /\ wire \in Seq(Data \cup {Garbage}) /\ sent \in Seq(Data)
  /\ Range(ioQueue) \subseteq Owning \cup Borrowing
  /\ Range(baseQueue) \subseteq {<<"removeConnectionInLoop">>}
  /\ connections_ \in BOOLEAN /\ serverAlive \in BOOLEAN
  /\ userRef \in BOOLEAN
  /\ userPc \in {<<"idle">>, <<"setState">>} \cup Owning \cup Borrowing
  /\ shut \in BOOLEAN /\ soError \in BOOLEAN
  /\ peer \in {"open", "fin", "rst"} /\ inbound \in 0..MaxInbound
  /\ used \subseteq Messages
  /\ seen \in {"nothing", "up", "down", "bad"}
  /\ fault \in {"none", "assert", "sigpipe", "uaf"}

\* The user sees UP once, then messages, then DOWN once and nothing after it,
\* whatever threads, peer and server do.
CallbackOrder == seen # "bad"

\* The poller never hands out the Channel of a freed connection, and a freed
\* connection has left the poller (the asserts of ~Channel).
NoDanglingChannel ==
  fault = "none" /\ Freed => revents_ = {} /\ ~addedToLoop_

\* What can go wrong has a cause.  An assert of handleClose,
\* connectEstablished, Channel::remove or removeConnectionInLoop fails only
\* after ~TcpServer, or after a forceClose(), which alone stores
\* kDisconnected before the user is told DOWN.  A functor bound to a raw this
\* runs on a freed connection only when the user has been told DOWN and has
\* let go of its pointer.
FaultsExplained ==
  /\ TypeOK
  /\ fault = "assert" => \/ ~serverAlive
                         \/ state_ = "kDisconnected" /\ seen = "up"
  /\ fault = "uaf" => seen = "down" /\ ~userRef

\* What goes out is what the user sent, in order and unaltered.
WireIntact == IsPrefix(wire, sent)

\* shutdown() of an open connection closes the socket only when all that was
\* sent has been written.
GracefulShutdown == [][seen = "up" /\ shut' # shut => wire' = sent']_vars

\* POLLOUT is watched exactly while something is buffered, so buffered data
\* is never forgotten and an idle connection does not spin.
WatchesOutput ==
  state_ \in {"kConnected", "kDisconnecting"} => (isWriting <=> outputBuffer_ # <<>>)

Gone == seen = "down" /\ ~addedToLoop_

\* A connection whose peer closed or reset is reported DOWN and taken out of
\* the map and the poller, unless SIGPIPE killed the process first.
PeerCloseEndsConnection ==
  (seen = "up" /\ peer # "open") ~> (Gone \/ fault # "none")

\* shutdown(), by any thread and at any moment, ends the connection.
ShutdownEndsConnection ==
  state_ = "kDisconnecting" ~> (Gone \/ fault # "none")
=============================================================================
