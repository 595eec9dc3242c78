----------------------------- MODULE TcpServer -----------------------------
(***************************************************************************)
(* src/net/TcpServer.cc with Acceptor.cc, EventLoopThreadPool.cc and the    *)
(* descriptor table of the process: a server that accepts connections in    *)
(* its base loop, hands them out to the loops of its pool, takes them back  *)
(* when they close, and is destroyed.                                       *)
(*                                                                          *)
(* Loop 0 is the base loop, 1..numThreads_ are loops_.  A loop is what      *)
(* EventLoop is proved to be, a FIFO of functors; one that is told to quit  *)
(* drops what was posted after its last swap, which is any suffix.  A       *)
(* TcpConnection is its state, its descriptor and its registration          *)
(* (TcpConnection.tla has the rest), numbered by nextConnId_; it is freed,  *)
(* and its descriptor closed, when no map entry and no functor refers to    *)
(* it.  Nobody but the server and its functors refers to one, and it is     *)
(* closed by its peer only: the users' references, forceClose() and         *)
(* shutdown() are TcpConnection's matter.  Other threads of the process     *)
(* open and close descriptors too.                                          *)
(*                                                                          *)
(* ndebug is the build: erase() inside assert() (TcpServer.cc:106) is not   *)
(* compiled in one with NDEBUG.  fault is the first failed assert or use    *)
(* of a destroyed object ("uaf").                                           *)
(***************************************************************************)
EXTENDS Integers, Sequences, SequencesExt, FiniteSets

CONSTANTS
  ThreadNums,           \* arguments of setThreadNum()
  MaxLoop,              \* bound: the largest of them
  MaxFd,                \* the process may have descriptors 1..MaxFd open
  MaxClients,           \* bound: clients that connect
  MaxOthers             \* bound: descriptors other threads open

ASSUME ServerAssumption ==
  /\ MaxLoop \in Nat /\ ThreadNums \subseteq 0..MaxLoop
  /\ MaxFd \in Nat \ {0}
  /\ MaxClients \in Nat /\ MaxOthers \in Nat

VARIABLES
  numThreads_, next_, listening_,
  nextConnId_, connections_,
  state, fd, ioLoop,            \* of each connection
  added,                        \* connections whose Channel is registered
  queue,                        \* functors of each loop
  quitLoops, endedLoops,        \* of loops_
  baseRuns,                     \* the base loop is inside loop()
  server,                       \* "alive", "dying" in ~TcpServer, "gone"
  idleFd_, acceptPc,            \* Acceptor; where handleRead() is on EMFILE
  fds,                          \* the owner of each descriptor
  others, opened,               \* the other threads' descriptors, their number
  backlog, arrived,             \* clients not accepted yet, clients so far
  stolen,                       \* history: opened inside handleRead()
  ndebug, fault

pool == <<numThreads_, next_, quitLoops, endedLoops>>
conns == <<nextConnId_, connections_, state, fd, ioLoop, added>>
kernel == <<fds, others, opened, backlog, arrived, stolen>>
vars == <<pool, conns, queue, listening_, baseRuns, server, idleFd_, acceptPc,
          kernel, ndebug, fault>>

Conns == 1..MaxClients
Fds == 1..MaxFd
None == 0
Free == {f \in Fds : fds[f] = <<"free">>}
Lowest(set) == CHOOSE f \in set : \A g \in set : f <= g

Init ==
  /\ numThreads_ \in ThreadNums /\ next_ = 1 /\ listening_ = FALSE
  /\ nextConnId_ = 1 /\ connections_ = {}
  /\ state = [c \in Conns |-> "none"] /\ fd = [c \in Conns |-> None]
  /\ ioLoop = [c \in Conns |-> 0] /\ added = {}
  /\ queue = [l \in 0..MaxLoop |-> <<>>]
  /\ quitLoops = {} /\ endedLoops = {} /\ baseRuns = TRUE
  /\ server = "alive"
  /\ idleFd_ = 1 /\ acceptPc = "no"
  /\ fds = [f \in Fds |-> IF f = 1 THEN <<"idle">> ELSE <<"free">>]
  /\ others = {} /\ opened = 0 /\ backlog = 0 /\ arrived = 0
  /\ stolen = FALSE /\ ndebug \in BOOLEAN /\ fault = "none"
-----------------------------------------------------------------------------
(* The end of a TcpConnection                                               *)

functorsOf(queues) == UNION {Range(queues[l]) : l \in 0..MaxLoop}

ReferencedByMap(map, queues) == map              \* mutant of Referenced

Referenced(map, queues) == map \cup {f[2] : f \in functorsOf(queues)}
Exists(c) == \E f \in Fds : fds[f] = <<"conn", c>>

closeAll(table, closed) ==
  [f \in Fds |-> IF f \in closed THEN <<"free">> ELSE table[f]]

\* ~Channel asserts that it was removed, and asks its loop for its thread
destroyed(dying, registered) ==
  CASE ~ndebug /\ dying \cap registered # {} -> "assert"
    [] \E c \in dying : ioLoop[c] \in endedLoops -> "uaf"
    [] OTHER -> "none"

\* The step leaves map, queues and registered Channels, or fails as how says:
\* what nothing refers to any more is freed
settle(map, queues, registered, how) ==
  LET dying == {c \in Conns : Exists(c)} \ Referenced(map, queues)
  IN /\ connections_' = map /\ queue' = queues /\ added' = registered
     /\ fds' = closeAll(fds, {fd[c] : c \in dying})
     /\ fault' = IF how # "none" THEN how ELSE destroyed(dying, registered)

post(queues, l, f, c) == [queues EXCEPT ![l] = Append(@, <<f, c>>)]
pop(l) == [queue EXCEPT ![l] = Tail(@)]

\* connectDestroyed(): remove() asserts that the Channel is in the poller
removes(c) == IF ~ndebug /\ c \notin added THEN "assert" ELSE "none"
connectDestroyedNow(c, map, queues) ==
  /\ state' = [state EXCEPT ![c] = "kDisconnected"]
  /\ settle(map, queues, added \ {c}, removes(c))
-----------------------------------------------------------------------------
(* The kernel and the rest of the process (external)                        *)

Running == fault = "none"

ClientConnects ==
  /\ Running /\ listening_ /\ arrived < MaxClients
  /\ backlog' = backlog + 1 /\ arrived' = arrived + 1
  /\ UNCHANGED <<pool, conns, queue, listening_, baseRuns, server, idleFd_,
                 acceptPc, fds, others, opened, stolen, ndebug, fault>>

OtherOpens ==
  /\ Running /\ Free # {} /\ opened < MaxOthers
  /\ fds' = [fds EXCEPT ![Lowest(Free)] = <<"other">>]
  /\ others' = others \cup {Lowest(Free)} /\ opened' = opened + 1
  /\ stolen' = (stolen \/ acceptPc # "no")
  /\ UNCHANGED <<pool, conns, queue, listening_, baseRuns, server, idleFd_,
                 acceptPc, backlog, arrived, ndebug, fault>>

OtherCloses(f) ==
  /\ Running /\ f \in others
  /\ fds' = closeAll(fds, {f}) /\ others' = others \ {f}
  /\ UNCHANGED <<pool, conns, queue, listening_, baseRuns, server, idleFd_,
                 acceptPc, opened, backlog, arrived, stolen, ndebug, fault>>
-----------------------------------------------------------------------------
(* Accepting                                                                *)

InBaseLoop == Running /\ baseRuns /\ acceptPc = "no" /\ server # "dying"

start ==
  /\ InBaseLoop /\ server = "alive" /\ ~listening_
  /\ listening_' = TRUE
  /\ UNCHANGED <<pool, conns, queue, baseRuns, server, idleFd_, acceptPc,
                 kernel, ndebug, fault>>

\* getNextLoop(): round robin over loops_, the base loop when there are none
nextLoop == IF numThreads_ = 0 THEN 0 ELSE next_
advance == next_' = IF next_ >= numThreads_ THEN 1 ELSE next_ + 1

\* newConnection(): connectEstablished() at once in the base loop, or posted
newConnection(f) ==
  LET c == nextConnId_
      here == nextLoop = 0
  IN /\ nextConnId_' = c + 1 /\ connections_' = connections_ \cup {c}
     /\ fd' = [fd EXCEPT ![c] = f]
     /\ ioLoop' = [ioLoop EXCEPT ![c] = nextLoop] /\ advance
     /\ fds' = [fds EXCEPT ![f] = <<"conn", c>>]
     /\ state' = [state EXCEPT ![c] = IF here THEN "kConnected"
                                              ELSE "kConnecting"]
     /\ added' = IF here THEN added \cup {c} ELSE added
     /\ queue' = IF here THEN queue
                         ELSE post(queue, nextLoop, "connectEstablished", c)

\* Acceptor::handleRead(), accept() having a descriptor for the client
Accept ==
  /\ InBaseLoop /\ server = "alive" /\ backlog > 0 /\ Free # {}
  /\ newConnection(Lowest(Free))
  /\ backlog' = backlog - 1
  /\ UNCHANGED <<numThreads_, quitLoops, endedLoops, listening_, baseRuns,
                 server, idleFd_, acceptPc, others, opened, arrived, stolen,
                 ndebug, fault>>

untouchedByIdle == <<pool, conns, queue, listening_, baseRuns, server, others,
                     opened, arrived, stolen, ndebug, fault>>

\* ... or EMFILE: four calls, between which other threads may run
closeIdle == fds' = closeAll(fds, {idleFd_})

AcceptFull ==
  /\ InBaseLoop /\ server = "alive" /\ backlog > 0 /\ Free = {}
  /\ closeIdle
  /\ acceptPc' = "accept"
  /\ UNCHANGED <<idleFd_, backlog, untouchedByIdle>>

forgetIdle(f) == idleFd_' = idleFd_              \* mutant of storeIdle

storeIdle(f) == idleFd_' = f

takeNothing == FALSE                             \* mutant of roomToAccept

roomToAccept == Free # {}

AcceptIdle ==
  /\ Running /\ acceptPc = "accept"
  /\ IF roomToAccept
       THEN /\ storeIdle(Lowest(Free)) /\ backlog' = backlog - 1
            /\ fds' = [fds EXCEPT ![Lowest(Free)] = <<"idle">>]
       ELSE storeIdle(None) /\ UNCHANGED <<backlog, fds>>
  /\ acceptPc' = "close"
  /\ UNCHANGED untouchedByIdle

CloseIdle ==
  /\ Running /\ acceptPc = "close"
  /\ closeIdle
  /\ acceptPc' = "open"
  /\ UNCHANGED <<idleFd_, backlog, untouchedByIdle>>

OpenIdle ==
  /\ Running /\ acceptPc = "open"
  /\ IF Free # {}
       THEN /\ storeIdle(Lowest(Free))
            /\ fds' = [fds EXCEPT ![Lowest(Free)] = <<"idle">>]
       ELSE storeIdle(None) /\ UNCHANGED fds
  /\ acceptPc' = "no"
  /\ UNCHANGED <<backlog, untouchedByIdle>>
-----------------------------------------------------------------------------
(* The connections                                                          *)

\* A thread runs loop l and is not inside a handler of it
Turns(l) == IF l = 0 THEN InBaseLoop
                     ELSE Running /\ l <= numThreads_ /\ l \notin endedLoops

Runs(l, name) == Turns(l) /\ queue[l] # <<>> /\ Head(queue[l])[1] = name

untouchedByConnection == <<pool, nextConnId_, fd, ioLoop, listening_, baseRuns,
                           server, idleFd_, acceptPc, others, opened, backlog,
                           arrived, stolen, ndebug>>

connectEstablished(l) ==
  /\ Runs(l, "connectEstablished")
  /\ LET c == Head(queue[l])[2]
     IN /\ state' = [state EXCEPT ![c] = "kConnected"]
        /\ settle(connections_, pop(l), added \cup {c}, "none")
  /\ UNCHANGED untouchedByConnection

\* removeConnectionInLoop(): the erase is the argument of an assert
keepEntry(c) == connections_                     \* mutant of erased

erased(c) == IF ndebug THEN connections_ ELSE connections_ \ {c}

removeInLoop(c, queues) ==
  settle(erased(c), post(queues, ioLoop[c], "connectDestroyed", c),
         added, IF ~ndebug /\ c \notin connections_ THEN "assert" ELSE "none")

\* handleClose(): removeConnection() runs or posts removeConnectionInLoop()
PeerCloses(c) ==
  /\ Turns(ioLoop[c]) /\ c \in added /\ state[c] = "kConnected"
  /\ state' = [state EXCEPT ![c] = "kDisconnected"]
  /\ IF ioLoop[c] = 0
       THEN removeInLoop(c, queue)
       ELSE settle(connections_, post(queue, 0, "removeConnectionInLoop", c),
                   added, "none")
  /\ UNCHANGED untouchedByConnection

\* bound to the server's this
removeConnectionInLoop ==
  /\ Runs(0, "removeConnectionInLoop")
  /\ IF server = "gone" THEN settle(connections_, pop(0), added, "uaf")
                        ELSE removeInLoop(Head(queue[0])[2], pop(0))
  /\ UNCHANGED <<state, untouchedByConnection>>

connectDestroyed(l) ==
  /\ Runs(l, "connectDestroyed")
  /\ connectDestroyedNow(Head(queue[l])[2], connections_, pop(l))
  /\ UNCHANGED untouchedByConnection
-----------------------------------------------------------------------------
(* The end of the server: by the base loop's thread, in a callback or after *)
(* loop() has returned                                                      *)

quitBase ==
  /\ InBaseLoop /\ baseRuns' = FALSE
  /\ UNCHANGED <<pool, conns, queue, listening_, server, idleFd_, acceptPc,
                 kernel, ndebug, fault>>

beginDestroy ==
  /\ Running /\ acceptPc = "no" /\ server = "alive" /\ listening_
  /\ server' = "dying"
  /\ UNCHANGED <<pool, conns, queue, listening_, baseRuns, idleFd_, acceptPc,
                 kernel, ndebug, fault>>

\* The loop over connections_ in ~TcpServer
destroyConnection(c) ==
  /\ Running /\ server = "dying" /\ c \in connections_
  /\ IF ioLoop[c] = 0
       THEN connectDestroyedNow(c, connections_ \ {c}, queue)
       ELSE /\ settle(connections_ \ {c},
                      post(queue, ioLoop[c], "connectDestroyed", c), added,
                      "none")
            /\ UNCHANGED state
  /\ UNCHANGED untouchedByConnection

\* ~EventLoopThread of the pool, one after the other: quit() ...
quitThread(l) ==
  /\ Running /\ server = "dying" /\ connections_ = {}
  /\ l \in 1..numThreads_ \ quitLoops /\ 1..(l - 1) \subseteq endedLoops
  /\ quitLoops' = quitLoops \cup {l}
  /\ UNCHANGED <<numThreads_, next_, endedLoops, conns, queue, listening_,
                 baseRuns, server, idleFd_, acceptPc, kernel, ndebug, fault>>

\* ... after which loop() returns and the EventLoop dies with its functors
endThread(l) ==
  /\ Running /\ l \in quitLoops \ endedLoops
  /\ endedLoops' = endedLoops \cup {l}
  /\ settle(connections_, [queue EXCEPT ![l] = <<>>], added, "none")
  /\ UNCHANGED <<numThreads_, next_, quitLoops, nextConnId_, state, fd, ioLoop,
                 listening_, baseRuns, server, idleFd_, acceptPc, others,
                 opened, backlog, arrived, stolen, ndebug>>

\* All joined; then ~Acceptor, which leaves idleFd_ open
endDestroy ==
  /\ Running /\ server = "dying" /\ connections_ = {}
  /\ endedLoops = 1..numThreads_
  /\ server' = "gone" /\ listening_' = FALSE /\ backlog' = 0
  /\ UNCHANGED <<pool, conns, queue, baseRuns, idleFd_, acceptPc, fds, others,
                 opened, arrived, stolen, ndebug, fault>>

\* The base loop, which outlives the server, is destroyed with its functors
destroyBaseLoop ==
  /\ Running /\ server = "gone" /\ ~baseRuns /\ queue[0] # <<>>
  /\ settle(connections_, [queue EXCEPT ![0] = <<>>], added, "none")
  /\ UNCHANGED <<state, untouchedByConnection>>
-----------------------------------------------------------------------------
Loops == 0..MaxLoop
IdleStep == AcceptIdle \/ CloseIdle \/ OpenIdle
Functor(l) == connectEstablished(l) \/ connectDestroyed(l)
                \/ (l = 0 /\ removeConnectionInLoop)

Next ==
  \/ ClientConnects \/ OtherOpens \/ \E f \in Fds : OtherCloses(f)
  \/ start \/ Accept \/ AcceptFull \/ IdleStep
  \/ \E l \in Loops : Functor(l)
  \/ \E c \in Conns : PeerCloses(c) \/ destroyConnection(c)
  \/ quitBase \/ beginDestroy
  \/ \E l \in Loops : quitThread(l) \/ endThread(l)
  \/ endDestroy \/ destroyBaseLoop

Spec == Init /\ [][Next]_vars

(* Every loop keeps turning and runs its functors in every turn, however    *)
(* often the acceptor's event is reported; a handler returns.               *)
FairSpec ==
  /\ Spec
  /\ WF_vars(Accept \/ AcceptFull) /\ WF_vars(IdleStep)
  /\ \A l \in Loops : SF_vars(Functor(l))
-----------------------------------------------------------------------------
(* Properties                                                               *)

TypeOK ==
  /\ next_ \in Nat /\ nextConnId_ \in 1..(MaxClients + 1)
  /\ connections_ \subseteq Conns /\ added \subseteq Conns
  /\ state \in [Conns -> {"none", "kConnecting", "kConnected", "kDisconnected"}]
  /\ fd \in [Conns -> Fds \cup {None}] /\ ioLoop \in [Conns -> Loops]
  /\ quitLoops \subseteq 1..numThreads_ /\ endedLoops \subseteq quitLoops
  /\ idleFd_ \in Fds \cup {None} /\ others \subseteq Fds
  /\ backlog \in 0..MaxClients
  /\ server \in {"alive", "dying", "gone"}
  /\ acceptPc \in {"no", "accept", "close", "open"}
  /\ fault \in {"none", "assert", "uaf"}

\* Nobody closes a descriptor of another's: every connection that something
\* refers to, the idle descriptor and the other threads still have theirs,
\* whoever took the number that handleRead() gives up on EMFILE.  The idle
\* descriptor is lost only to a thread that opened one inside handleRead().
FdOwnership ==
  /\ TypeOK
  /\ Running => \A c \in Referenced(connections_, queue) :
                  fds[fd[c]] = <<"conn", c>>
  /\ \A f \in others : fds[f] = <<"other">>
  /\ acceptPc = "no" => IF idleFd_ = None THEN stolen ELSE fds[idleFd_] = <<"idle">>

\* As long as the server lives no assert fails and nothing freed is used,
\* however accepts, the peers' closes and functors of the loops interleave (a
\* forceClose() against a close is TcpConnection's FaultCauses); and a server
\* that was destroyed without a fault leaves no connection behind but those
\* whose removal was still queued in the base loop.
FaultsOnlyAtShutdown ==
  /\ fault # "none" => server # "alive"
  /\ server = "gone" /\ Running =>
       {c \in Conns : Exists(c)} \subseteq {f[2] : f \in Range(queue[0])}

\* A client that waits is accepted, or dropped when there is no descriptor
\* left, unless the idle descriptor was lost.
BacklogDrains ==
  backlog > 0 ~> (backlog = 0 \/ (acceptPc = "no" /\ idleFd_ = None)
                    \/ ~baseRuns \/ server # "alive")

\* In the build with NDEBUG a living server has an entry for every connection
\* it ever made: removeConnectionInLoop() erases inside an assert.
EntriesKept == ndebug /\ server = "alive" => connections_ = 1..(nextConnId_ - 1)

\* A closed connection gives its descriptor back in the build with assert();
\* in the other one its map entry is never erased and the descriptor is kept
\* until the server is destroyed.
ClosedIsFreed ==
  /\ \A c \in Conns :
       (state[c] = "kDisconnected" /\ ~ndebug)
         ~> (~Exists(c) \/ ~baseRuns \/ server # "alive")
  /\ []EntriesKept
=============================================================================
