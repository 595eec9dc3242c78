-------------------------- MODULE TcpServerProofs --------------------------
(***************************************************************************)
(* Proofs about TcpServer, its Acceptor and its pool, in either build and   *)
(* for any number of io threads, clients and descriptors: nobody closes     *)
(* what is another's, nothing fails while the server lives, and it leaves   *)
(* no connection behind.                                                    *)
(***************************************************************************)
EXTENDS TcpServer, TLAPS, SequenceTheorems, WellFoundedInduction

-----------------------------------------------------------------------------
(* The inductive invariant                                                  *)

Est(c) == <<"connectEstablished", c>>
Rem(c) == <<"removeConnectionInLoop", c>>
Des(c) == <<"connectDestroyed", c>>
Names == {"connectEstablished", "removeConnectionInLoop", "connectDestroyed"}
Functors == Names \X Conns
Owners == {<<"free">>, <<"idle">>, <<"other">>} \cup ({"conn"} \X Conns)

BoolTypes ==
  /\ listening_ \in BOOLEAN /\ baseRuns \in BOOLEAN
  /\ stolen \in BOOLEAN /\ ndebug \in BOOLEAN

PlaceTypes ==
  /\ server \in {"alive", "dying", "gone"}
  /\ acceptPc \in {"no", "accept", "close", "open"}
  /\ fault \in {"none", "assert", "uaf"}

ConnTypes ==
  /\ connections_ \subseteq Conns /\ added \subseteq Conns
  /\ state \in [Conns -> {"none", "kConnecting", "kConnected", "kDisconnected"}]
  /\ fd \in [Conns -> Fds \cup {None}]
  /\ ioLoop \in [Conns -> 0..numThreads_]
  /\ queue \in [Loops -> Seq(Functors)]

FdTypes ==
  /\ fds \in [Fds -> Owners] /\ others \subseteq Fds /\ opened \in Nat
  /\ idleFd_ \in Fds \cup {None}

\* A client is counted once: accepted, dropped or waiting
CountInv ==
  /\ nextConnId_ \in Nat \ {0} /\ backlog \in Nat /\ arrived \in 0..MaxClients
  /\ nextConnId_ + backlog <= arrived + 1

\* Round robin, and the order in which ~TcpServer ends everything
LoopInv ==
  /\ numThreads_ \in 0..MaxLoop /\ next_ \in Nat \ {0}
  /\ numThreads_ # 0 => next_ <= numThreads_
  /\ quitLoops \subseteq 1..numThreads_ /\ endedLoops \subseteq quitLoops
  /\ quitLoops # {} => server # "alive" /\ connections_ = {}
  /\ server = "gone" => endedLoops = 1..numThreads_ /\ connections_ = {}
  /\ acceptPc # "no" => server = "alive"

\* The idle descriptor through the four calls of handleRead()
IdleInv ==
  /\ acceptPc \in {"no", "close"} =>
       IF idleFd_ = None THEN stolen ELSE fds[idleFd_] = <<"idle">>
  /\ acceptPc \in {"accept", "open"} => Free # {} \/ stolen
  /\ acceptPc = "accept" => backlog > 0

OtherInv == \A f \in others : fds[f] = <<"other">>

\* A descriptor is a connection's exactly as long as something refers to it
OwnInv ==
  /\ \A f \in Fds, c \in Conns :
       fds[f] = <<"conn", c>> => fd[c] = f /\ c \in Referenced(connections_, queue)
  /\ \A c \in Referenced(connections_, queue) :
       c < nextConnId_ /\ fd[c] \in Fds /\ fds[fd[c]] = <<"conn", c>>
  /\ \A c \in added : c < nextConnId_

\* No thread will run loop l any more
Dead(l) == IF l = 0 THEN ~baseRuns /\ server = "gone" ELSE l \in endedLoops

\* Every functor is in its connection's loop, the removal in the base loop
Placed(q, io) ==
  /\ \A l \in Loops : \A f \in Range(q[l]) :
       IF f[1] = "removeConnectionInLoop" THEN l = 0 ELSE l = io[f[2]]
  /\ \A c \in Conns : Est(c) \in Range(q[io[c]]) => io[c] # 0

\* A connection is not destroyed before it is established
Ordered(q, io, map) ==
  \A c \in Conns :
    /\ \A i, j \in 1..Len(q[io[c]]) :
         q[io[c]][i] = Est(c) /\ q[io[c]][j] = Des(c) => i < j
    /\ Est(c) \in Range(q[io[c]]) => c \in map \/ Des(c) \in Range(q[io[c]])

QueuedInv ==
  /\ Placed(queue, ioLoop) /\ Ordered(queue, ioLoop, connections_)
  /\ \A l \in endedLoops : queue[l] = <<>>

\* What a poller still knows exists
AddedInv ==
  \A c \in added : Dead(ioLoop[c]) \/ c \in Referenced(connections_, queue)

\* No functor is queued twice
Distinct(q) ==
  \A l \in Loops : \A i, j \in 1..Len(q[l]) : q[l][i] = q[l][j] => i = j

\* The stages of a connection of a living server
Stage(c) ==
  /\ Est(c) \in Range(queue[ioLoop[c]]) =>
       state[c] = "kConnecting" /\ c \in connections_ /\ c \notin added
  /\ Rem(c) \in Range(queue[0]) =>
       /\ state[c] = "kDisconnected" /\ c \in connections_ /\ c \in added
       /\ Des(c) \notin Range(queue[ioLoop[c]])
  /\ Des(c) \in Range(queue[ioLoop[c]]) =>
       state[c] = "kDisconnected" /\ c \in added
  /\ state[c] = "kConnected" => c \in connections_

AliveInv == Distinct(queue) /\ \A c \in Conns : Stage(c)

FaultInv == fault # "none" => server # "alive"

Types == BoolTypes /\ PlaceTypes /\ ConnTypes /\ FdTypes

IInv ==
  /\ Types /\ CountInv /\ LoopInv /\ IdleInv /\ OtherInv /\ OwnInv /\ FaultInv
  /\ Running => QueuedInv /\ AddedInv
  /\ server = "alive" => AliveInv

-----------------------------------------------------------------------------
(* Queues                                                                   *)

\* A functor put at the end of a queue.
LEMMA PushFacts ==
  ASSUME NEW S, NEW q \in Seq(S), NEW f \in S
  PROVE  /\ Append(q, f) \in Seq(S) /\ Append(q, f) # <<>>
         /\ Len(q) \in Nat /\ Len(Append(q, f)) = Len(q) + 1
         /\ \A i \in 1..Len(q) : Append(q, f)[i] = q[i]
         /\ Append(q, f)[Len(q) + 1] = f
         /\ Range(Append(q, f)) = Range(q) \cup {f}
<1> DEFINE r == Append(q, f)
<1>1. /\ r \in Seq(S) /\ r # <<>> /\ Len(q) \in Nat /\ Len(r) = Len(q) + 1
      /\ \A i \in 1..Len(q) : r[i] = q[i]
      /\ r[Len(q) + 1] = f
  BY AppendProperties, LenProperties
<1> HIDE DEF r
<1>2. Range(q) = {q[i] : i \in 1..Len(q)} /\ Range(r) = {r[i] : i \in 1..Len(r)}
  BY <1>1, RangeEquality
<1>3. 1..Len(r) = 1..Len(q) \cup {Len(q) + 1}
  BY <1>1
<1>4. Range(r) = Range(q) \cup {f}
  BY <1>1, <1>2, <1>3
<1> QED
  BY <1>1, <1>4 DEF r

\* The first functor of a queue and the others.
LEMMA PopFacts ==
  ASSUME NEW S, NEW q \in Seq(S), q # <<>>
  PROVE  /\ Head(q) \in S /\ Head(q) = q[1] /\ Tail(q) \in Seq(S)
         /\ Len(q) \in Nat /\ Len(q) >= 1 /\ Len(Tail(q)) = Len(q) - 1
         /\ \A i \in 1..Len(Tail(q)) : Tail(q)[i] = q[i + 1]
         /\ Range(q) = Range(Tail(q)) \cup {Head(q)}
<1> DEFINE r == Tail(q)
<1>1. Len(q) \in Nat /\ Len(q) # 0
  BY LenProperties, EmptySeq
<1>2. /\ Head(q) \in S /\ Head(q) = q[1] /\ r \in Seq(S) /\ Len(r) = Len(q) - 1
      /\ \A i \in 1..Len(r) : r[i] = q[i + 1]
  BY HeadTailProperties
<1> HIDE DEF r
<1>3. Range(q) = {q[i] : i \in 1..Len(q)} /\ Range(r) = {r[i] : i \in 1..Len(r)}
  BY <1>2, RangeEquality
<1>4. Range(q) \subseteq Range(r) \cup {q[1]}
  <2> SUFFICES ASSUME NEW i \in 1..Len(q), i # 1 PROVE q[i] \in Range(r)
    BY <1>3
  <2>1. i - 1 \in 1..Len(r) /\ i = (i - 1) + 1
    BY <1>1, <1>2
  <2> QED
    BY <1>2, <1>3, <2>1
<1>5. Range(r) \cup {q[1]} \subseteq Range(q)
  <2>1. 1 \in 1..Len(q)
    BY <1>1
  <2>2. \A i \in 1..Len(r) : i + 1 \in 1..Len(q)
    BY <1>1, <1>2
  <2> QED
    BY <1>2, <1>3, <2>1, <2>2
<1> QED
  BY <1>1, <1>2, <1>4, <1>5 DEF r

LEMMA RangeEmpty == Range(<<>>) = {} /\ Len(<<>>) = 0
BY EmptySeq DEF Range

\* Who refers to a connection.
LEMMA Refers ==
  ASSUME NEW map, NEW q, NEW c
  PROVE  c \in Referenced(map, q)
           <=> c \in map \/ \E l \in Loops : \E f \in Range(q[l]) : f[2] = c
BY DEF Referenced, functorsOf, Loops

Queues == [Loops -> Seq(Functors)]

\* The queues once a functor has been posted.
LEMMA PostFacts ==
  ASSUME NEW q \in Queues, NEW l \in Loops, NEW n \in Names, NEW c \in Conns
  PROVE  /\ post(q, l, n, c) \in Queues
         /\ post(q, l, n, c)[l] = Append(q[l], <<n, c>>)
         /\ Range(post(q, l, n, c)[l]) = Range(q[l]) \cup {<<n, c>>}
         /\ \A m \in Loops : m # l => post(q, l, n, c)[m] = q[m]
<1>1. <<n, c>> \in Functors /\ q[l] \in Seq(Functors)
  BY DEF Functors, Queues
<1>2. /\ Append(q[l], <<n, c>>) \in Seq(Functors)
      /\ Range(Append(q[l], <<n, c>>)) = Range(q[l]) \cup {<<n, c>>}
  BY <1>1, PushFacts
<1>3. post(q, l, n, c) = [q EXCEPT ![l] = Append(q[l], <<n, c>>)]
  BY DEF post
<1> DEFINE r == Append(q[l], <<n, c>>)
<1> HIDE DEF r
<1>4. [q EXCEPT ![l] = r] \in Queues <=> r \in Seq(Functors)
  BY DEF Queues
<1>5. /\ [q EXCEPT ![l] = r][l] = r
      /\ \A m \in Loops : m # l => [q EXCEPT ![l] = r][m] = q[m]
  BY DEF Queues
<1> QED
  BY <1>2, <1>3, <1>4, <1>5 DEF r

\* One functor more refers to one connection more.
LEMMA PostRefers ==
  ASSUME NEW q \in Queues, NEW l \in Loops, NEW n \in Names, NEW c \in Conns,
         NEW map
  PROVE  Referenced(map, post(q, l, n, c)) = Referenced(map, q) \cup {c}
<1> DEFINE r == post(q, l, n, c)
<1>1. /\ Range(r[l]) = Range(q[l]) \cup {<<n, c>>}
      /\ \A m \in Loops : m # l => r[m] = q[m]
  BY PostFacts
<1>2. <<n, c>>[2] = c
  OBVIOUS
<1> HIDE DEF r
<1>3. ASSUME NEW d PROVE d \in Referenced(map, r) <=> d \in Referenced(map, q) \cup {c}
  <2>1. d \in Referenced(map, r)
          <=> d \in map \/ \E m \in Loops : \E f \in Range(r[m]) : f[2] = d
    BY Refers
  <2>2. d \in Referenced(map, q)
          <=> d \in map \/ \E m \in Loops : \E f \in Range(q[m]) : f[2] = d
    BY Refers
  <2> QED
    BY <1>1, <1>2, <2>1, <2>2
<1>4. Referenced(map, r) = Referenced(map, q) \cup {c}
  BY <1>3
<1> QED
  BY <1>4 DEF r

Popped(q, l) == [q EXCEPT ![l] = Tail(q[l])]
Cleared(q, l) == [q EXCEPT ![l] = <<>>]

LEMMA PoppedFacts ==
  ASSUME NEW q \in Queues, NEW l \in Loops, q[l] # <<>>
  PROVE  /\ Popped(q, l) \in Queues /\ Popped(q, l)[l] = Tail(q[l])
         /\ \A m \in Loops : m # l => Popped(q, l)[m] = q[m]
         /\ Head(q[l]) \in Functors /\ Head(q[l]) \in Range(q[l])
         /\ Range(q[l]) = Range(Popped(q, l)[l]) \cup {Head(q[l])}
<1>1. q[l] \in Seq(Functors)
  BY DEF Queues
<1>2. /\ Head(q[l]) \in Functors /\ Tail(q[l]) \in Seq(Functors)
      /\ Range(q[l]) = Range(Tail(q[l])) \cup {Head(q[l])}
  BY <1>1, PopFacts
<1> DEFINE r == Tail(q[l])
<1> HIDE DEF r
<1>3. [q EXCEPT ![l] = r] \in Queues <=> r \in Seq(Functors)
  BY DEF Queues
<1>4. /\ [q EXCEPT ![l] = r][l] = r
      /\ \A m \in Loops : m # l => [q EXCEPT ![l] = r][m] = q[m]
  BY DEF Queues
<1> QED
  BY <1>2, <1>3, <1>4 DEF r, Popped

LEMMA PoppedRefers ==
  ASSUME NEW q \in Queues, NEW l \in Loops, q[l] # <<>>, NEW map
  PROVE  Referenced(map, q) = Referenced(map, Popped(q, l)) \cup {Head(q[l])[2]}
<1> DEFINE r == Popped(q, l)
           h == Head(q[l])
<1>1. /\ Range(q[l]) = Range(r[l]) \cup {h}
      /\ \A m \in Loops : m # l => r[m] = q[m]
  BY PoppedFacts
<1> HIDE DEF r, h
<1>2. ASSUME NEW d
      PROVE  d \in Referenced(map, q) <=> d \in Referenced(map, r) \cup {h[2]}
  <2>1. d \in Referenced(map, r)
          <=> d \in map \/ \E m \in Loops : \E f \in Range(r[m]) : f[2] = d
    BY Refers
  <2>2. d \in Referenced(map, q)
          <=> d \in map \/ \E m \in Loops : \E f \in Range(q[m]) : f[2] = d
    BY Refers
  <2> QED
    BY <1>1, <2>1, <2>2
<1>3. Referenced(map, q) = Referenced(map, r) \cup {h[2]}
  BY <1>2
<1> QED
  BY <1>3 DEF r, h

\* A loop that ends drops its functors.
LEMMA ClearedFacts ==
  ASSUME NEW q \in Queues, NEW l \in Loops
  PROVE  /\ Cleared(q, l) \in Queues /\ Cleared(q, l)[l] = <<>>
         /\ \A m \in Loops : m # l => Cleared(q, l)[m] = q[m]
         /\ \A m \in Loops : Range(Cleared(q, l)[m]) \subseteq Range(q[m])
         /\ \A map : Referenced(map, Cleared(q, l)) \subseteq Referenced(map, q)
         /\ \A map : \A c \in Referenced(map, q) \ Referenced(map, Cleared(q, l)) :
              \E f \in Range(q[l]) : f[2] = c
<1> DEFINE r == Cleared(q, l)
<1>1. <<>> \in Seq(Functors)
  BY EmptySeq
<1>2. /\ r \in Queues /\ r[l] = <<>> /\ \A m \in Loops : m # l => r[m] = q[m]
  BY <1>1 DEF Queues, Cleared
<1> HIDE DEF r
<1>3. \A m \in Loops : Range(r[m]) \subseteq Range(q[m])
  BY <1>2, RangeEmpty
<1>4. \A map, d : d \in Referenced(map, r)
          <=> d \in map \/ \E m \in Loops : \E f \in Range(r[m]) : f[2] = d
  BY Refers
<1>5. \A map, d : d \in Referenced(map, q)
          <=> d \in map \/ \E m \in Loops : \E f \in Range(q[m]) : f[2] = d
  BY Refers
<1>6. \A map : Referenced(map, r) \subseteq Referenced(map, q)
  BY <1>3, <1>4, <1>5
<1>7. ASSUME NEW map, NEW c \in Referenced(map, q) \ Referenced(map, r)
      PROVE  \E f \in Range(q[l]) : f[2] = c
  BY <1>2, <1>4, <1>5
<1> QED
  BY <1>2, <1>3, <1>6, <1>7 DEF r

-----------------------------------------------------------------------------
(* What posting, running and dropping functors preserves                    *)

LEMMA PostPlaced ==
  ASSUME NEW q \in Queues, NEW l \in Loops, NEW n \in Names, NEW c \in Conns,
         NEW io \in [Conns -> Loops], Placed(q, io),
         IF n = "removeConnectionInLoop" THEN l = 0 ELSE l = io[c],
         n = "connectEstablished" => l # 0
  PROVE  Placed(post(q, l, n, c), io)
<1> DEFINE r == post(q, l, n, c)
           g == <<n, c>>
<1>1. /\ r \in Queues /\ Range(r[l]) = Range(q[l]) \cup {g}
      /\ \A m \in Loops : m # l => r[m] = q[m]
  BY PostFacts
<1>2. g[1] = n /\ g[2] = c
  OBVIOUS
<1>3. \A d : g = Est(d) => n = "connectEstablished" /\ d = c
  BY DEF Est
<1> HIDE DEF r, g
<1>4. ASSUME NEW m \in Loops, NEW f \in Range(r[m])
      PROVE  IF f[1] = "removeConnectionInLoop" THEN m = 0 ELSE m = io[f[2]]
  <2>1. f \in Range(q[m]) \/ (f = g /\ m = l)
    BY <1>1
  <2>2. CASE f \in Range(q[m])
    BY <2>2 DEF Placed
  <2>3. CASE f = g /\ m = l
    BY <1>2, <2>3
  <2> QED
    BY <2>1, <2>2, <2>3
<1>5. ASSUME NEW d \in Conns, Est(d) \in Range(r[io[d]])
      PROVE  io[d] # 0
  <2>1. io[d] \in Loops
    OBVIOUS
  <2>2. Est(d) \in Range(q[io[d]]) \/ (Est(d) = g /\ io[d] = l)
    BY <1>1, <1>5, <2>1
  <2> QED
    BY <1>3, <2>2 DEF Placed
<1>6. Placed(r, io)
  BY <1>4, <1>5 DEF Placed
<1> QED
  BY <1>6 DEF r

\* Fewer functors in every queue.
LEMMA FewerPlaced ==
  ASSUME NEW q \in Queues, NEW r \in Queues, NEW io \in [Conns -> Loops],
         Placed(q, io), \A l \in Loops : Range(r[l]) \subseteq Range(q[l])
  PROVE  Placed(r, io)
<1>1. ASSUME NEW c \in Conns, Est(c) \in Range(r[io[c]]) PROVE io[c] # 0
  <2>1. io[c] \in Loops
    OBVIOUS
  <2> QED
    BY <1>1, <2>1 DEF Placed
<1> QED
  BY <1>1 DEF Placed

LEMMA PostOrdered ==
  ASSUME NEW q \in Queues, NEW l \in Loops, NEW n \in Names, NEW c \in Conns,
         NEW io \in [Conns -> Loops], NEW map, NEW left,
         Ordered(q, io, map), n # "removeConnectionInLoop" => l = io[c],
         \A d \in map : d \in left \/ (d = c /\ n = "connectDestroyed"),
         n = "connectEstablished" => c \in left /\ Des(c) \notin Range(q[l])
  PROVE  Ordered(post(q, l, n, c), io, left)
<1> DEFINE r == post(q, l, n, c)
           g == <<n, c>>
<1>1. /\ r \in Queues /\ r[l] = Append(q[l], g)
      /\ Range(r[l]) = Range(q[l]) \cup {g}
      /\ \A m \in Loops : m # l => r[m] = q[m]
  BY PostFacts
<1>2. /\ \A d : g = Est(d) => n = "connectEstablished" /\ d = c
      /\ \A d : g = Des(d) <=> n = "connectDestroyed" /\ d = c
      /\ \A d : Est(d) # Des(d)
  BY DEF Est, Des
<1>3. g \in Functors /\ q[l] \in Seq(Functors)
  BY DEF Functors, Queues
<1> HIDE DEF r, g
<1> DEFINE s == q[l]
           t == r[l]
<1>4. /\ Len(s) \in Nat /\ Len(t) = Len(s) + 1
      /\ \A i \in 1..Len(s) : t[i] = s[i]
      /\ t[Len(s) + 1] = g
  BY <1>1, <1>3, PushFacts
<1>5. \A i \in 1..Len(s) : s[i] \in Range(s)
  BY <1>3, RangeEquality
<1>6. Range(t) = Range(s) \cup {g}
  BY <1>1
<1>7. ASSUME NEW d \in Conns, io[d] # l
      PROVE  /\ \A i, j \in 1..Len(r[io[d]]) :
                  r[io[d]][i] = Est(d) /\ r[io[d]][j] = Des(d) => i < j
             /\ Est(d) \in Range(r[io[d]]) =>
                  d \in left \/ Des(d) \in Range(r[io[d]])
  <2>1. r[io[d]] = q[io[d]]
    BY <1>1, <1>7
  <2>2. d \in map => d \in left
    BY <1>7
  <2> QED
    BY <2>1, <2>2 DEF Ordered
<1>8. ASSUME NEW d \in Conns, io[d] = l
      PROVE  /\ \A i, j \in 1..Len(r[io[d]]) :
                  r[io[d]][i] = Est(d) /\ r[io[d]][j] = Des(d) => i < j
             /\ Est(d) \in Range(r[io[d]]) =>
                  d \in left \/ Des(d) \in Range(r[io[d]])
  <2>1. /\ \A i, j \in 1..Len(s) : s[i] = Est(d) /\ s[j] = Des(d) => i < j
        /\ Est(d) \in Range(s) => d \in map \/ Des(d) \in Range(s)
    BY <1>8 DEF Ordered
  <2>2. r[io[d]] = t
    BY <1>8
  <2> HIDE DEF s, t
  <2>3. ASSUME NEW i \in 1..Len(t), NEW j \in 1..Len(t), t[i] = Est(d), t[j] = Des(d)
        PROVE  i < j
    <3>1. CASE i \in 1..Len(s) /\ j \in 1..Len(s)
      BY <1>4, <2>1, <2>3, <3>1
    <3>2. CASE i \in 1..Len(s) /\ j = Len(s) + 1
      BY <1>4, <3>2
    <3>3. CASE i = Len(s) + 1
      <4>1. n = "connectEstablished" /\ d = c
        BY <1>2, <1>4, <2>3, <3>3
      <4>2. j \in 1..Len(s)
        <5>1. j # i
          BY <1>2, <2>3
        <5> QED
          BY <1>4, <3>3, <5>1
      <4>3. Des(c) \in Range(s)
        BY <1>4, <1>5, <2>3, <4>1, <4>2
      <4> QED
        BY <4>1, <4>3 DEF s
    <3> QED
      BY <1>4, <3>1, <3>2, <3>3
  <2>4. ASSUME Est(d) \in Range(t) PROVE d \in left \/ Des(d) \in Range(t)
    <3>1. CASE Est(d) \in Range(s)
      BY <1>2, <1>6, <2>1, <3>1
    <3>2. CASE Est(d) = g
      BY <1>2, <3>2
    <3> QED
      BY <1>6, <2>4, <3>1, <3>2
  <2> QED
    BY <2>2, <2>3, <2>4
<1>9. Ordered(r, io, left)
  BY <1>7, <1>8 DEF Ordered
<1> QED
  BY <1>9 DEF r

LEMMA PoppedOrdered ==
  ASSUME NEW q \in Queues, NEW l \in Loops, q[l] # <<>>,
         NEW io \in [Conns -> Loops], NEW map, Ordered(q, io, map)
  PROVE  Ordered(Popped(q, l), io, map)
<1> DEFINE r == Popped(q, l)
           s == q[l]
           t == r[l]
<1>1. /\ r \in Queues /\ t = Tail(s) /\ Range(s) = Range(t) \cup {Head(s)}
      /\ \A m \in Loops : m # l => r[m] = q[m]
  BY PoppedFacts
<1>2. s \in Seq(Functors) /\ s # <<>>
  BY DEF Queues
<1> HIDE DEF r
<1>3. /\ Head(s) = s[1] /\ Len(s) \in Nat /\ Len(s) >= 1
      /\ Len(t) = Len(s) - 1 /\ \A i \in 1..Len(t) : t[i] = s[i + 1]
  BY <1>1, <1>2, PopFacts
<1>4. Range(t) = {t[i] : i \in 1..Len(t)}
  <2>1. t \in Seq(Functors)
    BY <1>1 DEF Queues
  <2> HIDE DEF t
  <2> QED
    BY <2>1, RangeEquality
<1>5. ASSUME NEW d \in Conns, io[d] # l
      PROVE  /\ \A i, j \in 1..Len(r[io[d]]) :
                  r[io[d]][i] = Est(d) /\ r[io[d]][j] = Des(d) => i < j
             /\ Est(d) \in Range(r[io[d]]) =>
                  d \in map \/ Des(d) \in Range(r[io[d]])
  <2>1. r[io[d]] = q[io[d]]
    BY <1>1, <1>5
  <2> QED
    BY <2>1 DEF Ordered
<1>6. ASSUME NEW d \in Conns, io[d] = l
      PROVE  /\ \A i, j \in 1..Len(r[io[d]]) :
                  r[io[d]][i] = Est(d) /\ r[io[d]][j] = Des(d) => i < j
             /\ Est(d) \in Range(r[io[d]]) =>
                  d \in map \/ Des(d) \in Range(r[io[d]])
  <2>1. /\ \A i, j \in 1..Len(s) : s[i] = Est(d) /\ s[j] = Des(d) => i < j
        /\ Est(d) \in Range(s) => d \in map \/ Des(d) \in Range(s)
    BY <1>6 DEF Ordered
  <2>2. r[io[d]] = t
    BY <1>6
  <2> HIDE DEF s, t
  <2>3. \A i \in 1..Len(t) : i + 1 \in 1..Len(s)
    BY <1>3
  <2>4. ASSUME NEW i \in 1..Len(t), NEW j \in 1..Len(t), t[i] = Est(d), t[j] = Des(d)
        PROVE  i < j
    <3>1. i + 1 < j + 1
      BY <1>3, <2>1, <2>3, <2>4
    <3> QED
      BY <1>3, <3>1
  <2>5. ASSUME Est(d) \in Range(t) PROVE d \in map \/ Des(d) \in Range(t)
    <3>1. PICK i \in 1..Len(t) : t[i] = Est(d)
      BY <1>4, <2>5
    <3>2. Head(s) # Des(d)
      <4> SUFFICES ASSUME Head(s) = Des(d) PROVE FALSE
        OBVIOUS
      <4>1. 1 \in 1..Len(s) /\ i + 1 \in 1..Len(s)
        BY <1>3, <2>3
      <4>2. i + 1 < 1
        BY <1>3, <2>1, <3>1, <4>1
      <4> QED
        BY <1>3, <4>2
    <3> QED
      BY <1>1, <2>1, <2>5, <3>2
  <2> QED
    BY <2>2, <2>4, <2>5
<1>7. Ordered(r, io, map)
  BY <1>5, <1>6 DEF Ordered
<1> QED
  BY <1>7 DEF r

LEMMA ClearedOrdered ==
  ASSUME NEW q \in Queues, NEW l \in Loops, NEW io \in [Conns -> Loops],
         NEW map, Ordered(q, io, map)
  PROVE  Ordered(Cleared(q, l), io, map)
<1> DEFINE r == Cleared(q, l)
<1>1. r[l] = <<>> /\ \A m \in Loops : m # l => r[m] = q[m]
  BY ClearedFacts
<1> HIDE DEF r
<1>2. ASSUME NEW d \in Conns
      PROVE  /\ \A i, j \in 1..Len(r[io[d]]) :
                  r[io[d]][i] = Est(d) /\ r[io[d]][j] = Des(d) => i < j
             /\ Est(d) \in Range(r[io[d]]) =>
                  d \in map \/ Des(d) \in Range(r[io[d]])
  <2>1. CASE io[d] = l
    <3>1. r[io[d]] = <<>> /\ \A i \in 1..Len(<<>>) : FALSE
      BY <1>1, <2>1, RangeEmpty
    <3> QED
      BY <3>1, RangeEmpty
  <2>2. CASE io[d] # l
    <3>1. r[io[d]] = q[io[d]]
      BY <1>1, <2>2
    <3> QED
      BY <3>1 DEF Ordered
  <2> QED
    BY <2>1, <2>2
<1>3. Ordered(r, io, map)
  BY <1>2 DEF Ordered
<1> QED
  BY <1>3 DEF r

LEMMA PostDistinct ==
  ASSUME NEW q \in Queues, NEW l \in Loops, NEW n \in Names, NEW c \in Conns,
         Distinct(q), <<n, c>> \notin Range(q[l])
  PROVE  Distinct(post(q, l, n, c))
<1> DEFINE r == post(q, l, n, c)
           g == <<n, c>>
           s == q[l]
           t == r[l]
<1>1. /\ r \in Queues /\ t = Append(s, g)
      /\ \A m \in Loops : m # l => r[m] = q[m]
  BY PostFacts
<1>2. g \in Functors /\ s \in Seq(Functors) /\ g \notin Range(s)
  BY DEF Functors, Queues
<1> HIDE DEF r, g
<1>3. /\ Len(s) \in Nat /\ Len(t) = Len(s) + 1
      /\ \A i \in 1..Len(s) : t[i] = s[i]
      /\ t[Len(s) + 1] = g
  BY <1>1, <1>2, PushFacts
<1>4. \A i \in 1..Len(s) : s[i] # g
  BY <1>2, RangeEquality
<1>5. \A i, j \in 1..Len(s) : s[i] = s[j] => i = j
  BY DEF Distinct
<1>6. \A i, j \in 1..Len(t) : t[i] = t[j] => i = j
  <2> HIDE DEF s, t
  <2> SUFFICES ASSUME NEW i \in 1..Len(t), NEW j \in 1..Len(t), t[i] = t[j]
               PROVE  i = j
    OBVIOUS
  <2>1. /\ i \in 1..Len(s) \/ i = Len(s) + 1
        /\ j \in 1..Len(s) \/ j = Len(s) + 1
    BY <1>3
  <2> QED
    BY <1>3, <1>4, <1>5, <2>1
<1>7. Distinct(r)
  BY <1>1, <1>6 DEF Distinct
<1> QED
  BY <1>7 DEF r

LEMMA PoppedDistinct ==
  ASSUME NEW q \in Queues, NEW l \in Loops, q[l] # <<>>, Distinct(q)
  PROVE  Distinct(Popped(q, l)) /\ Head(q[l]) \notin Range(Popped(q, l)[l])
<1> DEFINE r == Popped(q, l)
           s == q[l]
           t == r[l]
<1>1. /\ r \in Queues /\ t = Tail(s) /\ \A m \in Loops : m # l => r[m] = q[m]
  BY PoppedFacts
<1>2. s \in Seq(Functors) /\ s # <<>>
  BY DEF Queues
<1> HIDE DEF r
<1>3. /\ Head(s) = s[1] /\ Len(s) \in Nat /\ Len(s) >= 1
      /\ Len(t) = Len(s) - 1 /\ \A i \in 1..Len(t) : t[i] = s[i + 1]
  BY <1>1, <1>2, PopFacts
<1>4. \A i, j \in 1..Len(s) : s[i] = s[j] => i = j
  BY DEF Distinct
<1>5. Range(t) = {t[i] : i \in 1..Len(t)}
  <2>1. t \in Seq(Functors)
    BY <1>1 DEF Queues
  <2> HIDE DEF t
  <2> QED
    BY <2>1, RangeEquality
<1> HIDE DEF s, t
<1>6. \A i \in 1..Len(t) : i + 1 \in 1..Len(s) /\ 1 \in 1..Len(s) /\ i + 1 # 1
  BY <1>3
<1>7. \A i, j \in 1..Len(t) : t[i] = t[j] => i = j
  <2> SUFFICES ASSUME NEW i \in 1..Len(t), NEW j \in 1..Len(t), t[i] = t[j]
               PROVE  i = j
    OBVIOUS
  <2>1. i + 1 = j + 1
    BY <1>3, <1>4, <1>6
  <2> QED
    BY <1>3, <2>1
<1>8. Head(s) \notin Range(t)
  BY <1>3, <1>4, <1>5, <1>6
<1>9. Distinct(r)
  BY <1>1, <1>7 DEF Distinct, t
<1> QED
  BY <1>8, <1>9 DEF r, s, t

-----------------------------------------------------------------------------
(* The descriptor table                                                     *)

LEMMA OwnerFacts ==
  /\ \A c : <<"conn", c>> # <<"free">> /\ <<"conn", c>> # <<"idle">>
            /\ <<"conn", c>> # <<"other">>
  /\ \A c, d : <<"conn", c>> = <<"conn", d>> => c = d
  /\ <<"free">> # <<"idle">> /\ <<"free">> # <<"other">> /\ <<"idle">> # <<"other">>
  /\ <<"free">> \in Owners /\ <<"idle">> \in Owners /\ <<"other">> \in Owners
  /\ \A c \in Conns : <<"conn", c>> \in Owners
BY DEF Owners

Faults == {"none", "assert", "uaf"}

\* The end of a step: what is freed was a connection's, and nothing else.
LEMMA SettleKeeps ==
  ASSUME IInv, NEW map \in SUBSET Conns, NEW q \in Queues,
         NEW reg \in SUBSET Conns, NEW how \in Faults, settle(map, q, reg, how),
         Referenced(map, q) \subseteq Referenced(connections_, queue),
         \A c \in reg : c < nextConnId_,
         UNCHANGED <<nextConnId_, fd, idleFd_, acceptPc, others, opened, backlog,
                     arrived, stolen>>
  PROVE  /\ FdTypes' /\ CountInv' /\ IdleInv' /\ OtherInv' /\ OwnInv'
         /\ fault' \in Faults
<1> DEFINE dying == {c \in Conns : Exists(c)} \ Referenced(map, q)
           D == {fd[c] : c \in dying}
<1>1. /\ connections_' = map /\ queue' = q /\ added' = reg
      /\ fds' = [f \in Fds |-> IF f \in D THEN <<"free">> ELSE fds[f]]
      /\ fault' = IF how # "none" THEN how ELSE destroyed(dying, reg)
  BY DEF settle, closeAll
<1>2. /\ fds \in [Fds -> Owners] /\ fd \in [Conns -> Fds \cup {None}]
      /\ others \subseteq Fds /\ idleFd_ \in Fds \cup {None}
      /\ connections_ \subseteq Conns /\ CountInv /\ FdTypes /\ IdleInv
      /\ OtherInv /\ OwnInv
  BY DEF IInv, Types, FdTypes, ConnTypes
<1>3. /\ nextConnId_' = nextConnId_ /\ fd' = fd /\ idleFd_' = idleFd_
      /\ acceptPc' = acceptPc /\ others' = others /\ opened' = opened
      /\ backlog' = backlog /\ arrived' = arrived /\ stolen' = stolen
  OBVIOUS
<1>4. /\ \A f \in Fds, c \in Conns : fds[f] = <<"conn", c>> =>
           fd[c] = f /\ c \in Referenced(connections_, queue)
      /\ \A c \in Referenced(connections_, queue) :
           c < nextConnId_ /\ fd[c] \in Fds /\ fds[fd[c]] = <<"conn", c>>
  BY <1>2 DEF OwnInv
<1>5. ASSUME NEW f \in D
      PROVE  \E c \in dying : f \in Fds /\ fds[f] = <<"conn", c>>
  <2>1. PICK c \in dying : f = fd[c]
    OBVIOUS
  <2>2. PICK g \in Fds : fds[g] = <<"conn", c>>
    BY DEF Exists
  <2>3. fd[c] = g
    BY <1>4, <2>2
  <2> QED
    BY <2>1, <2>2, <2>3
<1>6. ASSUME NEW f \in Fds, NEW c \in Conns, fds[f] = <<"conn", c>>, c \notin dying
      PROVE  f \notin D
  BY <1>5, <1>6, OwnerFacts
<1>7. ASSUME NEW f \in Fds, NEW c \in Conns, fds[f] = <<"conn", c>>
      PROVE  c \in dying \/ c \in Referenced(map, q)
  BY <1>7 DEF Exists
<1>8. ASSUME NEW c \in dying PROVE fd[c] \in D
  OBVIOUS
<1>9. dying \subseteq Conns
  OBVIOUS
<1>10. fault' \in Faults
  BY <1>1 DEF destroyed, Faults
<1> HIDE DEF D, dying
<1>11. /\ \A f \in Fds : fds'[f] = IF f \in D THEN <<"free">> ELSE fds[f]
       /\ fds' \in [Fds -> Owners]
  BY <1>1, <1>2, OwnerFacts
<1>12. \A f \in Fds : fds[f] \in {<<"free">>, <<"idle">>, <<"other">>}
                        => fds'[f] = fds[f]
  BY <1>5, <1>11, OwnerFacts
<1>13. FdTypes'
  BY <1>2, <1>3, <1>11 DEF FdTypes
<1>14. CountInv'
  BY <1>2, <1>3 DEF CountInv
<1>15. OtherInv'
  BY <1>2, <1>3, <1>12 DEF OtherInv
<1>16. IdleInv'
  <2>1. idleFd_ \in Fds /\ fds[idleFd_] = <<"idle">> => fds'[idleFd_] = <<"idle">>
    BY <1>12
  <2>2. Free # {} => Free' # {}
    BY <1>12 DEF Free
  <2> QED
    BY <1>2, <1>3, <2>1, <2>2 DEF IdleInv
<1>17. ASSUME NEW f \in Fds, NEW c \in Conns, fds'[f] = <<"conn", c>>
       PROVE  fd[c] = f /\ c \in Referenced(map, q)
  <2>1. f \notin D /\ fds[f] = <<"conn", c>>
    BY <1>11, <1>17, OwnerFacts
  <2>2. fd[c] = f
    BY <1>4, <2>1
  <2> QED
    BY <1>7, <1>8, <2>1, <2>2
<1>18. ASSUME NEW c \in Referenced(map, q)
       PROVE  c < nextConnId_ /\ fd[c] \in Fds /\ fds'[fd[c]] = <<"conn", c>>
  <2>1. c < nextConnId_ /\ fd[c] \in Fds /\ fds[fd[c]] = <<"conn", c>>
    BY <1>4
  <2>2. c \notin dying
    BY DEF dying
  <2>3. fd[c] \notin D
    BY <1>5, <2>1, <2>2, OwnerFacts
  <2> QED
    BY <1>11, <2>1, <2>3
<1>19. OwnInv'
  BY <1>1, <1>3, <1>17, <1>18 DEF OwnInv
<1> QED
  BY <1>10, <1>13, <1>14, <1>15, <1>16, <1>19

\* No destructor fails as long as every registered Channel has an owner and
\* every loop a thread.
LEMMA SettleSafe ==
  ASSUME LoopInv, server = "alive", NEW map, NEW q, NEW reg,
         settle(map, q, reg, "none"), reg \subseteq Referenced(map, q)
  PROVE  fault' = "none"
<1>1. endedLoops = {}
  BY DEF LoopInv
<1> QED
  BY <1>1 DEF settle, destroyed

-----------------------------------------------------------------------------
(* The steps of the connections                                             *)

StateTypes == [Conns -> {"none", "kConnecting", "kConnected", "kDisconnected"}]

\* What a step of a connection owes, to preserve the invariant.
LEMMA StepKeeps ==
  ASSUME IInv, Running, UNCHANGED untouchedByConnection, state' \in StateTypes,
         NEW map \in SUBSET connections_, NEW q \in Queues,
         NEW reg \in SUBSET Conns, NEW how \in Faults, settle(map, q, reg, how),
         Referenced(map, q) \subseteq Referenced(connections_, queue),
         \A c \in reg : c < nextConnId_,
         Placed(q, ioLoop), Ordered(q, ioLoop, map),
         \A l \in endedLoops : q[l] = <<>>,
         how = "none" =>
           \A c \in reg : Dead(ioLoop[c]) \/ c \in Referenced(map, q),
         server = "alive" => how = "none" /\ AliveInv'
  PROVE  IInv'
<1>1. /\ BoolTypes /\ PlaceTypes /\ ConnTypes /\ FdTypes /\ LoopInv
  BY DEF IInv, Types
<1>2. /\ numThreads_' = numThreads_ /\ next_' = next_
      /\ quitLoops' = quitLoops /\ endedLoops' = endedLoops
      /\ nextConnId_' = nextConnId_ /\ fd' = fd /\ ioLoop' = ioLoop
      /\ listening_' = listening_ /\ baseRuns' = baseRuns
      /\ server' = server /\ idleFd_' = idleFd_ /\ acceptPc' = acceptPc
      /\ others' = others /\ opened' = opened /\ backlog' = backlog
      /\ arrived' = arrived /\ stolen' = stolen /\ ndebug' = ndebug
  BY DEF untouchedByConnection, pool
<1>3. connections_' = map /\ queue' = q /\ added' = reg
  BY DEF settle
<1>4. map \in SUBSET Conns
  BY <1>1 DEF ConnTypes
<1>5. /\ FdTypes' /\ CountInv' /\ IdleInv' /\ OtherInv' /\ OwnInv'
      /\ fault' \in Faults
  BY <1>2, <1>4, SettleKeeps
<1>6. BoolTypes'
  BY <1>1, <1>2 DEF BoolTypes
<1>7. PlaceTypes'
  BY <1>1, <1>2, <1>5 DEF PlaceTypes, Faults
<1>8. ConnTypes'
  BY <1>1, <1>2, <1>3, <1>4 DEF ConnTypes, StateTypes, Queues
<1>9. LoopInv'
  BY <1>1, <1>2, <1>3 DEF LoopInv
<1>10. QueuedInv'
  BY <1>2, <1>3 DEF QueuedInv
<1>11. Running' => AddedInv'
  <2>1. Running' => how = "none"
    BY DEF settle, Running
  <2> QED
    BY <1>2, <1>3, <2>1 DEF AddedInv, Dead
<1>12. FaultInv'
  <2>1. ASSUME server = "alive" PROVE fault' = "none"
    <3>1. endedLoops = {}
      BY <1>1, <2>1 DEF LoopInv
    <3>2. reg \subseteq Referenced(map, q)
      BY <2>1, <3>1 DEF Dead
    <3>3. settle(map, q, reg, "none")
      BY <2>1
    <3> QED
      BY <1>1, <2>1, <3>2, <3>3, SettleSafe
  <2> QED
    BY <1>2, <2>1 DEF FaultInv
<1> QED
  BY <1>2, <1>5, <1>6, <1>7, <1>8, <1>9, <1>10, <1>11, <1>12 DEF IInv, Types

\* What holds while the process runs, in the form the steps use it.
LEMMA RunningFacts ==
  ASSUME IInv, Running
  PROVE  /\ queue \in Queues /\ ioLoop \in [Conns -> Loops]
         /\ state \in StateTypes /\ connections_ \subseteq Conns
         /\ added \subseteq Conns /\ 0 \in Loops
         /\ Placed(queue, ioLoop) /\ Ordered(queue, ioLoop, connections_)
         /\ \A l \in endedLoops : queue[l] = <<>>
         /\ \A c \in added : c < nextConnId_
         /\ \A c \in added :
              Dead(ioLoop[c]) \/ c \in Referenced(connections_, queue)
         /\ server = "alive" => AliveInv /\ endedLoops = {}
         /\ \A l \in Loops : Turns(l) => ~Dead(l) /\ l \notin endedLoops
         /\ endedLoops \subseteq Loops
<1>1. /\ ConnTypes /\ LoopInv /\ OwnInv /\ QueuedInv /\ AddedInv
      /\ server = "alive" => AliveInv
  BY DEF IInv, Types
<1>2. 0..numThreads_ \subseteq Loops /\ 0 \in Loops
      /\ endedLoops \subseteq 1..numThreads_
  BY <1>1, ServerAssumption DEF LoopInv, Loops
<1>3. /\ queue \in Queues /\ ioLoop \in [Conns -> Loops]
      /\ state \in StateTypes /\ connections_ \subseteq Conns
      /\ added \subseteq Conns
  BY <1>1, <1>2 DEF ConnTypes, Queues, StateTypes
<1>4. server = "alive" => endedLoops = {}
  BY <1>1 DEF LoopInv
<1>5. \A l \in Loops : Turns(l) => ~Dead(l) /\ l \notin endedLoops
  BY <1>2 DEF Turns, Dead, InBaseLoop
<1>6. endedLoops \subseteq Loops
  BY <1>2, ServerAssumption DEF Loops
<1> QED
  BY <1>1, <1>2, <1>3, <1>4, <1>5, <1>6 DEF QueuedInv, AddedInv, OwnInv

\* The functor that loop l runs next.
LEMMA RunFacts ==
  ASSUME IInv, NEW l \in Loops, NEW n \in Names, Runs(l, n)
  PROVE  LET c == Head(queue[l])[2]
         IN /\ Running /\ c \in Conns /\ Head(queue[l]) = <<n, c>>
            /\ queue[l] # <<>> /\ <<n, c>> \in Range(queue[l])
            /\ IF n = "removeConnectionInLoop" THEN l = 0 ELSE l = ioLoop[c]
            /\ c \in Referenced(connections_, queue) /\ c < nextConnId_
            /\ pop(l) = Popped(queue, l) /\ ~Dead(l) /\ l \notin endedLoops
<1> DEFINE h == Head(queue[l])
           c == h[2]
<1>1. /\ Running /\ Turns(l) /\ queue[l] # <<>> /\ h[1] = n
  BY DEF Runs, Turns, InBaseLoop
<1>2. queue \in Queues /\ Placed(queue, ioLoop)
  BY <1>1, RunningFacts
<1>3. h \in Functors /\ h \in Range(queue[l])
  BY <1>1, <1>2, PoppedFacts
<1>4. pop(l) = Popped(queue, l)
  BY DEF pop, Popped
<1> HIDE DEF h
<1>5. c \in Conns /\ h = <<n, c>>
  BY <1>1, <1>3 DEF Functors
<1>6. IF n = "removeConnectionInLoop" THEN l = 0 ELSE l = ioLoop[c]
  BY <1>1, <1>2, <1>3 DEF Placed
<1>7. c \in Referenced(connections_, queue)
  BY <1>3, Refers
<1>8. c < nextConnId_
  BY <1>7 DEF IInv, OwnInv
<1>9. ~Dead(l) /\ l \notin endedLoops
  BY <1>1, RunningFacts
<1> QED
  BY <1>1, <1>3, <1>4, <1>5, <1>6, <1>7, <1>8, <1>9 DEF h

\* The three functors of all connections differ.
LEMMA FunctorNames ==
  /\ \A c, d : Est(c) # Rem(d) /\ Est(c) # Des(d) /\ Rem(c) # Des(d)
  /\ \A c, d : Est(c) = Est(d) => c = d
  /\ \A c, d : Rem(c) = Rem(d) => c = d
  /\ \A c, d : Des(c) = Des(d) => c = d
  /\ \A c : Est(c)[2] = c /\ Rem(c)[2] = c /\ Des(c)[2] = c
BY DEF Est, Rem, Des

\* What is left of the queues when loop l has taken its first functor.
LEMMA RestFacts ==
  ASSUME IInv, Running, NEW l \in Loops, queue[l] # <<>>, l \notin endedLoops
  PROVE  LET q == Popped(queue, l)
         IN /\ q \in Queues /\ Placed(q, ioLoop)
            /\ Ordered(q, ioLoop, connections_)
            /\ \A m \in Loops : Range(q[m]) \subseteq Range(queue[m])
            /\ \A m \in Loops : \A f \in Range(queue[m]) :
                 f \in Range(q[m]) \/ (m = l /\ f = Head(queue[l]))
            /\ Referenced(connections_, q) \subseteq Referenced(connections_, queue)
            /\ \A m \in endedLoops : q[m] = <<>>
            /\ server = "alive" => Distinct(q) /\ Head(queue[l]) \notin Range(q[l])
<1> DEFINE q == Popped(queue, l)
<1>1. /\ queue \in Queues /\ ioLoop \in [Conns -> Loops]
      /\ Placed(queue, ioLoop) /\ Ordered(queue, ioLoop, connections_)
      /\ \A m \in endedLoops : queue[m] = <<>>
      /\ endedLoops \subseteq Loops
      /\ server = "alive" => Distinct(queue)
  BY RunningFacts DEF AliveInv
<1>2. /\ q \in Queues /\ \A m \in Loops : m # l => q[m] = queue[m]
      /\ Range(queue[l]) = Range(q[l]) \cup {Head(queue[l])}
  BY <1>1, PoppedFacts
<1>3. Ordered(q, ioLoop, connections_)
  BY <1>1, PoppedOrdered
<1>4. Referenced(connections_, q) \subseteq Referenced(connections_, queue)
  BY <1>1, PoppedRefers
<1>5. server = "alive" => Distinct(q) /\ Head(queue[l]) \notin Range(q[l])
  BY <1>1, PoppedDistinct
<1> HIDE DEF q
<1>6. /\ \A m \in Loops : Range(q[m]) \subseteq Range(queue[m])
      /\ \A m \in Loops : \A f \in Range(queue[m]) :
           f \in Range(q[m]) \/ (m = l /\ f = Head(queue[l]))
  BY <1>2
<1>7. Placed(q, ioLoop)
  BY <1>1, <1>2, <1>6, FewerPlaced
<1>8. \A m \in endedLoops : q[m] = <<>>
  BY <1>1, <1>2
<1> QED
  BY <1>2, <1>3, <1>4, <1>5, <1>6, <1>7, <1>8 DEF q

\* What the invariant says of one connection of a living server.
LEMMA StageFacts ==
  ASSUME IInv, Running, server = "alive", NEW c \in Conns
  PROVE  Stage(c) /\ Distinct(queue) /\ ioLoop[c] \in Loops
BY RunningFacts DEF AliveInv

LEMMA EstablishedKeeps ==
  ASSUME IInv, NEW l \in Loops, connectEstablished(l)
  PROVE  IInv'
<1> DEFINE c == Head(queue[l])[2]
           q == Popped(queue, l)
<1>1. /\ Runs(l, "connectEstablished") /\ state' = [state EXCEPT ![c] = "kConnected"]
      /\ settle(connections_, pop(l), added \cup {c}, "none")
      /\ UNCHANGED untouchedByConnection
  BY DEF connectEstablished
<1>2. /\ Running /\ c \in Conns /\ Head(queue[l]) = Est(c) /\ queue[l] # <<>>
      /\ Est(c) \in Range(queue[l]) /\ l = ioLoop[c] /\ c < nextConnId_
      /\ pop(l) = q /\ l \notin endedLoops
      /\ c \in Referenced(connections_, queue)
  BY <1>1, RunFacts DEF Names, Est
<1>3. /\ q \in Queues /\ Placed(q, ioLoop) /\ Ordered(q, ioLoop, connections_)
      /\ \A m \in Loops : Range(q[m]) \subseteq Range(queue[m])
      /\ \A m \in Loops : \A f \in Range(queue[m]) :
           f \in Range(q[m]) \/ (m = l /\ f = Head(queue[l]))
      /\ Referenced(connections_, q) \subseteq Referenced(connections_, queue)
      /\ \A m \in endedLoops : q[m] = <<>>
      /\ server = "alive" => Distinct(q) /\ Head(queue[l]) \notin Range(q[l])
  BY <1>2, RestFacts
<1>4. /\ state \in StateTypes /\ added \subseteq Conns /\ 0 \in Loops
      /\ \A d \in added : d < nextConnId_
      /\ Ordered(queue, ioLoop, connections_)
      /\ \A d \in added : Dead(ioLoop[d]) \/ d \in Referenced(connections_, queue)
  BY <1>2, RunningFacts
<1> HIDE DEF c, q
<1>5. /\ state' \in StateTypes /\ state'[c] = "kConnected"
      /\ \A d \in Conns : d # c => state'[d] = state[d]
  BY <1>1, <1>2, <1>4 DEF StateTypes
<1>6. c \in Referenced(connections_, q)
  <2>1. c \in connections_ \/ Des(c) \in Range(queue[l])
    BY <1>2, <1>4 DEF Ordered
  <2>2. Des(c) \in Range(queue[l]) => Des(c) \in Range(q[l])
    BY <1>2, <1>3, FunctorNames
  <2> QED
    BY <2>1, <2>2, FunctorNames, Refers
<1>7. Referenced(connections_, queue) \subseteq Referenced(connections_, q)
  BY <1>2, <1>6, PoppedRefers, RunningFacts DEF c, q
<1>8. \A d \in added \cup {c} : Dead(ioLoop[d]) \/ d \in Referenced(connections_, q)
  BY <1>4, <1>6, <1>7
<1>9. \A d \in added \cup {c} : d < nextConnId_
  BY <1>2, <1>4
<1>10. ASSUME server = "alive" PROVE AliveInv'
  <2>1. connections_' = connections_ /\ queue' = q /\ added' = added \cup {c}
        /\ ioLoop' = ioLoop
    BY <1>1, <1>2 DEF settle, untouchedByConnection
  <2>2. Distinct(q) /\ Est(c) \notin Range(q[l])
    BY <1>2, <1>3, <1>10
  <2>3. ASSUME NEW d \in Conns PROVE Stage(d)'
    <3>1. Stage(d) /\ Stage(c) /\ ioLoop[d] \in Loops
      BY <1>2, <1>10, StageFacts
    <3>2. /\ Est(d) \in Range(q[ioLoop[d]]) => Est(d) \in Range(queue[ioLoop[d]])
          /\ Des(d) \in Range(q[ioLoop[d]]) => Des(d) \in Range(queue[ioLoop[d]])
          /\ Rem(d) \in Range(q[0]) => Rem(d) \in Range(queue[0])
      BY <1>3, <1>4, <3>1
    <3>3. CASE d = c
      BY <1>2, <1>5, <2>1, <2>2, <3>1, <3>2, <3>3 DEF Stage
    <3>4. CASE d # c
      BY <1>5, <2>1, <3>1, <3>2, <3>4 DEF Stage
    <3> QED
      BY <3>3, <3>4
  <2> QED
    BY <2>1, <2>2, <2>3 DEF AliveInv
<1>11. settle(connections_, q, added \cup {c}, "none") /\ added \cup {c} \in SUBSET Conns
       /\ "none" \in Faults
  BY <1>1, <1>2, <1>4 DEF Faults
<1> QED
  BY <1>1, <1>2, <1>3, <1>5, <1>8, <1>9, <1>10, <1>11, StepKeeps

LEMMA DestroyedKeeps ==
  ASSUME IInv, NEW l \in Loops, connectDestroyed(l)
  PROVE  IInv'
<1> DEFINE c == Head(queue[l])[2]
           q == Popped(queue, l)
<1>1. /\ Runs(l, "connectDestroyed")
      /\ state' = [state EXCEPT ![c] = "kDisconnected"]
      /\ settle(connections_, pop(l), added \ {c}, removes(c))
      /\ UNCHANGED untouchedByConnection
  BY DEF connectDestroyed, connectDestroyedNow
<1>2. /\ Running /\ c \in Conns /\ Head(queue[l]) = Des(c) /\ queue[l] # <<>>
      /\ Des(c) \in Range(queue[l]) /\ l = ioLoop[c]
      /\ pop(l) = q /\ l \notin endedLoops
  BY <1>1, RunFacts DEF Names, Des
<1>3. /\ q \in Queues /\ Placed(q, ioLoop) /\ Ordered(q, ioLoop, connections_)
      /\ \A m \in Loops : Range(q[m]) \subseteq Range(queue[m])
      /\ Referenced(connections_, q) \subseteq Referenced(connections_, queue)
      /\ \A m \in endedLoops : q[m] = <<>>
      /\ server = "alive" => Distinct(q) /\ Head(queue[l]) \notin Range(q[l])
  BY <1>2, RestFacts
<1>4. /\ state \in StateTypes /\ added \subseteq Conns /\ 0 \in Loops
      /\ \A d \in added : d < nextConnId_
      /\ \A d \in added : Dead(ioLoop[d]) \/ d \in Referenced(connections_, queue)
  BY <1>2, RunningFacts
<1>5. Referenced(connections_, queue) = Referenced(connections_, q) \cup {c}
  BY <1>2, PoppedRefers, RunningFacts
<1> HIDE DEF c, q
<1>6. /\ state' \in StateTypes /\ state'[c] = "kDisconnected"
      /\ \A d \in Conns : d # c => state'[d] = state[d]
  BY <1>1, <1>2, <1>4 DEF StateTypes
<1>7. \A d \in added \ {c} : Dead(ioLoop[d]) \/ d \in Referenced(connections_, q)
  BY <1>4, <1>5
<1>8. ASSUME server = "alive" PROVE removes(c) = "none" /\ AliveInv'
  <2>1. connections_' = connections_ /\ queue' = q /\ added' = added \ {c}
        /\ ioLoop' = ioLoop
    BY <1>1, <1>2 DEF settle, untouchedByConnection
  <2>2. Distinct(q) /\ Des(c) \notin Range(q[l])
    BY <1>2, <1>3, <1>8
  <2>3. Stage(c)
    BY <1>2, <1>8, StageFacts
  <2>4. removes(c) = "none"
    BY <1>2, <2>3 DEF Stage, removes
  <2>5. ASSUME NEW d \in Conns PROVE Stage(d)'
    <3>1. Stage(d) /\ ioLoop[d] \in Loops
      BY <1>2, <1>8, StageFacts
    <3>2. /\ Est(d) \in Range(q[ioLoop[d]]) => Est(d) \in Range(queue[ioLoop[d]])
          /\ Des(d) \in Range(q[ioLoop[d]]) => Des(d) \in Range(queue[ioLoop[d]])
          /\ Rem(d) \in Range(q[0]) => Rem(d) \in Range(queue[0])
      BY <1>3, <1>4, <3>1
    <3>3. CASE d = c
      BY <1>2, <1>6, <2>1, <2>2, <2>3, <3>2, <3>3 DEF Stage
    <3>4. CASE d # c
      BY <1>6, <2>1, <3>1, <3>2, <3>4 DEF Stage
    <3> QED
      BY <3>3, <3>4
  <2> QED
    BY <2>1, <2>2, <2>4, <2>5 DEF AliveInv
<1>9. /\ settle(connections_, q, added \ {c}, removes(c))
      /\ added \ {c} \in SUBSET Conns /\ removes(c) \in Faults
      /\ \A d \in added \ {c} : d < nextConnId_
  BY <1>1, <1>2, <1>4 DEF Faults, removes
<1> QED
  BY <1>1, <1>2, <1>3, <1>6, <1>7, <1>8, <1>9, StepKeeps

\* removeConnectionInLoop() of c, the queues being q: its entry is replaced by
\* a functor that keeps c until connectDestroyed() has run.
LEMMA RemoveKeeps ==
  ASSUME IInv, Running, UNCHANGED untouchedByConnection, state' \in StateTypes,
         NEW c \in Conns, NEW q \in Queues, removeInLoop(c, q),
         c \in Referenced(connections_, queue), ioLoop[c] \notin endedLoops,
         Referenced(connections_, q) \subseteq Referenced(connections_, queue),
         Referenced(connections_, queue) \subseteq Referenced(connections_, q) \cup {c},
         \A m \in Loops : Range(q[m]) \subseteq Range(queue[m]),
         Placed(q, ioLoop), Ordered(q, ioLoop, connections_),
         \A l \in endedLoops : q[l] = <<>>,
         server = "alive" =>
           /\ Distinct(q) /\ state'[c] = "kDisconnected" /\ c \in connections_
           /\ c \in added /\ \A d \in Conns : d # c => state'[d] = state[d]
           /\ Est(c) \notin Range(q[ioLoop[c]]) /\ Rem(c) \notin Range(q[0])
           /\ Des(c) \notin Range(q[ioLoop[c]])
  PROVE  IInv'
<1> DEFINE io == ioLoop[c]
           r == post(q, io, "connectDestroyed", c)
           how == IF ~ndebug /\ c \notin connections_ THEN "assert" ELSE "none"
           left == erased(c)
<1>1. /\ ioLoop \in [Conns -> Loops] /\ added \subseteq Conns /\ 0 \in Loops
      /\ endedLoops \subseteq Loops /\ \A d \in added : d < nextConnId_
      /\ \A d \in added : Dead(ioLoop[d]) \/ d \in Referenced(connections_, queue)
  BY RunningFacts
<1>2. settle(left, r, added, how)
  BY DEF removeInLoop
<1>3. io \in Loops /\ "connectDestroyed" \in Names /\ Des(c) = <<"connectDestroyed", c>>
  BY <1>1 DEF Names, Des
<1>4. /\ r \in Queues /\ Range(r[io]) = Range(q[io]) \cup {Des(c)}
      /\ \A m \in Loops : m # io => r[m] = q[m]
  BY <1>3, PostFacts
<1>5. Placed(r, ioLoop)
  BY <1>1, <1>3, PostPlaced
<1>6. left \subseteq connections_ /\ connections_ \subseteq left \cup {c}
  BY DEF erased
<1>7. Ordered(r, ioLoop, left)
  <2>1. \A d \in connections_ : d \in left \/ d = c
    BY <1>6
  <2> HIDE DEF left
  <2> QED
    BY <1>1, <1>3, <2>1, PostOrdered
<1>8. Referenced(left, r) = Referenced(left, q) \cup {c}
  BY <1>3, PostRefers
<1>9. server = "alive" => Distinct(r)
  BY <1>3, PostDistinct
<1>10. how \in Faults /\ (server = "alive" => how = "none")
  BY DEF Faults
<1> HIDE DEF r, left, how
<1>11. Referenced(left, r) = Referenced(connections_, q) \cup {c}
  BY <1>6, <1>8 DEF Referenced
<1>12. \A m \in endedLoops : r[m] = <<>>
  BY <1>1, <1>4
<1>13. \A d \in added : Dead(ioLoop[d]) \/ d \in Referenced(left, r)
  BY <1>1, <1>11
<1>14. Referenced(left, r) \subseteq Referenced(connections_, queue)
  BY <1>11
<1>15. ASSUME server = "alive" PROVE AliveInv'
  <2>1. connections_' = left /\ queue' = r /\ added' = added /\ ioLoop' = ioLoop
    BY <1>2 DEF settle, untouchedByConnection
  <2>2. ASSUME NEW d \in Conns PROVE Stage(d)'
    <3>1. Stage(d) /\ ioLoop[d] \in Loops
      BY <1>15, StageFacts
    <3>2. \A m \in Loops : \A f \in Range(r[m]) :
            f \in Range(q[m]) \/ (m = io /\ f = Des(c))
      BY <1>4
    <3>3. /\ Est(d) \in Range(r[ioLoop[d]]) => Est(d) \in Range(q[ioLoop[d]])
          /\ Rem(d) \in Range(r[0]) => Rem(d) \in Range(q[0])
          /\ Des(d) \in Range(r[ioLoop[d]]) =>
               Des(d) \in Range(q[ioLoop[d]]) \/ d = c
      <4>1. Est(d) # Des(c) /\ Rem(d) # Des(c) /\ (Des(d) = Des(c) => d = c)
        BY FunctorNames
      <4> QED
        BY <1>1, <3>1, <3>2, <4>1
    <3>4. /\ Range(q[ioLoop[d]]) \subseteq Range(queue[ioLoop[d]])
          /\ Range(q[0]) \subseteq Range(queue[0])
      BY <1>1, <3>1
    <3>5. CASE d = c
      BY <1>15, <2>1, <3>3, <3>5 DEF Stage
    <3>6. CASE d # c
      <4>1. state'[d] = state[d] /\ (d \in connections_ => d \in left)
        BY <1>6, <1>15, <3>6
      <4> QED
        BY <2>1, <3>1, <3>3, <3>4, <3>6, <4>1 DEF Stage
    <3> QED
      BY <3>5, <3>6
  <2> QED
    BY <1>9, <1>15, <2>1, <2>2 DEF AliveInv
<1> QED
  BY <1>1, <1>2, <1>4, <1>5, <1>6, <1>7, <1>10, <1>12, <1>13, <1>14, <1>15,
     StepKeeps

LEMMA PeerClosesKeeps ==
  ASSUME IInv, NEW c \in Conns, PeerCloses(c)
  PROVE  IInv'
<1>1. /\ Turns(ioLoop[c]) /\ c \in added /\ state[c] = "kConnected"
      /\ state' = [state EXCEPT ![c] = "kDisconnected"]
      /\ UNCHANGED untouchedByConnection /\ Running
  BY DEF PeerCloses, Turns, InBaseLoop
<1>2. /\ queue \in Queues /\ ioLoop \in [Conns -> Loops] /\ state \in StateTypes
      /\ added \subseteq Conns /\ 0 \in Loops /\ endedLoops \subseteq Loops
      /\ Placed(queue, ioLoop) /\ Ordered(queue, ioLoop, connections_)
      /\ \A l \in endedLoops : queue[l] = <<>>
      /\ \A d \in added : d < nextConnId_
      /\ \A d \in added : Dead(ioLoop[d]) \/ d \in Referenced(connections_, queue)
      /\ \A l \in Loops : Turns(l) => ~Dead(l) /\ l \notin endedLoops
  BY <1>1, RunningFacts
<1>3. ioLoop[c] \notin endedLoops /\ c \in Referenced(connections_, queue)
  BY <1>1, <1>2
<1>4. /\ state' \in StateTypes /\ state'[c] = "kDisconnected"
      /\ \A d \in Conns : d # c => state'[d] = state[d]
  BY <1>1, <1>2 DEF StateTypes
<1>5. ASSUME server = "alive"
      PROVE  /\ Distinct(queue) /\ c \in connections_
             /\ Est(c) \notin Range(queue[ioLoop[c]]) /\ Rem(c) \notin Range(queue[0])
             /\ Des(c) \notin Range(queue[ioLoop[c]])
  <2>1. Stage(c) /\ Distinct(queue)
    BY <1>1, <1>5, StageFacts
  <2> QED
    BY <1>1, <2>1 DEF Stage
<1>6. CASE ioLoop[c] = 0
  <2>1. removeInLoop(c, queue)
    BY <1>6 DEF PeerCloses
  <2> QED
    BY <1>1, <1>2, <1>3, <1>4, <1>5, <2>1, RemoveKeeps
<1>7. CASE ioLoop[c] # 0
  <2> DEFINE r == post(queue, 0, "removeConnectionInLoop", c)
  <2>1. settle(connections_, r, added, "none") /\ "none" \in Faults
    BY <1>7 DEF PeerCloses, Faults
  <2>2. "removeConnectionInLoop" \in Names /\ Rem(c) = <<"removeConnectionInLoop", c>>
    BY DEF Names, Rem
  <2>3. /\ r \in Queues /\ Range(r[0]) = Range(queue[0]) \cup {Rem(c)}
        /\ \A m \in Loops : m # 0 => r[m] = queue[m]
    BY <1>2, <2>2, PostFacts
  <2>4. Placed(r, ioLoop)
    BY <1>2, <2>2, PostPlaced
  <2>5. Ordered(r, ioLoop, connections_)
    BY <1>2, <2>2, PostOrdered
  <2>6. Referenced(connections_, r) = Referenced(connections_, queue)
    <3>1. Referenced(connections_, r) = Referenced(connections_, queue) \cup {c}
      BY <1>2, <2>2, PostRefers
    <3> QED
      BY <1>3, <3>1
  <2>7. server = "alive" => Distinct(r)
    BY <1>2, <1>5, <2>2, PostDistinct
  <2>8. 0 \notin endedLoops
    BY ServerAssumption DEF IInv, LoopInv
  <2> HIDE DEF r
  <2>9. \A m \in endedLoops : r[m] = <<>>
    BY <1>2, <2>3, <2>8
  <2>10. ASSUME server = "alive" PROVE AliveInv'
    <3>1. connections_' = connections_ /\ queue' = r /\ added' = added
          /\ ioLoop' = ioLoop
      BY <1>1, <2>1 DEF settle, untouchedByConnection
    <3>2. ASSUME NEW d \in Conns PROVE Stage(d)'
      <4>1. Stage(d) /\ ioLoop[d] \in Loops
        BY <1>1, <2>10, StageFacts
      <4>2. Est(d) # Rem(c) /\ Des(d) # Rem(c) /\ (Rem(d) = Rem(c) => d = c)
        BY FunctorNames
      <4>3. \A m \in Loops : \A f \in Range(r[m]) :
              f \in Range(queue[m]) \/ (m = 0 /\ f = Rem(c))
        BY <2>3
      <4>4. /\ Est(d) \in Range(r[ioLoop[d]]) => Est(d) \in Range(queue[ioLoop[d]])
            /\ Des(d) \in Range(r[ioLoop[d]]) => Des(d) \in Range(queue[ioLoop[d]])
            /\ Rem(d) \in Range(r[0]) => Rem(d) \in Range(queue[0]) \/ d = c
        BY <1>2, <4>1, <4>2, <4>3
      <4>5. CASE d = c
        BY <1>1, <1>4, <1>5, <2>10, <3>1, <4>1, <4>4, <4>5 DEF Stage
      <4>6. CASE d # c
        BY <1>4, <3>1, <4>1, <4>4, <4>6 DEF Stage
      <4> QED
        BY <4>5, <4>6
    <3> QED
      BY <2>7, <2>10, <3>1, <3>2 DEF AliveInv
  <2>11. \A d \in added : Dead(ioLoop[d]) \/ d \in Referenced(connections_, r)
    BY <1>2, <2>6
  <2> QED
    BY <1>1, <1>2, <1>4, <2>1, <2>3, <2>4, <2>5, <2>6, <2>9, <2>10, <2>11, StepKeeps
<1> QED
  BY <1>6, <1>7

LEMMA RemoveConnectionKeeps ==
  ASSUME IInv, removeConnectionInLoop
  PROVE  IInv'
<1> DEFINE c == Head(queue[0])[2]
           q == Popped(queue, 0)
<1>1. /\ Runs(0, "removeConnectionInLoop") /\ UNCHANGED untouchedByConnection
      /\ IF server = "gone" THEN settle(connections_, pop(0), added, "uaf")
                            ELSE removeInLoop(c, pop(0))
      /\ state' = state /\ server \in {"alive", "gone"} /\ baseRuns /\ 0 \in Loops
  BY ServerAssumption
     DEF removeConnectionInLoop, Runs, Turns, InBaseLoop, IInv, Types, PlaceTypes, Loops
<1>2. /\ Running /\ c \in Conns /\ Head(queue[0]) = Rem(c) /\ queue[0] # <<>>
      /\ Rem(c) \in Range(queue[0])
      /\ pop(0) = q /\ 0 \notin endedLoops
      /\ c \in Referenced(connections_, queue)
  BY <1>1, RunFacts DEF Names, Rem
<1>3. /\ q \in Queues /\ Placed(q, ioLoop) /\ Ordered(q, ioLoop, connections_)
      /\ \A m \in Loops : Range(q[m]) \subseteq Range(queue[m])
      /\ Referenced(connections_, q) \subseteq Referenced(connections_, queue)
      /\ \A m \in endedLoops : q[m] = <<>>
      /\ server = "alive" => Distinct(q) /\ Head(queue[0]) \notin Range(q[0])
  BY <1>1, <1>2, RestFacts
<1>4. /\ state \in StateTypes /\ added \subseteq Conns
      /\ \A d \in added : d < nextConnId_
      /\ \A d \in added : Dead(ioLoop[d]) \/ d \in Referenced(connections_, queue)
      /\ server = "alive" => endedLoops = {}
  BY <1>2, RunningFacts
<1>5. Referenced(connections_, queue) = Referenced(connections_, q) \cup {c}
  BY <1>1, <1>2, PoppedRefers, RunningFacts
<1> HIDE DEF c, q
<1>6. CASE server = "alive"
  <2>1. Stage(c) /\ ioLoop[c] \in Loops
    BY <1>2, <1>6, StageFacts
  <2>2. /\ state'[c] = "kDisconnected" /\ c \in connections_ /\ c \in added
        /\ Est(c) \notin Range(queue[ioLoop[c]])
        /\ Des(c) \notin Range(queue[ioLoop[c]])
    BY <1>1, <1>2, <2>1 DEF Stage
  <2>3. /\ Est(c) \notin Range(q[ioLoop[c]]) /\ Des(c) \notin Range(q[ioLoop[c]])
        /\ Rem(c) \notin Range(q[0]) /\ Distinct(q)
    BY <1>2, <1>3, <1>6, <2>1, <2>2
  <2>4. removeInLoop(c, q) /\ ioLoop[c] \notin endedLoops
    BY <1>1, <1>2, <1>4, <1>6
  <2>5. state' \in StateTypes /\ \A d \in Conns : d # c => state'[d] = state[d]
    BY <1>1, <1>4
  <2> QED
    BY <1>1, <1>2, <1>3, <1>5, <2>2, <2>3, <2>4, <2>5, RemoveKeeps
<1>7. CASE server = "gone"
  <2>1. settle(connections_, q, added, "uaf") /\ "uaf" \in Faults /\ state' \in StateTypes
    BY <1>1, <1>2, <1>4, <1>7 DEF Faults
  <2> QED
    BY <1>1, <1>2, <1>3, <1>4, <1>7, <2>1, StepKeeps
<1> QED
  BY <1>1, <1>6, <1>7

-----------------------------------------------------------------------------
(* The steps of ~TcpServer                                                  *)

LEMMA DestroyConnectionKeeps ==
  ASSUME IInv, NEW c \in Conns, destroyConnection(c)
  PROVE  IInv'
<1> DEFINE left == connections_ \ {c}
<1>1. /\ Running /\ server = "dying" /\ c \in connections_
      /\ UNCHANGED untouchedByConnection
  BY DEF destroyConnection
<1>2. /\ queue \in Queues /\ ioLoop \in [Conns -> Loops] /\ state \in StateTypes
      /\ added \subseteq Conns /\ 0 \in Loops
      /\ Placed(queue, ioLoop) /\ Ordered(queue, ioLoop, connections_)
      /\ \A d \in added : d < nextConnId_
      /\ \A d \in added : Dead(ioLoop[d]) \/ d \in Referenced(connections_, queue)
  BY <1>1, RunningFacts
<1>3. endedLoops = {}
  BY <1>1 DEF IInv, LoopInv
<1>4. /\ Referenced(left, queue) \subseteq Referenced(connections_, queue)
      /\ Referenced(connections_, queue) \subseteq Referenced(left, queue) \cup {c}
      /\ c \in Referenced(connections_, queue)
  BY <1>1 DEF Referenced
<1>5. CASE ioLoop[c] = 0
  <2>1. /\ state' = [state EXCEPT ![c] = "kDisconnected"]
        /\ settle(left, queue, added \ {c}, removes(c))
    BY <1>5 DEF destroyConnection, connectDestroyedNow
  <2>2. state' \in StateTypes /\ removes(c) \in Faults
    BY <1>2, <2>1 DEF StateTypes, removes, Faults
  <2>3. Ordered(queue, ioLoop, left)
    <3>1. Est(c) \notin Range(queue[ioLoop[c]])
      BY <1>2, <1>5 DEF Placed
    <3>2. ASSUME NEW d \in Conns, Est(d) \in Range(queue[ioLoop[d]])
          PROVE  d \in left \/ Des(d) \in Range(queue[ioLoop[d]])
      <4>1. d # c
        BY <3>1, <3>2
      <4>2. d \in connections_ \/ Des(d) \in Range(queue[ioLoop[d]])
        BY <1>2, <3>2 DEF Ordered
      <4> QED
        BY <4>1, <4>2
    <3> QED
      BY <1>2, <3>2 DEF Ordered
  <2>4. \A d \in added \ {c} : Dead(ioLoop[d]) \/ d \in Referenced(left, queue)
    BY <1>2, <1>4
  <2>5. /\ left \in SUBSET connections_ /\ added \ {c} \in SUBSET Conns
        /\ \A d \in added \ {c} : d < nextConnId_
    BY <1>2
  <2> QED
    BY <1>1, <1>2, <1>3, <1>4, <2>1, <2>2, <2>3, <2>4, <2>5, StepKeeps
<1>6. CASE ioLoop[c] # 0
  <2> DEFINE io == ioLoop[c]
             r == post(queue, io, "connectDestroyed", c)
  <2>1. settle(left, r, added, "none") /\ state' = state /\ "none" \in Faults
    BY <1>6 DEF destroyConnection, Faults
  <2>2. io \in Loops /\ "connectDestroyed" \in Names
    BY <1>2 DEF Names
  <2>3. r \in Queues
    BY <1>2, <2>2, PostFacts
  <2>4. Placed(r, ioLoop)
    BY <1>2, <2>2, PostPlaced
  <2>5. Ordered(r, ioLoop, left)
    <3>1. \A d \in connections_ : d \in left \/ d = c
      OBVIOUS
    <3> HIDE DEF left
    <3> QED
      BY <1>2, <2>2, <3>1, PostOrdered
  <2>6. Referenced(left, r) = Referenced(left, queue) \cup {c}
    BY <1>2, <2>2, PostRefers
  <2> HIDE DEF r
  <2>7. /\ Referenced(left, r) \subseteq Referenced(connections_, queue)
        /\ \A d \in added : Dead(ioLoop[d]) \/ d \in Referenced(left, r)
    BY <1>2, <1>4, <2>6
  <2>8. left \in SUBSET connections_ /\ added \in SUBSET Conns /\ state' \in StateTypes
    BY <1>2, <2>1
  <2> QED
    BY <1>1, <1>2, <1>3, <2>1, <2>3, <2>4, <2>5, <2>7, <2>8, StepKeeps
<1> QED
  BY <1>5, <1>6

LEMMA DestroyBaseKeeps ==
  ASSUME IInv, destroyBaseLoop
  PROVE  IInv'
<1> DEFINE q == Cleared(queue, 0)
<1>1. /\ Running /\ server = "gone" /\ ~baseRuns /\ state' = state
      /\ settle(connections_, q, added, "none") /\ "none" \in Faults
      /\ UNCHANGED untouchedByConnection
  BY DEF destroyBaseLoop, Cleared, Faults
<1>2. /\ queue \in Queues /\ ioLoop \in [Conns -> Loops] /\ state \in StateTypes
      /\ added \subseteq Conns /\ 0 \in Loops /\ endedLoops \subseteq Loops
      /\ Placed(queue, ioLoop) /\ Ordered(queue, ioLoop, connections_)
      /\ \A l \in endedLoops : queue[l] = <<>>
      /\ \A d \in added : d < nextConnId_
  BY <1>1, RunningFacts
<1>3. /\ q \in Queues /\ q[0] = <<>>
      /\ \A m \in Loops : m # 0 => q[m] = queue[m]
      /\ \A m \in Loops : Range(q[m]) \subseteq Range(queue[m])
      /\ Referenced(connections_, q) \subseteq Referenced(connections_, queue)
  BY <1>2, ClearedFacts
<1>4. Ordered(q, ioLoop, connections_)
  BY <1>2, ClearedOrdered
<1> HIDE DEF q
<1>5. Placed(q, ioLoop)
  BY <1>2, <1>3, FewerPlaced
<1>6. \A l \in endedLoops : q[l] = <<>>
  BY <1>2, <1>3
<1>7. \A d \in added : Dead(ioLoop[d])
  <2>1. /\ endedLoops = 1..numThreads_ /\ numThreads_ \in Nat
        /\ ioLoop \in [Conns -> 0..numThreads_]
    BY <1>1, ServerAssumption DEF IInv, LoopInv, Types, ConnTypes
  <2> QED
    BY <1>1, <1>2, <2>1 DEF Dead
<1>8. connections_ \in SUBSET connections_ /\ added \in SUBSET Conns
      /\ state' \in StateTypes
  BY <1>1, <1>2
<1> QED
  BY <1>1, <1>2, <1>3, <1>4, <1>5, <1>6, <1>7, <1>8, StepKeeps

\* A loop ends with its functors; only connections of that loop can lose
\* their last reference with them, once the map is empty.
LEMMA EndThreadKeeps ==
  ASSUME IInv, NEW l \in Loops, endThread(l)
  PROVE  IInv'
<1> DEFINE q == Cleared(queue, l)
<1>1. /\ Running /\ l \in quitLoops \ endedLoops
      /\ endedLoops' = endedLoops \cup {l}
      /\ settle(connections_, q, added, "none") /\ "none" \in Faults
      /\ numThreads_' = numThreads_ /\ next_' = next_ /\ quitLoops' = quitLoops
      /\ nextConnId_' = nextConnId_ /\ state' = state /\ fd' = fd
      /\ ioLoop' = ioLoop /\ listening_' = listening_ /\ baseRuns' = baseRuns
      /\ server' = server /\ idleFd_' = idleFd_ /\ acceptPc' = acceptPc
      /\ others' = others /\ opened' = opened /\ backlog' = backlog
      /\ arrived' = arrived /\ stolen' = stolen /\ ndebug' = ndebug
  BY DEF endThread, Cleared, Faults
<1>2. /\ queue \in Queues /\ ioLoop \in [Conns -> Loops] /\ state \in StateTypes
      /\ added \subseteq Conns /\ 0 \in Loops /\ endedLoops \subseteq Loops
      /\ Placed(queue, ioLoop) /\ Ordered(queue, ioLoop, connections_)
      /\ \A m \in endedLoops : queue[m] = <<>>
      /\ \A d \in added : d < nextConnId_
      /\ \A d \in added : Dead(ioLoop[d]) \/ d \in Referenced(connections_, queue)
  BY <1>1, RunningFacts
<1>3. /\ BoolTypes /\ PlaceTypes /\ ConnTypes /\ LoopInv
      /\ server # "alive" /\ l # 0 /\ server # "gone"
  <2>1. /\ BoolTypes /\ PlaceTypes /\ ConnTypes /\ LoopInv
    BY DEF IInv, Types
  <2>2. quitLoops # {} /\ l \in 1..numThreads_ /\ numThreads_ \in Nat
    BY <1>1, <2>1, ServerAssumption DEF LoopInv
  <2> QED
    BY <1>1, <2>1, <2>2 DEF LoopInv
<1>4. /\ q \in Queues /\ q[l] = <<>>
      /\ \A m \in Loops : m # l => q[m] = queue[m]
      /\ \A m \in Loops : Range(q[m]) \subseteq Range(queue[m])
      /\ Referenced(connections_, q) \subseteq Referenced(connections_, queue)
      /\ \A c \in Referenced(connections_, queue) \ Referenced(connections_, q) :
           \E f \in Range(queue[l]) : f[2] = c
  <2>1. /\ q \in Queues /\ q[l] = <<>>
        /\ \A m \in Loops : m # l => q[m] = queue[m]
        /\ \A m \in Loops : Range(q[m]) \subseteq Range(queue[m])
    BY <1>2, ClearedFacts
  <2>2. Referenced(connections_, q) \subseteq Referenced(connections_, queue)
    BY <1>2, ClearedFacts
  <2>3. \A c \in Referenced(connections_, queue) \ Referenced(connections_, q) :
          \E f \in Range(queue[l]) : f[2] = c
    BY <1>2, ClearedFacts
  <2> QED
    BY <2>1, <2>2, <2>3
<1>5. Ordered(q, ioLoop, connections_)
  BY <1>2, ClearedOrdered
<1> HIDE DEF q
<1>6. Placed(q, ioLoop)
  BY <1>2, <1>4, FewerPlaced
<1>7. connections_ \in SUBSET Conns /\ added \in SUBSET Conns
  BY <1>2, <1>3 DEF ConnTypes
<1>8. /\ FdTypes' /\ CountInv' /\ IdleInv' /\ OtherInv' /\ OwnInv'
      /\ fault' \in Faults
  BY <1>1, <1>2, <1>4, <1>7, SettleKeeps
<1>9. connections_' = connections_ /\ queue' = q /\ added' = added
  BY <1>1 DEF settle
<1>10. BoolTypes' /\ PlaceTypes'
  BY <1>1, <1>3, <1>8 DEF BoolTypes, PlaceTypes, Faults
<1>11. ConnTypes'
  BY <1>1, <1>3, <1>4, <1>9 DEF ConnTypes, Queues
<1>12. LoopInv'
  BY <1>1, <1>3, <1>9 DEF LoopInv
<1>13. QueuedInv'
  <2>1. \A m \in endedLoops \cup {l} : q[m] = <<>>
    BY <1>2, <1>4
  <2> QED
    BY <1>1, <1>5, <1>6, <1>9, <2>1 DEF QueuedInv
<1>14. AddedInv'
  <2>1. ASSUME NEW d \in added
        PROVE  Dead(ioLoop[d])' \/ d \in Referenced(connections_, q)
    <3>1. Dead(ioLoop[d]) => Dead(ioLoop[d])'
      BY <1>1 DEF Dead
    <3>2. ASSUME d \in Referenced(connections_, queue),
                 d \notin Referenced(connections_, q)
          PROVE  Dead(ioLoop[d])'
      <4>1. PICK f \in Range(queue[l]) : f[2] = d
        BY <1>4, <3>2
      <4>2. ioLoop[d] = l
        BY <1>2, <1>3, <4>1 DEF Placed
      <4> QED
        BY <1>1, <1>3, <4>2 DEF Dead
    <3> QED
      BY <1>2, <3>1, <3>2
  <2> QED
    BY <1>1, <1>9, <2>1 DEF AddedInv
<1>15. FaultInv'
  BY <1>1, <1>3 DEF FaultInv
<1> QED
  BY <1>1, <1>3, <1>8, <1>10, <1>11, <1>12, <1>13, <1>14, <1>15 DEF IInv, Types

-----------------------------------------------------------------------------
(* The steps that change no connection and no descriptor                    *)

LEMMA FlagsKeep ==
  ASSUME IInv, Running,
         UNCHANGED <<numThreads_, next_, endedLoops, conns, queue, idleFd_,
                     acceptPc, fds, others, opened, stolen, ndebug, fault>>,
         listening_' \in BOOLEAN, baseRuns' \in BOOLEAN, baseRuns' => baseRuns,
         server' = server \/ server' \in {"dying", "gone"},
         server = "gone" => server' = "gone", CountInv', LoopInv', IdleInv'
  PROVE  IInv'
<1>1. /\ Types /\ OtherInv /\ OwnInv /\ QueuedInv /\ AddedInv
      /\ FaultInv /\ (server = "alive" => AliveInv)
  BY DEF IInv
<1>2. /\ numThreads_' = numThreads_ /\ endedLoops' = endedLoops
      /\ nextConnId_' = nextConnId_ /\ connections_' = connections_
      /\ state' = state /\ fd' = fd /\ ioLoop' = ioLoop /\ added' = added
      /\ queue' = queue /\ idleFd_' = idleFd_ /\ acceptPc' = acceptPc
      /\ fds' = fds /\ others' = others /\ opened' = opened /\ stolen' = stolen
      /\ ndebug' = ndebug /\ fault' = fault
  BY DEF conns
<1>3. Types'
  BY <1>1, <1>2 DEF Types, BoolTypes, PlaceTypes, ConnTypes, FdTypes
<1>4. OtherInv' /\ OwnInv'
  BY <1>1, <1>2 DEF OtherInv, OwnInv
<1>5. QueuedInv'
  BY <1>1, <1>2 DEF QueuedInv
<1>6. AddedInv'
  BY <1>1, <1>2 DEF AddedInv, Dead
<1>7. FaultInv'
  BY <1>2 DEF FaultInv, Running
<1>8. server' = "alive" => AliveInv'
  <2>1. server' = "alive" => server = "alive"
    OBVIOUS
  <2>2. AliveInv => AliveInv'
    BY <1>2 DEF AliveInv, Stage
  <2> QED
    BY <1>1, <2>1, <2>2
<1> QED
  BY <1>3, <1>4, <1>5, <1>6, <1>7, <1>8 DEF IInv

LEMMA FlagStepsKeep ==
  ASSUME IInv, \/ ClientConnects \/ start \/ quitBase \/ beginDestroy
               \/ (\E l \in Loops : quitThread(l)) \/ endDestroy
  PROVE  IInv'
<1>1. /\ BoolTypes /\ PlaceTypes /\ CountInv /\ LoopInv /\ IdleInv
      /\ FdTypes /\ ConnTypes
  BY DEF IInv, Types
<1>2. CASE ClientConnects
  <2>1. /\ Running /\ arrived < MaxClients /\ listening_' = listening_
        /\ backlog' = backlog + 1 /\ arrived' = arrived + 1
        /\ numThreads_' = numThreads_ /\ next_' = next_ /\ quitLoops' = quitLoops
        /\ endedLoops' = endedLoops /\ baseRuns' = baseRuns /\ server' = server
        /\ UNCHANGED conns /\ nextConnId_' = nextConnId_
        /\ connections_' = connections_ /\ queue' = queue
        /\ idleFd_' = idleFd_ /\ acceptPc' = acceptPc /\ fds' = fds
        /\ others' = others /\ opened' = opened /\ stolen' = stolen
        /\ ndebug' = ndebug /\ fault' = fault
    BY <1>2 DEF ClientConnects, pool, conns
  <2>2. CountInv'
    BY <1>1, <2>1, ServerAssumption DEF CountInv
  <2>3. LoopInv'
    BY <1>1, <2>1 DEF LoopInv
  <2>4. IdleInv'
    <3>1. backlog > 0 => backlog' > 0
      BY <1>1, <2>1 DEF CountInv
    <3>2. Free' = Free
      BY <2>1 DEF Free
    <3> QED
      BY <1>1, <2>1, <3>1, <3>2 DEF IdleInv
  <2> QED
    BY <1>1, <2>1, <2>2, <2>3, <2>4, FlagsKeep DEF BoolTypes
<1>3. ASSUME start \/ quitBase \/ beginDestroy \/ (\E l \in Loops : quitThread(l)) \/ endDestroy
      PROVE  IInv'
  <2>1. /\ Running /\ numThreads_' = numThreads_ /\ next_' = next_
        /\ endedLoops' = endedLoops /\ UNCHANGED conns
        /\ nextConnId_' = nextConnId_ /\ connections_' = connections_
        /\ queue' = queue /\ idleFd_' = idleFd_
        /\ acceptPc' = acceptPc /\ fds' = fds /\ others' = others
        /\ opened' = opened /\ stolen' = stolen /\ ndebug' = ndebug
        /\ fault' = fault /\ arrived' = arrived
    BY <1>3 DEF start, quitBase, beginDestroy, quitThread, endDestroy, pool,
                conns, kernel, InBaseLoop
  <2>2. listening_' \in BOOLEAN /\ baseRuns' \in BOOLEAN /\ (baseRuns' => baseRuns)
    <3>1. /\ (listening_' = listening_) \/ (listening_' = TRUE) \/ (listening_' = FALSE)
          /\ (baseRuns' = baseRuns) \/ (baseRuns' = FALSE)
      BY <1>3, Zenon DEF start, quitBase, beginDestroy, quitThread, endDestroy
    <3>2. listening_ \in BOOLEAN /\ baseRuns \in BOOLEAN
      BY <1>1 DEF BoolTypes
    <3>3. listening_' \in BOOLEAN
      BY <3>1, <3>2
    <3>4. baseRuns' \in BOOLEAN
      BY <3>1, <3>2
    <3>5. baseRuns' => baseRuns
      BY <3>1, <3>2
    <3> QED
      BY <3>3, <3>4, <3>5
  <2>3. (server' = server \/ server' \in {"dying", "gone"})
        /\ (server = "gone" => server' = "gone")
    BY <1>3 DEF start, quitBase, beginDestroy, quitThread, endDestroy
  <2>4. acceptPc # "no" => server' = "alive" /\ backlog' = backlog
    <3>1. acceptPc # "no" => server = "alive"
      BY <1>1 DEF LoopInv
    <3> QED
      BY <1>3, <3>1 DEF start, quitBase, beginDestroy, quitThread, endDestroy,
                 InBaseLoop, kernel
  <2>5. backlog' = backlog \/ backlog' = 0
    BY <1>3 DEF start, quitBase, beginDestroy, quitThread, endDestroy, kernel
  <2>6. CountInv'
    BY <1>1, <2>1, <2>5, ServerAssumption DEF CountInv
  <2>7. IdleInv'
    <3>1. Free' = Free
      BY <2>1 DEF Free
    <3> QED
      BY <1>1, <2>1, <2>4, <3>1 DEF IdleInv
  <2>8. quitLoops' # {} => server' # "alive" /\ connections_ = {}
    BY <1>1, <1>3 DEF start, quitBase, beginDestroy, quitThread, endDestroy, pool, LoopInv
  <2>9. server' = "gone" => endedLoops = 1..numThreads_ /\ connections_ = {}
    BY <1>1, <1>3 DEF start, quitBase, beginDestroy, quitThread, endDestroy, LoopInv
  <2>10. quitLoops' \subseteq 1..numThreads_ /\ endedLoops \subseteq quitLoops'
    BY <1>1, <1>3 DEF start, quitBase, beginDestroy, quitThread, endDestroy, pool, LoopInv
  <2>11. LoopInv'
    BY <1>1, <2>1, <2>4, <2>8, <2>9, <2>10 DEF LoopInv
  <2> QED
    BY <2>1, <2>2, <2>3, <2>6, <2>7, <2>11, FlagsKeep
<1> QED
  BY <1>2, <1>3

-----------------------------------------------------------------------------
(* The steps that change descriptors and no connection                      *)

\* The kernel gives out the lowest descriptor that is free.
LEMMA LowestFree ==
  ASSUME Free # {}
  PROVE  Lowest(Free) \in Fds /\ fds[Lowest(Free)] = <<"free">>
<1>1. Free \subseteq Nat /\ Free \subseteq Fds
  BY ServerAssumption DEF Free, Fds
<1>2. PICK f \in Free : \A g \in Free : <<g, f>> \notin OpToRel(<, Nat)
  BY <1>1, NatLessThanWellFounded, WFMin
<1>3. \A g \in Free : f <= g
  <2> SUFFICES ASSUME NEW g \in Free PROVE f <= g
    OBVIOUS
  <2>1. f \in Nat /\ g \in Nat
    BY <1>1
  <2>2. ~(g < f)
    BY <1>2, <2>1 DEF OpToRel
  <2> QED
    BY <2>1, <2>2
<1>4. Lowest(Free) \in Free
  BY <1>3 DEF Lowest
<1> QED
  BY <1>4 DEF Free

\* Only connections are referred to.
LEMMA ReferencedConns ==
  ASSUME NEW map \in SUBSET Conns, NEW q \in Queues
  PROVE  Referenced(map, q) \subseteq Conns
<1> SUFFICES ASSUME NEW c \in Referenced(map, q), c \notin map PROVE c \in Conns
  OBVIOUS
<1>1. PICK l \in Loops : \E f \in Range(q[l]) : f[2] = c
  BY Refers
<1>2. PICK f \in Range(q[l]) : f[2] = c
  BY <1>1
<1>3. q[l] \in Seq(Functors)
  BY DEF Queues
<1>4. f \in Functors
  BY <1>3, RangeEquality, LenProperties, ElementOfSeq
<1> QED
  BY <1>2, <1>4 DEF Functors

LEMMA TableKeeps ==
  ASSUME IInv, Running,
         UNCHANGED <<pool, conns, queue, listening_, baseRuns, server, arrived,
                     ndebug, fault>>,
         stolen' \in BOOLEAN, acceptPc' \in {"no", "accept", "close", "open"},
         acceptPc' # "no" => server = "alive",
         FdTypes', CountInv', IdleInv', OtherInv',
         \A f \in Fds, c \in Conns :
           fds'[f] = <<"conn", c>> <=> fds[f] = <<"conn", c>>
  PROVE  IInv'
<1>1. /\ Types /\ LoopInv /\ OwnInv /\ QueuedInv /\ AddedInv
      /\ FaultInv /\ (server = "alive" => AliveInv)
  BY DEF IInv
<1>2. /\ numThreads_' = numThreads_ /\ next_' = next_ /\ quitLoops' = quitLoops
      /\ endedLoops' = endedLoops /\ nextConnId_' = nextConnId_
      /\ connections_' = connections_
      /\ state' = state /\ fd' = fd /\ ioLoop' = ioLoop /\ added' = added
      /\ queue' = queue /\ listening_' = listening_ /\ baseRuns' = baseRuns
      /\ server' = server /\ ndebug' = ndebug /\ fault' = fault
  BY DEF conns, pool
<1>3. BoolTypes'
  BY <1>1, <1>2 DEF Types, BoolTypes
<1>4. PlaceTypes' /\ ConnTypes'
  BY <1>1, <1>2 DEF Types, PlaceTypes, ConnTypes
<1>5. LoopInv'
  BY <1>1, <1>2 DEF LoopInv
<1>6. OwnInv'
  <2>1. connections_ \in SUBSET Conns /\ queue \in Queues
    BY <1>1 DEF Types, ConnTypes, Queues
  <2>2. Referenced(connections_, queue) \subseteq Conns
    BY <2>1, ReferencedConns
  <2> QED
    BY <1>1, <1>2, <2>2 DEF OwnInv
<1>7. QueuedInv'
  BY <1>1, <1>2 DEF QueuedInv
<1>8. AddedInv'
  BY <1>1, <1>2 DEF AddedInv, Dead
<1>9. FaultInv'
  BY <1>1, <1>2 DEF FaultInv
<1>10. AliveInv => AliveInv'
  BY <1>2 DEF AliveInv, Stage
<1> QED
  BY <1>1, <1>2, <1>3, <1>4, <1>5, <1>6, <1>7, <1>8, <1>9, <1>10 DEF IInv, Types

\* close() and open() of a descriptor.
LEMMA CloseFacts ==
  ASSUME NEW t \in [Fds -> Owners], NEW x
  PROVE  /\ closeAll(t, {x}) \in [Fds -> Owners]
         /\ \A f \in Fds : closeAll(t, {x})[f] = IF f = x THEN <<"free">> ELSE t[f]
BY OwnerFacts DEF closeAll

LEMMA OpenFacts ==
  ASSUME NEW t \in [Fds -> Owners], NEW x \in Fds, NEW o \in Owners
  PROVE  /\ [t EXCEPT ![x] = o] \in [Fds -> Owners]
         /\ [t EXCEPT ![x] = o][x] = o
         /\ \A f \in Fds : f # x => [t EXCEPT ![x] = o][f] = t[f]
OBVIOUS

LEMMA OtherOpensKeeps ==
  ASSUME IInv, OtherOpens
  PROVE  IInv'
<1> DEFINE x == Lowest(Free)
<1>1. /\ Running /\ Free # {} /\ fds' = [fds EXCEPT ![x] = <<"other">>]
      /\ others' = others \cup {x} /\ opened' = opened + 1
      /\ acceptPc' = acceptPc /\ idleFd_' = idleFd_
      /\ backlog' = backlog /\ arrived' = arrived /\ nextConnId_' = nextConnId_
      /\ UNCHANGED <<pool, conns, queue, listening_, baseRuns, server, arrived,
                     ndebug, fault>>
  BY DEF OtherOpens, conns
<1>2. /\ BoolTypes /\ PlaceTypes /\ CountInv /\ LoopInv /\ IdleInv
      /\ FdTypes /\ OtherInv
  BY DEF IInv, Types
<1>3. x \in Fds /\ fds[x] = <<"free">>
  BY <1>1, LowestFree
<1> HIDE DEF x
<1>4. /\ fds' \in [Fds -> Owners] /\ fds'[x] = <<"other">>
      /\ \A f \in Fds : f # x => fds'[f] = fds[f]
  BY <1>1, <1>2, <1>3, OpenFacts, OwnerFacts DEF FdTypes
<1>5. stolen' \in BOOLEAN /\ (stolen => stolen') /\ (acceptPc # "no" => stolen')
  BY <1>2 DEF OtherOpens, BoolTypes
<1>6. FdTypes'
  BY <1>1, <1>2, <1>3, <1>4 DEF FdTypes
<1>7. CountInv'
  BY <1>1, <1>2 DEF CountInv
<1>8. OtherInv'
  BY <1>1, <1>2, <1>4 DEF OtherInv, FdTypes
<1>9. IdleInv'
  <2>1. idleFd_ # None /\ fds[idleFd_] = <<"idle">> => fds'[idleFd_] = <<"idle">>
    BY <1>2, <1>3, <1>4, OwnerFacts DEF FdTypes
  <2> QED
    BY <1>1, <1>2, <1>5, <2>1 DEF IdleInv
<1>10. \A f \in Fds, c \in Conns :
         fds'[f] = <<"conn", c>> <=> fds[f] = <<"conn", c>>
  BY <1>3, <1>4, OwnerFacts
<1>11. acceptPc' \in {"no", "accept", "close", "open"}
       /\ (acceptPc' # "no" => server = "alive")
  BY <1>1, <1>2 DEF PlaceTypes, LoopInv
<1> QED
  BY <1>1, <1>5, <1>6, <1>7, <1>8, <1>9, <1>10, <1>11, TableKeeps

LEMMA OtherClosesKeeps ==
  ASSUME IInv, NEW x \in Fds, OtherCloses(x)
  PROVE  IInv'
<1>1. /\ Running /\ x \in others /\ fds' = closeAll(fds, {x})
      /\ others' = others \ {x} /\ opened' = opened
      /\ acceptPc' = acceptPc /\ idleFd_' = idleFd_ /\ stolen' = stolen
      /\ backlog' = backlog /\ arrived' = arrived /\ nextConnId_' = nextConnId_
      /\ UNCHANGED <<pool, conns, queue, listening_, baseRuns, server, arrived,
                     ndebug, fault>>
  BY DEF OtherCloses, conns
<1>2. /\ BoolTypes /\ PlaceTypes /\ CountInv /\ LoopInv /\ IdleInv
      /\ FdTypes /\ OtherInv
  BY DEF IInv, Types
<1>3. fds[x] = <<"other">>
  BY <1>1, <1>2 DEF OtherInv
<1>4. /\ fds' \in [Fds -> Owners]
      /\ \A f \in Fds : fds'[f] = IF f = x THEN <<"free">> ELSE fds[f]
  BY <1>1, <1>2, CloseFacts DEF FdTypes
<1>5. FdTypes'
  BY <1>1, <1>2, <1>4 DEF FdTypes
<1>6. CountInv'
  BY <1>1, <1>2 DEF CountInv
<1>7. OtherInv'
  BY <1>1, <1>2, <1>4 DEF OtherInv, FdTypes
<1>8. IdleInv'
  <2>1. idleFd_ # None /\ fds[idleFd_] = <<"idle">> => fds'[idleFd_] = <<"idle">>
    BY <1>2, <1>3, <1>4, OwnerFacts DEF FdTypes
  <2>2. Free' # {}
    BY <1>4 DEF Free
  <2> QED
    BY <1>1, <1>2, <2>1, <2>2 DEF IdleInv
<1>9. \A f \in Fds, c \in Conns :
         fds'[f] = <<"conn", c>> <=> fds[f] = <<"conn", c>>
  BY <1>3, <1>4, OwnerFacts
<1>10. /\ acceptPc' \in {"no", "accept", "close", "open"}
       /\ acceptPc' # "no" => server = "alive"
  BY <1>1, <1>2 DEF PlaceTypes, LoopInv
<1>11. stolen' \in BOOLEAN
  BY <1>1, <1>2 DEF BoolTypes
<1> QED
  BY <1>1, <1>5, <1>6, <1>7, <1>8, <1>9, <1>10, <1>11, TableKeeps

\* The two closes of handleRead() give up the idle descriptor or nothing.
LEMMA CloseIdleKeeps ==
  ASSUME IInv, AcceptFull \/ CloseIdle
  PROVE  IInv'
<1>1. /\ Running /\ acceptPc \in {"no", "close"} /\ acceptPc' \in {"accept", "open"}
      /\ acceptPc' = "accept" => backlog > 0
      /\ fds' = closeAll(fds, {idleFd_})
      /\ others' = others /\ opened' = opened
      /\ idleFd_' = idleFd_ /\ stolen' = stolen
      /\ backlog' = backlog /\ arrived' = arrived /\ nextConnId_' = nextConnId_
      /\ UNCHANGED <<pool, conns, queue, listening_, baseRuns, server, arrived,
                     ndebug, fault>>
  BY DEF AcceptFull, CloseIdle, InBaseLoop, closeIdle, untouchedByIdle, conns
<1>2. /\ BoolTypes /\ PlaceTypes /\ CountInv /\ LoopInv /\ IdleInv
      /\ FdTypes /\ OtherInv
  BY DEF IInv, Types
<1>3. server = "alive"
  BY <1>2 DEF AcceptFull, CloseIdle, LoopInv
<1>4. /\ fds' \in [Fds -> Owners]
      /\ \A f \in Fds : fds'[f] = IF f = idleFd_ THEN <<"free">> ELSE fds[f]
  BY <1>1, <1>2, CloseFacts DEF FdTypes
<1>5. /\ idleFd_ \in Fds => fds[idleFd_] = <<"idle">>
      /\ idleFd_ \notin Fds => stolen
  BY <1>1, <1>2, ServerAssumption DEF IdleInv, FdTypes, Fds, None
<1>6. FdTypes'
  BY <1>1, <1>2, <1>4 DEF FdTypes
<1>7. CountInv'
  BY <1>1, <1>2 DEF CountInv
<1>8. OtherInv'
  BY <1>1, <1>2, <1>4, <1>5, OwnerFacts DEF OtherInv, FdTypes
<1>9. IdleInv'
  <2>1. Free' # {} \/ stolen
    BY <1>4, <1>5 DEF Free
  <2> QED
    BY <1>1, <1>2, <2>1 DEF IdleInv
<1>10. \A f \in Fds, c \in Conns :
         fds'[f] = <<"conn", c>> <=> fds[f] = <<"conn", c>>
  BY <1>4, <1>5, OwnerFacts
<1>11. stolen' \in BOOLEAN
  BY <1>1, <1>2 DEF BoolTypes
<1>12. acceptPc' \in {"no", "accept", "close", "open"}
  BY <1>1
<1> QED
  BY <1>1, <1>3, <1>6, <1>7, <1>8, <1>9, <1>10, <1>11, <1>12, TableKeeps

\* accept() and open() take a free descriptor for it, or find none.
LEMMA OpenIdleKeeps ==
  ASSUME IInv, AcceptIdle \/ OpenIdle
  PROVE  IInv'
<1>1. /\ Running /\ acceptPc \in {"accept", "open"} /\ acceptPc' \in {"close", "no"}
      /\ others' = others /\ opened' = opened /\ stolen' = stolen
      /\ arrived' = arrived /\ nextConnId_' = nextConnId_
      /\ UNCHANGED <<pool, conns, queue, listening_, baseRuns, server, arrived,
                     ndebug, fault>>
  BY DEF AcceptIdle, OpenIdle, untouchedByIdle, conns
<1>2. /\ BoolTypes /\ PlaceTypes /\ CountInv /\ LoopInv /\ IdleInv
      /\ FdTypes /\ OtherInv
  BY DEF IInv, Types
<1>3. server = "alive"
  BY <1>1, <1>2 DEF LoopInv
<1>4. backlog' = backlog \/ (backlog' = backlog - 1 /\ backlog > 0)
  BY <1>2 DEF AcceptIdle, OpenIdle, IdleInv
<1>5. CountInv'
  BY <1>1, <1>2, <1>4 DEF CountInv
<1>6. stolen' \in BOOLEAN /\ acceptPc' \in {"no", "accept", "close", "open"}
  BY <1>1, <1>2 DEF BoolTypes
<1>7. CASE Free # {}
  <2> DEFINE x == Lowest(Free)
  <2>1. fds' = [fds EXCEPT ![x] = <<"idle">>] /\ idleFd_' = x
    BY <1>7 DEF AcceptIdle, OpenIdle, roomToAccept, storeIdle
  <2>2. x \in Fds /\ fds[x] = <<"free">>
    BY <1>7, LowestFree
  <2> HIDE DEF x
  <2>3. /\ fds' \in [Fds -> Owners] /\ fds'[x] = <<"idle">>
        /\ \A f \in Fds : f # x => fds'[f] = fds[f]
    BY <1>2, <2>1, <2>2, OpenFacts, OwnerFacts DEF FdTypes
  <2>4. FdTypes'
    BY <1>1, <1>2, <2>1, <2>2, <2>3 DEF FdTypes
  <2>5. OtherInv'
    BY <1>1, <1>2, <2>2, <2>3, OwnerFacts DEF OtherInv, FdTypes
  <2>6. idleFd_' # None
    BY <2>1, <2>2, ServerAssumption DEF Fds, None
  <2>7. IdleInv'
    BY <1>1, <2>1, <2>3, <2>6 DEF IdleInv
  <2>8. \A f \in Fds, c \in Conns :
          fds'[f] = <<"conn", c>> <=> fds[f] = <<"conn", c>>
    BY <2>2, <2>3, OwnerFacts
  <2> QED
    BY <1>1, <1>3, <1>5, <1>6, <2>4, <2>5, <2>7, <2>8, TableKeeps
<1>8. CASE Free = {}
  <2>1. fds' = fds /\ idleFd_' = None
    BY <1>8 DEF AcceptIdle, OpenIdle, roomToAccept, storeIdle
  <2>2. FdTypes' /\ OtherInv'
    BY <1>1, <1>2, <2>1 DEF FdTypes, OtherInv
  <2>3. IdleInv'
    BY <1>1, <1>2, <1>8, <2>1 DEF IdleInv
  <2> QED
    BY <1>1, <1>3, <1>5, <1>6, <2>1, <2>2, <2>3, TableKeeps
<1> QED
  BY <1>7, <1>8

-----------------------------------------------------------------------------
(* Accepting                                                                *)

\* A connection that no functor refers to may be given a loop.
LEMMA LoopGiven ==
  ASSUME NEW q \in Queues, NEW io \in [Conns -> Loops], NEW map, NEW c \in Conns,
         NEW l \in Loops, Placed(q, io), Ordered(q, io, map),
         \A m \in Loops : \A f \in Range(q[m]) : f[2] # c
  PROVE  LET io2 == [io EXCEPT ![c] = l]
         IN /\ io2 \in [Conns -> Loops] /\ Placed(q, io2)
            /\ Ordered(q, io2, map \cup {c})
<1> DEFINE io2 == [io EXCEPT ![c] = l]
<1>1. /\ io2 \in [Conns -> Loops] /\ io2[c] = l
      /\ \A d \in Conns : d # c => io2[d] = io[d]
  OBVIOUS
<1> HIDE DEF io2
<1>2. ASSUME NEW d \in Conns, Est(d) \in Range(q[io2[d]]) PROVE d # c
  <2>1. io2[d] \in Loops /\ Est(d)[2] = d
    BY <1>1, FunctorNames
  <2> QED
    BY <1>2, <2>1
<1>3. ASSUME NEW m \in Loops, NEW f \in Range(q[m])
      PROVE  IF f[1] = "removeConnectionInLoop" THEN m = 0 ELSE m = io2[f[2]]
  <2>1. q[m] \in Seq(Functors)
    BY DEF Queues
  <2>2. f \in Functors
    BY <2>1, RangeEquality, LenProperties, ElementOfSeq
  <2>3. f[2] \in Conns /\ f[2] # c
    BY <2>2 DEF Functors
  <2> QED
    BY <1>1, <2>3 DEF Placed
<1>4. Placed(q, io2)
  BY <1>1, <1>2, <1>3 DEF Placed
<1>5. ASSUME NEW d \in Conns
      PROVE  /\ \A i, j \in 1..Len(q[io2[d]]) :
                  q[io2[d]][i] = Est(d) /\ q[io2[d]][j] = Des(d) => i < j
             /\ Est(d) \in Range(q[io2[d]]) =>
                  d \in map \cup {c} \/ Des(d) \in Range(q[io2[d]])
  <2>1. CASE d = c
    <3>1. Est(d) \notin Range(q[io2[d]])
      BY <1>2, <2>1
    <3>2. q[io2[d]] \in Seq(Functors)
      BY <1>1 DEF Queues
    <3>3. \A i \in 1..Len(q[io2[d]]) : q[io2[d]][i] \in Range(q[io2[d]])
      BY <3>2, RangeEquality
    <3> QED
      BY <3>1, <3>3
  <2>2. CASE d # c
    BY <1>1, <2>2 DEF Ordered
  <2> QED
    BY <2>1, <2>2
<1>6. Ordered(q, io2, map \cup {c})
  BY <1>5 DEF Ordered
<1> QED
  BY <1>1, <1>4, <1>6 DEF io2

\* What Accept does, and what it starts from.
LEMMA AcceptFacts ==
  ASSUME IInv, Accept
  PROVE  LET c == nextConnId_
             x == Lowest(Free)
         IN /\ c \in Conns /\ c \in Nat /\ c \notin Referenced(connections_, queue)
            /\ c \notin added /\ x \in Fds /\ fds[x] = <<"free">>
            /\ nextLoop \in 0..numThreads_ /\ nextLoop \in Loops
            /\ \A m \in Loops : \A f \in Range(queue[m]) : f[2] # c
            /\ backlog > 0 /\ backlog' = backlog - 1 /\ arrived' = arrived
            /\ Running /\ server = "alive" /\ acceptPc = "no" /\ endedLoops = {}
            /\ server' = server /\ acceptPc' = acceptPc
<1>1. /\ CountInv /\ LoopInv /\ OwnInv /\ PlaceTypes
  BY DEF IInv, Types
<1>2. /\ Running /\ server = "alive" /\ acceptPc = "no" /\ backlog > 0 /\ Free # {}
      /\ backlog' = backlog - 1 /\ arrived' = arrived /\ server' = server
      /\ acceptPc' = acceptPc
  BY DEF Accept, InBaseLoop
<1>3. nextConnId_ \in Conns /\ nextConnId_ \in Nat
  BY <1>1, <1>2, ServerAssumption DEF CountInv, Conns
<1>4. nextConnId_ \notin Referenced(connections_, queue)
  <2>1. nextConnId_ \in Referenced(connections_, queue) => nextConnId_ < nextConnId_
    BY <1>1 DEF OwnInv
  <2> QED
    BY <1>3, <2>1
<1>5. nextConnId_ \notin added
  <2>1. nextConnId_ \in added => nextConnId_ < nextConnId_
    BY <1>1 DEF OwnInv
  <2> QED
    BY <1>3, <2>1
<1>6. Lowest(Free) \in Fds /\ fds[Lowest(Free)] = <<"free">>
  BY <1>2, LowestFree
<1>7. nextLoop \in 0..numThreads_ /\ nextLoop \in Loops
  BY <1>1, ServerAssumption DEF LoopInv, nextLoop, Loops
<1>8. \A m \in Loops : \A f \in Range(queue[m]) : f[2] # nextConnId_
  BY <1>4, Refers
<1>9. endedLoops = {}
  BY <1>1, <1>2 DEF LoopInv
<1> QED
  BY <1>2, <1>3, <1>4, <1>5, <1>6, <1>7, <1>8, <1>9

\* newConnection() in the loop that getNextLoop() returns.
LEMMA AcceptKeeps ==
  ASSUME IInv, Accept
  PROVE  IInv'
<1> DEFINE c == nextConnId_
           x == Lowest(Free)
           l == nextLoop
           Ref == Referenced(connections_, queue)
<1>1. /\ BoolTypes /\ PlaceTypes /\ CountInv /\ LoopInv /\ IdleInv
      /\ FdTypes /\ OtherInv /\ OwnInv /\ ConnTypes
  BY DEF IInv, Types
<1>2. /\ nextConnId_' = c + 1 /\ connections_' = connections_ \cup {c}
      /\ fd' = [fd EXCEPT ![c] = x]
      /\ ioLoop' = [ioLoop EXCEPT ![c] = l]
      /\ next_' = (IF next_ >= numThreads_ THEN 1 ELSE next_ + 1)
      /\ fds' = [fds EXCEPT ![x] = <<"conn", c>>]
      /\ state' = [state EXCEPT ![c] = IF l = 0 THEN "kConnected"
                                                ELSE "kConnecting"]
      /\ added' = (IF l = 0 THEN added \cup {c} ELSE added)
      /\ queue' = (IF l = 0 THEN queue ELSE post(queue, l, "connectEstablished", c))
  BY DEF Accept, newConnection, advance
<1>3. /\ numThreads_' = numThreads_ /\ quitLoops' = quitLoops
      /\ endedLoops' = endedLoops /\ listening_' = listening_
      /\ baseRuns' = baseRuns /\ idleFd_' = idleFd_
      /\ others' = others /\ opened' = opened /\ stolen' = stolen
      /\ ndebug' = ndebug /\ fault' = fault
  BY DEF Accept
<1>4. /\ c \in Conns /\ c \in Nat /\ c \notin Ref
      /\ c \notin added /\ x \in Fds /\ fds[x] = <<"free">>
      /\ l \in 0..numThreads_ /\ l \in Loops
      /\ \A m \in Loops : \A f \in Range(queue[m]) : f[2] # c
      /\ backlog > 0 /\ backlog' = backlog - 1 /\ arrived' = arrived
      /\ Running /\ server = "alive" /\ acceptPc = "no" /\ endedLoops = {}
      /\ server' = server /\ acceptPc' = acceptPc
  BY AcceptFacts
<1>5. /\ queue \in Queues /\ ioLoop \in [Conns -> Loops] /\ state \in StateTypes
      /\ connections_ \subseteq Conns /\ added \subseteq Conns /\ 0 \in Loops
      /\ Placed(queue, ioLoop) /\ Ordered(queue, ioLoop, connections_)
      /\ \A d \in added : d < nextConnId_
      /\ \A d \in added : Dead(ioLoop[d]) \/ d \in Ref
  BY <1>4, RunningFacts
<1> HIDE DEF c, x, l
<1>6. /\ ioLoop' \in [Conns -> Loops] /\ Placed(queue, ioLoop')
      /\ Ordered(queue, ioLoop', connections_ \cup {c})
  <2>1. LET io2 == [ioLoop EXCEPT ![c] = l]
        IN /\ io2 \in [Conns -> Loops] /\ Placed(queue, io2)
           /\ Ordered(queue, io2, connections_ \cup {c})
    BY <1>4, <1>5, LoopGiven
  <2> QED
    BY <1>2, <2>1
<1>7. /\ ioLoop'[c] = l /\ \A d \in Conns : d # c => ioLoop'[d] = ioLoop[d]
      /\ ioLoop' \in [Conns -> 0..numThreads_]
  BY <1>1, <1>2, <1>4 DEF ConnTypes
<1>8. /\ state' \in StateTypes
      /\ state'[c] = IF l = 0 THEN "kConnected" ELSE "kConnecting"
      /\ \A d \in Conns : d # c => state'[d] = state[d]
  BY <1>2, <1>4, <1>5 DEF StateTypes
<1>9. /\ fd' \in [Conns -> Fds \cup {None}] /\ fd'[c] = x
      /\ \A d \in Conns : d # c => fd'[d] = fd[d]
  BY <1>1, <1>2, <1>4 DEF ConnTypes
<1>10. /\ fds' \in [Fds -> Owners] /\ fds'[x] = <<"conn", c>>
       /\ \A f \in Fds : f # x => fds'[f] = fds[f]
  <2>1. <<"conn", c>> \in Owners
    BY <1>4, OwnerFacts
  <2> QED
    BY <1>1, <1>2, <1>4, <2>1, OpenFacts DEF FdTypes
<1>11. ASSUME l # 0
       PROVE  /\ queue' \in Queues /\ Placed(queue', ioLoop')
              /\ Ordered(queue', ioLoop', connections_ \cup {c})
              /\ Range(queue'[l]) = Range(queue[l]) \cup {Est(c)}
              /\ \A m \in Loops : m # l => queue'[m] = queue[m]
              /\ Referenced(connections_ \cup {c}, queue')
                   = Referenced(connections_ \cup {c}, queue) \cup {c}
  <2>1. /\ queue' = post(queue, l, "connectEstablished", c)
        /\ "connectEstablished" \in Names /\ Est(c) = <<"connectEstablished", c>>
    BY <1>2, <1>11 DEF Names, Est
  <2>2. /\ queue' \in Queues /\ Range(queue'[l]) = Range(queue[l]) \cup {Est(c)}
        /\ \A m \in Loops : m # l => queue'[m] = queue[m]
    BY <1>4, <1>5, <2>1, PostFacts
  <2>3. Placed(queue', ioLoop')
    <3> DEFINE io2 == ioLoop'
    <3>1. io2 \in [Conns -> Loops] /\ Placed(queue, io2) /\ io2[c] = l
      BY <1>6, <1>7
    <3> HIDE DEF io2
    <3>2. Placed(post(queue, l, "connectEstablished", c), io2)
      BY <1>4, <1>5, <1>11, <2>1, <3>1, PostPlaced
    <3> QED
      BY <2>1, <3>2 DEF io2
  <2>4. Ordered(queue', ioLoop', connections_ \cup {c})
    <3> DEFINE io2 == ioLoop'
               map2 == connections_ \cup {c}
    <3>1. io2 \in [Conns -> Loops] /\ Ordered(queue, io2, map2) /\ io2[c] = l
      BY <1>6, <1>7
    <3>2. c \in map2
      OBVIOUS
    <3>3. Des(c) \notin Range(queue[l])
      BY <1>4, FunctorNames
    <3> HIDE DEF io2, map2
    <3>4. Ordered(post(queue, l, "connectEstablished", c), io2, map2)
      BY <1>4, <1>5, <2>1, <3>1, <3>2, <3>3, PostOrdered
    <3> QED
      BY <2>1, <3>4 DEF io2, map2
  <2>5. Referenced(connections_ \cup {c}, queue')
          = Referenced(connections_ \cup {c}, queue) \cup {c}
    BY <1>4, <1>5, <2>1, PostRefers
  <2> QED
    BY <2>2, <2>3, <2>4, <2>5
<1>12. /\ queue' \in Queues /\ Placed(queue', ioLoop')
       /\ Ordered(queue', ioLoop', connections_')
       /\ Referenced(connections_', queue') = Ref \cup {c}
  <2>1. Referenced(connections_ \cup {c}, queue) = Ref \cup {c}
    BY DEF Referenced
  <2>2. CASE l = 0
    BY <1>2, <1>5, <1>6, <2>1, <2>2
  <2>3. CASE l # 0
    BY <1>2, <1>11, <2>1, <2>3
  <2> QED
    BY <2>2, <2>3
<1>13. BoolTypes'
  BY <1>1, <1>3 DEF BoolTypes
<1>14. PlaceTypes'
  BY <1>1, <1>3, <1>4 DEF PlaceTypes
<1>15. ConnTypes'
  <2>1. added' \subseteq Conns /\ connections_' \subseteq Conns
    BY <1>2, <1>4, <1>5
  <2> QED
    BY <1>3, <1>7, <1>8, <1>9, <1>12, <2>1 DEF ConnTypes, Queues, StateTypes
<1>16. FdTypes'
  BY <1>1, <1>3, <1>10 DEF FdTypes
<1>17. CountInv'
  BY <1>1, <1>2, <1>4, ServerAssumption DEF CountInv, c
<1>18. LoopInv'
  <2>1. next_' \in Nat \ {0} /\ (numThreads_ # 0 => next_' <= numThreads_)
    BY <1>1, <1>2, ServerAssumption DEF LoopInv
  <2>2. quitLoops = {}
    BY <1>1, <1>4 DEF LoopInv
  <2> QED
    BY <1>1, <1>3, <1>4, <2>1, <2>2 DEF LoopInv
<1>19. IdleInv'
  <2>1. idleFd_ # None /\ fds[idleFd_] = <<"idle">> => fds'[idleFd_] = <<"idle">>
    BY <1>1, <1>4, <1>10, OwnerFacts DEF FdTypes
  <2> QED
    BY <1>1, <1>3, <1>4, <2>1 DEF IdleInv
<1>20. OtherInv'
  BY <1>1, <1>3, <1>4, <1>10, OwnerFacts DEF OtherInv, FdTypes
<1>21. OwnInv'
  <2>1. ASSUME NEW f \in Fds, NEW d \in Conns, fds'[f] = <<"conn", d>>
        PROVE  fd'[d] = f /\ d \in Ref \cup {c}
    <3>1. CASE f = x
      <4>1. d = c
        BY <1>10, <2>1, <3>1, OwnerFacts
      <4> QED
        BY <1>9, <3>1, <4>1
    <3>2. CASE f # x
      <4>1. fd[d] = f /\ d \in Ref
        BY <1>1, <1>10, <2>1, <3>2 DEF OwnInv
      <4> QED
        BY <1>4, <1>9, <4>1
    <3> QED
      BY <3>1, <3>2
  <2>2. Ref \subseteq Conns
    BY <1>5, ReferencedConns
  <2>3. ASSUME NEW d \in Ref
        PROVE  d < c /\ fd'[d] \in Fds /\ fds'[fd'[d]] = <<"conn", d>>
    <3>1. d < c /\ fd[d] \in Fds /\ fds[fd[d]] = <<"conn", d>> /\ d # c
      BY <1>1, <1>4, <2>3 DEF OwnInv, c
    <3>2. fd[d] # x
      BY <1>4, <3>1, OwnerFacts
    <3> QED
      BY <1>9, <1>10, <2>2, <3>1, <3>2
  <2>4. \A d \in Conns : d < c => d < c + 1
    BY <1>4 DEF Conns
  <2>5. c < c + 1 /\ added \subseteq Conns /\ \A d \in added : d < c
    BY <1>4, <1>5 DEF c
  <2>6. ASSUME NEW d \in Ref \cup {c}
        PROVE  d < nextConnId_' /\ fd'[d] \in Fds /\ fds'[fd'[d]] = <<"conn", d>>
    <3>1. CASE d \in Ref
      <4>1. d < c + 1
        BY <2>2, <2>3, <2>4, <3>1
      <4> QED
        BY <1>2, <2>3, <3>1, <4>1
    <3>2. CASE d = c
      BY <1>2, <1>4, <1>9, <1>10, <2>5, <3>2
    <3> QED
      BY <3>1, <3>2
  <2>7. \A d \in added' : d < nextConnId_'
    BY <1>2, <2>4, <2>5
  <2> QED
    BY <1>12, <2>1, <2>6, <2>7 DEF OwnInv
<1>22. QueuedInv'
  BY <1>3, <1>4, <1>12 DEF QueuedInv
<1>23. AddedInv'
  <2>1. added \subseteq Ref
    BY <1>4, <1>5 DEF Dead
  <2> QED
    BY <1>2, <1>12, <2>1 DEF AddedInv
<1>24. FaultInv'
  BY <1>3, <1>4 DEF FaultInv, Running
<1>25. Distinct(queue')
  <2>1. Distinct(queue)
    BY <1>4 DEF IInv, AliveInv
  <2>2. <<"connectEstablished", c>> \notin Range(queue[l])
    BY <1>4, FunctorNames DEF Est
  <2>3. "connectEstablished" \in Names
    BY DEF Names
  <2>4. Distinct(post(queue, l, "connectEstablished", c))
    BY <1>4, <1>5, <2>1, <2>2, <2>3, PostDistinct
  <2> QED
    BY <1>2, <2>1, <2>4
<1>26. ASSUME NEW d \in Conns PROVE Stage(d)'
  <2>1. ASSUME NEW m \in Loops, NEW f \in Range(queue'[m])
        PROVE  f \in Range(queue[m]) \/ (f = Est(c) /\ l # 0)
    BY <1>2, <1>11
  <2>2. ioLoop'[d] \in Loops /\ ioLoop[d] \in Loops
    BY <1>5, <1>6
  <2>3. CASE d = c
    <3>1. \A m \in Loops : Est(c) \notin Range(queue[m]) /\ Rem(c) \notin Range(queue[m])
                           /\ Des(c) \notin Range(queue[m])
      BY <1>4, FunctorNames
    <3>2. Rem(c) # Est(c) /\ Des(c) # Est(c)
      BY FunctorNames
    <3>3. /\ Rem(c) \notin Range(queue'[0]) /\ Des(c) \notin Range(queue'[ioLoop'[c]])
          /\ Est(c) \in Range(queue'[ioLoop'[c]]) => l # 0
      BY <1>5, <2>1, <2>2, <2>3, <3>1, <3>2
    <3> QED
      BY <1>2, <1>4, <1>8, <2>3, <3>3 DEF Stage
  <2>4. CASE d # c
    <3>1. Stage(d)
      BY <1>4, StageFacts
    <3>2. Est(d) # Est(c) /\ Rem(d) # Est(c) /\ Des(d) # Est(c)
      BY <2>4, FunctorNames
    <3>3. /\ ioLoop'[d] = ioLoop[d] /\ state'[d] = state[d]
          /\ (d \in added' <=> d \in added)
          /\ (d \in connections_ => d \in connections_')
      BY <1>2, <1>7, <1>8, <2>4
    <3>4. /\ Est(d) \in Range(queue'[ioLoop[d]]) => Est(d) \in Range(queue[ioLoop[d]])
          /\ Des(d) \in Range(queue'[ioLoop[d]]) => Des(d) \in Range(queue[ioLoop[d]])
          /\ Rem(d) \in Range(queue'[0]) => Rem(d) \in Range(queue[0])
      BY <1>5, <2>1, <2>2, <3>2
    <3> QED
      BY <3>1, <3>3, <3>4 DEF Stage
  <2> QED
    BY <2>3, <2>4
<1>27. AliveInv'
  BY <1>25, <1>26 DEF AliveInv
<1> QED
  BY <1>13, <1>14, <1>15, <1>16, <1>17, <1>18, <1>19, <1>20, <1>21, <1>22,
     <1>23, <1>24, <1>27 DEF IInv, Types

-----------------------------------------------------------------------------
(* The theorems                                                             *)

LEMMA InitKeeps == Init => IInv
<1> SUFFICES ASSUME Init PROVE IInv
  OBVIOUS
<1>1. /\ numThreads_ \in ThreadNums /\ next_ = 1 /\ listening_ = FALSE
      /\ nextConnId_ = 1 /\ connections_ = {}
      /\ state = [c \in Conns |-> "none"] /\ fd = [c \in Conns |-> None]
      /\ ioLoop = [c \in Conns |-> 0] /\ added = {}
      /\ queue = [l \in Loops |-> <<>>]
      /\ quitLoops = {} /\ endedLoops = {} /\ baseRuns = TRUE
      /\ server = "alive" /\ idleFd_ = 1 /\ acceptPc = "no"
      /\ fds = [f \in Fds |-> IF f = 1 THEN <<"idle">> ELSE <<"free">>]
      /\ others = {} /\ opened = 0 /\ backlog = 0 /\ arrived = 0
      /\ stolen = FALSE /\ ndebug \in BOOLEAN /\ fault = "none"
  BY DEF Init, Loops
<1>2. numThreads_ \in 0..MaxLoop /\ numThreads_ \in Nat /\ 0 \in Loops
  BY <1>1, ServerAssumption DEF Loops
<1>3. \A l \in Loops : queue[l] = <<>> /\ Range(queue[l]) = {} /\ Len(queue[l]) = 0
  BY <1>1, RangeEmpty
<1>4. queue \in Queues
  <2>1. <<>> \in Seq(Functors)
    BY EmptySeq
  <2> QED
    BY <1>1, <2>1 DEF Queues
<1>5. Referenced(connections_, queue) = {}
  BY <1>1, <1>3, Refers
<1>6. BoolTypes /\ PlaceTypes
  BY <1>1 DEF BoolTypes, PlaceTypes
<1>7. ConnTypes
  BY <1>1, <1>2, <1>4 DEF ConnTypes, Queues
<1>8. /\ FdTypes /\ fds[1] = <<"idle">> /\ 1 \in Fds
      /\ \A f \in Fds : fds[f] = <<"idle">> \/ fds[f] = <<"free">>
  <2>1. 1 \in Fds
    BY ServerAssumption DEF Fds
  <2> QED
    BY <1>1, <2>1, OwnerFacts DEF FdTypes
<1>9. CountInv
  BY <1>1, ServerAssumption DEF CountInv
<1>10. LoopInv
  BY <1>1, <1>2 DEF LoopInv
<1>11. IdleInv /\ OtherInv
  BY <1>1, <1>8 DEF IdleInv, OtherInv, None
<1>12. OwnInv
  BY <1>1, <1>5, <1>8, OwnerFacts DEF OwnInv
<1>13. \A c \in Conns : ioLoop[c] \in Loops /\ ioLoop[c] = 0
  BY <1>1, <1>2
<1>14. QueuedInv
  <2>1. Placed(queue, ioLoop)
    BY <1>3, <1>13 DEF Placed
  <2>2. Ordered(queue, ioLoop, connections_)
    <3>1. \A l \in Loops : \A i \in 1..Len(queue[l]) : FALSE
      BY <1>3
    <3> QED
      BY <1>3, <1>13, <3>1 DEF Ordered
  <2> QED
    BY <1>1, <2>1, <2>2 DEF QueuedInv
<1>15. AddedInv /\ FaultInv
  BY <1>1 DEF AddedInv, FaultInv
<1>16. AliveInv
  <2>1. Distinct(queue)
    <3>1. \A l \in Loops : \A i \in 1..Len(queue[l]) : FALSE
      BY <1>3
    <3> QED
      BY <3>1 DEF Distinct
  <2>2. ASSUME NEW c \in Conns PROVE Stage(c)
    <3>1. state[c] = "none"
      BY <1>1
    <3> QED
      BY <1>2, <1>3, <1>13, <3>1 DEF Stage
  <2> QED
    BY <2>1, <2>2 DEF AliveInv
<1> QED
  BY <1>6, <1>7, <1>8, <1>9, <1>10, <1>11, <1>12, <1>14, <1>15, <1>16
     DEF IInv, Types

LEMMA StutterKeeps == IInv /\ UNCHANGED vars => IInv'
<1> SUFFICES ASSUME IInv, UNCHANGED vars PROVE IInv'
  OBVIOUS
<1>1. /\ numThreads_' = numThreads_ /\ next_' = next_ /\ quitLoops' = quitLoops
      /\ endedLoops' = endedLoops /\ nextConnId_' = nextConnId_
      /\ connections_' = connections_ /\ state' = state /\ fd' = fd
      /\ ioLoop' = ioLoop /\ added' = added /\ queue' = queue
      /\ listening_' = listening_ /\ baseRuns' = baseRuns /\ server' = server
      /\ idleFd_' = idleFd_ /\ acceptPc' = acceptPc /\ fds' = fds
      /\ others' = others /\ opened' = opened /\ backlog' = backlog
      /\ arrived' = arrived /\ stolen' = stolen /\ ndebug' = ndebug
      /\ fault' = fault
  BY DEF vars, pool, conns, kernel
<1>2. Types => Types'
  BY <1>1 DEF Types, BoolTypes, PlaceTypes, ConnTypes, FdTypes
<1>3. CountInv => CountInv'
  BY <1>1 DEF CountInv
<1>4. LoopInv => LoopInv'
  BY <1>1 DEF LoopInv
<1>5. IdleInv => IdleInv'
  BY <1>1 DEF IdleInv, Free
<1>6. (OtherInv => OtherInv') /\ (OwnInv => OwnInv')
  BY <1>1 DEF OtherInv, OwnInv
<1>7. (FaultInv => FaultInv') /\ (Running' => Running)
  BY <1>1 DEF FaultInv, Running
<1>8. QueuedInv => QueuedInv'
  BY <1>1 DEF QueuedInv
<1>9. AddedInv => AddedInv'
  BY <1>1 DEF AddedInv, Dead
<1>10. AliveInv => AliveInv'
  BY <1>1 DEF AliveInv, Stage
<1> QED
  BY <1>1, <1>2, <1>3, <1>4, <1>5, <1>6, <1>7, <1>8, <1>9, <1>10 DEF IInv

\* The invariant holds in either build, for any number of io threads, however
\* clients, peers, other threads, the loops and the destructor interleave.
THEOREM Invariance == Spec => []IInv
<1>1. Init => IInv
  BY InitKeeps
<1>2. IInv /\ [Next]_vars => IInv'
  <2> SUFFICES ASSUME IInv, [Next]_vars PROVE IInv'
    OBVIOUS
  <2>1. CASE \/ ClientConnects \/ start \/ quitBase \/ beginDestroy
             \/ (\E l \in Loops : quitThread(l)) \/ endDestroy
    BY <2>1, FlagStepsKeep
  <2>2. CASE OtherOpens
    BY <2>2, OtherOpensKeeps
  <2>3. CASE \E f \in Fds : OtherCloses(f)
    BY <2>3, OtherClosesKeeps
  <2>4. CASE Accept
    BY <2>4, AcceptKeeps
  <2>5. CASE AcceptFull \/ CloseIdle
    BY <2>5, CloseIdleKeeps
  <2>6. CASE AcceptIdle \/ OpenIdle
    BY <2>6, OpenIdleKeeps
  <2>7. CASE \E l \in Loops : connectEstablished(l)
    BY <2>7, EstablishedKeeps
  <2>8. CASE \E l \in Loops : connectDestroyed(l)
    BY <2>8, DestroyedKeeps
  <2>9. CASE removeConnectionInLoop
    BY <2>9, RemoveConnectionKeeps
  <2>10. CASE \E c \in Conns : PeerCloses(c)
    BY <2>10, PeerClosesKeeps
  <2>11. CASE \E c \in Conns : destroyConnection(c)
    BY <2>11, DestroyConnectionKeeps
  <2>12. CASE \E l \in Loops : endThread(l)
    BY <2>12, EndThreadKeeps
  <2>13. CASE destroyBaseLoop
    BY <2>13, DestroyBaseKeeps
  <2>14. CASE UNCHANGED vars
    BY <2>14, StutterKeeps
  <2> QED
    BY <2>1, <2>2, <2>3, <2>4, <2>5, <2>6, <2>7, <2>8, <2>9, <2>10, <2>11,
       <2>12, <2>13, <2>14 DEF Next, IdleStep, Functor
<1> QED
  BY <1>1, <1>2, PTL DEF Spec

\* Nobody closes a descriptor of another's: the connections that something
\* refers to, the idle descriptor and the other threads keep theirs through
\* EMFILE, closes and the destruction of the server.
THEOREM FdSafety == Spec => []FdOwnership
<1>1. IInv => FdOwnership
  <2> SUFFICES ASSUME IInv PROVE FdOwnership
    OBVIOUS
  <2>1. /\ PlaceTypes /\ ConnTypes /\ FdTypes /\ CountInv /\ LoopInv /\ IdleInv
        /\ OtherInv /\ OwnInv
    BY DEF IInv, Types
  <2>2. nextConnId_ \in 1..(MaxClients + 1) /\ backlog \in 0..MaxClients
    BY <2>1, ServerAssumption DEF CountInv
  <2>3. ioLoop \in [Conns -> Loops]
    <3>1. 0..numThreads_ \subseteq Loops
      BY <2>1, ServerAssumption DEF LoopInv, Loops
    <3> QED
      BY <2>1, <3>1 DEF ConnTypes
  <2>4. TypeOK
    BY <2>1, <2>2, <2>3 DEF TypeOK, PlaceTypes, ConnTypes, FdTypes, LoopInv
  <2>5. \A c \in Referenced(connections_, queue) : fds[fd[c]] = <<"conn", c>>
    BY <2>1 DEF OwnInv
  <2>6. acceptPc = "no" => IF idleFd_ = None THEN stolen ELSE fds[idleFd_] = <<"idle">>
    BY <2>1 DEF IdleInv
  <2> QED
    BY <2>1, <2>4, <2>5, <2>6 DEF FdOwnership, OtherInv
<1> QED
  BY <1>1, Invariance, PTL

\* While the server lives no assert fails and nothing freed is used by its
\* accepts, its peers' closes and its functors; once it is gone, only removals
\* that wait in the base loop keep a connection.
THEOREM ShutdownFaultSafety == Spec => []FaultsOnlyAtShutdown
<1>1. IInv => FaultsOnlyAtShutdown
  <2> SUFFICES ASSUME IInv PROVE FaultsOnlyAtShutdown
    OBVIOUS
  <2>1. fault # "none" => server # "alive"
    BY DEF IInv, FaultInv
  <2>2. ASSUME server = "gone", Running, NEW c \in Conns, Exists(c)
        PROVE  c \in {f[2] : f \in Range(queue[0])}
    <3>1. /\ ConnTypes /\ LoopInv /\ OwnInv /\ QueuedInv
      BY <2>2 DEF IInv, Types
    <3>2. c \in Referenced(connections_, queue) /\ connections_ = {}
      BY <2>2, <3>1 DEF Exists, OwnInv, LoopInv
    <3>3. PICK l \in Loops : \E f \in Range(queue[l]) : f[2] = c
      BY <3>2, Refers
    <3>4. PICK f \in Range(queue[l]) : f[2] = c
      BY <3>3
    <3>5. CASE l = 0
      BY <3>4, <3>5
    <3>6. CASE l # 0
      <4>1. l = ioLoop[c]
        BY <3>1, <3>4, <3>6 DEF QueuedInv, Placed
      <4>2. l \in 0..numThreads_ /\ endedLoops = 1..numThreads_
        BY <2>2, <3>1, <4>1 DEF ConnTypes, LoopInv
      <4>3. l \in endedLoops
        BY <3>1, <3>6, <4>2, ServerAssumption DEF LoopInv
      <4>4. queue[l] = <<>>
        BY <3>1, <4>3 DEF QueuedInv
      <4> QED
        BY <3>4, <4>4, RangeEmpty
    <3> QED
      BY <3>5, <3>6
  <2> QED
    BY <2>1, <2>2 DEF FaultsOnlyAtShutdown
<1> QED
  BY <1>1, Invariance, PTL

\* What the build with NDEBUG leaks: a living server keeps the entry, and so
\* the descriptor, of every connection it ever made.
THEOREM EntriesStay == Spec => []EntriesKept
<1>1. Init => EntriesKept
  BY DEF Init, EntriesKept
<1>2. IInv /\ EntriesKept /\ [Next]_vars => EntriesKept'
  <2> SUFFICES ASSUME IInv, EntriesKept, [Next]_vars, ndebug', server' = "alive"
               PROVE  connections_' = 1..(nextConnId_' - 1)
    BY DEF EntriesKept
  <2>1. CASE Accept
    <3>1. /\ nextConnId_' = nextConnId_ + 1 /\ ndebug' = ndebug
          /\ connections_' = connections_ \cup {nextConnId_} /\ server' = server
      BY <2>1 DEF Accept, newConnection
    <3>2. nextConnId_ \in Nat \ {0}
      BY DEF IInv, CountInv
    <3> QED
      BY <3>1, <3>2 DEF EntriesKept
  <2>2. CASE ~Accept
    <3>1. ndebug' = ndebug /\ nextConnId_' = nextConnId_ /\ server = "alive"
      <4>1. CASE ClientConnects \/ OtherOpens \/ (\E f \in Fds : OtherCloses(f))
        BY <4>1 DEF ClientConnects, OtherOpens, OtherCloses, conns
      <4>2. CASE start \/ quitBase \/ beginDestroy \/ endDestroy
        BY <4>2 DEF start, quitBase, beginDestroy, endDestroy, conns
      <4>3. CASE AcceptFull \/ IdleStep
        BY <4>3 DEF AcceptFull, IdleStep, AcceptIdle, CloseIdle, OpenIdle,
                    untouchedByIdle, conns
      <4>4. CASE \E l \in Loops : Functor(l)
        BY <4>4 DEF Functor, connectEstablished, connectDestroyed,
                    removeConnectionInLoop, untouchedByConnection
      <4>5. CASE \E c \in Conns : PeerCloses(c) \/ destroyConnection(c)
        BY <4>5 DEF PeerCloses, destroyConnection, untouchedByConnection
      <4>6. CASE \E l \in Loops : quitThread(l) \/ endThread(l)
        BY <4>6 DEF quitThread, endThread, conns
      <4>7. CASE destroyBaseLoop \/ UNCHANGED vars
        BY <4>7 DEF destroyBaseLoop, untouchedByConnection, vars, conns
      <4> QED
        BY <2>2, <4>1, <4>2, <4>3, <4>4, <4>5, <4>6, <4>7 DEF Next
    <3>2. connections_' = connections_
      <4>1. CASE ClientConnects \/ OtherOpens \/ (\E f \in Fds : OtherCloses(f))
        BY <4>1 DEF ClientConnects, OtherOpens, OtherCloses, conns
      <4>2. CASE start \/ quitBase \/ beginDestroy \/ endDestroy
        BY <4>2 DEF start, quitBase, beginDestroy, endDestroy, conns
      <4>3. CASE AcceptFull \/ IdleStep
        BY <4>3 DEF AcceptFull, IdleStep, AcceptIdle, CloseIdle, OpenIdle,
                    untouchedByIdle, conns
      <4>4. CASE \E l \in Loops : Functor(l)
        BY <3>1, <4>4 DEF Functor, connectEstablished, connectDestroyed,
           connectDestroyedNow, removeConnectionInLoop, removeInLoop, erased, settle
      <4>5. CASE \E c \in Conns : PeerCloses(c) \/ destroyConnection(c)
        BY <3>1, <4>5 DEF PeerCloses, destroyConnection, removeInLoop, erased, settle
      <4>6. CASE \E l \in Loops : quitThread(l) \/ endThread(l)
        BY <4>6 DEF quitThread, endThread, settle, conns
      <4>7. CASE destroyBaseLoop \/ UNCHANGED vars
        BY <4>7 DEF destroyBaseLoop, settle, vars, conns
      <4> QED
        BY <2>2, <4>1, <4>2, <4>3, <4>4, <4>5, <4>6, <4>7 DEF Next
    <3> QED
      BY <3>1, <3>2 DEF EntriesKept
  <2> QED
    BY <2>1, <2>2
<1> QED
  BY <1>1, <1>2, Invariance, PTL DEF Spec
=============================================================================
