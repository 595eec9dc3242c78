-------------------------- MODULE TcpClientProofs --------------------------
(***************************************************************************)
(* Proofs about TcpClient and its Connector, in either build and for any    *)
(* number of calls and descriptors: every socket has one owner, an attempt, *)
(* a retry and a connection exclude one another as long as calls of         *)
(* connect() do not overlap, and what can go wrong has a cause the user can *)
(* avoid.                                                                   *)
(***************************************************************************)
EXTENDS TcpClient, TLAPS, FiniteSetTheorems, SequenceTheorems

-----------------------------------------------------------------------------
(* The inductive invariant                                                  *)

StartIt == <<"startInLoop">>
StopIt == <<"stopInLoop">>
ResetIt == <<"resetChannel">>
DestroyIt(s) == <<"connectDestroyed", s>>
ForceIt(s) == <<"forceCloseInLoop", s>>

ConnectorFunctors == {StartIt, StopIt, ResetIt}
ConnectionFunctors == {"connectDestroyed", "forceCloseInLoop"} \X Socks
AllFunctors == ConnectorFunctors \cup ConnectionFunctors

\* The functors that have not run
Posted == Range(functors) \cup Range(pendingFunctors_)

FlagTypes ==
  /\ connect_ \in BOOLEAN /\ clientConnect_ \in BOOLEAN /\ retry_ \in BOOLEAN
  /\ attached \in BOOLEAN /\ clientAlive \in BOOLEAN /\ overlap \in BOOLEAN

PlaceTypes ==
  /\ state_ \in {"kDisconnected", "kConnecting", "kConnected"}
  /\ phase \in {"poll", "swap", "functors", "start", "restart"}
  /\ goal \in {"none", "wanted", "reached", "gaveUp", "stopped"}
  /\ fault \in {"none", "assert", "null", "dangling", "uaf"}
  /\ userPc \in {<<"idle">>, <<"disconnect", "lock">>}
                  \cup ({"connect", "stop"} \X {"store", "post"})

NumberTypes ==
  /\ retryDelayMs_ \in kInitRetryDelayMs..kMaxRetryDelayMs
  /\ timers \in Nat /\ calls \in 0..MaxCalls

SockTypes ==
  /\ channel_ \in Socks \cup {None} /\ open \subseteq Socks
  /\ connection_ \in Socks \cup {None}
  /\ connState \in [Socks -> {"none", "up", "shut", "down", "forced"}]

QueueTypes ==
  /\ functors \in Seq(AllFunctors) /\ pendingFunctors_ \in Seq(AllFunctors)
  /\ phase # "functors" => functors = <<>>

Types == FlagTypes /\ PlaceTypes /\ NumberTypes /\ SockTypes /\ QueueTypes

\* The functors of F are each at most once in the two queues
Solo(q, r, F) ==
  /\ \A i, j \in 1..Len(q) : q[i] \in F /\ q[i] = q[j] => i = j
  /\ \A i, j \in 1..Len(r) : r[i] \in F /\ r[i] = r[j] => i = j
  /\ Range(q) \cap Range(r) \cap F = {}

\* A connection that is down has one functor that will free it, and the one
\* the client holds is not down
ConnectionInv ==
  /\ Solo(functors, pendingFunctors_, ConnectionFunctors)
  /\ \A s \in Socks : DestroyIt(s) \in Posted => connState[s] = "down"
  /\ \A s \in Socks : ForceIt(s) \in Posted => connState[s] = "forced"
  /\ clientAlive /\ connection_ # None => connState[connection_] \in {"up", "shut"}
  /\ userPc # <<"idle">> => clientAlive

\* A Channel out of the poller has its resetChannel() coming, and in this
\* very turn when its descriptor has become a connection
ChannelInv ==
  /\ attached => channel_ # None
  /\ channel_ # None /\ ~attached => ResetIt \in Posted
  /\ channel_ # None /\ ~attached /\ state_ = "kConnecting"
       => connState[channel_] = "none"
  /\ channel_ # None /\ ~attached /\ connState[channel_] # "none"
       => phase = "swap" \/ (phase = "functors" /\ ResetIt \in Range(functors))
  /\ state_ = "kConnecting" /\ ~attached => retry_
  /\ phase = "restart" => retry_ /\ pendingFunctors_ # <<>>

\* SocketsOwned, descriptor by descriptor
OwnedInv ==
  /\ \A s \in Socks :
       s \in open <=> (attached /\ s = channel_) \/ connState[s] # "none"
  /\ attached => connState[channel_] = "none"

\* The stages of connecting, of which at most one is there
Starting == phase \in {"start", "restart"}
Asked == StartIt \in Posted
Calling == userPc[1] = "connect"

OneStage ==
  /\ attached => timers = 0 /\ Live = {} /\ ~Starting /\ ~Asked /\ ~Calling
  /\ timers > 0 => Live = {} /\ ~Starting /\ ~Asked /\ ~Calling
  /\ Live # {} => ~Starting /\ ~Asked /\ ~Calling
  /\ Starting => ~Asked /\ ~Calling
  /\ Asked => ~Calling
  /\ timers <= 1
  /\ \A s, c \in Live : s = c
  /\ Solo(functors, pendingFunctors_, {StartIt})

\* A queued stop() has the last word on connect_
StopInv ==
  /\ StopIt \in Posted => ~connect_ /\ ~Calling
  /\ userPc = <<"stop", "post">> => ~connect_

\* As long as resetChannel() is queued no new attempt begins
ResetInv ==
  /\ ResetIt \in Posted => ~attached /\ ~Starting /\ ~Asked /\ ~Calling
  /\ ResetIt \in Range(pendingFunctors_) /\ phase \in {"poll", "functors"}
       => timers = 0 /\ Live = {}
  /\ state_ = "kConnecting" /\ channel_ # None => attached

FaultInv ==
  /\ fault = "null" => retry_
  /\ fault = "dangling" => overlap \/ ~clientAlive
  /\ fault = "uaf" => ~clientAlive

\* What holds while the process runs, and as long as no calls overlap
Sound == ConnectionInv /\ ChannelInv /\ OwnedInv
Orderly == OneStage /\ StopInv /\ ResetInv

IInv ==
  /\ Types
  /\ FaultInv
  /\ Running => Sound
  /\ Running /\ ~overlap => Orderly
-----------------------------------------------------------------------------
(* The queues                                                               *)

\* What a push, a pop and the empty queue hold.
LEMMA RangePush ==
  ASSUME NEW S, NEW q \in Seq(S), NEW f \in S
  PROVE  Append(q, f) \in Seq(S) /\ Range(Append(q, f)) = Range(q) \cup {f}
<1>1. /\ Append(q, f) \in Seq(S) /\ Len(Append(q, f)) = Len(q) + 1
      /\ Len(q) \in Nat
      /\ \A i \in 1..Len(q) : Append(q, f)[i] = q[i]
      /\ Append(q, f)[Len(q) + 1] = f
  BY AppendProperties
<1>2. DOMAIN q = 1..Len(q) /\ DOMAIN Append(q, f) = 1..(Len(q) + 1)
  BY <1>1
<1> DEFINE a == Append(q, f)
<1> HIDE DEF a
<1>3. Range(a) = Range(q) \cup {f}
  <2>1. ASSUME NEW x \in Range(a) PROVE x \in Range(q) \cup {f}
    <3>1. PICK i \in 1..(Len(q) + 1) : x = a[i]
      BY <1>2 DEF Range, a
    <3>2. i \in 1..Len(q) \/ i = Len(q) + 1
      BY <1>1, <3>1
    <3> QED
      BY <1>1, <1>2, <3>1, <3>2 DEF Range, a
  <2>2. ASSUME NEW x \in Range(q) PROVE x \in Range(a)
    <3>1. PICK i \in 1..Len(q) : x = q[i]
      BY <1>2 DEF Range
    <3>2. i \in 1..(Len(q) + 1) /\ a[i] = x
      BY <1>1, <3>1 DEF a
    <3> QED
      BY <1>2, <3>2 DEF Range, a
  <2>3. f \in Range(a)
    <3>1. Len(q) + 1 \in 1..(Len(q) + 1)
      BY <1>1
    <3> QED
      BY <1>1, <1>2, <3>1 DEF Range, a
  <2> QED
    BY <2>1, <2>2, <2>3
<1> QED
  BY <1>1, <1>3 DEF a

LEMMA RangePop ==
  ASSUME NEW S, NEW q \in Seq(S), q # <<>>
  PROVE  /\ Tail(q) \in Seq(S) /\ Head(q) \in S
         /\ Range(q) = Range(Tail(q)) \cup {Head(q)}
<1> DEFINE t == Tail(q)
<1>1. /\ t \in Seq(S) /\ Head(q) \in S /\ Head(q) = q[1]
      /\ Len(q) \in Nat \ {0} /\ Len(t) = Len(q) - 1
      /\ \A i \in 1..Len(t) : t[i] = q[i + 1]
  BY HeadTailProperties, EmptySeq
<1> HIDE DEF t
<1>2. DOMAIN q = 1..Len(q) /\ DOMAIN t = 1..(Len(q) - 1)
  BY <1>1
<1>3. ASSUME NEW x \in Range(q) PROVE x \in Range(t) \cup {Head(q)}
  <2>1. PICK i \in 1..Len(q) : x = q[i]
    BY <1>2 DEF Range
  <2>2. CASE i = 1
    BY <1>1, <2>1, <2>2
  <2>3. CASE i # 1
    <3>1. i - 1 \in 1..(Len(q) - 1) /\ (i - 1) + 1 = i
      BY <1>1, <2>1, <2>3
    <3>2. t[i - 1] = q[i]
      BY <1>1, <3>1
    <3> QED
      BY <1>2, <2>1, <3>1, <3>2 DEF Range
  <2> QED
    BY <2>2, <2>3
<1>4. ASSUME NEW x \in Range(t) PROVE x \in Range(q)
  <2>1. PICK i \in 1..(Len(q) - 1) : x = t[i]
    BY <1>2 DEF Range
  <2>2. i + 1 \in 1..Len(q) /\ t[i] = q[i + 1]
    BY <1>1, <2>1
  <2> QED
    BY <1>2, <2>1, <2>2 DEF Range
<1>5. Head(q) \in Range(q)
  <2>1. 1 \in 1..Len(q)
    BY <1>1
  <2> QED
    BY <1>1, <1>2, <2>1 DEF Range
<1> QED
  BY <1>1, <1>3, <1>4, <1>5 DEF t

LEMMA RangeEmpty == Range(<<>>) = {} /\ \A S : <<>> \in Seq(S)
BY EmptySeq DEF Range

\* Queues that are changed in one of the ways the loop changes them keep
\* what is in them once.
LEMMA SoloPush ==
  ASSUME NEW S, NEW q \in Seq(S), NEW r \in Seq(S), NEW F, NEW f \in S,
         Solo(q, r, F), f \in F => f \notin Range(q) \cup Range(r)
  PROVE  Solo(q, Append(r, f), F)
<1>1. /\ Len(Append(r, f)) = Len(r) + 1 /\ Len(r) \in Nat
      /\ \A i \in 1..Len(r) : Append(r, f)[i] = r[i]
      /\ Append(r, f)[Len(r) + 1] = f
  BY AppendProperties
<1>2. Range(Append(r, f)) = Range(r) \cup {f}
  BY RangePush
<1> DEFINE a == Append(r, f)
<1> HIDE DEF a
<1>3. \A i \in 1..Len(a) : i \in 1..Len(r) \/ i = Len(r) + 1
  BY <1>1 DEF a
<1>4. \A i \in 1..Len(r) : r[i] \in Range(r)
  BY DEF Range
<1>5. \A i, j \in 1..Len(a) : a[i] \in F /\ a[i] = a[j] => i = j
  BY <1>1, <1>3, <1>4 DEF Solo, a
<1>6. Range(q) \cap Range(a) \cap F = {}
  BY <1>2 DEF Solo, a
<1> QED
  BY <1>5, <1>6 DEF Solo, a

LEMMA SoloPop ==
  ASSUME NEW S, NEW q \in Seq(S), NEW r \in Seq(S), NEW F, q # <<>>,
         Solo(q, r, F)
  PROVE  /\ Solo(Tail(q), r, F)
         /\ Head(q) \in F => Head(q) \notin Range(Tail(q)) \cup Range(r)
<1> DEFINE t == Tail(q)
<1>1. /\ t \in Seq(S) /\ Head(q) = q[1]
      /\ Len(q) \in Nat \ {0} /\ Len(t) = Len(q) - 1
      /\ \A i \in 1..Len(t) : t[i] = q[i + 1]
  BY HeadTailProperties, EmptySeq
<1>2. Range(q) = Range(t) \cup {Head(q)}
  BY RangePop
<1> HIDE DEF t
<1>3. \A i \in 1..Len(t) : i + 1 \in 1..Len(q) /\ i + 1 # 1
  BY <1>1
<1>4. 1 \in 1..Len(q)
  BY <1>1
<1>5. \A i, j \in 1..Len(t) : t[i] \in F /\ t[i] = t[j] => i = j
  <2> SUFFICES ASSUME NEW i \in 1..Len(t), NEW j \in 1..Len(t),
                      t[i] \in F, t[i] = t[j]
               PROVE  i = j
    OBVIOUS
  <2>1. q[i + 1] \in F /\ q[i + 1] = q[j + 1]
    BY <1>1
  <2>2. i + 1 = j + 1
    BY <1>3, <2>1 DEF Solo
  <2> QED
    BY <2>2
<1>6. Head(q) \in F => Head(q) \notin Range(t)
  <2> SUFFICES ASSUME q[1] \in F, q[1] \in Range(t) PROVE FALSE
    BY <1>1
  <2>1. PICK i \in 1..Len(t) : q[1] = t[i]
    BY <1>1 DEF Range
  <2>2. q[1] = q[i + 1]
    BY <1>1, <2>1
  <2> QED
    BY <1>3, <1>4, <2>2 DEF Solo
<1>7. Range(t) \cap Range(r) \cap F = {}
  BY <1>2 DEF Solo
<1>8. Head(q) \in F => Head(q) \notin Range(r)
  BY <1>2 DEF Solo
<1> QED
  BY <1>5, <1>6, <1>7, <1>8 DEF Solo, t

LEMMA SoloSwap ==
  ASSUME NEW r, NEW F, Solo(<<>>, r, F)
  PROVE  Solo(r, <<>>, F)
BY RangeEmpty, EmptySeq DEF Solo

\* The functors, told apart.
LEMMA FunctorNames ==
  /\ StartIt \in AllFunctors /\ StopIt \in AllFunctors
  /\ ResetIt \in AllFunctors
  /\ StartIt # StopIt /\ StartIt # ResetIt /\ StopIt # ResetIt
  /\ ConnectorFunctors \cap ConnectionFunctors = {}
  /\ \A s \in Socks : /\ DestroyIt(s) \in ConnectionFunctors
                      /\ ForceIt(s) \in ConnectionFunctors
  /\ \A s, c \in Socks : /\ DestroyIt(s) # ForceIt(c)
                         /\ DestroyIt(s) = DestroyIt(c) => s = c
                         /\ ForceIt(s) = ForceIt(c) => s = c
BY DEF StartIt, StopIt, ResetIt, DestroyIt, ForceIt, AllFunctors,
       ConnectorFunctors, ConnectionFunctors

LEMMA FunctorsByName ==
  ASSUME NEW f \in AllFunctors
  PROVE  /\ f[1] = "startInLoop" => f = StartIt
         /\ f[1] = "stopInLoop" => f = StopIt
         /\ f[1] = "resetChannel" => f = ResetIt
         /\ f[1] = "connectDestroyed" => f[2] \in Socks /\ f = DestroyIt(f[2])
         /\ f[1] = "forceCloseInLoop" => f[2] \in Socks /\ f = ForceIt(f[2])
BY DEF StartIt, StopIt, ResetIt, DestroyIt, ForceIt, AllFunctors,
       ConnectorFunctors, ConnectionFunctors

\* What the loop does to its queues.
LEMMA Pushes ==
  ASSUME QueueTypes, NEW f \in AllFunctors, functors' = functors,
         pendingFunctors_' = Append(pendingFunctors_, f)
  PROVE  /\ functors' \in Seq(AllFunctors)
         /\ pendingFunctors_' \in Seq(AllFunctors)
         /\ pendingFunctors_' # <<>>
         /\ Range(functors') = Range(functors)
         /\ Range(pendingFunctors_') = Range(pendingFunctors_) \cup {f}
         /\ Posted' = Posted \cup {f}
         /\ \A F : /\ Solo(functors, pendingFunctors_, F)
                   /\ f \in F => f \notin Posted
                   => Solo(functors', pendingFunctors_', F)
<1>1. functors \in Seq(AllFunctors) /\ pendingFunctors_ \in Seq(AllFunctors)
  BY DEF QueueTypes
<1>2. /\ pendingFunctors_' \in Seq(AllFunctors)
      /\ Range(pendingFunctors_') = Range(pendingFunctors_) \cup {f}
  BY <1>1, RangePush
<1>3. pendingFunctors_' # <<>>
  BY <1>2, RangeEmpty
<1>4. ASSUME NEW F, Solo(functors, pendingFunctors_, F),
             f \in F => f \notin Posted
      PROVE  Solo(functors', pendingFunctors_', F)
  BY <1>1, <1>4, SoloPush DEF Posted
<1>5. Posted' = Posted \cup {f}
  BY <1>2 DEF Posted
<1> QED
  BY <1>1, <1>2, <1>3, <1>4, <1>5

LEMMA Pops ==
  ASSUME QueueTypes, functors # <<>>, functors' = Tail(functors),
         pendingFunctors_' = pendingFunctors_
  PROVE  /\ functors' \in Seq(AllFunctors)
         /\ pendingFunctors_' \in Seq(AllFunctors)
         /\ Head(functors) \in AllFunctors
         /\ Range(functors) = Range(functors') \cup {Head(functors)}
         /\ Posted = Posted' \cup {Head(functors)}
         /\ \A F : Solo(functors, pendingFunctors_, F) =>
                     /\ Solo(functors', pendingFunctors_', F)
                     /\ Head(functors) \in F => Head(functors) \notin Posted'
<1>1. functors \in Seq(AllFunctors) /\ pendingFunctors_ \in Seq(AllFunctors)
  BY DEF QueueTypes
<1>2. /\ functors' \in Seq(AllFunctors) /\ Head(functors) \in AllFunctors
      /\ Range(functors) = Range(functors') \cup {Head(functors)}
  BY <1>1, RangePop
<1>3. ASSUME NEW F, Solo(functors, pendingFunctors_, F)
      PROVE  /\ Solo(functors', pendingFunctors_', F)
             /\ Head(functors) \in F => Head(functors) \notin Posted'
  BY <1>1, <1>3, SoloPop DEF Posted
<1>4. Posted = Posted' \cup {Head(functors)}
  BY <1>2 DEF Posted
<1> QED
  BY <1>1, <1>2, <1>3, <1>4

LEMMA Swaps ==
  ASSUME QueueTypes, functors = <<>>, functors' = pendingFunctors_,
         pendingFunctors_' = <<>>
  PROVE  /\ functors' \in Seq(AllFunctors)
         /\ pendingFunctors_' \in Seq(AllFunctors)
         /\ Range(functors') = Posted
         /\ Range(pendingFunctors_') = {}
         /\ Posted' = Posted
         /\ \A F : Solo(functors, pendingFunctors_, F) =>
                     Solo(functors', pendingFunctors_', F)
<1>1. pendingFunctors_ \in Seq(AllFunctors) /\ <<>> \in Seq(AllFunctors)
  BY RangeEmpty DEF QueueTypes
<1>2. ASSUME NEW F, Solo(functors, pendingFunctors_, F)
      PROVE  Solo(functors', pendingFunctors_', F)
  BY <1>2, SoloSwap
<1>3. Range(<<>>) = {}
  BY RangeEmpty
<1> QED
  BY <1>1, <1>2, <1>3 DEF Posted

\* The invariant, where a step can be taken.
Good ==
  /\ Types /\ FaultInv
  /\ Running /\ Sound
  /\ ~overlap => Orderly

LEMMA GoodFacts ==
  ASSUME Good
  PROVE  /\ FlagTypes /\ PlaceTypes /\ NumberTypes /\ SockTypes /\ QueueTypes
         /\ fault = "none"
         /\ ConnectionInv /\ ChannelInv /\ OwnedInv
         /\ ~overlap => OneStage /\ StopInv /\ ResetInv
BY DEF Good, Types, Sound, Orderly, Running

LEMMA Gather ==
  ASSUME FlagTypes', PlaceTypes', NumberTypes', SockTypes', QueueTypes',
         FaultInv',
         Running' => ConnectionInv' /\ ChannelInv' /\ OwnedInv',
         Running' /\ ~overlap' => OneStage' /\ StopInv' /\ ResetInv'
  PROVE  IInv'
BY DEF IInv, Types, Sound, Orderly

\* The loop's turn.
LEMMA TurnKeeps ==
  ASSUME Good, Turn
  PROVE  IInv'
<1> USE GoodFacts
<1>1. UNCHANGED <<connect_, clientConnect_, retry_>>
      /\ UNCHANGED <<attached, clientAlive, overlap>>
      /\ UNCHANGED <<state_, goal, fault, userPc>>
      /\ UNCHANGED <<retryDelayMs_, timers, calls>>
      /\ UNCHANGED <<channel_, open, connection_, connState>>
  BY DEF Turn, SwapFunctors, FunctorsDone, connector, client, user
<1>2. FlagTypes' /\ NumberTypes' /\ SockTypes'
  BY <1>1 DEF FlagTypes, NumberTypes, SockTypes
<1>3. FaultInv'
  BY <1>1 DEF Good, FaultInv
<1>4. OwnedInv'
  BY <1>1 DEF OwnedInv
<1>5. Live' = Live
  BY <1>1 DEF Live
<1>6. CASE SwapFunctors
  <2>1. /\ phase \in {"swap", "poll"} /\ phase' = "functors"
        /\ functors' = pendingFunctors_ /\ pendingFunctors_' = <<>>
    BY <1>6 DEF SwapFunctors
  <2>2. functors = <<>>
    BY <2>1 DEF QueueTypes
  <2>3. /\ functors' \in Seq(AllFunctors)
        /\ pendingFunctors_' \in Seq(AllFunctors)
        /\ Range(functors') = Posted
        /\ Range(pendingFunctors_') = {}
        /\ Posted' = Posted
        /\ \A F : Solo(functors, pendingFunctors_, F) =>
                    Solo(functors', pendingFunctors_', F)
    BY <2>1, <2>2, Swaps
  <2>4. PlaceTypes' /\ QueueTypes'
    BY <1>1, <2>1, <2>3 DEF PlaceTypes, QueueTypes
  <2>5. ConnectionInv'
    BY <1>1, <2>3 DEF ConnectionInv
  <2>6. ChannelInv'
    BY <1>1, <2>1, <2>3 DEF ChannelInv
  <2>7. ASSUME ~overlap PROVE OneStage' /\ StopInv' /\ ResetInv'
    <3>1. (Asked' <=> Asked) /\ (Calling' <=> Calling)
          /\ ~Starting /\ ~Starting'
      BY <1>1, <2>1, <2>3 DEF Asked, Calling, Starting
    <3>2. OneStage'
      BY <1>1, <1>5, <2>3, <2>7, <3>1 DEF OneStage
    <3>3. StopInv'
      BY <1>1, <2>3, <2>7, <3>1 DEF StopInv
    <3>4. ResetInv'
      BY <1>1, <2>3, <2>7, <3>1 DEF ResetInv
    <3> QED
      BY <3>2, <3>3, <3>4
  <2> QED
    BY <1>1, <1>2, <1>3, <1>4, <2>4, <2>5, <2>6, <2>7, Gather
<1>7. CASE FunctorsDone
  <2>1. /\ phase = "functors" /\ phase' = "poll" /\ functors = <<>>
        /\ UNCHANGED <<functors, pendingFunctors_>>
    BY <1>7 DEF FunctorsDone
  <2>2. /\ Posted' = Posted /\ Range(functors) = {}
        /\ Range(pendingFunctors_') = Range(pendingFunctors_)
    BY <2>1, RangeEmpty DEF Posted
  <2>3. PlaceTypes' /\ QueueTypes'
    BY <1>1, <2>1 DEF PlaceTypes, QueueTypes
  <2>4. ConnectionInv'
    BY <1>1, <2>1, <2>2 DEF ConnectionInv
  <2>5. ChannelInv'
    BY <1>1, <2>1, <2>2 DEF ChannelInv
  <2>6. ASSUME ~overlap PROVE OneStage' /\ StopInv' /\ ResetInv'
    <3>1. (Asked' <=> Asked) /\ (Calling' <=> Calling)
          /\ ~Starting /\ ~Starting'
      BY <1>1, <2>1, <2>2 DEF Asked, Calling, Starting
    <3>2. OneStage'
      BY <1>1, <1>5, <2>1, <2>6, <3>1 DEF OneStage
    <3>3. StopInv'
      BY <1>1, <2>2, <2>6, <3>1 DEF StopInv
    <3>4. ResetInv'
      BY <1>1, <1>5, <2>1, <2>2, <2>6, <3>1 DEF ResetInv
    <3> QED
      BY <3>2, <3>3, <3>4
  <2> QED
    BY <1>1, <1>2, <1>3, <1>4, <2>3, <2>4, <2>5, <2>6, Gather
<1> QED
  BY <1>6, <1>7 DEF Turn
-----------------------------------------------------------------------------
(* startInLoop()                                                            *)

\* socket() finds a descriptor that is not open.
LEMMA NewSock ==
  ASSUME open # Socks, open \subseteq Socks
  PROVE  newSock \in Socks \ open
<1> DEFINE T == Socks \ open
<1>1. T # {} /\ T \subseteq Nat
  <2>1. T # {}
    OBVIOUS
  <2>2. Socks \subseteq Nat
    BY SockAssumption DEF Socks
  <2> QED
    BY <2>1, <2>2
<1>2. PICK x \in T : \A y \in T : ~(<<y, x>> \in OpToRel(<, Nat))
  BY <1>1, NatLessThanWellFounded, WFMin
<1>3. \A y \in T : ~(y < x)
  BY <1>1, <1>2 DEF OpToRel
<1>4. \A y \in T : x <= y
  BY <1>1, <1>3
<1> QED
  BY <1>2, <1>4 DEF newSock

\* What startInLoop() comes to: an attempt is under way, or it is over
Begins(left) ==
  /\ channel_' \in Socks \ open /\ open' = open \cup {channel_'}
  /\ state_' = "kConnecting" /\ attached' = TRUE
  /\ timers' = left
  /\ fault' \in {"none", "assert", "dangling"}
  /\ fault' = "none" => ~attached
  /\ fault' = "dangling" => attached \/ ~clientAlive

Waits(left, state) ==
  /\ UNCHANGED <<open, channel_, attached, fault>>
  /\ \/ state_' = "kDisconnected" /\ timers' \in {left, left + 1}
     \/ state_' = state /\ timers' = left

\* The delay is doubled up to its cap.
LEMMA NextDelay ==
  ASSUME NEW d \in kInitRetryDelayMs..kMaxRetryDelayMs
  PROVE  nextDelay(d) \in kInitRetryDelayMs..kMaxRetryDelayMs
BY DelayAssumption DEF nextDelay

LEMMA StartEffects ==
  ASSUME Good, NEW left \in Nat, NEW state,
         NEW delay \in kInitRetryDelayMs..kMaxRetryDelayMs,
         startInLoop(left, state, delay)
  PROVE  /\ Begins(left) \/ Waits(left, state)
         /\ retryDelayMs_' \in kInitRetryDelayMs..kMaxRetryDelayMs
         /\ goal' \in {"none", "wanted", "reached", "gaveUp", "stopped"}
<1> USE GoodFacts
<1>1. CASE connecting(left, delay)
  <2>1. open # Socks /\ open \subseteq Socks
    BY <1>1 DEF connecting, SockTypes
  <2>2. newSock \in Socks \ open
    BY <2>1, NewSock
  <2>3. /\ open' = open \cup {newSock} /\ state_' = "kConnecting"
        /\ channel_' = newSock /\ attached' = TRUE
        /\ timers' = left /\ retryDelayMs_' = delay /\ goal' = goal
    BY <1>1 DEF connecting
  <2>4. attached => channel_ # None
    BY DEF ChannelInv
  <2>5. fault' = IF Asserts
                   THEN IF channel_ # None \/ (~clientAlive /\ left = 0)
                          THEN "assert" ELSE fault
                   ELSE IF attached \/ (~clientAlive /\ left = 0)
                          THEN "dangling" ELSE fault
    <3>1. Asserts \in BOOLEAN
      BY BuildAssumption
    <3> DEFINE last == ~clientAlive /\ left = 0
               c1 == Asserts /\ (channel_ # None \/ last)
               c2 == ~Asserts /\ (attached \/ last)
    <3>2. (CASE c1 -> dies("assert") [] c2 -> dies("dangling")
            [] OTHER -> lives)
      BY <1>1 DEF connecting
    <3>3. CASE c1
      <4>1. ~c2
        BY <3>3
      <4>2. dies("assert")
        BY <3>2, <3>3, <4>1
      <4> QED
        BY <3>3, <4>2 DEF dies
    <3>4. CASE c2
      <4>1. ~c1
        BY <3>4
      <4>2. dies("dangling")
        BY <3>2, <3>4, <4>1
      <4> QED
        BY <3>4, <4>2 DEF dies
    <3>5. CASE ~c1 /\ ~c2
      <4>1. lives
        BY <3>2, <3>5
      <4> QED
        BY <3>1, <3>5, <4>1 DEF lives
    <3> QED
      BY <3>3, <3>4, <3>5
  <2>6. /\ fault' \in {"none", "assert", "dangling"}
        /\ fault' = "none" => ~attached
        /\ fault' = "dangling" => attached \/ ~clientAlive
    BY <2>4, <2>5
  <2>7. Begins(left)
    BY <2>2, <2>3, <2>6 DEF Begins
  <2> QED
    BY <2>3, <2>7 DEF PlaceTypes
<1>2. CASE /\ state_' = "kDisconnected" /\ rearm(left, delay)
           /\ lives /\ UNCHANGED <<open, channel_, attached, goal>>
  <2>1. /\ timers' \in {left, left + 1}
        /\ retryDelayMs_' \in kInitRetryDelayMs..kMaxRetryDelayMs
    BY <1>2, NextDelay DEF rearm
  <2> QED
    BY <1>2, <2>1 DEF Waits, lives, PlaceTypes
<1>3. CASE /\ state_' = state /\ timers' = left /\ retryDelayMs_' = delay
           /\ lives /\ UNCHANGED <<open, channel_, attached>>
           /\ goal' = IF goal = "wanted" THEN "gaveUp" ELSE goal
  BY <1>3 DEF Waits, lives, PlaceTypes
<1>4. CASE /\ state_' = state /\ timers' = left /\ retryDelayMs_' = delay
           /\ lives /\ UNCHANGED <<open, channel_, attached, goal>>
  BY <1>4 DEF Waits, lives, PlaceTypes
<1> QED
  BY <1>1, <1>2, <1>3, <1>4 DEF startInLoop, connect

\* startInLoop(), wherever it is called: by start(), restart(), a retry
\* timer, or as a functor.
LEMMA StartKeeps ==
  ASSUME Good, NEW left \in Nat, NEW state,
         NEW delay \in kInitRetryDelayMs..kMaxRetryDelayMs,
         startInLoop(left, state, delay),
         state = state_ \/ (state = "kConnecting" /\ phase = "restart"),
         connect_' = connect_,
         UNCHANGED <<client, user, overlap>>,
         functors' \in Seq(AllFunctors),
         pendingFunctors_' \in Seq(AllFunctors),
         \/ phase' = "swap" /\ functors' = <<>>
         \/ /\ phase = "functors" /\ phase' = "functors"
            /\ ResetIt \in Range(functors) => ResetIt \in Range(functors'),
         Posted' \subseteq Posted, Posted \subseteq Posted' \cup {StartIt},
         \A F : Solo(functors, pendingFunctors_, F) =>
                  Solo(functors', pendingFunctors_', F),
         ~overlap => /\ left = 0 /\ ~attached /\ Live = {}
                     /\ ResetIt \notin Posted /\ ~Asked' /\ ~Calling
  PROVE  IInv'
<1> USE GoodFacts
<1>1. /\ UNCHANGED <<clientConnect_, retry_, clientAlive, overlap>>
      /\ UNCHANGED <<connection_, connState>>
      /\ UNCHANGED <<userPc, calls>>
  BY DEF client, user
<1>2. /\ Begins(left) \/ Waits(left, state)
      /\ retryDelayMs_' \in kInitRetryDelayMs..kMaxRetryDelayMs
      /\ goal' \in {"none", "wanted", "reached", "gaveUp", "stopped"}
  BY StartEffects
<1>3. FlagTypes'
  <2>1. attached' \in BOOLEAN
    BY <1>2 DEF Begins, Waits, FlagTypes
  <2> QED
    BY <1>1, <2>1 DEF FlagTypes
<1>4. PlaceTypes'
  <2>1. fault' \in {"none", "assert", "null", "dangling", "uaf"}
    BY <1>2 DEF Begins, Waits, PlaceTypes
  <2>2. state_' \in {"kDisconnected", "kConnecting", "kConnected"}
    BY <1>2 DEF Begins, Waits, PlaceTypes
  <2> QED
    BY <1>1, <1>2, <2>1, <2>2 DEF PlaceTypes
<1>5. NumberTypes'
  <2>1. timers' \in Nat
    BY <1>2 DEF Begins, Waits
  <2> QED
    BY <1>1, <1>2, <2>1 DEF NumberTypes
<1>6. SockTypes'
  <2>1. channel_' \in Socks \cup {None} /\ open' \subseteq Socks
    BY <1>2 DEF Begins, Waits, SockTypes
  <2> QED
    BY <1>1, <2>1 DEF SockTypes
<1>7. QueueTypes'
  BY DEF QueueTypes
<1>8. FaultInv'
  <2>1. ~overlap => ~attached
    OBVIOUS
  <2>2. fault' \in {"none", "assert"} \/ (fault' = "dangling" /\ Begins(left))
    BY <1>2 DEF Begins, Waits
  <2> QED
    BY <1>1, <2>1, <2>2 DEF Begins, FaultInv, FlagTypes
<1>9. ConnectionInv'
  <2>1. Solo(functors, pendingFunctors_, ConnectionFunctors)'
    BY DEF ConnectionInv
  <2> QED
    BY <1>1, <2>1 DEF ConnectionInv
<1>10. ResetIt \in Posted => ResetIt \in Posted'
  BY FunctorNames
<1>11. ChannelInv'
  <2>1. CASE Begins(left)
    <3>1. channel_' # None /\ attached'
      BY <2>1 DEF Begins, Socks, None
    <3> QED
      BY <3>1 DEF ChannelInv
  <2>2. CASE Waits(left, state)
    <3>1. UNCHANGED <<channel_, attached>>
          /\ state_' \in {state, "kDisconnected"}
      BY <2>2 DEF Waits
    <3>2. phase' # "restart"
      OBVIOUS
    <3>3. CASE phase = "restart"
      <4>1. channel_ # None /\ ~attached => connState[channel_] = "none"
        BY <3>3 DEF ChannelInv
      <4>2. retry_
        BY <3>3 DEF ChannelInv
      <4> QED
        BY <1>1, <1>10, <3>1, <3>2, <4>1, <4>2 DEF ChannelInv
    <3>4. CASE phase # "restart"
      <4>1. state_' = "kConnecting" => state_ = "kConnecting"
        BY <3>1, <3>4
      <4> QED
        BY <1>1, <1>10, <3>1, <3>2, <4>1 DEF ChannelInv
    <3> QED
      BY <3>3, <3>4
  <2> QED
    BY <1>2, <2>1, <2>2
<1>12. Running' => OwnedInv'
  <2>1. CASE Begins(left)
    <3> SUFFICES ASSUME Running' PROVE OwnedInv'
      OBVIOUS
    <3>1. ~attached /\ attached'
      BY <2>1 DEF Begins, Running
    <3>2. /\ channel_' \in Socks \ open /\ open' = open \cup {channel_'}
      BY <2>1 DEF Begins
    <3>3. connState[channel_'] = "none"
      BY <3>2 DEF OwnedInv
    <3> QED
      BY <1>1, <3>1, <3>2, <3>3 DEF OwnedInv
  <2>2. CASE Waits(left, state)
    BY <1>1, <2>2 DEF Waits, OwnedInv
  <2> QED
    BY <1>2, <2>1, <2>2
<1>13. ASSUME ~overlap PROVE OneStage' /\ StopInv' /\ ResetInv'
  <2>1. /\ left = 0 /\ ~attached /\ Live = {}
        /\ ResetIt \notin Posted /\ ~Asked' /\ ~Calling
    BY <1>13
  <2>2. Live' = {} /\ ~Calling' /\ ~Starting' /\ ~Asked'
        /\ ResetIt \notin Posted'
        /\ ResetIt \notin Range(pendingFunctors_')
    BY <1>1, <2>1 DEF Live, Calling, Starting, Posted
  <2>3. (attached' => timers' = 0) /\ timers' <= 1
    BY <1>2, <2>1 DEF Begins, Waits
  <2>4. Solo(functors, pendingFunctors_, {StartIt})'
    BY <1>13 DEF OneStage
  <2>5. OneStage'
    BY <2>2, <2>3, <2>4 DEF OneStage
  <2>6. StopInv'
    <3>1. StopInv
      BY <1>13
    <3> QED
      BY <1>1, <2>2, <3>1 DEF StopInv
  <2>7. state_' = "kConnecting" /\ channel_' # None => attached'
    BY <1>10, <1>11, <2>2 DEF ChannelInv
  <2>8. ResetInv'
    BY <2>2, <2>7 DEF ResetInv
  <2> QED
    BY <2>5, <2>6, <2>8
<1> QED
  BY <1>1, <1>3, <1>4, <1>5, <1>6, <1>7, <1>8, <1>9, <1>11, <1>12, <1>13,
     Gather

\* start() and restart() of the loop's thread.
LEMMA StartsKeep ==
  ASSUME Good, Start \/ Restart
  PROVE  IInv'
<1> USE GoodFacts
<1>1. /\ phase \in {"start", "restart"} /\ phase' = "swap"
      /\ UNCHANGED <<connect_, pendingFunctors_, functors>>
      /\ UNCHANGED <<client, user, overlap>>
  BY DEF Start, Restart
<1>2. functors = <<>> /\ Posted' = Posted
      /\ functors' \in Seq(AllFunctors) /\ pendingFunctors_' \in Seq(AllFunctors)
  BY <1>1 DEF QueueTypes, Posted
<1>3. ASSUME ~overlap
      PROVE  /\ timers = 0 /\ ~attached /\ Live = {}
             /\ ResetIt \notin Posted /\ ~Asked' /\ ~Calling
  <2>1. Starting
    BY <1>1 DEF Starting
  <2>2. OneStage /\ ResetInv
    BY <1>3
  <2>3. timers = 0
    BY <2>1, <2>2 DEF OneStage, NumberTypes
  <2>4. ~Asked' <=> ~Asked
    BY <1>2 DEF Asked
  <2> QED
    BY <2>1, <2>2, <2>3, <2>4 DEF OneStage, ResetInv
<1>4. timers \in Nat /\ retryDelayMs_ \in kInitRetryDelayMs..kMaxRetryDelayMs
      /\ kInitRetryDelayMs \in kInitRetryDelayMs..kMaxRetryDelayMs
  BY DelayAssumption DEF NumberTypes
<1>5. \A F : Solo(functors, pendingFunctors_, F) =>
               Solo(functors', pendingFunctors_', F)
  BY <1>1
<1>6. CASE Start
  <2>1. startInLoop(timers, state_, retryDelayMs_)
    BY <1>6 DEF Start
  <2> QED
    BY <1>1, <1>2, <1>3, <1>4, <1>5, <2>1, StartKeeps
<1>7. CASE Restart
  <2>1. /\ startInLoop(timers, "kConnecting", kInitRetryDelayMs)
        /\ phase = "restart"
    BY <1>7 DEF Restart, restart
  <2> QED
    BY <1>1, <1>2, <1>3, <1>4, <1>5, <2>1, StartKeeps
<1> QED
  BY <1>6, <1>7

\* A retry timer expires.
LEMMA RetryKeeps ==
  ASSUME Good, RetryExpires
  PROVE  IInv'
<1> USE GoodFacts
<1>1. /\ phase = "poll" /\ timers > 0 /\ phase' = "swap"
      /\ startInLoop(timers - 1, state_, retryDelayMs_)
      /\ UNCHANGED <<connect_, pendingFunctors_, functors>>
      /\ UNCHANGED <<client, user, overlap>>
  BY DEF RetryExpires, RetryTimer
<1>2. functors = <<>> /\ Posted' = Posted /\ Posted = Range(pendingFunctors_)
      /\ functors' \in Seq(AllFunctors) /\ pendingFunctors_' \in Seq(AllFunctors)
  BY <1>1, RangeEmpty DEF QueueTypes, Posted
<1>3. ASSUME ~overlap
      PROVE  /\ timers - 1 = 0 /\ ~attached /\ Live = {}
             /\ ResetIt \notin Posted /\ ~Asked' /\ ~Calling
  <2>1. OneStage /\ ResetInv
    BY <1>3
  <2>2. timers \in Nat /\ timers <= 1
    BY <2>1 DEF OneStage, NumberTypes
  <2>3. timers - 1 = 0 /\ timers # 0
    BY <1>1, <2>2
  <2>4. ~Asked' <=> ~Asked
    BY <1>2 DEF Asked
  <2>5. ResetIt \notin Posted
    BY <1>1, <1>2, <2>1, <2>3 DEF ResetInv
  <2> QED
    BY <1>1, <2>1, <2>3, <2>4, <2>5 DEF OneStage
<1>4. timers - 1 \in Nat /\ retryDelayMs_ \in kInitRetryDelayMs..kMaxRetryDelayMs
  BY <1>1 DEF NumberTypes
<1>5. \A F : Solo(functors, pendingFunctors_, F) =>
               Solo(functors', pendingFunctors_', F)
  BY <1>1
<1> QED
  BY <1>1, <1>2, <1>3, <1>4, <1>5, StartKeeps

\* startInLoop() as a functor.
LEMMA StartFunctorKeeps ==
  ASSUME Good, StartFunctor, UNCHANGED <<client, user, overlap>>
  PROVE  IInv'
<1> USE GoodFacts
<1>1. /\ phase = "functors" /\ phase' = "functors" /\ functors # <<>>
      /\ Head(functors)[1] = "startInLoop" /\ functors' = Tail(functors)
      /\ startInLoop(timers, state_, retryDelayMs_)
      /\ UNCHANGED <<connect_, pendingFunctors_>>
  BY DEF StartFunctor, runs
<1>2. /\ functors' \in Seq(AllFunctors)
      /\ pendingFunctors_' \in Seq(AllFunctors)
      /\ Head(functors) \in AllFunctors
      /\ Range(functors) = Range(functors') \cup {Head(functors)}
      /\ Posted = Posted' \cup {Head(functors)}
      /\ \A F : Solo(functors, pendingFunctors_, F) =>
                  /\ Solo(functors', pendingFunctors_', F)
                  /\ Head(functors) \in F => Head(functors) \notin Posted'
  BY <1>1, Pops
<1>3. Head(functors) = StartIt
  BY <1>1, <1>2, FunctorsByName
<1>4. ResetIt \in Range(functors) => ResetIt \in Range(functors')
  BY <1>2, <1>3, FunctorNames
<1>5. Posted' \subseteq Posted /\ Posted \subseteq Posted' \cup {StartIt}
  BY <1>2, <1>3
<1>6. ASSUME ~overlap
      PROVE  /\ timers = 0 /\ ~attached /\ Live = {}
             /\ ResetIt \notin Posted /\ ~Asked' /\ ~Calling
  <2>1. OneStage /\ ResetInv
    BY <1>6
  <2>2. Asked
    BY <1>2, <1>3 DEF Asked
  <2>3. timers = 0
    BY <2>1, <2>2 DEF OneStage, NumberTypes
  <2>4. Solo(functors, pendingFunctors_, {StartIt})
    BY <2>1 DEF OneStage
  <2>5. ~Asked'
    BY <1>2, <1>3, <2>4 DEF Asked
  <2> QED
    BY <2>1, <2>2, <2>3, <2>5 DEF OneStage, ResetInv
<1>7. timers \in Nat /\ retryDelayMs_ \in kInitRetryDelayMs..kMaxRetryDelayMs
  BY DEF NumberTypes
<1>8. \A F : Solo(functors, pendingFunctors_, F) =>
               Solo(functors', pendingFunctors_', F)
  BY <1>2
<1> QED
  BY <1>1, <1>2, <1>4, <1>5, <1>6, <1>7, <1>8, StartKeeps
-----------------------------------------------------------------------------
(* The other functors                                                       *)

\* stopInLoop() gives the attempt up, or finds nothing to stop.
LEMMA StopFunctorKeeps ==
  ASSUME Good, StopFunctor, UNCHANGED <<client, user, overlap>>
  PROVE  IInv'
<1> USE GoodFacts
<1>1. /\ phase = "functors" /\ phase' = "functors" /\ functors # <<>>
      /\ Head(functors)[1] = "stopInLoop" /\ functors' = Tail(functors)
      /\ stopInLoop
      /\ UNCHANGED <<connect_, channel_, goal>>
  BY DEF StopFunctor, runs
<1>2. /\ UNCHANGED <<clientConnect_, retry_, clientAlive, overlap>>
      /\ UNCHANGED <<connection_, connState>>
      /\ UNCHANGED <<userPc, calls>>
  BY DEF client, user
<1>3. /\ Tail(functors) \in Seq(AllFunctors) /\ Head(functors) \in AllFunctors
      /\ Range(functors) = Range(Tail(functors)) \cup {Head(functors)}
      /\ functors \in Seq(AllFunctors) /\ pendingFunctors_ \in Seq(AllFunctors)
  BY <1>1, RangePop DEF QueueTypes
<1>4. Head(functors) = StopIt
  BY <1>1, <1>3, FunctorsByName
<1>5. \A F : Solo(functors, pendingFunctors_, F) =>
               Solo(Tail(functors), pendingFunctors_, F)
  BY <1>1, <1>3, SoloPop
<1>6. StopIt \in Posted
  BY <1>3, <1>4 DEF Posted
<1>7. Live' = Live
  BY <1>2 DEF Live
<1>8. CASE stoppable /\ channel_ # None
  <2>1. /\ attached' = FALSE
        /\ pendingFunctors_' = Append(pendingFunctors_, ResetIt)
        /\ open' = open \ {channel_} /\ state_' = "kDisconnected"
        /\ rearm(timers, retryDelayMs_) /\ fault' = fault
    BY <1>1, <1>8 DEF stopInLoop, removeAndResetChannel, retry, closeSock,
                      lives, ResetIt
  <2>2. /\ timers' \in {timers, timers + 1}
        /\ ~connect_ => timers' = timers
        /\ retryDelayMs_' \in kInitRetryDelayMs..kMaxRetryDelayMs
    BY <2>1, NextDelay DEF rearm, mayRetry, NumberTypes
  <2>3. state_ = "kConnecting"
    BY <1>8 DEF stoppable
  <2>4. /\ pendingFunctors_' \in Seq(AllFunctors)
        /\ Range(pendingFunctors_') = Range(pendingFunctors_) \cup {ResetIt}
    BY <1>3, <2>1, FunctorNames, RangePush
  <2>5. Posted' = Range(Tail(functors)) \cup Range(pendingFunctors_) \cup {ResetIt}
    BY <1>1, <2>4 DEF Posted
  <2>6. ASSUME NEW F, Solo(functors, pendingFunctors_, F), ResetIt \notin F
        PROVE  Solo(functors', pendingFunctors_', F)
    <3>1. Solo(Tail(functors), pendingFunctors_, F)
      BY <1>5, <2>6
    <3> QED
      BY <1>1, <1>3, <2>1, <2>6, <3>1, FunctorNames, SoloPush
  <2>7. Posted' \subseteq Posted \cup {ResetIt}
    BY <1>3, <2>5 DEF Posted
  <2>8. FlagTypes'
    BY <1>1, <1>2, <2>1 DEF FlagTypes
  <2>9. PlaceTypes'
    BY <1>1, <1>2, <2>1 DEF PlaceTypes
  <2>10. NumberTypes'
    <3>1. timers' \in Nat
      BY <2>2 DEF NumberTypes
    <3> QED
      BY <1>2, <2>2, <3>1 DEF NumberTypes
  <2>11. SockTypes'
    BY <1>1, <1>2, <2>1 DEF SockTypes
  <2>12. QueueTypes'
    BY <1>1, <1>3, <2>4 DEF QueueTypes
  <2>13. FaultInv'
    BY <2>1 DEF FaultInv
  <2>14. ConnectionInv'
    <3>1. ResetIt \notin ConnectionFunctors
      BY FunctorNames DEF ConnectorFunctors
    <3>2. Solo(functors, pendingFunctors_, ConnectionFunctors)'
      BY <2>6, <3>1 DEF ConnectionInv
    <3>3. \A s \in Socks : DestroyIt(s) # ResetIt /\ ForceIt(s) # ResetIt
      BY <3>1, FunctorNames
    <3> QED
      BY <1>2, <2>7, <3>2, <3>3 DEF ConnectionInv
  <2>15. connState[channel_] = "none"
    BY <1>8, <2>3 DEF ChannelInv, OwnedInv
  <2>16. ChannelInv'
    BY <1>1, <1>2, <2>1, <2>5, <2>15 DEF ChannelInv
  <2>17. OwnedInv'
    BY <1>1, <1>2, <2>1, <2>15 DEF OwnedInv
  <2>18. ASSUME ~overlap PROVE OneStage' /\ StopInv' /\ ResetInv'
    <3>1. OneStage /\ StopInv /\ ResetInv
      BY <2>18
    <3>2. attached
      BY <1>8, <2>3, <3>1 DEF ResetInv
    <3>3. timers' = 0 /\ Live' = {}
      BY <1>6, <1>7, <2>2, <3>1, <3>2 DEF OneStage, StopInv
    <3>4. (Asked' => Asked) /\ (Calling' <=> Calling) /\ ~Starting'
      BY <1>1, <1>2, <2>7, FunctorNames DEF Asked, Calling, Starting
    <3>5. ~Asked' /\ ~Calling'
      BY <3>1, <3>2, <3>4 DEF OneStage
    <3>6. Solo(functors, pendingFunctors_, {StartIt})'
      BY <2>6, <3>1, FunctorNames DEF OneStage
    <3>7. OneStage'
      BY <2>1, <3>3, <3>4, <3>5, <3>6 DEF OneStage
    <3>8. StopInv'
      BY <1>1, <1>2, <1>6, <3>1, <3>5 DEF StopInv
    <3>9. ResetInv'
      BY <2>1, <3>3, <3>4, <3>5 DEF ResetInv
    <3> QED
      BY <3>7, <3>8, <3>9
  <2> QED
    BY <1>2, <2>8, <2>9, <2>10, <2>11, <2>12, <2>13, <2>14, <2>16, <2>17,
       <2>18, Gather
<1>9. CASE ~(stoppable /\ channel_ # None)
  <2>1. /\ UNCHANGED <<state_, retryDelayMs_, attached, timers, open>>
        /\ pendingFunctors_' = pendingFunctors_
        /\ IF stoppable THEN fault' = "null" ELSE fault' = fault
    BY <1>1, <1>9 DEF stopInLoop, dies, lives
  <2>2. Posted' \subseteq Posted /\ Posted \subseteq Posted' \cup {StopIt}
    BY <1>1, <1>3, <1>4, <2>1 DEF Posted
  <2>3. \A F : Solo(functors, pendingFunctors_, F) =>
                 Solo(functors', pendingFunctors_', F)
    BY <1>1, <1>5, <2>1
  <2>4. FlagTypes' /\ NumberTypes' /\ SockTypes'
    BY <1>1, <1>2, <2>1 DEF FlagTypes, NumberTypes, SockTypes
  <2>5. PlaceTypes'
    BY <1>1, <1>2, <2>1 DEF PlaceTypes
  <2>6. QueueTypes'
    BY <1>1, <1>3, <2>1 DEF QueueTypes
  <2>7. FaultInv'
    <3>1. CASE stoppable
      <4>1. channel_ = None /\ state_ = "kConnecting"
        BY <1>9, <3>1 DEF stoppable
      <4>2. retry_
        BY <4>1 DEF ChannelInv
      <4> QED
        BY <1>2, <2>1, <3>1, <4>2 DEF FaultInv
    <3>2. CASE ~stoppable
      BY <2>1, <3>2 DEF FaultInv
    <3> QED
      BY <3>1, <3>2
  <2>8. ConnectionInv'
    BY <1>2, <2>2, <2>3 DEF ConnectionInv
  <2>9. /\ ResetIt \in Posted => ResetIt \in Posted'
        /\ ResetIt \in Range(functors) => ResetIt \in Range(functors')
    BY <1>1, <1>3, <1>4, <2>2, FunctorNames
  <2>10. ChannelInv'
    BY <1>1, <1>2, <2>1, <2>9 DEF ChannelInv
  <2>11. OwnedInv'
    BY <1>1, <1>2, <2>1 DEF OwnedInv
  <2>12. ASSUME ~overlap PROVE OneStage' /\ StopInv' /\ ResetInv'
    <3>1. OneStage /\ StopInv /\ ResetInv
      BY <2>12
    <3>2. (Asked' => Asked) /\ (Calling' <=> Calling) /\ ~Starting'
          /\ (Starting' <=> Starting)
      BY <1>1, <1>2, <2>2 DEF Asked, Calling, Starting
    <3>3. OneStage'
      BY <1>7, <2>1, <2>3, <3>1, <3>2 DEF OneStage
    <3>4. StopInv'
      BY <1>1, <1>2, <2>2, <3>1, <3>2 DEF StopInv
    <3>5. ResetInv'
      BY <1>1, <1>7, <2>1, <2>2, <3>1, <3>2 DEF ResetInv
    <3> QED
      BY <3>3, <3>4, <3>5
  <2> QED
    BY <1>2, <2>4, <2>5, <2>6, <2>7, <2>8, <2>10, <2>11, <2>12, Gather
<1> QED
  BY <1>8, <1>9

\* resetChannel() destroys the Channel, which must be out of the poller.
LEMMA ResetFunctorKeeps ==
  ASSUME Good, ResetFunctor, UNCHANGED <<client, user, overlap>>
  PROVE  IInv'
<1> USE GoodFacts
<1>1. /\ phase = "functors" /\ phase' = "functors" /\ functors # <<>>
      /\ Head(functors)[1] = "resetChannel" /\ functors' = Tail(functors)
      /\ channel_' = None /\ attached' = FALSE
      /\ IF attached THEN fault' = "dangling" ELSE fault' = fault
      /\ UNCHANGED <<connect_, state_, retryDelayMs_, timers, open, goal>>
      /\ pendingFunctors_' = pendingFunctors_
  BY DEF ResetFunctor, runs, resetChannel, dies, lives
<1>2. /\ UNCHANGED <<clientConnect_, retry_, clientAlive, overlap>>
      /\ UNCHANGED <<connection_, connState>>
      /\ UNCHANGED <<userPc, calls>>
  BY DEF client, user
<1>3. /\ functors' \in Seq(AllFunctors)
      /\ pendingFunctors_' \in Seq(AllFunctors)
      /\ Head(functors) \in AllFunctors
      /\ Range(functors) = Range(functors') \cup {Head(functors)}
      /\ Posted = Posted' \cup {Head(functors)}
      /\ \A F : Solo(functors, pendingFunctors_, F) =>
                  Solo(functors', pendingFunctors_', F)
  BY <1>1, Pops
<1>4. Head(functors) = ResetIt
  BY <1>1, <1>3, FunctorsByName
<1>5. ResetIt \in Posted /\ Posted' \subseteq Posted
  BY <1>3, <1>4
<1>6. FlagTypes' /\ NumberTypes'
  BY <1>1, <1>2 DEF FlagTypes, NumberTypes
<1>7. SockTypes'
  BY <1>1, <1>2 DEF SockTypes
<1>8. PlaceTypes'
  BY <1>1, <1>2 DEF PlaceTypes
<1>9. QueueTypes'
  BY <1>1, <1>3 DEF QueueTypes
<1>10. FaultInv'
  <2>1. ~overlap => ~attached
    BY <1>5 DEF ResetInv
  <2> QED
    BY <1>1, <1>2, <2>1 DEF FaultInv, FlagTypes
<1>11. ConnectionInv'
  BY <1>2, <1>3, <1>5 DEF ConnectionInv
<1>12. Running' => ~attached
  BY <1>1 DEF Running
<1>13. Running' => ChannelInv'
  BY <1>1, <1>2, <1>12 DEF ChannelInv
<1>14. Running' => OwnedInv'
  BY <1>1, <1>2, <1>12 DEF OwnedInv
<1>15. ASSUME ~overlap PROVE OneStage' /\ StopInv' /\ ResetInv'
  <2>1. OneStage /\ StopInv /\ ResetInv
    BY <1>15
  <2>2. (Asked' => Asked) /\ (Calling' <=> Calling)
        /\ ~Starting' /\ ~Starting /\ Live' = Live
    BY <1>1, <1>2, <1>5 DEF Asked, Calling, Starting, Live
  <2>3. OneStage'
    BY <1>1, <1>3, <2>1, <2>2 DEF OneStage
  <2>4. StopInv'
    BY <1>1, <1>2, <1>5, <2>1, <2>2 DEF StopInv
  <2>5. ResetInv'
    BY <1>1, <1>5, <2>1, <2>2 DEF ResetInv
  <2> QED
    BY <2>3, <2>4, <2>5
<1> QED
  BY <1>2, <1>6, <1>7, <1>8, <1>9, <1>10, <1>11, <1>13, <1>14, <1>15, Gather

\* A functor of the Connector, on a Connector that may be freed.
LEMMA ConnectorFunctorKeeps ==
  ASSUME Good, ConnectorFunctor
  PROVE  IInv'
<1> USE GoodFacts
<1>1. UNCHANGED <<client, user, overlap>>
  BY DEF ConnectorFunctor
<1>2. CASE ~ConnectorFreed
  BY <1>1, <1>2, StartFunctorKeeps, StopFunctorKeeps, ResetFunctorKeeps
     DEF ConnectorFunctor
<1>3. CASE ConnectorFreed
  <2>1. /\ functors # <<>> /\ functors' = Tail(functors) /\ fault' = "uaf"
        /\ phase = "functors"
        /\ UNCHANGED connector
        /\ UNCHANGED <<open, pendingFunctors_, phase, goal>>
        /\ ~clientAlive
    BY <1>3 DEF ConnectorFunctor, runs, dies, ConnectorFreed
  <2>2. /\ UNCHANGED <<clientConnect_, retry_, clientAlive, overlap>>
        /\ UNCHANGED <<connection_, connState>>
        /\ UNCHANGED <<userPc, calls>>
        /\ UNCHANGED <<connect_, state_, retryDelayMs_>>
        /\ UNCHANGED <<channel_, attached, timers>>
    BY <1>1, <2>1 DEF client, user, connector
  <2>3. functors' \in Seq(AllFunctors) /\ pendingFunctors_' \in Seq(AllFunctors)
    BY <2>1, Pops
  <2>4. FlagTypes' /\ NumberTypes' /\ SockTypes'
    BY <2>1, <2>2 DEF FlagTypes, NumberTypes, SockTypes
  <2>5. PlaceTypes' /\ QueueTypes'
    BY <2>1, <2>2, <2>3 DEF PlaceTypes, QueueTypes
  <2>6. FaultInv' /\ ~Running'
    BY <2>1, <2>2 DEF FaultInv, Running
  <2> QED
    BY <2>4, <2>5, <2>6, Gather
<1> QED
  BY <1>2, <1>3

\* connectDestroyed() or forceCloseInLoop() drops the last reference.
LEMMA FreedKeeps ==
  ASSUME Good, ConnectionFreed
  PROVE  IInv'
<1> USE GoodFacts
<1> DEFINE s == Head(functors)[2]
<1>1. /\ phase = "functors" /\ functors # <<>> /\ functors' = Tail(functors)
      /\ Head(functors)[1] \in {"connectDestroyed", "forceCloseInLoop"}
      /\ connState' = [connState EXCEPT ![s] = "none"]
      /\ open' = open \ {s}
      /\ fault' \in {"assert", fault}
      /\ UNCHANGED connector
      /\ UNCHANGED <<pendingFunctors_, phase, goal>>
      /\ UNCHANGED <<clientConnect_, retry_, connection_, clientAlive>>
      /\ UNCHANGED user /\ overlap' = overlap
  BY DEF ConnectionFreed, runs, closeSock, dies, lives
<1>2. /\ UNCHANGED <<connect_, state_, retryDelayMs_>>
      /\ UNCHANGED <<channel_, attached, timers>>
      /\ UNCHANGED <<userPc, calls>>
  BY <1>1 DEF connector, user
<1>3. /\ functors' \in Seq(AllFunctors)
      /\ pendingFunctors_' \in Seq(AllFunctors)
      /\ Head(functors) \in AllFunctors
      /\ Range(functors) = Range(functors') \cup {Head(functors)}
      /\ Posted = Posted' \cup {Head(functors)}
      /\ \A F : Solo(functors, pendingFunctors_, F) =>
                  /\ Solo(functors', pendingFunctors_', F)
                  /\ Head(functors) \in F => Head(functors) \notin Posted'
  BY <1>1, Pops
<1>4. s \in Socks /\ (Head(functors) = DestroyIt(s) \/ Head(functors) = ForceIt(s))
  BY <1>1, <1>3, FunctorsByName
<1>5. Posted' \subseteq Posted /\ Head(functors) \in ConnectionFunctors
  BY <1>3, <1>4, FunctorNames
<1>6. /\ Solo(functors', pendingFunctors_', ConnectionFunctors)
      /\ Head(functors) \notin Posted'
  BY <1>3, <1>5 DEF ConnectionInv
<1> HIDE DEF s
<1>7. connState \in [Socks -> {"none", "up", "shut", "down", "forced"}]
  BY DEF SockTypes
<1>8. /\ connState'[s] = "none"
      /\ \A c \in Socks : c # s => connState'[c] = connState[c]
  BY <1>1, <1>4, <1>7
<1>9. connState[s] \in {"down", "forced"}
  BY <1>3, <1>4 DEF ConnectionInv
<1>10. DestroyIt(s) \notin Posted' /\ ForceIt(s) \notin Posted'
  BY <1>3, <1>4, <1>5, <1>6 DEF ConnectionInv
<1>11. FlagTypes' /\ NumberTypes'
  BY <1>1, <1>2 DEF FlagTypes, NumberTypes
<1>12. SockTypes'
  BY <1>1, <1>2, <1>7 DEF SockTypes
<1>13. PlaceTypes' /\ QueueTypes'
  BY <1>1, <1>2, <1>3 DEF PlaceTypes, QueueTypes
<1>14. FaultInv'
  BY <1>1 DEF FaultInv
<1>15. ConnectionInv'
  <2>1. \A c \in Socks : DestroyIt(c) \in Posted' => connState'[c] = "down"
    BY <1>5, <1>8, <1>10 DEF ConnectionInv
  <2>2. \A c \in Socks : ForceIt(c) \in Posted' => connState'[c] = "forced"
    BY <1>5, <1>8, <1>10 DEF ConnectionInv
  <2>3. clientAlive /\ connection_ # None =>
          connState'[connection_] \in {"up", "shut"}
    BY <1>8, <1>9 DEF ConnectionInv, SockTypes
  <2> QED
    BY <1>1, <1>2, <1>6, <2>1, <2>2, <2>3 DEF ConnectionInv
<1>16. ResetIt # Head(functors) /\ StartIt # Head(functors)
       /\ StopIt # Head(functors)
  BY <1>5, FunctorNames DEF ConnectorFunctors
<1>17. ChannelInv'
  <2>1. /\ ResetIt \in Posted => ResetIt \in Posted'
        /\ ResetIt \in Range(functors) => ResetIt \in Range(functors')
    BY <1>3, <1>16
  <2>2. channel_ # None => /\ connState[channel_] = "none" => connState'[channel_] = "none"
                           /\ connState'[channel_] # "none" => connState[channel_] # "none"
    BY <1>8 DEF SockTypes
  <2> QED
    BY <1>1, <1>2, <2>1, <2>2 DEF ChannelInv
<1>18. OwnedInv'
  BY <1>1, <1>2, <1>8, <1>9 DEF OwnedInv, SockTypes
<1>19. Live' = Live
  BY <1>8, <1>9 DEF Live
<1>20. ASSUME ~overlap PROVE OneStage' /\ StopInv' /\ ResetInv'
  <2>1. OneStage /\ StopInv /\ ResetInv
    BY <1>20
  <2>2. (Asked' => Asked) /\ (Calling' <=> Calling) /\ (Starting' <=> Starting)
    BY <1>1, <1>2, <1>5 DEF Asked, Calling, Starting
  <2>3. OneStage'
    BY <1>1, <1>2, <1>3, <1>19, <2>1, <2>2 DEF OneStage
  <2>4. StopInv'
    BY <1>1, <1>2, <1>5, <2>1, <2>2 DEF StopInv
  <2>5. ResetInv'
    BY <1>1, <1>2, <1>5, <1>19, <2>1, <2>2 DEF ResetInv
  <2> QED
    BY <2>3, <2>4, <2>5
<1> QED
  BY <1>1, <1>11, <1>12, <1>13, <1>14, <1>15, <1>17, <1>18, <1>20, Gather

-----------------------------------------------------------------------------
(* The poller's events                                                      *)

\* An attempt ends: its Channel is out of the poller and its reset is queued,
\* and nothing else was under way.
LEMMA AttemptEnds ==
  ASSUME Good, attempt, functors' = functors, phase' = "swap",
         attached' = FALSE, channel_' = channel_, state_' # "kConnecting",
         pendingFunctors_' = Append(pendingFunctors_, ResetIt),
         UNCHANGED <<connect_, retry_, clientAlive>>, UNCHANGED <<user, overlap>>
  PROVE  /\ QueueTypes' /\ ChannelInv' /\ Posted' = Posted \cup {ResetIt}
         /\ Solo(functors, pendingFunctors_, ConnectionFunctors)'
         /\ ~overlap => /\ timers = 0 /\ Live = {} /\ ~Starting'
                        /\ ~Asked' /\ ~Calling' /\ StopInv' /\ ResetInv'
                        /\ Solo(functors, pendingFunctors_, {StartIt})'
<1> USE GoodFacts
<1>1. /\ phase = "poll" /\ attached /\ state_ = "kConnecting"
      /\ userPc' = userPc
  BY DEF attempt, user
<1>2. /\ functors' \in Seq(AllFunctors)
      /\ pendingFunctors_' \in Seq(AllFunctors)
      /\ Range(functors') = Range(functors)
      /\ Range(pendingFunctors_') = Range(pendingFunctors_) \cup {ResetIt}
      /\ Posted' = Posted \cup {ResetIt}
      /\ \A F : /\ Solo(functors, pendingFunctors_, F)
                /\ ResetIt \in F => ResetIt \notin Posted
                => Solo(functors', pendingFunctors_', F)
  BY FunctorNames, Pushes
<1>3. ResetIt \notin ConnectionFunctors /\ ResetIt \notin {StartIt}
  BY FunctorNames DEF ConnectorFunctors
<1>4. functors = <<>>
  BY <1>1 DEF QueueTypes
<1>5. QueueTypes'
  BY <1>2, <1>4 DEF QueueTypes
<1>6. ChannelInv'
  BY <1>1, <1>2 DEF ChannelInv
<1>7. Solo(functors, pendingFunctors_, ConnectionFunctors)'
  BY <1>2, <1>3 DEF ConnectionInv
<1>8. ASSUME ~overlap
      PROVE  /\ timers = 0 /\ Live = {} /\ ~Starting'
             /\ ~Asked' /\ ~Calling' /\ StopInv' /\ ResetInv'
             /\ Solo(functors, pendingFunctors_, {StartIt})'
  <2>1. timers = 0 /\ Live = {} /\ ~Asked /\ ~Calling
    BY <1>1, <1>8 DEF OneStage
  <2>2. ~Starting' /\ ~Asked' /\ ~Calling'
    BY <1>1, <1>2, <1>3, <2>1 DEF Starting, Asked, Calling
  <2>3. StopInv'
    BY <1>1, <1>2, <1>8, <2>2, FunctorNames DEF StopInv
  <2>4. ResetInv'
    BY <2>2 DEF ResetInv
  <2>5. Solo(functors, pendingFunctors_, {StartIt})'
    BY <1>2, <1>3, <1>8 DEF OneStage
  <2> QED
    BY <2>1, <2>2, <2>3, <2>4, <2>5
<1> QED
  BY <1>2, <1>5, <1>6, <1>7, <1>8

\* The attempt fails: its socket is closed and a retry may be armed.
LEMMA FailedKeeps ==
  ASSUME Good, Failed
  PROVE  IInv'
<1> USE GoodFacts
<1>1. /\ attempt /\ functors' = functors /\ phase' = "swap"
      /\ attached' = FALSE /\ channel_' = channel_ /\ state_' = "kDisconnected"
      /\ pendingFunctors_' = Append(pendingFunctors_, ResetIt)
      /\ open' = open \ {channel_} /\ fault' \in {"assert", fault}
      /\ rearm(timers, retryDelayMs_)
      /\ connect_' = connect_ /\ goal' = goal
      /\ UNCHANGED client /\ UNCHANGED user /\ overlap' = overlap
  BY DEF Failed, AttemptFails, removeInEvent, removeAndResetChannel, closeSock,
         writeActs, dies, lives, ResetIt
<1>2. /\ UNCHANGED <<clientConnect_, retry_, clientAlive, overlap>>
      /\ UNCHANGED <<connection_, connState>>
      /\ UNCHANGED <<userPc, calls>>
      /\ UNCHANGED <<connect_, retry_, clientAlive>>
      /\ UNCHANGED <<user, overlap>>
  BY <1>1 DEF client, user
<1>3. /\ timers' \in {timers, timers + 1} /\ timers \in Nat
      /\ retryDelayMs_' \in kInitRetryDelayMs..kMaxRetryDelayMs
  BY <1>1, NextDelay DEF rearm, NumberTypes
<1>4. /\ QueueTypes' /\ ChannelInv' /\ Posted' = Posted \cup {ResetIt}
      /\ Solo(functors, pendingFunctors_, ConnectionFunctors)'
      /\ ~overlap => /\ timers = 0 /\ Live = {} /\ ~Starting'
                     /\ ~Asked' /\ ~Calling' /\ StopInv' /\ ResetInv'
                     /\ Solo(functors, pendingFunctors_, {StartIt})'
  BY <1>1, <1>2, AttemptEnds
<1>5. attached
  BY <1>1 DEF attempt
<1>6. FlagTypes'
  BY <1>1, <1>2 DEF FlagTypes
<1>7. NumberTypes'
  BY <1>2, <1>3 DEF NumberTypes
<1>8. SockTypes'
  BY <1>1, <1>2 DEF SockTypes
<1>9. PlaceTypes'
  BY <1>1, <1>2 DEF PlaceTypes
<1>10. FaultInv'
  BY <1>1 DEF FaultInv
<1>11. ConnectionInv'
  <2>1. \A s \in Socks : DestroyIt(s) # ResetIt /\ ForceIt(s) # ResetIt
    BY FunctorNames DEF ConnectorFunctors
  <2> QED
    BY <1>2, <1>4, <2>1 DEF ConnectionInv
<1>12. OwnedInv'
  BY <1>1, <1>2, <1>5 DEF OwnedInv
<1>13. ASSUME ~overlap PROVE OneStage'
  <2>1. Live' = {}
    BY <1>2, <1>4, <1>13 DEF Live
  <2>2. timers' <= 1
    BY <1>3, <1>4, <1>13
  <2> QED
    BY <1>1, <1>4, <1>13, <2>1, <2>2 DEF OneStage
<1> QED
  BY <1>2, <1>4, <1>6, <1>7, <1>8, <1>9, <1>10, <1>11, <1>12, <1>13, Gather

\* What dropping the old connection and naming a new one leaves.
LEMMA FreedMap ==
  ASSUME SockTypes, NEW lost \in SUBSET Socks, NEW s \in Socks, NEW st,
         connState' = freed(lost, s, st), s \notin lost
  PROVE  /\ connState'[s] = st
         /\ \A c \in lost : connState'[c] = "none"
         /\ \A c \in Socks \ lost : c # s => connState'[c] = connState[c]
         /\ st \in {"none", "up", "shut", "down", "forced"} =>
              connState' \in [Socks -> {"none", "up", "shut", "down", "forced"}]
BY DEF SockTypes, freed

\* The attempt succeeds.
LEMMA ConnectedKeeps ==
  ASSUME Good, NEW kept \in BOOLEAN, Connected(kept)
  PROVE  IInv'
<1> USE GoodFacts
<1>1. /\ attempt /\ functors' = functors /\ phase' = "swap"
      /\ attached' = FALSE /\ channel_' = channel_ /\ state_' = "kConnected"
      /\ pendingFunctors_' = Append(pendingFunctors_, ResetIt)
      /\ connect_' = connect_ /\ retryDelayMs_' = retryDelayMs_
      /\ timers' = timers
      /\ UNCHANGED user /\ overlap' = overlap
  BY DEF Connected, AttemptSucceeds, removeAndResetChannel, ResetIt
<1>2. UNCHANGED <<userPc, calls>> /\ UNCHANGED <<user, overlap>>
  BY <1>1 DEF user
<1>3. attached /\ channel_ \in Socks /\ connState[channel_] = "none"
      /\ connState \in [Socks -> {"none", "up", "shut", "down", "forced"}]
  BY <1>1 DEF attempt, ChannelInv, OwnedInv, SockTypes
<1>4. \A s \in Socks : DestroyIt(s) # ResetIt /\ ForceIt(s) # ResetIt
  BY FunctorNames DEF ConnectorFunctors
<1>5. NumberTypes'
  BY <1>1, <1>2 DEF NumberTypes
<1>6. ASSUME UNCHANGED <<connect_, retry_, clientAlive>>
      PROVE  /\ QueueTypes' /\ ChannelInv' /\ Posted' = Posted \cup {ResetIt}
             /\ Solo(functors, pendingFunctors_, ConnectionFunctors)'
             /\ ~overlap => /\ timers = 0 /\ Live = {} /\ ~Starting'
                            /\ ~Asked' /\ ~Calling' /\ StopInv' /\ ResetInv'
                            /\ Solo(functors, pendingFunctors_, {StartIt})'
  BY <1>1, <1>2, <1>6, AttemptEnds
<1>7. CASE ~connect_
  <2>1. /\ open' = open \ {channel_} /\ fault' \in {"assert", fault}
        /\ UNCHANGED client /\ goal' = goal
    BY <1>7 DEF Connected, closeSock, removeInEvent, dies, lives
  <2>2. /\ UNCHANGED <<clientConnect_, retry_, clientAlive>>
        /\ UNCHANGED <<connection_, connState>>
        /\ UNCHANGED <<connect_, retry_, clientAlive>>
    BY <1>1, <2>1 DEF client
  <2>3. FlagTypes'
    BY <1>1, <2>2 DEF FlagTypes
  <2>4. SockTypes'
    BY <1>1, <2>1, <2>2 DEF SockTypes
  <2>5. PlaceTypes'
    BY <1>1, <1>2, <2>1 DEF PlaceTypes
  <2>6. FaultInv'
    BY <2>1 DEF FaultInv
  <2>7. ConnectionInv'
    BY <1>2, <1>4, <1>6, <2>2 DEF ConnectionInv
  <2>8. OwnedInv'
    BY <1>1, <1>3, <2>1, <2>2 DEF OwnedInv
  <2>9. ASSUME ~overlap PROVE OneStage'
    <3>1. Live' = {} /\ timers' <= 1
      BY <1>1, <1>6, <2>2, <2>9 DEF Live
    <3> QED
      BY <1>1, <1>6, <2>2, <2>9, <3>1 DEF OneStage
  <2> QED
    BY <1>1, <1>5, <1>6, <2>2, <2>3, <2>4, <2>5, <2>6, <2>7, <2>8, <2>9, Gather
<1>8. CASE connect_ /\ clientAlive
  <2> DEFINE lost == dropped(channel_, kept)
  <2>1. newConnection(channel_, kept)
    BY <1>8 DEF Connected
  <2>2. /\ connection_' = channel_ /\ connState' = freed(lost, channel_, "up")
        /\ open' = open \ lost
        /\ goal' \in {"reached", goal} /\ fault' \in {"assert", fault}
        /\ UNCHANGED <<clientConnect_, retry_, clientAlive>>
        /\ UNCHANGED <<connect_, retry_, clientAlive>>
    BY <1>1, <2>1 DEF newConnection, removeInEvent, dies, lives
  <2>3. /\ lost \subseteq Socks /\ channel_ \notin lost
        /\ \A c \in lost : c = connection_ /\ connState[c] \in {"up", "shut"}
    BY <1>8 DEF dropped, SockTypes, ConnectionInv
  <2> HIDE DEF lost
  <2>4. /\ connState'[channel_] = "up"
        /\ \A c \in lost : connState'[c] = "none"
        /\ \A c \in Socks \ lost : c # channel_ => connState'[c] = connState[c]
        /\ connState' \in [Socks -> {"none", "up", "shut", "down", "forced"}]
    BY <1>3, <2>2, <2>3, FreedMap
  <2>5. FlagTypes'
    BY <1>1, <2>2 DEF FlagTypes
  <2>6. SockTypes'
    BY <1>1, <2>2, <2>4 DEF SockTypes
  <2>7. PlaceTypes'
    BY <1>1, <1>2, <2>2 DEF PlaceTypes
  <2>8. FaultInv'
    BY <2>2 DEF FaultInv
  <2>9. ConnectionInv'
    <3>1. /\ Posted' = Posted \cup {ResetIt}
          /\ Solo(functors, pendingFunctors_, ConnectionFunctors)'
      BY <1>6, <2>2
    <3>2. \A s \in Socks : DestroyIt(s) \in Posted' => connState'[s] = "down"
      BY <1>3, <1>4, <2>3, <2>4, <3>1 DEF ConnectionInv
    <3>3. \A s \in Socks : ForceIt(s) \in Posted' => connState'[s] = "forced"
      BY <1>3, <1>4, <2>3, <2>4, <3>1 DEF ConnectionInv
    <3> QED
      BY <1>2, <2>2, <2>4, <3>1, <3>2, <3>3 DEF ConnectionInv
  <2>10. OwnedInv'
    BY <1>1, <1>3, <2>2, <2>3, <2>4 DEF OwnedInv
  <2>11. ASSUME ~overlap PROVE OneStage'
    <3>1. Live = {} /\ timers' = 0 /\ ~Starting' /\ ~Asked' /\ ~Calling'
          /\ Solo(functors, pendingFunctors_, {StartIt})'
      BY <1>1, <1>6, <2>2, <2>11
    <3>2. Live' \subseteq {channel_}
      BY <2>3, <2>4, <3>1 DEF Live
    <3> QED
      BY <1>1, <3>1, <3>2 DEF OneStage
  <2> QED
    BY <1>1, <1>5, <1>6, <2>2, <2>5, <2>6, <2>7, <2>8, <2>9, <2>10, <2>11,
       Gather
<1>9. CASE connect_ /\ ~clientAlive
  <2>1. /\ open' = open /\ fault' \in {"assert", "uaf"}
        /\ UNCHANGED client /\ goal' = goal
    BY <1>9 DEF Connected, dies
  <2>2. /\ UNCHANGED <<clientConnect_, retry_, clientAlive>>
        /\ UNCHANGED <<connection_, connState>>
        /\ UNCHANGED <<connect_, retry_, clientAlive>>
    BY <1>1, <2>1 DEF client
  <2>3. FlagTypes'
    BY <1>1, <2>2 DEF FlagTypes
  <2>4. SockTypes'
    BY <1>1, <2>1, <2>2 DEF SockTypes
  <2>5. PlaceTypes'
    BY <1>1, <1>2, <2>1 DEF PlaceTypes
  <2>6. FaultInv' /\ ~Running'
    BY <1>9, <2>1, <2>2 DEF FaultInv, Running
  <2> QED
    BY <1>5, <1>6, <2>2, <2>3, <2>4, <2>5, <2>6, Gather
<1> QED
  BY <1>7, <1>8, <1>9

\* A connection goes down, and with it the one the client holds instead.
LEMMA ClosesKeeps ==
  ASSUME Good, NEW s \in Socks, NEW kept \in BOOLEAN, ConnectionCloses(s, kept)
  PROVE  IInv'
<1> USE GoodFacts
<1> DEFINE lost == IF clientAlive THEN dropped(s, kept) ELSE {}
<1>1. /\ phase = "poll" /\ s \in Live
      /\ connState' = freed(lost, s, "down") /\ open' = open \ lost
      /\ pendingFunctors_' = Append(pendingFunctors_, DestroyIt(s))
      /\ phase' \in {"restart", "swap"} /\ goal' \in {"wanted", goal}
      /\ phase' = "restart" => retry_
      /\ connection_' = IF clientAlive THEN None ELSE connection_
      /\ fault' \in {fault, "assert", "uaf"}
      /\ fault' = "uaf" => ~clientAlive
      /\ UNCHANGED connector /\ functors' = functors
      /\ UNCHANGED <<clientConnect_, retry_, clientAlive>>
      /\ UNCHANGED user /\ overlap' = overlap
  BY DEF ConnectionCloses, postDestroyed, reconnects, dies, lives, DestroyIt
<1>2. /\ UNCHANGED <<connect_, state_, retryDelayMs_>>
      /\ UNCHANGED <<channel_, attached, timers>>
      /\ UNCHANGED <<userPc, calls>>
  BY <1>1 DEF connector, user
<1>3. connState[s] \in {"up", "shut"}
  BY <1>1 DEF Live
<1>4. /\ lost \subseteq Socks /\ s \notin lost
      /\ \A c \in lost : c = connection_ /\ connState[c] \in {"up", "shut"}
  BY DEF dropped, SockTypes, ConnectionInv
<1> HIDE DEF lost
<1>5. /\ connState'[s] = "down"
      /\ \A c \in lost : connState'[c] = "none"
      /\ \A c \in Socks \ lost : c # s => connState'[c] = connState[c]
      /\ connState' \in [Socks -> {"none", "up", "shut", "down", "forced"}]
  BY <1>1, <1>4, FreedMap
<1>6. /\ DestroyIt(s) \in AllFunctors /\ DestroyIt(s) \in ConnectionFunctors
      /\ DestroyIt(s) \notin {StartIt, StopIt, ResetIt}
      /\ \A c \in Socks : DestroyIt(s) # ForceIt(c)
      /\ \A c \in Socks : DestroyIt(s) = DestroyIt(c) => s = c
  <2>1. DestroyIt(s) \in ConnectionFunctors
    BY FunctorNames
  <2>2. DestroyIt(s) \in AllFunctors
    BY <2>1 DEF AllFunctors
  <2>3. DestroyIt(s) \notin {StartIt, StopIt, ResetIt}
    BY <2>1, FunctorNames DEF ConnectorFunctors
  <2> QED
    BY <2>1, <2>2, <2>3, FunctorNames
<1>7. /\ functors' \in Seq(AllFunctors)
      /\ pendingFunctors_' \in Seq(AllFunctors)
      /\ pendingFunctors_' # <<>>
      /\ Range(functors') = Range(functors)
      /\ Range(pendingFunctors_') = Range(pendingFunctors_) \cup {DestroyIt(s)}
      /\ Posted' = Posted \cup {DestroyIt(s)}
      /\ \A F : /\ Solo(functors, pendingFunctors_, F)
                /\ DestroyIt(s) \in F => DestroyIt(s) \notin Posted
                => Solo(functors', pendingFunctors_', F)
  BY <1>1, <1>6, Pushes
<1>8. functors = <<>> /\ Range(functors) = {}
  BY <1>1, RangeEmpty DEF QueueTypes
<1>9. FlagTypes' /\ NumberTypes'
  BY <1>1, <1>2 DEF FlagTypes, NumberTypes
<1>10. SockTypes'
  BY <1>1, <1>2, <1>5 DEF SockTypes
<1>11. PlaceTypes'
  BY <1>1, <1>2 DEF PlaceTypes
<1>12. QueueTypes'
  BY <1>1, <1>7, <1>8 DEF QueueTypes
<1>13. FaultInv'
  BY <1>1 DEF FaultInv
<1>14. ConnectionInv'
  <2>1. DestroyIt(s) \notin Posted /\ ForceIt(s) \notin Posted
    BY <1>3 DEF ConnectionInv
  <2>2. Solo(functors, pendingFunctors_, ConnectionFunctors)'
    BY <1>7, <2>1 DEF ConnectionInv
  <2>3. \A c \in Socks : DestroyIt(c) \in Posted' => connState'[c] = "down"
    BY <1>4, <1>5, <1>6, <1>7 DEF ConnectionInv
  <2>4. \A c \in Socks : ForceIt(c) \in Posted' => connState'[c] = "forced"
    BY <1>4, <1>5, <1>6, <1>7, <2>1 DEF ConnectionInv
  <2> QED
    BY <1>1, <1>2, <2>2, <2>3, <2>4 DEF ConnectionInv
<1>15. channel_ # None => connState[channel_] = "none" /\ connState'[channel_] = "none"
  <2>1. channel_ # None => channel_ \in Socks /\ connState[channel_] = "none"
    BY <1>1, <1>8 DEF ChannelInv, OwnedInv, SockTypes
  <2> QED
    BY <1>3, <1>5, <2>1
<1>16. ChannelInv'
  BY <1>1, <1>2, <1>7, <1>15 DEF ChannelInv
<1>17. OwnedInv'
  <2>1. attached => channel_ # None
    BY DEF ChannelInv
  <2> QED
    BY <1>1, <1>2, <1>3, <1>4, <1>5, <1>15, <2>1 DEF OwnedInv
<1>18. ASSUME ~overlap PROVE OneStage' /\ StopInv' /\ ResetInv'
  <2>1. OneStage /\ StopInv /\ ResetInv
    BY <1>18
  <2>2. Live' = {}
    BY <1>1, <1>4, <1>5, <2>1 DEF Live, OneStage
  <2>3. ~attached /\ timers = 0 /\ ~Asked /\ ~Calling
    BY <1>1, <2>1 DEF OneStage, NumberTypes
  <2>4. ~Asked' /\ ~Calling'
    BY <1>2, <1>6, <1>7, <2>3 DEF Asked, Calling
  <2>5. Solo(functors, pendingFunctors_, {StartIt})'
    BY <1>6, <1>7, <2>1 DEF OneStage
  <2>6. OneStage'
    BY <1>2, <2>2, <2>3, <2>4, <2>5 DEF OneStage
  <2>7. StopInv'
    BY <1>2, <1>6, <1>7, <2>1, <2>4 DEF StopInv
  <2>8. ResetIt \notin Posted
    BY <1>1, <1>8, <2>1 DEF ResetInv, Posted
  <2>9. ResetIt \notin Posted' /\ ResetIt \notin Range(pendingFunctors_')
    BY <1>6, <1>7, <2>8 DEF Posted
  <2>10. ResetInv'
    BY <1>2, <2>1, <2>9 DEF ResetInv
  <2> QED
    BY <2>6, <2>7, <2>10
<1> QED
  BY <1>1, <1>9, <1>10, <1>11, <1>12, <1>13, <1>14, <1>16, <1>17, <1>18, Gather
-----------------------------------------------------------------------------
(* The calls                                                                *)

\* A client that is not busy has nothing under way.
LEMMA NotBusy ==
  ASSUME Good, ~Busy
  PROVE  /\ channel_ = None /\ ~attached /\ timers = 0 /\ Live = {}
         /\ Posted = {} /\ userPc = <<"idle">> /\ ~Starting
         /\ functors = <<>> /\ pendingFunctors_ = <<>>
<1> USE GoodFacts
<1>1. /\ channel_ = None /\ ~(timers > 0) /\ phase # "start"
      /\ \A s \in Socks : connState[s] = "none"
      /\ pendingFunctors_ = <<>> /\ functors = <<>> /\ userPc = <<"idle">>
  BY DEF Busy
<1>2. ~attached
  BY <1>1 DEF ChannelInv
<1>3. timers = 0
  BY <1>1 DEF NumberTypes
<1>4. Live = {}
  BY <1>1 DEF Live
<1>5. Posted = {}
  BY <1>1, RangeEmpty DEF Posted
<1>6. ~Starting
  BY <1>1 DEF Starting, ChannelInv
<1> QED
  BY <1>1, <1>2, <1>3, <1>4, <1>5, <1>6

\* connect() from the loop's thread.
LEMMA LoopConnectKeeps ==
  ASSUME Good, LoopConnect
  PROVE  IInv'
<1> USE GoodFacts
<1>1. /\ phase = "poll" /\ phase' = "start" /\ clientAlive
      /\ calls < MaxCalls /\ calls' = calls + 1
      /\ clientConnect_' = TRUE /\ connect_' = TRUE /\ goal' = "wanted"
      /\ overlap' = (overlap \/ Busy)
      /\ UNCHANGED <<state_, fault, userPc>>
      /\ UNCHANGED <<retryDelayMs_, timers>>
      /\ UNCHANGED <<channel_, open, connection_, connState>>
      /\ UNCHANGED <<attached, retry_, clientAlive>>
      /\ UNCHANGED <<pendingFunctors_, functors>>
  BY DEF LoopConnect, mayCall, notes
<1>2. Posted' = Posted /\ Live' = Live /\ functors = <<>> /\ Range(functors) = {}
  BY <1>1, RangeEmpty DEF Posted, Live, QueueTypes
<1>3. FlagTypes'
  <2>1. overlap' \in BOOLEAN
    BY <1>1 DEF FlagTypes, Busy
  <2> QED
    BY <1>1, <2>1 DEF FlagTypes
<1>4. NumberTypes' /\ SockTypes'
  BY <1>1, CallsAssumption DEF NumberTypes, SockTypes
<1>5. PlaceTypes' /\ QueueTypes'
  BY <1>1, <1>2 DEF PlaceTypes, QueueTypes
<1>6. FaultInv'
  BY <1>1 DEF FaultInv
<1>7. ConnectionInv'
  BY <1>1, <1>2 DEF ConnectionInv
<1>8. ChannelInv'
  BY <1>1, <1>2 DEF ChannelInv
<1>9. OwnedInv'
  BY <1>1 DEF OwnedInv
<1>10. ASSUME ~overlap' PROVE OneStage' /\ StopInv' /\ ResetInv'
  <2>1. ~overlap /\ ~Busy
    BY <1>1, <1>10
  <2>2. /\ channel_ = None /\ ~attached /\ timers = 0 /\ Live = {}
        /\ Posted = {} /\ userPc = <<"idle">>
    BY <2>1, NotBusy
  <2>3. ~Asked' /\ ~Calling'
    BY <1>1, <1>2, <2>2 DEF Asked, Calling
  <2>4. Solo(functors, pendingFunctors_, {StartIt})'
    BY <1>1, <2>1 DEF OneStage
  <2>5. OneStage'
    BY <1>1, <1>2, <2>2, <2>3, <2>4 DEF OneStage
  <2>6. StopInv' /\ ResetInv'
    BY <1>1, <1>2, <2>2 DEF StopInv, ResetInv
  <2> QED
    BY <2>5, <2>6
<1> QED
  BY <1>3, <1>4, <1>5, <1>6, <1>7, <1>8, <1>9, <1>10, Gather

\* A call of another thread begins.
LEMMA UserCallsKeeps ==
  ASSUME Good, NEW call \in Calls, UserCalls(call)
  PROVE  IInv'
<1> USE GoodFacts
<1>1. /\ userPc = <<"idle">> /\ clientAlive
      /\ calls < MaxCalls /\ calls' = calls + 1
      /\ clientConnect_' = (call = "connect")
      /\ IF call = "connect" THEN overlap' = (overlap \/ Busy)
                             ELSE overlap' = overlap
      /\ userPc' = <<call, IF call = "disconnect" THEN "lock" ELSE "store">>
      /\ UNCHANGED <<state_, goal, fault, phase>>
      /\ UNCHANGED <<retryDelayMs_, timers>>
      /\ UNCHANGED <<channel_, open, connection_, connState>>
      /\ UNCHANGED <<attached, connect_, retry_, clientAlive>>
      /\ UNCHANGED <<pendingFunctors_, functors>>
  BY DEF UserCalls, notes, untouchedByUser
<1>2. Posted' = Posted /\ Live' = Live
  BY <1>1 DEF Posted, Live
<1>3. FlagTypes'
  <2>1. overlap' \in BOOLEAN
    BY <1>1 DEF FlagTypes, Busy
  <2>2. clientConnect_' \in BOOLEAN
    BY <1>1
  <2> QED
    BY <1>1, <2>1, <2>2 DEF FlagTypes
<1>4. NumberTypes' /\ SockTypes'
  BY <1>1, CallsAssumption DEF NumberTypes, SockTypes
<1>5. userPc' \in {<<"disconnect", "lock">>, <<"connect", "store">>, <<"stop", "store">>}
  BY <1>1 DEF Calls
<1>6. PlaceTypes'
  <2>1. userPc' \in {<<"idle">>, <<"disconnect", "lock">>}
                      \cup ({"connect", "stop"} \X {"store", "post"})
    BY <1>5
  <2> QED
    BY <1>1, <2>1 DEF PlaceTypes
<1>7. QueueTypes' /\ FaultInv'
  BY <1>1 DEF QueueTypes, FaultInv
<1>8. ConnectionInv'
  BY <1>1, <1>2 DEF ConnectionInv
<1>9. ChannelInv' /\ OwnedInv'
  BY <1>1, <1>2 DEF ChannelInv, OwnedInv
<1>10. ASSUME ~overlap' PROVE OneStage' /\ StopInv' /\ ResetInv'
  <2>1. ~overlap /\ (call = "connect" => ~Busy)
    BY <1>1, <1>10
  <2>2. OneStage /\ StopInv /\ ResetInv
    BY <2>1
  <2>3. /\ (Asked' <=> Asked) /\ (Starting' <=> Starting) /\ ~Calling
        /\ Calling' <=> call = "connect"
        /\ userPc' # <<"stop", "post">>
    BY <1>1, <1>2, <1>5 DEF Asked, Starting, Calling
  <2>4. call = "connect" =>
          /\ channel_ = None /\ ~attached /\ timers = 0 /\ Live = {}
          /\ Posted = {} /\ ~Starting
    BY <2>1, NotBusy
  <2>5. call = "connect" => ~Asked
    BY <2>4 DEF Asked
  <2>6. OneStage'
    BY <1>1, <1>2, <2>2, <2>3, <2>4, <2>5 DEF OneStage
  <2>7. StopInv'
    BY <1>1, <1>2, <2>2, <2>3, <2>4 DEF StopInv
  <2>8. ResetInv'
    BY <1>1, <1>2, <2>2, <2>3, <2>4 DEF ResetInv
  <2> QED
    BY <2>6, <2>7, <2>8
<1> QED
  BY <1>1, <1>3, <1>4, <1>6, <1>7, <1>8, <1>9, <1>10, Gather

\* stop() from the loop's thread.
LEMMA LoopStopKeeps ==
  ASSUME Good, LoopStop
  PROVE  IInv'
<1> USE GoodFacts
<1>1. /\ phase = "poll" /\ phase' = "swap" /\ clientAlive
      /\ calls < MaxCalls /\ calls' = calls + 1
      /\ clientConnect_' = FALSE /\ connect_' = FALSE /\ goal' = "stopped"
      /\ overlap' = (overlap \/ userPc # <<"idle">>)
      /\ pendingFunctors_' = Append(pendingFunctors_, StopIt)
      /\ functors' = functors
      /\ UNCHANGED <<state_, fault, userPc>>
      /\ UNCHANGED <<retryDelayMs_, timers>>
      /\ UNCHANGED <<channel_, open, connection_, connState>>
      /\ UNCHANGED <<attached, retry_, clientAlive>>
  BY DEF LoopStop, mayCall, notes, StopIt
<1>2. /\ functors' \in Seq(AllFunctors)
      /\ pendingFunctors_' \in Seq(AllFunctors)
      /\ pendingFunctors_' # <<>>
      /\ Posted' = Posted \cup {StopIt}
      /\ \A F : /\ Solo(functors, pendingFunctors_, F)
                /\ StopIt \in F => StopIt \notin Posted
                => Solo(functors', pendingFunctors_', F)
  BY <1>1, FunctorNames, Pushes
<1>3. functors = <<>>
  BY <1>1 DEF QueueTypes
<1>4. /\ StopIt \notin ConnectionFunctors /\ StopIt \notin {StartIt, ResetIt}
      /\ \A s \in Socks : DestroyIt(s) # StopIt /\ ForceIt(s) # StopIt
  BY FunctorNames DEF ConnectorFunctors
<1>5. FlagTypes'
  <2>1. overlap' \in BOOLEAN
    BY <1>1 DEF FlagTypes
  <2> QED
    BY <1>1, <2>1 DEF FlagTypes
<1>6. NumberTypes' /\ SockTypes'
  BY <1>1, CallsAssumption DEF NumberTypes, SockTypes
<1>7. PlaceTypes' /\ QueueTypes' /\ FaultInv'
  BY <1>1, <1>2, <1>3 DEF PlaceTypes, QueueTypes, FaultInv
<1>8. ConnectionInv'
  <2>1. Solo(functors, pendingFunctors_, ConnectionFunctors)'
    BY <1>2, <1>4 DEF ConnectionInv
  <2> QED
    BY <1>1, <1>2, <1>4, <2>1 DEF ConnectionInv
<1>9. ChannelInv' /\ OwnedInv'
  BY <1>1, <1>2 DEF ChannelInv, OwnedInv
<1>10. ASSUME ~overlap' PROVE OneStage' /\ StopInv' /\ ResetInv'
  <2>1. ~overlap /\ userPc = <<"idle">>
    BY <1>1, <1>10
  <2>2. OneStage /\ StopInv /\ ResetInv
    BY <2>1
  <2>3. (Asked' <=> Asked) /\ ~Starting' /\ ~Starting /\ ~Calling /\ ~Calling'
        /\ Live' = Live
    BY <1>1, <1>2, <1>4, <2>1 DEF Asked, Starting, Calling, Live
  <2>4. Solo(functors, pendingFunctors_, {StartIt})'
    BY <1>2, <1>4, <2>2 DEF OneStage
  <2>5. OneStage'
    BY <1>1, <2>2, <2>3, <2>4 DEF OneStage
  <2>6. StopInv'
    BY <1>1, <2>3 DEF StopInv
  <2>7. ResetInv'
    BY <1>1, <1>2, <1>4, <2>2, <2>3 DEF ResetInv
  <2> QED
    BY <2>5, <2>6, <2>7
<1> QED
  BY <1>5, <1>6, <1>7, <1>8, <1>9, <1>10, Gather

\* shutdown() leaves a live connection live and touches no other.
LEMMA ShutdownKeeps ==
  ASSUME SockTypes, shutdown
  PROVE  /\ connState' \in [Socks -> {"none", "up", "shut", "down", "forced"}]
         /\ \A c \in Socks : \/ connState'[c] = connState[c]
                             \/ connState[c] = "up" /\ connState'[c] = "shut"
         /\ Live' = Live
<1>1. /\ connState' \in [Socks -> {"none", "up", "shut", "down", "forced"}]
      /\ \A c \in Socks : \/ connState'[c] = connState[c]
                          \/ connState[c] = "up" /\ connState'[c] = "shut"
  BY DEF SockTypes, shutdown
<1> QED
  BY <1>1 DEF Live

\* disconnect(), from the loop's thread or from another.
LEMMA DisconnectKeeps ==
  ASSUME Good, LoopDisconnect \/ UserLocks
  PROVE  IInv'
<1> USE GoodFacts
<1>1. /\ shutdown
      /\ phase' = phase \/ (phase = "poll" /\ phase' = "swap")
      /\ calls' \in 0..MaxCalls /\ clientConnect_' \in {FALSE, clientConnect_}
      /\ userPc' \in {<<"idle">>, userPc}
      /\ UNCHANGED <<state_, goal, fault>>
      /\ UNCHANGED <<retryDelayMs_, timers>>
      /\ UNCHANGED <<channel_, open, connection_>>
      /\ UNCHANGED <<attached, connect_, retry_, clientAlive, overlap>>
      /\ UNCHANGED <<pendingFunctors_, functors>>
  <2>1. CASE LoopDisconnect
    <3>1. calls' \in 0..MaxCalls
      BY <2>1, CallsAssumption DEF LoopDisconnect, mayCall, NumberTypes
    <3>2. /\ shutdown /\ phase = "poll" /\ phase' = "swap"
          /\ clientConnect_' = FALSE /\ userPc' = userPc
          /\ UNCHANGED connector
          /\ UNCHANGED <<goal, fault, open, connection_>>
          /\ UNCHANGED <<retry_, clientAlive, overlap>>
          /\ UNCHANGED <<pendingFunctors_, functors>>
      BY <2>1 DEF LoopDisconnect, mayCall
    <3>3. /\ UNCHANGED <<connect_, state_, retryDelayMs_>>
          /\ UNCHANGED <<channel_, attached, timers>>
      BY <3>2 DEF connector
    <3> QED
      BY <3>1, <3>2, <3>3
  <2>2. CASE UserLocks
    BY <2>2 DEF UserLocks, untouchedByUser, NumberTypes
  <2> QED
    BY <2>1, <2>2
<1>2. /\ connState' \in [Socks -> {"none", "up", "shut", "down", "forced"}]
      /\ \A c \in Socks : \/ connState'[c] = connState[c]
                          \/ connState[c] = "up" /\ connState'[c] = "shut"
      /\ Live' = Live
  BY <1>1, ShutdownKeeps
<1>3. Posted' = Posted
  BY <1>1 DEF Posted
<1>4. FlagTypes'
  BY <1>1 DEF FlagTypes
<1>5. NumberTypes' /\ SockTypes'
  BY <1>1, <1>2 DEF NumberTypes, SockTypes
<1>6. PlaceTypes'
  BY <1>1 DEF PlaceTypes
<1>7. QueueTypes' /\ FaultInv'
  BY <1>1 DEF QueueTypes, FaultInv
<1>8. ConnectionInv'
  <2>1. clientAlive /\ connection_ # None =>
          connState'[connection_] \in {"up", "shut"}
    BY <1>2 DEF ConnectionInv, SockTypes
  <2> QED
    BY <1>1, <1>2, <1>3, <2>1 DEF ConnectionInv
<1>9. ChannelInv'
  <2>1. channel_ # None =>
          (connState'[channel_] = "none" <=> connState[channel_] = "none")
    BY <1>2 DEF SockTypes
  <2> QED
    BY <1>1, <1>3, <2>1 DEF ChannelInv
<1>10. OwnedInv'
  BY <1>1, <1>2 DEF OwnedInv, ChannelInv, SockTypes
<1>11. ASSUME ~overlap PROVE OneStage' /\ StopInv' /\ ResetInv'
  <2>1. OneStage /\ StopInv /\ ResetInv
    BY <1>11
  <2>2. (Asked' <=> Asked) /\ (Starting' <=> Starting) /\ (Calling' => Calling)
    BY <1>1, <1>3 DEF Asked, Starting, Calling
  <2>3. OneStage'
    BY <1>1, <1>2, <2>1, <2>2 DEF OneStage
  <2>4. StopInv'
    BY <1>1, <1>3, <2>1, <2>2 DEF StopInv
  <2>5. ResetInv'
    BY <1>1, <1>2, <1>3, <2>1, <2>2 DEF ResetInv
  <2> QED
    BY <2>3, <2>4, <2>5
<1> QED
  BY <1>1, <1>4, <1>5, <1>6, <1>7, <1>8, <1>9, <1>10, <1>11, Gather

\* ~TcpClient(), which may force its connection closed, leave it to others,
\* or stop the connector.
LEMMA DestroyKeeps ==
  ASSUME Good, NEW unique \in BOOLEAN, DestroyClient(unique)
  PROVE  IInv'
<1> USE GoodFacts
<1>1. /\ phase = "poll" /\ phase' = "swap" /\ clientAlive
      /\ userPc = <<"idle">> /\ userPc' = userPc /\ calls' = calls
      /\ clientAlive' = FALSE /\ goal' = "stopped"
      /\ connect_' \in {FALSE, connect_}
      /\ fault' \in {fault, "assert", "dangling"}
      /\ functors' = functors
      /\ UNCHANGED <<state_, retryDelayMs_>>
      /\ UNCHANGED <<channel_, attached, timers, open, connection_>>
      /\ UNCHANGED <<clientConnect_, retry_, overlap>>
  BY DEF DestroyClient, dies, lives, user
<1>2. functors = <<>>
  BY <1>1 DEF QueueTypes
<1>3. FlagTypes' /\ NumberTypes'
  BY <1>1 DEF FlagTypes, NumberTypes
<1>4. PlaceTypes' /\ FaultInv'
  BY <1>1 DEF PlaceTypes, FaultInv
<1>5. \A s \in Socks : DestroyIt(s) # StopIt /\ ForceIt(s) # StopIt
  BY FunctorNames DEF ConnectorFunctors
\* what the step does to the connections and the queue
<1>6. /\ functors' \in Seq(AllFunctors) /\ pendingFunctors_' \in Seq(AllFunctors)
      /\ connState' \in [Socks -> {"none", "up", "shut", "down", "forced"}]
      /\ \A c \in Socks : \/ connState'[c] = connState[c]
                          \/ connState[c] # "none" /\ connState'[c] = "forced"
      /\ \A f \in {StartIt, ResetIt} : f \in Posted' <=> f \in Posted
      /\ StopIt \in Posted' /\ StopIt \notin Posted => ~connect_'
      /\ Solo(functors, pendingFunctors_, ConnectionFunctors)'
      /\ Solo(functors, pendingFunctors_, {StartIt}) =>
           Solo(functors, pendingFunctors_, {StartIt})'
      /\ \A c \in Socks : DestroyIt(c) \in Posted' => connState'[c] = "down"
      /\ \A c \in Socks : ForceIt(c) \in Posted' => connState'[c] = "forced"
  <2>1. CASE connection_ # None /\ unique
    <3>1. /\ connState' = [connState EXCEPT ![connection_] = "forced"]
          /\ pendingFunctors_' = Append(pendingFunctors_, ForceIt(connection_))
      BY <2>1 DEF DestroyClient, ForceIt
    <3>2. connection_ \in Socks /\ connState[connection_] \in {"up", "shut"}
      BY <1>1, <2>1 DEF SockTypes, ConnectionInv
    <3>3. /\ connState'[connection_] = "forced"
          /\ \A c \in Socks : c # connection_ => connState'[c] = connState[c]
          /\ connState' \in [Socks -> {"none", "up", "shut", "down", "forced"}]
      BY <3>1, <3>2 DEF SockTypes
    <3>4. ForceIt(connection_) \in ConnectionFunctors
      BY <3>2, FunctorNames
    <3>5. ForceIt(connection_) \in AllFunctors
      BY <3>4 DEF AllFunctors
    <3>6. ForceIt(connection_) \notin {StartIt, StopIt, ResetIt}
      BY <3>4, FunctorNames DEF ConnectorFunctors
    <3>7. ForceIt(connection_) \notin Posted /\ DestroyIt(connection_) \notin Posted
      BY <3>2 DEF ConnectionInv
    <3>8. /\ functors' \in Seq(AllFunctors)
          /\ pendingFunctors_' \in Seq(AllFunctors)
          /\ Posted' = Posted \cup {ForceIt(connection_)}
          /\ \A F : /\ Solo(functors, pendingFunctors_, F)
                    /\ ForceIt(connection_) \in F =>
                         ForceIt(connection_) \notin Posted
                    => Solo(functors', pendingFunctors_', F)
      BY <1>1, <3>1, <3>5, Pushes
    <3>9. Solo(functors, pendingFunctors_, ConnectionFunctors)'
      BY <3>7, <3>8 DEF ConnectionInv
    <3>10. Solo(functors, pendingFunctors_, {StartIt}) =>
             Solo(functors, pendingFunctors_, {StartIt})'
      BY <3>6, <3>8
    <3>11. \A c \in Socks : DestroyIt(c) \in Posted' => connState'[c] = "down"
      BY <3>2, <3>3, <3>7, <3>8, FunctorNames DEF ConnectionInv
    <3>12. \A c \in Socks : ForceIt(c) \in Posted' => connState'[c] = "forced"
      BY <3>2, <3>3, <3>8, FunctorNames DEF ConnectionInv
    <3> QED
      BY <3>2, <3>3, <3>6, <3>8, <3>9, <3>10, <3>11, <3>12
  <2>2. CASE connection_ # None /\ ~unique
    <3>1. connState' = connState /\ pendingFunctors_' = pendingFunctors_
      BY <2>2 DEF DestroyClient
    <3>2. Posted' = Posted
      BY <1>1, <3>1 DEF Posted
    <3> QED
      BY <1>1, <3>1, <3>2 DEF ConnectionInv, QueueTypes, SockTypes
  <2>3. CASE connection_ = None
    <3>1. /\ connState' = connState /\ connect_' = FALSE
          /\ pendingFunctors_' = Append(pendingFunctors_, StopIt)
      BY <2>3 DEF DestroyClient, StopIt
    <3>2. /\ functors' \in Seq(AllFunctors)
          /\ pendingFunctors_' \in Seq(AllFunctors)
          /\ Posted' = Posted \cup {StopIt}
          /\ \A F : /\ Solo(functors, pendingFunctors_, F)
                    /\ StopIt \in F => StopIt \notin Posted
                    => Solo(functors', pendingFunctors_', F)
      BY <1>1, <3>1, FunctorNames, Pushes
    <3>3. StopIt \notin ConnectionFunctors /\ StopIt \notin {StartIt, ResetIt}
      BY FunctorNames DEF ConnectorFunctors
    <3>4. Solo(functors, pendingFunctors_, ConnectionFunctors)'
      BY <3>2, <3>3 DEF ConnectionInv
    <3>5. Solo(functors, pendingFunctors_, {StartIt}) =>
            Solo(functors, pendingFunctors_, {StartIt})'
      BY <3>2, <3>3
    <3>6. /\ \A c \in Socks : DestroyIt(c) \in Posted' => connState'[c] = "down"
          /\ \A c \in Socks : ForceIt(c) \in Posted' => connState'[c] = "forced"
      BY <1>5, <3>1, <3>2 DEF ConnectionInv
    <3> QED
      BY <3>1, <3>2, <3>3, <3>4, <3>5, <3>6 DEF SockTypes
  <2> QED
    BY <2>1, <2>2, <2>3
<1>7. SockTypes' /\ QueueTypes'
  BY <1>1, <1>2, <1>6 DEF SockTypes, QueueTypes
<1>8. ConnectionInv'
  BY <1>1, <1>6 DEF ConnectionInv
<1>9. channel_ # None =>
        (connState'[channel_] = "none" <=> connState[channel_] = "none")
  BY <1>6 DEF SockTypes
<1>10. ChannelInv'
  BY <1>1, <1>6, <1>9 DEF ChannelInv
<1>11. OwnedInv'
  BY <1>1, <1>6, <1>9 DEF OwnedInv, ChannelInv
<1>12. ASSUME ~overlap PROVE OneStage' /\ StopInv' /\ ResetInv'
  <2>1. OneStage /\ StopInv /\ ResetInv
    BY <1>12
  <2>2. (Asked' <=> Asked) /\ ~Starting' /\ ~Calling /\ ~Calling' /\ ~Starting
    BY <1>1, <1>6 DEF Asked, Starting, Calling
  <2>3. Live' \subseteq Live
    BY <1>6 DEF Live
  <2>4. OneStage'
    BY <1>1, <1>6, <2>1, <2>2, <2>3 DEF OneStage
  <2>5. StopInv'
    <3>1. ~connect_ => ~connect_'
      BY <1>1
    <3>2. StopIt \in Posted' => ~connect_'
      BY <1>6, <2>1, <3>1 DEF StopInv
    <3>3. userPc' # <<"stop", "post">>
      BY <1>1
    <3> QED
      BY <2>2, <3>2, <3>3 DEF StopInv
  <2>6. ResetInv'
    BY <1>1, <1>6, <2>1, <2>2 DEF ResetInv
  <2> QED
    BY <2>4, <2>5, <2>6
<1> QED
  BY <1>1, <1>3, <1>4, <1>7, <1>8, <1>10, <1>11, <1>12, Gather

\* The other thread stores connect_.
LEMMA UserStoresKeeps ==
  ASSUME Good, UserStores
  PROVE  IInv'
<1> USE GoodFacts
<1>1. /\ userPc # <<"idle">> /\ userPc[2] = "store"
      /\ connect_' = (userPc[1] = "connect")
      /\ userPc' = <<userPc[1], "post">>
      /\ UNCHANGED <<state_, goal, fault, phase>>
      /\ UNCHANGED <<retryDelayMs_, timers, calls>>
      /\ UNCHANGED <<channel_, open, connection_, connState>>
      /\ UNCHANGED <<attached, clientConnect_, retry_, clientAlive, overlap>>
      /\ UNCHANGED <<pendingFunctors_, functors>>
  BY DEF UserStores, storeConnect, untouchedByUser
<1>2. userPc \in {<<"connect", "store">>, <<"stop", "store">>}
  BY <1>1 DEF PlaceTypes
<1>3. Posted' = Posted /\ Live' = Live
  BY <1>1 DEF Posted, Live
<1>4. FlagTypes'
  <2>1. connect_' \in BOOLEAN
    BY <1>1
  <2> QED
    BY <1>1, <2>1 DEF FlagTypes
<1>5. NumberTypes' /\ SockTypes' /\ QueueTypes' /\ FaultInv'
  BY <1>1 DEF NumberTypes, SockTypes, QueueTypes, FaultInv
<1>6. userPc' \in {<<"connect", "post">>, <<"stop", "post">>}
      /\ (userPc'[1] = "connect" <=> userPc[1] = "connect")
  BY <1>1, <1>2
<1>7. PlaceTypes'
  <2>1. userPc' \in {<<"idle">>, <<"disconnect", "lock">>}
                      \cup ({"connect", "stop"} \X {"store", "post"})
    BY <1>6
  <2> QED
    BY <1>1, <2>1 DEF PlaceTypes
<1>8. ConnectionInv'
  BY <1>1, <1>3 DEF ConnectionInv
<1>9. ChannelInv' /\ OwnedInv'
  BY <1>1, <1>3 DEF ChannelInv, OwnedInv
<1>10. ASSUME ~overlap PROVE OneStage' /\ StopInv' /\ ResetInv'
  <2>1. OneStage /\ StopInv /\ ResetInv
    BY <1>10
  <2>2. (Asked' <=> Asked) /\ (Starting' <=> Starting) /\ (Calling' <=> Calling)
    BY <1>1, <1>3, <1>6 DEF Asked, Starting, Calling
  <2>3. OneStage'
    BY <1>1, <1>3, <2>1, <2>2 DEF OneStage
  <2>4. StopIt \in Posted' => ~connect_' /\ ~Calling'
    BY <1>1, <1>3, <2>1, <2>2 DEF StopInv, Calling
  <2>5. userPc' = <<"stop", "post">> => ~connect_'
    BY <1>1, <1>2
  <2>6. ResetInv'
    BY <1>1, <1>3, <2>1, <2>2 DEF ResetInv
  <2> QED
    BY <2>3, <2>4, <2>5, <2>6 DEF StopInv
<1> QED
  BY <1>1, <1>4, <1>5, <1>7, <1>8, <1>9, <1>10, Gather

\* The other thread posts startInLoop() or stopInLoop().
LEMMA UserPostsKeeps ==
  ASSUME Good, UserPosts
  PROVE  IInv'
<1> USE GoodFacts
<1>1. /\ userPc # <<"idle">> /\ userPc[2] = "post" /\ userPc' = <<"idle">>
      /\ goal' \in {"wanted", "stopped"} /\ functors' = functors
      /\ UNCHANGED <<state_, fault, phase>>
      /\ UNCHANGED <<retryDelayMs_, timers, calls>>
      /\ UNCHANGED <<channel_, open, connection_, connState>>
      /\ UNCHANGED <<attached, connect_, clientConnect_, retry_, clientAlive, overlap>>
  BY DEF UserPosts, untouchedByUser
<1>2. userPc \in {<<"connect", "post">>, <<"stop", "post">>}
  BY <1>1 DEF PlaceTypes
<1>3. PICK f \in {StartIt, StopIt} :
        /\ pendingFunctors_' = Append(pendingFunctors_, f)
        /\ f = StartIt => userPc = <<"connect", "post">>
        /\ f = StopIt => userPc = <<"stop", "post">>
  <2>1. CASE userPc = <<"connect", "post">>
    BY <2>1, FunctorNames DEF UserPosts, StartIt
  <2>2. CASE userPc = <<"stop", "post">>
    BY <2>2, FunctorNames DEF UserPosts, StopIt
  <2> QED
    BY <1>2, <2>1, <2>2
<1>4. /\ functors' \in Seq(AllFunctors)
      /\ pendingFunctors_' \in Seq(AllFunctors)
      /\ pendingFunctors_' # <<>>
      /\ Range(functors') = Range(functors)
      /\ Range(pendingFunctors_') = Range(pendingFunctors_) \cup {f}
      /\ Posted' = Posted \cup {f}
      /\ \A F : /\ Solo(functors, pendingFunctors_, F)
                /\ f \in F => f \notin Posted
                => Solo(functors', pendingFunctors_', F)
  <2>1. f \in AllFunctors
    BY <1>3, FunctorNames
  <2> QED
    BY <1>1, <1>3, <2>1, Pushes
<1>5. /\ f \notin ConnectionFunctors /\ f # ResetIt
      /\ \A s \in Socks : DestroyIt(s) # f /\ ForceIt(s) # f
  BY <1>3, FunctorNames DEF ConnectorFunctors
<1>6. FlagTypes' /\ NumberTypes' /\ SockTypes'
  BY <1>1 DEF FlagTypes, NumberTypes, SockTypes
<1>7. PlaceTypes' /\ QueueTypes' /\ FaultInv'
  BY <1>1, <1>4 DEF PlaceTypes, QueueTypes, FaultInv
<1>8. ConnectionInv'
  <2>1. Solo(functors, pendingFunctors_, ConnectionFunctors)'
    BY <1>4, <1>5 DEF ConnectionInv
  <2> QED
    BY <1>1, <1>4, <1>5, <2>1 DEF ConnectionInv
<1>9. ChannelInv' /\ OwnedInv'
  BY <1>1, <1>4 DEF ChannelInv, OwnedInv
<1>10. ASSUME ~overlap PROVE OneStage' /\ StopInv' /\ ResetInv'
  <2>1. OneStage /\ StopInv /\ ResetInv
    BY <1>10
  <2>2. (Starting' <=> Starting) /\ ~Calling' /\ Live' = Live
    BY <1>1 DEF Starting, Calling, Live
  <2>3. CASE f = StartIt
    <3>1. Calling
      BY <1>3, <2>3 DEF Calling
    <3>2. ~attached /\ timers = 0 /\ Live = {} /\ ~Starting /\ ~Asked
      BY <2>1, <3>1 DEF OneStage, NumberTypes
    <3>3. ResetIt \notin Posted' /\ StopIt \notin Posted'
      BY <1>4, <1>5, <2>1, <2>3, <3>1, FunctorNames DEF ResetInv, StopInv
    <3>4. ResetIt \notin Range(pendingFunctors_')
      BY <3>3 DEF Posted
    <3>5. Solo(functors, pendingFunctors_, {StartIt})'
      BY <1>4, <2>1, <2>3, <3>2 DEF OneStage, Asked
    <3>6. OneStage'
      BY <1>1, <2>2, <3>2, <3>5 DEF OneStage
    <3>7. StopInv' /\ ResetInv'
      BY <1>1, <2>1, <3>3, <3>4 DEF StopInv, ResetInv
    <3> QED
      BY <3>6, <3>7
  <2>4. CASE f = StopIt
    <3>1. ~connect_
      BY <1>3, <2>1, <2>4 DEF StopInv
    <3>2. Asked' <=> Asked
      BY <1>4, <2>4, FunctorNames DEF Asked
    <3>3. Solo(functors, pendingFunctors_, {StartIt})'
      BY <1>4, <2>1, <2>4, FunctorNames DEF OneStage
    <3>4. OneStage'
      BY <1>1, <2>1, <2>2, <3>2, <3>3 DEF OneStage
    <3>5. StopInv'
      BY <1>1, <2>2, <3>1 DEF StopInv
    <3>6. ResetInv'
      BY <1>1, <1>4, <1>5, <2>1, <2>2, <3>2 DEF ResetInv
    <3> QED
      BY <3>4, <3>5, <3>6
  <2> QED
    BY <1>3, <2>3, <2>4
<1> QED
  BY <1>1, <1>6, <1>7, <1>8, <1>9, <1>10, Gather

\* enableRetry()
LEMMA EnableRetryKeeps ==
  ASSUME Good, enableRetry
  PROVE  IInv'
<1> USE GoodFacts
<1>1. /\ retry_' = TRUE
      /\ UNCHANGED connector /\ UNCHANGED loop /\ UNCHANGED user
      /\ UNCHANGED <<goal, fault>>
      /\ UNCHANGED <<open, connection_, connState>>
      /\ UNCHANGED <<clientConnect_, clientAlive, overlap>>
  BY DEF enableRetry
<1>2. /\ UNCHANGED <<connect_, attached>>
      /\ UNCHANGED <<state_, phase, userPc>>
      /\ UNCHANGED <<retryDelayMs_, timers, calls, channel_>>
      /\ UNCHANGED <<pendingFunctors_, functors>>
  BY <1>1 DEF connector, loop, user
<1>3. Posted' = Posted /\ Live' = Live
  BY <1>1, <1>2 DEF Posted, Live
<1>4. FlagTypes' /\ NumberTypes' /\ SockTypes'
  BY <1>1, <1>2 DEF FlagTypes, NumberTypes, SockTypes
<1>5. PlaceTypes' /\ QueueTypes' /\ FaultInv'
  BY <1>1, <1>2 DEF PlaceTypes, QueueTypes, FaultInv
<1>6. ConnectionInv'
  BY <1>1, <1>2, <1>3 DEF ConnectionInv
<1>7. ChannelInv' /\ OwnedInv'
  BY <1>1, <1>2, <1>3 DEF ChannelInv, OwnedInv
<1>8. ASSUME ~overlap PROVE OneStage' /\ StopInv' /\ ResetInv'
  <2>1. (Asked' <=> Asked) /\ (Starting' <=> Starting) /\ (Calling' <=> Calling)
    BY <1>2, <1>3 DEF Asked, Starting, Calling
  <2> QED
    BY <1>2, <1>3, <1>8, <2>1 DEF OneStage, StopInv, ResetInv
<1> QED
  BY <1>1, <1>4, <1>5, <1>6, <1>7, <1>8, Gather

-----------------------------------------------------------------------------
(* The theorems                                                             *)

LEMMA Starts ==
  ASSUME Init
  PROVE  IInv
<1>1. /\ connect_ = FALSE /\ state_ = "kDisconnected"
      /\ retryDelayMs_ = kInitRetryDelayMs
      /\ channel_ = None /\ attached = FALSE /\ timers = 0 /\ open = {}
      /\ pendingFunctors_ = <<>> /\ functors = <<>> /\ phase = "poll"
      /\ clientAlive = TRUE /\ goal = "none" /\ fault = "none"
      /\ clientConnect_ \in BOOLEAN /\ retry_ \in BOOLEAN
      /\ connection_ = None /\ connState = [s \in Socks |-> "none"]
      /\ userPc = <<"idle">> /\ calls = 0 /\ overlap = FALSE
  BY DEF Init, InitConnector
<1>2. Posted = {} /\ Live = {} /\ Range(pendingFunctors_) = {}
  BY <1>1, RangeEmpty DEF Posted, Live
<1>3. \A F : Solo(functors, pendingFunctors_, F)
  <2>1. Len(<<>>) = 0
    BY EmptySeq
  <2>2. 1..0 = {}
    OBVIOUS
  <2> QED
    BY <1>1, <2>1, <2>2, RangeEmpty DEF Solo
<1>4. FlagTypes /\ PlaceTypes
  BY <1>1 DEF FlagTypes, PlaceTypes
<1>5. NumberTypes /\ SockTypes
  BY <1>1, DelayAssumption, CallsAssumption DEF NumberTypes, SockTypes
<1>6. QueueTypes /\ FaultInv
  BY <1>1, RangeEmpty DEF QueueTypes, FaultInv
<1>7. ConnectionInv /\ ChannelInv /\ OwnedInv
  BY <1>1, <1>2, <1>3 DEF ConnectionInv, ChannelInv, OwnedInv
<1>8. ~Starting /\ ~Asked /\ ~Calling
  BY <1>1, <1>2 DEF Starting, Asked, Calling
<1>9. OneStage /\ StopInv /\ ResetInv
  BY <1>1, <1>2, <1>3, <1>8 DEF OneStage, StopInv, ResetInv
<1> QED
  BY <1>4, <1>5, <1>6, <1>7, <1>9 DEF IInv, Types, Sound, Orderly

LEMMA Steps ==
  ASSUME IInv, [Next]_vars
  PROVE  IInv'
<1>1. CASE Next
  <2>1. Running
    BY <1>1 DEF Next
  <2>2. Good
    BY <2>1 DEF IInv, Good
  <2>3. CASE LoopStep
    BY <2>2, <2>3, TurnKeeps, ConnectorFunctorKeeps, FreedKeeps, StartsKeep
       DEF LoopStep
  <2>4. CASE UserStep
    BY <2>2, <2>4, UserStoresKeeps, UserPostsKeeps, DisconnectKeeps DEF UserStep
  <2>5. CASE Failed \/ RetryExpires \/ enableRetry
    BY <2>2, <2>5, FailedKeeps, RetryKeeps, EnableRetryKeeps
  <2>6. CASE \E kept \in BOOLEAN : Connected(kept)
    BY <2>2, <2>6, ConnectedKeeps
  <2>7. CASE \E s \in Socks, kept \in BOOLEAN : ConnectionCloses(s, kept)
    BY <2>2, <2>7, ClosesKeeps
  <2>8. CASE LoopConnect \/ LoopStop \/ LoopDisconnect
    BY <2>2, <2>8, LoopConnectKeeps, LoopStopKeeps, DisconnectKeeps
  <2>9. CASE \E unique \in BOOLEAN : DestroyClient(unique)
    BY <2>2, <2>9, DestroyKeeps
  <2>10. CASE \E call \in Calls : UserCalls(call)
    BY <2>2, <2>10, UserCallsKeeps
  <2> QED
    BY <1>1, <2>3, <2>4, <2>5, <2>6, <2>7, <2>8, <2>9, <2>10 DEF Next
<1>2. CASE UNCHANGED vars
  <2>1. /\ UNCHANGED connector /\ UNCHANGED loop /\ UNCHANGED client
        /\ UNCHANGED user /\ UNCHANGED <<open, goal, fault, overlap>>
    BY <1>2 DEF vars
  <2>2. /\ UNCHANGED <<connect_, state_, retryDelayMs_>>
        /\ UNCHANGED <<channel_, attached, timers>>
        /\ UNCHANGED <<pendingFunctors_, functors, phase>>
        /\ UNCHANGED <<clientConnect_, retry_, connection_, connState, clientAlive>>
        /\ UNCHANGED <<userPc, calls>>
    BY <2>1 DEF connector, loop, client, user
  <2>3. Posted' = Posted /\ Live' = Live
    BY <2>2 DEF Posted, Live
  <2>4. Types'
    BY <2>1, <2>2 DEF IInv, Types, FlagTypes, PlaceTypes, NumberTypes,
                      SockTypes, QueueTypes
  <2>5. FaultInv' /\ (Running' <=> Running)
    BY <2>1, <2>2 DEF IInv, FaultInv, Running
  <2>6. Sound => Sound'
    BY <2>1, <2>2, <2>3 DEF Sound, ConnectionInv, ChannelInv, OwnedInv
  <2>7. (Asked' <=> Asked) /\ (Starting' <=> Starting) /\ (Calling' <=> Calling)
    BY <2>2, <2>3 DEF Asked, Starting, Calling
  <2>8. Orderly => Orderly'
    BY <2>1, <2>2, <2>3, <2>7 DEF Orderly, OneStage, StopInv, ResetInv
  <2> QED
    BY <2>1, <2>4, <2>5, <2>6, <2>8 DEF IInv
<1> QED
  BY <1>1, <1>2

\* IInv holds in every reachable state of the client and its connector, for
\* every number of calls and descriptors, every delay and either build.
THEOREM Invariance == Spec => []IInv
<1>1. Init => IInv
  BY Starts
<1>2. IInv /\ [Next]_vars => IInv'
  BY Steps
<1> QED
  BY <1>1, <1>2, PTL DEF Spec

\* Every open socket is the attempt's or a connection's, and only one's:
\* no retry, stop(), lost or replaced connection leaks one or closes it twice.
THEOREM SocketSafety == Spec => []SocketsOwned
<1>1. IInv => SocketsOwned
  <2> SUFFICES ASSUME IInv, Running PROVE SocketsOwned
    BY DEF SocketsOwned
  <2>1. OwnedInv /\ SockTypes /\ ChannelInv
    BY DEF IInv, Types, Sound
  <2> DEFINE attempted == IF attached THEN {channel_} ELSE {}
             connected == {s \in Socks : connState[s] # "none"}
  <2>2. attempted \cap connected = {}
    BY <2>1 DEF OwnedInv
  <2>3. open = attempted \cup connected
    <3>1. attempted \subseteq Socks
      BY <2>1 DEF ChannelInv, SockTypes
    <3>2. \A s \in Socks : s \in open <=> s \in attempted \cup connected
      BY <2>1 DEF OwnedInv
    <3> QED
      BY <2>1, <3>1, <3>2 DEF SockTypes
  <2> QED
    BY <2>2, <2>3 DEF SocketsOwned
<1> QED
  BY <1>1, Invariance, PTL

\* An attempt, a pending retry and a live connection exclude one another
\* unless the user's calls overlap.
THEOREM ExclusionSafety == Spec => []OneAtATime
<1>1. IInv => OneAtATime
  <2> SUFFICES ASSUME IInv, Running, ~overlap PROVE OneAtATime
    BY DEF OneAtATime
  <2>1. OneStage /\ NumberTypes /\ FlagTypes
    BY DEF IInv, Types, Orderly
  <2>2. Cardinality(Live) \in {0, 1} /\ (Live = {} => Cardinality(Live) = 0)
    <3>1. CASE Live = {}
      BY <3>1, FS_EmptySet
    <3>2. CASE Live # {}
      <4>1. PICK s \in Live : TRUE
        BY <3>2
      <4>2. Live = {s}
        BY <2>1, <4>1 DEF OneStage
      <4> QED
        BY <3>2, <4>2, FS_Singleton
    <3> QED
      BY <3>1, <3>2
  <2>3. timers \in {0, 1}
    BY <2>1 DEF OneStage, NumberTypes
  <2>4. attached => timers = 0 /\ Live = {}
    BY <2>1 DEF OneStage
  <2>5. timers = 1 => Live = {}
    BY <2>1 DEF OneStage
  <2>6. CASE attached
    BY <2>2, <2>4, <2>6 DEF OneAtATime
  <2>7. CASE ~attached
    BY <2>2, <2>3, <2>5, <2>7 DEF OneAtATime
  <2> QED
    BY <2>6, <2>7
<1> QED
  BY <1>1, Invariance, PTL

\* A null channel_, a Channel destroyed in the poller and a functor on a freed
\* object each have a cause the user can avoid.
THEOREM FaultSafety == Spec => []FaultsExplained
<1>1. IInv => FaultsExplained
  <2> SUFFICES ASSUME IInv PROVE FaultsExplained
    OBVIOUS
  <2>1. /\ FlagTypes /\ PlaceTypes /\ NumberTypes /\ SockTypes /\ FaultInv
    BY DEF IInv, Types
  <2>2. TypeOK
    <3>1. /\ connect_ \in BOOLEAN /\ clientConnect_ \in BOOLEAN
          /\ retry_ \in BOOLEAN /\ attached \in BOOLEAN
          /\ clientAlive \in BOOLEAN /\ overlap \in BOOLEAN
      BY <2>1 DEF FlagTypes
    <3>2. /\ state_ \in {"kDisconnected", "kConnecting", "kConnected"}
          /\ phase \in {"poll", "swap", "functors", "start", "restart"}
          /\ goal \in {"none", "wanted", "reached", "gaveUp", "stopped"}
          /\ fault \in {"none", "assert", "null", "dangling", "uaf"}
      BY <2>1 DEF PlaceTypes
    <3>3. /\ retryDelayMs_ \in kInitRetryDelayMs..kMaxRetryDelayMs
          /\ timers \in Nat /\ calls \in 0..MaxCalls
      BY <2>1 DEF NumberTypes
    <3>4. /\ channel_ \in Socks \cup {None} /\ open \subseteq Socks
          /\ connection_ \in Socks \cup {None}
          /\ connState \in [Socks -> {"none", "up", "shut", "down", "forced"}]
      BY <2>1 DEF SockTypes
    <3> QED
      BY <3>1, <3>2, <3>3, <3>4, Zenon DEF TypeOK
  <2> QED
    BY <2>1, <2>2 DEF FaultsExplained, FaultInv
<1> QED
  BY <1>1, Invariance, PTL
=============================================================================
