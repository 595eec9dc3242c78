------------------------ MODULE TcpConnectionProofs ------------------------
(***************************************************************************)
(* What holds of a connection for any messages, any calls of the two        *)
(* threads, any peer and any moment at which ~TcpServer runs: the order of  *)
(* the user's callbacks, that the poller never sees a freed Channel, which  *)
(* faults are possible, and, where write() does not refuse, that what goes  *)
(* out is what was sent.                                                    *)
(***************************************************************************)
EXTENDS TcpConnection, SequenceTheorems, TLAPS

Functors == Owning \cup Borrowing
Establish == <<"connectEstablished">>
Destroy == <<"connectDestroyed">>

Bytes == Data \cup {Garbage}

\* The types of the queues, with the functors a user thread can be about to
\* push; one removeConnectionInLoop() is posted at most.
QueueTypes ==
  /\ ioQueue \in Seq(Functors)
  /\ baseQueue \in {<<>>, <<<<"removeConnectionInLoop">>>>}
  /\ userPc \in {<<"idle">>, <<"setState">>, <<"forceCloseInLoop">>}
                  \cup Borrowing

OutputTypes ==
  outputBuffer_ \in Seq(Bytes) /\ wire \in Seq(Bytes) /\ sent \in Seq(Data)

EnumTypes ==
  /\ state_ \in States
  /\ events_ \subseteq {"IN", "OUT"}
  /\ index_ \in {"kNew", "kAdded", "kDeleted"}
  /\ revents_ \subseteq {"IN", "OUT", "ERR", "HUP"}
  /\ peer \in {"open", "fin", "rst"} /\ inbound \in 0..MaxInbound
  /\ used \subseteq Messages
  /\ seen \in {"nothing", "up", "down", "bad"}
  /\ fault \in {"none", "assert", "sigpipe", "uaf"}

BoolTypes ==
  /\ addedToLoop_ \in BOOLEAN /\ inMessage \in BOOLEAN
  /\ connections_ \in BOOLEAN /\ serverAlive \in BOOLEAN
  /\ userRef \in BOOLEAN
  /\ shut \in BOOLEAN /\ soError \in BOOLEAN

TypeInv == QueueTypes /\ OutputTypes /\ EnumTypes /\ BoolTypes

\* f occurs at most once in q.
Once(q, f) == \A i, j \in DOMAIN q : q[i] = f /\ q[j] = f => i = j

\* Each of the two functors that begin and end the connection's life is
\* posted once; connectEstablished heads the queue until it runs.
QueueInv ==
  /\ Once(ioQueue, Establish) /\ Once(ioQueue, Destroy)
  /\ Establish \in Range(ioQueue) <=> state_ = "kConnecting"
  /\ state_ = "kConnecting" => Head(ioQueue) = Establish
  /\ Destroy \in Range(ioQueue) => ~connections_
  /\ state_ = "unborn" => ioQueue = <<>> /\ ~connections_ /\ serverAlive

\* Before connectEstablished() nobody knows of the connection.
EarlyInv ==
  state_ \in {"unborn", "kConnecting"} =>
    /\ seen = "nothing"
    /\ events_ = {} /\ index_ = "kNew" /\ ~addedToLoop_
    /\ ~inMessage /\ outputBuffer_ = <<>>
    /\ baseQueue = <<>> /\ ~userRef /\ userPc = <<"idle">>

\* While the user has been told UP and not DOWN, the Channel is watched.
UpInv ==
  seen = "up" =>
    /\ state_ \in {"kConnected", "kDisconnecting", "kDisconnected"}
    /\ "IN" \in events_ /\ index_ = "kAdded" /\ addedToLoop_
    /\ baseQueue = <<>>
    /\ isWriting <=> outputBuffer_ # <<>>

\* After DOWN it is watched no more; connectDestroyed() is still to remove
\* it from the poller, or has done so.
DownInv ==
  seen = "down" =>
    /\ state_ = "kDisconnected"
    /\ events_ = {} /\ revents_ \subseteq {"OUT"}
    /\ IF connections_ \/ Destroy \in Range(ioQueue)
         THEN index_ = "kDeleted"
         ELSE index_ = "kNew" /\ ~addedToLoop_

\* What the three views of the connection's life say of each other.
LifeInv ==
  /\ seen \in {"nothing", "up", "down"}
  /\ seen = "nothing" <=> state_ \in {"unborn", "kConnecting"}
  /\ index_ = "kNew" => revents_ = {}

\* Whoever takes the connection out of TcpServer's map posts
\* connectDestroyed(), and only ~TcpServer does so before DOWN.
OwnerInv ==
  /\ serverAlive /\ state_ # "unborn" /\ ~connections_ => seen = "down"
  /\ serverAlive /\ ~connections_ => baseQueue = <<>>
  /\ fault = "none" /\ state_ # "unborn" /\ ~connections_
       => seen = "down" \/ Destroy \in Range(ioQueue)

\* FaultsExplained without the types
FaultInv ==
  /\ fault = "assert" => \/ ~serverAlive
                         \/ state_ = "kDisconnected" /\ seen = "up"
  /\ fault = "uaf" => seen = "down" /\ ~userRef

IInv ==
  /\ TypeInv /\ QueueInv /\ LifeInv
  /\ EarlyInv /\ UpInv /\ DownInv /\ OwnerInv
  /\ FaultInv

-----------------------------------------------------------------------------
(* Queues of functors                                                       *)

\* Pushing a functor at the end of a loop's queue.
LEMMA PushFacts ==
  ASSUME NEW q \in Seq(Functors), NEW f \in Functors
  PROVE  /\ Append(q, f) \in Seq(Functors)
         /\ Append(q, f) # <<>>
         /\ Range(Append(q, f)) = Range(q) \cup {f}
         /\ q # <<>> => Head(Append(q, f)) = Head(q)
         /\ q = <<>> => Head(Append(q, f)) = f
         /\ \A g : Once(q, g) /\ (f # g \/ g \notin Range(q))
                     => Once(Append(q, f), g)
<1> DEFINE a == Append(q, f)
<1>1. /\ a \in Seq(Functors) /\ Len(a) = Len(q) + 1 /\ Len(q) \in Nat
      /\ \A i \in 1..Len(q) : a[i] = q[i]
      /\ a[Len(q) + 1] = f
      /\ DOMAIN q = 1..Len(q) /\ DOMAIN a = 1..(Len(q) + 1)
  BY AppendProperties, LenProperties
<1> HIDE DEF a
<1>2. a # <<>>
  BY <1>1, EmptySeq
<1>3. Range(a) = Range(q) \cup {f}
  <2>1. ASSUME NEW x \in Range(a) PROVE x \in Range(q) \cup {f}
    BY <1>1 DEF Range
  <2>2. ASSUME NEW x \in Range(q) \cup {f} PROVE x \in Range(a)
    BY <1>1 DEF Range
  <2> QED
    BY <2>1, <2>2
<1>4. q # <<>> => Head(a) = Head(q)
  BY <1>1, <1>2, EmptySeq, HeadTailProperties
<1>5. q = <<>> => Head(a) = f
  BY <1>1, <1>2, EmptySeq, HeadTailProperties
<1>6. ASSUME NEW g, Once(q, g), f # g \/ g \notin Range(q)
      PROVE  Once(a, g)
  BY <1>1, <1>6 DEF Once, Range
<1> QED
  BY <1>1, <1>2, <1>3, <1>4, <1>5, <1>6 DEF a

\* Taking the functor at the front of a loop's queue to run it.
LEMMA PopFacts ==
  ASSUME NEW q \in Seq(Functors), q # <<>>
  PROVE  /\ Head(q) \in Functors /\ Tail(q) \in Seq(Functors)
         /\ Head(q) \in Range(q)
         /\ \A g : g \in Range(q) => g = Head(q) \/ g \in Range(Tail(q))
         /\ \A g : g \in Range(Tail(q)) => g \in Range(q)
         /\ \A g : Once(q, g) => Once(Tail(q), g)
         /\ \A g : Once(q, g) /\ g = Head(q) => g \notin Range(Tail(q))
<1> DEFINE t == Tail(q)
<1>1. /\ Head(q) \in Functors /\ t \in Seq(Functors) /\ Len(q) \in Nat \ {0}
      /\ Len(t) = Len(q) - 1 /\ Head(q) = q[1]
      /\ \A i \in 1..Len(t) : t[i] = q[i + 1]
      /\ DOMAIN q = 1..Len(q) /\ DOMAIN t = 1..Len(t)
  BY HeadTailProperties, LenProperties, EmptySeq
<1> HIDE DEF t
<1>2. Head(q) \in Range(q)
  BY <1>1 DEF Range
<1>3. ASSUME NEW g \in Range(q) PROVE g = Head(q) \/ g \in Range(t)
  <2>1. PICK i \in 1..Len(q) : g = q[i]
    BY <1>1 DEF Range
  <2>2. CASE i = 1
    BY <1>1, <2>1, <2>2
  <2>3. CASE i # 1
    <3>1. i - 1 \in 1..Len(t) /\ t[i - 1] = q[i]
      BY <1>1, <2>3
    <3> QED
      BY <1>1, <2>1, <3>1 DEF Range
  <2> QED
    BY <2>2, <2>3
<1>4. ASSUME NEW g \in Range(t) PROVE g \in Range(q)
  BY <1>1 DEF Range
<1>5. ASSUME NEW g, Once(q, g) PROVE Once(t, g)
  BY <1>1, <1>5 DEF Once
<1>6. ASSUME NEW g, Once(q, g), g = Head(q) PROVE g \notin Range(t)
  BY <1>1, <1>6 DEF Once, Range
<1> QED
  BY <1>1, <1>2, <1>3, <1>4, <1>5, <1>6 DEF t

\* A functor is known by its name.
LEMMA FunctorNames ==
  /\ Establish \in Functors /\ Destroy \in Functors
  /\ <<"forceCloseInLoop">> \in Functors /\ <<"writeComplete">> \in Functors
  /\ Establish # Destroy
  /\ <<"writeComplete">> # Establish /\ <<"writeComplete">> # Destroy
  /\ <<"forceCloseInLoop">> # Establish /\ <<"forceCloseInLoop">> # Destroy
  /\ Establish \notin Borrowing /\ Destroy \notin Borrowing
  /\ \A f \in Functors : /\ f[1] = "connectEstablished" <=> f = Establish
                         /\ f[1] = "connectDestroyed" <=> f = Destroy
                         /\ f[1] = "sendInLoop" => f[2] \in Messages
<1>1. \A f \in Owning : f[1] # "sendInLoop"
  BY DEF Owning
<1>2. \A f \in Borrowing : /\ f[1] \notin {"connectEstablished",
                                           "connectDestroyed"}
                           /\ f[1] = "sendInLoop" => f[2] \in Messages
  BY DEF Borrowing
<1>3. \A f \in Owning : /\ f[1] = "connectEstablished" <=> f = Establish
                        /\ f[1] = "connectDestroyed" <=> f = Destroy
  BY DEF Owning, Establish, Destroy
<1>4. Establish[1] = "connectEstablished" /\ Destroy[1] = "connectDestroyed"
  BY DEF Establish, Destroy
<1>5. Establish \notin Borrowing /\ Destroy \notin Borrowing
  BY <1>2, <1>4
<1>6. /\ Establish # Destroy
      /\ <<"writeComplete">> # Establish /\ <<"writeComplete">> # Destroy
      /\ <<"forceCloseInLoop">> # Establish
      /\ <<"forceCloseInLoop">> # Destroy
  BY DEF Establish, Destroy
<1>7. /\ Establish \in Functors /\ Destroy \in Functors
      /\ <<"forceCloseInLoop">> \in Functors
      /\ <<"writeComplete">> \in Functors
  BY DEF Establish, Destroy, Functors, Owning
<1> QED
  BY <1>1, <1>2, <1>3, <1>4, <1>5, <1>6, <1>7 DEF Functors

\* Posting writeComplete, or not, disturbs neither of the functors that
\* begin and end the connection's life.
LEMMA CompleteFacts ==
  ASSUME NEW q \in Seq(Functors), NEW r \in {q, Append(q, <<"writeComplete">>)}
  PROVE  /\ r \in Seq(Functors)
         /\ q # <<>> => r # <<>> /\ Head(r) = Head(q)
         /\ \A g \in {Establish, Destroy} :
              /\ g \in Range(r) <=> g \in Range(q)
              /\ Once(q, g) => Once(r, g)
<1>1. CASE r = q
  BY <1>1
<1>2. CASE r = Append(q, <<"writeComplete">>)
  BY <1>2, PushFacts, FunctorNames
<1> QED
  BY <1>1, <1>2
-----------------------------------------------------------------------------
(* What a send and a write do to the output and to the Channel              *)

\* A message is a string of its units.
LEMMA UnitsFacts ==
  ASSUME NEW m \in Messages
  PROVE  /\ Units(m) \in Seq(Data) /\ Units(m) \in Seq(Bytes)
         /\ Len(Units(m)) = MsgLen
         /\ \A i \in 1..MsgLen : Units(m)[i] = <<m, i>>
<1>1. Units(m) \in [1..MsgLen -> Data]
  BY DEF Units, Data
<1>2. Units(m) \in [1..MsgLen -> Bytes]
  BY <1>1 DEF Bytes
<1>3. MsgLen \in Nat
  BY BoundsAssumption
<1>4. Units(m) \in Seq(Data) /\ Units(m) \in Seq(Bytes)
  BY <1>1, <1>2, <1>3
<1>5. Len(Units(m)) = MsgLen
  BY <1>1, <1>3, <1>4, LenProperties
<1>6. \A i \in 1..MsgLen : Units(m)[i] = <<m, i>>
  BY DEF Units
<1> QED
  BY <1>4, <1>5, <1>6

\* What sendInLoop() appends is as long as what it counts as left.
LEMMA RestFacts ==
  ASSUME NEW m \in Messages, NEW n \in Int, NEW remain \in Nat
  PROVE  /\ Rest(m, n, remain) \in Seq(Bytes)
         /\ Len(Rest(m, n, remain)) = remain
<1> DEFINE r == Rest(m, n, remain)
<1>1. \A i \in 1..MsgLen : Units(m)[i] \in Data
  BY UnitsFacts DEF Data
<1>2. \A i \in 1..remain : r[i] \in Bytes
  BY <1>1 DEF Rest, Bytes
<1>3. r = [i \in 1..remain |-> r[i]]
  BY DEF Rest
<1>4. r \in [1..remain -> Bytes]
  BY <1>2, <1>3
<1>5. r \in Seq(Bytes)
  BY <1>4
<1> QED
  BY <1>4, <1>5, LenProperties

\* What handleWrite() and sendInLoop() leave of the Channel and the buffer:
\* POLLOUT is switched on when something is left behind an idle Channel.
LEMMA SendResultFacts ==
  ASSUME TypeInv, NEW m \in Messages, NEW q \in Seq(Functors),
         NEW n \in {-1} \cup 0..MsgLen, sendResult(m, n, q)
  PROVE  /\ outputBuffer_' \in Seq(Bytes)
         /\ wire' \in Seq(Bytes) /\ sent' \in Seq(Data)
         /\ ioQueue' \in {q, Append(q, <<"writeComplete">>)}
         /\ \/ UNCHANGED channel
            \/ /\ events_' = events_ \cup {"OUT"}
               /\ index_' = "kAdded" /\ addedToLoop_' = TRUE
         /\ (isWriting <=> outputBuffer_ # <<>>)
              => (isWriting' <=> outputBuffer_' # <<>>)
<1> DEFINE taken == IF n > 0 THEN n ELSE 0
           remain == MsgLen - taken
<1>1. MsgLen \in Nat /\ taken \in 0..MsgLen /\ remain \in Nat /\ n \in Int
  BY BoundsAssumption
<1>2. /\ wire' = wire \o SubSeq(Units(m), 1, taken)
      /\ outputBuffer_' = outputBuffer_ \o Rest(m, n, remain)
      /\ sent' = sent \o Units(m)
      /\ IF remain > 0 /\ ~isWriting THEN update(events_ \cup {"OUT"})
                                     ELSE UNCHANGED channel
      /\ ioQueue' = IF remain = 0 THEN Append(q, <<"writeComplete">>) ELSE q
  BY DEF sendResult
<1> HIDE DEF remain, taken
<1>3. /\ wire \in Seq(Bytes) /\ sent \in Seq(Data)
      /\ outputBuffer_ \in Seq(Bytes)
  BY DEF TypeInv, OutputTypes, BoolTypes
<1>4. SubSeq(Units(m), 1, taken) \in Seq(Bytes)
  BY <1>1, UnitsFacts, SubSeqProperties
<1>5. Rest(m, n, remain) \in Seq(Bytes) /\ Len(Rest(m, n, remain)) = remain
  BY <1>1, RestFacts
<1>6. outputBuffer_' \in Seq(Bytes) /\ wire' \in Seq(Bytes)
      /\ sent' \in Seq(Data)
  BY <1>2, <1>3, <1>4, <1>5, UnitsFacts, ConcatProperties
<1>7. Len(outputBuffer_') = Len(outputBuffer_) + remain
  BY <1>2, <1>3, <1>5, ConcatProperties
<1>8. outputBuffer_' # <<>> <=> outputBuffer_ # <<>> \/ remain > 0
  BY <1>1, <1>3, <1>6, <1>7, EmptySeq
<1>9. \/ /\ ~(remain > 0 /\ ~isWriting) /\ UNCHANGED channel
      \/ /\ remain > 0 /\ events_' = events_ \cup {"OUT"}
         /\ index_' = "kAdded" /\ addedToLoop_' = TRUE
  BY <1>2 DEF update
<1>10. ASSUME isWriting <=> outputBuffer_ # <<>>
       PROVE  isWriting' <=> outputBuffer_' # <<>>
  BY <1>8, <1>9, <1>10 DEF isWriting, channel
<1> QED
  BY <1>2, <1>6, <1>9, <1>10

\* The whole of sendInLoop(), on a connection that is up or forced closed.
LEMMA SendFacts ==
  ASSUME TypeInv, NEW m \in Messages, NEW q \in Seq(Functors),
         sendInLoop(m, q)
  PROVE  /\ outputBuffer_' \in Seq(Bytes)
         /\ wire' \in Seq(Bytes) /\ sent' \in Seq(Data)
         /\ ioQueue' \in {q, Append(q, <<"writeComplete">>)}
         /\ soError' \in BOOLEAN /\ fault' \in {fault, "sigpipe"}
         /\ \/ UNCHANGED channel
            \/ /\ state_ # "kDisconnected"
               /\ events_' = events_ \cup {"OUT"}
               /\ index_' = "kAdded" /\ addedToLoop_' = TRUE
         /\ state_ = "kDisconnected" => UNCHANGED <<outputBuffer_, channel>>
         /\ (isWriting <=> outputBuffer_ # <<>>)
              => (isWriting' <=> outputBuffer_' # <<>>)
<1>1. /\ outputBuffer_ \in Seq(Bytes) /\ wire \in Seq(Bytes)
      /\ sent \in Seq(Data) /\ soError \in BOOLEAN
  BY DEF TypeInv, OutputTypes, BoolTypes
<1>2. CASE UNCHANGED <<output, channel, soError>> /\ ioQueue' = q
             /\ fault' \in {fault, "sigpipe"}
  BY <1>1, <1>2 DEF output, channel, isWriting
<1>3. ASSUME NEW n \in {-1} \cup 0..MsgLen, sendResult(m, n, q),
             state_ # "kDisconnected", fault' = fault, soError' \in BOOLEAN
      PROVE  /\ outputBuffer_' \in Seq(Bytes)
             /\ wire' \in Seq(Bytes) /\ sent' \in Seq(Data)
             /\ ioQueue' \in {q, Append(q, <<"writeComplete">>)}
             /\ \/ UNCHANGED channel
                \/ /\ events_' = events_ \cup {"OUT"}
                   /\ index_' = "kAdded" /\ addedToLoop_' = TRUE
             /\ (isWriting <=> outputBuffer_ # <<>>)
                  => (isWriting' <=> outputBuffer_' # <<>>)
  BY <1>3, SendResultFacts
<1>4. CASE state_ = "kDisconnected"
  BY <1>2, <1>4 DEF sendInLoop, lives
<1>5. CASE state_ # "kDisconnected" /\ ~directWrite
  <2>1. sendResult(m, 0, q) /\ fault' = fault /\ soError' = soError
    BY <1>5 DEF sendInLoop, lives
  <2>2. 0 \in {-1} \cup 0..MsgLen
    BY BoundsAssumption
  <2> QED
    BY <1>1, <1>3, <1>5, <2>1, <2>2
<1>6. CASE state_ # "kDisconnected" /\ directWrite
  <2>1. CASE WriteBroken /\ dies("sigpipe") /\ ioQueue' = q
               /\ UNCHANGED <<output, channel, soError>>
    BY <1>2, <2>1 DEF dies
  <2>2. ASSUME NEW n \in WriteResults(Units(m)) \cup Refused,
               sendResult(m, n, q), lives,
               soError' = (soError /\ ~WriteBroken)
        PROVE  n \in {-1} \cup 0..MsgLen /\ soError' \in BOOLEAN
    BY <2>2, UnitsFacts, BoundsAssumption DEF WriteResults, Refused
  <2>3. ASSUME NEW n \in WriteResults(Units(m)) \cup Refused,
               sendResult(m, n, q), lives,
               soError' = (soError /\ ~WriteBroken)
        PROVE  /\ outputBuffer_' \in Seq(Bytes)
               /\ wire' \in Seq(Bytes) /\ sent' \in Seq(Data)
               /\ ioQueue' \in {q, Append(q, <<"writeComplete">>)}
               /\ soError' \in BOOLEAN /\ fault' = fault
               /\ \/ UNCHANGED channel
                  \/ /\ events_' = events_ \cup {"OUT"}
                     /\ index_' = "kAdded" /\ addedToLoop_' = TRUE
               /\ (isWriting <=> outputBuffer_ # <<>>)
                    => (isWriting' <=> outputBuffer_' # <<>>)
    BY <1>3, <1>6, <2>2, <2>3 DEF lives
  <2>4. \/ WriteBroken /\ dies("sigpipe") /\ ioQueue' = q
             /\ UNCHANGED <<output, channel, soError>>
        \/ \E n \in WriteResults(Units(m)) \cup Refused :
             /\ sendResult(m, n, q) /\ lives
             /\ soError' = (soError /\ ~WriteBroken)
    BY <1>6 DEF sendInLoop
  <2> QED
    BY <1>6, <2>1, <2>3, <2>4
<1> QED
  BY <1>4, <1>5, <1>6

\* handleWrite(): POLLOUT is switched off exactly when the buffer is drained.
LEMMA WriteFacts ==
  ASSUME TypeInv, handleWrite
  PROVE  /\ outputBuffer_' \in Seq(Bytes) /\ wire' \in Seq(Bytes)
         /\ ioQueue' \in {ioQueue, Append(ioQueue, <<"writeComplete">>)}
         /\ soError' \in BOOLEAN /\ shut' \in BOOLEAN
         /\ fault' \in {fault, "sigpipe"}
         /\ UNCHANGED channel \/ (isWriting /\ update(events_ \ {"OUT"}))
         /\ (isWriting <=> outputBuffer_ # <<>>)
              => (isWriting' <=> outputBuffer_' # <<>>)
<1>1. /\ outputBuffer_ \in Seq(Bytes) /\ wire \in Seq(Bytes)
      /\ soError \in BOOLEAN /\ shut \in BOOLEAN
  BY DEF TypeInv, OutputTypes, BoolTypes
<1>2. CASE UNCHANGED <<outputBuffer_, wire, channel, ioQueue, shut>>
             /\ fault' \in {fault, "sigpipe"} /\ soError' \in BOOLEAN
  BY <1>1, <1>2 DEF channel, isWriting
<1>3. ASSUME isWriting, NEW n \in 1..Len(outputBuffer_), written(n),
             soError' = soError, fault' = fault
      PROVE  /\ outputBuffer_' \in Seq(Bytes) /\ wire' \in Seq(Bytes)
             /\ ioQueue' \in {ioQueue, Append(ioQueue, <<"writeComplete">>)}
             /\ soError' \in BOOLEAN /\ shut' \in BOOLEAN
             /\ UNCHANGED channel \/ update(events_ \ {"OUT"})
             /\ isWriting' <=> outputBuffer_' # <<>>
  <2> DEFINE len == Len(outputBuffer_)
             drained == n = len
  <2>1. /\ wire' = wire \o SubSeq(outputBuffer_, 1, n)
        /\ outputBuffer_' = SubSeq(outputBuffer_, n + 1, len)
        /\ IF drained THEN disableWriting ELSE UNCHANGED channel
        /\ ioQueue' = IF drained THEN Append(ioQueue, <<"writeComplete">>)
                                 ELSE ioQueue
        /\ IF drained /\ finishShutdown
             THEN shutdownInLoop(FALSE) ELSE UNCHANGED shut
    BY <1>3 DEF written
  <2>2. len \in Nat /\ n \in 1..len
    BY <1>1
  <2>3. SubSeq(outputBuffer_, 1, n) \in Seq(Bytes)
    BY <1>1, <2>2, SubSeqProperties
  <2>4. /\ outputBuffer_' \in Seq(Bytes)
        /\ Len(outputBuffer_') = len - n
    BY <1>1, <2>1, <2>2, SubSeqProperties
  <2>5. wire' \in Seq(Bytes)
    BY <1>1, <2>1, <2>3, ConcatProperties
  <2>6. outputBuffer_' = <<>> <=> drained
    BY <2>2, <2>4, EmptySeq
  <2> HIDE DEF drained, len
  <2>7. shut' \in BOOLEAN
    BY <1>1, <2>1 DEF shutdownInLoop
  <2>8. CASE drained
    <3>1. update(events_ \ {"OUT"})
      BY <2>1, <2>8 DEF disableWriting
    <3>2. ~isWriting'
      BY <3>1 DEF update, isWriting
    <3> QED
      BY <1>1, <1>3, <2>1, <2>4, <2>5, <2>6, <2>7, <2>8, <3>1, <3>2
  <2>9. CASE ~drained
    <3>1. UNCHANGED channel /\ isWriting'
      BY <1>3, <2>1, <2>9 DEF channel, isWriting
    <3> QED
      BY <1>1, <1>3, <2>1, <2>4, <2>5, <2>6, <2>7, <2>9, <3>1
  <2> QED
    BY <2>8, <2>9
<1>4. \/ /\ UNCHANGED <<outputBuffer_, wire, channel, ioQueue, shut>>
         /\ fault' \in {fault, "sigpipe"} /\ soError' \in BOOLEAN
      \/ /\ isWriting /\ soError' = soError /\ fault' = fault
         /\ \E n \in 1..Len(outputBuffer_) : written(n)
  <2>1. ASSUME NEW n \in WriteResults(outputBuffer_), n > 0
        PROVE  n \in 1..Len(outputBuffer_)
    BY <2>1 DEF WriteResults
  <2> QED
    BY <1>1, <2>1 DEF handleWrite, lives, dies
<1> QED
  BY <1>2, <1>3, <1>4
-----------------------------------------------------------------------------
(* The inductive invariant                                                  *)

USE DEF channel, socket, output, user, server, untouchedByUser

\* The state before newConnection() satisfies the invariant.
LEMMA InitIInv == Init => IInv
<1> SUFFICES ASSUME Init PROVE IInv
  OBVIOUS
<1> USE DEF Init
<1>1. <<>> \in Seq(Bytes) /\ <<>> \in Seq(Data) /\ <<>> \in Seq(Functors)
  BY EmptySeq
<1>2. DOMAIN <<>> = {}
  OBVIOUS
<1>3. Range(<<>>) = {} /\ \A f : Once(<<>>, f)
  BY <1>2 DEF Range, Once
<1>4. TypeInv
  <2>1. QueueTypes
    BY <1>1 DEF QueueTypes
  <2>2. OutputTypes
    BY <1>1 DEF OutputTypes
  <2>3. EnumTypes
    BY BoundsAssumption DEF EnumTypes, States
  <2>4. BoolTypes
    BY DEF BoolTypes
  <2> QED
    BY <2>1, <2>2, <2>3, <2>4 DEF TypeInv
<1>5. QueueInv
  BY <1>3 DEF QueueInv
<1>6. LifeInv /\ EarlyInv /\ UpInv /\ DownInv /\ OwnerInv /\ FaultInv
  BY DEF LifeInv, EarlyInv, UpInv, DownInv, OwnerInv, FaultInv
<1> QED
  BY <1>4, <1>5, <1>6 DEF IInv

\* handleClose() of a connection that is up tells the user DOWN, once, stops
\* watching the Channel and posts the only removeConnectionInLoop(); of any
\* other it changes nothing and fails its assert.
LEMMA CloseFacts ==
  ASSUME IInv, handleClose
  PROVE  \/ /\ closable /\ seen = "up"
            /\ state_' = "kDisconnected" /\ seen' = "down"
            /\ events_' = {} /\ index_' = "kDeleted" /\ addedToLoop_' = TRUE
            /\ baseQueue' = <<<<"removeConnectionInLoop">>>>
            /\ fault' = fault
         \/ /\ ~closable /\ fault' = "assert"
            /\ UNCHANGED <<state_, channel, seen, baseQueue>>
<1>1. CASE closable
  <2>1. seen = "up"
    BY <1>1 DEF IInv, LifeInv, DownInv, closable
  <2>2. index_ = "kAdded" /\ baseQueue = <<>>
    BY <2>1 DEF IInv, UpInv
  <2>3. Append(<<>>, <<"removeConnectionInLoop">>)
          = <<<<"removeConnectionInLoop">>>>
    OBVIOUS
  <2>4. /\ state_' = "kDisconnected" /\ update({}) /\ callDown
        /\ baseQueue' = Append(baseQueue, <<"removeConnectionInLoop">>)
        /\ fault' = fault
    BY <1>1 DEF handleClose, lives
  <2>5. baseQueue' = <<<<"removeConnectionInLoop">>>>
    BY <2>2, <2>3, <2>4
  <2>6. events_' = {} /\ index_' = "kDeleted" /\ addedToLoop_' = TRUE
    BY <2>2, <2>4 DEF update
  <2>7. seen' = "down"
    BY <2>1, <2>4 DEF callDown
  <2> QED
    BY <1>1, <2>1, <2>4, <2>5, <2>6, <2>7
<1>2. CASE ~closable
  BY <1>2 DEF handleClose, dies
<1> QED
  BY <1>1, <1>2

\* Every step keeps the types of the queues.
LEMMA QueueTypesStep == IInv /\ [Next]_vars => QueueTypes'
<1> SUFFICES ASSUME IInv, [Next]_vars PROVE QueueTypes'
  OBVIOUS
<1>1. TypeInv /\ QueueTypes
  BY DEF IInv, TypeInv
<1> USE DEF QueueTypes
<1>2. CASE Kernel
  BY <1>1, <1>2 DEF Kernel, PeerSends, PeerCloses, PeerResets
<1>3. CASE newConnection
  BY <1>1, <1>3, PushFacts, FunctorNames DEF newConnection, Establish
<1>4. CASE removeConnectionInLoop
  <2>1. Append(ioQueue, Destroy) \in Seq(Functors)
    BY <1>1, PushFacts, FunctorNames
  <2>2. ioQueue' \in {ioQueue, Append(ioQueue, Destroy)}
    BY <1>4 DEF removeConnectionInLoop, postDestroy, Destroy
  <2>3. Tail(<<<<"removeConnectionInLoop">>>>) = <<>>
    OBVIOUS
  <2>4. baseQueue' = <<>>
    BY <1>1, <1>4, <2>3 DEF removeConnectionInLoop
  <2> QED
    BY <1>1, <1>4, <2>1, <2>2, <2>4 DEF removeConnectionInLoop
<1>5. CASE destroyServer
  BY <1>1, <1>5, PushFacts, FunctorNames
     DEF destroyServer, postDestroy, Destroy
<1>6. CASE connectEstablished \/ connectDestroyed \/ writeComplete
           \/ queuedShutdown
  BY <1>1, <1>6, PopFacts
     DEF connectEstablished, connectDestroyed, writeComplete, queuedShutdown,
         Runs
<1>7. CASE forceCloseInLoop
  <2>1. Tail(ioQueue) \in Seq(Functors)
    BY <1>1, <1>7, PopFacts DEF forceCloseInLoop, Runs
  <2>2. baseQueue' \in {<<>>, <<<<"removeConnectionInLoop">>>>}
    BY <1>1, <1>7, CloseFacts DEF forceCloseInLoop
  <2> QED
    BY <1>1, <1>7, <2>1, <2>2 DEF forceCloseInLoop
<1>8. CASE queuedSend
  <2>1. /\ Tail(ioQueue) \in Seq(Functors) /\ Head(ioQueue)[2] \in Messages
    BY <1>1, <1>8, PopFacts, FunctorNames DEF queuedSend, Runs
  <2>2. ioQueue' \in {Tail(ioQueue),
                      Append(Tail(ioQueue), <<"writeComplete">>)}
    BY <1>1, <1>8, <2>1, SendFacts DEF queuedSend
  <2>3. ioQueue' \in Seq(Functors)
    BY <2>1, <2>2, CompleteFacts
  <2> QED
    BY <1>1, <1>8, <2>3 DEF queuedSend
<1>9. CASE \E room \in BOOLEAN : PollReturn(room)
  BY <1>1, <1>9 DEF PollReturn
<1>10. CASE HandleMessage \/ MessageReturns \/ HandleReadError
  BY <1>1, <1>10 DEF HandleMessage, MessageReturns, HandleReadError
<1>11. CASE HandleClose
  <2>1. baseQueue' \in {<<>>, <<<<"removeConnectionInLoop">>>>}
    BY <1>1, <1>11, CloseFacts DEF HandleClose
  <2> QED
    BY <1>1, <1>11, <2>1 DEF HandleClose
<1>12. CASE handleWrite
  <2>1. ioQueue' \in {ioQueue, Append(ioQueue, <<"writeComplete">>)}
    BY <1>1, <1>12, WriteFacts
  <2>2. ioQueue' \in Seq(Functors)
    BY <1>1, <2>1, CompleteFacts
  <2> QED
    BY <1>1, <1>12, <2>2 DEF handleWrite
<1>13. ASSUME NEW m \in Messages, ioSend(m) PROVE QueueTypes'
  <2>1. ioQueue' \in {ioQueue, Append(ioQueue, <<"writeComplete">>)}
    BY <1>1, <1>13, SendFacts DEF ioSend
  <2>2. ioQueue' \in Seq(Functors)
    BY <1>1, <2>1, CompleteFacts
  <2> QED
    BY <1>1, <1>13, <2>2 DEF ioSend
<1>14. CASE ioShutdown
  BY <1>1, <1>14 DEF ioShutdown
<1>15. CASE ioForceClose
  BY <1>1, <1>15, PushFacts, FunctorNames DEF ioForceClose
<1>16. CASE UserCall
  BY <1>1, <1>16
     DEF UserCall, userSend, userShutdown, userForceClose, userDrop,
         Borrowing
<1>17. CASE userSetState
  BY <1>1, <1>17 DEF userSetState
<1>18. CASE userPush
  BY <1>1, <1>18, PushFacts DEF userPush, Functors
<1>19. CASE UNCHANGED vars
  BY <1>1, <1>19 DEF vars
<1> QED
  BY <1>2, <1>3, <1>4, <1>5, <1>6, <1>7, <1>8, <1>9, <1>10, <1>11, <1>12,
     <1>13, <1>14, <1>15, <1>16, <1>17, <1>18, <1>19
     DEF Next, Base, Functor, Event, IoCall, UserRest

\* Only sends and writes touch the output.
LEMMA OutputTypesStep == IInv /\ [Next]_vars => OutputTypes'
<1> SUFFICES ASSUME IInv, [Next]_vars PROVE OutputTypes'
  OBVIOUS
<1>1. TypeInv /\ QueueTypes /\ OutputTypes
  BY DEF IInv, TypeInv
<1>2. CASE UNCHANGED output
  BY <1>1, <1>2 DEF OutputTypes
<1>3. CASE queuedSend
  <2>1. CASE Freed
    BY <1>2, <1>3, <2>1 DEF queuedSend
  <2>2. CASE ~Freed
    <3>1. /\ Tail(ioQueue) \in Seq(Functors)
          /\ Head(ioQueue)[2] \in Messages
      BY <1>1, <1>3, PopFacts, FunctorNames DEF queuedSend, Runs, QueueTypes
    <3>2. sendInLoop(Head(ioQueue)[2], Tail(ioQueue))
      BY <1>3, <2>2 DEF queuedSend
    <3> QED
      BY <1>1, <3>1, <3>2, SendFacts DEF OutputTypes
  <2> QED
    BY <2>1, <2>2
<1>4. CASE handleWrite
  <2>1. sent' = sent
    BY <1>4 DEF handleWrite
  <2> QED
    BY <1>1, <1>4, <2>1, WriteFacts DEF OutputTypes
<1>5. ASSUME NEW m \in Messages, ioSend(m) PROVE OutputTypes'
  BY <1>1, <1>5, SendFacts DEF ioSend, OutputTypes, QueueTypes
<1>6. CASE Kernel \/ Base
  BY <1>2, <1>6
     DEF Kernel, PeerSends, PeerCloses, PeerResets, Base, newConnection,
         removeConnectionInLoop, destroyServer
<1>7. CASE connectEstablished \/ connectDestroyed \/ forceCloseInLoop
           \/ writeComplete \/ queuedShutdown
  BY <1>2, <1>7
     DEF connectEstablished, connectDestroyed, forceCloseInLoop,
         writeComplete, queuedShutdown
<1>8. CASE HandleMessage \/ MessageReturns \/ HandleClose \/ HandleReadError
           \/ (\E room \in BOOLEAN : PollReturn(room))
  BY <1>2, <1>8
     DEF HandleMessage, MessageReturns, HandleClose, HandleReadError,
         PollReturn
<1>9. CASE ioShutdown \/ ioForceClose \/ UserCall \/ UserRest
  BY <1>2, <1>9
     DEF ioShutdown, ioForceClose, UserCall, userSend, userShutdown,
         userForceClose, userDrop, UserRest, userSetState, userPush
<1>10. CASE UNCHANGED vars
  BY <1>2, <1>10 DEF vars
<1> QED
  BY <1>3, <1>4, <1>5, <1>6, <1>7, <1>8, <1>9, <1>10
     DEF Next, Functor, Event, IoCall

\* Every step keeps the types of what is an enumeration, a set or a count.
LEMMA EnumTypesStep == IInv /\ [Next]_vars => EnumTypes'
<1> SUFFICES ASSUME IInv, [Next]_vars PROVE EnumTypes'
  OBVIOUS
<1>1. TypeInv /\ QueueTypes /\ EnumTypes
  BY DEF IInv, TypeInv
<1> USE DEF EnumTypes
<1>2. CASE Kernel
  <2>1. CASE PeerSends
    BY <1>1, <2>1, BoundsAssumption DEF PeerSends
  <2>2. CASE PeerCloses
    BY <1>1, <2>2 DEF PeerCloses
  <2>3. CASE PeerResets
    BY <1>1, <2>3 DEF PeerResets
  <2> QED
    BY <1>2, <2>1, <2>2, <2>3 DEF Kernel
<1>3. CASE newConnection \/ removeConnectionInLoop \/ destroyServer
  BY <1>1, <1>3
     DEF newConnection, removeConnectionInLoop, destroyServer, lives, dies,
         States
<1>4. CASE connectEstablished
  BY <1>1, <1>4
     DEF connectEstablished, lives, dies, update, callUp, States
<1>5. CASE connectDestroyed
  BY <1>1, <1>5
     DEF connectDestroyed, lives, dies, remove, callDown, States
<1>6. CASE forceCloseInLoop
  BY <1>1, <1>6, CloseFacts DEF forceCloseInLoop, States
<1>7. CASE writeComplete \/ queuedShutdown
  BY <1>1, <1>7
     DEF writeComplete, queuedShutdown, shutdownInLoop, lives, dies
<1>8. CASE queuedSend
  <2>1. CASE Freed
    BY <1>1, <1>8, <2>1 DEF queuedSend, dies
  <2>2. CASE ~Freed
    <3>1. /\ Tail(ioQueue) \in Seq(Functors)
          /\ Head(ioQueue)[2] \in Messages
      BY <1>1, <1>8, PopFacts, FunctorNames DEF queuedSend, Runs, QueueTypes
    <3>2. sendInLoop(Head(ioQueue)[2], Tail(ioQueue))
      BY <1>8, <2>2 DEF queuedSend
    <3>3. UNCHANGED <<state_, revents_, inMessage, baseQueue, server, user,
                      shut, peer, inbound, used, seen>>
      BY <1>8 DEF queuedSend
    <3> QED
      BY <1>1, <3>1, <3>2, <3>3, SendFacts
  <2> QED
    BY <2>1, <2>2
<1>9. CASE \E room \in BOOLEAN : PollReturn(room)
  BY <1>1, <1>9 DEF PollReturn, MustReport
<1>10. CASE HandleMessage \/ MessageReturns \/ HandleReadError
  <2>1. CASE HandleMessage
    BY <1>1, <2>1, BoundsAssumption
       DEF HandleMessage, RestOfEvents, callMessage
  <2>2. CASE MessageReturns
    BY <1>1, <2>2 DEF MessageReturns
  <2>3. CASE HandleReadError
    BY <1>1, <2>3 DEF HandleReadError, RestOfEvents
  <2> QED
    BY <1>10, <2>1, <2>2, <2>3
<1>11. CASE HandleClose
  BY <1>1, <1>11, CloseFacts DEF HandleClose, RestOfEvents, ErrorLeft, States
<1>12. CASE handleWrite
  <2>1. /\ UNCHANGED <<state_, inMessage, sent, baseQueue, server, user,
                       peer, inbound, used, seen>>
        /\ revents_' = {}
    BY <1>12 DEF handleWrite
  <2> QED
    BY <1>1, <1>12, <2>1, WriteFacts DEF update
<1>13. ASSUME NEW m \in Messages, ioSend(m) PROVE EnumTypes'
  <2>1. /\ sendInLoop(m, ioQueue) /\ used' = used \cup {m}
        /\ UNCHANGED <<state_, revents_, inMessage, baseQueue, server, user,
                       shut, peer, inbound, seen>>
    BY <1>13 DEF ioSend
  <2> QED
    BY <1>1, <2>1, SendFacts DEF QueueTypes
<1>14. CASE ioShutdown \/ ioForceClose
  BY <1>1, <1>14 DEF ioShutdown, ioForceClose, shutdownInLoop, States
<1>15. CASE UserCall
  <2>1. ASSUME NEW m \in Messages, userSend(m) PROVE EnumTypes'
    BY <1>1, <2>1 DEF userSend
  <2>2. CASE userShutdown
    BY <1>1, <2>2 DEF userShutdown, States
  <2>3. CASE userForceClose \/ userDrop
    BY <1>1, <2>3 DEF userForceClose, userDrop
  <2> QED
    BY <1>15, <2>1, <2>2, <2>3 DEF UserCall
<1>16. CASE userSetState \/ userPush
  BY <1>1, <1>16 DEF userSetState, userPush, States
<1>17. CASE UNCHANGED vars
  BY <1>1, <1>17 DEF vars
<1> QED
  BY <1>2, <1>3, <1>4, <1>5, <1>6, <1>7, <1>8, <1>9, <1>10, <1>11, <1>12,
     <1>13, <1>14, <1>15, <1>16, <1>17
     DEF Next, Base, Functor, Event, IoCall, UserRest

\* Every step keeps the types of the flags.
LEMMA BoolTypesStep == IInv /\ [Next]_vars => BoolTypes'
<1> SUFFICES ASSUME IInv, [Next]_vars PROVE BoolTypes'
  OBVIOUS
<1>1. TypeInv /\ QueueTypes /\ BoolTypes
  BY DEF IInv, TypeInv
<1> USE DEF BoolTypes
<1>2. CASE Kernel
  BY <1>1, <1>2, BoundsAssumption
     DEF Kernel, PeerSends, PeerCloses, PeerResets
<1>3. CASE newConnection \/ removeConnectionInLoop \/ destroyServer
  BY <1>1, <1>3
     DEF newConnection, removeConnectionInLoop, destroyServer, lives, dies,
         States
<1>4. CASE connectEstablished
  BY <1>1, <1>4
     DEF connectEstablished, lives, dies, update, callUp, States
<1>5. CASE connectDestroyed
  BY <1>1, <1>5
     DEF connectDestroyed, lives, dies, remove, callDown, States
<1>6. CASE forceCloseInLoop
  BY <1>1, <1>6, CloseFacts DEF forceCloseInLoop, States
<1>7. CASE writeComplete \/ queuedShutdown
  BY <1>1, <1>7
     DEF writeComplete, queuedShutdown, shutdownInLoop, lives, dies
<1>8. CASE queuedSend
  <2>1. CASE Freed
    BY <1>1, <1>8, <2>1 DEF queuedSend, dies
  <2>2. CASE ~Freed
    <3>1. /\ Tail(ioQueue) \in Seq(Functors)
          /\ Head(ioQueue)[2] \in Messages
      BY <1>1, <1>8, PopFacts, FunctorNames DEF queuedSend, Runs, QueueTypes
    <3>2. sendInLoop(Head(ioQueue)[2], Tail(ioQueue))
      BY <1>8, <2>2 DEF queuedSend
    <3>3. UNCHANGED <<state_, revents_, inMessage, baseQueue, server, user,
                      shut, peer, inbound, used, seen>>
      BY <1>8 DEF queuedSend
    <3> QED
      BY <1>1, <3>1, <3>2, <3>3, SendFacts
  <2> QED
    BY <2>1, <2>2
<1>9. CASE \E room \in BOOLEAN : PollReturn(room)
  BY <1>1, <1>9 DEF PollReturn, MustReport
<1>10. CASE HandleMessage \/ MessageReturns \/ HandleReadError
  BY <1>1, <1>10, BoundsAssumption
     DEF HandleMessage, MessageReturns, HandleReadError, RestOfEvents,
         callMessage, ErrorLeft
<1>11. CASE HandleClose
  BY <1>1, <1>11, CloseFacts DEF HandleClose, RestOfEvents, ErrorLeft, States
<1>12. CASE handleWrite
  <2>1. /\ UNCHANGED <<state_, inMessage, sent, baseQueue, server, user,
                       peer, inbound, used, seen>>
        /\ revents_' = {}
    BY <1>12 DEF handleWrite
  <2> QED
    BY <1>1, <1>12, <2>1, WriteFacts DEF update
<1>13. ASSUME NEW m \in Messages, ioSend(m) PROVE BoolTypes'
  <2>1. /\ sendInLoop(m, ioQueue) /\ used' = used \cup {m}
        /\ UNCHANGED <<state_, revents_, inMessage, baseQueue, server, user,
                       shut, peer, inbound, seen>>
    BY <1>13 DEF ioSend
  <2> QED
    BY <1>1, <2>1, SendFacts DEF QueueTypes
<1>14. CASE ioShutdown \/ ioForceClose
  BY <1>1, <1>14 DEF ioShutdown, ioForceClose, shutdownInLoop, States
<1>15. CASE UserCall
  BY <1>1, <1>15
     DEF UserCall, userSend, userShutdown, userForceClose, userDrop, States
<1>16. CASE userSetState \/ userPush
  BY <1>1, <1>16 DEF userSetState, userPush, States
<1>17. CASE UNCHANGED vars
  BY <1>1, <1>17 DEF vars
<1> QED
  BY <1>2, <1>3, <1>4, <1>5, <1>6, <1>7, <1>8, <1>9, <1>10, <1>11, <1>12,
     <1>13, <1>14, <1>15, <1>16, <1>17
     DEF Next, Base, Functor, Event, IoCall, UserRest

\* A functor that runs was posted by newConnection() or later.  Only
\* connectEstablished() can run while the connection is being set up, and
\* the two functors of its life are gone from the queue once they run.
LEMMA RunFacts ==
  ASSUME IInv, NEW name, Runs(name)
  PROVE  /\ ioQueue \in Seq(Functors) /\ ioQueue # <<>>
         /\ Tail(ioQueue) \in Seq(Functors)
         /\ state_ # "unborn" /\ fault = "none" /\ revents_ = {} /\ ~inMessage
         /\ Once(Tail(ioQueue), Establish) /\ Once(Tail(ioQueue), Destroy)
         /\ Establish \notin Range(Tail(ioQueue))
         /\ name = "connectEstablished" <=> state_ = "kConnecting"
         /\ IF name = "connectDestroyed"
              THEN /\ Destroy \in Range(ioQueue)
                   /\ Destroy \notin Range(Tail(ioQueue))
              ELSE Destroy \in Range(Tail(ioQueue))
                     <=> Destroy \in Range(ioQueue)
<1>1. /\ ioQueue \in Seq(Functors) /\ ioQueue # <<>>
      /\ Head(ioQueue)[1] = name
      /\ fault = "none" /\ revents_ = {} /\ ~inMessage
  BY DEF IInv, TypeInv, QueueTypes, Runs, Between
<1>2. QueueInv
  BY DEF IInv
<1>3. state_ # "unborn"
  BY <1>1, <1>2 DEF QueueInv
<1>4. /\ name = "connectEstablished" <=> Head(ioQueue) = Establish
      /\ name = "connectDestroyed" <=> Head(ioQueue) = Destroy
  BY <1>1, PopFacts, FunctorNames
<1>5. name = "connectEstablished" <=> state_ = "kConnecting"
  BY <1>1, <1>2, <1>4, PopFacts DEF QueueInv
<1>6. Establish \notin Range(Tail(ioQueue))
  <2>1. CASE state_ = "kConnecting"
    BY <1>1, <1>2, <1>4, <1>5, <2>1, PopFacts DEF QueueInv
  <2>2. CASE state_ # "kConnecting"
    BY <1>1, <1>2, <2>2, PopFacts DEF QueueInv
  <2> QED
    BY <2>1, <2>2
<1>7. Once(Tail(ioQueue), Establish) /\ Once(Tail(ioQueue), Destroy)
  BY <1>1, <1>2, PopFacts DEF QueueInv
<1>8. IF name = "connectDestroyed"
        THEN Destroy \in Range(ioQueue) /\ Destroy \notin Range(Tail(ioQueue))
        ELSE Destroy \in Range(Tail(ioQueue)) <=> Destroy \in Range(ioQueue)
  BY <1>1, <1>2, <1>4, PopFacts DEF QueueInv
<1> QED
  BY <1>1, <1>3, <1>5, <1>6, <1>7, <1>8, PopFacts

\* After connectEstablished() ran
Late == state_ \notin {"unborn", "kConnecting"}

\* QueueInv after a step that leaves the queue and the map alone.
LEMMA QueueCalm ==
  ASSUME QueueInv, UNCHANGED <<ioQueue, connections_, serverAlive>>,
         state_' = state_ \/ (Late /\ Late')
  PROVE  QueueInv'
BY DEF QueueInv, Late

\* QueueInv after a step of an established connection that leaves the map
\* alone and posts or runs functors other than the two of its life.
LEMMA QueueOther ==
  ASSUME IInv, UNCHANGED <<connections_, serverAlive>>, Late, Late',
         Once(ioQueue', Establish), Once(ioQueue', Destroy),
         Establish \in Range(ioQueue') => Establish \in Range(ioQueue),
         Destroy \in Range(ioQueue') => Destroy \in Range(ioQueue)
  PROVE  QueueInv'
<1>1. QueueInv
  BY DEF IInv
<1> QED
  BY <1>1 DEF QueueInv, Late

\* Neither functor of the connection's life is posted twice.
LEMMA QueueStep == IInv /\ [Next]_vars => QueueInv'
<1> SUFFICES ASSUME IInv, [Next]_vars PROVE QueueInv'
  OBVIOUS
<1>1. /\ QueueInv /\ ioQueue \in Seq(Functors)
      /\ Once(ioQueue, Establish) /\ Once(ioQueue, Destroy)
  BY DEF IInv, TypeInv, QueueTypes, QueueInv
<1>2. CASE Kernel
  BY <1>1, <1>2, QueueCalm DEF Kernel, PeerSends, PeerCloses, PeerResets
<1>3. CASE newConnection
  <2>1. /\ ioQueue = <<>> /\ state_ = "unborn"
        /\ ioQueue' = Append(ioQueue, Establish)
        /\ state_' = "kConnecting" /\ connections_' = TRUE
    BY <1>1, <1>3 DEF newConnection, QueueInv, Establish
  <2>2. Range(ioQueue) = {}
    BY <2>1 DEF Range
  <2>3. /\ Range(ioQueue') = {Establish} /\ Head(ioQueue') = Establish
        /\ Once(ioQueue', Establish) /\ Once(ioQueue', Destroy)
    BY <1>1, <2>1, <2>2, PushFacts, FunctorNames
  <2> QED
    BY <2>1, <2>3, FunctorNames DEF QueueInv
<1>4. CASE removeConnectionInLoop \/ destroyServer
  <2>1. CASE connections_
    <3>1. /\ ioQueue' = Append(ioQueue, Destroy) /\ ~connections_'
          /\ state_' = state_ /\ state_ # "unborn"
      BY <1>1, <1>4, <2>1
         DEF removeConnectionInLoop, destroyServer, postDestroy, Destroy,
             QueueInv
    <3>2. Destroy \notin Range(ioQueue)
      BY <1>1, <2>1 DEF QueueInv
    <3>3. /\ Range(ioQueue') = Range(ioQueue) \cup {Destroy}
          /\ Once(ioQueue', Establish) /\ Once(ioQueue', Destroy)
      BY <1>1, <3>1, <3>2, PushFacts, FunctorNames
    <3>4. state_ = "kConnecting" => Head(ioQueue') = Head(ioQueue)
      <4>1. Range(<<>>) = {}
        BY DEF Range
      <4> QED
        BY <1>1, <3>1, <4>1, PushFacts, FunctorNames DEF QueueInv
    <3> QED
      BY <1>1, <3>1, <3>3, <3>4, FunctorNames DEF QueueInv
  <2>2. CASE ~connections_
    BY <1>1, <1>4, <2>2, QueueCalm DEF removeConnectionInLoop, destroyServer
  <2> QED
    BY <2>1, <2>2
<1>5. CASE connectEstablished
  <2>1. /\ state_ = "kConnecting" /\ ioQueue' = Tail(ioQueue)
        /\ state_' = "kConnected"
        /\ UNCHANGED <<connections_, serverAlive>>
    BY <1>5, RunFacts DEF connectEstablished
  <2>2. /\ Once(ioQueue', Establish) /\ Once(ioQueue', Destroy)
        /\ Establish \notin Range(ioQueue')
        /\ Destroy \in Range(ioQueue') <=> Destroy \in Range(ioQueue)
    BY <1>5, <2>1, RunFacts DEF connectEstablished
  <2> QED
    BY <1>1, <2>1, <2>2 DEF QueueInv
<1>6. CASE connectDestroyed
  <2>1. Late /\ ioQueue' = Tail(ioQueue) /\ UNCHANGED <<connections_, serverAlive>>
    BY <1>6, RunFacts DEF connectDestroyed, Late
  <2>2. Late'
    BY <1>6, <2>1 DEF connectDestroyed, Late
  <2>3. /\ Once(ioQueue', Establish) /\ Once(ioQueue', Destroy)
        /\ Establish \notin Range(ioQueue') /\ Destroy \notin Range(ioQueue')
    BY <1>6, <2>1, RunFacts DEF connectDestroyed
  <2> QED
    BY <2>1, <2>2, <2>3, QueueOther
<1>7. CASE forceCloseInLoop \/ writeComplete \/ queuedShutdown
  <2>1. PICK name \in {"forceCloseInLoop", "writeComplete",
                       "shutdownInLoop"} : Runs(name)
    BY <1>7 DEF forceCloseInLoop, writeComplete, queuedShutdown
  <2>2. Late /\ ioQueue' = Tail(ioQueue) /\ UNCHANGED <<connections_, serverAlive>>
    BY <1>7, <2>1, RunFacts
       DEF forceCloseInLoop, writeComplete, queuedShutdown, Late
  <2>3. Late'
    BY <1>7, <2>2, CloseFacts
       DEF forceCloseInLoop, writeComplete, queuedShutdown, Late
  <2>4. /\ Once(ioQueue', Establish) /\ Once(ioQueue', Destroy)
        /\ Establish \notin Range(ioQueue')
        /\ Destroy \in Range(ioQueue') => Destroy \in Range(ioQueue)
    BY <2>1, <2>2, RunFacts
  <2> QED
    BY <2>2, <2>3, <2>4, QueueOther
<1>8. CASE queuedSend
  <2>1. Runs("sendInLoop")
    BY <1>8 DEF queuedSend
  <2>2. /\ Late /\ Late' /\ UNCHANGED <<connections_, serverAlive>>
    BY <1>8, <2>1, RunFacts DEF queuedSend, Late
  <2>3. Tail(ioQueue) \in Seq(Functors) /\ Head(ioQueue)[2] \in Messages
    BY <1>1, <2>1, RunFacts, PopFacts, FunctorNames DEF Runs
  <2>4. ioQueue' \in {Tail(ioQueue),
                      Append(Tail(ioQueue), <<"writeComplete">>)}
    BY <1>8, <2>3, SendFacts DEF queuedSend, IInv
  <2>5. /\ Once(Tail(ioQueue), Establish) /\ Once(Tail(ioQueue), Destroy)
        /\ Establish \notin Range(Tail(ioQueue))
        /\ Destroy \in Range(Tail(ioQueue)) => Destroy \in Range(ioQueue)
    BY <2>1, RunFacts
  <2>6. /\ Once(ioQueue', Establish) /\ Once(ioQueue', Destroy)
        /\ Establish \notin Range(ioQueue')
        /\ Destroy \in Range(ioQueue') => Destroy \in Range(ioQueue)
    <3> DEFINE q == Tail(ioQueue)
    <3>1. q \in Seq(Functors)
      BY <2>3
    <3>2. ioQueue' \in {q, Append(q, <<"writeComplete">>)}
      BY <2>4
    <3>3. /\ Once(q, Establish) /\ Once(q, Destroy)
          /\ Establish \notin Range(q)
          /\ Destroy \in Range(q) => Destroy \in Range(ioQueue)
      BY <2>5
    <3> HIDE DEF q
    <3>4. \A g \in {Establish, Destroy} :
            /\ g \in Range(ioQueue') <=> g \in Range(q)
            /\ Once(q, g) => Once(ioQueue', g)
      BY <3>1, <3>2, CompleteFacts
    <3> QED
      BY <3>3, <3>4
  <2> QED
    BY <2>2, <2>6, QueueOther
<1>9. CASE handleWrite \/ (\E m \in Messages : ioSend(m))
  <2>1. /\ Late /\ Late' /\ UNCHANGED <<connections_, serverAlive>>
    BY <1>9 DEF handleWrite, ioSend, Late, IInv, LifeInv, EarlyInv
  <2>2. ioQueue' \in {ioQueue, Append(ioQueue, <<"writeComplete">>)}
    BY <1>1, <1>9, WriteFacts, SendFacts DEF ioSend, IInv
  <2> QED
    BY <1>1, <2>1, <2>2, CompleteFacts, QueueOther
<1>10. CASE HandleMessage \/ MessageReturns \/ HandleReadError
            \/ (\E room \in BOOLEAN : PollReturn(room))
  BY <1>1, <1>10, QueueCalm
     DEF HandleMessage, MessageReturns, HandleReadError, PollReturn
<1>11. CASE HandleClose
  <2>1. state_' = state_ \/ (Late /\ Late')
    BY <1>11, CloseFacts DEF HandleClose, Late, closable
  <2> QED
    BY <1>1, <1>11, <2>1, QueueCalm DEF HandleClose
<1>12. CASE ioShutdown
  BY <1>1, <1>12, QueueCalm DEF ioShutdown, Late
<1>13. CASE ioForceClose
  <2>1. /\ Late /\ Late' /\ UNCHANGED <<connections_, serverAlive>>
        /\ ioQueue' = Append(ioQueue, <<"forceCloseInLoop">>)
    BY <1>13 DEF ioForceClose, Late
  <2> QED
    BY <1>1, <2>1, PushFacts, FunctorNames, QueueOther
<1>14. CASE UserCall
  BY <1>1, <1>14, QueueCalm
     DEF UserCall, userSend, userShutdown, userForceClose, userDrop, Late
<1>15. CASE userSetState
  <2>1. Late
    BY <1>15 DEF userSetState, Late, IInv, EarlyInv
  <2>2. Late' /\ UNCHANGED <<ioQueue, connections_, serverAlive>>
    BY <1>15 DEF userSetState, Late
  <2> QED
    BY <1>1, <2>1, <2>2, QueueCalm
<1>16. CASE userPush
  <2>1. userPc # <<"idle">> /\ userPc \in Functors
        /\ userPc # Establish /\ userPc # Destroy
    <3>1. <<"idle">> \notin Functors /\ <<"setState">> \notin Functors
      BY DEF Functors, Owning, Borrowing
    <3>2. /\ userPc \in Functors
          /\ userPc \in {<<"idle">>, <<"setState">>, <<"forceCloseInLoop">>}
                          \cup Borrowing
      BY <1>16 DEF userPush, IInv, TypeInv, QueueTypes, Functors
    <3>3. userPc \in {<<"forceCloseInLoop">>} \cup Borrowing
      BY <3>1, <3>2
    <3> QED
      BY <3>1, <3>2, <3>3, FunctorNames
  <2>2. /\ Late /\ Late' /\ UNCHANGED <<connections_, serverAlive>>
        /\ ioQueue' = Append(ioQueue, userPc)
    BY <1>16, <2>1 DEF userPush, Late, IInv, EarlyInv
  <2> QED
    BY <1>1, <2>1, <2>2, PushFacts, QueueOther
<1>17. CASE UNCHANGED vars
  BY <1>1, <1>17, QueueCalm DEF vars
<1> QED
  BY <1>2, <1>3, <1>4, <1>5, <1>6, <1>7, <1>8, <1>9, <1>10, <1>11, <1>12,
     <1>13, <1>14, <1>15, <1>16, <1>17
     DEF Next, Base, Functor, Event, IoCall, UserRest

\* The callbacks keep their order, and what poll() reported is handled before
\* the Channel leaves the poller.
LEMMA LifeStep == IInv /\ [Next]_vars => LifeInv'
<1> SUFFICES ASSUME IInv, [Next]_vars PROVE LifeInv'
  OBVIOUS
<1>1. /\ LifeInv /\ EarlyInv /\ UpInv /\ DownInv
      /\ QueueTypes /\ EnumTypes /\ BoolTypes
  BY DEF IInv, TypeInv
<1> USE DEF LifeInv, EarlyInv, UpInv, DownInv
<1>2. CASE Kernel
  BY <1>1, <1>2 DEF Kernel, PeerSends, PeerCloses, PeerResets
<1>3. CASE newConnection
  BY <1>1, <1>3 DEF newConnection
<1>4. CASE removeConnectionInLoop \/ destroyServer
  BY <1>1, <1>4 DEF removeConnectionInLoop, destroyServer, IInv, QueueInv
<1>5. CASE connectEstablished
  BY <1>1, <1>5, RunFacts
     DEF connectEstablished, update, callUp
<1>6. CASE connectDestroyed
  BY <1>1, <1>6, RunFacts
     DEF connectDestroyed, stillUp, CanRemove, remove, callDown
<1>7. CASE forceCloseInLoop
  BY <1>1, <1>7, RunFacts, CloseFacts DEF forceCloseInLoop
<1>8. CASE writeComplete \/ queuedShutdown
  BY <1>1, <1>8 DEF writeComplete, queuedShutdown
<1>9. CASE queuedSend
  <2>1. CASE Freed
    BY <1>1, <1>9, <2>1 DEF queuedSend
  <2>2. CASE ~Freed
    <3>1. /\ Tail(ioQueue) \in Seq(Functors)
          /\ Head(ioQueue)[2] \in Messages
          /\ state_ # "unborn" /\ state_ # "kConnecting"
      BY <1>1, <1>9, RunFacts, PopFacts, FunctorNames
         DEF queuedSend, Runs, QueueTypes
    <3>2. sendInLoop(Head(ioQueue)[2], Tail(ioQueue)) /\ TypeInv
      BY <1>9, <2>2 DEF queuedSend, IInv
    <3>3. UNCHANGED <<state_, revents_, inMessage, baseQueue, server, user,
                      shut, peer, inbound, used, seen>>
      BY <1>9 DEF queuedSend
    <3> QED
      BY <1>1, <3>1, <3>2, <3>3, SendFacts
  <2> QED
    BY <2>1, <2>2
<1>10. CASE \E room \in BOOLEAN : PollReturn(room)
  BY <1>1, <1>10 DEF PollReturn, Between
<1>11. CASE HandleMessage
  BY <1>1, <1>11 DEF HandleMessage, Handling, RestOfEvents, callMessage
<1>12. CASE MessageReturns \/ HandleReadError
  BY <1>1, <1>12 DEF MessageReturns, HandleReadError, RestOfEvents
<1>13. CASE HandleClose
  BY <1>1, <1>13, CloseFacts DEF HandleClose, RestOfEvents
<1>14. CASE handleWrite
  <2>1. /\ UNCHANGED <<state_, inMessage, sent, baseQueue, server, user,
                       peer, inbound, used, seen>>
        /\ revents_' = {} /\ revents_ # {}
    BY <1>14 DEF handleWrite
  <2>2. TypeInv
    BY DEF IInv
  <2> QED
    BY <1>1, <1>14, <2>1, <2>2, WriteFacts DEF update, isWriting
<1>15. ASSUME NEW m \in Messages, ioSend(m) PROVE LifeInv'
  <2>1. /\ sendInLoop(m, ioQueue) /\ state_ = "kConnected"
        /\ UNCHANGED <<state_, revents_, inMessage, baseQueue, server, user,
                       shut, peer, inbound, seen>>
    BY <1>15 DEF ioSend
  <2>2. TypeInv
    BY DEF IInv
  <2> QED
    BY <1>1, <2>1, <2>2, SendFacts DEF QueueTypes
<1>16. CASE ioShutdown \/ ioForceClose
  BY <1>1, <1>16 DEF ioShutdown, ioForceClose
<1>17. CASE UserCall
  BY <1>1, <1>17
     DEF UserCall, userSend, userShutdown, userForceClose, userDrop,
         InUserThread
<1>18. CASE userSetState \/ userPush
  BY <1>1, <1>18 DEF userSetState, userPush
<1>19. CASE UNCHANGED vars
  BY <1>1, <1>19 DEF vars
<1> QED
  BY <1>2, <1>3, <1>4, <1>5, <1>6, <1>7, <1>8, <1>9, <1>10, <1>11, <1>12,
     <1>13, <1>14, <1>15, <1>16, <1>17, <1>18, <1>19
     DEF Next, Base, Functor, Event, IoCall, UserRest

\* Nothing but ~TcpServer touches the connection before it is established.
LEMMA EarlyStep == IInv /\ [Next]_vars => EarlyInv'
<1> SUFFICES ASSUME IInv, [Next]_vars PROVE EarlyInv'
  OBVIOUS
<1>1. /\ LifeInv /\ EarlyInv /\ UpInv /\ DownInv
      /\ QueueTypes /\ EnumTypes /\ BoolTypes
  BY DEF IInv, TypeInv
<1> USE DEF LifeInv, EarlyInv
<1>2. CASE Kernel
  BY <1>1, <1>2 DEF Kernel, PeerSends, PeerCloses, PeerResets
<1>3. CASE newConnection
  BY <1>1, <1>3 DEF newConnection
<1>4. CASE removeConnectionInLoop \/ destroyServer
  BY <1>1, <1>4 DEF removeConnectionInLoop, destroyServer, IInv, QueueInv
<1>5. CASE connectEstablished
  BY <1>1, <1>5, RunFacts
     DEF connectEstablished, update, callUp
<1>6. CASE connectDestroyed
  BY <1>1, <1>6, RunFacts
     DEF connectDestroyed, stillUp, CanRemove, remove, callDown
<1>7. CASE forceCloseInLoop
  BY <1>1, <1>7, RunFacts, CloseFacts DEF forceCloseInLoop
<1>8. CASE writeComplete \/ queuedShutdown
  BY <1>1, <1>8 DEF writeComplete, queuedShutdown
<1>9. CASE queuedSend
  <2>1. CASE Freed
    BY <1>1, <1>9, <2>1 DEF queuedSend
  <2>2. CASE ~Freed
    <3>1. /\ Tail(ioQueue) \in Seq(Functors)
          /\ Head(ioQueue)[2] \in Messages
          /\ state_ # "unborn" /\ state_ # "kConnecting"
      BY <1>1, <1>9, RunFacts, PopFacts, FunctorNames
         DEF queuedSend, Runs, QueueTypes
    <3>2. sendInLoop(Head(ioQueue)[2], Tail(ioQueue)) /\ TypeInv
      BY <1>9, <2>2 DEF queuedSend, IInv
    <3>3. UNCHANGED <<state_, revents_, inMessage, baseQueue, server, user,
                      shut, peer, inbound, used, seen>>
      BY <1>9 DEF queuedSend
    <3> QED
      BY <1>1, <3>1, <3>2, <3>3, SendFacts
  <2> QED
    BY <2>1, <2>2
<1>10. CASE \E room \in BOOLEAN : PollReturn(room)
  BY <1>1, <1>10 DEF PollReturn, Between
<1>11. CASE HandleMessage
  BY <1>1, <1>11 DEF HandleMessage, Handling, RestOfEvents, callMessage
<1>12. CASE MessageReturns \/ HandleReadError
  BY <1>1, <1>12 DEF MessageReturns, HandleReadError, RestOfEvents
<1>13. CASE HandleClose
  BY <1>1, <1>13, CloseFacts DEF HandleClose, RestOfEvents
<1>14. CASE handleWrite
  <2>1. /\ UNCHANGED <<state_, inMessage, sent, baseQueue, server, user,
                       peer, inbound, used, seen>>
        /\ revents_' = {} /\ revents_ # {}
    BY <1>14 DEF handleWrite
  <2>2. TypeInv
    BY DEF IInv
  <2> QED
    BY <1>1, <1>14, <2>1, <2>2, WriteFacts DEF update, isWriting
<1>15. ASSUME NEW m \in Messages, ioSend(m) PROVE EarlyInv'
  <2>1. /\ sendInLoop(m, ioQueue) /\ state_ = "kConnected"
        /\ UNCHANGED <<state_, revents_, inMessage, baseQueue, server, user,
                       shut, peer, inbound, seen>>
    BY <1>15 DEF ioSend
  <2>2. TypeInv
    BY DEF IInv
  <2> QED
    BY <1>1, <2>1, <2>2, SendFacts DEF QueueTypes
<1>16. CASE ioShutdown \/ ioForceClose
  BY <1>1, <1>16 DEF ioShutdown, ioForceClose
<1>17. CASE UserCall
  BY <1>1, <1>17
     DEF UserCall, userSend, userShutdown, userForceClose, userDrop,
         InUserThread
<1>18. CASE userSetState \/ userPush
  BY <1>1, <1>18 DEF userSetState, userPush
<1>19. CASE UNCHANGED vars
  BY <1>1, <1>19 DEF vars
<1> QED
  BY <1>2, <1>3, <1>4, <1>5, <1>6, <1>7, <1>8, <1>9, <1>10, <1>11, <1>12,
     <1>13, <1>14, <1>15, <1>16, <1>17, <1>18, <1>19
     DEF Next, Base, Functor, Event, IoCall, UserRest

\* Between UP and DOWN the Channel stays in the poller, watched for input, and
\* for output exactly while something is buffered.
LEMMA UpStep == IInv /\ [Next]_vars => UpInv'
<1> SUFFICES ASSUME IInv, [Next]_vars PROVE UpInv'
  OBVIOUS
<1>1. /\ LifeInv /\ EarlyInv /\ UpInv /\ DownInv
      /\ QueueTypes /\ EnumTypes /\ BoolTypes
  BY DEF IInv, TypeInv
<1> USE DEF LifeInv, EarlyInv, UpInv, DownInv, isWriting
<1>2. CASE Kernel
  BY <1>1, <1>2 DEF Kernel, PeerSends, PeerCloses, PeerResets
<1>3. CASE newConnection
  BY <1>1, <1>3 DEF newConnection
<1>4. CASE removeConnectionInLoop \/ destroyServer
  BY <1>1, <1>4 DEF removeConnectionInLoop, destroyServer, IInv, QueueInv
<1>5. CASE connectEstablished
  BY <1>1, <1>5, RunFacts
     DEF connectEstablished, update, callUp
<1>6. CASE connectDestroyed
  BY <1>1, <1>6, RunFacts
     DEF connectDestroyed, stillUp, CanRemove, remove, callDown
<1>7. CASE forceCloseInLoop
  BY <1>1, <1>7, RunFacts, CloseFacts DEF forceCloseInLoop
<1>8. CASE writeComplete \/ queuedShutdown
  BY <1>1, <1>8 DEF writeComplete, queuedShutdown
<1>9. CASE queuedSend
  <2>1. CASE Freed
    BY <1>1, <1>9, <2>1 DEF queuedSend
  <2>2. CASE ~Freed
    <3>1. /\ Tail(ioQueue) \in Seq(Functors)
          /\ Head(ioQueue)[2] \in Messages
          /\ state_ # "unborn" /\ state_ # "kConnecting"
      BY <1>1, <1>9, RunFacts, PopFacts, FunctorNames
         DEF queuedSend, Runs, QueueTypes
    <3>2. sendInLoop(Head(ioQueue)[2], Tail(ioQueue)) /\ TypeInv
      BY <1>9, <2>2 DEF queuedSend, IInv
    <3>3. UNCHANGED <<state_, revents_, inMessage, baseQueue, server, user,
                      shut, peer, inbound, used, seen>>
      BY <1>9 DEF queuedSend
    <3> QED
      BY <1>1, <3>1, <3>2, <3>3, SendFacts
  <2> QED
    BY <2>1, <2>2
<1>10. CASE \E room \in BOOLEAN : PollReturn(room)
  BY <1>1, <1>10 DEF PollReturn, Between
<1>11. CASE HandleMessage
  BY <1>1, <1>11 DEF HandleMessage, Handling, RestOfEvents, callMessage
<1>12. CASE MessageReturns \/ HandleReadError
  BY <1>1, <1>12 DEF MessageReturns, HandleReadError, RestOfEvents
<1>13. CASE HandleClose
  BY <1>1, <1>13, CloseFacts DEF HandleClose, RestOfEvents
<1>14. CASE handleWrite
  <2>1. /\ UNCHANGED <<state_, inMessage, sent, baseQueue, server, user,
                       peer, inbound, used, seen>>
        /\ revents_' = {} /\ revents_ # {}
    BY <1>14 DEF handleWrite
  <2>2. TypeInv
    BY DEF IInv
  <2> QED
    <3>1. CASE UNCHANGED channel
      BY <1>1, <1>14, <2>1, <2>2, <3>1, WriteFacts
    <3>2. CASE update(events_ \ {"OUT"})
      <4>1. ASSUME seen = "up"
            PROVE  /\ "IN" \in events_' /\ index_' = "kAdded"
                   /\ addedToLoop_' = TRUE
        BY <1>1, <3>2, <4>1 DEF update
      <4>2. ASSUME seen = "up" PROVE isWriting' <=> outputBuffer_' # <<>>
        BY <1>1, <1>14, <2>2, <4>2, WriteFacts
      <4> QED
        BY <1>1, <2>1, <4>1, <4>2
    <3> QED
      BY <1>14, <2>2, <3>1, <3>2, WriteFacts
<1>15. ASSUME NEW m \in Messages, ioSend(m) PROVE UpInv'
  <2>1. /\ sendInLoop(m, ioQueue) /\ state_ = "kConnected"
        /\ UNCHANGED <<state_, revents_, inMessage, baseQueue, server, user,
                       shut, peer, inbound, seen>>
    BY <1>15 DEF ioSend
  <2>2. TypeInv
    BY DEF IInv
  <2> QED
    BY <1>1, <2>1, <2>2, SendFacts DEF QueueTypes
<1>16. CASE ioShutdown \/ ioForceClose
  BY <1>1, <1>16 DEF ioShutdown, ioForceClose
<1>17. CASE UserCall
  BY <1>1, <1>17
     DEF UserCall, userSend, userShutdown, userForceClose, userDrop,
         InUserThread
<1>18. CASE userSetState \/ userPush
  BY <1>1, <1>18 DEF userSetState, userPush
<1>19. CASE UNCHANGED vars
  BY <1>1, <1>19 DEF vars
<1> QED
  BY <1>2, <1>3, <1>4, <1>5, <1>6, <1>7, <1>8, <1>9, <1>10, <1>11, <1>12,
     <1>13, <1>14, <1>15, <1>16, <1>17, <1>18, <1>19
     DEF Next, Base, Functor, Event, IoCall, UserRest

\* connectDestroyed() is posted where the connection leaves the map and taken
\* where it runs; nothing else touches it.
DestroyStays ==
  /\ Destroy \in Range(ioQueue') <=> Destroy \in Range(ioQueue)
  /\ UNCHANGED <<connections_, serverAlive>>

LEMMA DestroySteps ==
  ASSUME IInv, [Next]_vars
  PROVE  \/ newConnection \/ removeConnectionInLoop \/ destroyServer
         \/ connectDestroyed \/ DestroyStays
<1>1. ioQueue \in Seq(Functors) /\ TypeInv
  BY DEF IInv, TypeInv, QueueTypes
<1> USE DEF DestroyStays
<1>2. CASE Kernel
  BY <1>2 DEF Kernel, PeerSends, PeerCloses, PeerResets
<1>3. CASE connectEstablished \/ forceCloseInLoop \/ writeComplete
           \/ queuedShutdown
  <2>1. PICK name \in {"connectEstablished", "forceCloseInLoop",
                       "writeComplete", "shutdownInLoop"} : Runs(name)
    BY <1>3 DEF connectEstablished, forceCloseInLoop, writeComplete,
                queuedShutdown
  <2>2. Destroy \in Range(Tail(ioQueue)) <=> Destroy \in Range(ioQueue)
    BY <2>1, RunFacts
  <2> QED
    BY <1>3, <2>2 DEF connectEstablished, forceCloseInLoop, writeComplete,
                      queuedShutdown
<1>4. CASE queuedSend
  <2> DEFINE q == Tail(ioQueue)
  <2>1. /\ q \in Seq(Functors) /\ Head(ioQueue)[2] \in Messages
        /\ Destroy \in Range(q) <=> Destroy \in Range(ioQueue)
    BY <1>1, <1>4, RunFacts, PopFacts, FunctorNames DEF queuedSend, Runs
  <2>2. ioQueue' \in {q, Append(q, <<"writeComplete">>)}
    BY <1>1, <1>4, <2>1, SendFacts DEF queuedSend
  <2> HIDE DEF q
  <2>3. Destroy \in Range(ioQueue') <=> Destroy \in Range(q)
    BY <2>1, <2>2, CompleteFacts
  <2> QED
    BY <1>4, <2>1, <2>3 DEF queuedSend
<1>5. CASE handleWrite \/ (\E m \in Messages : ioSend(m))
  <2>1. ioQueue' \in {ioQueue, Append(ioQueue, <<"writeComplete">>)}
    BY <1>1, <1>5, WriteFacts, SendFacts DEF ioSend
  <2>2. Destroy \in Range(ioQueue') <=> Destroy \in Range(ioQueue)
    BY <1>1, <2>1, CompleteFacts
  <2> QED
    BY <1>5, <2>2 DEF handleWrite, ioSend
<1>6. CASE HandleMessage \/ MessageReturns \/ HandleReadError \/ HandleClose
           \/ (\E room \in BOOLEAN : PollReturn(room))
  BY <1>6 DEF HandleMessage, MessageReturns, HandleReadError, HandleClose,
              PollReturn
<1>7. CASE ioShutdown \/ UserCall \/ userSetState
  BY <1>7 DEF ioShutdown, UserCall, userSend, userShutdown, userForceClose,
              userDrop, userSetState
<1>8. CASE ioForceClose
  BY <1>1, <1>8, PushFacts, FunctorNames DEF ioForceClose
<1>9. CASE userPush
  <2>1. <<"idle">> \notin Functors /\ <<"setState">> \notin Functors
    BY DEF Functors, Owning, Borrowing
  <2>2. /\ userPc \in Functors
        /\ userPc \in {<<"idle">>, <<"setState">>, <<"forceCloseInLoop">>}
                        \cup Borrowing
    BY <1>1, <1>9 DEF userPush, TypeInv, QueueTypes, Functors
  <2>3. userPc # Destroy
    BY <2>1, <2>2, FunctorNames
  <2> QED
    BY <1>1, <1>9, <2>2, <2>3, PushFacts DEF userPush
<1>10. CASE UNCHANGED vars
  BY <1>10 DEF vars
<1> QED
  BY <1>2, <1>3, <1>4, <1>5, <1>6, <1>7, <1>8, <1>9, <1>10
     DEF Next, Base, Functor, Event, IoCall, UserRest

\* Whatever the order of DOWN, of removal from the map and of ~TcpServer,
\* connectDestroyed() is what takes the Channel out of the poller, once.
LEMMA DownOwnerStep == IInv /\ [Next]_vars => DownInv' /\ OwnerInv'
<1> SUFFICES ASSUME IInv, [Next]_vars PROVE DownInv' /\ OwnerInv'
  OBVIOUS
<1>1. /\ LifeInv /\ EarlyInv /\ UpInv /\ DownInv /\ OwnerInv /\ QueueInv
      /\ QueueTypes /\ EnumTypes /\ BoolTypes
  BY DEF IInv, TypeInv
<1> USE DEF LifeInv, EarlyInv, UpInv, DownInv, OwnerInv
<1>2. CASE newConnection
  <2>1. /\ connections_' = TRUE /\ UNCHANGED <<seen, baseQueue>>
        /\ seen = "nothing"
    BY <1>1, <1>2 DEF newConnection
  <2> QED
    BY <2>1
<1>3. CASE removeConnectionInLoop
  <2>1. /\ connections_ /\ seen = "down" /\ serverAlive
        /\ index_ = "kDeleted"
    BY <1>1, <1>3 DEF removeConnectionInLoop
  <2>2. /\ ioQueue' = Append(ioQueue, Destroy) /\ connections_' = FALSE
        /\ baseQueue' = Tail(baseQueue)
        /\ UNCHANGED <<state_, channel, revents_, seen, serverAlive>>
    BY <1>3, <2>1 DEF removeConnectionInLoop, postDestroy, Destroy
  <2>3. Destroy \in Range(ioQueue')
    BY <1>1, <2>2, PushFacts, FunctorNames DEF QueueTypes
  <2>4. Tail(<<<<"removeConnectionInLoop">>>>) = <<>>
    OBVIOUS
  <2>5. baseQueue' = <<>>
    BY <1>1, <1>3, <2>2, <2>4 DEF removeConnectionInLoop, QueueTypes
  <2> QED
    BY <1>1, <2>1, <2>2, <2>3, <2>5
<1>4. CASE destroyServer
  <2>1. /\ connections_ /\ ioQueue' = Append(ioQueue, Destroy)
        /\ connections_' = FALSE /\ serverAlive' = FALSE
        /\ UNCHANGED <<state_, channel, revents_, seen>>
    BY <1>4 DEF destroyServer, postDestroy, Destroy
  <2>2. Destroy \in Range(ioQueue')
    BY <1>1, <2>1, PushFacts, FunctorNames DEF QueueTypes
  <2> QED
    BY <1>1, <2>1, <2>2
<1>5. CASE connectDestroyed
  <2>1. /\ Destroy \in Range(ioQueue) /\ Destroy \notin Range(ioQueue')
        /\ UNCHANGED <<connections_, serverAlive, baseQueue, revents_>>
        /\ revents_ = {} /\ ~connections_
        /\ state_ # "unborn" /\ state_ # "kConnecting"
    BY <1>1, <1>5, RunFacts DEF connectDestroyed, QueueInv
  <2>2. CASE stillUp
    BY <1>1, <1>5, <2>1, <2>2 DEF connectDestroyed, stillUp, callDown
  <2>3. CASE ~stillUp /\ CanRemove
    <3>1. seen = "down"
      BY <1>1, <2>1, <2>3 DEF CanRemove
    <3> QED
      BY <1>1, <1>5, <2>1, <2>3, <3>1 DEF connectDestroyed, remove
  <2>4. CASE ~stillUp /\ ~CanRemove
    <3>1. fault' = "assert" /\ UNCHANGED <<state_, channel, seen>>
      BY <1>5, <2>4 DEF connectDestroyed, dies
    <3>2. seen # "down"
      BY <1>1, <2>1, <2>4 DEF CanRemove
    <3> QED
      BY <1>1, <2>1, <3>1, <3>2
  <2> QED
    BY <2>2, <2>3, <2>4
<1>6. CASE DestroyStays
  <2>1. /\ Destroy \in Range(ioQueue') <=> Destroy \in Range(ioQueue)
        /\ UNCHANGED <<connections_, serverAlive>>
    BY <1>6 DEF DestroyStays
  <2>2. CASE Kernel
    BY <1>1, <2>1, <2>2 DEF Kernel, PeerSends, PeerCloses, PeerResets
  <2>3. CASE connectEstablished
    BY <1>1, <2>1, <2>3, RunFacts DEF connectEstablished, callUp
  <2>4. ASSUME handleClose, fault = "none",
               revents_' = {} \/ revents_' = revents_ \cap {"OUT"}
        PROVE  DownInv' /\ OwnerInv'
    <3>1. CASE closable
      <4>1. /\ seen = "up" /\ seen' = "down" /\ state_' = "kDisconnected"
            /\ events_' = {} /\ index_' = "kDeleted"
            /\ baseQueue' = <<<<"removeConnectionInLoop">>>>
        BY <2>4, <3>1, CloseFacts
      <4>2. state_ # "unborn"
        BY <3>1 DEF closable
      <4>3. connections_ \/ Destroy \in Range(ioQueue)
        BY <1>1, <2>4, <4>1, <4>2
      <4>4. serverAlive => connections_
        BY <1>1, <4>1, <4>2
      <4> QED
        BY <2>1, <2>4, <4>1, <4>3, <4>4
    <3>2. CASE ~closable
      <4>1. fault' = "assert" /\ UNCHANGED <<state_, channel, seen, baseQueue>>
        BY <2>4, <3>2, CloseFacts
      <4> QED
        BY <1>1, <2>1, <2>4, <4>1
    <3> QED
      BY <3>1, <3>2
  <2>5. CASE forceCloseInLoop
    <3>1. fault = "none" /\ revents_ = {} /\ revents_' = revents_
      BY <2>5, RunFacts DEF forceCloseInLoop
    <3>2. CASE handleClose
      BY <2>4, <3>1, <3>2
    <3>3. CASE UNCHANGED <<state_, channel, seen, baseQueue, fault>>
      BY <1>1, <2>1, <3>1, <3>3
    <3> QED
      BY <2>5, <3>2, <3>3 DEF forceCloseInLoop
  <2>6. CASE writeComplete \/ queuedShutdown
    BY <1>1, <2>1, <2>6, RunFacts DEF writeComplete, queuedShutdown
  <2>7. CASE queuedSend
    <3>1. CASE Freed
      BY <1>1, <2>1, <2>7, <3>1, RunFacts DEF queuedSend
    <3>2. CASE ~Freed
      <4>1. /\ Tail(ioQueue) \in Seq(Functors)
            /\ Head(ioQueue)[2] \in Messages /\ fault = "none"
        BY <1>1, <2>7, RunFacts, PopFacts, FunctorNames
           DEF queuedSend, Runs, QueueTypes
      <4>2. sendInLoop(Head(ioQueue)[2], Tail(ioQueue)) /\ TypeInv
        BY <2>7, <3>2 DEF queuedSend, IInv
      <4>3. UNCHANGED <<state_, revents_, baseQueue, seen>>
        BY <2>7 DEF queuedSend
      <4>4. state_ = "kDisconnected" => UNCHANGED channel
        BY <4>1, <4>2, SendFacts
      <4> QED
        BY <1>1, <2>1, <4>1, <4>3, <4>4
    <3> QED
      BY <3>1, <3>2
  <2>8. CASE \E room \in BOOLEAN : PollReturn(room)
    BY <1>1, <2>1, <2>8 DEF PollReturn
  <2>9. CASE HandleMessage
    BY <1>1, <2>1, <2>9 DEF HandleMessage, RestOfEvents, callMessage
  <2>10. CASE MessageReturns \/ HandleReadError
    BY <1>1, <2>1, <2>10 DEF MessageReturns, HandleReadError, RestOfEvents
  <2>11. CASE HandleClose
    BY <2>4, <2>11 DEF HandleClose, Handling, RestOfEvents
  <2>12. CASE handleWrite
    <3>1. /\ UNCHANGED <<state_, baseQueue, seen>> /\ revents_' = {}
          /\ fault = "none" /\ TypeInv
      BY <2>12 DEF handleWrite, IInv
    <3> QED
      BY <1>1, <2>1, <2>12, <3>1, WriteFacts DEF isWriting
  <2>13. ASSUME NEW m \in Messages, ioSend(m) PROVE DownInv' /\ OwnerInv'
    <3>1. /\ sendInLoop(m, ioQueue) /\ state_ = "kConnected" /\ TypeInv
          /\ UNCHANGED <<state_, revents_, baseQueue, seen>>
          /\ fault = "none"
      BY <2>13 DEF ioSend, InIoThread, IInv
    <3> QED
      BY <1>1, <2>1, <3>1, SendFacts DEF QueueTypes
  <2>14. CASE ioShutdown \/ ioForceClose
    BY <1>1, <2>1, <2>14 DEF ioShutdown, ioForceClose
  <2>15. CASE UserCall
    BY <1>1, <2>1, <2>15
       DEF UserCall, userSend, userShutdown, userForceClose, userDrop
  <2>16. CASE userSetState \/ userPush
    BY <1>1, <2>1, <2>16 DEF userSetState, userPush
  <2>17. CASE UNCHANGED vars
    BY <1>1, <2>1, <2>17 DEF vars
  <2> QED
    BY <1>2, <1>3, <1>4, <1>5, <2>2, <2>3, <2>5, <2>6, <2>7, <2>8, <2>9,
       <2>10, <2>11, <2>12, <2>13, <2>14, <2>15, <2>16, <2>17
       DEF Next, Base, Functor, Event, IoCall, UserRest
<1> QED
  BY <1>2, <1>3, <1>4, <1>5, <1>6, DestroySteps

\* Nothing runs on a freed connection before the user was told DOWN.
LEMMA FreedIsDown ==
  ASSUME IInv, fault = "none", Freed
  PROVE  /\ seen = "down" /\ ~userRef
         /\ revents_ = {} /\ ~addedToLoop_
<1>1. Destroy \notin Range(ioQueue)
  BY DEF Freed, Owning, Destroy
<1>2. seen = "down" /\ ~userRef /\ ~connections_
  BY <1>1 DEF Freed, IInv, OwnerInv
<1> QED
  BY <1>1, <1>2 DEF IInv, DownInv, LifeInv

\* An assert that handleClose() fails is one of a connection whose state_ a
\* forceClose() has stored.
LEMMA CloseFault ==
  ASSUME IInv, handleClose, fault = "none", seen = "up" \/ closable,
         UNCHANGED <<serverAlive, userRef>>
  PROVE  FaultInv'
<1>1. CASE closable
  <2>1. fault' = "none"
    BY <1>1, CloseFacts
  <2> QED
    BY <2>1 DEF FaultInv
<1>2. CASE ~closable
  <2>1. fault' = "assert" /\ UNCHANGED <<state_, seen>>
    BY <1>2, CloseFacts
  <2>2. state_ = "kDisconnected" /\ seen = "up"
    BY <1>2 DEF IInv, UpInv, closable
  <2> QED
    BY <2>1, <2>2 DEF FaultInv
<1> QED
  BY <1>1, <1>2

\* Each assert and each use of a raw this that can fail has its cause.
LEMMA FaultStep == IInv /\ [Next]_vars => FaultInv'
<1> SUFFICES ASSUME IInv, [Next]_vars PROVE FaultInv'
  OBVIOUS
<1>1. /\ FaultInv /\ LifeInv /\ UpInv /\ DownInv /\ OwnerInv /\ QueueInv
  BY DEF IInv
<1>2. CASE fault' \in {"none", "sigpipe"}
  BY <1>2 DEF FaultInv
<1>3. CASE Kernel
  <2>1. fault = "none" /\ fault' = fault
    BY <1>3 DEF Kernel, PeerSends, PeerCloses, PeerResets
  <2> QED
    BY <1>2, <2>1
<1>4. CASE Base
  <2>1. removeConnectionInLoop => connections_
    BY <1>1 DEF removeConnectionInLoop, OwnerInv
  <2>2. fault' = "none"
    BY <1>4, <2>1 DEF Base, newConnection, removeConnectionInLoop,
                      destroyServer, lives
  <2> QED
    BY <1>2, <2>2
<1>5. CASE connectEstablished \/ writeComplete
  <2>1. fault' = "none"
    BY <1>5, RunFacts DEF connectEstablished, writeComplete, lives
  <2> QED
    BY <1>2, <2>1
<1>6. CASE connectDestroyed
  <2>1. /\ fault = "none" /\ state_ # "unborn" /\ state_ # "kConnecting"
        /\ Destroy \in Range(ioQueue) /\ ~connections_
        /\ serverAlive' = serverAlive
    BY <1>1, <1>6, RunFacts DEF connectDestroyed, QueueInv
  <2>2. CASE stillUp \/ CanRemove
    BY <1>2, <1>6, <2>1, <2>2 DEF connectDestroyed, lives
  <2>3. CASE ~stillUp /\ ~CanRemove
    <3>1. fault' = "assert" /\ UNCHANGED <<state_, seen>>
      BY <1>6, <2>3 DEF connectDestroyed, dies
    <3>2. ~serverAlive
      BY <1>1, <2>1, <2>3 DEF CanRemove, DownInv, OwnerInv
    <3> QED
      BY <2>1, <3>1, <3>2 DEF FaultInv
  <2> QED
    BY <2>2, <2>3
<1>7. CASE forceCloseInLoop
  <2>1. fault = "none" /\ UNCHANGED <<serverAlive, userRef>>
    BY <1>7, RunFacts DEF forceCloseInLoop
  <2>2. CASE closable
    BY <1>7, <2>1, <2>2, CloseFault DEF forceCloseInLoop, closable
  <2>3. CASE ~closable
    BY <1>2, <1>7, <2>1, <2>3 DEF forceCloseInLoop, closable
  <2> QED
    BY <2>2, <2>3
<1>8. CASE queuedShutdown \/ queuedSend
  <2>1. /\ fault = "none" /\ UNCHANGED <<userRef, seen>>
        /\ ioQueue \in Seq(Functors) /\ ioQueue # <<>> /\ TypeInv
        /\ Tail(ioQueue) \in Seq(Functors)
    BY <1>8, RunFacts DEF queuedShutdown, queuedSend, IInv
  <2>2. CASE Freed
    <3>1. fault' = "uaf"
      BY <1>8, <2>2 DEF queuedShutdown, queuedSend, dies
    <3>2. seen = "down" /\ ~userRef
      BY <2>1, <2>2, FreedIsDown
    <3> QED
      BY <2>1, <3>1, <3>2 DEF FaultInv
  <2>3. CASE ~Freed /\ queuedShutdown
    BY <1>2, <2>1, <2>3 DEF queuedShutdown, lives
  <2>4. CASE ~Freed /\ queuedSend
    <3>1. Head(ioQueue)[2] \in Messages
      BY <2>1, <2>4, PopFacts, FunctorNames DEF queuedSend, Runs
    <3>2. sendInLoop(Head(ioQueue)[2], Tail(ioQueue))
      BY <2>4 DEF queuedSend
    <3>3. fault' \in {fault, "sigpipe"}
      BY <2>1, <3>1, <3>2, SendFacts
    <3> QED
      BY <1>2, <2>1, <3>3
  <2> QED
    BY <1>8, <2>2, <2>3, <2>4
<1>9. CASE HandleMessage \/ MessageReturns \/ HandleReadError
           \/ (\E room \in BOOLEAN : PollReturn(room))
  <2>1. fault' = "none"
    BY <1>9 DEF HandleMessage, MessageReturns, HandleReadError, PollReturn,
                Handling, Between
  <2> QED
    BY <1>2, <2>1
<1>10. CASE HandleClose
  <2>1. /\ handleClose /\ fault = "none" /\ UNCHANGED <<serverAlive, userRef>>
        /\ "HUP" \in revents_ \/ "IN" \in revents_
    BY <1>10 DEF HandleClose, Handling
  <2>2. seen # "down"
    BY <1>1, <2>1 DEF DownInv
  <2>3. seen # "nothing"
    BY <1>1, <2>1 DEF LifeInv, IInv, EarlyInv
  <2>4. seen = "up"
    BY <1>1, <2>2, <2>3 DEF LifeInv
  <2> QED
    BY <2>1, <2>4, CloseFault
<1>11. CASE handleWrite \/ (\E m \in Messages : ioSend(m))
  <2>1. fault = "none" /\ TypeInv /\ ioQueue \in Seq(Functors)
    BY <1>11 DEF handleWrite, ioSend, InIoThread, IInv, TypeInv, QueueTypes
  <2>2. fault' \in {fault, "sigpipe"}
    BY <1>11, <2>1, WriteFacts, SendFacts DEF ioSend
  <2> QED
    BY <1>2, <2>1, <2>2
<1>12. CASE ioShutdown \/ ioForceClose \/ UserCall \/ UserRest
  <2>1. fault' = "none"
    BY <1>12
       DEF ioShutdown, ioForceClose, InIoThread, UserCall, userSend,
           userShutdown, userForceClose, userDrop, InUserThread, UserRest,
           userSetState, userPush
  <2> QED
    BY <1>2, <2>1
<1>13. CASE UNCHANGED vars
  BY <1>1, <1>13 DEF vars, FaultInv
<1> QED
  BY <1>3, <1>4, <1>5, <1>6, <1>7, <1>8, <1>9, <1>10, <1>11, <1>12, <1>13
     DEF Next, Functor, Event, IoCall

\* IInv is an invariant of a connection, whatever the two threads, the peer
\* and TcpServer do.
THEOREM Invariance == Spec => []IInv
<1>1. IInv /\ [Next]_vars => IInv'
  <2> SUFFICES ASSUME IInv, [Next]_vars PROVE IInv'
    OBVIOUS
  <2>1. TypeInv'
    BY QueueTypesStep, OutputTypesStep, EnumTypesStep, BoolTypesStep
       DEF TypeInv
  <2> QED
    BY <2>1, QueueStep, LifeStep, EarlyStep, UpStep, DownOwnerStep, FaultStep
       DEF IInv
<1> QED
  BY InitIInv, <1>1, PTL DEF Spec
-----------------------------------------------------------------------------
(* What follows from it                                                     *)

\* TypeOK follows from the types that the induction carries.
LEMMA TypesImplied == TypeInv => TypeOK
<1> SUFFICES ASSUME TypeInv PROVE TypeOK
  OBVIOUS
<1>1. Range(ioQueue) \subseteq Owning \cup Borrowing
  BY ElementOfSeq DEF TypeInv, QueueTypes, Range, Functors
<1>2. Range(baseQueue) \subseteq {<<"removeConnectionInLoop">>}
  BY DEF TypeInv, QueueTypes, Range
<1>3. userPc \in {<<"idle">>, <<"setState">>} \cup Owning \cup Borrowing
  BY DEF TypeInv, QueueTypes, Owning
<1>4. /\ outputBuffer_ \in Seq(Data \cup {Garbage})
      /\ wire \in Seq(Data \cup {Garbage}) /\ sent \in Seq(Data)
  BY DEF TypeInv, OutputTypes, Bytes
<1>5. EnumTypes /\ BoolTypes
  BY DEF TypeInv
<1> QED
  BY <1>1, <1>2, <1>3, <1>4, <1>5, Zenon DEF TypeOK, EnumTypes, BoolTypes

\* The user sees UP, messages and DOWN in this order, DOWN at most once.
THEOREM CallbackSafety == Spec => []CallbackOrder
<1>1. IInv => CallbackOrder
  BY DEF IInv, LifeInv, CallbackOrder
<1> QED
  BY Invariance, <1>1, PTL

\* No poll ever reports, and no poller keeps, the Channel of a freed
\* connection.
THEOREM ChannelSafety == Spec => []NoDanglingChannel
<1>1. IInv => NoDanglingChannel
  BY FreedIsDown DEF NoDanglingChannel
<1> QED
  BY Invariance, <1>1, PTL

\* POLLOUT is watched exactly while output is buffered.
THEOREM OutputSafety == Spec => []WatchesOutput
<1>1. IInv => WatchesOutput
  BY DEF IInv, LifeInv, UpInv, DownInv, WatchesOutput
<1> QED
  BY Invariance, <1>1, PTL

\* Every assert that can fail, and every functor that can run on a freed
\* connection, has one of the causes that FaultsExplained names.
THEOREM FaultSafety == Spec => []FaultsExplained
<1>1. IInv => FaultsExplained
  BY TypesImplied DEF IInv, FaultInv, FaultsExplained
<1> QED
  BY Invariance, <1>1, PTL
-----------------------------------------------------------------------------
(* What goes out.  Where the kernel may refuse the direct write of          *)
(* sendInLoop() the claim is false: a refused write leaves n = -1 and the   *)
(* byte in front of the message is sent.  Everywhere else it holds.         *)

\* As long as a write can succeed nothing is missing between the socket and
\* the output buffer; after a failed write the buffer never empties again.
WireInv ==
  \/ wire \o outputBuffer_ = sent
  \/ WriteBroken /\ outputBuffer_ # <<>>

\* WireIntact, as a statement about concatenations
PrefixInv == \E r \in Seq(Bytes) : sent = wire \o r

\* Concatenation of byte strings is associative.
LEMMA BytesAssociative ==
  ASSUME NEW a \in Seq(Bytes), NEW b \in Seq(Bytes), NEW c \in Seq(Bytes)
  PROVE  (a \o b) \o c = a \o (b \o c)
BY ConcatAssociative

\* A string of the message's units, cut in two by a partial write.
LEMMA RestIsSuffix ==
  ASSUME NEW m \in Messages, NEW n \in 0..MsgLen
  PROVE  SubSeq(Units(m), 1, n) \o Rest(m, n, MsgLen - n) = Units(m)
<1> DEFINE u == Units(m)
           l == SubSeq(u, 1, n)
           r == Rest(m, n, MsgLen - n)
           k == MsgLen - n
<1>1. MsgLen \in Nat /\ k \in Nat /\ n \in Nat /\ n \in Int
  BY BoundsAssumption
<1>2. u \in Seq(Bytes) /\ Len(u) = MsgLen
  BY UnitsFacts
<1>3. l \in Seq(Bytes) /\ Len(l) = n /\ \A i \in 1..n : l[i] = u[i]
  BY <1>1, <1>2, SubSeqProperties
<1>4. /\ r \in Seq(Bytes) /\ Len(r) = k
      /\ \A i \in 1..k : r[i] = u[n + i]
  <2>1. r \in Seq(Bytes) /\ Len(r) = k
    BY <1>1, RestFacts
  <2>2. \A i \in 1..k : n + i \in 1..MsgLen
    BY <1>1
  <2>3. \A i \in 1..k : r[i] = u[n + i]
    BY <2>2 DEF Rest
  <2> QED
    BY <2>1, <2>3
<1> HIDE DEF l, r, u
<1>5. /\ l \o r \in Seq(Bytes) /\ Len(l \o r) = MsgLen
      /\ \A i \in 1..MsgLen : (l \o r)[i] = IF i <= n THEN l[i] ELSE r[i - n]
  <2>1. l \o r \in Seq(Bytes) /\ Len(l \o r) = MsgLen
    <3>1. n + k = MsgLen
      BY <1>1
    <3>2. l \o r \in Seq(Bytes) /\ Len(l \o r) = Len(l) + Len(r)
      BY <1>3, <1>4, ConcatProperties
    <3> QED
      BY <1>3, <1>4, <3>1, <3>2
  <2>2. \A i \in 1..(Len(l) + Len(r)) :
          (l \o r)[i] = IF i <= Len(l) THEN l[i] ELSE r[i - Len(l)]
    BY <1>3, <1>4
  <2>3. n + (MsgLen - n) = MsgLen
    BY <1>1
  <2> QED
    BY <1>3, <1>4, <2>1, <2>2, <2>3
<1>6. \A i \in 1..MsgLen : (l \o r)[i] = u[i]
  <2> TAKE i \in 1..MsgLen
  <2>1. CASE i <= n
    BY <1>1, <1>3, <1>5, <2>1
  <2>2. CASE ~(i <= n)
    <3>1. i - n \in 1..k /\ n + (i - n) = i
      BY <1>1, <2>2
    <3> QED
      BY <1>4, <1>5, <2>2, <3>1
  <2> QED
    BY <2>1, <2>2
<1>7. l \o r = u
  BY <1>2, <1>5, <1>6, SeqEqual
<1> QED
  BY <1>7 DEF l, r, u

\* A message goes to the socket and to the buffer in one piece.
LEMMA SendResultWire ==
  ASSUME TypeInv, NEW m \in Messages, NEW n \in 0..MsgLen, NEW q,
         sendResult(m, n, q), wire \o outputBuffer_ = sent,
         n = 0 \/ outputBuffer_ = <<>>
  PROVE  wire' \o outputBuffer_' = sent'
<1> DEFINE l == SubSeq(Units(m), 1, n)
           r == Rest(m, n, MsgLen - n)
<1>1. /\ wire' = wire \o l /\ outputBuffer_' = outputBuffer_ \o r
      /\ sent' = sent \o Units(m)
  <2>1. (IF n > 0 THEN n ELSE 0) = n
    BY BoundsAssumption
  <2> QED
    BY <2>1 DEF sendResult
<1>2. /\ wire \in Seq(Bytes) /\ outputBuffer_ \in Seq(Bytes)
      /\ Units(m) \in Seq(Bytes) /\ Len(Units(m)) = MsgLen
  BY UnitsFacts DEF TypeInv, OutputTypes
<1>3. l \in Seq(Bytes)
  BY <1>2, BoundsAssumption, SubSeqProperties
<1>4. r \in Seq(Bytes)
  <2>1. n \in Int /\ MsgLen - n \in Nat
    BY BoundsAssumption
  <2> QED
    BY <2>1, RestFacts
<1>5. l \o r = Units(m)
  BY RestIsSuffix
<1>6. CASE n = 0
  <2>1. l = <<>>
    BY <1>2, <1>6, SubSeqEmpty
  <2>2. r = Units(m)
    BY <1>4, <1>5, <2>1, ConcatEmptySeq
  <2>3. wire \o l = wire
    BY <1>2, <2>1, ConcatEmptySeq
  <2>4. wire \o (outputBuffer_ \o r) = (wire \o outputBuffer_) \o r
    <3> HIDE DEF r
    <3> QED
      BY <1>2, <1>4, BytesAssociative
  <2> HIDE DEF l, r
  <2> QED
    BY <1>1, <2>2, <2>3, <2>4
<1>7. CASE outputBuffer_ = <<>>
  <2>1. outputBuffer_ \o r = r /\ wire \o outputBuffer_ = wire
    BY <1>2, <1>4, <1>7, ConcatEmptySeq
  <2>2. (wire \o l) \o r = wire \o (l \o r)
    <3> HIDE DEF l, r
    <3> QED
      BY <1>2, <1>3, <1>4, BytesAssociative
  <2> HIDE DEF l, r
  <2> QED
    BY <1>1, <1>5, <2>1, <2>2
<1> QED
  BY <1>6, <1>7

\* A message that is not sent out of a broken socket only makes what is
\* missing longer.
LEMMA SendResultBroken ==
  ASSUME TypeInv, PrefixInv, NEW m \in Messages, NEW n \in {-1, 0}, NEW q,
         sendResult(m, n, q), WriteBroken
  PROVE  PrefixInv' /\ outputBuffer_' # <<>>
<1>1. (IF n > 0 THEN n ELSE 0) = 0 /\ MsgLen - 0 = MsgLen
  BY BoundsAssumption
<1> DEFINE l == SubSeq(Units(m), 1, 0)
           t == Rest(m, n, MsgLen)
<1>2. /\ wire' = wire \o l /\ outputBuffer_' = outputBuffer_ \o t
      /\ sent' = sent \o Units(m)
  BY <1>1 DEF sendResult
<1>3. /\ wire \in Seq(Bytes) /\ outputBuffer_ \in Seq(Bytes)
      /\ Units(m) \in Seq(Bytes)
  BY UnitsFacts DEF TypeInv, OutputTypes
<1>4. l = <<>>
  BY <1>3, SubSeqEmpty
<1>5. wire' = wire
  BY <1>2, <1>3, <1>4, ConcatEmptySeq
<1>6. t \in Seq(Bytes) /\ Len(t) = MsgLen /\ MsgLen \in Nat \ {0}
  BY BoundsAssumption, RestFacts
<1> HIDE DEF t
<1>7. /\ outputBuffer_ \o t \in Seq(Bytes)
      /\ Len(outputBuffer_ \o t) = Len(outputBuffer_) + MsgLen
  BY <1>3, <1>6, ConcatProperties
<1>8. outputBuffer_' # <<>>
  BY <1>2, <1>3, <1>6, <1>7, EmptySeq
<1>9. PICK r \in Seq(Bytes) : sent = wire \o r
  BY DEF PrefixInv
<1>10. (wire \o r) \o Units(m) = wire \o (r \o Units(m))
  BY <1>3, BytesAssociative
<1>11. r \o Units(m) \in Seq(Bytes)
  BY <1>3, ConcatProperties
<1> QED
  BY <1>2, <1>5, <1>8, <1>9, <1>10, <1>11 DEF PrefixInv

\* A state in which nothing is missing satisfies both.
LEMMA CompleteWire ==
  ASSUME TypeInv', (wire \o outputBuffer_ = sent)'
  PROVE  WireInv' /\ PrefixInv'
BY DEF WireInv, PrefixInv, TypeInv, OutputTypes

\* sendInLoop(), when the kernel takes at least one byte of a direct write.
LEMMA SendWire ==
  ASSUME ~WriteMayRefuse, TypeInv, TypeInv', WireInv, PrefixInv,
         NEW m \in Messages, NEW q, sendInLoop(m, q), UNCHANGED <<shut, peer>>
  PROVE  WireInv' /\ PrefixInv'
<1>1. WriteBroken' <=> WriteBroken
  BY DEF WriteBroken
<1>2. CASE UNCHANGED output
  BY <1>1, <1>2 DEF WireInv, PrefixInv
<1>3. CASE state_ = "kDisconnected"
  BY <1>2, <1>3 DEF sendInLoop
<1>4. CASE state_ # "kDisconnected" /\ ~directWrite
  <2>1. sendResult(m, 0, q) /\ 0 \in 0..MsgLen
    BY <1>4, BoundsAssumption DEF sendInLoop
  <2>2. CASE wire \o outputBuffer_ = sent
    BY <2>1, <2>2, SendResultWire, CompleteWire
  <2>3. CASE WriteBroken
    BY <1>1, <2>1, <2>3, SendResultBroken DEF WireInv
  <2> QED
    BY <2>2, <2>3 DEF WireInv
<1>5. CASE state_ # "kDisconnected" /\ directWrite
  <2>1. outputBuffer_ = <<>> /\ wire \o outputBuffer_ = sent
    BY <1>5 DEF directWrite, WireInv
  <2>2. ASSUME NEW n \in WriteResults(Units(m)), sendResult(m, n, q)
        PROVE  WireInv' /\ PrefixInv'
    <3>1. CASE ~WriteBroken
      <4>1. n \in 0..MsgLen
        BY <3>1, UnitsFacts, BoundsAssumption DEF WriteResults
      <4> QED
        BY <2>1, <2>2, <4>1, SendResultWire, CompleteWire
    <3>2. CASE WriteBroken
      <4>1. n \in {-1, 0}
        BY <3>2 DEF WriteResults
      <4> QED
        BY <1>1, <2>2, <3>2, <4>1, SendResultBroken DEF WireInv
    <3> QED
      BY <3>1, <3>2
  <2>3. Refused = {}
    BY DEF Refused
  <2> QED
    BY <1>2, <1>5, <2>2, <2>3 DEF sendInLoop
<1> QED
  BY <1>3, <1>4, <1>5

\* handleWrite() moves the front of the buffer to the socket.
LEMMA WriteWire ==
  ASSUME TypeInv, TypeInv', WireInv, PrefixInv, handleWrite
  PROVE  WireInv' /\ PrefixInv'
<1>1. sent' = sent /\ peer' = peer
  BY DEF handleWrite
<1>2. ASSUME UNCHANGED <<outputBuffer_, wire, shut>>
      PROVE  WireInv' /\ PrefixInv'
  BY <1>1, <1>2 DEF WireInv, PrefixInv, WriteBroken
<1>3. ASSUME ~WriteBroken, NEW n \in 1..Len(outputBuffer_), written(n)
      PROVE  WireInv' /\ PrefixInv'
  <2> DEFINE l == SubSeq(outputBuffer_, 1, n)
             r == SubSeq(outputBuffer_, n + 1, Len(outputBuffer_))
  <2>1. wire' = wire \o l /\ outputBuffer_' = r
    BY <1>3 DEF written
  <2>2. wire \in Seq(Bytes) /\ outputBuffer_ \in Seq(Bytes)
    BY DEF TypeInv, OutputTypes
  <2>3. l \in Seq(Bytes) /\ r \in Seq(Bytes)
    BY <2>2, SubSeqProperties
  <2>4. l \o r = outputBuffer_
    <3>1. n \in 1..(Len(outputBuffer_) + 1) /\ n \in 0..Len(outputBuffer_)
          /\ Len(outputBuffer_) \in Nat
      BY <2>2
    <3>2. SubSeq(outputBuffer_, 1, n)
            \o SubSeq(outputBuffer_, n + 1, Len(outputBuffer_))
            = SubSeq(outputBuffer_, 1, Len(outputBuffer_))
      BY <2>2, <3>1, ConcatAdjacentSubSeq
    <3> QED
      BY <2>2, <3>2, SubSeqFull
  <2>5. wire \o outputBuffer_ = sent
    BY <1>3 DEF WireInv
  <2> HIDE DEF l, r
  <2>6. (wire \o l) \o r = wire \o (l \o r)
    BY <2>2, <2>3, BytesAssociative
  <2> QED
    BY <1>1, <2>1, <2>4, <2>5, <2>6, CompleteWire
<1>4. \/ UNCHANGED <<outputBuffer_, wire, shut>>
      \/ ~WriteBroken /\ \E n \in 1..Len(outputBuffer_) : written(n)
  <2>1. ASSUME NEW n \in WriteResults(outputBuffer_), n > 0
        PROVE  n \in 1..Len(outputBuffer_) /\ ~WriteBroken
    BY <2>1 DEF WriteResults
  <2> QED
    BY <2>1 DEF handleWrite
<1> QED
  BY <1>2, <1>3, <1>4

\* A socket once broken stays broken, and only sends and writes touch the
\* output.
LEMMA WireStep ==
  ASSUME ~WriteMayRefuse
  PROVE  IInv /\ IInv' /\ WireInv /\ PrefixInv /\ [Next]_vars
           => WireInv' /\ PrefixInv'
<1> SUFFICES ASSUME IInv, IInv', WireInv, PrefixInv, [Next]_vars
             PROVE  WireInv' /\ PrefixInv'
  OBVIOUS
<1>1. TypeInv /\ TypeInv' /\ BoolTypes /\ QueueTypes
  BY DEF IInv, TypeInv
<1>2. ASSUME UNCHANGED output, WriteBroken => WriteBroken'
      PROVE  WireInv' /\ PrefixInv'
  BY <1>2 DEF WireInv, PrefixInv
<1>3. CASE queuedSend
  <2>1. CASE Freed
    BY <1>2, <1>3, <2>1 DEF queuedSend, WriteBroken
  <2>2. CASE ~Freed
    <3>1. Head(ioQueue)[2] \in Messages
      BY <1>1, <1>3, PopFacts, FunctorNames DEF queuedSend, Runs, QueueTypes
    <3>2. /\ sendInLoop(Head(ioQueue)[2], Tail(ioQueue))
          /\ UNCHANGED <<shut, peer>>
      BY <1>3, <2>2 DEF queuedSend
    <3> QED
      BY <1>1, <3>1, <3>2, SendWire
  <2> QED
    BY <2>1, <2>2
<1>4. CASE handleWrite
  BY <1>1, <1>4, WriteWire
<1>5. ASSUME NEW m \in Messages, ioSend(m) PROVE WireInv' /\ PrefixInv'
  BY <1>1, <1>5, SendWire DEF ioSend
<1>6. CASE Kernel \/ Base
  BY <1>2, <1>6
     DEF Kernel, PeerSends, PeerCloses, PeerResets, Base, newConnection,
         removeConnectionInLoop, destroyServer, WriteBroken
<1>7. CASE connectEstablished \/ connectDestroyed \/ forceCloseInLoop
           \/ writeComplete
  BY <1>2, <1>7
     DEF connectEstablished, connectDestroyed, forceCloseInLoop,
         writeComplete, WriteBroken
<1>8. CASE queuedShutdown \/ ioShutdown
  <2>1. shut => shut'
    BY <1>8 DEF queuedShutdown, ioShutdown, shutdownInLoop
  <2> QED
    BY <1>2, <1>8, <2>1 DEF queuedShutdown, ioShutdown, WriteBroken
<1>9. CASE HandleMessage \/ MessageReturns \/ HandleClose \/ HandleReadError
           \/ (\E room \in BOOLEAN : PollReturn(room))
  BY <1>2, <1>9
     DEF HandleMessage, MessageReturns, HandleClose, HandleReadError,
         PollReturn, WriteBroken
<1>10. CASE ioForceClose \/ UserCall \/ UserRest
  BY <1>2, <1>10
     DEF ioForceClose, UserCall, userSend, userShutdown, userForceClose,
         userDrop, UserRest, userSetState, userPush, WriteBroken
<1>11. CASE UNCHANGED vars
  BY <1>2, <1>11 DEF vars, WriteBroken
<1> QED
  BY <1>3, <1>4, <1>5, <1>6, <1>7, <1>8, <1>9, <1>10, <1>11
     DEF Next, Functor, Event, IoCall

\* Where no direct write is refused, nothing is missing between what the user
\* sent and what left or is buffered, until a write on a broken socket fails.
THEOREM WireInvariance ==
  ASSUME ~WriteMayRefuse
  PROVE  Spec => [](WireInv /\ PrefixInv)
<1>1. Init => WireInv /\ PrefixInv
  <2> SUFFICES ASSUME Init PROVE WireInv /\ PrefixInv
    OBVIOUS
  <2>1. wire = <<>> /\ outputBuffer_ = <<>> /\ sent = <<>>
    BY DEF Init
  <2>2. <<>> \o <<>> = <<>> /\ <<>> \in Seq(Bytes)
    BY EmptySeq, ConcatEmptySeq
  <2> QED
    BY <2>1, <2>2 DEF WireInv, PrefixInv
<1>2. IInv /\ IInv' /\ WireInv /\ PrefixInv /\ [Next]_vars
        => WireInv' /\ PrefixInv'
  BY WireStep
<1> QED
  BY <1>1, <1>2, Invariance, PTL DEF Spec

\* Where no direct write is refused, what goes out is what the user sent, in
\* order and unaltered.
THEOREM WireSafety ==
  ASSUME ~WriteMayRefuse
  PROVE  Spec => []WireIntact
<1>1. IInv /\ PrefixInv => WireIntact
  <2> SUFFICES ASSUME IInv, PrefixInv PROVE WireIntact
    OBVIOUS
  <2>1. wire \in Seq(Bytes)
    BY DEF IInv, TypeInv, OutputTypes
  <2>2. PICK r \in Seq(Bytes) : sent = wire \o r
    BY DEF PrefixInv
  <2>3. Len(sent) = Len(wire) + Len(r) /\ Len(wire) \in Nat /\ Len(r) \in Nat
    BY <2>1, <2>2, ConcatProperties
  <2>4. SubSeq(wire \o r, 1, Len(wire)) = SubSeq(wire, 1, Len(wire))
    BY <2>1, <2>3, SubSeqOfConcat1
  <2> QED
    BY <2>2, <2>3, <2>4 DEF WireIntact, IsPrefix
<1> QED
  BY <1>1, WireInvariance, Invariance, PTL

\* Where no direct write is refused, shutdown() of an open connection closes
\* the socket only when all that was sent has been written.
THEOREM ShutdownIsGraceful ==
  ASSUME ~WriteMayRefuse
  PROVE  Spec => GracefulShutdown
<1>1. IInv /\ IInv' /\ WireInv' /\ [Next]_vars
        => [seen = "up" /\ shut' # shut => wire' = sent']_vars
  <2> SUFFICES ASSUME IInv, IInv', WireInv', [Next]_vars, seen = "up",
                      shut' # shut
               PROVE  wire' = sent'
    OBVIOUS
  <2>1. /\ UpInv /\ TypeInv /\ BoolTypes
        /\ wire' \in Seq(Bytes)
    BY DEF IInv, TypeInv, OutputTypes
  <2>2. outputBuffer_ = <<>> <=> ~isWriting
    BY <2>1 DEF UpInv
  <2>3. ASSUME queuedShutdown \/ ioShutdown PROVE outputBuffer_' = <<>>
    <3>1. ~isWriting /\ outputBuffer_' = outputBuffer_
      BY <2>1, <2>3
         DEF queuedShutdown, ioShutdown, shutdownInLoop, BoolTypes
    <3> QED
      BY <2>2, <3>1
  <2>4. ASSUME handleWrite PROVE outputBuffer_' = <<>>
    <3>1. PICK n \in WriteResults(outputBuffer_) : written(n) /\ n > 0
      BY <2>4 DEF handleWrite
    <3>2. n = Len(outputBuffer_)
      BY <3>1 DEF written
    <3>3. outputBuffer_' = SubSeq(outputBuffer_, n + 1, n)
      BY <3>1, <3>2 DEF written
    <3>4. outputBuffer_ \in Seq(Bytes) /\ n \in Nat
      BY <2>1, <3>2 DEF TypeInv, OutputTypes
    <3> QED
      BY <3>3, <3>4, SubSeqEmpty
  <2>5. queuedShutdown \/ ioShutdown \/ handleWrite
    <3>1. CASE Kernel \/ Base
      BY <3>1
         DEF Kernel, PeerSends, PeerCloses, PeerResets, Base, newConnection,
             removeConnectionInLoop, destroyServer
    <3>2. CASE connectEstablished \/ connectDestroyed \/ forceCloseInLoop
               \/ writeComplete \/ queuedSend
      BY <3>2 DEF connectEstablished, connectDestroyed, forceCloseInLoop,
                  writeComplete, queuedSend
    <3>3. CASE HandleMessage \/ MessageReturns \/ HandleClose
               \/ HandleReadError \/ (\E room \in BOOLEAN : PollReturn(room))
      BY <3>3 DEF HandleMessage, MessageReturns, HandleClose,
                  HandleReadError, PollReturn
    <3>4. CASE (\E m \in Messages : ioSend(m)) \/ ioForceClose \/ UserCall
               \/ UserRest
      BY <3>4 DEF ioSend, ioForceClose, UserCall, userSend, userShutdown,
                  userForceClose, userDrop, UserRest, userSetState, userPush
    <3>5. CASE UNCHANGED vars
      BY <3>5 DEF vars
    <3> QED
      BY <3>1, <3>2, <3>3, <3>4, <3>5 DEF Next, Functor, Event, IoCall
  <2>6. outputBuffer_' = <<>>
    BY <2>3, <2>4, <2>5
  <2>7. wire' \o <<>> = sent'
    BY <2>6 DEF WireInv
  <2> QED
    BY <2>1, <2>7, ConcatEmptySeq
<1> QED
  BY <1>1, WireInvariance, Invariance, PTL DEF Spec, GracefulShutdown
=============================================================================
