---------------------------- MODULE BufferProofs ----------------------------
(***************************************************************************)
(* What Buffer guarantees for any sizes and any contents: its asserts hold, *)
(* it does not grow beyond twice what ever waited in it, and it implements  *)
(* the queue of bytes of ByteQueue.                                         *)
(***************************************************************************)
EXTENDS Buffer, SequenceTheorems, TLAPS

\* A Buffer whose areas are in order.
Shape(b) ==
  /\ b \in [buffer_ : Seq(Bytes), readerIndex_ : Nat, writerIndex_ : Nat]
  /\ kCheapPrepend <= b.readerIndex_
  /\ b.readerIndex_ <= b.writerIndex_
  /\ b.writerIndex_ <= Len(b.buffer_)

\* SpaceBounded is inductive only together with what peak says of the
\* readable bytes.
IInv ==
  /\ TypeOK
  /\ asserted
  /\ SpaceBounded
  /\ readableBytes(buf) <= peak
-----------------------------------------------------------------------------
(* The areas of a buffer                                                    *)

\* The readable bytes as a string: its length, and where its bytes are.
LEMMA ReadableProperties ==
  ASSUME NEW b, Shape(b)
  PROVE  /\ readable(b) \in Seq(Bytes)
         /\ readableBytes(b) \in Nat
         /\ Len(readable(b)) = readableBytes(b)
         /\ \A i \in 1..readableBytes(b) :
              readable(b)[i] = b.buffer_[b.readerIndex_ + i]
<1> DEFINE s == b.buffer_
           m == b.readerIndex_ + 1
           n == b.writerIndex_
<1>1. /\ s \in Seq(Bytes) /\ m \in 1..(Len(s) + 1) /\ n \in (m - 1)..Len(s)
  BY SizesAssumption DEF Shape
<1>2. /\ SubSeq(s, m, n) \in Seq(Bytes)
      /\ Len(SubSeq(s, m, n)) = IF m <= n THEN n - m + 1 ELSE 0
      /\ \A i \in 1..(n - m + 1) : SubSeq(s, m, n)[i] = s[m + i - 1]
  BY <1>1, SubSeqProperties
<1>3. readableBytes(b) = n - m + 1 /\ readableBytes(b) \in Nat
  BY DEF readableBytes, Shape
<1>4. \A i \in 1..readableBytes(b) : m + i - 1 = b.readerIndex_ + i
  BY <1>3 DEF Shape
<1> QED
  BY <1>2, <1>3, <1>4 DEF readable, Shape

\* std::copy() changes the bytes it covers and no others, and no length.
LEMMA OverwrittenProperties ==
  ASSUME NEW s \in Seq(Bytes), NEW data \in Seq(Bytes), NEW at \in Nat
  PROVE  /\ overwritten(s, at, data) \in Seq(Bytes)
         /\ Len(overwritten(s, at, data)) = Len(s)
         /\ \A i \in 1..Len(s) :
              overwritten(s, at, data)[i]
                = IF i - at \in 1..Len(data) THEN data[i - at] ELSE s[i]
<1> DEFINE o == overwritten(s, at, data)
<1>1. DOMAIN s = 1..Len(s) /\ DOMAIN data = 1..Len(data)
  BY LenProperties
<1>2. o = [i \in 1..Len(s) |->
             IF i - at \in 1..Len(data) THEN data[i - at] ELSE s[i]]
  BY <1>1 DEF overwritten
<1>3. \A i \in 1..Len(s) : o[i] \in Bytes
  BY <1>2, ElementOfSeq
<1>4. o \in [1..Len(s) -> Bytes]
  BY <1>2, <1>3
<1>5. o \in Seq(Bytes) /\ Len(o) = Len(s)
  BY <1>4, LenProperties
<1> QED
  BY <1>2, <1>5

\* resize() to more bytes keeps the ones there are.
LEMMA ResizedProperties ==
  ASSUME NEW s \in Seq(Bytes), NEW n \in Nat, Len(s) <= n
  PROVE  /\ resized(s, n) \in Seq(Bytes)
         /\ Len(resized(s, n)) = n
         /\ \A i \in 1..Len(s) : resized(s, n)[i] = s[i]
<1>1. DOMAIN s = 1..Len(s) /\ Len(s) \in Nat
  BY LenProperties
<1>2. resized(s, n) = [i \in 1..n |-> IF i \in 1..Len(s) THEN s[i] ELSE Zero]
  BY <1>1 DEF resized
<1>3. \A i \in 1..n : resized(s, n)[i] \in Bytes
  BY <1>2, ElementOfSeq, BytesAssumption
<1>4. resized(s, n) \in [1..n -> Bytes]
  BY <1>2, <1>3
<1>5. resized(s, n) \in Seq(Bytes) /\ Len(resized(s, n)) = n
  BY <1>4, LenProperties
<1> QED
  BY <1>1, <1>2, <1>5

\* Two buffers with the same number of readable bytes, and the same bytes
\* at the same distance from readerIndex_, have the same content.
LEMMA SameReadable ==
  ASSUME NEW b, NEW c, Shape(b), Shape(c),
         readableBytes(c) = readableBytes(b),
         \A i \in 1..readableBytes(b) :
           c.buffer_[c.readerIndex_ + i] = b.buffer_[b.readerIndex_ + i]
  PROVE  readable(c) = readable(b)
<1>1. /\ readable(b) \in Seq(Bytes) /\ readable(c) \in Seq(Bytes)
      /\ Len(readable(b)) = Len(readable(c))
      /\ Len(readable(b)) = readableBytes(b)
  BY ReadableProperties
<1>2. \A i \in 1..Len(readable(b)) : readable(c)[i] = readable(b)[i]
  BY <1>1, ReadableProperties
<1> QED
  BY <1>1, <1>2, SeqEqual
-----------------------------------------------------------------------------
(* Writing                                                                  *)

\* makeSpace() and with it ensureWriteableBytes() make room without touching
\* what is readable.  They grow the buffer only when even the whole of its
\* free space is too little, so that what it grows to is bounded by twice
\* what is then going to be readable.
LEMMA EnsureProperties ==
  ASSUME NEW b, Shape(b), NEW len \in Nat
  PROVE  LET e == ensureWriteableBytes(b, len) IN
         /\ Shape(e)
         /\ readable(e) = readable(b)
         /\ readableBytes(e) = readableBytes(b)
         /\ writableBytes(e) >= len
         /\ \/ Len(e.buffer_) = Len(b.buffer_)
            \/ Len(e.buffer_) <= kCheapPrepend + 2 * (readableBytes(b) + len)
<1> DEFINE e == ensureWriteableBytes(b, len)
<1>1. CASE writableBytes(b) >= len
  <2>1. e = b
    BY <1>1 DEF ensureWriteableBytes, writableBytes, Shape
  <2> QED
    BY <1>1, <2>1
<1>2. CASE writableBytes(b) < len /\ tooSmall(b, len)
  <2> DEFINE n == b.writerIndex_ + len
             s == resized(b.buffer_, n)
  <2>1. e = [b EXCEPT !.buffer_ = s]
    BY <1>2 DEF ensureWriteableBytes, makeSpace
  <2>2. n \in Nat /\ Len(b.buffer_) <= n /\ b.buffer_ \in Seq(Bytes)
    BY <1>2 DEF Shape, writableBytes
  <2>3. /\ s \in Seq(Bytes) /\ Len(s) = n
        /\ \A i \in 1..Len(b.buffer_) : s[i] = b.buffer_[i]
    BY <2>2, ResizedProperties
  <2> HIDE DEF s
  <2>4. /\ e.buffer_ = s /\ e.readerIndex_ = b.readerIndex_
        /\ e.writerIndex_ = b.writerIndex_
        /\ e \in [buffer_ : Seq(Bytes), readerIndex_ : Nat,
                  writerIndex_ : Nat]
    BY <2>1, <2>3 DEF Shape
  <2> HIDE DEF e
  <2>5. Shape(e) /\ readableBytes(e) = readableBytes(b)
    BY <2>3, <2>4 DEF Shape, readableBytes
  <2>6. \A i \in 1..readableBytes(b) :
          e.buffer_[e.readerIndex_ + i] = b.buffer_[b.readerIndex_ + i]
    BY <2>3, <2>4, SizesAssumption DEF Shape, readableBytes
  <2>7. readable(e) = readable(b)
    BY <2>5, <2>6, SameReadable
  <2>8. writableBytes(e) >= len
    BY <2>3, <2>4 DEF writableBytes, Shape
  <2>9. Len(e.buffer_) <= kCheapPrepend + 2 * (readableBytes(b) + len)
    BY <1>2, <2>3, <2>4, SizesAssumption
       DEF tooSmall, writableBytes, prependableBytes, readableBytes, Shape
  <2> QED
    BY <2>5, <2>7, <2>8, <2>9 DEF e
<1>3. CASE writableBytes(b) < len /\ ~tooSmall(b, len)
  <2> DEFINE s == overwritten(b.buffer_, kCheapPrepend, readable(b))
             w == kCheapPrepend + readableBytes(b)
  <2>1. e = [buffer_ |-> s, readerIndex_ |-> kCheapPrepend,
             writerIndex_ |-> w]
    BY <1>3 DEF ensureWriteableBytes, makeSpace, movedToFront
  <2>2. /\ readable(b) \in Seq(Bytes) /\ readableBytes(b) \in Nat
        /\ Len(readable(b)) = readableBytes(b)
        /\ \A i \in 1..readableBytes(b) :
             readable(b)[i] = b.buffer_[b.readerIndex_ + i]
    BY ReadableProperties
  <2>3. /\ s \in Seq(Bytes) /\ Len(s) = Len(b.buffer_)
        /\ \A i \in 1..Len(b.buffer_) :
             s[i] = IF i - kCheapPrepend \in 1..Len(readable(b))
                      THEN readable(b)[i - kCheapPrepend] ELSE b.buffer_[i]
    BY <2>2, OverwrittenProperties, SizesAssumption DEF Shape
  <2> HIDE DEF s
  <2>4. /\ e.buffer_ = s /\ e.readerIndex_ = kCheapPrepend
        /\ e.writerIndex_ = w
        /\ e \in [buffer_ : Seq(Bytes), readerIndex_ : Nat,
                  writerIndex_ : Nat]
    BY <2>1, <2>2, <2>3, SizesAssumption
  <2> HIDE DEF e
  <2>5. Shape(e) /\ readableBytes(e) = readableBytes(b)
    BY <2>2, <2>3, <2>4, SizesAssumption DEF Shape, readableBytes
  <2>6. \A i \in 1..readableBytes(b) :
          e.buffer_[e.readerIndex_ + i] = b.buffer_[b.readerIndex_ + i]
    <3> TAKE i \in 1..readableBytes(b)
    <3>1. kCheapPrepend + i \in 1..Len(b.buffer_)
      BY <2>2, SizesAssumption DEF Shape, readableBytes
    <3>2. (kCheapPrepend + i) - kCheapPrepend = i
      BY <2>2, SizesAssumption
    <3> QED
      BY <2>2, <2>3, <2>4, <3>1, <3>2
  <2>7. readable(e) = readable(b)
    BY <2>5, <2>6, SameReadable
  <2>8. writableBytes(e) >= len
    BY <1>3, <2>3, <2>4, SizesAssumption
       DEF tooSmall, writableBytes, prependableBytes, readableBytes, Shape
  <2>9. Len(e.buffer_) = Len(b.buffer_)
    BY <2>3, <2>4
  <2> QED
    BY <2>5, <2>7, <2>8, <2>9 DEF e
<1>4. writableBytes(b) \in Int
  BY DEF Shape, writableBytes
<1> QED
  BY <1>1, <1>2, <1>3, <1>4

\* Bytes copied to beginWrite() and counted by hasWritten() follow what was
\* readable.
LEMMA WriteProperties ==
  ASSUME NEW b, Shape(b), NEW data \in Seq(Bytes),
         Len(data) <= writableBytes(b)
  PROVE  LET w == hasWritten([b EXCEPT !.buffer_ =
                        overwritten(@, b.writerIndex_, data)], Len(data)) IN
         /\ Shape(w)
         /\ readable(w) = readable(b) \o data
         /\ readableBytes(w) = readableBytes(b) + Len(data)
         /\ writableBytes(w) = writableBytes(b) - Len(data)
         /\ Len(w.buffer_) = Len(b.buffer_)
<1> DEFINE s == overwritten(b.buffer_, b.writerIndex_, data)
           w == hasWritten([b EXCEPT !.buffer_ = s], Len(data))
<1>1. b.buffer_ \in Seq(Bytes) /\ b.writerIndex_ \in Nat /\ Len(data) \in Nat
  BY DEF Shape
<1>2. /\ s \in Seq(Bytes) /\ Len(s) = Len(b.buffer_)
      /\ \A i \in 1..Len(b.buffer_) :
           s[i] = IF i - b.writerIndex_ \in 1..Len(data)
                    THEN data[i - b.writerIndex_] ELSE b.buffer_[i]
  BY <1>1, OverwrittenProperties
<1> HIDE DEF s
<1>3. /\ w.buffer_ = s /\ w.readerIndex_ = b.readerIndex_
      /\ w.writerIndex_ = b.writerIndex_ + Len(data)
      /\ w \in [buffer_ : Seq(Bytes), readerIndex_ : Nat, writerIndex_ : Nat]
  <2> DEFINE d == [b EXCEPT !.buffer_ = s]
  <2>1. /\ d \in [buffer_ : Seq(Bytes), readerIndex_ : Nat,
                  writerIndex_ : Nat]
        /\ d.buffer_ = s /\ d.readerIndex_ = b.readerIndex_
        /\ d.writerIndex_ = b.writerIndex_
    BY <1>2 DEF Shape
  <2> HIDE DEF d
  <2>2. w = [d EXCEPT !.writerIndex_ = b.writerIndex_ + Len(data)]
    BY <2>1 DEF hasWritten, d
  <2> QED
    BY <1>1, <2>1, <2>2
<1> HIDE DEF w
<1>4. /\ Shape(w) /\ readableBytes(w) = readableBytes(b) + Len(data)
      /\ writableBytes(w) = writableBytes(b) - Len(data)
      /\ Len(w.buffer_) = Len(b.buffer_)
  BY <1>1, <1>2, <1>3 DEF Shape, readableBytes, writableBytes
<1> DEFINE q == readable(b) \o data
<1>5. /\ readable(b) \in Seq(Bytes) /\ readableBytes(b) \in Nat
      /\ Len(readable(b)) = readableBytes(b)
      /\ \A i \in 1..readableBytes(b) :
           readable(b)[i] = b.buffer_[b.readerIndex_ + i]
  BY ReadableProperties
<1>6. /\ readable(w) \in Seq(Bytes)
      /\ Len(readable(w)) = readableBytes(w)
      /\ \A i \in 1..readableBytes(w) :
           readable(w)[i] = s[b.readerIndex_ + i]
  BY <1>3, <1>4, ReadableProperties
<1>7. /\ q \in Seq(Bytes) /\ Len(q) = readableBytes(b) + Len(data)
      /\ \A i \in 1..Len(q) : q[i] = IF i <= readableBytes(b)
                                       THEN readable(b)[i]
                                       ELSE data[i - readableBytes(b)]
  <2>1. q \in Seq(Bytes) /\ Len(q) = Len(readable(b)) + Len(data)
    BY <1>5, ConcatProperties
  <2>2. \A i \in 1..(Len(readable(b)) + Len(data)) :
          q[i] = IF i <= Len(readable(b)) THEN readable(b)[i]
                                          ELSE data[i - Len(readable(b))]
    BY <1>5
  <2> QED
    BY <1>5, <2>1, <2>2
<1> HIDE DEF q
<1>8. \A i \in 1..Len(q) : readable(w)[i] = q[i]
  <2> TAKE i \in 1..Len(q)
  <2>1. b.readerIndex_ + i \in 1..Len(b.buffer_)
    BY <1>1, <1>7, SizesAssumption DEF Shape, readableBytes, writableBytes
  <2>2. CASE i <= readableBytes(b)
    <3>1. ~((b.readerIndex_ + i) - b.writerIndex_ \in 1..Len(data))
      BY <1>1, <1>5, <2>2 DEF Shape, readableBytes
    <3>2. i \in 1..readableBytes(b)
      BY <1>5, <1>7, <2>2
    <3> QED
      BY <1>2, <1>4, <1>5, <1>6, <1>7, <2>1, <2>2, <3>1, <3>2
  <2>3. CASE ~(i <= readableBytes(b))
    <3>1. /\ (b.readerIndex_ + i) - b.writerIndex_ = i - readableBytes(b)
          /\ i - readableBytes(b) \in 1..Len(data)
      BY <1>1, <1>5, <1>7, <2>3 DEF Shape, readableBytes
    <3> QED
      BY <1>2, <1>4, <1>5, <1>6, <1>7, <2>1, <2>3, <3>1
  <2> QED
    BY <2>2, <2>3
<1>9. readable(w) = q
  BY <1>4, <1>6, <1>7, <1>8, SeqEqual
<1> QED
  BY <1>4, <1>9 DEF q, w, s

\* append() adds its data after what was readable, and its asserts hold.
LEMMA AppendLemma ==
  ASSUME NEW b, Shape(b), NEW data \in Seq(Bytes)
  PROVE  LET a == append(b, data) IN
         /\ Shape(a)
         /\ readable(a) = readable(b) \o data
         /\ readableBytes(a) = readableBytes(b) + Len(data)
         /\ \/ Len(a.buffer_) = Len(b.buffer_)
            \/ Len(a.buffer_) <= kCheapPrepend + 2 * readableBytes(a)
         /\ appendAsserts(b, Len(data))
<1> DEFINE e == ensureWriteableBytes(b, Len(data))
<1>1. Len(data) \in Nat
  OBVIOUS
<1>2. /\ Shape(e) /\ readable(e) = readable(b)
      /\ readableBytes(e) = readableBytes(b)
      /\ writableBytes(e) >= Len(data)
      /\ \/ Len(e.buffer_) = Len(b.buffer_)
         \/ Len(e.buffer_) <= kCheapPrepend
                              + 2 * (readableBytes(b) + Len(data))
  BY <1>1, EnsureProperties
<1> HIDE DEF e
<1>3. Len(data) <= writableBytes(e)
  BY <1>1, <1>2 DEF Shape, writableBytes
<1> DEFINE w == hasWritten([e EXCEPT !.buffer_ =
                   overwritten(@, e.writerIndex_, data)], Len(data))
<1>4. /\ Shape(w) /\ readable(w) = readable(e) \o data
      /\ readableBytes(w) = readableBytes(e) + Len(data)
      /\ Len(w.buffer_) = Len(e.buffer_)
  BY <1>2, <1>3, WriteProperties
<1>5. append(b, data) = w
  BY DEF append, e
<1> HIDE DEF w
<1>6. appendAsserts(b, Len(data))
  BY <1>2 DEF appendAsserts, e
<1> QED
  BY <1>2, <1>4, <1>5, <1>6

\* readFd() adds what readv() read in one piece, though the part that did
\* not fit went through extrabuf.
LEMMA ReadFdLemma ==
  ASSUME NEW b, Shape(b), NEW data \in Seq(Bytes)
  PROVE  LET a == readFd(b, data) IN
         /\ Shape(a)
         /\ readable(a) = readable(b) \o data
         /\ readableBytes(a) = readableBytes(b) + Len(data)
         /\ \/ Len(a.buffer_) = Len(b.buffer_)
            \/ Len(a.buffer_) <= kCheapPrepend + 2 * readableBytes(a)
         /\ readFdAsserts(b, Len(data))
<1> DEFINE writable == writableBytes(b)
           n == Len(data)
<1>1. writable \in Nat /\ n \in Nat
  BY DEF Shape, writableBytes
<1>2. CASE n <= writable
  <2> DEFINE w == hasWritten([b EXCEPT !.buffer_ =
                     overwritten(@, b.writerIndex_, data)], Len(data))
  <2>1. readFd(b, data) = w
    BY <1>2 DEF readFd
  <2>2. /\ Shape(w) /\ readable(w) = readable(b) \o data
        /\ readableBytes(w) = readableBytes(b) + Len(data)
        /\ Len(w.buffer_) = Len(b.buffer_)
    BY <1>2, WriteProperties
  <2>3. readFdAsserts(b, n)
    BY <1>1, <1>2 DEF readFdAsserts
  <2> QED
    BY <2>1, <2>2, <2>3
<1>3. CASE ~(n <= writable)
  <2> DEFINE front == SubSeq(data, 1, writable)
             back == SubSeq(data, writable + 1, n)
             w == hasWritten([b EXCEPT !.buffer_ =
                     overwritten(@, b.writerIndex_, front)], writable)
  <2>1. /\ front \in Seq(Bytes) /\ Len(front) = writable
        /\ back \in Seq(Bytes) /\ Len(back) = n - writable
    BY <1>1, <1>3, SubSeqProperties
  <2>2. front \o back = data
    <3>1. SubSeq(data, 1, writable) \o SubSeq(data, writable + 1, n)
            = SubSeq(data, 1, n)
      BY <1>1, <1>3, ConcatAdjacentSubSeq
    <3> QED
      BY <3>1, SubSeqFull
  <2>3. readFd(b, data) = append(w, back)
    BY <1>3 DEF readFd
  <2> HIDE DEF front, back
  <2>4. /\ Shape(w) /\ readable(w) = readable(b) \o front
        /\ readableBytes(w) = readableBytes(b) + writable
        /\ Len(w.buffer_) = Len(b.buffer_)
    <3>1. Len(front) <= writableBytes(b)
      BY <1>1, <2>1
    <3>2. w = hasWritten([b EXCEPT !.buffer_ =
                 overwritten(@, b.writerIndex_, front)], Len(front))
      BY <2>1
    <3> QED
      BY <2>1, <3>1, <3>2, WriteProperties
  <2> HIDE DEF w
  <2> DEFINE a == append(w, back)
  <2>5. /\ Shape(a) /\ readable(a) = readable(w) \o back
        /\ readableBytes(a) = readableBytes(w) + (n - writable)
        /\ \/ Len(a.buffer_) = Len(w.buffer_)
           \/ Len(a.buffer_) <= kCheapPrepend + 2 * readableBytes(a)
    BY <2>1, <2>4, AppendLemma
  <2> HIDE DEF a
  <2>6. readable(a) = readable(b) \o data
    <3>1. (readable(b) \o front) \o back = readable(b) \o (front \o back)
      <4>1. readable(b) \in Seq(Bytes)
        BY ReadableProperties
      <4> QED
        BY <2>1, <4>1, ConcatAssociative
    <3> QED
      BY <2>2, <2>4, <2>5, <3>1
  <2>7. readableBytes(a) = readableBytes(b) + n
    BY <1>1, <2>4, <2>5, ReadableProperties
  <2>8. readFdAsserts(b, n)
    <3> DEFINE h == hasWritten(b, writable)
    <3>1. Shape(h)
      <4> HIDE DEF writable
      <4>1. /\ h.buffer_ = b.buffer_ /\ h.readerIndex_ = b.readerIndex_
            /\ h.writerIndex_ = b.writerIndex_ + writable
            /\ h \in [buffer_ : Seq(Bytes), readerIndex_ : Nat,
                      writerIndex_ : Nat]
        BY <1>1 DEF Shape, hasWritten
      <4> QED
        BY <1>1, <4>1 DEF Shape, writableBytes, writable
    <3>2. n - writable \in Nat
      BY <1>1, <1>3
    <3>3. writableBytes(ensureWriteableBytes(h, n - writable)) >= n - writable
      BY <3>1, <3>2, EnsureProperties
    <3> QED
      BY <3>3 DEF readFdAsserts, appendAsserts
  <2>9. readFd(b, data) = a
    BY <2>3 DEF a
  <2> QED
    BY <2>4, <2>5, <2>6, <2>7, <2>8, <2>9
<1> QED
  BY <1>2, <1>3
-----------------------------------------------------------------------------
(* Reading                                                                  *)

\* retrieveAll() leaves nothing readable.
LEMMA RetrieveAllLemma ==
  ASSUME NEW b, Shape(b)
  PROVE  LET r == retrieveAll(b) IN
         /\ Shape(r)
         /\ readable(r) = <<>>
         /\ readableBytes(r) = 0
         /\ r.buffer_ = b.buffer_
<1> DEFINE r == retrieveAll(b)
<1>1. Shape(r) /\ readableBytes(r) = 0 /\ r.buffer_ = b.buffer_
  <2>1. /\ r.buffer_ = b.buffer_ /\ r.writerIndex_ = kCheapPrepend
        /\ r.readerIndex_ = kCheapPrepend
        /\ r \in [buffer_ : Seq(Bytes), readerIndex_ : Nat,
                  writerIndex_ : Nat]
    BY SizesAssumption DEF Shape, retrieveAll
  <2> QED
    BY <2>1, SizesAssumption DEF Shape, readableBytes
<1>2. readable(r) \in Seq(Bytes) /\ Len(readable(r)) = 0
  BY <1>1, ReadableProperties
<1>3. readable(r) = <<>>
  BY <1>2, EmptySeq
<1> QED
  BY <1>1, <1>3

\* retrieve() drops a prefix of what is readable, and moves no byte.
LEMMA RetrieveLemma ==
  ASSUME NEW b, Shape(b), NEW len \in Nat, len <= readableBytes(b)
  PROVE  LET r == retrieve(b, len) IN
         /\ Shape(r)
         /\ readable(r) = SubSeq(readable(b), len + 1, Len(readable(b)))
         /\ readableBytes(r) = readableBytes(b) - len
         /\ r.buffer_ = b.buffer_
<1> DEFINE r == retrieve(b, len)
           q == SubSeq(readable(b), len + 1, Len(readable(b)))
<1>1. /\ readable(b) \in Seq(Bytes) /\ readableBytes(b) \in Nat
      /\ Len(readable(b)) = readableBytes(b)
      /\ \A i \in 1..readableBytes(b) :
           readable(b)[i] = b.buffer_[b.readerIndex_ + i]
  BY ReadableProperties
<1>2. /\ Shape(r) /\ r.buffer_ = b.buffer_
      /\ readableBytes(r) = readableBytes(b) - len
  <2>1. CASE len < readableBytes(b)
    <3>1. /\ r.buffer_ = b.buffer_ /\ r.writerIndex_ = b.writerIndex_
          /\ r.readerIndex_ = b.readerIndex_ + len
          /\ r \in [buffer_ : Seq(Bytes), readerIndex_ : Nat,
                    writerIndex_ : Nat]
      BY <2>1 DEF Shape, retrieve
    <3> QED
      BY <1>1, <2>1, <3>1, SizesAssumption DEF Shape, readableBytes
  <2>2. CASE ~(len < readableBytes(b))
    <3>1. r = retrieveAll(b)
      BY <2>2 DEF retrieve
    <3>2. readableBytes(b) - len = 0
      BY <1>1, <2>2
    <3> QED
      BY <3>1, <3>2, RetrieveAllLemma
  <2> QED
    BY <2>1, <2>2
<1>3. /\ q \in Seq(Bytes) /\ Len(q) = readableBytes(b) - len
      /\ \A i \in 1..(readableBytes(b) - len) : q[i] = readable(b)[len + i]
  <2>1. /\ SubSeq(readable(b), len + 1, readableBytes(b)) \in Seq(Bytes)
        /\ Len(SubSeq(readable(b), len + 1, readableBytes(b)))
             = readableBytes(b) - len
    BY <1>1, SubSeqProperties
  <2>2. \A i \in 1..(readableBytes(b) - len) :
          SubSeq(readable(b), len + 1, readableBytes(b))[i]
            = readable(b)[len + i]
    BY <1>1
  <2> QED
    BY <1>1, <2>1, <2>2
<1>4. /\ readable(r) \in Seq(Bytes) /\ Len(readable(r)) = readableBytes(r)
      /\ \A i \in 1..readableBytes(r) :
           readable(r)[i] = r.buffer_[r.readerIndex_ + i]
  BY <1>2, ReadableProperties
<1>5. \A i \in 1..(readableBytes(b) - len) : readable(r)[i] = q[i]
  <2> TAKE i \in 1..(readableBytes(b) - len)
  <2>1. len < readableBytes(b) /\ r.readerIndex_ = b.readerIndex_ + len
    BY <1>1 DEF retrieve, Shape
  <2>2. len + i \in 1..readableBytes(b)
    BY <1>1
  <2>3. (b.readerIndex_ + len) + i = b.readerIndex_ + (len + i)
    BY <1>1 DEF Shape
  <2> QED
    BY <1>1, <1>2, <1>3, <1>4, <2>1, <2>2, <2>3
<1>6. readable(r) = q
  <2> HIDE DEF r, q
  <2> QED
    BY <1>2, <1>3, <1>4, <1>5, SeqEqual
<1> QED
  BY <1>2, <1>6
-----------------------------------------------------------------------------
(* The inductive invariant                                                  *)

Calls == [op : {"none", "put", "drop", "take"}, data : Seq(Bytes), len : Nat]

\* The constructor establishes the invariant.
LEMMA InitIInv == Init => IInv
<1> SUFFICES ASSUME Init PROVE IInv
  OBVIOUS
<1> DEFINE n == kCheapPrepend + InitialSize
           s == [i \in 1..n |-> Zero]
<1>1. n \in Nat
  BY SizesAssumption
<1>2. s \in [1..n -> Bytes]
  BY BytesAssumption
<1>3. s \in Seq(Bytes) /\ Len(s) = n
  BY <1>1, <1>2, LenProperties
<1> HIDE DEF s
<1>4. /\ buf.buffer_ = s /\ buf.readerIndex_ = kCheapPrepend
      /\ buf.writerIndex_ = kCheapPrepend
      /\ buf \in [buffer_ : Seq(Bytes), readerIndex_ : Nat,
                  writerIndex_ : Nat]
  BY <1>3, SizesAssumption DEF Init, s
<1>5. result = <<>> /\ asserted = TRUE /\ peak = 0 /\ <<>> \in Seq(Bytes)
  BY EmptySeq DEF Init
<1>6. call \in Calls
  BY <1>5 DEF Init, Calls
<1>7. TypeOK
  BY <1>3, <1>4, <1>5, <1>6, SizesAssumption, ReadableAssumption
     DEF TypeOK, IndicesInOrder, Calls
<1>8. SpaceBounded /\ readableBytes(buf) <= peak
  BY <1>3, <1>4, <1>5, SizesAssumption
     DEF SpaceBounded, readableBytes, larger
<1> QED
  BY <1>5, <1>7, <1>8 DEF IInv

\* A call leaves the invariant true when the buffer it leaves is in shape,
\* holds no more than the users pile up, and grew only as far as SpaceBounded
\* allows for what is readable then.
LEMMA BecomesStep ==
  ASSUME IInv, NEW b, Becomes(b), Shape(b), readableBytes(b) <= MaxReadable,
         \/ Len(b.buffer_) = Len(buf.buffer_)
         \/ Len(b.buffer_) <= kCheapPrepend + 2 * readableBytes(b),
         asserted' = TRUE, result' \in Seq(Bytes), call' \in Calls
  PROVE  IInv'
<1>1. /\ buf' = b /\ peak' = larger(peak, readableBytes(b))
      /\ readableBytes(b) \in Nat /\ peak \in Nat /\ peak <= MaxReadable
  BY ReadableProperties, ReadableAssumption DEF Becomes, IInv, TypeOK
<1>2. /\ peak' \in 0..MaxReadable /\ readableBytes(b) <= peak'
      /\ peak <= peak'
  BY <1>1, ReadableAssumption DEF larger
<1>3. TypeOK'
  BY <1>1, <1>2 DEF TypeOK, IndicesInOrder, Shape, Calls
<1>4. Len(b.buffer_) <= kCheapPrepend + larger(InitialSize, 2 * peak')
  <2>1. Len(buf.buffer_) <= kCheapPrepend + larger(InitialSize, 2 * peak)
    BY DEF IInv, SpaceBounded
  <2>2. Len(b.buffer_) \in Nat /\ Len(buf.buffer_) \in Nat
    BY DEF Shape, IInv, TypeOK
  <2>3. peak' \in Nat
    BY <1>2, ReadableAssumption
  <2> QED
    <3>1. CASE Len(b.buffer_) = Len(buf.buffer_)
      <4>1. larger(InitialSize, 2 * peak) <= larger(InitialSize, 2 * peak')
        BY <1>1, <1>2, <2>3, SizesAssumption DEF larger
      <4>2. /\ larger(InitialSize, 2 * peak) \in Nat
            /\ larger(InitialSize, 2 * peak') \in Nat
        BY <1>1, <2>3, SizesAssumption DEF larger
      <4> QED
        BY <2>1, <2>2, <3>1, <4>1, <4>2, SizesAssumption
    <3>2. CASE Len(b.buffer_) <= kCheapPrepend + 2 * readableBytes(b)
      <4>1. /\ 2 * readableBytes(b) <= larger(InitialSize, 2 * peak')
            /\ larger(InitialSize, 2 * peak') \in Nat
        BY <1>1, <1>2, <2>3, SizesAssumption DEF larger
      <4> QED
        BY <1>1, <2>2, <3>2, <4>1, SizesAssumption
    <3> QED
      BY <3>1, <3>2
<1>5. SpaceBounded' /\ (readableBytes(buf) <= peak)'
  BY <1>1, <1>2, <1>4 DEF SpaceBounded, readableBytes
<1> QED
  BY <1>3, <1>5 DEF IInv

\* What users append or readv() delivers is a string of bytes.
LEMMA StringsAreSeqs ==
  ASSUME NEW data \in Strings(MaxReadable)
  PROVE  data \in Seq(Bytes)
<1>1. PICK k \in 0..MaxReadable : data \in [1..k -> Bytes]
  BY DEF Strings
<1>2. k \in Nat
  BY ReadableAssumption
<1> QED
  BY <1>1, <1>2

\* What is noted of a call.
LEMMA CallTypes ==
  /\ \A data \in Seq(Bytes) : Puts(data) => call' \in Calls
  /\ \A len \in Nat :
       AsksFor("drop", len) \/ AsksFor("take", len) => call' \in Calls
<1>1. <<>> \in Seq(Bytes)
  BY EmptySeq
<1>2. \A data \in Seq(Bytes) : Puts(data) => call' \in Calls
  BY LenProperties DEF Puts, Calls
<1>3. ASSUME NEW len \in Nat, NEW op \in {"drop", "take"}, AsksFor(op, len)
      PROVE  call' \in Calls
  BY <1>1, <1>3 DEF AsksFor, Calls
<1> QED
  BY <1>2, <1>3

\* Every call leaves the invariant true.
LEMMA IInvStep == IInv /\ [Next]_vars => IInv'
<1> SUFFICES ASSUME IInv, [Next]_vars PROVE IInv'
  OBVIOUS
<1>1. /\ Shape(buf) /\ readableBytes(buf) \in Nat
      /\ readableBytes(buf) <= MaxReadable /\ <<>> \in Seq(Bytes)
  <2>1. Shape(buf)
    BY DEF IInv, TypeOK, IndicesInOrder, Shape
  <2>2. readableBytes(buf) \in Nat
    BY <2>1, ReadableProperties
  <2> QED
    BY <2>1, <2>2, EmptySeq, ReadableAssumption DEF IInv, TypeOK
<1>2. ASSUME NEW data \in Strings(MaxReadable), AppendData(data) PROVE IInv'
  <2>1. data \in Seq(Bytes) /\ Len(data) \in Nat
    BY StringsAreSeqs
  <2> DEFINE a == append(buf, data)
  <2>2. /\ Shape(a) /\ readableBytes(a) = readableBytes(buf) + Len(data)
        /\ \/ Len(a.buffer_) = Len(buf.buffer_)
           \/ Len(a.buffer_) <= kCheapPrepend + 2 * readableBytes(a)
        /\ appendAsserts(buf, Len(data))
    BY <1>1, <2>1, AppendLemma
  <2>3. /\ Len(data) <= MaxReadable - readableBytes(buf) /\ Becomes(a)
        /\ asserted' = appendAsserts(buf, Len(data)) /\ result' = <<>>
        /\ Puts(data)
    BY <1>2 DEF AppendData, Room
  <2> HIDE DEF a
  <2>4. readableBytes(a) <= MaxReadable
    BY <1>1, <2>1, <2>2, <2>3, ReadableAssumption
  <2>5. asserted' = TRUE
    BY <2>2, <2>3, Zenon
  <2>6. call' \in Calls
    BY <2>1, <2>3, CallTypes
  <2> QED
    BY <1>1, <2>2, <2>3, <2>4, <2>5, <2>6, BecomesStep
<1>3. ASSUME NEW data \in Strings(MaxReadable), ReadFd(data) PROVE IInv'
  <2>1. data \in Seq(Bytes) /\ Len(data) \in Nat
    BY StringsAreSeqs
  <2> DEFINE a == readFd(buf, data)
  <2>2. /\ Shape(a) /\ readableBytes(a) = readableBytes(buf) + Len(data)
        /\ \/ Len(a.buffer_) = Len(buf.buffer_)
           \/ Len(a.buffer_) <= kCheapPrepend + 2 * readableBytes(a)
        /\ readFdAsserts(buf, Len(data))
    BY <1>1, <2>1, ReadFdLemma
  <2>3. /\ Len(data) <= MaxReadable - readableBytes(buf) /\ Becomes(a)
        /\ asserted' = readFdAsserts(buf, Len(data)) /\ result' = <<>>
        /\ Puts(data)
    BY <1>3 DEF ReadFd, Room
  <2> HIDE DEF a
  <2>4. readableBytes(a) <= MaxReadable
    BY <1>1, <2>1, <2>2, <2>3, ReadableAssumption
  <2>5. asserted' = TRUE
    BY <2>2, <2>3, Zenon
  <2>6. call' \in Calls
    BY <2>1, <2>3, CallTypes
  <2> QED
    BY <1>1, <2>2, <2>3, <2>4, <2>5, <2>6, BecomesStep
<1>4. ASSUME NEW len \in 0..MaxReadable, len <= readableBytes(buf),
             Becomes(retrieve(buf, len)), asserted' = TRUE,
             result' \in Seq(Bytes), call' \in Calls
      PROVE  IInv'
  <2> DEFINE r == retrieve(buf, len)
  <2>1. /\ Shape(r) /\ readableBytes(r) = readableBytes(buf) - len
        /\ r.buffer_ = buf.buffer_
    BY <1>1, <1>4, RetrieveLemma
  <2>2. Becomes(r)
    BY <1>4
  <2> HIDE DEF r
  <2>3. readableBytes(r) <= MaxReadable
    BY <1>1, <2>1, ReadableAssumption
  <2> QED
    BY <1>4, <2>1, <2>2, <2>3, BecomesStep
<1>5. ASSUME NEW len \in 0..MaxReadable, Retrieve(len) PROVE IInv'
  <2>1. len \in Nat /\ AsksFor("drop", len)
    BY <1>5, ReadableAssumption DEF Retrieve
  <2>2. call' \in Calls
    BY <2>1, CallTypes
  <2> QED
    BY <1>1, <1>4, <1>5, <2>2 DEF Retrieve
<1>6. ASSUME NEW len \in 0..MaxReadable, RetrieveAsString(len) PROVE IInv'
  <2>1. len \in 0..Len(readable(buf)) /\ readable(buf) \in Seq(Bytes)
    BY <1>1, <1>6, ReadableProperties DEF RetrieveAsString
  <2>2. peeked(buf, len) \in Seq(Bytes)
    BY <2>1, SubSeqProperties DEF peeked
  <2>3. len \in Nat /\ AsksFor("take", len)
    BY <1>6, ReadableAssumption DEF RetrieveAsString
  <2>4. call' \in Calls
    BY <2>3, CallTypes
  <2> QED
    BY <1>4, <1>6, <2>2, <2>4 DEF RetrieveAsString
<1>7. CASE RetrieveAll
  <2> DEFINE r == retrieveAll(buf)
  <2>1. Shape(r) /\ readableBytes(r) = 0 /\ r.buffer_ = buf.buffer_
    BY <1>1, RetrieveAllLemma
  <2>2. /\ Becomes(r) /\ asserted' = TRUE /\ result' = <<>>
        /\ AsksFor("drop", readableBytes(buf))
    BY <1>7 DEF RetrieveAll
  <2> HIDE DEF r
  <2>3. readableBytes(r) <= MaxReadable
    BY <2>1, ReadableAssumption
  <2>4. call' \in Calls
    BY <1>1, <2>2, CallTypes
  <2> QED
    BY <1>1, <2>1, <2>2, <2>3, <2>4, BecomesStep
<1>8. CASE UNCHANGED vars
  BY <1>8 DEF vars, IInv, TypeOK, IndicesInOrder, SpaceBounded, readableBytes
<1> QED
  BY <1>2, <1>3, <1>5, <1>6, <1>7, <1>8 DEF Next

\* IInv is an invariant of a Buffer, whatever calls its users make.
THEOREM Invariance == Spec => []IInv
<1> QED
  BY InitIInv, IInvStep, PTL DEF Spec
-----------------------------------------------------------------------------
(* What follows from it                                                     *)

\* The asserts of ensureWriteableBytes() and hasWritten() hold, for every
\* initial size and every length of the data.
THEOREM AssertSafety == Spec => []AssertsHold
<1>1. IInv => AssertsHold
  BY DEF IInv, AssertsHold
<1> QED
  BY Invariance, <1>1, PTL

\* A Buffer never holds more than its initial size or twice the most that
\* ever waited in it.
THEOREM SpaceSafety == Spec => []SpaceBounded
<1>1. IInv => SpaceBounded
  BY DEF IInv
<1> QED
  BY Invariance, <1>1, PTL

\* A Buffer implements the queue of bytes: append() and readFd() put the bytes
\* they are given and no others, retrieve() and retrieveAll() drop and
\* retrieveAsString() takes as many as they are asked for; moving the bytes to
\* the front, growing and reading through extrabuf are not visible.
THEOREM Refinement == Spec => ByteQueueSpec
<1> DEFINE content == readable(buf)
<1>1. Init => Queue!Init
  <2> SUFFICES ASSUME Init PROVE Queue!Init
    OBVIOUS
  <2>1. Shape(buf) /\ readableBytes(buf) = 0
    <3>1. Shape(buf)
      BY InitIInv DEF IInv, TypeOK, IndicesInOrder, Shape
    <3>2. buf.readerIndex_ = kCheapPrepend /\ buf.writerIndex_ = kCheapPrepend
      BY DEF Init
    <3> QED
      BY <3>1, <3>2, SizesAssumption DEF readableBytes
  <2>2. readable(buf) \in Seq(Bytes) /\ Len(readable(buf)) = 0
    BY <2>1, ReadableProperties
  <2>3. readable(buf) = <<>>
    BY <2>2, EmptySeq
  <2> QED
    BY <2>3 DEF Init, Queue!Init
<1>2. IInv /\ [Next]_vars => [Queue!Next]_(Queue!vars)
  <2> SUFFICES ASSUME IInv, [Next]_vars PROVE [Queue!Next]_(Queue!vars)
    OBVIOUS
  <2>1. Shape(buf)
    BY DEF IInv, TypeOK, IndicesInOrder, Shape
  <2>2. /\ content \in Seq(Bytes) /\ Len(content) = readableBytes(buf)
        /\ readableBytes(buf) \in Nat
    BY <2>1, ReadableProperties
  <2>3. ASSUME NEW data \in Seq(Bytes), content' = content \o data,
               result' = <<>>, Puts(data)
        PROVE  Queue!Next
    <3>1. call'.op = "put" /\ call'.data = data
      BY <2>3 DEF Puts
    <3> QED
      BY <2>3, <3>1 DEF Queue!Next, Queue!Put
  <2>4. ASSUME NEW data \in Strings(MaxReadable), AppendData(data)
        PROVE  Queue!Next
    <3>1. data \in Seq(Bytes)
      BY StringsAreSeqs
    <3>2. readable(append(buf, data)) = content \o data
      BY <2>1, <3>1, AppendLemma
    <3>3. buf' = append(buf, data) /\ result' = <<>> /\ Puts(data)
      BY <2>4 DEF AppendData, Becomes
    <3> QED
      BY <2>3, <3>1, <3>2, <3>3
  <2>5. ASSUME NEW data \in Strings(MaxReadable), ReadFd(data)
        PROVE  Queue!Next
    <3>1. data \in Seq(Bytes)
      BY StringsAreSeqs
    <3>2. readable(readFd(buf, data)) = content \o data
      BY <2>1, <3>1, ReadFdLemma
    <3>3. buf' = readFd(buf, data) /\ result' = <<>> /\ Puts(data)
      BY <2>5 DEF ReadFd, Becomes
    <3> QED
      BY <2>3, <3>1, <3>2, <3>3
  <2>6. ASSUME NEW len \in 0..MaxReadable, len <= readableBytes(buf),
               buf' = retrieve(buf, len)
        PROVE  /\ len \in 0..Len(content)
               /\ content' = SubSeq(content, len + 1, Len(content))
    <3>1. len \in Nat /\ len \in 0..Len(content)
      BY <2>2, <2>6
    <3>2. readable(retrieve(buf, len))
            = SubSeq(content, len + 1, Len(content))
      BY <2>1, <2>6, <3>1, RetrieveLemma
    <3> QED
      BY <2>6, <3>1, <3>2
  <2>7. ASSUME NEW len \in 0..MaxReadable, Retrieve(len)
        PROVE  Queue!Next
    <3>1. /\ len \in 0..Len(content) /\ result' = <<>>
          /\ content' = SubSeq(content, len + 1, Len(content))
      BY <2>6, <2>7 DEF Retrieve, Becomes
    <3>2. call'.op = "drop" /\ call'.len = len
      BY <2>7 DEF Retrieve, AsksFor
    <3> QED
      BY <3>1, <3>2 DEF Queue!Next, Queue!Drop, Queue!Rest
  <2>8. ASSUME NEW len \in 0..MaxReadable, RetrieveAsString(len)
        PROVE  Queue!Next
    <3>1. /\ len \in 0..Len(content)
          /\ content' = SubSeq(content, len + 1, Len(content))
          /\ result' = SubSeq(content, 1, len)
      BY <2>6, <2>8 DEF RetrieveAsString, Becomes, peeked
    <3>2. call'.op = "take" /\ call'.len = len
      BY <2>8 DEF RetrieveAsString, AsksFor
    <3> QED
      BY <3>1, <3>2 DEF Queue!Next, Queue!Take, Queue!Rest
  <2>9. ASSUME RetrieveAll PROVE Queue!Next
    <3>1. content' = <<>> /\ result' = <<>>
      BY <2>1, <2>9, RetrieveAllLemma DEF RetrieveAll, Becomes
    <3>2. call'.op = "drop" /\ call'.len = Len(content)
      BY <2>2, <2>9 DEF RetrieveAll, AsksFor
    <3>3. /\ SubSeq(content, Len(content) + 1, Len(content)) = <<>>
          /\ Len(content) \in 0..Len(content)
      BY <2>2, SubSeqEmpty
    <3> QED
      BY <3>1, <3>2, <3>3 DEF Queue!Next, Queue!Drop, Queue!Rest
  <2>10. CASE UNCHANGED vars
    BY <2>10 DEF vars, Queue!vars
  <2> QED
    BY <2>4, <2>5, <2>7, <2>8, <2>9, <2>10 DEF Next
<1> QED
  BY <1>1, <1>2, Invariance, PTL DEF Spec, ByteQueueSpec, Queue!Spec
=============================================================================
