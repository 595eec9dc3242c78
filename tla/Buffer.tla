------------------------------- MODULE Buffer -------------------------------
(***************************************************************************)
(* src/net/Buffer.{h,cc}: the byte buffer of a connection.  A Buffer is a   *)
(* record of its three fields; its readable bytes are those from            *)
(* readerIndex_ up to writerIndex_ (C++ offsets, so buffer_[i + 1] here).   *)
(*                                                                          *)
(* The operations are operators on such a record, and the actions are the   *)
(* calls a user makes, one thread at a time.  asserted says whether every   *)
(* assert() the last call went through held.                                *)
(***************************************************************************)
EXTENDS Integers, Sequences

CONSTANTS
  Bytes, Zero,          \* the values of a char, and the one resize() fills with
  kCheapPrepend, InitialSize,
  ExtraSize,            \* sizeof extrabuf in readFd()
  MaxReadable           \* bound: readable bytes the users pile up

ASSUME BytesAssumption == Zero \in Bytes
ASSUME SizesAssumption == /\ kCheapPrepend \in Nat
                          /\ InitialSize \in Nat
                          /\ ExtraSize \in Nat
ASSUME ReadableAssumption == MaxReadable \in Nat

VARIABLES
  buf,                  \* the Buffer
  result,               \* the string the last call returned, if it returns one
  asserted,             \* did the asserts of the last call hold?
  peak,                 \* history: the most bytes ever readable at once
  call                  \* history: the last call and its arguments

vars == <<buf, result, asserted, peak, call>>

larger(m, n) == IF m > n THEN m ELSE n

readableBytes(b) == b.writerIndex_ - b.readerIndex_
writableBytes(b) == Len(b.buffer_) - b.writerIndex_
prependableBytes(b) == b.readerIndex_

\* The bytes from peek() to beginWrite()
readable(b) == SubSeq(b.buffer_, b.readerIndex_ + 1, b.writerIndex_)

Init ==
  /\ buf = [buffer_ |-> [i \in 1..(kCheapPrepend + InitialSize) |-> Zero],
            readerIndex_ |-> kCheapPrepend, writerIndex_ |-> kCheapPrepend]
  /\ result = <<>> /\ asserted = TRUE /\ peak = 0
  /\ call = [op |-> "none", data |-> <<>>, len |-> 0]
-----------------------------------------------------------------------------
(* Writing                                                                  *)

\* Bytes copied to offset at: std::copy(), or readv() into vec[0]
overwritten(s, at, data) ==
  [i \in DOMAIN s |-> IF i - at \in DOMAIN data THEN data[i - at] ELSE s[i]]

resized(s, n) == [i \in 1..n |-> IF i \in DOMAIN s THEN s[i] ELSE Zero]

movedToFront(b) ==
  [buffer_ |-> overwritten(b.buffer_, kCheapPrepend, readable(b)),
   readerIndex_ |-> kCheapPrepend,
   writerIndex_ |-> kCheapPrepend + readableBytes(b)]

\* mutants of tooSmall: forgetting kCheapPrepend, never moving to the front
tooSmallForAll(b, len) == writableBytes(b) + prependableBytes(b) < len
alwaysTooSmall(b, len) == TRUE

tooSmall(b, len) ==
  writableBytes(b) + prependableBytes(b) < len + kCheapPrepend

makeSpace(b, len) ==
  IF tooSmall(b, len)
    THEN [b EXCEPT !.buffer_ = resized(@, b.writerIndex_ + len)]
    ELSE movedToFront(b)

ensureWriteableBytes(b, len) ==
  IF writableBytes(b) < len THEN makeSpace(b, len) ELSE b

hasWritten(b, len) == [b EXCEPT !.writerIndex_ = @ + len]

append(b, data) ==
  LET roomy == ensureWriteableBytes(b, Len(data))
      filled == [roomy EXCEPT
                   !.buffer_ = overwritten(@, roomy.writerIndex_, data)]
  IN hasWritten(filled, Len(data))

\* ensureWriteableBytes() line 66, and with it hasWritten() line 74
appendAsserts(b, len) == writableBytes(ensureWriteableBytes(b, len)) >= len

\* The most readv() can return: vec[1] counts only when vec[0] is short
readLimit(b) ==
  IF writableBytes(b) < ExtraSize THEN writableBytes(b) + ExtraSize
                                  ELSE writableBytes(b)

\* mutant of readFd: what went into extrabuf is forgotten
readFdShort(b, data) ==
  LET n == IF Len(data) <= writableBytes(b) THEN Len(data)
                                            ELSE writableBytes(b)
  IN hasWritten([b EXCEPT !.buffer_ =
                   overwritten(@, b.writerIndex_, SubSeq(data, 1, n))], n)

\* readFd() when readv() got data: what fits goes into vec[0], the rest into
\* extrabuf and from there through append()
readFd(b, data) ==
  LET writable == writableBytes(b)
      n == Len(data)
      fits == IF n <= writable THEN data ELSE SubSeq(data, 1, writable)
      direct == [b EXCEPT !.buffer_ = overwritten(@, b.writerIndex_, fits)]
  IN IF n <= writable
       THEN hasWritten(direct, n)
       ELSE append(hasWritten(direct, writable), SubSeq(data, writable + 1, n))

readFdAsserts(b, n) ==
  LET writable == writableBytes(b)
  IN n > writable => appendAsserts(hasWritten(b, writable), n - writable)
-----------------------------------------------------------------------------
(* Reading                                                                  *)

retrieveAll(b) == [b EXCEPT !.readerIndex_ = kCheapPrepend,
                            !.writerIndex_ = kCheapPrepend]

retrieve(b, len) ==
  IF len < readableBytes(b) THEN [b EXCEPT !.readerIndex_ = @ + len]
                            ELSE retrieveAll(b)

\* std::string(peek(), len)
peeked(b, len) == SubSeq(readable(b), 1, len)
-----------------------------------------------------------------------------
(* The calls                                                                *)

Strings(n) == UNION {[1..k -> Bytes] : k \in 0..n}

Room == MaxReadable - readableBytes(buf)

Becomes(b) == buf' = b /\ peak' = larger(peak, readableBytes(b))

\* What the caller hands in, or asks for: independent of what the call does
Puts(data) == call' = [op |-> "put", data |-> data, len |-> Len(data)]
AsksFor(op, len) == call' = [op |-> op, data |-> <<>>, len |-> len]

AppendData(data) ==
  /\ Len(data) <= Room
  /\ Puts(data)
  /\ Becomes(append(buf, data))
  /\ asserted' = appendAsserts(buf, Len(data))
  /\ result' = <<>>

\* A readv() that fails (-1) or meets the peer's end (0) changes nothing
ReadFd(data) ==
  /\ Len(data) \in 1..readLimit(buf) /\ Len(data) <= Room
  /\ Puts(data)
  /\ Becomes(readFd(buf, data))
  /\ asserted' = readFdAsserts(buf, Len(data))
  /\ result' = <<>>

\* retrieve(len), retrieveUntil(peek() + len)
Retrieve(len) ==
  /\ len <= readableBytes(buf)
  /\ AsksFor("drop", len)
  /\ Becomes(retrieve(buf, len))
  /\ asserted' = TRUE
  /\ result' = <<>>

RetrieveAll ==
  /\ AsksFor("drop", readableBytes(buf))
  /\ Becomes(retrieveAll(buf))
  /\ asserted' = TRUE
  /\ result' = <<>>

\* retrieveAsString(len); retrieveAllAsString() is len = readableBytes()
RetrieveAsString(len) ==
  /\ len <= readableBytes(buf)
  /\ AsksFor("take", len)
  /\ result' = peeked(buf, len)
  /\ Becomes(retrieve(buf, len))
  /\ asserted' = TRUE

Next ==
  \/ \E data \in Strings(MaxReadable) : AppendData(data) \/ ReadFd(data)
  \/ \E len \in 0..MaxReadable : Retrieve(len) \/ RetrieveAsString(len)
  \/ RetrieveAll

Spec == Init /\ [][Next]_vars
-----------------------------------------------------------------------------
(* Properties                                                               *)

\* The prependable, readable and writable areas never overlap and the first
\* is never smaller than kCheapPrepend, whatever calls moved the indices.
IndicesInOrder ==
  /\ kCheapPrepend <= buf.readerIndex_
  /\ buf.readerIndex_ <= buf.writerIndex_
  /\ buf.writerIndex_ <= Len(buf.buffer_)

\* The buffer's shape: its areas in order, and results and history of their
\* types.
TypeOK ==
  /\ buf \in [buffer_ : Seq(Bytes), readerIndex_ : Nat, writerIndex_ : Nat]
  /\ IndicesInOrder
  /\ result \in Seq(Bytes)
  /\ asserted \in BOOLEAN
  /\ peak \in 0..MaxReadable
  /\ call \in [op : {"none", "put", "drop", "take"}, data : Seq(Bytes),
               len : Nat]

\* The asserts of ensureWriteableBytes() and hasWritten() hold: makeSpace()
\* always makes room for what is about to be written, and leaves the areas of
\* the buffer in order.
AssertsHold == TypeOK /\ asserted

\* The readable area is written over before it grows: however long the
\* buffer is used, it holds at most its initial size or kCheapPrepend and
\* twice the most bytes that were ever waiting in it.
SpaceBounded ==
  Len(buf.buffer_) <= kCheapPrepend + larger(InitialSize, 2 * peak)

Queue == INSTANCE ByteQueue WITH content <- readable(buf), taken <- result

\* A Buffer is a queue of bytes: exactly the bytes given to append() or read by
\* readv() come behind those waiting, exactly as many as retrieve() is asked
\* for go from the front, and moving, growing and the way through extrabuf
\* lose, repeat or disturb none.
ByteQueueSpec == Queue!Spec
=============================================================================
