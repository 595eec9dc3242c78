------------------------ MODULE HttpConnectionProofs ------------------------
(***************************************************************************)
(* What one HTTP connection guarantees for any requests, any number of them *)
(* and any cut of their bytes into messages: a body is awaited only with    *)
(* its length known, whatever the peer sends; and as long as the requests   *)
(* conform, the i-th response is what the i-th request deserves.            *)
(*                                                                          *)
(* The argument: the tokens that are still unread are those of the requests *)
(* not yet answered, in order, less a prefix of the first of them, and the  *)
(* parser's state says exactly which prefix.  The place of each request in  *)
(* the unread tokens is given by a function that the invariant asserts to   *)
(* exist.                                                                   *)
(***************************************************************************)
EXTENDS HttpConnection, Integers, SequenceTheorems, TLAPS

IsSeq(s) == \E S : s \in Seq(S)

unread == inputBuf \o flight

\* The headers that may come only once
Special == {"Content-Type", "Content-Length"}

\* The request's first line has been parsed
LineRead(r) ==
  /\ method_ = r.method /\ path_ = pageOf(r.page) /\ version_ = r.version
  /\ r.method # "?" /\ path_ \notin Missing \cup Forbidden

\* header is what the first h headers of r make of the empty map
HeadersRead(header, r, h) ==
  /\ DOMAIN header = {r.headers[i][1] : i \in 1..h}
  /\ \A i \in 1..h : r.headers[i][1] # "?"
  /\ \A name \in DOMAIN header :
       \E i \in 1..h : r.headers[i][1] = name /\ r.headers[i][2] = header[name]

Fresh == parseState_ = "kRequestLine" /\ header_ = NoHeaders

\* The parser has taken the first p tokens of r
AtHeader(r, p) ==
  /\ parseState_ = "kHeader" /\ LineRead(r)
  /\ \E h \in 0..Len(r.headers) : p = 2 + 2 * h /\ HeadersRead(header_, r, h)

AtBody(r, p) ==
  /\ parseState_ = "kBody" /\ LineRead(r) /\ HasBody
  /\ p = 2 * Len(r.headers) + 3 /\ HeadersRead(header_, r, Len(r.headers))

Place(r, p) == (Fresh /\ p = 0) \/ AtHeader(r, p) \/ AtBody(r, p)

\* s is the tokens of the requests rs after the k-th, less the first p:
\* token j of request i is s[at[i] + j], if it is in s at all
Layout(at, rs, k, p, s) ==
  /\ at \in [(k + 1)..(Len(rs) + 1) -> Int]
  /\ at[k + 1] = -p /\ at[Len(rs) + 1] = Len(s)
  /\ \A i \in (k + 1)..Len(rs) : at[i + 1] = at[i] + Len(Tokens(rs[i]))
  /\ \A i \in (k + 1)..Len(rs) : at[i + 1] <= Len(s)
  /\ \A i \in (k + 1)..Len(rs) : \A j \in 1..Len(Tokens(rs[i])) :
       at[i] + j >= 1 => s[at[i] + j] = Tokens(rs[i])[j]

Laid(rs, k, p, s) == \E at : Layout(at, rs, k, p, s)

Parsing(p) ==
  /\ body_ = <<>>
  /\ IF Len(responses) < Len(requests)
       THEN Place(requests[Len(responses) + 1], p)
       ELSE Fresh /\ p = 0

\* Where the parser stands in the stream of requests
Synced ==
  /\ IsSeq(inputBuf) /\ IsSeq(flight)
  /\ \E p \in Nat : Laid(requests, Len(responses), p, unread) /\ Parsing(p)

Matched ==
  /\ Len(responses) <= Len(requests)
  /\ \A i \in DOMAIN responses : responses[i] = Deserved(requests[i])

TypeInv == TypeOK /\ IsSeq(responses) /\ IsSeq(stray)

\* Once the connection is shut down no response is added, and nothing more
\* has to be known of the parser.
MatchInv == Matched /\ (state_ = "kConnected" => Synced)
-----------------------------------------------------------------------------
(* Sequences                                                                *)

\* What append, concatenation and part of a sequence are, without a set of
\* elements.
LEMMA IsSeqAppend ==
  ASSUME NEW s, IsSeq(s), NEW e
  PROVE  /\ IsSeq(Append(s, e)) /\ Len(s) \in Nat
         /\ DOMAIN s = 1..Len(s)
         /\ Len(Append(s, e)) = Len(s) + 1
         /\ DOMAIN Append(s, e) = 1..(Len(s) + 1)
         /\ \A i \in 1..Len(s) : Append(s, e)[i] = s[i]
         /\ Append(s, e)[Len(s) + 1] = e
<1>1. PICK S : s \in Seq(S)
  BY DEF IsSeq
<1> DEFINE U == S \cup {e}
<1>2. s \in Seq(U) /\ e \in U
  BY <1>1
<1> HIDE DEF U
<1>3. Append(s, e) \in Seq(U)
  BY <1>2
<1>4. IsSeq(Append(s, e))
  BY <1>3 DEF IsSeq
<1> QED
  BY <1>2, <1>3, <1>4

LEMMA IsSeqConcat ==
  ASSUME NEW s, IsSeq(s), NEW t, IsSeq(t)
  PROVE  /\ IsSeq(s \o t) /\ Len(s) \in Nat /\ Len(t) \in Nat
         /\ Len(s \o t) = Len(s) + Len(t)
         /\ \A i \in 1..Len(s) : (s \o t)[i] = s[i]
         /\ \A i \in 1..Len(t) : (s \o t)[Len(s) + i] = t[i]
<1>1. PICK S : s \in Seq(S)
  BY DEF IsSeq
<1>2. PICK R : t \in Seq(R)
  BY DEF IsSeq
<1> DEFINE U == S \cup R
<1>3. s \in Seq(U) /\ t \in Seq(U)
  BY <1>1, <1>2
<1> HIDE DEF U
<1>4. s \o t \in Seq(U)
  BY <1>3
<1>5. IsSeq(s \o t)
  BY <1>4 DEF IsSeq
<1>6. \A i \in 1..Len(t) : (s \o t)[Len(s) + i] = t[i]
  BY <1>3
<1> QED
  BY <1>3, <1>4, <1>5, <1>6

LEMMA IsSeqRest ==
  ASSUME NEW s, IsSeq(s), NEW c \in 0..Len(s)
  PROVE  /\ IsSeq(SubSeq(s, c + 1, Len(s)))
         /\ Len(SubSeq(s, c + 1, Len(s))) = Len(s) - c
         /\ \A i \in 1..(Len(s) - c) : SubSeq(s, c + 1, Len(s))[i] = s[c + i]
<1>1. PICK S : s \in Seq(S)
  BY DEF IsSeq
<1>2. SubSeq(s, c + 1, Len(s)) \in Seq(S)
  BY <1>1, SubSeqProperties
<1>3. IsSeq(SubSeq(s, c + 1, Len(s)))
  BY <1>2 DEF IsSeq
<1>4. Len(SubSeq(s, c + 1, Len(s))) = Len(s) - c
  BY <1>1, SubSeqProperties
<1>5. \A i \in 1..(Len(s) - c) : SubSeq(s, c + 1, Len(s))[i] = s[c + i]
  BY <1>1
<1> QED
  BY <1>3, <1>4, <1>5

LEMMA IsSeqFront ==
  ASSUME NEW s, IsSeq(s), NEW c \in 0..Len(s)
  PROVE  /\ IsSeq(SubSeq(s, 1, c))
         /\ Len(SubSeq(s, 1, c)) = c
         /\ \A i \in 1..c : SubSeq(s, 1, c)[i] = s[i]
<1>1. PICK S : s \in Seq(S)
  BY DEF IsSeq
<1>2. SubSeq(s, 1, c) \in Seq(S)
  BY <1>1, SubSeqProperties
<1>3. IsSeq(SubSeq(s, 1, c))
  BY <1>2 DEF IsSeq
<1>4. Len(SubSeq(s, 1, c)) = c
  BY <1>1, SubSeqProperties
<1>5. \A i \in 1..c : SubSeq(s, 1, c)[i] = s[i]
  BY <1>1
<1> QED
  BY <1>3, <1>4, <1>5

\* Two sequences of the same length with the same elements are equal.
LEMMA IsSeqEqual ==
  ASSUME NEW s, IsSeq(s), NEW t, IsSeq(t), Len(s) = Len(t),
         \A i \in 1..Len(s) : s[i] = t[i]
  PROVE  s = t
<1>1. PICK S : s \in Seq(S)
  BY DEF IsSeq
<1>2. PICK R : t \in Seq(R)
  BY DEF IsSeq
<1> DEFINE U == S \cup R
<1>3. s \in Seq(U) /\ t \in Seq(U)
  BY <1>1, <1>2
<1> HIDE DEF U
<1> QED
  BY <1>3, SeqEqual

LEMMA ConcatAssociates ==
  ASSUME NEW s, IsSeq(s), NEW t, IsSeq(t), NEW u, IsSeq(u)
  PROVE  (s \o t) \o u = s \o (t \o u)
<1>1. PICK S : s \in Seq(S)
  BY DEF IsSeq
<1>2. PICK R : t \in Seq(R)
  BY DEF IsSeq
<1>3. PICK Q : u \in Seq(Q)
  BY DEF IsSeq
<1> DEFINE U == S \cup R \cup Q
<1>4. s \in Seq(U) /\ t \in Seq(U) /\ u \in Seq(U)
  BY <1>1, <1>2, <1>3
<1> HIDE DEF U
<1> QED
  BY <1>4, ConcatAssociative

\* Reading moves tokens from the flight to the buffer: what is unread stays.
LEMMA ReadKeeps ==
  ASSUME NEW b, IsSeq(b), NEW f, IsSeq(f), NEW c \in 0..Len(f)
  PROVE  /\ (b \o SubSeq(f, 1, c)) \o SubSeq(f, c + 1, Len(f)) = b \o f
         /\ IsSeq(b \o SubSeq(f, 1, c)) /\ IsSeq(SubSeq(f, c + 1, Len(f)))
<1> DEFINE u == SubSeq(f, 1, c)
           v == SubSeq(f, c + 1, Len(f))
           bu == b \o u
           l == bu \o v
           r == b \o f
<1>1. IsSeq(u) /\ Len(u) = c /\ (\A i \in 1..c : u[i] = f[i])
  BY IsSeqFront
<1>2. IsSeq(v) /\ Len(v) = Len(f) - c
        /\ (\A i \in 1..(Len(f) - c) : v[i] = f[c + i])
  BY IsSeqRest
<1> HIDE DEF u, v
<1>a. IsSeq(u) /\ IsSeq(v)
  BY <1>1, <1>2
<1>b. /\ IsSeq(bu) /\ Len(b) \in Nat /\ Len(bu) = Len(b) + Len(u)
      /\ \A i \in 1..Len(b) : bu[i] = b[i]
      /\ \A i \in 1..Len(u) : bu[Len(b) + i] = u[i]
  BY <1>a, IsSeqConcat
<1> HIDE DEF bu
<1>3. /\ IsSeq(bu) /\ Len(b) \in Nat /\ Len(bu) = Len(b) + c
      /\ \A i \in 1..Len(b) : bu[i] = b[i]
      /\ \A i \in 1..c : bu[Len(b) + i] = u[i]
  BY <1>b, <1>1
<1>c. IsSeq(bu)
  BY <1>3
<1>4. /\ IsSeq(l) /\ Len(l) = Len(bu) + Len(v)
      /\ \A i \in 1..Len(bu) : l[i] = bu[i]
      /\ \A i \in 1..Len(v) : l[Len(bu) + i] = v[i]
  BY <1>a, <1>c, IsSeqConcat
<1> HIDE DEF l
<1>5. /\ IsSeq(r) /\ Len(r) = Len(b) + Len(f) /\ Len(f) \in Nat
      /\ \A i \in 1..Len(b) : r[i] = b[i]
      /\ \A i \in 1..Len(f) : r[Len(b) + i] = f[i]
  <2>1. IsSeq(r) /\ Len(r) = Len(b) + Len(f) /\ Len(f) \in Nat
    BY IsSeqConcat
  <2>2. \A i \in 1..Len(b) : r[i] = b[i]
    BY IsSeqConcat
  <2>3. \A i \in 1..Len(f) : r[Len(b) + i] = f[i]
    BY IsSeqConcat
  <2> QED
    BY <2>1, <2>2, <2>3
<1> HIDE DEF r
<1>6. Len(l) = Len(r)
  BY <1>2, <1>3, <1>4, <1>5
<1>7. ASSUME NEW i \in 1..Len(l)
      PROVE  l[i] = r[i]
  <2>1. CASE i \in 1..Len(b)
    BY <2>1, <1>3, <1>4, <1>5
  <2>2. CASE i \in (Len(b) + 1)..(Len(b) + c)
    <3> DEFINE m == i - Len(b)
    <3>1. m \in 1..c /\ i = Len(b) + m /\ m \in 1..Len(f) /\ i \in 1..Len(bu)
      BY <2>2, <1>3, <1>5
    <3> HIDE DEF m
    <3>2. l[i] = f[m]
      BY <3>1, <1>1, <1>3, <1>4
    <3> QED
      BY <3>1, <3>2, <1>5
  <2>3. CASE i \in (Len(b) + c + 1)..Len(l)
    <3> DEFINE m == i - (Len(b) + c)
    <3>1. /\ m \in 1..(Len(f) - c) /\ i = Len(bu) + m /\ m \in 1..Len(v)
          /\ c + m \in 1..Len(f) /\ i = Len(b) + (c + m)
      BY <2>3, <1>2, <1>3, <1>4, <1>5
    <3> HIDE DEF m
    <3>2. l[i] = f[c + m]
      BY <3>1, <1>2, <1>4
    <3> QED
      BY <3>1, <3>2, <1>5
  <2> QED
    BY <2>1, <2>2, <2>3, <1>3, <1>4
<1>8. l = r
  BY <1>4, <1>5, <1>6, <1>7, IsSeqEqual
<1> QED
  BY <1>2, <1>3, <1>8 DEF l, r, bu, u, v

\* Taking c tokens from the buffer takes the first c of what is unread.
LEMMA TakeShifts ==
  ASSUME NEW b, IsSeq(b), NEW f, IsSeq(f), NEW c \in 0..Len(b)
  PROVE  /\ SubSeq(b, c + 1, Len(b)) \o f = SubSeq(b \o f, c + 1, Len(b \o f))
         /\ IsSeq(SubSeq(b, c + 1, Len(b)))
<1> DEFINE v == SubSeq(b, c + 1, Len(b))
           l == v \o f
           w == b \o f
           r == SubSeq(w, c + 1, Len(w))
<1>1. IsSeq(v) /\ Len(v) = Len(b) - c
        /\ (\A i \in 1..(Len(b) - c) : v[i] = b[c + i])
  BY IsSeqRest
<1> HIDE DEF v
<1>a. IsSeq(v)
  BY <1>1
<1>2. /\ IsSeq(l) /\ Len(l) = Len(v) + Len(f)
      /\ \A i \in 1..Len(v) : l[i] = v[i]
      /\ \A i \in 1..Len(f) : l[Len(v) + i] = f[i]
  BY <1>a, IsSeqConcat
<1>3. /\ IsSeq(w) /\ Len(w) = Len(b) + Len(f)
      /\ Len(b) \in Nat /\ Len(f) \in Nat
      /\ \A i \in 1..Len(b) : w[i] = b[i]
      /\ \A i \in 1..Len(f) : w[Len(b) + i] = f[i]
  BY IsSeqConcat
<1> HIDE DEF w, l
<1>4. c \in 0..Len(w)
  BY <1>3
<1>5. IsSeq(r) /\ Len(r) = Len(w) - c
        /\ (\A i \in 1..(Len(w) - c) : r[i] = w[c + i])
  BY <1>3, <1>4, IsSeqRest
<1> HIDE DEF r
<1>6. Len(l) = Len(r)
  BY <1>1, <1>2, <1>3, <1>5
<1>7. ASSUME NEW i \in 1..Len(l)
      PROVE  l[i] = r[i]
  <2>1. i \in 1..(Len(w) - c) /\ r[i] = w[c + i]
    BY <1>5, <1>6, <1>3
  <2>2. CASE i \in 1..Len(v)
    <3>1. c + i \in 1..Len(b) /\ i \in 1..(Len(b) - c)
      BY <2>2, <1>1, <1>3
    <3> QED
      BY <2>1, <2>2, <3>1, <1>1, <1>2, <1>3
  <2>3. CASE i \in (Len(v) + 1)..Len(l)
    <3> DEFINE m == i - Len(v)
    <3>1. m \in 1..Len(f) /\ i = Len(v) + m /\ c + i = Len(b) + m
      BY <2>3, <1>1, <1>2, <1>3
    <3> HIDE DEF m
    <3> QED
      BY <2>1, <3>1, <1>2, <1>3
  <2> QED
    BY <2>2, <2>3, <1>1, <1>2, <1>3
<1>8. l = r
  BY <1>2, <1>5, <1>6, <1>7, IsSeqEqual
<1> QED
  BY <1>1, <1>8 DEF l, r, v, w
-----------------------------------------------------------------------------
(* Where the requests lie in the unread tokens                              *)

\* A request that is sent comes last.
LEMMA LaidAppend ==
  ASSUME NEW rs, IsSeq(rs), NEW k \in 0..Len(rs), NEW p \in Nat,
         NEW s, IsSeq(s), Laid(rs, k, p, s), NEW r, IsSeq(Tokens(r))
  PROVE  Laid(Append(rs, r), k, p, s \o Tokens(r))
<1> DEFINE n == Len(rs)
           T == Tokens(r)
           qs == Append(rs, r)
           t == s \o T
<1>1. /\ n \in Nat /\ Len(qs) = n + 1 /\ k \in 0..n
      /\ \A i \in 1..n : qs[i] = rs[i]
      /\ qs[n + 1] = r
  BY IsSeqAppend
<1>2. /\ Len(s) \in Nat /\ Len(T) \in Nat /\ Len(t) = Len(s) + Len(T)
      /\ \A i \in 1..Len(s) : t[i] = s[i]
      /\ \A i \in 1..Len(T) : t[Len(s) + i] = T[i]
  BY IsSeqConcat
<1>3. PICK at : Layout(at, rs, k, p, s)
  BY DEF Laid
<1>4. /\ at \in [(k + 1)..(n + 1) -> Int]
      /\ at[k + 1] = -p /\ at[n + 1] = Len(s)
      /\ \A i \in (k + 1)..n : at[i + 1] = at[i] + Len(Tokens(rs[i]))
      /\ \A i \in (k + 1)..n : at[i + 1] <= Len(s)
      /\ \A i \in (k + 1)..n : \A j \in 1..Len(Tokens(rs[i])) :
           at[i] + j >= 1 => s[at[i] + j] = Tokens(rs[i])[j]
  BY <1>3 DEF Layout
<1> HIDE DEF n, T, qs, t
<1> DEFINE on == [i \in (k + 1)..(n + 2) |->
                    IF i = n + 2 THEN Len(t) ELSE at[i]]
<1>5. \A i \in (k + 1)..(n + 1) : on[i] = at[i] /\ on[i] \in Int
  BY <1>1, <1>4
<1>6. on[n + 2] = Len(t) /\ on \in [(k + 1)..(n + 2) -> Int]
  BY <1>1, <1>2, <1>4
<1> HIDE DEF on
<1>7. \A i \in (k + 1)..(n + 1) : on[i + 1] = on[i] + Len(Tokens(qs[i]))
  <2> SUFFICES ASSUME NEW i \in (k + 1)..(n + 1)
               PROVE  on[i + 1] = on[i] + Len(Tokens(qs[i]))
    OBVIOUS
  <2>1. CASE i = n + 1
    <3>1. Tokens(qs[i]) = T
      BY <2>1, <1>1 DEF T
    <3>2. i + 1 = n + 2 /\ on[i] = Len(s)
      BY <2>1, <1>1, <1>4, <1>5
    <3> QED
      BY <3>1, <3>2, <1>2, <1>6
  <2>2. CASE i # n + 1
    <3>1. i \in (k + 1)..n /\ i \in 1..n /\ i + 1 \in (k + 1)..(n + 1)
      BY <2>2, <1>1
    <3> QED
      BY <3>1, <1>1, <1>4, <1>5
  <2> QED
    BY <2>1, <2>2
<1>8. \A i \in (k + 1)..(n + 1) : on[i + 1] <= Len(t)
  <2> SUFFICES ASSUME NEW i \in (k + 1)..(n + 1)
               PROVE  on[i + 1] <= Len(t)
    OBVIOUS
  <2>1. CASE i = n + 1
    BY <2>1, <1>1, <1>2, <1>6
  <2>2. CASE i # n + 1
    <3>1. i \in (k + 1)..n /\ i + 1 \in (k + 1)..(n + 1)
      BY <2>2, <1>1
    <3>2. on[i + 1] = at[i + 1] /\ at[i + 1] <= Len(s) /\ at[i + 1] \in Int
      BY <3>1, <1>4, <1>5
    <3> QED
      BY <3>2, <1>2
  <2> QED
    BY <2>1, <2>2
<1>9. \A i \in (k + 1)..(n + 1) : \A j \in 1..Len(Tokens(qs[i])) :
        on[i] + j >= 1 => t[on[i] + j] = Tokens(qs[i])[j]
  <2> SUFFICES ASSUME NEW i \in (k + 1)..(n + 1),
                      NEW j \in 1..Len(Tokens(qs[i])), on[i] + j >= 1
               PROVE  t[on[i] + j] = Tokens(qs[i])[j]
    OBVIOUS
  <2>1. CASE i = n + 1
    <3>1. on[i] = Len(s) /\ Tokens(qs[i]) = T
      BY <2>1, <1>1, <1>4, <1>5 DEF T
    <3> QED
      BY <3>1, <1>2
  <2>2. CASE i # n + 1
    <3>1. i \in (k + 1)..n /\ i \in 1..n /\ i + 1 \in (k + 1)..(n + 1)
      BY <2>2, <1>1
    <3>2. on[i] = at[i] /\ qs[i] = rs[i] /\ at[i] \in Int
      BY <3>1, <1>1, <1>5
    <3>3. s[at[i] + j] = Tokens(rs[i])[j]
      BY <3>1, <3>2, <1>4
    <3>4. at[i + 1] = at[i] + Len(Tokens(rs[i])) /\ at[i + 1] <= Len(s)
            /\ at[i + 1] \in Int
      BY <3>1, <1>4, <1>5
    <3>5. j \in 1..Len(Tokens(rs[i]))
      BY <3>2
    <3>6. at[i] + j \in 1..Len(s)
      BY <3>2, <3>4, <3>5, <1>2
    <3> QED
      BY <3>2, <3>3, <3>6, <1>2
  <2> QED
    BY <2>1, <2>2
<1>10. on[k + 1] = -p
  BY <1>1, <1>4, <1>5
<1>11. Layout(on, qs, k, p, t)
  BY <1>1, <1>6, <1>7, <1>8, <1>9, <1>10 DEF Layout
<1> QED
  BY <1>11 DEF Laid, qs, t, T

\* Taking c of the unread tokens moves every request by c.
LEMMA LaidTake ==
  ASSUME NEW rs, IsSeq(rs), NEW k \in 0..Len(rs), NEW p \in Nat,
         \A i \in 1..Len(rs) : IsSeq(Tokens(rs[i])),
         NEW s, IsSeq(s), Laid(rs, k, p, s), NEW c \in 0..Len(s)
  PROVE  Laid(rs, k, p + c, SubSeq(s, c + 1, Len(s)))
<1> DEFINE n == Len(rs)
           t == SubSeq(s, c + 1, Len(s))
<1>1. n \in Nat /\ Len(s) \in Nat /\ k \in 0..n
  BY IsSeqAppend
<1>2. Len(t) = Len(s) - c /\ (\A i \in 1..(Len(s) - c) : t[i] = s[c + i])
  BY IsSeqRest
<1>3. PICK at : Layout(at, rs, k, p, s)
  BY DEF Laid
<1>4. /\ at \in [(k + 1)..(n + 1) -> Int]
      /\ at[k + 1] = -p /\ at[n + 1] = Len(s)
      /\ \A i \in (k + 1)..n : at[i + 1] = at[i] + Len(Tokens(rs[i]))
      /\ \A i \in (k + 1)..n : at[i + 1] <= Len(s)
      /\ \A i \in (k + 1)..n : \A j \in 1..Len(Tokens(rs[i])) :
           at[i] + j >= 1 => s[at[i] + j] = Tokens(rs[i])[j]
  BY <1>3 DEF Layout
<1> HIDE DEF n, t
<1> DEFINE on == [i \in (k + 1)..(n + 1) |-> at[i] - c]
<1>5. \A i \in (k + 1)..(n + 1) :
        on[i] = at[i] - c /\ on[i] \in Int /\ at[i] \in Int
  <2>1. \A i \in (k + 1)..(n + 1) : at[i] \in Int
    BY <1>4
  <2>2. c \in Int
    BY <1>1
  <2> QED
    BY <2>1, <2>2
<1>6. on \in [(k + 1)..(n + 1) -> Int]
  BY <1>4
<1> HIDE DEF on
<1>7. on[k + 1] = -(p + c) /\ on[n + 1] = Len(t)
  BY <1>1, <1>2, <1>4, <1>5
<1>8. \A i \in (k + 1)..n : /\ i + 1 \in (k + 1)..(n + 1)
                            /\ i \in (k + 1)..(n + 1)
  BY <1>1
<1>9. ASSUME NEW i \in (k + 1)..n
      PROVE  on[i + 1] = on[i] + Len(Tokens(rs[i])) /\ on[i + 1] <= Len(t)
  <2>1. at[i + 1] = at[i] + Len(Tokens(rs[i])) /\ at[i + 1] <= Len(s)
    BY <1>4
  <2>2. /\ on[i] = at[i] - c /\ on[i + 1] = at[i + 1] - c
        /\ at[i] \in Int /\ at[i + 1] \in Int
    BY <1>5, <1>8
  <2>4. Len(Tokens(rs[i])) \in Nat
    BY <1>1, IsSeqAppend DEF n
  <2>3. on[i + 1] <= Len(t)
    BY <2>1, <2>2, <1>1, <1>2
  <2> QED
    BY <2>1, <2>2, <2>3, <2>4, <1>1
<1>10. ASSUME NEW i \in (k + 1)..n, NEW j \in 1..Len(Tokens(rs[i])),
              on[i] + j >= 1
       PROVE  t[on[i] + j] = Tokens(rs[i])[j]
  <2>1. /\ on[i] = at[i] - c /\ at[i] \in Int /\ at[i + 1] \in Int
        /\ at[i + 1] = at[i] + Len(Tokens(rs[i])) /\ at[i + 1] <= Len(s)
    BY <1>4, <1>5, <1>8
  <2>2. at[i] + j >= 1 /\ on[i] + j \in 1..(Len(s) - c)
           /\ c + (on[i] + j) = at[i] + j
    <3> DEFINE a == at[i]
               z == at[i + 1]
               L == Len(Tokens(rs[i]))
               o == on[i]
    <3>1. L \in Nat /\ j \in 1..L
      BY <1>1, IsSeqAppend DEF n
    <3>2. o = a - c /\ a \in Int /\ z = a + L /\ z <= Len(s) /\ o + j >= 1
      BY <2>1, <1>10
    <3> HIDE DEF a, z, L, o
    <3>3. a + j >= 1 /\ o + j \in 1..(Len(s) - c) /\ c + (o + j) = a + j
      BY <3>1, <3>2, <1>1
    <3> QED
      BY <3>3 DEF a, o
  <2>3. s[at[i] + j] = Tokens(rs[i])[j]
    BY <2>2, <1>4
  <2> QED
    BY <2>2, <2>3, <1>2
<1>11. Layout(on, rs, k, p + c, t)
  BY <1>6, <1>7, <1>9, <1>10 DEF Layout, n
<1> QED
  BY <1>11 DEF Laid, t

\* When all tokens of the first request are taken, the next one is first.
LEMMA LaidNext ==
  ASSUME NEW rs, IsSeq(rs), NEW k \in 0..Len(rs), k < Len(rs),
         IsSeq(Tokens(rs[k + 1])),
         NEW s, Laid(rs, k, Len(Tokens(rs[k + 1])), s)
  PROVE  Laid(rs, k + 1, 0, s)
<1> DEFINE n == Len(rs)
           p == Len(Tokens(rs[k + 1]))
<1>1. n \in Nat /\ p \in Nat /\ k + 1 \in (k + 1)..n
  BY IsSeqAppend
<1>2. PICK at : Layout(at, rs, k, p, s)
  BY DEF Laid
<1>3. /\ at \in [(k + 1)..(n + 1) -> Int]
      /\ at[k + 1] = -p /\ at[n + 1] = Len(s)
      /\ \A i \in (k + 1)..n : at[i + 1] = at[i] + Len(Tokens(rs[i]))
      /\ \A i \in (k + 1)..n : at[i + 1] <= Len(s)
      /\ \A i \in (k + 1)..n : \A j \in 1..Len(Tokens(rs[i])) :
           at[i] + j >= 1 => s[at[i] + j] = Tokens(rs[i])[j]
  BY <1>2 DEF Layout
<1>4. at[(k + 1) + 1] = at[k + 1] + p
  BY <1>1, <1>3
<1> HIDE DEF n, p
<1> DEFINE on == [i \in (k + 2)..(n + 1) |-> at[i]]
<1>5. \A i \in (k + 2)..(n + 1) : on[i] = at[i]
  OBVIOUS
<1>6. on \in [((k + 1) + 1)..(n + 1) -> Int]
  BY <1>1, <1>3
<1> HIDE DEF on
<1>7. k < n
  BY DEF n
<1>8. on[(k + 1) + 1] = -0 /\ on[n + 1] = Len(s)
  BY <1>1, <1>3, <1>4, <1>5, <1>7
<1>9. \A i \in ((k + 1) + 1)..n : /\ i \in (k + 1)..n
                                  /\ on[i] = at[i] /\ on[i + 1] = at[i + 1]
  BY <1>1, <1>5
<1>10. Layout(on, rs, k + 1, 0, s)
  BY <1>3, <1>6, <1>8, <1>9 DEF Layout, n
<1> QED
  BY <1>10 DEF Laid

\* The rest of the first request comes first.
LEMMA LaidFirst ==
  ASSUME NEW rs, IsSeq(rs), NEW k \in 0..Len(rs), k < Len(rs),
         IsSeq(Tokens(rs[k + 1])), NEW p \in Nat,
         NEW s, IsSeq(s), Laid(rs, k, p, s)
  PROVE  /\ Len(Tokens(rs[k + 1])) - p <= Len(s)
         /\ \A j \in 1..Len(Tokens(rs[k + 1])) :
              j > p => s[j - p] = Tokens(rs[k + 1])[j]
<1> DEFINE n == Len(rs)
           T == Tokens(rs[k + 1])
<1>1. n \in Nat /\ Len(T) \in Nat
  BY IsSeqAppend
<1>2. PICK at : Layout(at, rs, k, p, s)
  BY DEF Laid
<1>3. k + 1 \in (k + 1)..n
  BY <1>1
<1>4. /\ at[k + 1] = -p
      /\ at[(k + 1) + 1] = at[k + 1] + Len(T) /\ at[(k + 1) + 1] <= Len(s)
      /\ \A j \in 1..Len(T) : at[k + 1] + j >= 1 => s[at[k + 1] + j] = T[j]
  BY <1>2, <1>3 DEF Layout
<1>5. Len(s) \in Nat
  BY IsSeqAppend
<1> HIDE DEF T
<1>6. Len(T) - p <= Len(s)
  BY <1>1, <1>4, <1>5
<1>7. ASSUME NEW j \in 1..Len(T), j > p
      PROVE  s[j - p] = T[j]
  <2>1. at[k + 1] + j = j - p /\ j - p >= 1
    BY <1>4, <1>1, <1>7
  <2> QED
    BY <2>1, <1>4
<1> QED
  BY <1>6, <1>7 DEF T

\* When every request is answered nothing is unread.
LEMMA LaidEnd ==
  ASSUME NEW rs, NEW s, IsSeq(s), Laid(rs, Len(rs), 0, s)
  PROVE  Len(s) = 0
  BY DEF Laid, Layout

\* Nothing is sent and nothing unread.
LEMMA LaidInit == Laid(<<>>, 0, 0, <<>>)
<1> DEFINE at == [i \in {1} |-> 0]
<1>1. at \in [(0 + 1)..(Len(<<>>) + 1) -> Int] /\ at[1] = 0
  OBVIOUS
<1>2. (0 + 1)..Len(<<>>) = {}
  OBVIOUS
<1> HIDE DEF at
<1>3. Layout(at, <<>>, 0, 0, <<>>)
  BY <1>1, <1>2 DEF Layout
<1> QED
  BY <1>3 DEF Laid
-----------------------------------------------------------------------------
(* The tokens of a request                                                  *)

\* Tokens(r) line by line: the first line, the headers, the empty line, each
\* with its CRLF, and the body.
LEMMA TokensAre ==
  ASSUME NEW r, Conforms(r)
  PROVE  LET T == Tokens(r) H == Len(r.headers) IN
         /\ IsSeq(T) /\ H \in Nat /\ r.length \in Nat
         /\ DOMAIN r.headers = 1..H
         /\ Len(T) = 2 * H + 3 + r.length
         /\ T[1] = <<"request", r.method, r.page, r.version>> /\ T[2] = CRLF
         /\ \A i \in 1..H :
              /\ T[2 * i + 1] = <<"header", r.headers[i][1], r.headers[i][2]>>
              /\ T[2 * i + 2] = CRLF
         /\ T[2 * H + 3] = CRLF
         /\ \A j \in 1..r.length : T[2 * H + 3 + j] = <<"body", r.form>>
<1> DEFINE H == Len(r.headers)
           L == r.length
           start == <<"request", r.method, r.page, r.version>>
           header(i) == <<"header", r.headers[i][1], r.headers[i][2]>>
           a == <<start, CRLF>>
           b == [i \in 1..(2 * H) |->
                   IF i % 2 = 1 THEN header((i + 1) \div 2) ELSE CRLF]
           c == <<CRLF>>
           d == [i \in 1..L |-> <<"body", r.form>>]
           ab == a \o b
           abc == ab \o c
           T == abc \o d
<1>1. H \in Nat /\ L \in Nat /\ DOMAIN r.headers = 1..H
  BY DEF Conforms
<1>2. T = Tokens(r)
  BY DEF Tokens
<1>3. IsSeq(a) /\ Len(a) = 2 /\ a[1] = start /\ a[2] = CRLF
  <2>1. a \in Seq({start, CRLF})
    OBVIOUS
  <2> QED
    BY <2>1 DEF IsSeq
<1>4. IsSeq(c) /\ Len(c) = 1 /\ c[1] = CRLF
  <2>1. c \in Seq({CRLF})
    OBVIOUS
  <2> QED
    BY <2>1 DEF IsSeq
<1>5. IsSeq(d) /\ Len(d) = L /\ (\A j \in 1..L : d[j] = <<"body", r.form>>)
  <2>1. d \in [1..L -> {<<"body", r.form>>}]
    OBVIOUS
  <2>2. d \in Seq({<<"body", r.form>>}) /\ Len(d) = L
    BY <2>1, <1>1, LenProperties, SeqDef
  <2> QED
    BY <2>1, <2>2 DEF IsSeq
<1>6. IsSeq(b) /\ Len(b) = 2 * H
  <2> DEFINE S == {b[i] : i \in 1..(2 * H)}
  <2>1. b \in [1..(2 * H) -> S]
    OBVIOUS
  <2>2. 2 * H \in Nat
    BY <1>1
  <2> HIDE DEF S, b
  <2>3. b \in Seq(S) /\ Len(b) = 2 * H
    BY <2>1, <2>2, LenProperties, SeqDef
  <2> QED
    BY <2>3 DEF IsSeq
<1>7. \A i \in 1..H : b[2 * i - 1] = header(i) /\ b[2 * i] = CRLF
  <2> SUFFICES ASSUME NEW i \in 1..H
               PROVE  b[2 * i - 1] = header(i) /\ b[2 * i] = CRLF
    OBVIOUS
  <2> HIDE DEF H, header
  <2>1. /\ 2 * i - 1 \in 1..(2 * H) /\ 2 * i \in 1..(2 * H)
        /\ (2 * i - 1) % 2 = 1 /\ (2 * i) % 2 # 1
        /\ ((2 * i - 1) + 1) \div 2 = i
    BY <1>1
  <2> QED
    BY <2>1
<1> HIDE DEF a, b, c, d, H, L, start, header
<1>8. /\ IsSeq(ab) /\ Len(ab) = Len(a) + Len(b)
      /\ \A i \in 1..Len(a) : ab[i] = a[i]
      /\ \A i \in 1..Len(b) : ab[Len(a) + i] = b[i]
  <2>1. IsSeq(a) /\ IsSeq(b)
    BY <1>3, <1>6
  <2> QED
    BY <2>1, IsSeqConcat
<1> HIDE DEF ab
<1>9. /\ IsSeq(abc) /\ Len(abc) = Len(ab) + Len(c)
      /\ \A i \in 1..Len(ab) : abc[i] = ab[i]
      /\ \A i \in 1..Len(c) : abc[Len(ab) + i] = c[i]
  <2>1. IsSeq(ab) /\ IsSeq(c)
    BY <1>8, <1>4
  <2> QED
    BY <2>1, IsSeqConcat
<1> HIDE DEF abc
<1>10. /\ IsSeq(T) /\ Len(T) = Len(abc) + Len(d)
       /\ \A i \in 1..Len(abc) : T[i] = abc[i]
       /\ \A i \in 1..Len(d) : T[Len(abc) + i] = d[i]
  <2>1. IsSeq(abc) /\ IsSeq(d)
    BY <1>9, <1>5
  <2> QED
    BY <2>1, IsSeqConcat
<1> HIDE DEF T
<1>11. Len(a) = 2 /\ Len(ab) = 2 * H + 2 /\ Len(abc) = 2 * H + 3
          /\ Len(T) = 2 * H + 3 + L
  BY <1>1, <1>3, <1>4, <1>5, <1>6, <1>8, <1>9, <1>10
<1>12. T[1] = start /\ T[2] = CRLF
  <2>1. ab[1] = start /\ ab[2] = CRLF
    BY <1>3, <1>8
  <2>2. /\ 1 \in 1..Len(ab) /\ 2 \in 1..Len(ab)
        /\ 1 \in 1..Len(abc) /\ 2 \in 1..Len(abc)
    BY <1>1, <1>11
  <2> QED
    BY <2>1, <2>2, <1>9, <1>10
<1>13. \A i \in 1..H : T[2 * i + 1] = header(i) /\ T[2 * i + 2] = CRLF
  <2> SUFFICES ASSUME NEW i \in 1..H
               PROVE  T[2 * i + 1] = header(i) /\ T[2 * i + 2] = CRLF
    OBVIOUS
  <2>1. /\ 2 * i - 1 \in 1..Len(b) /\ 2 * i \in 1..Len(b)
        /\ Len(a) + (2 * i - 1) = 2 * i + 1 /\ Len(a) + 2 * i = 2 * i + 2
        /\ 2 * i + 1 \in 1..Len(ab) /\ 2 * i + 2 \in 1..Len(ab)
        /\ 2 * i + 1 \in 1..Len(abc) /\ 2 * i + 2 \in 1..Len(abc)
    BY <1>1, <1>6, <1>11
  <2>2. ab[2 * i + 1] = header(i) /\ ab[2 * i + 2] = CRLF
    BY <2>1, <1>7, <1>8
  <2> QED
    BY <2>1, <2>2, <1>9, <1>10
<1>14. T[2 * H + 3] = CRLF
  <2>1. abc[Len(ab) + 1] = CRLF
    BY <1>4, <1>9
  <2>2. Len(ab) + 1 = 2 * H + 3 /\ 2 * H + 3 \in 1..Len(abc)
    BY <1>1, <1>11
  <2> QED
    BY <2>1, <2>2, <1>10
<1>15. \A j \in 1..L : T[2 * H + 3 + j] = <<"body", r.form>>
  BY <1>5, <1>10, <1>11
<1>16. /\ IsSeq(T) /\ Len(T) = 2 * H + 3 + L
       /\ T[1] = start
  BY <1>10, <1>11, <1>12
<1> QED
  BY <1>1, <1>2, <1>12, <1>13, <1>14, <1>15, <1>16 DEF H, L, start, header
-----------------------------------------------------------------------------
(* Types                                                                    *)

LEMMA TypesInit == Init => TypeInv
<1> SUFFICES ASSUME Init PROVE TypeInv
  OBVIOUS
<1>1. IsSeq(<<>>)
  <2>1. <<>> \in Seq({})
    OBVIOUS
  <2> QED
    BY <2>1 DEF IsSeq
<1>2. Range(<<>>) = {}
  BY DEF Range
<1>3. requests \in Seq(Requests)
  BY DEF Init
<1>4. DOMAIN post_ = Fields
  BY DEF Init
<1> QED
  BY <1>1, <1>2, <1>3, <1>4 DEF Init, TypeInv, TypeOK, ParseStates

\* A response keeps the types: its code is one of the four, and a parser that
\* is left in kBody is left with the headers it had.
LEMMA RespondTypes ==
  ASSUME TypeInv, NEW code \in Codes, NEW ps \in ParseStates, NEW m, NEW pg,
         NEW v, NEW hd, NEW bd,
         ps = "kBody" => "Content-Length" \in DOMAIN hd,
         requests' = requests, pipelined' = pipelined,
         DOMAIN post_' = Fields,
         respond(code, ps, m, pg, v, hd, bd)
  PROVE  TypeInv'
<1> DEFINE answer == response(code, pg)
<1>1. answer[1] = code
  BY DEF response
<1> HIDE DEF answer
<1>2. \/ responses' = Append(responses, answer) /\ stray' = stray
      \/ stray' = Append(stray, answer) /\ responses' = responses
  BY DEF respond, answer
<1>3. IsSeq(responses') /\ IsSeq(stray')
  <2>1. IsSeq(responses) /\ IsSeq(stray)
    BY DEF TypeInv
  <2>2. IsSeq(Append(responses, answer)) /\ IsSeq(Append(stray, answer))
    BY <2>1, IsSeqAppend
  <2> QED
    BY <1>2, <2>1, <2>2
<1>4. \A x \in Range(responses') : x[1] \in Codes
  <2> SUFFICES ASSUME NEW i \in DOMAIN responses'
               PROVE  responses'[i][1] \in Codes
    BY DEF Range
  <2>1. \A j \in DOMAIN responses : responses[j][1] \in Codes
    BY DEF TypeInv, TypeOK, Range
  <2>2. CASE responses' = responses
    BY <2>1, <2>2
  <2>3. CASE responses' = Append(responses, answer)
    <3>1. /\ DOMAIN responses = 1..Len(responses) /\ Len(responses) \in Nat
          /\ DOMAIN responses' = 1..(Len(responses) + 1)
          /\ \A j \in 1..Len(responses) : responses'[j] = responses[j]
          /\ responses'[Len(responses) + 1] = answer
      BY <2>3, IsSeqAppend DEF TypeInv
    <3>2. i \in 1..Len(responses) \/ i = Len(responses) + 1
      BY <3>1
    <3> QED
      BY <3>1, <3>2, <2>1, <1>1
  <2> QED
    BY <2>2, <2>3, <1>2
<1>5. \A x \in Range(stray') : x[1] \in Codes
  <2> SUFFICES ASSUME NEW i \in DOMAIN stray'
               PROVE  stray'[i][1] \in Codes
    BY DEF Range
  <2>1. \A j \in DOMAIN stray : stray[j][1] \in Codes
    BY DEF TypeInv, TypeOK, Range
  <2>2. CASE stray' = stray
    BY <2>1, <2>2
  <2>3. CASE stray' = Append(stray, answer)
    <3>1. /\ DOMAIN stray = 1..Len(stray) /\ Len(stray) \in Nat
          /\ DOMAIN stray' = 1..(Len(stray) + 1)
          /\ \A j \in 1..Len(stray) : stray'[j] = stray[j]
          /\ stray'[Len(stray) + 1] = answer
      BY <2>3, IsSeqAppend DEF TypeInv
    <3>2. i \in 1..Len(stray) \/ i = Len(stray) + 1
      BY <3>1
    <3> QED
      BY <3>1, <3>2, <2>1, <1>1
  <2> QED
    BY <2>2, <2>3, <1>2
<1>6. pc' = "loop"
  BY DEF respond
<1>7. keepAlive_' \in BOOLEAN
  BY DEF respond, wantsKeepAlive, holds
<1>8. /\ parseState_' \in ParseStates
      /\ parseState_' = "kBody" => "Content-Length" \in DOMAIN header_'
  BY DEF respond, resetState, ParseStates
<1>9. state_' \in {"kConnected", "kDisconnecting", "kDisconnected"}
  BY DEF respond, TypeInv, TypeOK
<1> QED
  BY <1>3, <1>4, <1>5, <1>6, <1>7, <1>8, <1>9 DEF TypeInv, TypeOK

LEMMA TypesStep == ASSUME TypeInv, [Next]_vars PROVE TypeInv'
<1>1. CASE UNCHANGED vars
  BY <1>1 DEF vars, http, request, TypeInv, TypeOK, IsSeq
<1>2. ASSUME NEW r \in Requests, PeerRequests(r)
      PROVE  TypeInv'
  <2>1. requests' \in Seq(Requests)
    BY <1>2 DEF PeerRequests, TypeInv, TypeOK
  <2>2. pipelined' \in BOOLEAN
    BY <1>2 DEF PeerRequests, TypeInv, TypeOK
  <2> QED
    BY <2>1, <2>2, <1>2 DEF PeerRequests, http, request, TypeInv, TypeOK, IsSeq
<1>3. CASE Timeout \/ Down
  BY <1>3 DEF Timeout, Down, http, request, TypeInv, TypeOK, IsSeq
<1>4. CASE Message
  BY <1>4 DEF Message, OnMessage, http, request, TypeInv, TypeOK, IsSeq
<1>5. CASE NeedMore
  BY <1>5 DEF NeedMore, http, request, TypeInv, TypeOK, IsSeq
<1> USE DEF Codes, ParseStates
<1>6. parseState_ \in ParseStates /\ DOMAIN post_ = Fields
        /\ (parseState_ = "kBody" => "Content-Length" \in DOMAIN header_)
  BY DEF TypeInv, TypeOK
<1>7. CASE LoopExit
  BY <1>7, <1>6, RespondTypes DEF LoopExit
<1>8. CASE ParseRequestLine
  <2>1. requests' = requests /\ pipelined' = pipelined
          /\ DOMAIN post_' = Fields
    BY <1>8, <1>6 DEF ParseRequestLine
  <2>2. CASE ~IsRequestLine(line)
    <3>1. respond("kBadRequest", parseState_, method_, path_, version_,
                  header_, body_)
      BY <1>8, <2>2 DEF ParseRequestLine
    <3> QED
      BY <2>1, <3>1, <1>6, RespondTypes
  <2> DEFINE text == line[1]
             page == pageOf(text[3])
             result == lineResult(page)
  <2>3. CASE IsRequestLine(line) /\ result = "kNoRequest"
    <3>1. /\ parseState_' = "kHeader"
          /\ UNCHANGED <<pc, keepAlive_, state_, responses, stray>>
      BY <1>8, <2>3 DEF ParseRequestLine
    <3> QED
      BY <2>1, <3>1 DEF TypeInv, TypeOK, IsSeq
  <2>4. CASE IsRequestLine(line) /\ result # "kNoRequest"
    <3>1. respond(result, "kHeader", text[2], page, text[4], header_, body_)
      BY <1>8, <2>4 DEF ParseRequestLine
    <3>2. result \in Codes
      BY <2>4 DEF lineResult
    <3> HIDE DEF result, page, text
    <3> QED
      BY <2>1, <3>1, <3>2, RespondTypes
  <2> QED
    BY <2>2, <2>3, <2>4
<1>9. CASE ParseEmptyLine
  <2>1. requests' = requests /\ pipelined' = pipelined
          /\ DOMAIN post_' = Fields
    BY <1>9, <1>6 DEF ParseEmptyLine
  <2>2. CASE HasBody
    <3>1. /\ parseState_' = "kBody"
          /\ UNCHANGED <<pc, header_, keepAlive_, state_, responses, stray>>
      BY <1>9, <2>2 DEF ParseEmptyLine
    <3>2. "Content-Length" \in DOMAIN header_'
      BY <3>1, <2>2 DEF HasBody
    <3> QED
      BY <2>1, <3>1, <3>2 DEF TypeInv, TypeOK, IsSeq
  <2>3. CASE ~HasBody
    <3>1. respond("kGetRequest", "kFinish", method_, path_, version_, header_,
                  body_)
      BY <1>9, <2>3 DEF ParseEmptyLine
    <3> QED
      BY <2>1, <3>1, <1>6, RespondTypes
  <2> QED
    BY <2>2, <2>3
<1>10. CASE ParseRequestHeader
  <2>1. requests' = requests /\ pipelined' = pipelined
          /\ DOMAIN post_' = Fields
          /\ parseState_ = "kHeader"
    BY <1>10, <1>6 DEF ParseRequestHeader
  <2>2. CASE IsHeader(line)
    <3>1. UNCHANGED <<pc, parseState_, keepAlive_, state_, responses, stray>>
      BY <1>10, <2>2 DEF ParseRequestHeader
    <3> QED
      BY <2>1, <3>1 DEF TypeInv, TypeOK, IsSeq
  <2>3. CASE ~IsHeader(line)
    <3>1. respond("kBadRequest", parseState_, method_, path_, version_,
                  header_, body_)
      BY <1>10, <2>3 DEF ParseRequestHeader
    <3> QED
      BY <2>1, <3>1, <1>6, RespondTypes
  <2> QED
    BY <2>2, <2>3
<1>11. CASE ParseRequestBody
  <2>1. requests' = requests /\ pipelined' = pipelined
    BY <1>11 DEF ParseRequestBody
  <2>2. DOMAIN post_' = Fields
    BY <1>11, <1>6 DEF ParseRequestBody, merged
  <2>3. \/ \E body : respond("kGetRequest", "kFinish", method_, path_, version_,
                             header_, body)
        \/ \E body : respond("kBadRequest", parseState_, method_, path_,
                             version_, header_, body)
        \/ \E page, body : respond("kNoResource", parseState_, method_, page,
                                   version_, header_, body)
        \/ \E page, body : respond("kGetRequest", "kFinish", method_, page,
                                   version_, header_, body)
    BY <1>11, Zenon DEF ParseRequestBody
  <2> QED
    BY <2>1, <2>2, <2>3, <1>6, RespondTypes
<1> QED
  BY <1>1, <1>2, <1>3, <1>4, <1>5, <1>7, <1>8, <1>9, <1>10, <1>11
     DEF Next, Parse

\* Whatever the peer sends: every variable keeps its type, every response has
\* one of the four codes, and parseRequest() asks for a body only with the
\* Content-Length known, which its assert demands.
THEOREM TypeCorrect == Spec => []TypeOK
<1>1. TypeInv /\ [Next]_vars => TypeInv'
  BY TypesStep
<1>2. TypeInv => TypeOK
  BY DEF TypeInv
<1> QED
  BY <1>1, <1>2, TypesInit, PTL DEF Spec
-----------------------------------------------------------------------------
(* What a request deserves                                                  *)

\* The headers that have been read answer for the request's own.
LEMMA HeadersAnswer ==
  ASSUME NEW r, Conforms(r), NEW header,
         HeadersRead(header, r, Len(r.headers)), NEW name \in Special
  PROVE  /\ name \in DOMAIN header <=> Has(r, name)
         /\ \A value : holds(header, name, value) <=> HasValue(r, name, value)
         /\ ~Has(r, "?")
<1>1. DOMAIN r.headers = 1..Len(r.headers)
  BY TokensAre
<1>2. DOMAIN header = {r.headers[i][1] : i \in DOMAIN r.headers}
  BY <1>1 DEF HeadersRead
<1>3. \A i \in DOMAIN r.headers : r.headers[i][1] # "?"
  BY <1>1 DEF HeadersRead
<1>4. \A i \in DOMAIN r.headers :
        r.headers[i][1] = name => header[name] = r.headers[i][2]
  <2> SUFFICES ASSUME NEW i \in DOMAIN r.headers, r.headers[i][1] = name
               PROVE  header[name] = r.headers[i][2]
    OBVIOUS
  <2>1. PICK j \in DOMAIN r.headers : /\ r.headers[j][1] = name
                                      /\ r.headers[j][2] = header[name]
    BY <1>1, <1>2 DEF HeadersRead
  <2>2. i = j
    BY <2>1 DEF Conforms, Special
  <2> QED
    BY <2>1, <2>2
<1>5. name \in DOMAIN header <=> Has(r, name)
  BY <1>2 DEF Has
<1>6. ~Has(r, "?")
  BY <1>3 DEF Has
<1>7. ASSUME NEW value
      PROVE  holds(header, name, value) <=> HasValue(r, name, value)
  BY <1>2, <1>4 DEF holds, HasValue
<1> QED
  BY <1>5, <1>6, <1>7

\* One more header that is well formed.
LEMMA HeadersMore ==
  ASSUME NEW r, Conforms(r), NEW header, NEW h \in 0..Len(r.headers),
         h < Len(r.headers), HeadersRead(header, r, h),
         r.headers[h + 1][1] # "?"
  PROVE  HeadersRead(with(header, r.headers[h + 1][1], r.headers[h + 1][2]),
                     r, h + 1)
<1> DEFINE a(i) == r.headers[i][1]
           b(i) == r.headers[i][2]
           new == with(header, a(h + 1), b(h + 1))
<1>1. DOMAIN r.headers = 1..Len(r.headers) /\ Len(r.headers) \in Nat
  BY TokensAre
<1>2. DOMAIN header = {a(i) : i \in 1..h}
  BY DEF HeadersRead
<1>3. /\ DOMAIN new = DOMAIN header \cup {a(h + 1)}
      /\ new[a(h + 1)] = b(h + 1)
      /\ \A x \in DOMAIN header : x # a(h + 1) => new[x] = header[x]
  BY DEF with
<1>4. 1..(h + 1) = 1..h \cup {h + 1}
  BY <1>1
<1> HIDE DEF new
<1>5. DOMAIN new = {a(i) : i \in 1..(h + 1)}
  BY <1>2, <1>3, <1>4
<1>6. \A i \in 1..(h + 1) : a(i) # "?"
  <2>1. \A i \in 1..h : a(i) # "?"
    BY DEF HeadersRead
  <2> QED
    BY <2>1, <1>4
<1>7. ASSUME NEW x \in DOMAIN new
      PROVE  \E i \in 1..(h + 1) : a(i) = x /\ b(i) = new[x]
  <2>1. CASE x = a(h + 1)
    BY <2>1, <1>3, <1>4
  <2>2. CASE x # a(h + 1)
    <3>1. x \in DOMAIN header /\ new[x] = header[x]
      BY <2>2, <1>3
    <3>2. PICK i \in 1..h : a(i) = x /\ b(i) = header[x]
      BY <3>1 DEF HeadersRead
    <3> QED
      BY <3>1, <3>2, <1>4
  <2> QED
    BY <2>1, <2>2
<1> QED
  BY <1>5, <1>6, <1>7 DEF HeadersRead, new

LEMMA CodePages ==
  ASSUME NEW page
  PROVE  /\ response("kBadRequest", page) = <<"kBadRequest", "400">>
         /\ response("kForbidden", page) = <<"kForbidden", "403">>
         /\ response("kNoResource", page) = <<"kNoResource", "404">>
         /\ response("kGetRequest", page) = <<"kGetRequest", page>>
  BY DEF response, codePage

\* What its first line alone decides.
LEMMA DeservedByLine ==
  ASSUME NEW r
  PROVE  /\ r.method = "?" => Deserved(r) = <<"kBadRequest", "400">>
         /\ r.method # "?" /\ pageOf(r.page) \in Missing
              => Deserved(r) = <<"kNoResource", "404">>
         /\ r.method # "?" /\ pageOf(r.page) \notin Missing
              /\ pageOf(r.page) \in Forbidden
              => Deserved(r) = <<"kForbidden", "403">>
<1>1. CASE r.method = "?"
  BY <1>1, Zenon DEF Deserved
<1>2. CASE r.method # "?" /\ pageOf(r.page) \in Missing
  BY <1>2, Zenon DEF Deserved
<1>3. CASE r.method # "?" /\ pageOf(r.page) \in Forbidden \ Missing
  BY <1>3, Zenon DEF Deserved
<1> QED
  BY <1>1, <1>2, <1>3

\* A request whose first line finds its page.
LEMMA DeservedWhole ==
  ASSUME NEW r, r.method # "?", pageOf(r.page) \notin Missing \cup Forbidden
  PROVE  LET posts == r.method = "POST" /\ r.length > 0
             filled == [f \in Fields |-> IF f \in DOMAIN r.form /\ IsEncoded(r)
                                          THEN r.form[f] ELSE None]
             shown == IF posts THEN verified(pageOf(r.page), filled)
                               ELSE pageOf(r.page)
         IN Deserved(r) =
              IF Has(r, "?") \/ (posts /\ ~Has(r, "Content-Type"))
                   \/ (posts /\ IsEncoded(r) /\ ~IsForm(r.form))
                THEN <<"kBadRequest", "400">>
                ELSE IF shown \in Missing THEN <<"kNoResource", "404">>
                                          ELSE <<"kGetRequest", shown>>
  BY Zenon DEF Deserved
-----------------------------------------------------------------------------
(* The steps that do not answer                                             *)

\* Requests may be added; the answers that matched still do.
LEMMA MatchedKept ==
  ASSUME TypeInv, Matched, responses' = responses,
         \/ requests' = requests
         \/ \E r \in Requests : requests' = Append(requests, r)
  PROVE  Matched'
<1>1. CASE requests' = requests
  BY <1>1 DEF Matched
<1>2. ASSUME NEW r \in Requests, requests' = Append(requests, r)
      PROVE  Matched'
  <2>1. requests \in Seq(Requests)
    BY DEF TypeInv, TypeOK
  <2>2. IsSeq(requests) /\ IsSeq(responses)
    BY <2>1 DEF IsSeq, TypeInv
  <2>3. /\ Len(requests) \in Nat /\ Len(requests') = Len(requests) + 1
        /\ \A i \in 1..Len(requests) : requests'[i] = requests[i]
    BY <2>2, <1>2, IsSeqAppend
  <2>4. DOMAIN responses = 1..Len(responses) /\ Len(responses) \in Nat
    BY <2>2, IsSeqAppend
  <2>5. Len(responses') <= Len(requests')
    BY <2>3, <2>4 DEF Matched
  <2>6. ASSUME NEW i \in DOMAIN responses
        PROVE  responses'[i] = Deserved(requests'[i])
    <3>1. i \in 1..Len(requests)
      BY <2>3, <2>4 DEF Matched
    <3> QED
      BY <3>1, <2>3 DEF Matched
  <2> QED
    BY <2>5, <2>6 DEF Matched
<1> QED
  BY <1>1, <1>2

\* A connection that was shut down adds no response.
LEMMA StrayStep ==
  ASSUME TypeInv, Matched, state_ # "kConnected", [Next]_vars
  PROVE  MatchInv'
<1>1. responses' = responses /\ state_' # "kConnected"
  <2>1. ASSUME NEW code, NEW ps, NEW m, NEW pg, NEW v, NEW hd, NEW bd,
               respond(code, ps, m, pg, v, hd, bd)
        PROVE  responses' = responses /\ state_' # "kConnected"
    BY <2>1 DEF respond
  <2>2. CASE UNCHANGED vars
    BY <2>2 DEF vars
  <2>3. CASE \E r \in Requests : PeerRequests(r)
    BY <2>3 DEF PeerRequests
  <2>4. CASE Timeout \/ Down \/ Message \/ NeedMore
    BY <2>4 DEF Timeout, Down, Message, OnMessage, NeedMore
  <2>5. CASE LoopExit
    BY <2>5, <2>1 DEF LoopExit
  <2>6. CASE ParseRequestLine
    <3>1. \/ responses' = responses /\ state_' = state_
          \/ \E code, ps, m, pg, v, hd, bd : respond(code, ps, m, pg, v, hd, bd)
      BY <2>6, Zenon DEF ParseRequestLine
    <3> QED
      BY <3>1, <2>1
  <2>7. CASE ParseEmptyLine
    <3>1. \/ responses' = responses /\ state_' = state_
          \/ \E code, ps, m, pg, v, hd, bd : respond(code, ps, m, pg, v, hd, bd)
      BY <2>7, Zenon DEF ParseEmptyLine
    <3> QED
      BY <3>1, <2>1
  <2>8. CASE ParseRequestHeader
    <3>1. \/ responses' = responses /\ state_' = state_
          \/ \E code, ps, m, pg, v, hd, bd : respond(code, ps, m, pg, v, hd, bd)
      BY <2>8, Zenon DEF ParseRequestHeader
    <3> QED
      BY <3>1, <2>1
  <2>9. CASE ParseRequestBody
    <3>1. \E code, ps, m, pg, v, hd, bd : respond(code, ps, m, pg, v, hd, bd)
      BY <2>9, Zenon DEF ParseRequestBody
    <3> QED
      BY <3>1, <2>1
  <2> QED
    BY <2>2, <2>3, <2>4, <2>5, <2>6, <2>7, <2>8, <2>9 DEF Next, Parse
<1>2. \/ requests' = requests
      \/ \E r \in Requests : requests' = Append(requests, r)
  BY DEF Next, Parse, vars, PeerRequests, Timeout, Down, Message, OnMessage,
         NeedMore, LoopExit, ParseRequestLine, ParseEmptyLine,
         ParseRequestHeader, ParseRequestBody
<1>3. Matched'
  BY <1>1, <1>2, MatchedKept
<1> QED
  BY <1>1, <1>3 DEF MatchInv

\* Nothing but the sending of a request changes the requests and keeps the
\* parser where it is.
LEMMA PeerStep ==
  ASSUME \A q \in Requests : Conforms(q), TypeInv, Matched, Synced,
         NEW r \in Requests, PeerRequests(r)
  PROVE  MatchInv'
<1> DEFINE k == Len(responses)
           n == Len(requests)
<1>1. IsSeq(requests) /\ IsSeq(responses) /\ IsSeq(inputBuf) /\ IsSeq(flight)
  BY DEF TypeInv, TypeOK, IsSeq, Synced
<1>2. IsSeq(Tokens(r))
  BY TokensAre
<1>3. /\ requests' = Append(requests, r) /\ flight' = flight \o Tokens(r)
      /\ inputBuf' = inputBuf /\ responses' = responses
      /\ UNCHANGED <<parseState_, method_, path_, version_, header_, body_>>
  BY DEF PeerRequests, http, request
<1>4. Matched'
  BY <1>3, MatchedKept
<1>5. PICK p \in Nat : Laid(requests, k, p, unread) /\ Parsing(p)
  BY DEF Synced
<1>6. /\ n \in Nat /\ Len(requests') = n + 1
      /\ \A i \in 1..n : requests'[i] = requests[i]
      /\ requests'[n + 1] = r
  BY <1>1, <1>3, IsSeqAppend
<1>7. k \in 0..n
  BY <1>1, <1>6, IsSeqAppend DEF Matched
<1>8. IsSeq(unread)
  BY <1>1, IsSeqConcat DEF unread
<1>9. unread' = unread \o Tokens(r)
  <2>1. (inputBuf \o flight) \o Tokens(r) = inputBuf \o (flight \o Tokens(r))
    BY <1>1, <1>2, ConcatAssociates
  <2> QED
    BY <2>1, <1>3 DEF unread
<1>10. Laid(requests', k, p, unread')
  BY <1>1, <1>2, <1>3, <1>5, <1>7, <1>8, <1>9, LaidAppend
<1>11. Parsing(p)'
  <2>1. body_' = <<>>
    BY <1>3, <1>5 DEF Parsing
  <2>2. CASE k < n
    <3>1. Place(requests[k + 1], p) /\ requests'[k + 1] = requests[k + 1]
      BY <2>2, <1>5, <1>6, <1>7 DEF Parsing
    <3>2. Place(requests[k + 1], p)'
      BY <3>1, <1>3 DEF Place, Fresh, AtHeader, AtBody, LineRead, HasBody
    <3> QED
      BY <2>1, <2>2, <3>1, <3>2, <1>3, <1>6, <1>7 DEF Parsing
  <2>3. CASE k = n
    <3>1. Fresh /\ p = 0
      BY <2>3, <1>5, <1>7, <1>6 DEF Parsing
    <3>2. Fresh'
      BY <3>1, <1>3 DEF Fresh
    <3> QED
      BY <2>1, <3>1, <3>2 DEF Parsing, Place
  <2> QED
    BY <2>2, <2>3, <1>6, <1>7
<1>12. IsSeq(inputBuf') /\ IsSeq(flight')
  BY <1>1, <1>2, <1>3, IsSeqConcat
<1>13. Synced'
  BY <1>3, <1>10, <1>11, <1>12 DEF Synced
<1> QED
  BY <1>4, <1>13 DEF MatchInv

\* A read, wherever it cuts the stream, changes nothing that is unread.
LEMMA MessageStep ==
  ASSUME TypeInv, Matched, Synced, Message
  PROVE  MatchInv'
<1>1. PICK c \in 1..Len(flight) : OnMessage(c)
  BY DEF Message
<1>2. /\ inputBuf' = inputBuf \o SubSeq(flight, 1, c)
      /\ flight' = SubSeq(flight, c + 1, Len(flight))
      /\ requests' = requests /\ responses' = responses
      /\ UNCHANGED <<parseState_, method_, path_, version_, header_, body_>>
  BY <1>1 DEF OnMessage, http, request
<1>3. IsSeq(inputBuf) /\ IsSeq(flight) /\ c \in 0..Len(flight)
  BY DEF Synced
<1>4. unread' = unread /\ IsSeq(inputBuf') /\ IsSeq(flight')
  BY <1>2, <1>3, ReadKeeps DEF unread
<1>5. Matched'
  BY <1>2, MatchedKept
<1>6. PICK p \in Nat : Laid(requests, Len(responses), p, unread) /\ Parsing(p)
  BY DEF Synced
<1>7. Parsing(p)'
  BY <1>2, <1>6 DEF Parsing, Place, Fresh, AtHeader, AtBody, LineRead, HasBody
<1>8. Synced'
  BY <1>2, <1>4, <1>6, <1>7 DEF Synced
<1> QED
  BY <1>5, <1>8 DEF MatchInv

LEMMA QuietStep ==
  ASSUME TypeInv, MatchInv, Timeout \/ Down \/ NeedMore \/ UNCHANGED vars
  PROVE  MatchInv'
<1>1. /\ UNCHANGED <<requests, flight, inputBuf, responses, parseState_,
                     method_, path_, version_, header_, body_>>
      /\ state_' = "kConnected" => state_ = "kConnected"
  BY DEF Timeout, Down, NeedMore, vars, http, request
<1>2. Matched'
  BY <1>1, MatchedKept DEF MatchInv
<1>3. ASSUME Synced PROVE Synced'
  <2>1. PICK p \in Nat : Laid(requests, Len(responses), p, unread) /\ Parsing(p)
    BY <1>3 DEF Synced
  <2>2. Parsing(p)'
    BY <1>1, <2>1 DEF Parsing, Place, Fresh, AtHeader, AtBody, LineRead, HasBody
  <2>3. unread' = unread
    BY <1>1 DEF unread
  <2>4. IsSeq(inputBuf') /\ IsSeq(flight')
    BY <1>1, <1>3 DEF Synced
  <2> QED
    BY <1>1, <2>1, <2>2, <2>3, <2>4 DEF Synced
<1> QED
  BY <1>1, <1>2, <1>3 DEF MatchInv
-----------------------------------------------------------------------------
(* The first line of the buffer                                             *)

\* It is empty when the buffer begins with a CRLF.
LEMMA EmptyLine ==
  ASSUME IsSeq(inputBuf), HasLine, inputBuf[1] = CRLF
  PROVE  EndOfLine = 1 /\ line = <<>> /\ 1 \in 0..Len(inputBuf)
<1>1. DOMAIN inputBuf = 1..Len(inputBuf) /\ Len(inputBuf) \in Nat
  BY IsSeqAppend
<1>2. 1 \in DOMAIN inputBuf
  BY <1>1 DEF HasLine
<1>3. \A i \in DOMAIN inputBuf :
        (\A j \in 1..(i - 1) : inputBuf[j] # CRLF) => i = 1
  BY <1>1
<1>4. /\ EndOfLine \in DOMAIN inputBuf /\ inputBuf[EndOfLine] = CRLF
      /\ \A j \in 1..(EndOfLine - 1) : inputBuf[j] # CRLF
  <2>1. \E i \in DOMAIN inputBuf : /\ inputBuf[i] = CRLF
                                   /\ \A j \in 1..(i - 1) : inputBuf[j] # CRLF
    <3>1. \A j \in 1..(1 - 1) : inputBuf[j] # CRLF
      OBVIOUS
    <3> QED
      BY <1>2, <3>1
  <2> QED
    BY <2>1, Zenon DEF EndOfLine
<1>5. EndOfLine = 1
  BY <1>3, <1>4
<1>6. line = SubSeq(inputBuf, 1, 0)
  BY <1>5 DEF line
<1>7. SubSeq(inputBuf, 1, 0) = <<>>
  <2>1. PICK S : inputBuf \in Seq(S)
    BY DEF IsSeq
  <2> QED
    BY <2>1
<1> QED
  BY <1>1, <1>2, <1>5, <1>6, <1>7

\* It is one token when the second is the first CRLF.
LEMMA TokenLine ==
  ASSUME IsSeq(inputBuf), HasLine, inputBuf[1] # CRLF,
         2 \in 1..Len(inputBuf) => inputBuf[2] = CRLF
  PROVE  /\ EndOfLine = 2 /\ 2 \in 0..Len(inputBuf)
         /\ Len(line) = 1 /\ line[1] = inputBuf[1] /\ line # <<>>
<1>1. DOMAIN inputBuf = 1..Len(inputBuf) /\ Len(inputBuf) \in Nat
  BY IsSeqAppend
<1>2. 2 \in DOMAIN inputBuf /\ 2 \in 1..Len(inputBuf)
  BY <1>1 DEF HasLine
<1>3. \A i \in DOMAIN inputBuf :
        inputBuf[i] = CRLF /\ (\A j \in 1..(i - 1) : inputBuf[j] # CRLF)
          => i = 2
  BY <1>1, <1>2
<1>4. /\ EndOfLine \in DOMAIN inputBuf /\ inputBuf[EndOfLine] = CRLF
      /\ \A j \in 1..(EndOfLine - 1) : inputBuf[j] # CRLF
  <2>1. \E i \in DOMAIN inputBuf : /\ inputBuf[i] = CRLF
                                   /\ \A j \in 1..(i - 1) : inputBuf[j] # CRLF
    <3>1. \A j \in 1..(2 - 1) : inputBuf[j] # CRLF
      OBVIOUS
    <3> QED
      BY <1>2, <3>1
  <2> QED
    BY <2>1, Zenon DEF EndOfLine
<1>5. EndOfLine = 2
  BY <1>3, <1>4
<1>6. line = SubSeq(inputBuf, 1, 1)
  BY <1>5 DEF line
<1>7. Len(SubSeq(inputBuf, 1, 1)) = 1 /\ SubSeq(inputBuf, 1, 1)[1] = inputBuf[1]
  <2>1. 1 \in 0..Len(inputBuf)
    BY <1>1, <1>2
  <2> QED
    BY <2>1, IsSeqFront
<1>8. line # <<>>
  <2>1. Len(line) = 1
    BY <1>6, <1>7
  <2>2. Len(line) # Len(<<>>)
    BY <2>1
  <2> QED
    BY <2>2, Zenon
<1> QED
  BY <1>1, <1>2, <1>5, <1>6, <1>7, <1>8

\* What the parser has before it, when it stands after p tokens of the first
\* request that is not answered.
LEMMA Before ==
  ASSUME \A q \in Requests : Conforms(q), TypeInv, Matched,
         IsSeq(inputBuf), IsSeq(flight), NEW p \in Nat,
         Laid(requests, Len(responses), p, unread),
         Len(responses) < Len(requests)
  PROVE  LET r == requests[Len(responses) + 1] IN
         /\ r \in Requests /\ Conforms(r) /\ Len(inputBuf) \in Nat
         /\ \A j \in 1..Len(inputBuf) :
              p + j <= Len(Tokens(r)) => inputBuf[j] = Tokens(r)[p + j]
<1> DEFINE k == Len(responses)
           r == requests[k + 1]
<1>1. IsSeq(requests) /\ IsSeq(responses)
  BY DEF TypeInv, TypeOK, IsSeq
<1>2. k \in 0..Len(requests) /\ k + 1 \in 1..Len(requests)
  BY <1>1, IsSeqAppend DEF Matched
<1>3. r \in Requests
  BY <1>2 DEF TypeInv, TypeOK
<1>4. Conforms(r)
  BY <1>3
<1>5. IsSeq(Tokens(r))
  BY <1>4, TokensAre
<1>6. /\ IsSeq(unread) /\ Len(inputBuf) \in Nat
      /\ \A i \in 1..Len(inputBuf) : unread[i] = inputBuf[i]
  BY IsSeqConcat DEF unread
<1>7. \A j \in 1..Len(Tokens(r)) : j > p => unread[j - p] = Tokens(r)[j]
  BY <1>1, <1>2, <1>5, <1>6, LaidFirst
<1>8. Len(Tokens(r)) \in Nat
  BY <1>5, IsSeqAppend
<1>9. ASSUME NEW j \in 1..Len(inputBuf), p + j <= Len(Tokens(r))
      PROVE  inputBuf[j] = Tokens(r)[p + j]
  <2>1. p + j \in 1..Len(Tokens(r)) /\ p + j > p /\ (p + j) - p = j
    BY <1>6, <1>8, <1>9
  <2> QED
    BY <2>1, <1>6, <1>7
<1> QED
  BY <1>3, <1>4, <1>6, <1>9

\* With a line before it the parser is in a request.
LEMMA LineOfRequest ==
  ASSUME TypeInv, Matched, IsSeq(inputBuf), IsSeq(flight), NEW p \in Nat,
         Laid(requests, Len(responses), p, unread), Parsing(p),
         inputBuf # <<>>
  PROVE  Len(responses) < Len(requests)
<1>1. IsSeq(requests) /\ IsSeq(responses)
  BY DEF TypeInv, TypeOK, IsSeq
<1>2. Len(requests) \in Nat /\ Len(responses) \in Nat
  BY <1>1, IsSeqAppend
<1> SUFFICES ASSUME Len(responses) = Len(requests) PROVE FALSE
  BY <1>2 DEF Matched
<1>3. p = 0
  BY <1>2 DEF Parsing
<1>4. IsSeq(unread) /\ Len(unread) = Len(inputBuf) + Len(flight)
        /\ Len(inputBuf) \in Nat /\ Len(flight) \in Nat
  BY IsSeqConcat DEF unread
<1>5. Len(unread) = 0
  BY <1>3, <1>4, LaidEnd
<1>6. Len(inputBuf) = 0
  BY <1>4, <1>5
<1>7. PICK S : inputBuf \in Seq(S)
  BY DEF IsSeq
<1> QED
  BY <1>6, <1>7, EmptySeq

\* Taking c tokens from the buffer moves the parser by c.
LEMMA TakeTokens ==
  ASSUME \A q \in Requests : Conforms(q), TypeInv, Matched,
         IsSeq(inputBuf), IsSeq(flight), NEW p \in Nat,
         Laid(requests, Len(responses), p, unread),
         NEW c \in 0..Len(inputBuf),
         inputBuf' = SubSeq(inputBuf, c + 1, Len(inputBuf)), flight' = flight
  PROVE  /\ Laid(requests, Len(responses), p + c, unread')
         /\ IsSeq(inputBuf') /\ IsSeq(flight')
<1>1. IsSeq(requests) /\ IsSeq(responses)
  BY DEF TypeInv, TypeOK, IsSeq
<1>2. Len(responses) \in 0..Len(requests)
  BY <1>1, IsSeqAppend DEF Matched
<1>3. \A i \in 1..Len(requests) : IsSeq(Tokens(requests[i]))
  <2>1. \A i \in 1..Len(requests) : Conforms(requests[i])
    BY DEF TypeInv, TypeOK
  <2> QED
    BY <2>1, TokensAre
<1>4. IsSeq(unread) /\ Len(unread) = Len(inputBuf) + Len(flight)
        /\ Len(inputBuf) \in Nat /\ Len(flight) \in Nat
  BY IsSeqConcat DEF unread
<1>5. unread' = SubSeq(unread, c + 1, Len(unread)) /\ IsSeq(inputBuf')
  BY TakeShifts DEF unread
<1>6. IsSeq(unread) /\ c \in 0..Len(unread)
  BY <1>4
<1>7. Laid(requests, Len(responses), p + c,
           SubSeq(unread, c + 1, Len(unread)))
  BY <1>1, <1>2, <1>3, <1>6, LaidTake
<1> QED
  BY <1>5, <1>7
-----------------------------------------------------------------------------
(* The steps of the parser                                                  *)

\* The answer that the first unanswered request deserves is sent.  Without
\* keep-alive the connection is shut down; with it the parser is reset, and
\* stands before the next request if all of this one was taken.
LEMMA RespondMatched ==
  ASSUME \A q \in Requests : Conforms(q), TypeInv, Matched,
         state_ = "kConnected", Len(responses) < Len(requests),
         requests' = requests,
         NEW code, NEW ps, NEW m, NEW pg, NEW v, NEW hd, NEW bd,
         respond(code, ps, m, pg, v, hd, bd),
         response(code, pg) = Deserved(requests[Len(responses) + 1]),
         wantsKeepAlive(hd, v) =>
           /\ IsSeq(inputBuf') /\ IsSeq(flight')
           /\ Laid(requests, Len(responses),
                   Len(Tokens(requests[Len(responses) + 1])), unread')
  PROVE  MatchInv'
<1> DEFINE k == Len(responses)
           r == requests[k + 1]
           answer == response(code, pg)
<1>1. IsSeq(requests) /\ IsSeq(responses)
  BY DEF TypeInv, TypeOK, IsSeq
<1>2. /\ k \in 0..Len(requests) /\ Len(requests) \in Nat
      /\ k + 1 \in 1..Len(requests)
  BY <1>1, IsSeqAppend DEF Matched
<1>3. Conforms(r)
  BY <1>2 DEF TypeInv, TypeOK
<1>4. IsSeq(Tokens(r))
  BY <1>3, TokensAre
<1>5. responses' = Append(responses, answer)
  BY DEF respond
<1> HIDE DEF answer
<1>6. /\ Len(responses') = k + 1 /\ DOMAIN responses = 1..k
      /\ DOMAIN responses' = 1..(k + 1)
      /\ \A i \in 1..k : responses'[i] = responses[i]
      /\ responses'[k + 1] = answer
  BY <1>1, <1>5, IsSeqAppend
<1>7. Matched'
  <2>1. Len(responses') <= Len(requests')
    BY <1>2, <1>6
  <2>2. ASSUME NEW i \in 1..(k + 1)
        PROVE  responses'[i] = Deserved(requests'[i])
    <3>1. CASE i = k + 1
      BY <3>1, <1>6 DEF answer
    <3>2. CASE i \in 1..k
      BY <3>2, <1>6 DEF Matched
    <3> QED
      BY <3>1, <3>2, <1>2
  <2> QED
    BY <2>1, <2>2, <1>6 DEF Matched
<1>8. CASE ~wantsKeepAlive(hd, v)
  <2>1. state_' = "kDisconnecting"
    BY <1>8 DEF respond
  <2> QED
    BY <2>1, <1>7 DEF MatchInv
<1>9. CASE wantsKeepAlive(hd, v)
  <2>1. body_' = <<>> /\ Fresh'
    BY <1>9 DEF respond, resetState, Fresh
  <2>2. IsSeq(inputBuf') /\ IsSeq(flight')
          /\ Laid(requests, k, Len(Tokens(r)), unread')
    BY <1>9
  <2>3. Laid(requests, k + 1, 0, unread')
    BY <1>1, <1>2, <1>4, <2>2, LaidNext
  <2>4. Parsing(0)'
    BY <2>1 DEF Parsing, Place
  <2>5. Synced'
    BY <2>2, <2>3, <2>4, <1>6 DEF Synced
  <2> QED
    BY <2>5, <1>7 DEF MatchInv
<1> QED
  BY <1>8, <1>9

LEMMA RequestLineStep ==
  ASSUME \A q \in Requests : Conforms(q), TypeInv, Matched, Synced,
         state_ = "kConnected", ParseRequestLine
  PROVE  MatchInv'
<1> DEFINE k == Len(responses)
           r == requests[k + 1]
           T == Tokens(r)
           page == pageOf(r.page)
<1>1. PICK p \in Nat : Laid(requests, k, p, unread) /\ Parsing(p)
  BY DEF Synced
<1>2. IsSeq(inputBuf) /\ IsSeq(flight) /\ HasLine
  BY DEF Synced, ParseRequestLine
<1>3. parseState_ = "kRequestLine" /\ requests' = requests /\ flight' = flight
        /\ takeLine
  BY DEF ParseRequestLine
<1>4. inputBuf # <<>>
  BY <1>2 DEF HasLine
<1>5. k < Len(requests)
  BY <1>1, <1>2, <1>4, LineOfRequest
<1>6. /\ Conforms(r) /\ Len(inputBuf) \in Nat
      /\ \A j \in 1..Len(inputBuf) : p + j <= Len(T) => inputBuf[j] = T[p + j]
  BY <1>1, <1>2, <1>5, Before
<1>7. p = 0 /\ header_ = NoHeaders /\ body_ = <<>>
  BY <1>1, <1>3, <1>5 DEF Parsing, Place, Fresh, AtHeader, AtBody
<1>8. /\ Len(T) >= 2 /\ Len(T) \in Nat
      /\ T[1] = <<"request", r.method, r.page, r.version>> /\ T[2] = CRLF
  <2>1. Conforms(r)
    BY <1>6
  <2>2. /\ Len(r.headers) \in Nat /\ r.length \in Nat
        /\ Len(T) = 2 * Len(r.headers) + 3 + r.length
        /\ T[1] = <<"request", r.method, r.page, r.version>> /\ T[2] = CRLF
    BY <2>1, TokensAre
  <2> QED
    BY <2>2
<1> HIDE DEF T
<1>9. /\ 1 \in 1..Len(inputBuf) /\ inputBuf[1] = T[1]
      /\ 2 \in 1..Len(inputBuf) => inputBuf[2] = CRLF
  <2>1. 1 \in 1..Len(inputBuf)
    <3>1. DOMAIN inputBuf = 1..Len(inputBuf)
      BY <1>2, IsSeqAppend
    <3> QED
      BY <3>1, <1>2, <1>6 DEF HasLine
  <2> QED
    BY <2>1, <1>6, <1>7, <1>8
<1>10. T[1] # CRLF
  BY <1>8 DEF CRLF
<1>11. /\ EndOfLine = 2 /\ 2 \in 0..Len(inputBuf)
       /\ Len(line) = 1 /\ line[1] = <<"request", r.method, r.page, r.version>>
  BY <1>2, <1>8, <1>9, <1>10, TokenLine
<1>12. inputBuf' = SubSeq(inputBuf, 2 + 1, Len(inputBuf))
  BY <1>3, <1>11 DEF takeLine
<1>13. /\ Laid(requests, k, 2, unread') /\ IsSeq(inputBuf') /\ IsSeq(flight')
  <2>1. 2 \in 0..Len(inputBuf)
    BY <1>11
  <2>2. Laid(requests, k, p + 2, unread') /\ IsSeq(inputBuf') /\ IsSeq(flight')
    BY <2>1, <1>1, <1>2, <1>3, <1>12, TakeTokens
  <2> QED
    BY <2>2, <1>7
<1>14. \A v : ~wantsKeepAlive(header_, v)
  BY <1>7 DEF wantsKeepAlive, holds, NoHeaders
<1>15. IsRequestLine(line) <=> r.method # "?"
  BY <1>11 DEF IsRequestLine
<1>16. line[1][2] = r.method /\ line[1][3] = r.page /\ line[1][4] = r.version
  BY <1>11
<1>17. CASE r.method = "?"
  <2>1. respond("kBadRequest", parseState_, method_, path_, version_, header_,
                body_)
    BY <1>15, <1>17 DEF ParseRequestLine
  <2>2. response("kBadRequest", path_) = Deserved(r)
    BY <1>17, CodePages, DeservedByLine
  <2> QED
    BY <2>1, <2>2, <1>3, <1>5, <1>14, RespondMatched
<1>18. CASE r.method # "?" /\ page \in Missing \cup Forbidden
  <2> DEFINE result == lineResult(page)
  <2>1. result # "kNoRequest" /\ response(result, page) = Deserved(r)
    <3>1. CASE page \in Missing
      <4>1. result = "kNoResource"
        BY <3>1, Zenon DEF lineResult
      <4> QED
        BY <3>1, <4>1, <1>18, CodePages, DeservedByLine
    <3>2. CASE page \notin Missing /\ page \in Forbidden
      <4>1. result = "kForbidden"
        BY <3>2, Zenon DEF lineResult
      <4> QED
        BY <3>2, <4>1, <1>18, CodePages, DeservedByLine
    <3> QED
      BY <3>1, <3>2, <1>18
  <2>2. respond(result, "kHeader", r.method, page, r.version, header_, body_)
    BY <2>1, <1>15, <1>16, <1>18 DEF ParseRequestLine
  <2> HIDE DEF result, page
  <2> QED
    BY <2>1, <2>2, <1>3, <1>5, <1>14, RespondMatched
<1>19. CASE r.method # "?" /\ page \notin Missing \cup Forbidden
  <2>1. lineResult(page) = "kNoRequest"
    BY <1>19, Zenon DEF lineResult
  <2>2. /\ parseState_' = "kHeader" /\ method_' = r.method /\ path_' = page
        /\ version_' = r.version
        /\ UNCHANGED <<header_, body_, state_, responses>>
    BY <2>1, <1>15, <1>16, <1>19 DEF ParseRequestLine
  <2>3. Matched'
    BY <2>2, <1>3, MatchedKept
  <2>4. LineRead(r)'
    BY <2>2, <1>3, <1>19 DEF LineRead
  <2>5. HeadersRead(header_', r, 0)
    <3>1. header_' = <<>> /\ DOMAIN header_' = {} /\ 1..0 = {}
      BY <2>2, <1>7 DEF NoHeaders
    <3> QED
      BY <3>1 DEF HeadersRead
  <2>6. Place(r, 2)'
    <3>1. 0 \in 0..Len(r.headers) /\ 2 = 2 + 2 * 0
      <4>1. Conforms(r)
        BY <1>6
      <4>2. Len(r.headers) \in Nat
        BY <4>1, TokensAre
      <4> QED
        BY <4>2
    <3>2. \E h \in 0..Len(r.headers) : 2 = 2 + 2 * h /\ HeadersRead(header_', r, h)
      BY <3>1, <2>5
    <3>3. AtHeader(r, 2)'
      BY <3>2, <2>2, <2>4, <1>3 DEF AtHeader
    <3> QED
      BY <3>3 DEF Place
  <2>7. Parsing(2)'
    BY <2>2, <2>6, <1>3, <1>5, <1>7 DEF Parsing
  <2>8. Synced'
    BY <2>2, <2>7, <1>3, <1>13 DEF Synced
  <2> QED
    BY <2>3, <2>8 DEF MatchInv
<1> QED
  BY <1>17, <1>18, <1>19

\* In kHeader the parser stands before header h + 1, or before the empty line.
LEMMA AtHeaderLine ==
  ASSUME \A q \in Requests : Conforms(q), TypeInv, Matched, Synced,
         parseState_ = "kHeader", HasLine
  PROVE  LET k == Len(responses)
             r == requests[k + 1]
         IN /\ k < Len(requests) /\ Conforms(r) /\ LineRead(r) /\ body_ = <<>>
            /\ \E h \in 0..Len(r.headers) :
                 /\ Laid(requests, k, 2 + 2 * h, unread)
                 /\ HeadersRead(header_, r, h)
                 /\ h = Len(r.headers) => EndOfLine = 1 /\ line = <<>>
                                            /\ 1 \in 0..Len(inputBuf)
                 /\ h < Len(r.headers) =>
                      /\ EndOfLine = 2 /\ line # <<>> /\ Len(line) = 1
                      /\ line[1] = <<"header", r.headers[h + 1][1],
                                               r.headers[h + 1][2]>>
                      /\ 2 \in 0..Len(inputBuf)
<1> DEFINE k == Len(responses)
           r == requests[k + 1]
           T == Tokens(r)
           H == Len(r.headers)
<1>1. PICK p \in Nat : Laid(requests, k, p, unread) /\ Parsing(p)
  BY DEF Synced
<1>2. IsSeq(inputBuf) /\ IsSeq(flight)
  BY DEF Synced
<1>3. inputBuf # <<>>
  BY DEF HasLine
<1>4. k < Len(requests)
  BY <1>1, <1>2, <1>3, LineOfRequest
<1>5. /\ Conforms(r) /\ Len(inputBuf) \in Nat
      /\ \A j \in 1..Len(inputBuf) : p + j <= Len(T) => inputBuf[j] = T[p + j]
  BY <1>1, <1>2, <1>4, Before
<1>6. AtHeader(r, p) /\ body_ = <<>>
  BY <1>1, <1>4 DEF Parsing, Place, Fresh, AtBody
<1>7. PICK h \in 0..H : p = 2 + 2 * h /\ HeadersRead(header_, r, h)
  BY <1>6 DEF AtHeader
<1>8. /\ H \in Nat /\ r.length \in Nat
      /\ Len(T) = 2 * H + 3 + r.length
      /\ T[2 * H + 3] = CRLF
      /\ \A i \in 1..H :
           /\ T[2 * i + 1] = <<"header", r.headers[i][1], r.headers[i][2]>>
           /\ T[2 * i + 2] = CRLF
  <2>1. Conforms(r)
    BY <1>5
  <2> QED
    BY <2>1, TokensAre
<1> HIDE DEF T
<1>9. 1 \in 1..Len(inputBuf) /\ inputBuf[1] = T[2 * h + 3]
  <2>1. 1 \in 1..Len(inputBuf)
    <3>1. DOMAIN inputBuf = 1..Len(inputBuf)
      BY <1>2, IsSeqAppend
    <3> QED
      BY <3>1, <1>5 DEF HasLine
  <2>2. p + 1 <= Len(T) /\ p + 1 = 2 * h + 3
    BY <1>7, <1>8
  <2> QED
    BY <2>1, <2>2, <1>5
<1>10. ASSUME h = H
       PROVE  EndOfLine = 1 /\ line = <<>> /\ 1 \in 0..Len(inputBuf)
  <2>1. inputBuf[1] = CRLF
    BY <1>8, <1>9, <1>10
  <2> QED
    BY <2>1, <1>2, EmptyLine
<1>11. ASSUME h < H
       PROVE  /\ EndOfLine = 2 /\ line # <<>> /\ Len(line) = 1
              /\ line[1] = <<"header", r.headers[h + 1][1],
                                       r.headers[h + 1][2]>>
              /\ 2 \in 0..Len(inputBuf)
  <2>1. h + 1 \in 1..H /\ 2 * (h + 1) + 1 = 2 * h + 3
          /\ 2 * (h + 1) + 2 = p + 2 /\ p + 2 <= Len(T)
    BY <1>7, <1>8, <1>11
  <2>2. inputBuf[1] = <<"header", r.headers[h + 1][1], r.headers[h + 1][2]>>
    BY <2>1, <1>8, <1>9
  <2>3. T[p + 2] = CRLF
    BY <2>1, <1>8
  <2>4. 2 \in 1..Len(inputBuf) => inputBuf[2] = CRLF
    BY <2>1, <2>3, <1>5
  <2>5. inputBuf[1] # CRLF
    BY <2>2 DEF CRLF
  <2> QED
    BY <2>2, <2>4, <2>5, <1>2, TokenLine
<1>12. LineRead(r)
  BY <1>6 DEF AtHeader
<1>13. Laid(requests, k, 2 + 2 * h, unread)
  BY <1>1, <1>7
<1>14. Conforms(r)
  BY <1>5
<1> QED
  BY <1>4, <1>6, <1>7, <1>10, <1>11, <1>12, <1>13, <1>14

LEMMA EmptyLineStep ==
  ASSUME \A q \in Requests : Conforms(q), TypeInv, Matched, Synced,
         state_ = "kConnected", ParseEmptyLine
  PROVE  MatchInv'
<1> DEFINE k == Len(responses)
           r == requests[k + 1]
           H == Len(r.headers)
<1>1. parseState_ = "kHeader" /\ HasLine /\ line = <<>> /\ takeLine
        /\ requests' = requests /\ flight' = flight
  BY DEF ParseEmptyLine
<1>2. IsSeq(inputBuf) /\ IsSeq(flight)
  BY DEF Synced
<1>3. k < Len(requests) /\ Conforms(r) /\ LineRead(r) /\ body_ = <<>>
  BY <1>1, AtHeaderLine
<1>4. PICK h \in 0..H :
        /\ Laid(requests, k, 2 + 2 * h, unread) /\ HeadersRead(header_, r, h)
        /\ h = H => EndOfLine = 1 /\ 1 \in 0..Len(inputBuf)
        /\ h < H => line # <<>>
  BY <1>1, AtHeaderLine
<1>5. /\ H \in Nat /\ r.length \in Nat
      /\ Len(Tokens(r)) = 2 * H + 3 + r.length
  BY <1>3, TokensAre
<1>6. h = H
  BY <1>1, <1>4, <1>5
<1>7. Laid(requests, k, 2 + 2 * H, unread) /\ HeadersRead(header_, r, H)
        /\ EndOfLine = 1 /\ 1 \in 0..Len(inputBuf)
  BY <1>4, <1>6
<1>8. inputBuf' = SubSeq(inputBuf, 1 + 1, Len(inputBuf))
  BY <1>1, <1>7 DEF takeLine
<1>9. /\ Laid(requests, k, 2 * H + 3, unread')
      /\ IsSeq(inputBuf') /\ IsSeq(flight')
  <2>1. 1 \in 0..Len(inputBuf) /\ 2 + 2 * H \in Nat
          /\ Laid(requests, k, 2 + 2 * H, unread)
    BY <1>5, <1>7
  <2>2. /\ Laid(requests, k, (2 + 2 * H) + 1, unread')
        /\ IsSeq(inputBuf') /\ IsSeq(flight')
    BY <2>1, <1>1, <1>2, <1>8, TakeTokens
  <2>3. (2 + 2 * H) + 1 = 2 * H + 3
    BY <1>5
  <2> QED
    BY <2>2, <2>3
<1>10. CASE HasBody
  <2>1. /\ parseState_' = "kBody"
        /\ UNCHANGED <<method_, path_, version_, header_, body_, state_,
                       responses>>
    BY <1>10 DEF ParseEmptyLine
  <2>2. Matched'
    BY <2>1, <1>1, MatchedKept
  <2>3. AtBody(r, 2 * H + 3)'
    <3>1. LineRead(r)' /\ HasBody'
      BY <2>1, <1>1, <1>3, <1>10 DEF LineRead, HasBody
    <3> QED
      BY <3>1, <2>1, <1>1, <1>7 DEF AtBody
  <2>4. Parsing(2 * H + 3)'
    BY <2>1, <2>3, <1>1, <1>3 DEF Parsing, Place
  <2>5. 2 * H + 3 \in Nat
    BY <1>5
  <2>6. Synced'
    BY <2>1, <2>4, <2>5, <1>1, <1>9 DEF Synced
  <2> QED
    BY <2>2, <2>6 DEF MatchInv
<1>11. CASE ~HasBody
  <2>1. respond("kGetRequest", "kFinish", method_, path_, version_, header_,
                body_)
    BY <1>11 DEF ParseEmptyLine
  <2>2. r.length = 0
    <3>1. "Content-Length" \in DOMAIN header_ <=> Has(r, "Content-Length")
      BY <1>3, <1>7, HeadersAnswer DEF Special
    <3>2. holds(header_, "Content-Length", r.length)
             <=> HasValue(r, "Content-Length", r.length)
      BY <1>3, <1>7, HeadersAnswer DEF Special
    <3>3. CASE ~Has(r, "Content-Length")
      BY <3>3, <1>3 DEF Conforms
    <3>4. CASE Has(r, "Content-Length")
      <4>1. HasValue(r, "Content-Length", r.length)
        BY <3>4, <1>3 DEF Conforms
      <4>2. header_["Content-Length"] = r.length
        BY <4>1, <3>2 DEF holds
      <4> QED
        BY <4>2, <3>1, <3>4, <1>11 DEF HasBody
    <3> QED
      BY <3>3, <3>4
  <2>3. ~Has(r, "?")
    BY <1>3, <1>7, HeadersAnswer DEF Special
  <2>4. Deserved(r) = <<"kGetRequest", pageOf(r.page)>>
    <3>1. ~(r.length > 0)
      BY <2>2
    <3>2. r.method # "?" /\ pageOf(r.page) \notin Missing \cup Forbidden
      BY <1>3 DEF LineRead
    <3> QED
      BY <3>1, <3>2, <2>3, DeservedWhole
  <2>5. response("kGetRequest", path_) = Deserved(r)
    BY <2>4, <1>3, CodePages DEF LineRead
  <2>6. Laid(requests, k, Len(Tokens(r)), unread')
    <3>1. Len(Tokens(r)) = 2 * H + 3
      BY <2>2, <1>5
    <3> QED
      BY <3>1, <1>9
  <2> QED
    BY <2>1, <2>5, <2>6, <1>1, <1>3, <1>9, RespondMatched
<1> QED
  BY <1>10, <1>11

LEMMA HeaderStep ==
  ASSUME \A q \in Requests : Conforms(q), TypeInv, Matched, Synced,
         state_ = "kConnected", ParseRequestHeader
  PROVE  MatchInv'
<1> DEFINE k == Len(responses)
           r == requests[k + 1]
           H == Len(r.headers)
<1>1. parseState_ = "kHeader" /\ HasLine /\ line # <<>> /\ takeLine
        /\ requests' = requests /\ flight' = flight
  BY DEF ParseRequestHeader
<1>2. IsSeq(inputBuf) /\ IsSeq(flight)
  BY DEF Synced
<1>3. k < Len(requests) /\ Conforms(r) /\ LineRead(r) /\ body_ = <<>>
  BY <1>1, AtHeaderLine
<1>4. PICK h \in 0..H :
        /\ Laid(requests, k, 2 + 2 * h, unread) /\ HeadersRead(header_, r, h)
        /\ h = H => line = <<>>
        /\ h < H =>
             /\ EndOfLine = 2 /\ Len(line) = 1
             /\ line[1] = <<"header", r.headers[h + 1][1], r.headers[h + 1][2]>>
             /\ 2 \in 0..Len(inputBuf)
  BY <1>1, AtHeaderLine
<1>5. H \in Nat /\ DOMAIN r.headers = 1..H
  BY <1>3, TokensAre
<1>6. h < H
  BY <1>1, <1>4, <1>5
<1> DEFINE name == r.headers[h + 1][1]
           value == r.headers[h + 1][2]
<1>7. /\ EndOfLine = 2 /\ Len(line) = 1 /\ line[1] = <<"header", name, value>>
      /\ 2 \in 0..Len(inputBuf)
  BY <1>4, <1>6
<1>8. inputBuf' = SubSeq(inputBuf, 2 + 1, Len(inputBuf))
  BY <1>1, <1>7 DEF takeLine
<1>9. /\ Laid(requests, k, 2 + 2 * (h + 1), unread')
      /\ IsSeq(inputBuf') /\ IsSeq(flight')
  <2>1. 2 \in 0..Len(inputBuf) /\ 2 + 2 * h \in Nat
          /\ Laid(requests, k, 2 + 2 * h, unread)
    BY <1>4, <1>5, <1>7
  <2>2. /\ Laid(requests, k, (2 + 2 * h) + 2, unread')
        /\ IsSeq(inputBuf') /\ IsSeq(flight')
    BY <2>1, <1>1, <1>2, <1>8, TakeTokens
  <2>3. (2 + 2 * h) + 2 = 2 + 2 * (h + 1)
    BY <1>5
  <2> QED
    BY <2>2, <2>3
<1>10. IsHeader(line) <=> name # "?"
  BY <1>7 DEF IsHeader
<1>11. CASE name # "?"
  <2>1. /\ header_' = with(header_, name, value)
        /\ UNCHANGED <<parseState_, method_, path_, version_, body_, state_,
                       responses>>
    BY <1>7, <1>10, <1>11 DEF ParseRequestHeader
  <2>2. Matched'
    BY <2>1, <1>1, MatchedKept
  <2>3. HeadersRead(header_', r, h + 1)
    BY <2>1, <1>3, <1>4, <1>6, <1>11, HeadersMore
  <2>4. h + 1 \in 0..H
    BY <1>5, <1>6
  <2>5. AtHeader(r, 2 + 2 * (h + 1))'
    <3>1. LineRead(r)'
      BY <2>1, <1>1, <1>3 DEF LineRead
    <3>2. \E g \in 0..H : /\ 2 + 2 * (h + 1) = 2 + 2 * g
                          /\ HeadersRead(header_', r, g)
      BY <2>3, <2>4
    <3> QED
      BY <3>1, <3>2, <2>1, <1>1 DEF AtHeader
  <2>6. Parsing(2 + 2 * (h + 1))'
    BY <2>1, <2>5, <1>1, <1>3 DEF Parsing, Place
  <2>7. 2 + 2 * (h + 1) \in Nat
    BY <1>5
  <2>8. Synced'
    BY <2>1, <2>6, <2>7, <1>1, <1>9 DEF Synced
  <2> QED
    BY <2>2, <2>8 DEF MatchInv
<1>12. CASE name = "?"
  <2>1. respond("kBadRequest", parseState_, method_, path_, version_, header_,
                body_)
    BY <1>10, <1>12 DEF ParseRequestHeader
  <2>2. Has(r, "?")
    BY <1>5, <1>6, <1>12 DEF Has
  <2>3. response("kBadRequest", path_) = Deserved(r)
    <3>1. r.method # "?" /\ pageOf(r.page) \notin Missing \cup Forbidden
      BY <1>3 DEF LineRead
    <3>2. Deserved(r) = <<"kBadRequest", "400">>
      BY <3>1, <2>2, DeservedWhole
    <3> QED
      BY <3>2, CodePages
  <2>4. ~wantsKeepAlive(header_, version_)
    <3> SUFFICES ASSUME holds(header_, "Connection", "keep-alive") PROVE FALSE
      BY DEF wantsKeepAlive
    <3>1. PICK i \in 1..h : /\ r.headers[i][1] = "Connection"
                           /\ r.headers[i][2] = header_["Connection"]
      BY <1>4 DEF holds, HeadersRead
    <3>2. r.headers[i][2] = "keep-alive"
      BY <3>1 DEF holds
    <3>3. i \in DOMAIN r.headers /\ h + 1 \in DOMAIN r.headers /\ ~(h + 1 < i)
      BY <1>5, <1>6
    <3> QED
      BY <3>1, <3>2, <3>3, <1>3, <1>12 DEF Conforms
  <2> QED
    BY <2>1, <2>3, <2>4, <1>1, <1>3, RespondMatched
<1> QED
  BY <1>11, <1>12

\* Where a POST leads depends on its own form alone: a login either fills in
\* every field or is refused, and no other page looks at them.
LEMMA VerifiedAlone ==
  ASSUME NEW r, Conforms(r), r.method = "POST", r.length > 0,
         Has(r, "Content-Type"), IsEncoded(r) => IsForm(r.form), NEW old
  PROVE  LET mine == [f \in Fields |-> IF f \in DOMAIN r.form /\ IsEncoded(r)
                                         THEN r.form[f] ELSE None]
             post == IF IsEncoded(r)
                       THEN [f \in Fields |-> IF f \in DOMAIN r.form
                                                THEN r.form[f] ELSE old[f]]
                       ELSE old
         IN verified(pageOf(r.page), post) = verified(pageOf(r.page), mine)
<1> DEFINE mine == [f \in Fields |-> IF f \in DOMAIN r.form /\ IsEncoded(r)
                                       THEN r.form[f] ELSE None]
           post == IF IsEncoded(r)
                     THEN [f \in Fields |-> IF f \in DOMAIN r.form
                                              THEN r.form[f] ELSE old[f]]
                     ELSE old
<1>1. CASE r.page = "login"
  <2>1. IsEncoded(r) /\ Fields \subseteq DOMAIN r.form
    BY <1>1 DEF Conforms
  <2>2. post = mine
    BY <2>1
  <2> QED
    BY <2>2
<1>2. CASE r.page # "login"
  <2>1. pageOf(r.page) # "login"
    BY <1>2 DEF pageOf
  <2> HIDE DEF mine, post
  <2>2. verified(pageOf(r.page), post) = verified(pageOf(r.page), mine)
    BY <2>1, Zenon DEF verified
  <2> QED
    BY <2>2 DEF mine, post
<1> QED
  BY <1>1, <1>2

LEMMA BodyStep ==
  ASSUME \A q \in Requests : Conforms(q), TypeInv, Matched, Synced,
         state_ = "kConnected", ParseRequestBody
  PROVE  MatchInv'
<1> DEFINE k == Len(responses)
           r == requests[k + 1]
           H == Len(r.headers)
           L == r.length
           T == Tokens(r)
<1>1. PICK p \in Nat : Laid(requests, k, p, unread) /\ Parsing(p)
  BY DEF Synced
<1>2. IsSeq(inputBuf) /\ IsSeq(flight)
  BY DEF Synced
<1>3. parseState_ = "kBody" /\ bodyArrived
        /\ requests' = requests /\ flight' = flight
        /\ inputBuf' = SubSeq(inputBuf, remain + 1, Len(inputBuf))
  BY DEF ParseRequestBody
<1>4. k < Len(requests)
  BY <1>1, <1>3 DEF Parsing, Fresh
<1>5. AtBody(r, p) /\ body_ = <<>>
  BY <1>1, <1>3, <1>4 DEF Parsing, Place, Fresh, AtHeader
<1>6. /\ Conforms(r) /\ Len(inputBuf) \in Nat
      /\ \A j \in 1..Len(inputBuf) : p + j <= Len(T) => inputBuf[j] = T[p + j]
  BY <1>1, <1>2, <1>4, Before
<1>7. Conforms(r)
  BY <1>6
<1>8. /\ H \in Nat /\ L \in Nat /\ Len(T) = 2 * H + 3 + L
      /\ \A j \in 1..L : T[2 * H + 3 + j] = <<"body", r.form>>
  BY <1>7, TokensAre
<1>9. LineRead(r) /\ HasBody /\ p = 2 * H + 3 /\ HeadersRead(header_, r, H)
  BY <1>5 DEF AtBody
<1> HIDE DEF T
<1>10. /\ "Content-Length" \in DOMAIN header_ <=> Has(r, "Content-Length")
       /\ "Content-Type" \in DOMAIN header_ <=> Has(r, "Content-Type")
       /\ holds(header_, "Content-Length", L)
            <=> HasValue(r, "Content-Length", L)
       /\ holds(header_, "Content-Type", "urlencoded") <=> IsEncoded(r)
       /\ ~Has(r, "?")
  BY <1>7, <1>9, HeadersAnswer DEF Special, IsEncoded
<1>11. header_["Content-Length"] = L /\ L # 0
  <2>1. Has(r, "Content-Length") /\ header_["Content-Length"] # 0
    BY <1>9, <1>10 DEF HasBody
  <2>2. HasValue(r, "Content-Length", L)
    BY <2>1, <1>7 DEF Conforms
  <2> QED
    BY <2>1, <2>2, <1>10 DEF holds
<1>12. remain = L /\ L \in 0..Len(inputBuf) /\ L > 0
  <2>1. Len(body_) = 0
    BY <1>5
  <2>2. remain = L
    BY <2>1, <1>8, <1>11 DEF remain
  <2>3. Len(inputBuf) >= remain
    BY <1>3 DEF bodyArrived
  <2> QED
    BY <2>2, <2>3, <1>6, <1>8, <1>11
<1>13. /\ Laid(requests, k, Len(T), unread')
       /\ IsSeq(inputBuf') /\ IsSeq(flight')
  <2>1. inputBuf' = SubSeq(inputBuf, L + 1, Len(inputBuf)) /\ flight' = flight
          /\ L \in 0..Len(inputBuf)
    BY <1>3, <1>12
  <2>2. /\ Laid(requests, k, p + L, unread')
        /\ IsSeq(inputBuf') /\ IsSeq(flight')
    BY <2>1, <1>1, <1>2, TakeTokens
  <2>3. p + L = Len(T)
    BY <1>8, <1>9
  <2> QED
    BY <2>2, <2>3
<1> DEFINE body == body_ \o SubSeq(inputBuf, 1, remain)
           encoded == holds(header_, "Content-Type", "urlencoded")
           bad == \/ "Content-Type" \notin DOMAIN header_
                  \/ encoded /\ ~IsForm(body[1][2])
           post == IF encoded /\ ~bad THEN merged(body[1][2]) ELSE post_
<1>14. body[1][2] = r.form
  <2> DEFINE part == SubSeq(inputBuf, 1, L)
  <2>1. IsSeq(part) /\ Len(part) = L /\ part[1] = inputBuf[1]
    <3>1. L \in 0..Len(inputBuf) /\ 1 \in 1..L
      BY <1>8, <1>12
    <3> QED
      BY <3>1, <1>2, IsSeqFront
  <2>2. inputBuf[1] = <<"body", r.form>>
    <3>1. p = 2 * H + 3 /\ Len(T) = 2 * H + 3 + L /\ L \in Nat /\ H \in Nat
            /\ L > 0 /\ L \in 0..Len(inputBuf) /\ Len(inputBuf) \in Nat
      BY <1>6, <1>8, <1>9, <1>12
    <3> HIDE DEF L, H
    <3>2. 1 \in 1..Len(inputBuf) /\ p + 1 <= Len(T) /\ 1 \in 1..L
            /\ p + 1 = 2 * H + 3 + 1
      BY <3>1
    <3>3. inputBuf[1] = T[p + 1]
      BY <3>2, <1>6
    <3>4. T[2 * H + 3 + 1] = <<"body", r.form>>
      BY <3>2, <1>8
    <3> QED
      BY <3>2, <3>3, <3>4
  <2> HIDE DEF part
  <2>3. IsSeq(<<>>) /\ Len(<<>>) = 0
    <3>1. <<>> \in Seq({})
      OBVIOUS
    <3> QED
      BY <3>1 DEF IsSeq
  <2>4. \A i \in 1..Len(part) : (<<>> \o part)[Len(<<>>) + i] = part[i]
    <3>1. IsSeq(<<>>) /\ IsSeq(part)
      BY <2>1, <2>3
    <3> QED
      BY <3>1, IsSeqConcat
  <2>5. (<<>> \o part)[1] = part[1]
    <3>1. 1 \in 1..Len(part) /\ Len(<<>>) + 1 = 1
      BY <2>1, <2>3, <1>8, <1>12
    <3>2. (<<>> \o part)[Len(<<>>) + 1] = part[1]
      BY <3>1, <2>4
    <3> QED
      BY <3>1, <3>2
  <2>6. body = <<>> \o part
    BY <1>5, <1>12 DEF part
  <2> HIDE DEF body
  <2>7. body[1] = <<"body", r.form>>
    BY <2>1, <2>2, <2>5, <2>6
  <2> QED
    BY <2>7
<1>15. bad <=> ~Has(r, "Content-Type") \/ (IsEncoded(r) /\ ~IsForm(r.form))
  BY <1>10, <1>14
<1>16. method_ = r.method /\ path_ = pageOf(r.page) /\ r.method # "?"
         /\ pageOf(r.page) \notin Missing \cup Forbidden
  BY <1>9 DEF LineRead
<1> HIDE DEF body
<1>17. CASE r.method # "POST"
  <2>1. respond("kGetRequest", "kFinish", method_, path_, version_, header_,
                body)
    BY <1>16, <1>17, Zenon DEF ParseRequestBody, body
  <2>2. Deserved(r) = <<"kGetRequest", pageOf(r.page)>>
    BY <1>10, <1>16, <1>17, DeservedWhole
  <2>3. response("kGetRequest", path_) = Deserved(r)
    BY <2>2, <1>16, CodePages
  <2> QED
    BY <2>1, <2>3, <1>3, <1>4, <1>13, RespondMatched DEF T
<1>18. CASE r.method = "POST" /\ bad
  <2>1. respond("kBadRequest", parseState_, method_, path_, version_, header_,
                body)
    BY <1>16, <1>18, Zenon DEF ParseRequestBody, body
  <2>2. Deserved(r) = <<"kBadRequest", "400">>
    BY <1>12, <1>15, <1>16, <1>18, DeservedWhole
  <2>3. response("kBadRequest", path_) = Deserved(r)
    BY <2>2, CodePages
  <2> QED
    BY <2>1, <2>3, <1>3, <1>4, <1>13, RespondMatched DEF T
<1>19. CASE r.method = "POST" /\ ~bad
  <2> DEFINE page == verified(path_, post)
             mine == [f \in Fields |-> IF f \in DOMAIN r.form /\ IsEncoded(r)
                                         THEN r.form[f] ELSE None]
             shown == verified(pageOf(r.page), mine)
  <2>1. IF page \in Missing
          THEN respond("kNoResource", parseState_, method_, page, version_,
                       header_, body)
          ELSE respond("kGetRequest", "kFinish", method_, page, version_,
                       header_, body)
    BY <1>16, <1>19, Zenon DEF ParseRequestBody, body
  <2>2. Has(r, "Content-Type") /\ (IsEncoded(r) => IsForm(r.form))
    BY <1>15, <1>19
  <2>3. post = IF IsEncoded(r)
                 THEN [f \in Fields |-> IF f \in DOMAIN r.form
                                          THEN r.form[f] ELSE post_[f]]
                 ELSE post_
    BY <1>10, <1>14, <1>19 DEF merged
  <2>4. page = shown
    BY <2>2, <2>3, <1>7, <1>12, <1>16, <1>19, VerifiedAlone
  <2> HIDE DEF page, shown
  <2>5. Deserved(r) = IF shown \in Missing THEN <<"kNoResource", "404">>
                                           ELSE <<"kGetRequest", shown>>
    BY <2>2, <1>10, <1>12, <1>16, <1>19, DeservedWhole DEF shown
  <2>6. CASE page \in Missing
    <3>1. response("kNoResource", page) = Deserved(r)
      BY <2>4, <2>5, <2>6, CodePages
    <3>2. respond("kNoResource", parseState_, method_, page, version_, header_,
                  body)
      BY <2>1, <2>6
    <3> QED
      BY <3>1, <3>2, <1>3, <1>4, <1>13, RespondMatched DEF T
  <2>7. CASE page \notin Missing
    <3>1. response("kGetRequest", page) = Deserved(r)
      BY <2>4, <2>5, <2>7, CodePages
    <3>2. respond("kGetRequest", "kFinish", method_, page, version_, header_,
                  body)
      BY <2>1, <2>7
    <3> QED
      BY <3>1, <3>2, <1>3, <1>4, <1>13, RespondMatched DEF T
  <2> QED
    BY <2>6, <2>7
<1> QED
  BY <1>17, <1>18, <1>19
-----------------------------------------------------------------------------
(* The answers                                                              *)

LEMMA MatchInit == Init => MatchInv
<1> SUFFICES ASSUME Init PROVE MatchInv
  OBVIOUS
<1>1. /\ requests = <<>> /\ flight = <<>> /\ inputBuf = <<>>
      /\ responses = <<>> /\ body_ = <<>> /\ Fresh
  BY DEF Init, Fresh
<1>2. IsSeq(<<>>) /\ Len(<<>>) = 0 /\ DOMAIN <<>> = {} /\ <<>> \o <<>> = <<>>
  <2>1. <<>> \in Seq({})
    OBVIOUS
  <2> QED
    BY <2>1 DEF IsSeq
<1>3. Matched
  BY <1>1, <1>2 DEF Matched
<1>4. Laid(requests, Len(responses), 0, unread)
  BY <1>1, <1>2, LaidInit DEF unread
<1>5. Parsing(0)
  BY <1>1 DEF Parsing
<1>6. Synced
  BY <1>1, <1>2, <1>4, <1>5 DEF Synced
<1> QED
  BY <1>3, <1>6 DEF MatchInv

LEMMA MatchStep ==
  ASSUME \A q \in Requests : Conforms(q), TypeInv, MatchInv, [Next]_vars
  PROVE  MatchInv'
<1>1. Matched
  BY DEF MatchInv
<1>2. CASE state_ # "kConnected"
  BY <1>1, <1>2, StrayStep
<1>3. CASE state_ = "kConnected"
  <2>1. Synced
    BY <1>3 DEF MatchInv
  <2>2. CASE \E r \in Requests : PeerRequests(r)
    BY <2>1, <2>2, <1>1, PeerStep
  <2>3. CASE Timeout \/ Down \/ NeedMore \/ UNCHANGED vars
    BY <2>3, QuietStep
  <2>4. CASE Message
    BY <2>1, <2>4, <1>1, MessageStep
  <2>5. CASE ParseRequestLine
    BY <2>1, <2>5, <1>1, <1>3, RequestLineStep
  <2>6. CASE ParseEmptyLine
    BY <2>1, <2>6, <1>1, <1>3, EmptyLineStep
  <2>7. CASE ParseRequestHeader
    BY <2>1, <2>7, <1>1, <1>3, HeaderStep
  <2>8. CASE ParseRequestBody
    BY <2>1, <2>8, <1>1, <1>3, BodyStep
  <2>9. ~LoopExit
    BY <2>1 DEF LoopExit, Synced, Parsing, Place, Fresh, AtHeader, AtBody
  <2> QED
    BY <2>2, <2>3, <2>4, <2>5, <2>6, <2>7, <2>8, <2>9 DEF Next, Parse
<1> QED
  BY <1>2, <1>3

\* As long as every request conforms: however the bytes are cut into messages,
\* however many requests are pipelined and whenever the connection times out
\* or goes down, the i-th response is the one the i-th request deserves.
THEOREM ResponsesMatch ==
  ASSUME \A q \in Requests : Conforms(q)
  PROVE  Spec => []AnswersMatch
<1>1. Init => TypeInv /\ MatchInv
  BY TypesInit, MatchInit
<1>2. TypeInv /\ MatchInv /\ [Next]_vars => TypeInv' /\ MatchInv'
  BY TypesStep, MatchStep
<1>3. TypeInv /\ MatchInv => AnswersMatch
  BY DEF TypeInv, MatchInv, Matched, AnswersMatch
<1> QED
  BY <1>1, <1>2, <1>3, PTL DEF Spec

\* As long as every request conforms, an open connection's parser is never
\* lost in the stream: what is unread begins inside the first request that is
\* not answered, at the place its parseState_, header_ and body_ stand for.
THEOREM ParserInStep ==
  ASSUME \A q \in Requests : Conforms(q)
  PROVE  Spec => [](state_ = "kConnected" => Synced)
<1>1. Init => TypeInv /\ MatchInv
  BY TypesInit, MatchInit
<1>2. TypeInv /\ MatchInv /\ [Next]_vars => TypeInv' /\ MatchInv'
  BY TypesStep, MatchStep
<1>3. TypeInv /\ MatchInv => (state_ = "kConnected" => Synced)
  BY DEF MatchInv
<1> QED
  BY <1>1, <1>2, <1>3, PTL DEF Spec
=============================================================================
