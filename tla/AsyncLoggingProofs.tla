------------------------- MODULE AsyncLoggingProofs -------------------------
(***************************************************************************)
(* Proofs about AsyncLogging and its LogFile, for every buffer size, every  *)
(* set of line lengths that fit, every rolling policy and every clock: no   *)
(* line is lost, torn or reordered between append() and the files, no null  *)
(* buffer is used, and files are left in time.                              *)
(***************************************************************************)
EXTENDS AsyncLogging, TLAPS, FiniteSetTheorems, SequenceTheorems,
        WellFoundedInduction

-----------------------------------------------------------------------------
(* Induction, with the property as a set of numbers                         *)

LEMMA SetInduction ==
  ASSUME NEW T \in SUBSET Nat, 0 \in T, \A n \in T : n + 1 \in T
  PROVE  T = Nat
<1> DEFINE R == OpToRel(<, Nat)
           U == Nat \ T
<1>1. IsWellFoundedOn(R, Nat)
  BY NatLessThanWellFounded, Zenon
<1>2. \A x, y \in Nat : <<y, x>> \in R <=> y < x
  BY DEF OpToRel
<1> SUFFICES ASSUME U # {} PROVE FALSE
  OBVIOUS
<1> HIDE DEF R
<1>3. PICK x \in U : \A y \in U : ~(<<y, x>> \in R)
  <2>1. U \subseteq Nat
    OBVIOUS
  <2> HIDE DEF U
  <2> QED
    BY <1>1, <2>1, WFMin
<1>4. x # 0 /\ x - 1 \in Nat /\ (x - 1) + 1 = x /\ x - 1 < x
  OBVIOUS
<1>5. x - 1 \in U
  BY <1>4
<1> QED
  BY <1>2, <1>3, <1>4, <1>5
-----------------------------------------------------------------------------
(* What FlattenSeq computes                                                 *)

\* The prefixes of FlattenSeq(ss): g[i] is ss[1] \o ... \o ss[i]
IsFlat(g, ss, n) ==
  g = [i \in 1..n |-> IF i = 1 THEN ss[i] ELSE g[i - 1] \o ss[i]]

Flat(ss) == CHOOSE g : IsFlat(g, ss, Len(ss))

LEMMA FlatExists ==
  ASSUME NEW ss, NEW n \in Nat
  PROVE  \E g : IsFlat(g, ss, n)
<1> DEFINE T == {m \in Nat : \E g : IsFlat(g, ss, m)}
<1>1. 0 \in T
  <2>1. IsFlat([i \in 1..0 |-> ss], ss, 0)
    BY DEF IsFlat
  <2> QED
    BY <2>1
<1>2. ASSUME NEW m \in T PROVE m + 1 \in T
  <2>1. m \in Nat
    OBVIOUS
  <2>2. PICK g : IsFlat(g, ss, m)
    OBVIOUS
  <2> DEFINE h == [i \in 1..(m + 1) |->
                     IF i \in 1..m THEN g[i]
                     ELSE IF i = 1 THEN ss[i] ELSE g[i - 1] \o ss[i]]
  <2>3. \A i \in 1..m : g[i] = IF i = 1 THEN ss[i] ELSE g[i - 1] \o ss[i]
    BY <2>2 DEF IsFlat
  <2>4. \A i \in 1..(m + 1) : h[i] = IF i = 1 THEN ss[i] ELSE h[i - 1] \o ss[i]
    <3> SUFFICES ASSUME NEW i \in 1..(m + 1)
                 PROVE  h[i] = IF i = 1 THEN ss[i] ELSE h[i - 1] \o ss[i]
      OBVIOUS
    <3>1. i # 1 => i - 1 \in 1..m /\ i - 1 \in 1..(m + 1)
      BY <2>1
    <3>2. i # 1 => h[i - 1] = g[i - 1]
      BY <3>1
    <3>3. h[i] = IF i = 1 THEN ss[i] ELSE g[i - 1] \o ss[i]
      BY <2>3
    <3> QED
      BY <3>2, <3>3
  <2>5. IsFlat(h, ss, m + 1)
    BY <2>4 DEF IsFlat
  <2> QED
    BY <2>1, <2>5
<1>3. T \in SUBSET Nat
  OBVIOUS
<1>4. \A m \in T : m + 1 \in T
  BY <1>2
<1> HIDE DEF T
<1>5. T = Nat
  BY <1>1, <1>3, <1>4, SetInduction
<1> QED
  BY <1>5 DEF T

LEMMA FlatDef ==
  ASSUME NEW ss, Len(ss) \in Nat
  PROVE  /\ IsFlat(Flat(ss), ss, Len(ss))
         /\ Len(ss) # 0 => FlattenSeq(ss) = Flat(ss)[Len(ss)]
         /\ Len(ss) = 0 => FlattenSeq(ss) = ss
<1>1. IsFlat(Flat(ss), ss, Len(ss))
  <2>1. \E g : IsFlat(g, ss, Len(ss))
    BY FlatExists
  <2> QED
    BY <2>1 DEF Flat
<1>2. FlattenSeq(ss) = IF Len(ss) = 0 THEN ss ELSE Flat(ss)[Len(ss)]
  BY DEF FlattenSeq, Flat, IsFlat
<1> QED
  BY <1>1, <1>2

LEMMA FlatSteps ==
  ASSUME NEW ss, Len(ss) \in Nat, NEW i \in 1..Len(ss)
  PROVE  Flat(ss)[i] = IF i = 1 THEN ss[i] ELSE Flat(ss)[i - 1] \o ss[i]
<1> DEFINE g == Flat(ss)
<1>1. IsFlat(g, ss, Len(ss))
  BY FlatDef
<1> HIDE DEF g
<1>2. g = [j \in 1..Len(ss) |-> IF j = 1 THEN ss[j] ELSE g[j - 1] \o ss[j]]
  BY <1>1 DEF IsFlat
<1>3. g[i] = IF i = 1 THEN ss[i] ELSE g[i - 1] \o ss[i]
  BY <1>2
<1> QED
  BY <1>3 DEF g

\* Flattening lists of sequences over S gives sequences over S.
LEMMA FlatType ==
  ASSUME NEW S, NEW ss \in Seq(Seq(S))
  PROVE  /\ \A i \in 1..Len(ss) : Flat(ss)[i] \in Seq(S)
         /\ FlattenSeq(ss) \in Seq(S)
<1>1. Len(ss) \in Nat /\ \A i \in 1..Len(ss) : ss[i] \in Seq(S)
  BY LenProperties, ElementOfSeq
<1> DEFINE T == {n \in Nat : n \in 1..Len(ss) => Flat(ss)[n] \in Seq(S)}
<1>2. 0 \in T
  BY <1>1
<1>3. ASSUME NEW n \in T PROVE n + 1 \in T
  <2> SUFFICES ASSUME n + 1 \in 1..Len(ss) PROVE Flat(ss)[n + 1] \in Seq(S)
    OBVIOUS
  <2>1. Flat(ss)[n + 1] = IF n + 1 = 1 THEN ss[n + 1]
                          ELSE Flat(ss)[(n + 1) - 1] \o ss[n + 1]
    BY <1>1, FlatSteps
  <2>2. CASE n = 0
    <3>1. n + 1 = 1
      BY <2>2
    <3> QED
      BY <1>1, <2>1, <3>1
  <2>3. CASE n # 0
    <3>1. n \in 1..Len(ss) /\ n + 1 # 1 /\ (n + 1) - 1 = n
      BY <1>1, <2>3
    <3>2. Flat(ss)[n] \in Seq(S) /\ ss[n + 1] \in Seq(S)
      BY <1>1, <3>1
    <3>3. Flat(ss)[n + 1] = Flat(ss)[n] \o ss[n + 1]
      BY <2>1, <3>1
    <3> QED
      BY <3>2, <3>3, ConcatProperties
  <2> QED
    BY <2>2, <2>3
<1>4. T \in SUBSET Nat /\ \A n \in T : n + 1 \in T
  BY <1>3
<1> HIDE DEF T
<1>5. T = Nat
  BY <1>2, <1>4, SetInduction
<1>6. ASSUME NEW i \in 1..Len(ss) PROVE Flat(ss)[i] \in Seq(S)
  <2>1. i \in Nat
    BY <1>1
  <2>2. i \in T
    BY <1>5, <2>1
  <2> QED
    BY <2>2 DEF T
<1>7. FlattenSeq(ss) \in Seq(S)
  <2>1. CASE Len(ss) = 0
    <3>1. ss = <<>>
      BY <2>1, EmptySeq
    <3> QED
      BY <1>1, <2>1, <3>1, FlatDef, EmptySeq
  <2>2. CASE Len(ss) # 0
    BY <1>1, <1>6, <2>2, FlatDef
  <2> QED
    BY <2>1, <2>2
<1> QED
  BY <1>6, <1>7

\* One more sequence at the end.
LEMMA FlattenAppend ==
  ASSUME NEW S, NEW ss \in Seq(Seq(S)), NEW s \in Seq(S)
  PROVE  FlattenSeq(Append(ss, s)) = FlattenSeq(ss) \o s
<1> DEFINE tt == Append(ss, s)
<1>1. /\ tt \in Seq(Seq(S)) /\ Len(tt) = Len(ss) + 1 /\ Len(ss) \in Nat
      /\ \A i \in 1..Len(ss) : tt[i] = ss[i]
      /\ tt[Len(ss) + 1] = s
  BY AppendProperties, LenProperties
<1> HIDE DEF tt
<1> DEFINE T == {n \in Nat : n \in 1..Len(ss) => Flat(tt)[n] = Flat(ss)[n]}
<1>2. 0 \in T
  BY <1>1
<1>3. ASSUME NEW n \in T PROVE n + 1 \in T
  <2> SUFFICES ASSUME n + 1 \in 1..Len(ss) PROVE Flat(tt)[n + 1] = Flat(ss)[n + 1]
    OBVIOUS
  <2>1. n \in Nat /\ n + 1 \in 1..Len(tt) /\ Len(tt) \in Nat
    BY <1>1
  <2>2. Flat(ss)[n + 1] = IF n + 1 = 1 THEN ss[n + 1]
                          ELSE Flat(ss)[(n + 1) - 1] \o ss[n + 1]
    BY <1>1, FlatSteps
  <2>3. Flat(tt)[n + 1] = IF n + 1 = 1 THEN tt[n + 1]
                          ELSE Flat(tt)[(n + 1) - 1] \o tt[n + 1]
    BY <2>1, FlatSteps
  <2>4. n + 1 # 1 => (n + 1) - 1 = n /\ n \in 1..Len(ss)
    BY <1>1, <2>1
  <2>5. n + 1 # 1 => Flat(tt)[(n + 1) - 1] = Flat(ss)[(n + 1) - 1]
    BY <2>4
  <2> QED
    BY <1>1, <2>2, <2>3, <2>5
<1>4. T \in SUBSET Nat /\ \A n \in T : n + 1 \in T
  BY <1>3
<1> HIDE DEF T
<1>5. T = Nat
  BY <1>2, <1>4, SetInduction
<1>6. ASSUME NEW i \in 1..Len(ss) PROVE Flat(tt)[i] = Flat(ss)[i]
  <2>1. i \in Nat
    BY <1>1
  <2>2. i \in T
    BY <1>5, <2>1
  <2> QED
    BY <2>2 DEF T
<1>7. Len(tt) \in 1..Len(tt) /\ Len(tt) \in Nat /\ Len(tt) # 0
  BY <1>1
<1>8. FlattenSeq(tt) = Flat(tt)[Len(tt)]
  BY <1>7, FlatDef
<1>9. Flat(tt)[Len(tt)] = IF Len(tt) = 1 THEN tt[Len(tt)]
                          ELSE Flat(tt)[Len(tt) - 1] \o tt[Len(tt)]
  BY <1>7, FlatSteps
<1>10. CASE Len(ss) = 0
  <2>1. ss = <<>>
    BY <1>10, EmptySeq
  <2>2. FlattenSeq(ss) = <<>>
    BY <1>1, <1>10, <2>1, FlatDef
  <2>3. FlattenSeq(tt) = s
    <3>1. Len(tt) = 1
      BY <1>1, <1>10
    <3>2. tt[Len(tt)] = s
      BY <1>1
    <3> QED
      BY <1>8, <1>9, <3>1, <3>2
  <2>4. <<>> \o s = s
    BY ConcatEmptySeq
  <2> QED
    BY <2>2, <2>3, <2>4 DEF tt
<1>11. CASE Len(ss) # 0
  <2>1. Len(tt) # 1 /\ Len(tt) - 1 = Len(ss) /\ Len(ss) \in 1..Len(ss)
    BY <1>1, <1>11
  <2>2. FlattenSeq(ss) = Flat(ss)[Len(ss)]
    BY <1>1, <1>11, FlatDef
  <2>3. Flat(tt)[Len(ss)] = Flat(ss)[Len(ss)]
    BY <1>6, <2>1
  <2>4. tt[Len(tt)] = s
    BY <1>1
  <2>5. Flat(tt)[Len(tt)] = Flat(tt)[Len(ss)] \o s
    BY <1>9, <2>1, <2>4
  <2> QED
    BY <1>8, <2>2, <2>3, <2>5 DEF tt
<1> QED
  BY <1>10, <1>11

\* No sequence, one sequence, and two lists of them.
LEMMA FlattenEmpty == FlattenSeq(<<>>) = <<>>
<1>1. Len(<<>>) = 0
  BY EmptySeq
<1> QED
  BY <1>1, FlatDef

LEMMA FlattenOne ==
  ASSUME NEW S, NEW s \in Seq(S)
  PROVE  FlattenSeq(<<s>>) = s
<1>1. <<>> \in Seq(Seq(S)) /\ Append(<<>>, s) = <<s>>
  BY EmptySeq
<1>2. FlattenSeq(Append(<<>>, s)) = FlattenSeq(<<>>) \o s
  BY <1>1, FlattenAppend
<1>3. <<>> \o s = s
  BY ConcatEmptySeq
<1> QED
  BY <1>1, <1>2, <1>3, FlattenEmpty

LEMMA FlattenConcat ==
  ASSUME NEW S, NEW ss \in Seq(Seq(S)), NEW uu \in Seq(Seq(S))
  PROVE  FlattenSeq(ss \o uu) = FlattenSeq(ss) \o FlattenSeq(uu)
<1> DEFINE T == {n \in Nat : \A tt \in Seq(Seq(S)) : Len(tt) = n =>
                   FlattenSeq(ss \o tt) = FlattenSeq(ss) \o FlattenSeq(tt)}
<1>1. FlattenSeq(ss) \in Seq(S)
  BY FlatType
<1>2. 0 \in T
  <2>1. ASSUME NEW tt \in Seq(Seq(S)), Len(tt) = 0
        PROVE  FlattenSeq(ss \o tt) = FlattenSeq(ss) \o FlattenSeq(tt)
    <3>1. tt = <<>>
      BY <2>1, EmptySeq
    <3>2. ss \o <<>> = ss /\ FlattenSeq(ss) \o <<>> = FlattenSeq(ss)
      BY <1>1, ConcatEmptySeq
    <3> QED
      BY <3>1, <3>2, FlattenEmpty
  <2> QED
    BY <2>1
<1>3. ASSUME NEW n \in T PROVE n + 1 \in T
  <2>1. n \in Nat
    OBVIOUS
  <2>2. \A tt \in Seq(Seq(S)) : Len(tt) = n =>
          FlattenSeq(ss \o tt) = FlattenSeq(ss) \o FlattenSeq(tt)
    OBVIOUS
  <2> HIDE DEF T
  <2>3. ASSUME NEW tt \in Seq(Seq(S)), Len(tt) = n + 1
        PROVE  FlattenSeq(ss \o tt) = FlattenSeq(ss) \o FlattenSeq(tt)
    <3>1. tt # <<>>
      <4>1. Len(<<>>) = 0
        BY EmptySeq
      <4> QED
        BY <2>1, <2>3, <4>1
    <3>2. PICK first \in Seq(Seq(S)), last \in Seq(S) : tt = Append(first, last)
      BY <3>1, SequenceEmptyOrAppend
    <3>3. Len(first) = n
      <4>1. Len(tt) = Len(first) + 1 /\ Len(first) \in Nat
        BY <3>2, AppendProperties, LenProperties
      <4> QED
        BY <2>1, <2>3, <4>1
    <3>4. FlattenSeq(ss \o first) = FlattenSeq(ss) \o FlattenSeq(first)
      BY <2>2, <3>3
    <3>5. ss \o first \in Seq(Seq(S)) /\ <<last>> \in Seq(Seq(S))
      BY ConcatProperties
    <3>6. ss \o tt = Append(ss \o first, last)
      <4>1. tt = first \o <<last>>
        BY <3>2, AppendIsConcat
      <4>2. ss \o (first \o <<last>>) = (ss \o first) \o <<last>>
        BY <3>5, ConcatAssociative
      <4>3. (ss \o first) \o <<last>> = Append(ss \o first, last)
        BY <3>5, AppendIsConcat
      <4> QED
        BY <4>1, <4>2, <4>3
    <3>7. FlattenSeq(ss \o tt) = FlattenSeq(ss \o first) \o last
      BY <3>5, <3>6, FlattenAppend
    <3>8. FlattenSeq(tt) = FlattenSeq(first) \o last
      BY <3>2, FlattenAppend
    <3>9. FlattenSeq(first) \in Seq(S)
      BY FlatType
    <3>10. (FlattenSeq(ss) \o FlattenSeq(first)) \o last
             = FlattenSeq(ss) \o (FlattenSeq(first) \o last)
      <4> DEFINE a == FlattenSeq(ss)
                 b == FlattenSeq(first)
      <4>1. a \in Seq(S) /\ b \in Seq(S) /\ last \in Seq(S)
        BY <1>1, <3>9
      <4> HIDE DEF a, b
      <4>2. (a \o b) \o last = a \o (b \o last)
        BY <4>1, ConcatAssociative
      <4> QED
        BY <4>2 DEF a, b
    <3> QED
      BY <3>4, <3>7, <3>8, <3>10
  <2> QED
    BY <2>1, <2>3 DEF T
<1>4. T \in SUBSET Nat /\ \A n \in T : n + 1 \in T
  BY <1>3
<1>5. Len(uu) \in Nat
  BY LenProperties
<1> HIDE DEF T
<1>6. T = Nat
  BY <1>2, <1>4, SetInduction
<1>7. Len(uu) \in T
  BY <1>5, <1>6
<1> QED
  BY <1>7 DEF T

-----------------------------------------------------------------------------
(* What Used computes                                                       *)

\* The sums of Used(b): g[s] is that of the lines with their places in s
IsSum(g, b, D) ==
  g = [s \in SUBSET D |-> IF s = {} THEN 0 ELSE g[s \ {Max(s)}] + b[Max(s)][2]]

Sum(b) == CHOOSE g : IsSum(g, b, DOMAIN b)

LEMMA MaxIs ==
  ASSUME NEW n \in Nat, NEW s \in SUBSET (1..n), n \in s
  PROVE  Max(s) = n
<1>1. n \in s /\ \A y \in s : n >= y
  OBVIOUS
<1>2. Max(s) \in s /\ \A y \in s : Max(s) >= y
  BY <1>1 DEF Max
<1>3. Max(s) \in 1..n /\ Max(s) >= n
  BY <1>1, <1>2
<1> QED
  BY <1>3

LEMMA SumExists ==
  ASSUME NEW b, NEW n \in Nat
  PROVE  \E g : IsSum(g, b, 1..n)
<1> DEFINE T == {m \in Nat : \E g : IsSum(g, b, 1..m)}
<1>1. 0 \in T
  <2>1. 1..0 = {} /\ SUBSET (1..0) = {{}}
    OBVIOUS
  <2> DEFINE g == [s \in SUBSET (1..0) |-> 0]
  <2>2. g = [s \in SUBSET (1..0) |->
               IF s = {} THEN 0 ELSE g[s \ {Max(s)}] + b[Max(s)][2]]
    BY <2>1
  <2> HIDE DEF g
  <2>3. IsSum(g, b, 1..0)
    BY <2>2 DEF IsSum
  <2> QED
    BY <2>3
<1>2. ASSUME NEW m \in T PROVE m + 1 \in T
  <2>1. m \in Nat
    OBVIOUS
  <2>2. PICK g : IsSum(g, b, 1..m)
    OBVIOUS
  <2> HIDE DEF T
  <2> DEFINE h == [s \in SUBSET (1..(m + 1)) |->
                     IF m + 1 \in s THEN g[s \ {m + 1}] + b[m + 1][2] ELSE g[s]]
  <2>3. \A s \in SUBSET (1..m) :
          g[s] = IF s = {} THEN 0 ELSE g[s \ {Max(s)}] + b[Max(s)][2]
    <3>1. g = [s \in SUBSET (1..m) |->
                 IF s = {} THEN 0 ELSE g[s \ {Max(s)}] + b[Max(s)][2]]
      BY <2>2 DEF IsSum
    <3> DEFINE e(s) == IF s = {} THEN 0 ELSE g[s \ {Max(s)}] + b[Max(s)][2]
    <3>2. g = [s \in SUBSET (1..m) |-> e(s)]
      BY <3>1
    <3> HIDE DEF e
    <3>3. \A s \in SUBSET (1..m) : g[s] = e(s)
      BY <3>2
    <3> QED
      BY <3>3 DEF e
  <2>4. \A s \in SUBSET (1..(m + 1)) : m + 1 \notin s => s \in SUBSET (1..m)
    BY <2>1
  <2>5. ASSUME NEW s \in SUBSET (1..(m + 1))
        PROVE  h[s] = IF s = {} THEN 0 ELSE h[s \ {Max(s)}] + b[Max(s)][2]
    <3>1. CASE m + 1 \in s
      <4>1. Max(s) = m + 1
        BY <2>1, <3>1, MaxIs
      <4>2. h[s \ {m + 1}] = g[s \ {m + 1}]
        OBVIOUS
      <4>3. h[s] = g[s \ {m + 1}] + b[m + 1][2]
        BY <3>1
      <4> HIDE DEF h
      <4> QED
        BY <3>1, <4>1, <4>2, <4>3
    <3>2. CASE m + 1 \notin s
      <4>1. h[s] = g[s] /\ h[s \ {Max(s)}] = g[s \ {Max(s)}]
        BY <3>2
      <4>2. s \in SUBSET (1..m)
        BY <2>4, <3>2
      <4> HIDE DEF h
      <4> QED
        BY <2>3, <4>1, <4>2
    <3> QED
      BY <3>1, <3>2
  <2>6. h = [s \in SUBSET (1..(m + 1)) |->
               IF s = {} THEN 0 ELSE h[s \ {Max(s)}] + b[Max(s)][2]]
    <3> DEFINE e(s) == IF s = {} THEN 0 ELSE h[s \ {Max(s)}] + b[Max(s)][2]
    <3>1. \A s \in SUBSET (1..(m + 1)) : h[s] = e(s)
      BY <2>5
    <3>2. h = [s \in SUBSET (1..(m + 1)) |-> h[s]]
      OBVIOUS
    <3> HIDE DEF e, h
    <3>3. h = [s \in SUBSET (1..(m + 1)) |-> e(s)]
      BY <3>1, <3>2
    <3> QED
      BY <3>3 DEF e
  <2> HIDE DEF h
  <2>7. IsSum(h, b, 1..(m + 1))
    BY <2>6 DEF IsSum
  <2> QED
    BY <2>1, <2>7 DEF T
<1>3. T \in SUBSET Nat
  OBVIOUS
<1>4. \A m \in T : m + 1 \in T
  BY <1>2
<1> HIDE DEF T
<1>5. T = Nat
  BY <1>1, <1>3, <1>4, SetInduction
<1> QED
  BY <1>5 DEF T

LEMMA SumSteps ==
  ASSUME NEW S, NEW b \in Seq(S)
  PROVE  /\ Used(b) = Sum(b)[1..Len(b)]
         /\ Sum(b)[1..0] = 0
         /\ \A n \in 1..Len(b) : Sum(b)[1..n] = Sum(b)[1..(n - 1)] + b[n][2]
<1>1. Len(b) \in Nat /\ DOMAIN b = 1..Len(b)
  BY LenProperties
<1>2. Used(b) = Sum(b)[DOMAIN b]
  BY DEF Used, FoldLeft, MapThenFoldSet, Sum, IsSum
<1>3. \E g : IsSum(g, b, DOMAIN b)
  BY <1>1, SumExists
<1>4. IsSum(Sum(b), b, DOMAIN b)
  BY <1>3 DEF Sum
<1> DEFINE g == Sum(b)
           e(s) == IF s = {} THEN 0 ELSE g[s \ {Max(s)}] + b[Max(s)][2]
<1> HIDE DEF g
<1>5. g = [s \in SUBSET (1..Len(b)) |-> e(s)]
  BY <1>1, <1>4 DEF IsSum, g
<1> HIDE DEF e
<1>6. \A s \in SUBSET (1..Len(b)) : g[s] = e(s)
  BY <1>5
<1>7. g[1..0] = 0
  <2>1. 1..0 = {} /\ 1..0 \in SUBSET (1..Len(b))
    OBVIOUS
  <2> QED
    BY <1>6, <2>1 DEF e
<1>8. ASSUME NEW n \in 1..Len(b) PROVE g[1..n] = g[1..(n - 1)] + b[n][2]
  <2>1. n \in Nat /\ n \in 1..n /\ 1..n \in SUBSET (1..Len(b)) /\ 1..n # {}
    BY <1>1
  <2>2. Max(1..n) = n
    BY <2>1, MaxIs
  <2>3. (1..n) \ {n} = 1..(n - 1)
    BY <2>1
  <2> QED
    BY <1>6, <2>1, <2>2, <2>3 DEF e
<1> QED
  BY <1>1, <1>2, <1>7, <1>8 DEF g

\* A buffer's bytes are a number; one more line is its length more.
LEMMA UsedAppend ==
  ASSUME NEW b \in Seq(Lines), NEW line \in Lines
  PROVE  /\ Used(<<>>) = 0
         /\ Used(b) \in Nat
         /\ Used(Append(b, line)) = Used(b) + line[2]
<1> DEFINE c == Append(b, line)
<1>1. /\ c \in Seq(Lines) /\ Len(c) = Len(b) + 1 /\ Len(b) \in Nat
      /\ \A i \in 1..Len(b) : c[i] = b[i]
      /\ c[Len(b) + 1] = line
  BY AppendProperties, LenProperties
<1>2. \A i \in 1..Len(b) : b[i][2] \in Nat
  <2>1. \A i \in 1..Len(b) : b[i] \in Lines
    BY ElementOfSeq
  <2>2. \A l \in Lines : l[2] \in Lengths
    BY DEF Lines
  <2>3. Lengths \subseteq Nat
    BY LengthsAssumption
  <2> QED
    BY <2>1, <2>2, <2>3
<1> HIDE DEF c
<1>3. /\ Used(b) = Sum(b)[1..Len(b)]
      /\ Sum(b)[1..0] = 0
      /\ \A n \in 1..Len(b) : Sum(b)[1..n] = Sum(b)[1..(n - 1)] + b[n][2]
  BY SumSteps
<1>4. /\ Used(c) = Sum(c)[1..Len(c)]
      /\ Sum(c)[1..0] = 0
      /\ \A n \in 1..Len(c) : Sum(c)[1..n] = Sum(c)[1..(n - 1)] + c[n][2]
  BY <1>1, SumSteps
<1> DEFINE T == {n \in Nat : n <= Len(b) => /\ Sum(c)[1..n] = Sum(b)[1..n]
                                            /\ Sum(b)[1..n] \in Nat}
<1>5. 0 \in T
  BY <1>3, <1>4
<1>6. ASSUME NEW n \in T PROVE n + 1 \in T
  <2> SUFFICES ASSUME n + 1 <= Len(b)
               PROVE  /\ Sum(c)[1..(n + 1)] = Sum(b)[1..(n + 1)]
                      /\ Sum(b)[1..(n + 1)] \in Nat
    OBVIOUS
  <2>1. /\ n \in Nat /\ n <= Len(b) /\ n + 1 \in 1..Len(b)
        /\ n + 1 \in 1..Len(c) /\ (n + 1) - 1 = n
    BY <1>1
  <2>2. Sum(c)[1..n] = Sum(b)[1..n] /\ Sum(b)[1..n] \in Nat
    BY <2>1
  <2> HIDE DEF T
  <2>3. Sum(b)[1..(n + 1)] = Sum(b)[1..n] + b[n + 1][2]
    BY <1>3, <2>1
  <2>4. Sum(c)[1..(n + 1)] = Sum(c)[1..n] + b[n + 1][2]
    BY <1>1, <1>4, <2>1
  <2>5. b[n + 1][2] \in Nat
    BY <1>2, <2>1
  <2> QED
    BY <2>2, <2>3, <2>4, <2>5
<1>7. T \in SUBSET Nat /\ \A n \in T : n + 1 \in T
  BY <1>6
<1> HIDE DEF T
<1>8. T = Nat
  BY <1>5, <1>7, SetInduction
<1>9. Sum(c)[1..Len(b)] = Sum(b)[1..Len(b)] /\ Sum(b)[1..Len(b)] \in Nat
  <2>1. Len(b) \in T
    BY <1>1, <1>8
  <2> QED
    BY <1>1, <2>1 DEF T
<1>10. Used(c) = Used(b) + line[2]
  <2>1. Len(c) \in 1..Len(c) /\ Len(c) - 1 = Len(b) /\ c[Len(c)] = line
    BY <1>1
  <2>2. Sum(c)[1..Len(c)] = Sum(c)[1..(Len(c) - 1)] + c[Len(c)][2]
    BY <1>4, <2>1
  <2> QED
    BY <1>3, <1>4, <1>9, <2>1, <2>2
<1>11. Used(<<>>) = 0
  <2>1. <<>> \in Seq(Lines) /\ Len(<<>>) = 0
    BY EmptySeq
  <2>2. Used(<<>>) = Sum(<<>>)[1..Len(<<>>)] /\ Sum(<<>>)[1..0] = 0
    BY <2>1, SumSteps
  <2> QED
    BY <2>1, <2>2
<1> QED
  BY <1>3, <1>9, <1>10, <1>11 DEF c

-----------------------------------------------------------------------------
(* The files                                                                *)

FileSet ==
  {f \in [name : Nat, openedAt : Times, lines : Seq(Lines)] :
     f.name = localtime[f.openedAt]}

LEMMA NewFile ==
  /\ 1 \in Times
  /\ \A now \in Times : now \in Nat
  /\ \A now \in Times : /\ newFile(now) \in FileSet
                        /\ newFile(now).openedAt = now
                        /\ newFile(now).lines = <<>>
<1>1. 1 \in Times /\ \A now \in Times : now \in Nat
  BY RollAssumption DEF Times
<1>2. ASSUME NEW now \in Times
      PROVE  newFile(now) \in FileSet /\ newFile(now).openedAt = now
               /\ newFile(now).lines = <<>>
  <2>1. localtime[now] \in Nat /\ <<>> \in Seq(Lines)
    BY LocaltimeAssumption, EmptySeq
  <2> QED
    BY <2>1 DEF newFile, FileSet
<1> QED
  BY <1>1, <1>2
LinesOf(fs) == [i \in DOMAIN fs |-> fs[i].lines]

LEMMA LinesOfAppend ==
  ASSUME NEW fs \in Seq(FileSet), NEW f \in FileSet
  PROVE  /\ LinesOf(fs) \in Seq(Seq(Lines))
         /\ LinesOf(Append(fs, f)) = Append(LinesOf(fs), f.lines)
<1>1. ASSUME NEW gs \in Seq(FileSet)
      PROVE  /\ LinesOf(gs) \in Seq(Seq(Lines)) /\ Len(LinesOf(gs)) = Len(gs)
             /\ \A i \in 1..Len(gs) : LinesOf(gs)[i] = gs[i].lines
  <2>1. Len(gs) \in Nat /\ DOMAIN gs = 1..Len(gs)
        /\ \A i \in 1..Len(gs) : gs[i] \in FileSet
    BY LenProperties, ElementOfSeq
  <2>2. \A i \in 1..Len(gs) : gs[i].lines \in Seq(Lines)
    BY <2>1 DEF FileSet
  <2>3. LinesOf(gs) = [i \in 1..Len(gs) |-> gs[i].lines]
    BY <2>1 DEF LinesOf
  <2>4. LinesOf(gs) \in [1..Len(gs) -> Seq(Lines)]
    BY <2>2, <2>3
  <2>5. LinesOf(gs) \in Seq(Seq(Lines)) /\ Len(LinesOf(gs)) = Len(gs)
    BY <2>1, <2>4, SeqDef
  <2> QED
    BY <2>3, <2>5
<1> DEFINE a == Append(fs, f)
           u == LinesOf(a)
           v == Append(LinesOf(fs), f.lines)
<1>2. /\ a \in Seq(FileSet) /\ Len(a) = Len(fs) + 1 /\ Len(fs) \in Nat
      /\ \A i \in 1..Len(fs) : a[i] = fs[i]
      /\ a[Len(fs) + 1] = f
  BY AppendProperties, LenProperties
<1> HIDE DEF a
<1>3. /\ u \in Seq(Seq(Lines)) /\ Len(u) = Len(a)
      /\ \A i \in 1..Len(a) : u[i] = a[i].lines
  BY <1>1, <1>2
<1>4. f.lines \in Seq(Lines)
  BY DEF FileSet
<1>5. /\ LinesOf(fs) \in Seq(Seq(Lines)) /\ Len(LinesOf(fs)) = Len(fs)
      /\ \A i \in 1..Len(fs) : LinesOf(fs)[i] = fs[i].lines
  BY <1>1
<1>6. /\ v \in Seq(Seq(Lines)) /\ Len(v) = Len(fs) + 1
      /\ \A i \in 1..Len(fs) : v[i] = fs[i].lines
      /\ v[Len(fs) + 1] = f.lines
  <2> DEFINE w == LinesOf(fs)
             x == f.lines
  <2>1. w \in Seq(Seq(Lines)) /\ x \in Seq(Lines) /\ Len(w) = Len(fs)
    BY <1>4, <1>5
  <2>2. v = Append(w, x) /\ \A i \in 1..Len(fs) : w[i] = fs[i].lines
    BY <1>5
  <2> HIDE DEF v, w, x
  <2>3. /\ v \in Seq(Seq(Lines)) /\ Len(v) = Len(w) + 1
        /\ \A i \in 1..Len(w) : v[i] = w[i]
        /\ v[Len(w) + 1] = x
    BY <2>1, <2>2, AppendProperties
  <2> QED
    BY <2>1, <2>2, <2>3 DEF x
<1> HIDE DEF u, v
<1>7. ASSUME NEW i \in 1..Len(u) PROVE u[i] = v[i]
  <2>1. i \in 1..Len(fs) \/ i = Len(fs) + 1
    BY <1>2, <1>3
  <2>2. i \in 1..Len(a)
    BY <1>3
  <2> QED
    BY <1>2, <1>3, <1>6, <2>1, <2>2
<1>8. u = v
  <2>1. Len(u) = Len(v)
    BY <1>2, <1>3, <1>6
  <2> QED
    BY <1>3, <1>6, <1>7, <2>1, SeqEqual
<1> QED
  BY <1>5, <1>8 DEF u, v, a

\* What opening a file and writing to the last one do to what is written.
LEMMA WrittenAppend ==
  ASSUME NEW fs \in Seq(FileSet), NEW f \in FileSet
  PROVE  /\ Written(<<>>) = <<>>
         /\ Written(fs) \in Seq(Lines)
         /\ Written(Append(fs, f)) = Written(fs) \o f.lines
<1>1. \A gs : Written(gs) = FlattenSeq(LinesOf(gs))
  BY DEF Written, LinesOf
<1>2. LinesOf(<<>>) = <<>>
  BY DEF LinesOf
<1>3. f.lines \in Seq(Lines)
  BY DEF FileSet
<1>4. /\ LinesOf(fs) \in Seq(Seq(Lines))
      /\ LinesOf(Append(fs, f)) = Append(LinesOf(fs), f.lines)
  BY LinesOfAppend
<1>5. FlattenSeq(LinesOf(fs)) \in Seq(Lines)
  BY <1>4, FlatType
<1>6. FlattenSeq(Append(LinesOf(fs), f.lines)) = FlattenSeq(LinesOf(fs)) \o f.lines
  BY <1>3, <1>4, FlattenAppend
<1> QED
  BY <1>1, <1>2, <1>4, <1>5, <1>6, FlattenEmpty

LEMMA WrittenGrows ==
  ASSUME NEW fs \in Seq(FileSet), fs # <<>>, NEW l \in Seq(Lines)
  PROVE  LET gs == [fs EXCEPT ![Len(fs)].lines = @ \o l]
         IN /\ gs \in Seq(FileSet) /\ gs # <<>> /\ Len(gs) = Len(fs)
            /\ \A i \in 1..Len(fs) : gs[i].openedAt = fs[i].openedAt
            /\ Written(gs) = Written(fs) \o l
<1> DEFINE gs == [fs EXCEPT ![Len(fs)].lines = @ \o l]
<1>1. PICK first \in Seq(FileSet), f \in FileSet : fs = Append(first, f)
  BY SequenceEmptyOrAppend
<1> DEFINE n == Len(first)
           g == [f EXCEPT !.lines = @ \o l]
           a == Append(first, g)
<1>2. f.openedAt \in Times /\ f.lines \in Seq(Lines)
  BY DEF FileSet
<1>3. f.lines \o l \in Seq(Lines)
  BY <1>2, ConcatProperties
<1>4. g \in FileSet /\ g.openedAt = f.openedAt /\ g.lines = f.lines \o l
  BY <1>3 DEF FileSet
<1>5. /\ n \in Nat /\ Len(fs) = n + 1 /\ \A i \in 1..n : fs[i] = first[i]
      /\ fs[n + 1] = f
  BY <1>1, AppendProperties, LenProperties
<1>6. gs = [fs EXCEPT ![n + 1] = g]
  BY <1>5
<1> HIDE DEF g, gs
<1>7. /\ a \in Seq(FileSet) /\ a # <<>> /\ Len(a) = n + 1
      /\ \A i \in 1..n : a[i] = first[i]
      /\ a[n + 1] = g
  BY <1>4, AppendProperties
<1> HIDE DEF a
<1>8. gs \in Seq(FileSet) /\ Len(gs) = Len(fs)
      /\ \A j \in 1..Len(fs) : gs[j] = IF j = n + 1 THEN g ELSE fs[j]
  <2>1. n + 1 \in 1..Len(fs)
    BY <1>5
  <2> QED
    BY <1>4, <1>6, <2>1, ExceptSeq
<1>9. gs = a
  <2>1. ASSUME NEW i \in 1..Len(gs) PROVE gs[i] = a[i]
    <3>1. i \in 1..n \/ i = n + 1
      BY <1>5, <1>8
    <3>2. i \in 1..n => i # n + 1
      BY <1>5
    <3> QED
      BY <1>5, <1>7, <1>8, <3>1, <3>2
  <2> QED
    BY <1>5, <1>7, <1>8, <2>1, SeqEqual
<1>10. \A i \in 1..Len(fs) : gs[i].openedAt = fs[i].openedAt
  BY <1>4, <1>5, <1>8
<1>11. Written(gs) = Written(fs) \o l
  <2>1. /\ Written(first) \in Seq(Lines)
        /\ Written(Append(first, f)) = Written(first) \o f.lines
        /\ Written(Append(first, g)) = Written(first) \o g.lines
    BY <1>4, WrittenAppend
  <2> DEFINE w == Written(first)
             x == f.lines
  <2>2. w \in Seq(Lines) /\ x \in Seq(Lines)
    BY <1>2, <2>1
  <2>3. Written(fs) = w \o x /\ Written(gs) = w \o (x \o l)
    BY <1>1, <1>4, <1>9, <2>1 DEF a
  <2> HIDE DEF w, x
  <2>4. (w \o x) \o l = w \o (x \o l)
    BY <2>2, ConcatAssociative
  <2> QED
    BY <2>3, <2>4
<1> QED
  BY <1>7, <1>8, <1>9, <1>10, <1>11 DEF gs

\* A later second is not of an earlier day.
LEMMA PeriodGrows ==
  ASSUME NEW a \in Nat, NEW b \in Nat, a <= b
  PROVE  period(a) \in Nat /\ period(b) \in Nat /\ period(a) <= period(b)
<1> DEFINE K == kRollPerSeconds_
<1>1. K \in Nat /\ K > 0
  BY RollAssumption
<1>2. period(a) = (a \div K) * K /\ period(b) = (b \div K) * K
  BY DEF period
<1> HIDE DEF K
<1> DEFINE p == a \div K
           q == b \div K
<1>3. p \in Nat /\ q \in Nat /\ K * p <= a /\ b < K * q + K
  BY <1>1
<1> HIDE DEF p, q
<1>4. p <= q
  <2> SUFFICES ASSUME p > q PROVE FALSE
    BY <1>3
  <2>1. PICK d \in Nat : p = q + 1 + d
    <3>1. p - q - 1 \in Nat /\ p = q + 1 + (p - q - 1)
      BY <1>3
    <3> QED
      BY <3>1
  <2>2. K * p = K * q + K + K * d /\ K * d \in Nat /\ K * d >= 0
    BY <1>1, <1>3, <2>1
  <2>3. K * q \in Nat /\ K * p \in Nat
    BY <1>1, <1>3
  <2> QED
    BY <1>1, <1>3, <2>2, <2>3
<1>5. PICK d \in Nat : q = p + d
  <2>1. q - p \in Nat /\ q = p + (q - p)
    BY <1>3, <1>4
  <2> QED
    BY <2>1
<1>6. q * K = p * K + d * K /\ d * K \in Nat /\ p * K \in Nat /\ q * K \in Nat
  BY <1>1, <1>3, <1>5
<1>7. p * K <= q * K
  BY <1>6
<1> QED
  BY <1>2, <1>6, <1>7 DEF p, q

-----------------------------------------------------------------------------
(* The inductive invariant                                                  *)

Buffers == Seq(Lines)
Waiting == {"check", "lock", "waiting", "done"}
Writing == {"write", "recycle"}

BufferTypes ==
  /\ currentBuffer_ \in Seq(Buffers) /\ Len(currentBuffer_) = 1
  /\ nextBuffer_ \in {Null, Fresh}
  /\ newBuffer1 \in {Null, Fresh} /\ newBuffer2 \in {Null, Fresh}
  /\ buffers_ \in Seq(Buffers) /\ buffersToWrite \in Seq(Buffers)

PlaceTypes ==
  /\ running_ \in BOOLEAN
  /\ pc \in {"off"} \cup Waiting \cup Writing
  /\ pos \in Nat
  /\ appended \in Seq(Lines)

FileTypes ==
  /\ files \in Seq(FileSet)
  /\ flushed \in Nat /\ count_ \in Nat /\ lastRoll_ \in Nat
  /\ lastFlush_ \in Nat /\ startOfPeriod_ \in Nat
  /\ wroteLater \in BOOLEAN /\ overdue \in Nat

\* Every buffer has room for one byte more
FitInv ==
  /\ \A i \in 1..Len(currentBuffer_) : Used(currentBuffer_[i]) < Size
  /\ \A i \in 1..Len(buffers_) : Used(buffers_[i]) < Size
  /\ \A i \in 1..Len(buffersToWrite) : Used(buffersToWrite[i]) < Size

\* A second null pointer has a filled buffer that will replace it
PointerInv ==
  /\ nextBuffer_ = Null => buffers_ # <<>>
  /\ pc = "off" => files = <<>> /\ flushed = 0
  /\ pc # "off" => files # <<>>
  /\ pc \in {"off"} \cup Waiting => buffersToWrite = <<>>
  /\ pc \in Waiting => newBuffer1 = Fresh /\ newBuffer2 = Fresh
  /\ pc \in Writing =>
       /\ newBuffer1 = Null /\ Len(buffersToWrite) >= 1
       /\ newBuffer2 = Null => Len(buffersToWrite) >= 2
       /\ pos \in 1..(Len(buffersToWrite) + 1)

FlushInv == flushed <= Len(Written(files))

\* FilesRoll, the last file being the one of lastRoll_, and its late appends
\* being counted by count_
RollInv ==
  /\ overdue <= count_ /\ count_ < checkEveryN_
  /\ files # <<>> =>
       /\ Last(files).openedAt = lastRoll_ /\ startOfPeriod_ = period(lastRoll_)
       /\ Used(Last(files).lines) > rollSize_ => ~wroteLater
       /\ \A i, j \in DOMAIN files : i < j => files[i].openedAt < files[j].openedAt

Unwritten == IF pc = "write"
               THEN SubSeq(buffersToWrite, pos, Len(buffersToWrite))
               ELSE <<>>

\* NoLineLost
LineInv ==
  appended = Written(files)
               \o FlattenSeq(Unwritten \o buffers_ \o currentBuffer_)

IInv ==
  /\ BufferTypes /\ PlaceTypes /\ FileTypes
  /\ FitInv /\ PointerInv /\ FlushInv /\ RollInv /\ LineInv

-----------------------------------------------------------------------------
(* LogFile::append()                                                        *)

\* The files with lines l written to the last one, and how late that is
Grown(l) == [files EXCEPT ![Len(files)].lines = @ \o l]
Late(now) == IF period(now) > startOfPeriod_ THEN overdue + 1 ELSE 0

FilesKept(l) ==
  /\ FileTypes' /\ FlushInv' /\ RollInv'
  /\ files' # <<>> /\ Written(files') = Written(files) \o l

LEMMA GrownFacts ==
  ASSUME FileTypes, RollInv, files # <<>>, NEW l \in Buffers
  PROVE  /\ Grown(l) \in Seq(FileSet) /\ Grown(l) # <<>>
         /\ Len(files) \in Nat \ {0} /\ Len(Grown(l)) = Len(files)
         /\ \A i \in 1..Len(files) : /\ Grown(l)[i].openedAt = files[i].openedAt
                                     /\ files[i].openedAt \in Nat
                                     /\ files[i].openedAt <= lastRoll_
         /\ Last(Grown(l)).openedAt = lastRoll_
         /\ \A i, j \in 1..Len(files) : i < j => files[i].openedAt < files[j].openedAt
         /\ Written(Grown(l)) = Written(files) \o l
         /\ Written(Grown(l)) \in Seq(Lines)
         /\ flushed <= Len(Written(files)) => flushed <= Len(Written(Grown(l)))
<1>1. /\ files \in Seq(FileSet) /\ l \in Seq(Lines) /\ flushed \in Nat
      /\ lastRoll_ \in Nat
  BY DEF FileTypes, Buffers
<1>2. /\ Grown(l) \in Seq(FileSet) /\ Grown(l) # <<>>
      /\ Len(Grown(l)) = Len(files)
      /\ \A i \in 1..Len(files) : Grown(l)[i].openedAt = files[i].openedAt
      /\ Written(Grown(l)) = Written(files) \o l
  BY <1>1, WrittenGrows DEF Grown
<1>3. /\ Len(files) \in Nat \ {0} /\ DOMAIN files = 1..Len(files)
      /\ \A i \in 1..Len(files) : files[i] \in FileSet
  BY <1>1, EmptySeq, LenProperties, ElementOfSeq
<1>4. \A i \in 1..Len(files) : files[i].openedAt \in Nat
  <2>1. \A t \in Times : t \in Nat
    BY NewFile
  <2> QED
    BY <1>3, <2>1 DEF FileSet
<1>5. /\ files[Len(files)].openedAt = lastRoll_
      /\ \A i, j \in 1..Len(files) : i < j => files[i].openedAt < files[j].openedAt
  BY <1>3 DEF RollInv, Last
<1>6. ASSUME NEW i \in 1..Len(files) PROVE files[i].openedAt <= lastRoll_
  <2>1. i < Len(files) \/ i = Len(files)
    <3>1. Len(files) \in Nat
      BY <1>3
    <3> QED
      BY <3>1
  <2>2. Len(files) \in 1..Len(files)
    BY <1>3
  <2> QED
    BY <1>1, <1>4, <1>5, <2>1, <2>2
<1>7. Last(Grown(l)).openedAt = lastRoll_
  <2>1. Len(files) \in 1..Len(files)
    BY <1>3
  <2> QED
    BY <1>2, <1>5, <2>1 DEF Last
<1>8. Written(files) \in Seq(Lines) /\ Written(Grown(l)) \in Seq(Lines)
  <2>1. newFile(1) \in FileSet
    BY NewFile
  <2> QED
    BY <1>1, <1>2, <2>1, WrittenAppend
<1>9. flushed <= Len(Written(files)) => flushed <= Len(Written(Grown(l)))
  <2> DEFINE w == Written(files)
             x == Written(Grown(l))
  <2>1. w \in Seq(Lines) /\ x = w \o l
    BY <1>2, <1>8
  <2> HIDE DEF w, x
  <2>2. Len(x) = Len(w) + Len(l) /\ Len(w) \in Nat /\ Len(l) \in Nat
    BY <1>1, <2>1, ConcatProperties, LenProperties
  <2>3. flushed <= Len(w) => flushed <= Len(x)
    BY <1>1, <2>2
  <2> QED
    BY <2>3 DEF w, x
<1> QED
  BY <1>2, <1>3, <1>4, <1>5, <1>6, <1>7, <1>8, <1>9

\* rollFile(): a new file, or none twice in a second.
LEMMA RollKeeps ==
  ASSUME FileTypes, FlushInv, RollInv, files # <<>>, NEW l \in Buffers,
         NEW now \in Times, count_' \in Nat, count_' < checkEveryN_,
         rollFile(Grown(l), Late(now), now)
  PROVE  FilesKept(l)
<1> DEFINE fs == Grown(l)
<1>1. /\ fs \in Seq(FileSet) /\ fs # <<>>
      /\ Len(files) \in Nat \ {0} /\ Len(fs) = Len(files)
      /\ \A i \in 1..Len(files) : /\ fs[i].openedAt = files[i].openedAt
                                  /\ files[i].openedAt \in Nat
                                  /\ files[i].openedAt <= lastRoll_
      /\ Last(fs).openedAt = lastRoll_
      /\ \A i, j \in 1..Len(files) : i < j => files[i].openedAt < files[j].openedAt
      /\ Written(fs) = Written(files) \o l
      /\ Written(fs) \in Seq(Lines)
      /\ flushed <= Len(Written(files)) => flushed <= Len(Written(fs))
  BY GrownFacts
<1>2. now \in Nat /\ now >= 1
  BY DEF Times
<1>3. /\ flushed \in Nat /\ lastRoll_ \in Nat /\ lastFlush_ \in Nat
      /\ startOfPeriod_ \in Nat /\ overdue \in Nat
  BY DEF FileTypes
<1>4. rollFile(fs, Late(now), now)
  OBVIOUS
<1> HIDE DEF fs
<1>5. CASE now > lastRoll_
  <2>1. /\ files' = Append(fs, newFile(now)) /\ flushed' = Len(Written(fs))
        /\ lastRoll_' = now /\ lastFlush_' = now
        /\ startOfPeriod_' = period(now) /\ wroteLater' = FALSE
        /\ overdue' = 0
    BY <1>4, <1>5 DEF rollFile
  <2> DEFINE f == newFile(now)
  <2>2. f \in FileSet /\ f.openedAt = now /\ f.lines = <<>>
    BY NewFile
  <2> HIDE DEF f
  <2>3. /\ files' \in Seq(FileSet) /\ files' # <<>>
        /\ Len(files') = Len(fs) + 1
        /\ \A i \in 1..Len(fs) : files'[i] = fs[i]
        /\ files'[Len(fs) + 1] = f
    BY <1>1, <2>1, <2>2, AppendProperties DEF f
  <2>4. Written(files') = Written(fs)
    <3>1. Written(files') = Written(fs) \o f.lines
      BY <1>1, <2>1, <2>2, WrittenAppend DEF f
    <3>2. Written(fs) \o <<>> = Written(fs)
      BY <1>1, ConcatEmptySeq
    <3> QED
      BY <2>2, <3>1, <3>2
  <2>5. Len(Written(fs)) \in Nat /\ period(now) \in Nat
    BY <1>1, <1>2, LenProperties, PeriodGrows
  <2>6. FileTypes'
    BY <1>2, <2>1, <2>3, <2>5 DEF FileTypes
  <2>7. FlushInv'
    BY <2>1, <2>4, <2>5 DEF FlushInv
  <2>8. DOMAIN files' = 1..(Len(files) + 1)
    BY <1>1, <2>3, LenProperties
  <2>9. ASSUME NEW i \in DOMAIN files', NEW j \in DOMAIN files', i < j
        PROVE  files'[i].openedAt < files'[j].openedAt
    <3>1. i \in 1..Len(files) /\ (j \in 1..Len(files) \/ j = Len(files) + 1)
      BY <1>1, <2>8, <2>9
    <3>2. files'[i].openedAt = files[i].openedAt
      BY <1>1, <2>3, <3>1
    <3>3. CASE j \in 1..Len(files)
      BY <1>1, <2>3, <2>9, <3>1, <3>2, <3>3
    <3>4. CASE j = Len(files) + 1
      <4>1. files'[j].openedAt = now /\ files[i].openedAt <= lastRoll_
        BY <1>1, <2>2, <2>3, <3>1, <3>4
      <4> QED
        BY <1>1, <1>2, <1>3, <1>5, <3>1, <3>2, <4>1
    <3> QED
      BY <3>1, <3>3, <3>4
  <2>10. Last(files').openedAt = now
    BY <2>2, <2>3 DEF Last
  <2>11. RollInv'
    <3>1. overdue' <= count_'
      BY <1>2, <2>1
    <3> QED
      BY <2>1, <2>9, <2>10, <3>1 DEF RollInv
  <2> QED
    BY <1>1, <2>3, <2>4, <2>6, <2>7, <2>11 DEF FilesKept
<1>6. CASE ~(now > lastRoll_)
  <2>1. /\ files' = fs /\ overdue' = Late(now)
        /\ wroteLater' = (now > lastRoll_)
        /\ UNCHANGED <<flushed, lastRoll_, lastFlush_, startOfPeriod_>>
    BY <1>4, <1>6 DEF rollFile
  <2>2. now <= lastRoll_
    BY <1>2, <1>3, <1>6
  <2>8. wroteLater' = FALSE
    <3>1. (now > lastRoll_) = FALSE
      BY <1>2, <1>3, <1>6
    <3> QED
      BY <2>1, <3>1, Zenon
  <2>3. Late(now) = 0
    <3>1. startOfPeriod_ = period(lastRoll_)
      BY DEF RollInv
    <3>2. period(now) <= period(lastRoll_) /\ period(now) \in Nat
          /\ period(lastRoll_) \in Nat
      BY <1>2, <1>3, <2>2, PeriodGrows
    <3>3. ~(period(now) > startOfPeriod_)
      BY <3>1, <3>2
    <3> QED
      BY <3>3 DEF Late
  <2>4. FileTypes'
    BY <1>1, <1>2, <1>3, <2>1, <2>3, <2>8 DEF FileTypes
  <2>5. FlushInv'
    BY <1>1, <2>1 DEF FlushInv
  <2>6. DOMAIN fs = 1..Len(files)
    BY <1>1, LenProperties
  <2>7. RollInv'
    <3>1. overdue' <= count_'
      BY <2>1, <2>2, <2>3
    <3>2. \A i, j \in DOMAIN fs : i < j => fs[i].openedAt < fs[j].openedAt
      BY <1>1, <2>6
    <3> QED
      BY <1>1, <2>1, <2>8, <3>1, <3>2 DEF RollInv
  <2> QED
    BY <1>1, <2>1, <2>4, <2>5, <2>7 DEF FilesKept
<1> QED
  BY <1>5, <1>6

\* The file stays, and may be flushed.
LEMMA StaysKeeps ==
  ASSUME FileTypes, FlushInv, RollInv, files # <<>>, NEW l \in Buffers,
         NEW now \in Times, count_' \in Nat, count_' < checkEveryN_,
         Late(now) <= count_', ~(Used(Last(Grown(l)).lines) > rollSize_),
         stays(Grown(l), Late(now), now)
  PROVE  FilesKept(l)
<1> DEFINE fs == Grown(l)
<1>1. /\ fs \in Seq(FileSet) /\ fs # <<>>
      /\ Len(files) \in Nat \ {0} /\ Len(fs) = Len(files)
      /\ \A i \in 1..Len(files) : fs[i].openedAt = files[i].openedAt
      /\ Last(fs).openedAt = lastRoll_
      /\ \A i, j \in 1..Len(files) : i < j => files[i].openedAt < files[j].openedAt
      /\ Written(fs) = Written(files) \o l
      /\ Written(fs) \in Seq(Lines)
      /\ flushed <= Len(Written(files)) => flushed <= Len(Written(fs))
  BY GrownFacts
<1>2. now \in Nat /\ now >= 1
  BY DEF Times
<1>3. /\ flushed \in Nat /\ lastRoll_ \in Nat /\ lastFlush_ \in Nat
      /\ startOfPeriod_ \in Nat /\ overdue \in Nat
  BY DEF FileTypes
<1>4. Late(now) \in Nat
  BY <1>3 DEF Late
<1>5. ~(Used(Last(fs).lines) > rollSize_)
  OBVIOUS
<1>6. /\ files' = fs /\ overdue' = Late(now)
      /\ \/ lastFlush_' = now /\ flushed' = Len(Written(fs))
         \/ UNCHANGED <<lastFlush_, flushed>>
      /\ UNCHANGED <<lastRoll_, startOfPeriod_>>
  BY DEF stays
<1>12. wroteLater' \in BOOLEAN
  <2>1. wroteLater' = (now > lastRoll_)
    BY DEF stays
  <2>2. (now > lastRoll_) = TRUE \/ (now > lastRoll_) = FALSE
    BY <1>2, <1>3
  <2> QED
    BY <2>1, <2>2, Zenon
<1> HIDE DEF fs
<1>7. Len(Written(fs)) \in Nat
  BY <1>1, LenProperties
<1>8. FileTypes'
  BY <1>1, <1>2, <1>3, <1>4, <1>6, <1>7, <1>12 DEF FileTypes
<1>9. FlushInv'
  <2>1. CASE flushed' = Len(Written(fs))
    BY <1>6, <1>7, <2>1 DEF FlushInv
  <2>2. CASE flushed' = flushed
    BY <1>1, <1>6, <2>2 DEF FlushInv
  <2> QED
    BY <1>6, <2>1, <2>2
<1>10. DOMAIN fs = 1..Len(files)
  BY <1>1, LenProperties
<1>11. RollInv'
  <2>1. \A i, j \in DOMAIN fs : i < j => fs[i].openedAt < fs[j].openedAt
    BY <1>1, <1>10
  <2>2. overdue' <= count_'
    BY <1>6
  <2> QED
    BY <1>1, <1>5, <1>6, <2>1, <2>2 DEF RollInv
<1> QED
  BY <1>1, <1>6, <1>8, <1>9, <1>11 DEF FilesKept

\* appendUnLocked()
LEMMA AppendLinesKeeps ==
  ASSUME FileTypes, FlushInv, RollInv, files # <<>>, NEW l \in Buffers,
         NEW now \in Times, appendLines(l, now)
  PROVE  FilesKept(l)
<1>1. /\ count_ \in Nat /\ count_ < checkEveryN_ /\ overdue <= count_
      /\ overdue \in Nat /\ startOfPeriod_ \in Nat
      /\ checkEveryN_ \in Nat \ {0}
  BY RollAssumption DEF FileTypes, RollInv
<1>2. Len(Grown(l)) = Len(files)
  BY GrownFacts
<1>3. IF Used(Last(Grown(l)).lines) > rollSize_
        THEN rollFile(Grown(l), Late(now), now) /\ UNCHANGED count_
        ELSE /\ counts
             /\ IF count_' = 0 /\ period(now) # startOfPeriod_
                  THEN rollFile(Grown(l), Late(now), now)
                  ELSE stays(Grown(l), Late(now), now)
  BY <1>2 DEF appendLines, Grown, Late, Last
<1>4. CASE Used(Last(Grown(l)).lines) > rollSize_
  BY <1>1, <1>3, <1>4, RollKeeps
<1>5. CASE ~(Used(Last(Grown(l)).lines) > rollSize_)
  <2>1. count_' = IF count_ + 1 >= checkEveryN_ THEN 0 ELSE count_ + 1
    BY <1>3, <1>5 DEF counts
  <2>2. /\ count_' \in Nat /\ count_' < checkEveryN_
        /\ count_' # 0 => count_' = count_ + 1
    BY <1>1, <2>1
  <2>3. CASE count_' = 0 /\ period(now) # startOfPeriod_
    BY <1>3, <1>5, <2>2, <2>3, RollKeeps
  <2>4. CASE ~(count_' = 0 /\ period(now) # startOfPeriod_)
    <3>1. period(now) \in Nat
      <4>1. now \in Nat
        BY DEF Times
      <4> QED
        BY <4>1, PeriodGrows
    <3>2. Late(now) <= count_'
      BY <1>1, <2>2, <2>4, <3>1 DEF Late
    <3> QED
      BY <1>3, <1>5, <2>2, <2>4, <3>2, StaysKeeps
  <2> QED
    BY <2>3, <2>4
<1> QED
  BY <1>4, <1>5

-----------------------------------------------------------------------------
(* Lines in a row                                                           *)

\* The lines of the files, of two lists of buffers and of one buffer
Row(a, b, c, d) == a \o ((b \o c) \o d)
Add(s, e) == Append(s, e)
Join(s, t) == s \o t
Only(e) == <<e>>

\* A line put in the last buffer or in a new one; a buffer written.
LEMMA Regroup ==
  ASSUME NEW S, NEW a \in Seq(S), NEW b \in Seq(S), NEW c \in Seq(S),
         NEW d \in Seq(S)
  PROVE  /\ Row(a, b, c, d) \in Seq(S)
         /\ \A e \in S : /\ Row(a, b, c, Add(d, e)) = Add(Row(a, b, c, d), e)
                         /\ Row(a, b, Join(c, d), Only(e)) = Add(Row(a, b, c, d), e)
<1> DEFINE bc == b \o c
           bcd == bc \o d
<1>1. bc \in Seq(S) /\ c \o d \in Seq(S)
  BY ConcatProperties
<1>2. bc \o d = b \o (c \o d)
  BY ConcatAssociative
<1> HIDE DEF bc
<1>3. bcd \in Seq(S)
  BY <1>1, ConcatProperties
<1>4. ASSUME NEW e \in S
      PROVE  /\ a \o (bc \o Append(d, e)) = Append(a \o bcd, e)
             /\ a \o ((b \o (c \o d)) \o <<e>>) = Append(a \o bcd, e)
  <2>1. <<e>> \in Seq(S) /\ Append(d, e) = d \o <<e>>
    BY AppendIsConcat
  <2>2. bc \o (d \o <<e>>) = bcd \o <<e>>
    <3> HIDE DEF bcd
    <3>1. bc \in Seq(S)
      BY <1>1
    <3>2. <<e>> \in Seq(S)
      BY <2>1
    <3>3. (bc \o d) \o <<e>> = bc \o (d \o <<e>>)
      BY <3>1, <3>2, ConcatAssociative
    <3> QED
      BY <3>3 DEF bcd
  <2> HIDE DEF bcd
  <2>3. a \o (bcd \o <<e>>) = (a \o bcd) \o <<e>>
    BY <1>3, <2>1, ConcatAssociative
  <2>4. a \o bcd \in Seq(S)
    BY <1>3, ConcatProperties
  <2>5. (a \o bcd) \o <<e>> = Append(a \o bcd, e)
    BY <2>4, AppendIsConcat
  <2>6. b \o (c \o d) = bcd
    BY <1>2 DEF bcd
  <2> QED
    BY <2>1, <2>2, <2>3, <2>5, <2>6
<1>5. a \o bcd \in Seq(S)
  <2> HIDE DEF bcd
  <2> QED
    BY <1>3, ConcatProperties
<1> QED
  BY <1>4, <1>5 DEF bc, Row, Add, Join, Only

LEMMA RegroupWritten ==
  ASSUME NEW S, NEW a \in Seq(S), NEW b \in Seq(S), NEW c \in Seq(S),
         NEW d \in Seq(S), NEW x \in Seq(S)
  PROVE  Row(Join(a, x), b, c, d) = Row(a, Join(x, b), c, d)
<1> DEFINE bc == b \o c
           bcd == bc \o d
<1>1. bc \in Seq(S)
  BY ConcatProperties
<1>2. (x \o b) \o c = x \o bc
  BY ConcatAssociative
<1> HIDE DEF bc
<1>3. bcd \in Seq(S)
  BY <1>1, ConcatProperties
<1>4. (x \o bc) \o d = x \o bcd
  BY <1>1, ConcatAssociative
<1> HIDE DEF bcd
<1>5. (a \o x) \o bcd = a \o (x \o bcd)
  BY <1>3, ConcatAssociative
<1> QED
  BY <1>2, <1>4, <1>5 DEF bc, bcd, Row, Join

Queued(w, a, b, c) == w \o FlattenSeq(a \o b \o c)

\* Three lists of buffers, the last one of a single buffer.
LEMMA FlattenThree ==
  ASSUME NEW S, NEW a \in Seq(Seq(S)), NEW b \in Seq(Seq(S)),
         NEW c \in Seq(Seq(S)), Len(c) = 1, NEW w \in Seq(S)
  PROVE  /\ Queued(w, a, b, c) = Row(w, FlattenSeq(a), FlattenSeq(b), c[1])
         /\ FlattenSeq(a) \in Seq(S) /\ FlattenSeq(b) \in Seq(S)
         /\ c[1] \in Seq(S) /\ FlattenSeq(c) = c[1]
<1>1. c[1] \in Seq(S) /\ c = <<c[1]>>
  <2>1. 1 \in 1..Len(c)
    OBVIOUS
  <2>2. c[1] \in Seq(S)
    BY <2>1, ElementOfSeq
  <2> DEFINE x == c[1]
             d == <<x>>
  <2>3. d \in Seq(Seq(S)) /\ Len(d) = 1 /\ d[1] = x
    BY <2>2
  <2>4. \A i \in 1..Len(c) : c[i] = d[i]
    <3>1. \A i \in 1..Len(c) : i = 1
      OBVIOUS
    <3> QED
      BY <2>3, <3>1
  <2> HIDE DEF d
  <2>5. c = d
    BY <2>3, <2>4, SeqEqual
  <2> QED
    BY <2>2, <2>5 DEF d
<1>2. FlattenSeq(c) = c[1]
  <2>1. FlattenSeq(<<c[1]>>) = c[1]
    BY <1>1, FlattenOne
  <2> QED
    BY <1>1, <2>1
<1>3. a \o b \in Seq(Seq(S))
  BY ConcatProperties
<1>4. FlattenSeq(a \o b) = FlattenSeq(a) \o FlattenSeq(b)
  BY FlattenConcat
<1>5. FlattenSeq((a \o b) \o c) = FlattenSeq(a \o b) \o FlattenSeq(c)
  BY <1>3, FlattenConcat
<1>6. FlattenSeq(a) \in Seq(S) /\ FlattenSeq(b) \in Seq(S)
  BY FlatType
<1> QED
  BY <1>1, <1>2, <1>4, <1>5, <1>6 DEF Queued, Row

\* A pointer to an empty buffer.
LEMMA FreshFacts ==
  /\ Null = <<>> /\ Fresh # Null /\ Fresh \in Seq(Buffers) /\ Len(Fresh) = 1
  /\ Fresh[1] = <<>> /\ <<>> \in Buffers /\ Used(<<>>) = 0 /\ 0 < Size
  /\ <<>> \in Seq(Buffers) /\ Len(<<>>) = 0
<1>1. <<>> \in Buffers /\ <<>> \in Seq(Buffers) /\ Len(<<>>) = 0
  BY EmptySeq DEF Buffers
<1>2. Fresh \in Seq(Buffers) /\ Len(Fresh) = 1 /\ Fresh[1] = <<>>
  BY <1>1 DEF Fresh
<1>3. Fresh # Null
  <2> HIDE DEF Fresh
  <2>1. Len(Fresh) # Len(Null)
    BY <1>1, <1>2 DEF Null
  <2> QED
    BY <2>1
<1>4. Used(<<>>) = 0
  <2>1. /\ Used(<<>>) = Sum(<<>>)[1..Len(<<>>)] /\ Sum(<<>>)[1..0] = 0
    BY <1>1, SumSteps DEF Buffers
  <2> QED
    BY <1>1, <2>1
<1> QED
  BY <1>1, <1>2, <1>3, <1>4, SizeAssumption DEF Null

-----------------------------------------------------------------------------
(* The steps                                                                *)

\* The lists of buffers and what is written of them, as lists of lines.
LEMMA LineFacts ==
  ASSUME IInv
  PROVE  /\ Unwritten \in Seq(Buffers)
         /\ Written(files) \in Buffers /\ FlattenSeq(Unwritten) \in Buffers
         /\ FlattenSeq(buffers_) \in Buffers /\ currentBuffer_[1] \in Buffers
         /\ FlattenSeq(currentBuffer_) = currentBuffer_[1]
         /\ appended = Row(Written(files), FlattenSeq(Unwritten),
                           FlattenSeq(buffers_), currentBuffer_[1])
<1>1. /\ currentBuffer_ \in Seq(Buffers) /\ Len(currentBuffer_) = 1
      /\ buffers_ \in Seq(Buffers) /\ buffersToWrite \in Seq(Buffers)
  BY DEF IInv, BufferTypes
<1>2. Unwritten \in Seq(Buffers)
  <2>1. CASE pc = "write"
    <3>1. pos \in 1..(Len(buffersToWrite) + 1)
      BY <2>1 DEF IInv, PointerInv, Writing
    <3>2. Len(buffersToWrite) \in Nat
      BY <1>1, LenProperties
    <3>3. SubSeq(buffersToWrite, pos, Len(buffersToWrite)) \in Seq(Buffers)
      <4> DEFINE n == Len(buffersToWrite)
      <4>1. \A i \in pos..n : i \in 1..n
        BY <3>1, <3>2
      <4>2. \A i \in pos..n : buffersToWrite[i] \in Buffers
        BY <1>1, <4>1, ElementOfSeq
      <4>3. pos \in Int /\ n \in Int
        BY <3>1, <3>2
      <4> HIDE DEF n
      <4>4. SubSeq(buffersToWrite, pos, n) \in Seq(Buffers)
        BY <4>2, <4>3, SubSeqProperties
      <4> QED
        BY <4>4 DEF n
    <3> QED
      BY <2>1, <3>3 DEF Unwritten
  <2>2. CASE pc # "write"
    BY <2>2, FreshFacts DEF Unwritten
  <2> QED
    BY <2>1, <2>2
<1>3. files \in Seq(FileSet) /\ Written(files) \in Seq(Lines)
  <2>1. files \in Seq(FileSet)
    BY DEF IInv, FileTypes
  <2>2. newFile(1) \in FileSet
    BY NewFile
  <2> QED
    BY <2>1, <2>2, WrittenAppend
<1>4. appended = Queued(Written(files), Unwritten, buffers_, currentBuffer_)
  BY DEF IInv, LineInv, Queued
<1> DEFINE u == Unwritten
           w == Written(files)
<1>5. /\ u \in Seq(Seq(Lines)) /\ buffers_ \in Seq(Seq(Lines))
      /\ currentBuffer_ \in Seq(Seq(Lines)) /\ Len(currentBuffer_) = 1
      /\ w \in Seq(Lines)
  BY <1>1, <1>2, <1>3 DEF Buffers
<1> HIDE DEF u, w
<1>6. /\ Queued(w, u, buffers_, currentBuffer_)
           = Row(w, FlattenSeq(u), FlattenSeq(buffers_), currentBuffer_[1])
      /\ FlattenSeq(u) \in Seq(Lines) /\ FlattenSeq(buffers_) \in Seq(Lines)
      /\ currentBuffer_[1] \in Seq(Lines)
      /\ FlattenSeq(currentBuffer_) = currentBuffer_[1]
  BY <1>5, FlattenThree
<1> QED
  BY <1>2, <1>3, <1>4, <1>6 DEF u, w, Buffers

\* append(): the line goes to the end of the current buffer, or is the first
\* of the next one.
LEMMA AppendStep ==
  ASSUME IInv, NEW len \in Lengths, append(len)
  PROVE  IInv'
<1> DEFINE line == <<Len(appended) + 1, len>>
           current == currentBuffer_[1]
           next == IF nextBuffer_ # Null THEN nextBuffer_[1] ELSE <<>>
<1>1. /\ Len(appended) < MaxLines
      /\ appended' = Append(appended, line)
      /\ IF avail(current) > len
           THEN /\ currentBuffer_' = <<put(current, line)>>
                /\ UNCHANGED <<nextBuffer_, buffers_>>
           ELSE /\ buffers_' = Append(buffers_, current)
                /\ currentBuffer_' = <<put(next, line)>>
                /\ nextBuffer_' = Null
  BY DEF append
<1>2. /\ running_' = running_ /\ pc' = pc /\ newBuffer1' = newBuffer1
      /\ newBuffer2' = newBuffer2 /\ buffersToWrite' = buffersToWrite
      /\ pos' = pos /\ files' = files /\ flushed' = flushed
      /\ count_' = count_ /\ lastRoll_' = lastRoll_
      /\ lastFlush_' = lastFlush_ /\ startOfPeriod_' = startOfPeriod_
      /\ wroteLater' = wroteLater /\ overdue' = overdue
  BY DEF append, back, logFile, unflushed
<1>3. /\ BufferTypes /\ PlaceTypes /\ FileTypes /\ FitInv /\ PointerInv
      /\ FlushInv /\ RollInv
  BY DEF IInv
<1>4. FileTypes' /\ FlushInv' /\ RollInv'
  BY <1>2, <1>3 DEF FileTypes, FlushInv, RollInv
<1>5. /\ appended \in Seq(Lines) /\ Len(appended) \in Nat
      /\ current \in Buffers /\ buffers_ \in Seq(Buffers)
      /\ Len(currentBuffer_) = 1
  BY <1>3, LineFacts, LenProperties DEF PlaceTypes, BufferTypes
<1>6. line \in Lines /\ line[2] = len /\ len \in 1..(Size - 1) /\ len \in Nat
  BY <1>1, <1>5, LengthsAssumption, LinesAssumption DEF Lines
<1>7. next = <<>>
  BY <1>3, FreshFacts DEF BufferTypes
<1>8. Used(current) \in Nat /\ Used(current) < Size /\ Size \in Nat
  <2>1. Used(current) \in Nat
    BY <1>5, <1>6, UsedAppend DEF Buffers
  <2>2. 1 \in 1..Len(currentBuffer_)
    BY <1>5
  <2> QED
    BY <1>3, <2>1, <2>2, SizeAssumption DEF FitInv
<1>9. Unwritten' = Unwritten
  BY <1>2 DEF Unwritten
<1> HIDE DEF line, current, next
<1> DEFINE w == Written(files)
           u == FlattenSeq(Unwritten)
           f == FlattenSeq(buffers_)
<1>10. /\ w \in Buffers /\ u \in Buffers /\ f \in Buffers
       /\ appended = Row(w, u, f, current)
       /\ Unwritten \in Seq(Buffers)
  BY LineFacts DEF current
<1>11. PlaceTypes'
  <2>1. Append(appended, line) \in Seq(Lines)
    BY <1>5, <1>6, AppendProperties
  <2> QED
    BY <1>1, <1>2, <1>3, <2>1 DEF PlaceTypes
<1>12. CASE avail(current) > len
  <2> DEFINE b == Append(current, line)
  <2>1. /\ currentBuffer_' = <<b>> /\ nextBuffer_' = nextBuffer_
        /\ buffers_' = buffers_
    BY <1>1, <1>6, <1>12 DEF put
  <2>2. b \in Buffers /\ Used(b) < Size
    <3>1. b \in Buffers /\ Used(b) = Used(current) + len
      BY <1>5, <1>6, UsedAppend, AppendProperties DEF Buffers
    <3> QED
      BY <1>6, <1>8, <1>12, <3>1 DEF avail
  <2> HIDE DEF w, u, f
  <2>3. appended' = Row(w, u, f, b)
    <3>0. line \in Lines
      BY <1>6
    <3>1. w \in Seq(Lines) /\ u \in Seq(Lines) /\ f \in Seq(Lines)
          /\ current \in Seq(Lines)
      BY <1>5, <1>10 DEF Buffers
    <3>2. Row(w, u, f, Add(current, line)) = Add(Row(w, u, f, current), line)
      BY <3>0, <3>1, Regroup
    <3> QED
      BY <1>1, <1>10, <3>2 DEF Add
  <2> HIDE DEF b
  <2> DEFINE c == <<b>>
  <2>4. c \in Seq(Buffers) /\ Len(c) = 1 /\ c[1] = b
    BY <2>2
  <2>5. currentBuffer_' = c
    BY <2>1
  <2> HIDE DEF c
  <2>6. LineInv'
    <3>1. Queued(w, Unwritten, buffers_, c) = Row(w, u, f, b)
      <4>0. w \in Seq(Lines)
        BY <1>10 DEF Buffers
      <4>1. Unwritten \in Seq(Seq(Lines))
        BY <1>10 DEF Buffers
      <4>2. buffers_ \in Seq(Seq(Lines))
        BY <1>5 DEF Buffers
      <4>3. c \in Seq(Seq(Lines)) /\ Len(c) = 1
        BY <2>4 DEF Buffers
      <4>4. Queued(w, Unwritten, buffers_, c)
              = Row(w, FlattenSeq(Unwritten), FlattenSeq(buffers_), c[1])
        BY <4>0, <4>1, <4>2, <4>3, FlattenThree
      <4> QED
        BY <2>4, <4>4 DEF u, f
    <3>2. appended' = Queued(w, Unwritten, buffers_, c)
      BY <2>3, <3>1
    <3> QED
      BY <1>2, <1>9, <2>1, <2>5, <3>2 DEF LineInv, w, Queued
  <2>7. BufferTypes'
    BY <1>2, <1>3, <2>1, <2>4, <2>5 DEF BufferTypes
  <2>8. FitInv'
    <3>1. \A i \in 1..Len(c) : Used(c[i]) < Size
      BY <2>2, <2>4
    <3> QED
      BY <1>2, <1>3, <2>1, <2>5, <3>1 DEF FitInv
  <2>9. PointerInv'
    BY <1>2, <1>3, <2>1 DEF PointerInv
  <2> QED
    BY <1>4, <1>11, <2>6, <2>7, <2>8, <2>9 DEF IInv
<1>13. CASE ~(avail(current) > len)
  <2> DEFINE b == <<line>>
             bs == Append(buffers_, current)
  <2>1. /\ currentBuffer_' = <<b>> /\ nextBuffer_' = Null /\ buffers_' = bs
    <3>1. avail(<<>>) > len
      BY <1>6, <1>8, FreshFacts DEF avail
    <3>2. put(<<>>, line) = b
      BY <1>6, <3>1 DEF put
    <3> QED
      BY <1>1, <1>7, <1>13, <3>2
  <2>2. b \in Buffers /\ Used(b) < Size
    <3>1. <<>> \in Seq(Lines) /\ b = Append(<<>>, line)
      BY EmptySeq
    <3>2. b \in Seq(Lines)
      BY <1>6
    <3>3. Used(Append(<<>>, line)) = Used(<<>>) + line[2]
      BY <1>6, <3>1, UsedAppend
    <3> QED
      BY <1>6, <1>8, <3>1, <3>2, <3>3, FreshFacts DEF Buffers
  <2>3. /\ bs \in Seq(Buffers) /\ bs # <<>> /\ Len(bs) = Len(buffers_) + 1
        /\ \A i \in 1..Len(buffers_) : bs[i] = buffers_[i]
        /\ bs[Len(buffers_) + 1] = current /\ Len(buffers_) \in Nat
    BY <1>5, AppendProperties, LenProperties
  <2> HIDE DEF w, u, f
  <2>4. appended' = Row(w, u, f \o current, b)
    <3>0. line \in Lines
      BY <1>6
    <3>1. w \in Seq(Lines) /\ u \in Seq(Lines) /\ f \in Seq(Lines)
          /\ current \in Seq(Lines)
      BY <1>5, <1>10 DEF Buffers
    <3>2. Row(w, u, Join(f, current), Only(line)) = Add(Row(w, u, f, current), line)
      BY <3>0, <3>1, Regroup
    <3> QED
      BY <1>1, <1>10, <3>2 DEF Add, Join, Only
  <2>5. FlattenSeq(bs) = f \o current
    BY <1>5, FlattenAppend DEF Buffers, f
  <2> HIDE DEF b, bs
  <2> DEFINE c == <<b>>
  <2>6. c \in Seq(Buffers) /\ Len(c) = 1 /\ c[1] = b
    BY <2>2
  <2>7. currentBuffer_' = c
    BY <2>1
  <2> HIDE DEF c
  <2>8. LineInv'
    <3>1. Queued(w, Unwritten, bs, c) = Row(w, u, FlattenSeq(bs), b)
      <4>0. w \in Seq(Lines)
        BY <1>10 DEF Buffers
      <4>1. Unwritten \in Seq(Seq(Lines))
        BY <1>10 DEF Buffers
      <4>2. bs \in Seq(Seq(Lines))
        BY <2>3 DEF Buffers
      <4>3. c \in Seq(Seq(Lines)) /\ Len(c) = 1
        BY <2>6 DEF Buffers
      <4>4. Queued(w, Unwritten, bs, c)
              = Row(w, FlattenSeq(Unwritten), FlattenSeq(bs), c[1])
        BY <4>0, <4>1, <4>2, <4>3, FlattenThree
      <4> QED
        BY <2>6, <4>4 DEF u
    <3>2. appended' = Queued(w, Unwritten, bs, c)
      BY <2>4, <2>5, <3>1
    <3> QED
      BY <1>2, <1>9, <2>1, <2>7, <3>2 DEF LineInv, w, Queued
  <2>9. BufferTypes'
    BY <1>2, <1>3, <2>1, <2>3, <2>6, <2>7 DEF BufferTypes
  <2>10. FitInv'
    <3>1. \A i \in 1..Len(c) : Used(c[i]) < Size
      BY <2>2, <2>6
    <3>2. ASSUME NEW i \in 1..Len(bs) PROVE Used(bs[i]) < Size
      <4>1. i \in 1..Len(buffers_) \/ i = Len(buffers_) + 1
        BY <2>3
      <4> QED
        BY <1>3, <1>8, <2>3, <4>1 DEF FitInv
    <3> QED
      BY <1>2, <1>3, <2>1, <2>7, <3>1, <3>2 DEF FitInv
  <2>11. PointerInv'
    BY <1>2, <1>3, <2>1, <2>3 DEF PointerInv
  <2> QED
    BY <1>4, <1>11, <2>8, <2>9, <2>10, <2>11 DEF IInv
<1> QED
  BY <1>12, <1>13

\* start(): the first file is open and empty.
LEMMA StartStep ==
  ASSUME IInv, start
  PROVE  IInv'
<1>1. /\ BufferTypes /\ PlaceTypes /\ FileTypes /\ FitInv /\ PointerInv
      /\ FlushInv /\ RollInv /\ LineInv
  BY DEF IInv
<1>2. PICK now \in Times : LogFileCtor(now)
  BY DEF start
<1>3. /\ pc = "off" /\ pc' = "check" /\ running_' = TRUE
      /\ newBuffer1' = Fresh /\ newBuffer2' = Fresh
      /\ currentBuffer_' = currentBuffer_ /\ nextBuffer_' = nextBuffer_
      /\ buffers_' = buffers_ /\ buffersToWrite' = buffersToWrite
      /\ pos' = pos /\ appended' = appended
  BY DEF start, front
<1> DEFINE f == newFile(now)
<1>4. /\ files' = <<f>> /\ lastRoll_' = now /\ lastFlush_' = now
      /\ startOfPeriod_' = period(now) /\ flushed' = flushed
      /\ count_' = count_ /\ wroteLater' = wroteLater /\ overdue' = overdue
  BY <1>2 DEF LogFileCtor
<1>5. /\ now \in Nat /\ f \in FileSet /\ f.openedAt = now /\ f.lines = <<>>
  BY NewFile
<1> HIDE DEF f
<1> DEFINE fs == <<f>>
<1>6. /\ fs \in Seq(FileSet) /\ Len(fs) = 1 /\ fs[1] = f /\ DOMAIN fs = 1..1
      /\ Append(<<>>, f) = fs /\ <<>> \in Seq(FileSet)
  BY <1>5, EmptySeq
<1>7. files' = fs
  BY <1>4
<1> HIDE DEF fs
<1>8. fs # <<>>
  <2>1. Len(<<>>) = 0
    BY FreshFacts
  <2> QED
    BY <1>6, <2>1
<1>9. /\ files = <<>> /\ flushed = 0 /\ buffersToWrite = <<>>
  BY <1>1, <1>3 DEF PointerInv
<1>10. Written(files) = <<>> /\ Written(files') = <<>>
  <2>1. /\ Written(<<>>) = <<>>
        /\ Written(Append(<<>>, f)) = Written(<<>>) \o f.lines
    BY <1>5, <1>6, WrittenAppend
  <2>2. <<>> \o <<>> = <<>>
    BY <1>5, FreshFacts, ConcatEmptySeq
  <2> QED
    BY <1>5, <1>6, <1>7, <1>9, <2>1, <2>2
<1>11. BufferTypes'
  BY <1>1, <1>3 DEF BufferTypes
<1>12. PlaceTypes'
  BY <1>1, <1>3 DEF PlaceTypes, Waiting
<1>13. FileTypes'
  <2>1. period(now) \in Nat
    BY <1>5, PeriodGrows
  <2> QED
    BY <1>1, <1>4, <1>5, <1>6, <1>7, <2>1 DEF FileTypes
<1>14. FitInv'
  BY <1>1, <1>3 DEF FitInv
<1>15. PointerInv'
  BY <1>1, <1>3, <1>7, <1>8, <1>9 DEF PointerInv, Waiting, Writing
<1>16. FlushInv'
  BY <1>4, <1>9, <1>10, FreshFacts DEF FlushInv
<1>17. RollInv'
  <2>1. Last(fs) = f
    BY <1>6 DEF Last
  <2>2. ~(Used(f.lines) > rollSize_)
    BY <1>5, FreshFacts, RollAssumption
  <2>3. \A i, j \in DOMAIN fs : ~(i < j)
    BY <1>6
  <2> QED
    BY <1>1, <1>4, <1>5, <1>7, <2>1, <2>2, <2>3 DEF RollInv
<1>18. LineInv'
  <2>1. Unwritten = <<>> /\ Unwritten' = <<>>
    BY <1>3 DEF Unwritten
  <2> QED
    BY <1>1, <1>3, <1>10, <2>1 DEF LineInv
<1> QED
  BY <1>11, <1>12, <1>13, <1>14, <1>15, <1>16, <1>17, <1>18 DEF IInv

\* The steps that move no buffer: stop(), the loop's head and its wait.
LEMMA QuietStep ==
  ASSUME IInv,
         stop \/ StopNotifies \/ KeepRunning \/ Wait \/ UNCHANGED vars
  PROVE  IInv'
<1>1. /\ BufferTypes /\ PlaceTypes /\ FileTypes /\ FitInv /\ PointerInv
      /\ FlushInv /\ RollInv /\ LineInv
  BY DEF IInv
<1>2. /\ currentBuffer_' = currentBuffer_ /\ nextBuffer_' = nextBuffer_
      /\ buffers_' = buffers_ /\ newBuffer1' = newBuffer1
      /\ newBuffer2' = newBuffer2 /\ buffersToWrite' = buffersToWrite
      /\ pos' = pos /\ files' = files /\ flushed' = flushed
      /\ count_' = count_ /\ lastRoll_' = lastRoll_
      /\ lastFlush_' = lastFlush_ /\ startOfPeriod_' = startOfPeriod_
      /\ wroteLater' = wroteLater /\ overdue' = overdue /\ appended' = appended
  BY DEF stop, StopNotifies, KeepRunning, Wait, vars, front, back, logFile,
         unflushed
<1>3. \/ pc' = pc
      \/ pc \in {"check", "lock"} /\ pc' \in {"lock", "waiting"}
  BY DEF stop, StopNotifies, KeepRunning, Wait, vars, back
<1>4. running_' \in BOOLEAN
  <2>1. running_' = FALSE \/ running_' = running_
    BY DEF stop, StopNotifies, KeepRunning, Wait, vars
  <2> QED
    BY <1>1, <2>1 DEF PlaceTypes
<1>5. PlaceTypes'
  <2>1. pc' \in {"off"} \cup Waiting \cup Writing
    BY <1>1, <1>3 DEF PlaceTypes, Waiting
  <2> QED
    BY <1>1, <1>2, <1>4, <2>1 DEF PlaceTypes
<1>6. BufferTypes' /\ FileTypes' /\ FitInv' /\ FlushInv' /\ RollInv'
  BY <1>1, <1>2 DEF BufferTypes, FileTypes, FitInv, FlushInv, RollInv
<1>7. PointerInv'
  BY <1>1, <1>2, <1>3 DEF PointerInv, Waiting, Writing
<1>8. LineInv'
  <2>1. Unwritten' = Unwritten
    BY <1>2, <1>3 DEF Unwritten
  <2> QED
    BY <1>1, <1>2, <2>1 DEF LineInv
<1> QED
  BY <1>5, <1>6, <1>7, <1>8 DEF IInv

\* The last flush.
LEMMA ExitStep ==
  ASSUME IInv, Exit
  PROVE  IInv'
<1>1. /\ BufferTypes /\ PlaceTypes /\ FileTypes /\ FitInv /\ PointerInv
      /\ FlushInv /\ RollInv /\ LineInv
  BY DEF IInv
<1>2. /\ currentBuffer_' = currentBuffer_ /\ nextBuffer_' = nextBuffer_
      /\ buffers_' = buffers_ /\ newBuffer1' = newBuffer1
      /\ newBuffer2' = newBuffer2 /\ buffersToWrite' = buffersToWrite
      /\ pos' = pos /\ files' = files /\ running_' = running_
      /\ count_' = count_ /\ lastRoll_' = lastRoll_
      /\ lastFlush_' = lastFlush_ /\ startOfPeriod_' = startOfPeriod_
      /\ wroteLater' = wroteLater /\ overdue' = overdue /\ appended' = appended
  BY DEF Exit, front, unflushed
<1>3. pc = "check" /\ pc' = "done" /\ flushed' = Len(Written(files))
  BY DEF Exit, flush
<1>4. Len(Written(files)) \in Nat
  BY LineFacts, LenProperties DEF Buffers
<1>5. BufferTypes' /\ FitInv' /\ RollInv'
  BY <1>1, <1>2 DEF BufferTypes, FitInv, RollInv
<1>6. PlaceTypes'
  BY <1>1, <1>2, <1>3 DEF PlaceTypes, Waiting
<1>7. FileTypes'
  BY <1>1, <1>2, <1>3, <1>4 DEF FileTypes
<1>8. FlushInv'
  BY <1>2, <1>3, <1>4 DEF FlushInv
<1>9. PointerInv'
  BY <1>1, <1>2, <1>3 DEF PointerInv, Waiting, Writing
<1>10. LineInv'
  <2>1. Unwritten' = Unwritten
    BY <1>3 DEF Unwritten
  <2> QED
    BY <1>1, <1>2, <2>1 DEF LineInv
<1> QED
  BY <1>5, <1>6, <1>7, <1>8, <1>9, <1>10 DEF IInv

\* The swap under the lock: what was filled is to be written, and the front
\* end goes on with the fresh buffers.
LEMMA SwapStep ==
  ASSUME IInv, pc \in {"lock", "waiting"}, swap
  PROVE  IInv'
<1>1. /\ BufferTypes /\ PlaceTypes /\ FileTypes /\ FitInv /\ PointerInv
      /\ FlushInv /\ RollInv /\ LineInv
  BY DEF IInv
<1> DEFINE bs == buffers_ \o currentBuffer_
<1>2. /\ buffersToWrite' = bs /\ buffers_' = <<>>
      /\ currentBuffer_' = newBuffer1 /\ newBuffer1' = Null
      /\ pos' = 1 /\ pc' = "write" /\ running_' = running_
      /\ files' = files /\ flushed' = flushed /\ count_' = count_
      /\ lastRoll_' = lastRoll_ /\ lastFlush_' = lastFlush_
      /\ startOfPeriod_' = startOfPeriod_ /\ wroteLater' = wroteLater
      /\ overdue' = overdue /\ appended' = appended
  BY DEF swap, logFile, unflushed
<1>3. newBuffer1 = Fresh /\ newBuffer2 = Fresh
  BY <1>1 DEF PointerInv, Waiting
<1>4. /\ nextBuffer_' = Fresh /\ newBuffer2' \in {Null, Fresh}
      /\ newBuffer2' = Null => buffers_ # <<>>
  <2>1. nextBuffer_ \in {Null, Fresh} /\ (nextBuffer_ = Null => buffers_ # <<>>)
    BY <1>1 DEF BufferTypes, PointerInv
  <2>2. CASE nextBuffer_ = Null
    BY <1>3, <2>1, <2>2 DEF swap, refillNext
  <2>3. CASE nextBuffer_ # Null
    <3>1. nextBuffer_' = nextBuffer_ /\ newBuffer2' = newBuffer2
      BY <2>3 DEF swap, refillNext
    <3> QED
      BY <1>3, <2>1, <2>3, <3>1, FreshFacts
  <2> QED
    BY <2>2, <2>3
<1>5. /\ currentBuffer_ \in Seq(Buffers) /\ Len(currentBuffer_) = 1
      /\ buffers_ \in Seq(Buffers) /\ Len(buffers_) \in Nat
  BY <1>1, LenProperties DEF BufferTypes
<1>6. /\ bs \in Seq(Buffers) /\ Len(bs) = Len(buffers_) + 1
      /\ \A i \in 1..(Len(buffers_) + 1) :
           bs[i] = IF i <= Len(buffers_) THEN buffers_[i]
                   ELSE currentBuffer_[i - Len(buffers_)]
  BY <1>5, ConcatProperties
<1>7. LineInv'
  <2>1. Unwritten = <<>>
    BY DEF Unwritten
  <2>2. Unwritten' = SubSeq(bs, 1, Len(bs))
    BY <1>2 DEF Unwritten
  <2>3. SubSeq(bs, 1, Len(bs)) = bs
    <3> HIDE DEF bs
    <3> QED
      BY <1>6, SubSeqFull
  <2>4. <<>> \o buffers_ = buffers_
    BY <1>5, ConcatEmptySeq
  <2>5. FlattenSeq(bs \o <<>> \o Fresh) = FlattenSeq(bs)
    <3> HIDE DEF bs
    <3>1. bs \o <<>> = bs
      BY <1>6, ConcatEmptySeq
    <3>2. bs \in Seq(Seq(Lines)) /\ Fresh \in Seq(Seq(Lines))
      BY <1>6, FreshFacts DEF Buffers
    <3>3. FlattenSeq(bs \o Fresh) = FlattenSeq(bs) \o FlattenSeq(Fresh)
      BY <3>2, FlattenConcat
    <3>4. FlattenSeq(Fresh) = <<>>
      <4>1. <<>> \in Seq(Lines)
        BY EmptySeq
      <4> QED
        BY <4>1, FlattenOne DEF Fresh
    <3>5. FlattenSeq(bs) \in Seq(Lines)
      BY <3>2, FlatType
    <3> DEFINE x == FlattenSeq(bs)
    <3>6. x \in Seq(Lines)
      BY <3>5
    <3> HIDE DEF x
    <3>7. x \o <<>> = x
      BY <3>6, ConcatEmptySeq
    <3> QED
      BY <3>1, <3>3, <3>4, <3>7 DEF x
  <2>6. appended = Written(files) \o FlattenSeq(bs)
    BY <1>1, <2>1, <2>4 DEF LineInv
  <2> HIDE DEF bs
  <2> QED
    BY <1>2, <1>3, <2>2, <2>3, <2>5, <2>6 DEF LineInv
<1> HIDE DEF bs
<1>8. BufferTypes'
  BY <1>2, <1>3, <1>4, <1>6, FreshFacts DEF BufferTypes
<1>9. PlaceTypes'
  BY <1>1, <1>2 DEF PlaceTypes, Writing
<1>10. FileTypes' /\ FlushInv' /\ RollInv'
  BY <1>1, <1>2 DEF FileTypes, FlushInv, RollInv
<1>11. FitInv'
  <2>1. ASSUME NEW i \in 1..Len(bs) PROVE Used(bs[i]) < Size
    <3>1. i \in 1..Len(buffers_) \/ i = Len(buffers_) + 1
      BY <1>5, <1>6
    <3>2. CASE i \in 1..Len(buffers_)
      BY <1>1, <1>5, <1>6, <3>2 DEF FitInv
    <3>3. CASE i = Len(buffers_) + 1
      <4>1. bs[i] = currentBuffer_[1]
        BY <1>5, <1>6, <3>3
      <4> QED
        BY <1>1, <1>5, <4>1 DEF FitInv
    <3> QED
      BY <3>1, <3>2, <3>3
  <2>2. \A i \in 1..Len(Fresh) : Used(Fresh[i]) < Size
    BY FreshFacts
  <2>3. \A i \in 1..Len(<<>>) : FALSE
    BY FreshFacts
  <2> QED
    BY <1>2, <1>3, <2>1, <2>2, <2>3 DEF FitInv
<1>12. PointerInv'
  <2>1. newBuffer2' = Null => Len(bs) >= 2
    <3>1. buffers_ # <<>> => Len(buffers_) # 0
      BY <1>5, EmptySeq
    <3> QED
      BY <1>4, <1>5, <1>6, <3>1
  <2>2. Len(bs) >= 1 /\ 1 \in 1..(Len(bs) + 1)
    BY <1>5, <1>6
  <2>3. nextBuffer_' # Null
    BY <1>4, FreshFacts
  <2>4. files # <<>>
    BY <1>1 DEF PointerInv
  <2> QED
    BY <1>2, <2>1, <2>2, <2>3, <2>4 DEF PointerInv, Waiting, Writing
<1> QED
  BY <1>7, <1>8, <1>9, <1>10, <1>11, <1>12 DEF IInv

\* What is left once the buffer at m is written.
LEMMA RestFacts ==
  ASSUME NEW S, NEW bs \in Seq(Seq(S)), NEW m \in 1..Len(bs)
  PROVE  /\ SubSeq(bs, m + 1, Len(bs)) \in Seq(Seq(S))
         /\ FlattenSeq(SubSeq(bs, m, Len(bs)))
              = Join(bs[m], FlattenSeq(SubSeq(bs, m + 1, Len(bs))))
<1> DEFINE n == Len(bs)
           r == SubSeq(bs, m + 1, n)
<1>1. n \in Nat /\ m \in Nat /\ m \in 1..n /\ n \in m..n
  BY LenProperties
<1>2. bs[m] \in Seq(S) /\ <<bs[m]>> \in Seq(Seq(S))
  BY ElementOfSeq
<1>3. SubSeq(bs, m, n) = <<bs[m]>> \o r
  BY <1>1, SubSeqRecursiveFirst
<1>4. r \in Seq(Seq(S))
  <2>1. \A i \in (m + 1)..n : bs[i] \in Seq(S)
    <3>1. \A i \in (m + 1)..n : i \in 1..Len(bs)
      BY <1>1
    <3> QED
      BY <3>1, ElementOfSeq
  <2>2. m + 1 \in Int /\ n \in Int
    BY <1>1
  <2> HIDE DEF n
  <2> QED
    BY <2>1, <2>2, SubSeqProperties
<1> HIDE DEF r
<1>5. FlattenSeq(<<bs[m]>>) = bs[m]
  BY <1>2, FlattenOne
<1> DEFINE b == <<bs[m]>>
<1>6. b \in Seq(Seq(S)) /\ FlattenSeq(b) = bs[m]
  BY <1>2, <1>5
<1>7. SubSeq(bs, m, n) = b \o r
  BY <1>3
<1> HIDE DEF b
<1>8. FlattenSeq(b \o r) = FlattenSeq(b) \o FlattenSeq(r)
  BY <1>4, <1>6, FlattenConcat
<1> QED
  BY <1>4, <1>6, <1>7, <1>8 DEF r, Join

\* One buffer goes to the file, or all have gone.
LEMMA WriteStep ==
  ASSUME IInv, WriteBuffer
  PROVE  IInv'
<1>1. /\ BufferTypes /\ PlaceTypes /\ FileTypes /\ FitInv /\ PointerInv
      /\ FlushInv /\ RollInv /\ LineInv
  BY DEF IInv
<1>2. /\ pc = "write"
      /\ currentBuffer_' = currentBuffer_ /\ nextBuffer_' = nextBuffer_
      /\ buffers_' = buffers_ /\ running_' = running_
      /\ newBuffer1' = newBuffer1 /\ newBuffer2' = newBuffer2
      /\ buffersToWrite' = buffersToWrite /\ appended' = appended
  BY DEF WriteBuffer, front
<1> DEFINE n == Len(buffersToWrite)
<1>3. /\ buffersToWrite \in Seq(Buffers) /\ n \in Nat /\ pos \in 1..(n + 1)
      /\ pos \in Nat /\ files # <<>>
  BY <1>1, <1>2, LenProperties DEF BufferTypes, PointerInv, Writing
<1>4. BufferTypes' /\ FitInv'
  BY <1>1, <1>2 DEF BufferTypes, FitInv
<1>5. CASE pos <= n
  <2> DEFINE l == buffersToWrite[pos]
  <2>1. PICK now \in Times : appendLines(l, now)
    BY <1>5 DEF WriteBuffer
  <2>2. pos' = pos + 1 /\ pc' = "write"
    BY <1>2, <1>5 DEF WriteBuffer
  <2>3. l \in Buffers
    <3>1. pos \in 1..Len(buffersToWrite)
      BY <1>3, <1>5
    <3> QED
      BY <1>3, <3>1, ElementOfSeq
  <2> HIDE DEF l
  <2>4. FilesKept(l)
    BY <1>1, <1>3, <2>1, <2>3, AppendLinesKeeps
  <2>5. FileTypes' /\ FlushInv' /\ RollInv'
    BY <2>4 DEF FilesKept
  <2>6. PlaceTypes'
    BY <1>1, <1>2, <1>3, <2>2 DEF PlaceTypes, Writing
  <2>7. PointerInv'
    <3>1. files' # <<>> /\ pos + 1 \in 1..(n + 1)
      BY <1>3, <1>5, <2>4 DEF FilesKept
    <3> QED
      BY <1>1, <1>2, <2>2, <3>1 DEF PointerInv, Waiting, Writing
  <2>8. LineInv'
    <3> DEFINE r == SubSeq(buffersToWrite, pos + 1, n)
               w == Written(files)
               f == FlattenSeq(buffers_)
               c == currentBuffer_[1]
               v == FlattenSeq(r)
    <3>1. /\ r \in Seq(Seq(Lines))
          /\ FlattenSeq(SubSeq(buffersToWrite, pos, n)) = Join(l, v)
      <4>1. buffersToWrite \in Seq(Seq(Lines)) /\ pos \in 1..Len(buffersToWrite)
        BY <1>3, <1>5 DEF Buffers
      <4> QED
        BY <4>1, RestFacts DEF l
    <3>2. Unwritten = SubSeq(buffersToWrite, pos, n) /\ Unwritten' = r
      BY <1>2, <2>2 DEF Unwritten
    <3>3. appended = Row(w, Join(l, v), f, c)
      BY <3>1, <3>2, LineFacts
    <3>4. w \in Seq(Lines) /\ f \in Seq(Lines) /\ c \in Seq(Lines)
          /\ l \in Seq(Lines)
      BY <2>3, LineFacts DEF Buffers
    <3>5. v \in Seq(Lines)
      BY <3>1, FlatType
    <3>6. Written(files') = Join(w, l)
      BY <2>4 DEF FilesKept, Join
    <3>7. Written(files') \in Seq(Lines)
      <4> HIDE DEF w
      <4>1. Join(w, l) \in Seq(Lines)
        BY <3>4, ConcatProperties DEF Join
      <4> QED
        BY <3>6, <4>1
    <3> HIDE DEF w, f, c, v
    <3>8. Row(Join(w, l), v, f, c) = Row(w, Join(l, v), f, c)
      BY <3>4, <3>5, RegroupWritten
    <3>9. Queued(Written(files'), r, buffers_, currentBuffer_)
            = Row(Written(files'), v, f, c)
      <4> HIDE DEF r
      <4> DEFINE x == Written(files')
      <4>1. /\ x \in Seq(Lines) /\ buffers_ \in Seq(Seq(Lines))
            /\ currentBuffer_ \in Seq(Seq(Lines)) /\ Len(currentBuffer_) = 1
        BY <1>1, <3>7 DEF BufferTypes, Buffers
      <4> HIDE DEF x
      <4>2. Queued(x, r, buffers_, currentBuffer_)
              = Row(x, FlattenSeq(r), FlattenSeq(buffers_), currentBuffer_[1])
        BY <3>1, <4>1, FlattenThree
      <4> QED
        BY <4>2 DEF x, v, f, c
    <3>10. appended' = Queued(Written(files'), r, buffers_, currentBuffer_)
      BY <1>2, <3>3, <3>6, <3>8, <3>9
    <3> QED
      BY <1>2, <3>2, <3>10 DEF LineInv, Queued
  <2> QED
    BY <1>4, <2>5, <2>6, <2>7, <2>8 DEF IInv
<1>6. CASE ~(pos <= n)
  <2>1. /\ pc' = "recycle" /\ pos' = 1 /\ files' = files
        /\ flushed' = flushed /\ count_' = count_ /\ lastRoll_' = lastRoll_
        /\ lastFlush_' = lastFlush_ /\ startOfPeriod_' = startOfPeriod_
        /\ wroteLater' = wroteLater /\ overdue' = overdue
    BY <1>6 DEF WriteBuffer, logFile, unflushed
  <2>2. FileTypes' /\ FlushInv' /\ RollInv'
    BY <1>1, <2>1 DEF FileTypes, FlushInv, RollInv
  <2>3. PlaceTypes'
    BY <1>1, <1>2, <2>1 DEF PlaceTypes, Writing
  <2>4. PointerInv'
    BY <1>1, <1>2, <2>1 DEF PointerInv, Waiting, Writing
  <2>5. LineInv'
    <3>1. SubSeq(buffersToWrite, pos, n) = <<>>
      BY <1>3, <1>6, SubSeqEmpty
    <3>2. Unwritten = <<>> /\ Unwritten' = <<>>
      BY <1>2, <2>1, <3>1 DEF Unwritten
    <3> QED
      BY <1>1, <1>2, <2>1, <3>2 DEF LineInv
  <2> QED
    BY <1>4, <2>2, <2>3, <2>4, <2>5 DEF IInv
<1> QED
  BY <1>5, <1>6

\* Two written buffers become the back end's fresh ones.
LEMMA RecycleStep ==
  ASSUME IInv, Recycle
  PROVE  IInv'
<1>1. /\ BufferTypes /\ PlaceTypes /\ FileTypes /\ FitInv /\ PointerInv
      /\ FlushInv /\ RollInv /\ LineInv
  BY DEF IInv
<1>2. /\ pc = "recycle" /\ pc' = "check" /\ buffersToWrite' = <<>>
      /\ flushed' = Len(Written(files))
      /\ currentBuffer_' = currentBuffer_ /\ nextBuffer_' = nextBuffer_
      /\ buffers_' = buffers_ /\ running_' = running_ /\ pos' = pos
      /\ files' = files /\ count_' = count_ /\ lastRoll_' = lastRoll_
      /\ lastFlush_' = lastFlush_ /\ startOfPeriod_' = startOfPeriod_
      /\ wroteLater' = wroteLater /\ overdue' = overdue /\ appended' = appended
  BY DEF Recycle, flush, front, unflushed
<1>3. newBuffer1' = Fresh /\ newBuffer2' = Fresh
  <2>1. newBuffer1 = Null /\ newBuffer2 \in {Null, Fresh}
    BY <1>1, <1>2 DEF PointerInv, BufferTypes, Writing
  <2>2. newBuffer1' = Fresh
    BY <2>1 DEF Recycle, recycled
  <2>3. newBuffer2' = IF newBuffer2 = Null THEN Fresh ELSE newBuffer2
    BY DEF Recycle, recycled
  <2> QED
    BY <2>1, <2>2, <2>3
<1>4. Len(Written(files)) \in Nat
  BY LineFacts, LenProperties DEF Buffers
<1>5. BufferTypes'
  BY <1>1, <1>2, <1>3, FreshFacts DEF BufferTypes
<1>6. PlaceTypes'
  BY <1>1, <1>2 DEF PlaceTypes, Waiting
<1>7. FileTypes'
  BY <1>1, <1>2, <1>4 DEF FileTypes
<1>8. FlushInv' /\ RollInv'
  BY <1>1, <1>2, <1>4 DEF FlushInv, RollInv
<1>9. FitInv'
  <2>1. \A i \in 1..Len(<<>>) : FALSE
    BY FreshFacts
  <2> QED
    BY <1>1, <1>2, <2>1 DEF FitInv
<1>10. PointerInv'
  BY <1>1, <1>2, <1>3 DEF PointerInv, Waiting, Writing
<1>11. LineInv'
  <2>1. Unwritten = <<>> /\ Unwritten' = <<>>
    BY <1>2 DEF Unwritten
  <2> QED
    BY <1>1, <1>2, <2>1 DEF LineInv
<1> QED
  BY <1>5, <1>6, <1>7, <1>8, <1>9, <1>10, <1>11 DEF IInv

-----------------------------------------------------------------------------
(* The theorems                                                             *)

LEMMA InitIInv ==
  ASSUME Init
  PROVE  IInv
<1>1. /\ currentBuffer_ = Fresh /\ nextBuffer_ = Fresh /\ buffers_ = <<>>
      /\ running_ = FALSE /\ pc = "off" /\ newBuffer1 = Null
      /\ newBuffer2 = Null /\ buffersToWrite = <<>> /\ pos = 1
      /\ appended = <<>>
  BY DEF Init
<1>2. /\ files = <<>> /\ flushed = 0 /\ count_ = 0 /\ lastRoll_ = 0
      /\ lastFlush_ = 0 /\ startOfPeriod_ = 0 /\ wroteLater = FALSE
      /\ overdue = 0
  BY DEF Init, InitLogFile
<1>3. /\ Fresh # Null /\ Fresh \in Seq(Buffers) /\ Len(Fresh) = 1
      /\ Fresh[1] = <<>> /\ Used(<<>>) = 0 /\ 0 < Size
      /\ <<>> \in Seq(Buffers) /\ Len(<<>>) = 0
  BY FreshFacts
<1>4. <<>> \in Seq(Lines) /\ <<>> \in Seq(FileSet)
  BY EmptySeq
<1>5. BufferTypes
  BY <1>1, <1>3 DEF BufferTypes
<1>6. PlaceTypes
  BY <1>1, <1>4 DEF PlaceTypes
<1>7. FileTypes
  BY <1>2, <1>4 DEF FileTypes
<1>8. FitInv
  <2>1. \A i \in 1..Len(<<>>) : FALSE
    BY <1>3
  <2>2. \A i \in 1..Len(Fresh) : Used(Fresh[i]) < Size
    BY <1>3
  <2> QED
    BY <1>1, <2>1, <2>2 DEF FitInv
<1>9. PointerInv
  BY <1>1, <1>2, <1>3 DEF PointerInv, Waiting, Writing
<1>10. Written(files) = <<>>
  <2>1. newFile(1) \in FileSet
    BY NewFile
  <2> QED
    BY <1>2, <1>4, <2>1, WrittenAppend
<1>11. FlushInv
  BY <1>2, <1>3, <1>10 DEF FlushInv
<1>12. RollInv
  BY <1>2, RollAssumption DEF RollInv
<1>13. LineInv
  <2>1. Unwritten = <<>>
    BY <1>1 DEF Unwritten
  <2>2. <<>> \o <<>> = <<>> /\ <<>> \o Fresh = Fresh
    BY <1>3, ConcatEmptySeq
  <2>3. FlattenSeq(Fresh) = <<>>
    BY <1>4, FlattenOne DEF Fresh
  <2> QED
    BY <1>1, <1>10, <2>1, <2>2, <2>3 DEF LineInv
<1> QED
  BY <1>5, <1>6, <1>7, <1>8, <1>9, <1>11, <1>12, <1>13 DEF IInv

\* What append(), start(), stop() and the back end's loop preserve, on any
\* number of lines, buffers and files.
THEOREM Invariance == Spec => []IInv
<1>1. Init => IInv
  BY InitIInv
<1>2. IInv /\ [Next]_vars => IInv'
  <2> SUFFICES ASSUME IInv, [Next]_vars PROVE IInv'
    OBVIOUS
  <2>1. CASE \E len \in Lengths : append(len)
    BY <2>1, AppendStep
  <2>2. CASE start
    BY <2>2, StartStep
  <2>3. CASE stop \/ StopNotifies \/ KeepRunning \/ Wait \/ UNCHANGED vars
    BY <2>3, QuietStep
  <2>4. CASE SwapAtOnce \/ Notified \/ TimedOut
    BY <2>4, SwapStep DEF SwapAtOnce, Notified, TimedOut
  <2>5. CASE WriteBuffer
    BY <2>5, WriteStep
  <2>6. CASE Recycle
    BY <2>6, RecycleStep
  <2>7. CASE Exit
    BY <2>7, ExitStep
  <2> QED
    BY <2>1, <2>2, <2>3, <2>4, <2>5, <2>6, <2>7 DEF Next, BackEnd
<1> QED
  BY <1>1, <1>2, PTL DEF Spec

\* Where stop() is, and whether cond_ was notified
CondTypes == notified \in BOOLEAN /\ stopping \in {"no", "notify", "join"}

LEMMA CondInvariance == Spec => []CondTypes
<1>1. Init => CondTypes
  BY DEF Init, CondTypes
<1>2. CondTypes /\ [Next]_vars => CondTypes'
  <2> SUFFICES ASSUME CondTypes, [Next]_vars PROVE CondTypes'
    OBVIOUS
  <2>1. \/ notified' = notified \/ notified' = FALSE
        \/ notified' = (pc = "waiting")
    BY DEF Next, BackEnd, append, start, stop, StopNotifies, notify_one, swap,
       KeepRunning, SwapAtOnce, Wait, Notified, TimedOut, Exit, WriteBuffer,
       Recycle, vars
  <2>2. stopping' \in {stopping, "notify", "join"}
    BY DEF Next, BackEnd, append, start, stop, StopNotifies, swap, KeepRunning,
       SwapAtOnce, Wait, Notified, TimedOut, Exit, WriteBuffer, Recycle, vars
  <2>3. notified' \in BOOLEAN
    BY <2>1, Zenon DEF CondTypes
  <2> QED
    BY <2>2, <2>3 DEF CondTypes
<1> QED
  BY <1>1, <1>2, PTL DEF Spec

\* The elements of lists of buffers that fit.
LEMMA RangeFacts ==
  /\ \A b \in Buffers : Range(b) \subseteq Lines
  /\ \A bs \in Seq(Buffers) :
       (\A i \in 1..Len(bs) : Used(bs[i]) < Size)
         => \A b \in Range(bs) : Used(b) < Size /\ Range(b) \subseteq Lines
<1>1. ASSUME NEW b \in Buffers PROVE Range(b) \subseteq Lines
  BY RangeOfSeq DEF Buffers
<1>2. ASSUME NEW bs \in Seq(Buffers), \A i \in 1..Len(bs) : Used(bs[i]) < Size,
             NEW b \in Range(bs)
      PROVE  Used(b) < Size /\ Range(b) \subseteq Lines
  <2>1. PICK i \in 1..Len(bs) : b = bs[i]
    BY RangeEquality
  <2>2. b \in Buffers
    BY <2>1, ElementOfSeq
  <2> QED
    BY <1>1, <1>2, <2>1, <2>2
<1> QED
  BY <1>1, <1>2

\* The state predicate that the run checks as NoLineLost follows.
LEMMA NoLineLostHolds ==
  ASSUME IInv, CondTypes
  PROVE  NoLineLost
<1>1. /\ BufferTypes /\ PlaceTypes /\ FileTypes /\ FitInv /\ PointerInv
      /\ FlushInv /\ RollInv /\ LineInv
  BY DEF IInv
<1>2. ASSUME NEW p \in Seq(Buffers), Len(p) <= 1 PROVE IsPointer(p)
  <2>1. ASSUME NEW i \in DOMAIN p PROVE Range(p[i]) \subseteq Lines
    <3>1. p[i] \in Buffers
      BY LenProperties, ElementOfSeq
    <3> QED
      BY <3>1, RangeFacts
  <2> QED
    BY <1>2, <2>1 DEF IsPointer
<1>3. \A p \in {Null, Fresh} : IsPointer(p)
  <2>1. Null \in Seq(Buffers) /\ Len(Null) <= 1
    BY FreshFacts
  <2>2. Fresh \in Seq(Buffers) /\ Len(Fresh) <= 1
    BY FreshFacts
  <2> QED
    BY <1>2, <2>1, <2>2, Zenon
<1>4. \A p \in {currentBuffer_, nextBuffer_, newBuffer1, newBuffer2} :
        IsPointer(p)
  <2>1. IsPointer(currentBuffer_)
    <3>1. currentBuffer_ \in Seq(Buffers) /\ Len(currentBuffer_) <= 1
      BY <1>1 DEF BufferTypes
    <3> QED
      BY <1>2, <3>1, Zenon
  <2> QED
    BY <1>1, <1>3, <2>1 DEF BufferTypes
<1>5. \A b \in Range(buffers_) \cup Range(buffersToWrite) :
        Used(b) < Size /\ Range(b) \subseteq Lines
  BY <1>1, RangeFacts DEF BufferTypes, FitInv
<1>6. pos \in 1..(Len(buffersToWrite) + 1) \/ buffersToWrite = <<>>
  BY <1>1 DEF PointerInv, PlaceTypes
<1>7. flushed \in 0..Len(Written(files))
  <2>1. Len(Written(files)) \in Nat
    BY LineFacts, LenProperties DEF Buffers
  <2> QED
    BY <1>1, <2>1 DEF FlushInv, FileTypes
<1>8. Range(appended) \subseteq Lines
  BY <1>1, RangeOfSeq DEF PlaceTypes
<1>9. TypeOK
  BY <1>1, <1>4, <1>5, <1>6, <1>7, <1>8
     DEF TypeOK, PlaceTypes, Waiting, Writing, CondTypes
<1> QED
  BY <1>1, <1>9 DEF NoLineLost, LineInv, Unwritten

\* Whatever the buffers' size and the lines' lengths, and whenever the clock
\* rolls the file, what AsyncLogging::append() was given is what the files
\* and the buffers hold, once each and in order.
THEOREM LineSafety == Spec => []NoLineLost
<1>1. IInv /\ CondTypes => NoLineLost
  BY NoLineLostHolds
<1> QED
  BY <1>1, Invariance, CondInvariance, PTL

LEMMA NoNullBufferHolds ==
  ASSUME IInv
  PROVE  NoNullBuffer
<1>1. BufferTypes /\ PointerInv
  BY DEF IInv
<1>2. currentBuffer_ # Null
  <2>1. Len(currentBuffer_) # Len(Null)
    BY <1>1, FreshFacts DEF BufferTypes
  <2> QED
    BY <2>1
<1>3. pc \in {"check", "lock", "waiting"}
        => newBuffer1 # Null /\ newBuffer2 # Null
  BY <1>1, FreshFacts DEF PointerInv, Waiting
<1>4. ASSUME pc = "recycle"
      PROVE  Cardinality({i \in {1, 2} : <<newBuffer1, newBuffer2>>[i] = Null})
               <= Len(keep(buffersToWrite))
  <2> DEFINE X == {i \in {1, 2} : <<newBuffer1, newBuffer2>>[i] = Null}
             n == Len(buffersToWrite)
  <2>1. /\ newBuffer1 = Null /\ n >= 1 /\ (newBuffer2 = Null => n >= 2)
        /\ buffersToWrite \in Seq(Buffers)
    BY <1>1, <1>4 DEF PointerInv, BufferTypes, Writing
  <2>2. n \in Nat
    BY <2>1, LenProperties
  <2>3. Len(keep(buffersToWrite)) = IF n > 2 THEN 2 ELSE n
    <3>1. CASE n > 2
      <4>1. \A i \in 1..2 : i \in 1..Len(buffersToWrite)
        BY <2>2, <3>1
      <4>2. \A i \in 1..2 : buffersToWrite[i] \in Buffers
        BY <2>1, <4>1, ElementOfSeq
      <4>3. Len(SubSeq(buffersToWrite, 1, 2)) = 2
        BY <4>2, SubSeqProperties
      <4> QED
        BY <3>1, <4>3 DEF keep
    <3>2. CASE ~(n > 2)
      BY <3>2 DEF keep
    <3> QED
      BY <3>1, <3>2
  <2>4. IsFiniteSet({1}) /\ Cardinality({1}) = 1
    BY FS_Singleton
  <2>5. IsFiniteSet({1, 2}) /\ Cardinality({1, 2}) = 2
    <3>1. {1, 2} = {1} \cup {2} /\ 2 \notin {1}
      OBVIOUS
    <3> QED
      BY <2>4, <3>1, FS_AddElement
  <2>6. CASE newBuffer2 = Null
    <3>1. X \subseteq {1, 2}
      OBVIOUS
    <3> HIDE DEF X
    <3>2. Cardinality(X) <= 2 /\ Cardinality(X) \in Nat
      BY <2>5, <3>1, FS_Subset, FS_CardinalityType
    <3>3. Cardinality(X) <= Len(keep(buffersToWrite))
      BY <2>1, <2>2, <2>3, <2>6, <3>2
    <3> QED
      BY <3>3 DEF X
  <2>7. CASE newBuffer2 # Null
    <3>1. X = {1}
      BY <2>1, <2>7
    <3> HIDE DEF X
    <3>2. Cardinality(X) <= Len(keep(buffersToWrite))
      BY <2>1, <2>2, <2>3, <2>4, <3>1
    <3> QED
      BY <3>2 DEF X
  <2> QED
    BY <2>6, <2>7
<1> QED
  BY <1>2, <1>3, <1>4 DEF NoNullBuffer

\* AsyncLogging never moves from a null BufferPtr: a current buffer is always
\* there, the back end always has one to exchange for it, and as many were
\* written as it takes back.
THEOREM PointerSafety == Spec => []NoNullBuffer
<1>1. IInv => NoNullBuffer
  BY NoNullBufferHolds
<1> QED
  BY <1>1, Invariance, PTL

\* LogFile::appendUnLocked() and rollFile(): for every rollSize_,
\* checkEveryN_ and length of a day, any readings of the clock and any local
\* time, a file is left in time, and two files have one name only where the
\* local time was set back between the seconds they were opened in.
THEOREM RollSafety == Spec => []FilesRoll
<1>1. IInv => FilesRoll
  <2> SUFFICES ASSUME IInv, files # <<>> PROVE FilesRoll
    BY DEF FilesRoll
  <2>1. RollInv /\ FileTypes
    BY DEF IInv
  <2>2. overdue < checkEveryN_
    BY <2>1, RollAssumption DEF RollInv, FileTypes
  <2>3. Used(Last(files).lines) > rollSize_ => ~wroteLater
    BY <2>1 DEF RollInv
  <2>4. ASSUME NEW i \in DOMAIN files, NEW j \in DOMAIN files,
               i < j, files[i].name = files[j].name
        PROVE  SetBack(files[i].openedAt, files[j].openedAt)
    <3>1. files[i].openedAt < files[j].openedAt
      BY <2>1, <2>4 DEF RollInv
    <3>2. files[i] \in FileSet /\ files[j] \in FileSet
      BY <2>1, LenProperties, ElementOfSeq DEF FileTypes
    <3>3. localtime[files[i].openedAt] = localtime[files[j].openedAt]
      BY <2>4, <3>2 DEF FileSet
    <3>4. localtime[files[i].openedAt] \in Nat
      BY <3>2, LocaltimeAssumption DEF FileSet
    <3> QED
      BY <3>1, <3>3, <3>4 DEF SetBack
  <2> QED
    BY <2>2, <2>3, <2>4 DEF FilesRoll
<1> QED
  BY <1>1, Invariance, PTL
=============================================================================
