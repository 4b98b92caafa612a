--------------------------- MODULE SequenceFacts ----------------------------
(***************************************************************************)
(* Facts about sequences that the proofs of several components rest on.    *)
(* FlattenSeq is a recursive function; what it gives is shown by induction *)
(* over the naturals, as the existence of a least counterexample.          *)
(***************************************************************************)
EXTENDS Integers, Sequences, SequencesExt, SequenceTheorems, WellFoundedInduction, TLAPS
-----------------------------------------------------------------------------
(* Induction.                                                              *)

LEMMA LeastNatural ==
  ASSUME NEW T, T \subseteq Nat, T # {}
  PROVE  \E x \in T : \A y \in T : x <= y
<1> DEFINE R == {ss \in Nat \X Nat : ss[1] < ss[2]}
<1>1. IsWellFoundedOn(R, Nat)
  BY NatLessThanWellFounded DEF OpToRel
<1> HIDE DEF R
<1>2. PICK x \in T : \A y \in T : <<y, x>> \notin R
  BY <1>1, WFMin
<1>3. \A y \in T : ~(y < x)
  BY <1>2 DEF R
<1> QED BY <1>3

\* A set that has 1 and with each n below m the next one has 1 .. m.
LEMMA UpTo ==
  ASSUME NEW m \in Nat, NEW P, m > 0 => 1 \in P,
         \A n \in 1 .. m - 1 : n \in P => n + 1 \in P
  PROVE  1 .. m \subseteq P
<1> DEFINE T == {n \in 1 .. m : n \notin P}
<1>1. SUFFICES ASSUME T # {} PROVE FALSE
  OBVIOUS
<1>2. PICK x \in T : \A y \in T : x <= y
  <2>1. T \subseteq Nat
    OBVIOUS
  <2> HIDE DEF T
  <2> QED BY <1>1, <2>1, LeastNatural
<1>3. x \in 1 .. m /\ x \notin P /\ x # 1
  OBVIOUS
<1>4. x - 1 \in 1 .. m - 1 /\ x - 1 \notin T
  BY <1>2, <1>3
<1>5. x - 1 \in P
  BY <1>4
<1>6. (x - 1) + 1 \in P
  BY <1>4, <1>5
<1> QED BY <1>3, <1>6
-----------------------------------------------------------------------------
(* FlattenSeq.                                                             *)

\* f[i] joins the first i sequences of ss.
Joins(S, ss, f) ==
  /\ f \in [1 .. Len(ss) -> Seq(S)]
  /\ \A i \in 1 .. Len(ss) : f[i] = IF i = 1 THEN ss[i] ELSE f[i - 1] \o ss[i]

LEMMA JoinsExists ==
  ASSUME NEW S, NEW ss \in Seq(Seq(S))
  PROVE  \E f : Joins(S, ss, f)
<1> DEFINE m == Len(ss)
           Def(f, n) == \A i \in 1 .. n : f[i] = IF i = 1 THEN ss[i] ELSE f[i - 1] \o ss[i]
           P == {n \in 1 .. m : \E f \in [1 .. n -> Seq(S)] : Def(f, n)}
<1>1. m \in Nat /\ \A i \in 1 .. m : ss[i] \in Seq(S)
  BY ElementOfSeq
<1> HIDE DEF m
<1>2. m > 0 => 1 \in P
  <2> SUFFICES ASSUME m > 0 PROVE \E f \in [1 .. 1 -> Seq(S)] : Def(f, 1)
    BY <1>1
  <2> DEFINE f == [i \in 1 .. 1 |-> ss[i]]
  <2>1. f \in [1 .. 1 -> Seq(S)]
    BY <1>1
  <2>2. Def(f, 1)
    BY <1>1
  <2> QED BY <2>1, <2>2
<1>3. ASSUME NEW n \in 1 .. m - 1, n \in P
      PROVE  n + 1 \in P
  <2>1. PICK f \in [1 .. n -> Seq(S)] : Def(f, n)
    BY <1>3
  <2> DEFINE g == [i \in 1 .. n + 1 |-> IF i = n + 1 THEN f[n] \o ss[n + 1] ELSE f[i]]
  <2>2. f[n] \in Seq(S) /\ ss[n + 1] \in Seq(S) /\ n \in Nat /\ n + 1 \in 1 .. m
    BY <1>1, <2>1
  <2>3. f[n] \o ss[n + 1] \in Seq(S)
    BY <2>2, ConcatProperties
  <2>4. g \in [1 .. n + 1 -> Seq(S)]
    BY <2>1, <2>2, <2>3
  <2>5. ASSUME NEW i \in 1 .. n + 1
        PROVE  g[i] = IF i = 1 THEN ss[i] ELSE g[i - 1] \o ss[i]
    <3>1. CASE i = n + 1
      <4>1. n \in 1 .. n + 1 /\ n # n + 1 /\ i # 1 /\ i - 1 = n
        BY <2>2, <3>1
      <4>2. g[n] = f[n] /\ g[i] = f[n] \o ss[i]
        BY <3>1, <4>1
      <4> QED BY <4>1, <4>2
    <3>2. CASE i \in 1 .. n
      <4>1. g[i] = f[i]
        BY <2>2, <3>2
      <4>2. i # 1 => i - 1 \in 1 .. n /\ i - 1 \in 1 .. n + 1 /\ i - 1 # n + 1
        BY <2>2, <3>2
      <4>3. i # 1 => g[i - 1] = f[i - 1]
        BY <4>2
      <4> QED BY <2>1, <3>2, <4>1, <4>3
    <3> QED BY <2>2, <3>1, <3>2
  <2> HIDE DEF g
  <2>6. Def(g, n + 1)
    BY <2>5
  <2> QED BY <2>2, <2>4, <2>6
<1>4. 1 .. m \subseteq P
  <2> HIDE DEF P
  <2> QED BY <1>1, <1>2, <1>3, UpTo
<1>5. CASE m = 0
  <2>1. Joins(S, ss, [i \in 1 .. 0 |-> ss[i]])
    BY <1>5 DEF Joins, m
  <2> QED BY <2>1
<1>6. CASE m > 0
  <2>1. m \in P
    <3>1. m \in 1 .. m
      BY <1>1, <1>6
    <3> HIDE DEF P
    <3> QED BY <1>4, <3>1
  <2>2. PICK f \in [1 .. m -> Seq(S)] : Def(f, m)
    BY <2>1
  <2>3. Joins(S, ss, f)
    BY <2>2 DEF Joins, m
  <2> QED BY <2>3
<1> QED BY <1>1, <1>5, <1>6

\* FlattenSeq gives the join of all.
LEMMA FlattenJoins ==
  ASSUME NEW S, NEW ss \in Seq(Seq(S))
  PROVE  \E f : /\ Joins(S, ss, f)
                /\ FlattenSeq(ss) = IF Len(ss) = 0 THEN <<>> ELSE f[Len(ss)]
<1> DEFINE def(f) == [i \in 1 .. Len(ss) |->
                        IF i = 1 THEN ss[i] ELSE f[i - 1] \o ss[i]]
           flatten == CHOOSE f : f = def(f)
<1>1. PICK f : Joins(S, ss, f)
  BY JoinsExists
<1>2. f = def(f)
  BY <1>1 DEF Joins
<1>3. flatten = def(flatten)
  BY <1>2
<1>4. FlattenSeq(ss) = IF Len(ss) = 0 THEN <<>> ELSE flatten[Len(ss)]
  BY DEF FlattenSeq
<1> DEFINE m == Len(ss)
<1>5. m \in Nat /\ \A i \in 1 .. m : ss[i] \in Seq(S)
  BY ElementOfSeq
<1> HIDE DEF flatten
<1>6. /\ flatten = [i \in 1 .. m |-> flatten[i]]
      /\ \A i \in 1 .. m : flatten[i] = IF i = 1 THEN ss[i] ELSE flatten[i - 1] \o ss[i]
  BY <1>3
<1> HIDE DEF m
<1>7. \A i \in 1 .. m : flatten[i] \in Seq(S)
  <2> DEFINE P == {i \in 1 .. m : flatten[i] \in Seq(S)}
  <2>1. m > 0 => 1 \in P
    <3>1. m > 0 => 1 \in 1 .. m
      BY <1>5
    <3>2. m > 0 => flatten[1] = ss[1]
      BY <1>6, <3>1
    <3> QED BY <1>5, <3>1, <3>2
  <2>2. ASSUME NEW n \in 1 .. m - 1, n \in P
        PROVE  n + 1 \in P
    <3>1. n \in Nat /\ n + 1 \in 1 .. m /\ n + 1 # 1 /\ (n + 1) - 1 = n
      BY <1>5
    <3>2. flatten[n + 1] = flatten[n] \o ss[n + 1]
      BY <1>6, <3>1
    <3>3. flatten[n] \in Seq(S) /\ ss[n + 1] \in Seq(S)
      BY <1>5, <2>2, <3>1
    <3> QED BY <3>1, <3>2, <3>3, ConcatProperties
  <2>3. 1 .. m \subseteq P
    <3> HIDE DEF P
    <3> QED BY <1>5, <2>1, <2>2, UpTo
  <2> QED BY <2>3
<1>8. Joins(S, ss, flatten)
  BY <1>6, <1>7 DEF Joins, m
<1> QED BY <1>4, <1>8

\* Concatenation by a name, to keep the provers from expanding it.
Joined(first, rest) == first \o rest

LEMMA JoinedAssociative ==
  ASSUME NEW S, NEW first \in Seq(S), NEW rest \in Seq(S), NEW t \in Seq(S)
  PROVE  Joined(Joined(first, rest), t) = Joined(first, Joined(rest, t))
BY ConcatAssociative DEF Joined

LEMMA JoinedIs ==
  ASSUME NEW S, NEW a \in Seq(S), NEW b \in Seq(S)
  PROVE  /\ Joined(a, b) \in Seq(S) /\ Len(Joined(a, b)) = Len(a) + Len(b)
         /\ \A k \in 1 .. Len(a) : Joined(a, b)[k] = a[k]
         /\ \A k \in 1 .. Len(b) : Joined(a, b)[Len(a) + k] = b[k]
<1>1. /\ a \o b \in Seq(S) /\ Len(a \o b) = Len(a) + Len(b)
      /\ \A i \in 1 .. Len(a) + Len(b) :
           (a \o b)[i] = IF i <= Len(a) THEN a[i] ELSE b[i - Len(a)]
  BY ConcatProperties
<1> DEFINE j == a \o b
<1> HIDE DEF j
<1>2. /\ j \in Seq(S) /\ Len(j) = Len(a) + Len(b)
      /\ \A i \in 1 .. Len(a) + Len(b) :
           j[i] = IF i <= Len(a) THEN a[i] ELSE b[i - Len(a)]
      /\ Joined(a, b) = j
  BY <1>1 DEF j, Joined
<1>3. Len(a) \in Nat /\ Len(b) \in Nat
  OBVIOUS
<1>4. ASSUME NEW k \in 1 .. Len(a)
      PROVE  j[k] = a[k]
  BY <1>2, <1>3
<1>5. ASSUME NEW k \in 1 .. Len(b)
      PROVE  j[Len(a) + k] = b[k]
  <2>1. Len(a) + k \in 1 .. Len(a) + Len(b) /\ ~(Len(a) + k <= Len(a))
        /\ (Len(a) + k) - Len(a) = k
    BY <1>3
  <2> QED BY <1>2, <2>1
<1> QED BY <1>2, <1>4, <1>5

\* n elements of d after the first m, if they are the first of w.
LEMMA CutOut ==
  ASSUME NEW S, NEW d \in Seq(S), NEW w \in Seq(S),
         NEW m \in Nat, NEW n \in 0 .. Len(w), m + n <= Len(d),
         \A k \in 1 .. n : d[m + k] = w[k]
  PROVE  /\ SubSeq(d, m + 1, m + n) = SubSeq(w, 1, n)
         /\ SubSeq(w, 1, n) \in Seq(S) /\ Len(SubSeq(w, 1, n)) = n
<1>0. Len(d) \in Nat /\ Len(w) \in Nat /\ n \in Nat
  OBVIOUS
<1> DEFINE a == SubSeq(d, m + 1, m + n)
           b == SubSeq(w, 1, n)
<1>1. \A k \in m + 1 .. m + n : d[k] \in S
  <2>1. \A k \in m + 1 .. m + n : k \in 1 .. Len(d)
    BY <1>0
  <2> QED BY <2>1, ElementOfSeq
<1>2. \A k \in 1 .. n : w[k] \in S
  <2>1. \A k \in 1 .. n : k \in 1 .. Len(w)
    BY <1>0
  <2> QED BY <2>1, ElementOfSeq
<1>3. m + 1 \in Int /\ m + n \in Int /\ (m + n) - (m + 1) + 1 = n
      /\ (IF m + 1 <= m + n THEN (m + n) - (m + 1) + 1 ELSE 0) = n
  BY <1>0
<1>4. a \in Seq(S) /\ Len(a) = n /\ \A k \in 1 .. n : a[k] = d[(m + 1) + k - 1]
  BY <1>1, <1>3, SubSeqProperties
<1>5. b \in Seq(S) /\ Len(b) = n /\ \A k \in 1 .. n : b[k] = w[1 + k - 1]
  <2>1. 1 \in Int /\ n \in Int /\ n - 1 + 1 = n /\ (IF 1 <= n THEN n - 1 + 1 ELSE 0) = n
    BY <1>0
  <2> QED BY <1>2, <2>1, SubSeqProperties
<1> HIDE DEF a, b
<1>6. \A k \in 1 .. n : (m + 1) + k - 1 = m + k /\ 1 + k - 1 = k
  BY <1>0
<1>7. \A k \in 1 .. Len(a) : a[k] = b[k]
  BY <1>4, <1>5, <1>6
<1>8. a = b
  BY <1>4, <1>5, <1>7, SeqEqual
<1> QED BY <1>5, <1>8 DEF a, b

\* One more sequence comes after those before it.
LEMMA FlattenAppend ==
  ASSUME NEW S, NEW ss \in Seq(Seq(S)), NEW t \in Seq(S)
  PROVE  /\ FlattenSeq(ss) \in Seq(S)
         /\ FlattenSeq(Append(ss, t)) = FlattenSeq(ss) \o t
<1> DEFINE l == Append(ss, t)
           m == Len(ss)
<1>1. /\ l \in Seq(Seq(S)) /\ Len(l) = m + 1 /\ m \in Nat
      /\ \A i \in 1 .. m : l[i] = ss[i]
      /\ l[m + 1] = t
  BY AppendProperties
<1> HIDE DEF l
<1>2. PICK f : Joins(S, ss, f) /\ FlattenSeq(ss) = IF Len(ss) = 0 THEN <<>> ELSE f[Len(ss)]
  BY FlattenJoins
<1>3. PICK g : Joins(S, l, g) /\ FlattenSeq(l) = IF Len(l) = 0 THEN <<>> ELSE g[Len(l)]
  BY <1>1, FlattenJoins
<1>4. /\ f \in [1 .. m -> Seq(S)]
      /\ \A i \in 1 .. m : f[i] = IF i = 1 THEN ss[i] ELSE f[i - 1] \o ss[i]
      /\ FlattenSeq(ss) = IF m = 0 THEN <<>> ELSE f[m]
  BY <1>2 DEF Joins
<1> HIDE DEF m
<1>5. /\ \A i \in 1 .. m + 1 : g[i] = IF i = 1 THEN l[i] ELSE g[i - 1] \o l[i]
      /\ FlattenSeq(l) = g[m + 1]
  <2>1. \A i \in 1 .. Len(l) : g[i] = IF i = 1 THEN l[i] ELSE g[i - 1] \o l[i]
    BY <1>3 DEF Joins
  <2>2. Len(l) = m + 1 /\ m + 1 # 0
    BY <1>1
  <2> QED BY <1>3, <2>1, <2>2
<1>6. \A i \in 1 .. m : f[i] = g[i]
  <2> DEFINE P == {i \in 1 .. m : f[i] = g[i]}
  <2>1. m > 0 => 1 \in P
    <3> SUFFICES ASSUME m > 0 PROVE f[1] = g[1] /\ 1 \in 1 .. m
      OBVIOUS
    <3>1. 1 \in 1 .. m /\ 1 \in 1 .. m + 1
      BY <1>1
    <3>2. f[1] = ss[1] /\ g[1] = l[1]
      BY <1>4, <1>5, <3>1
    <3> QED BY <1>1, <3>1, <3>2
  <2>2. ASSUME NEW n \in 1 .. m - 1, n \in P
        PROVE  n + 1 \in P
    <3>1. n \in Nat /\ n + 1 \in 1 .. m /\ n + 1 \in 1 .. m + 1 /\ n + 1 # 1
          /\ (n + 1) - 1 = n
      BY <1>1
    <3>2. f[n + 1] = f[n] \o ss[n + 1]
      BY <1>4, <3>1
    <3>3. g[n + 1] = g[n] \o l[n + 1]
      BY <1>5, <3>1
    <3> QED BY <1>1, <2>2, <3>1, <3>2, <3>3
  <2>3. 1 .. m \subseteq P
    <3> HIDE DEF P
    <3> QED BY <1>1, <2>1, <2>2, UpTo
  <2> QED BY <2>3
<1>7. FlattenSeq(ss) \in Seq(S)
  <2>1. <<>> \in Seq(S)
    OBVIOUS
  <2>2. m # 0 => f[m] \in Seq(S)
    BY <1>1, <1>4
  <2> QED BY <1>4, <2>1, <2>2
<1>8. FlattenSeq(l) = FlattenSeq(ss) \o t
  <2>1. CASE m = 0
    <3>1. g[m + 1] = t
      BY <1>1, <1>5, <2>1
    <3>2. <<>> \o t = t
      BY ConcatEmptySeq
    <3> QED BY <1>4, <1>5, <2>1, <3>1, <3>2
  <2>2. CASE m # 0
    <3>1. m + 1 \in 1 .. m + 1 /\ m \in 1 .. m /\ m + 1 # 1 /\ (m + 1) - 1 = m
      BY <1>1, <2>2
    <3>2. g[m + 1] = g[m] \o t
      BY <1>1, <1>5, <3>1
    <3> QED BY <1>4, <1>5, <1>6, <2>2, <3>1, <3>2
  <2> QED BY <2>1, <2>2
<1> QED BY <1>7, <1>8 DEF l

\* The same for what is left of a sequence without its last element.
LEMMA FlattenLast ==
  ASSUME NEW S, NEW ss \in Seq(Seq(S)), NEW n \in 1 .. Len(ss)
  PROVE  FlattenSeq(SubSeq(ss, 1, n)) = FlattenSeq(SubSeq(ss, 1, n - 1)) \o ss[n]
<1> DEFINE p == SubSeq(ss, 1, n - 1)
<1>1. p \in Seq(Seq(S)) /\ ss[n] \in Seq(S)
  BY ElementOfSeq
<1>2. Append(p, ss[n]) = SubSeq(ss, 1, n)
  <2>1. SubSeq(ss, 1, n) = p \o <<ss[n]>>
    BY SubSeqRecursiveSecond
  <2> QED BY <1>1, <2>1, AppendIsConcat
<1> HIDE DEF p
<1>3. FlattenSeq(Append(p, ss[n])) = FlattenSeq(p) \o ss[n]
  BY <1>1, FlattenAppend
<1> QED BY <1>2, <1>3 DEF p

\* Two joins that differ in their first sequence only, which one of them lacks.
SameButFirst(ss, ws, m) == ws[1] = <<>> /\ \A k \in 2 .. m : ws[k] = ss[k]

LEMMA NextUpTo ==
  ASSUME NEW m \in Nat, NEW n \in 1 .. m - 1
  PROVE  n + 1 \in 2 .. m /\ n + 1 \in 1 .. m /\ n \in 1 .. m /\ (n + 1) - 1 = n
OBVIOUS

LEMMA FlattenWithoutFirst ==
  ASSUME NEW S, NEW ss \in Seq(Seq(S)), NEW ws \in Seq(Seq(S)),
         NEW m \in 1 .. Len(ss), m <= Len(ws),
         SameButFirst(ss, ws, m)
  PROVE  FlattenSeq(SubSeq(ss, 1, m)) = ss[1] \o FlattenSeq(SubSeq(ws, 1, m))
<1> DEFINE A == [n \in 0 .. m |-> FlattenSeq(SubSeq(ss, 1, n))]
           B == [n \in 0 .. m |-> FlattenSeq(SubSeq(ws, 1, n))]
           P == {n \in 1 .. m : A[n] = ss[1] \o B[n]}
<1>1. Len(ss) \in Nat /\ Len(ws) \in Nat /\ m \in Nat /\ 1 \in 1 .. m
  OBVIOUS
<1>2. \A n \in 1 .. m : /\ n \in 1 .. Len(ss) /\ n \in 1 .. Len(ws) /\ n \in 0 .. m
                        /\ n - 1 \in 0 .. m
  BY <1>1
<1>3. \A n \in 1 .. m : ss[n] \in Seq(S) /\ ws[n] \in Seq(S)
  BY <1>2, ElementOfSeq
<1>4. \A n \in 1 .. m : A[n] = A[n - 1] \o ss[n] /\ B[n] = B[n - 1] \o ws[n]
  BY <1>2, FlattenLast
<1>5. \A n \in 1 .. m : B[n] \in Seq(S)
  <2> TAKE n \in 1 .. m
  <2>1. SubSeq(ws, 1, n) \in Seq(Seq(S)) /\ <<>> \in Seq(S)
    BY <1>2
  <2> QED BY <1>2, <2>1, FlattenAppend
<1>6. A[0] = <<>> /\ B[0] = <<>>
  <2>1. SubSeq(ss, 1, 0) = <<>> /\ SubSeq(ws, 1, 0) = <<>>
    BY SubSeqEmpty
  <2>2. FlattenSeq(<<>>) = <<>>
    BY DEF FlattenSeq
  <2>3. 0 \in 0 .. m
    BY <1>1
  <2> QED BY <2>1, <2>2, <2>3
<1>7. A[m] = FlattenSeq(SubSeq(ss, 1, m)) /\ B[m] = FlattenSeq(SubSeq(ws, 1, m))
  BY <1>1
<1> HIDE DEF A, B
<1>8. m > 0 => 1 \in P
  <2>1. A[1] = A[0] \o ss[1] /\ B[1] = B[0] \o ws[1]
    <3>1. 1 - 1 = 0
      OBVIOUS
    <3> QED BY <1>1, <1>4, <3>1
  <2>2. ss[1] \in Seq(S) /\ <<>> \in Seq(S)
    BY <1>1, <1>3
  <2>3. <<>> \o ss[1] = ss[1] /\ <<>> \o <<>> = <<>> /\ ss[1] \o <<>> = ss[1]
    BY <2>2, ConcatEmptySeq
  <2>4. ws[1] = <<>>
    BY DEF SameButFirst
  <2> QED BY <1>1, <1>6, <2>1, <2>3, <2>4
<1>9. ASSUME NEW n \in 1 .. m - 1, n \in P
      PROVE  n + 1 \in P
  <2>1. n + 1 \in 2 .. m /\ n + 1 \in 1 .. m /\ n \in 1 .. m /\ (n + 1) - 1 = n
    BY <1>1, NextUpTo
  <2>2. A[n + 1] = A[n] \o ss[n + 1] /\ B[n + 1] = B[n] \o ws[n + 1]
    BY <1>4, <2>1
  <2>3. ss[1] \in Seq(S) /\ B[n] \in Seq(S) /\ ss[n + 1] \in Seq(S)
    BY <1>1, <1>3, <1>5, <2>1
  <2>4. A[n] = ss[1] \o B[n] /\ ws[n + 1] = ss[n + 1]
    BY <1>9, <2>1 DEF SameButFirst
  <2>5. A[n + 1] = ss[1] \o B[n + 1]
    <3>1. A[n + 1] = Joined(A[n], ss[n + 1]) /\ B[n + 1] = Joined(B[n], ss[n + 1])
      BY <2>2, <2>4 DEF Joined
    <3>2. A[n] = Joined(ss[1], B[n])
      BY <2>4 DEF Joined
    <3>3. Joined(Joined(ss[1], B[n]), ss[n + 1]) = Joined(ss[1], Joined(B[n], ss[n + 1]))
      BY <2>3, JoinedAssociative
    <3>4. A[n + 1] = Joined(ss[1], B[n + 1])
      BY <3>1, <3>2, <3>3
    <3> QED BY <3>4 DEF Joined
  <2> QED BY <2>1, <2>5
<1>10. m \in P
  <2>1. 1 .. m \subseteq P
    <3> HIDE DEF P
    <3> QED BY <1>1, <1>8, <1>9, UpTo
  <2> HIDE DEF P
  <2>2. m \in 1 .. m
    BY <1>1
  <2> QED BY <2>1, <2>2
<1> QED BY <1>7, <1>10
-----------------------------------------------------------------------------
(* Cutting and appending.                                                  *)

LEMMA CutAnywhere ==
  ASSUME NEW S, NEW s \in Seq(S), NEW k \in 0 .. Len(s)
  PROVE  /\ SubSeq(s, 1, k) \in Seq(S) /\ SubSeq(s, k + 1, Len(s)) \in Seq(S)
         /\ SubSeq(s, 1, k) \o SubSeq(s, k + 1, Len(s)) = s
<1>1. Len(s) \in Nat /\ 1 \in 1 .. Len(s) + 1 /\ k \in 1 - 1 .. Len(s)
      /\ Len(s) \in k .. Len(s)
  OBVIOUS
<1>2. SubSeq(s, 1, k) \o SubSeq(s, k + 1, Len(s)) = SubSeq(s, 1, Len(s))
  BY <1>1, ConcatAdjacentSubSeq
<1>3. SubSeq(s, 1, Len(s)) = s
  BY SubSeqFull
<1>4. SubSeq(s, 1, k) \in Seq(S) /\ SubSeq(s, k + 1, Len(s)) \in Seq(S)
  OBVIOUS
<1> QED BY <1>2, <1>3, <1>4

\* d and what is cut off all, and the rest, are d and all.
LEMMA CutAfter ==
  ASSUME NEW S, NEW d \in Seq(S), NEW all \in Seq(S), NEW k \in 0 .. Len(all)
  PROVE  (d \o SubSeq(all, 1, k)) \o SubSeq(all, k + 1, Len(all)) = d \o all
<1>1. /\ SubSeq(all, 1, k) \in Seq(S) /\ SubSeq(all, k + 1, Len(all)) \in Seq(S)
      /\ SubSeq(all, 1, k) \o SubSeq(all, k + 1, Len(all)) = all
  BY CutAnywhere
<1> DEFINE w == SubSeq(all, 1, k)
           b == SubSeq(all, k + 1, Len(all))
<1>2. w \in Seq(S) /\ b \in Seq(S) /\ Joined(w, b) = all
  BY <1>1 DEF Joined
<1> HIDE DEF w, b
<1>3. Joined(Joined(d, w), b) = Joined(d, all)
  BY <1>2, JoinedAssociative
<1> QED BY <1>3 DEF Joined, w, b

LEMMA AppendToConcat ==
  ASSUME NEW S, NEW d \in Seq(S), NEW u \in Seq(S), NEW t \in S
  PROVE  d \o Append(u, t) = Append(d \o u, t)
<1>1. <<t>> \in Seq(S) /\ d \o u \in Seq(S)
  BY ConcatProperties
<1>2. Append(u, t) = u \o <<t>> /\ Append(d \o u, t) = (d \o u) \o <<t>>
  BY <1>1, AppendIsConcat
<1> QED BY <1>1, <1>2, ConcatAssociative
=============================================================================
