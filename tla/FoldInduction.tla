---------------------------- MODULE FoldInduction ----------------------------
(***************************************************************************)
(* Induction over numbers, put as statements about sets of numbers, and    *)
(* that the functions which the folds of the library and the loops of the  *)
(* models choose, and FlattenSeq, obey their recursion.                    *)
(***************************************************************************)
EXTENDS Integers, SequencesExt, FiniteSetsExt, SequenceTheorems,
        WellFoundedInduction, TLAPS

(* A set of numbers that is not empty has a least one: the well-           *)
(* foundedness of < on Nat.                                                *)
LEMMA NatMin ==
  ASSUME NEW T \in SUBSET Nat, T # {}
  PROVE  \E x \in T : \A y \in T : x <= y
<1>1. IsWellFoundedOn(OpToRel(<,Nat), Nat)
  BY NatLessThanWellFounded, Zenon
<1>2. PICK x \in T : \A y \in T : ~(<<y, x>> \in OpToRel(<,Nat))
  BY <1>1, WFMin, Zenon
<1>3. \A y \in T : ~(y < x)
  BY <1>2, Zenon DEF OpToRel
<1> QED
  BY <1>3

(* Induction up to n, for a set instead of a predicate. *)
LEMMA Induction ==
  ASSUME NEW n \in Nat, NEW S, 0 \in S, \A i \in 0..(n - 1) : i \in S => i + 1 \in S
  PROVE  \A i \in 0..n : i \in S
<1> DEFINE T == {i \in 0..n : i \notin S}
<1> SUFFICES ASSUME T # {} PROVE FALSE
  OBVIOUS
<1>0. T \in SUBSET Nat
  OBVIOUS
<1>1. PICK x \in T : \A y \in T : x <= y
  <2> HIDE DEF T
  <2> QED
    BY <1>0, NatMin
<1>2. x - 1 \in 0..(n - 1) /\ x - 1 \notin T
  BY <1>1
<1>3. x - 1 \in S
  BY <1>2
<1>4. (x - 1) + 1 \in S
  BY <1>2, <1>3
<1> QED
  BY <1>1, <1>4

(* F folds step over the subsets of 1..n, from the highest number down, as *)
(* MapThenFoldSet does it.                                                 *)
Folded(F, base, step, n) ==
  \A q \in SUBSET (1..n) :
    F[q] = IF q = {} THEN base ELSE step[<<Max(q), F[q \ {Max(q)}]>>]

(* The subsets of 1..n have a maximum. *)
HasMax(n) == \A q \in SUBSET (1..n) : q # {} => Max(q) \in q

(* There is a function that folds over the subsets of 1..n, so the one     *)
(* that MapThenFoldSet chooses is one; and such a subset has a maximum.    *)
LEMMA FoldExists ==
  ASSUME NEW n \in Nat, NEW B, NEW base \in B, NEW step \in [(1..n) \X B -> B]
  PROVE  HasMax(n) /\ \E F \in [SUBSET (1..n) -> B] : Folded(F, base, step, n)
<1> DEFINE
      Rec(F, m) == \A q \in SUBSET (1..m) :
        F[q] = IF q = {} THEN base ELSE step[<<Max(q), F[q \ {Max(q)}]>>]
      S == {m \in 0..n : /\ \A q \in SUBSET (1..m) : q # {} => Max(q) \in q
                         /\ \E F \in [SUBSET (1..m) -> B] : Rec(F, m)}
<1>1. 0 \in S
  <2>1. 1..0 = {} /\ SUBSET (1..0) = {{}}
    OBVIOUS
  <2> DEFINE F == [q \in SUBSET (1..0) |-> base]
  <2>2. F \in [SUBSET (1..0) -> B] /\ Rec(F, 0)
    BY <2>1
  <2>3. \A q \in SUBSET (1..0) : q # {} => Max(q) \in q
    BY <2>1, Zenon
  <2>4. 0 \in 0..n
    OBVIOUS
  <2> HIDE DEF F, Rec
  <2> QED
    BY <2>2, <2>3, <2>4, Zenon
<1>2. ASSUME NEW m \in 0..(n - 1), m \in S PROVE m + 1 \in S
  <2>0. m \in Nat /\ m + 1 \in 1..n
    OBVIOUS
  <2>1. PICK F \in [SUBSET (1..m) -> B] : Rec(F, m)
    BY <1>2, Zenon
  <2>2. \A q \in SUBSET (1..(m + 1)) : m + 1 \notin q => q \in SUBSET (1..m)
    BY <2>0
  <2>3. \A q \in SUBSET (1..(m + 1)) : q \ {m + 1} \in SUBSET (1..m)
    BY <2>0
  <2>4. ASSUME NEW q \in SUBSET (1..(m + 1)), m + 1 \in q PROVE Max(q) = m + 1
    <3>1. \A y \in q : m + 1 >= y
      BY <2>0
    <3>2. \A x \in q : (\A y \in q : x >= y) => x = m + 1
      BY <2>0, <2>4
    <3> QED
      BY <2>4, <3>1, <3>2, Zenon DEF Max
  <2> DEFINE G == [q \in SUBSET (1..(m + 1)) |->
                     IF m + 1 \in q THEN step[<<m + 1, F[q \ {m + 1}]>>] ELSE F[q]]
  <2>5. G \in [SUBSET (1..(m + 1)) -> B]
    <3> SUFFICES ASSUME NEW q \in SUBSET (1..(m + 1))
                 PROVE  (IF m + 1 \in q THEN step[<<m + 1, F[q \ {m + 1}]>>] ELSE F[q]) \in B
      OBVIOUS
    <3>1. CASE m + 1 \in q
      <4>1. F[q \ {m + 1}] \in B
        BY <2>3
      <4>2. <<m + 1, F[q \ {m + 1}]>> \in (1..n) \X B
        BY <2>0, <4>1
      <4> QED
        BY <3>1, <4>2
    <3>2. CASE m + 1 \notin q
      BY <2>2, <3>2
    <3> QED
      BY <3>1, <3>2
  <2>6. ASSUME NEW q \in SUBSET (1..(m + 1))
        PROVE  /\ q # {} => Max(q) \in q
               /\ G[q] = IF q = {} THEN base ELSE step[<<Max(q), G[q \ {Max(q)}]>>]
    <3>1. CASE m + 1 \in q
      <4>1. Max(q) = m + 1 /\ q # {}
        BY <2>4, <3>1
      <4>2. q \ {m + 1} \in SUBSET (1..(m + 1)) /\ m + 1 \notin q \ {m + 1}
        OBVIOUS
      <4>3. G[q \ {m + 1}] = F[q \ {m + 1}]
        BY <4>2
      <4>4. G[q] = step[<<m + 1, F[q \ {m + 1}]>>]
        BY <3>1
      <4> HIDE DEF G
      <4> QED
        BY <3>1, <4>1, <4>3, <4>4
    <3>2. CASE m + 1 \notin q
      <4>1. q \in SUBSET (1..m)
        BY <2>2, <3>2
      <4>2. q # {} => Max(q) \in q
        BY <1>2, <4>1
      <4>3. F[q] = IF q = {} THEN base ELSE step[<<Max(q), F[q \ {Max(q)}]>>]
        BY <2>1, <4>1, Zenon
      <4>4. /\ q \ {Max(q)} \in SUBSET (1..(m + 1))
            /\ m + 1 \notin q \ {Max(q)}
        BY <3>2, Zenon
      <4>5. G[q] = F[q] /\ G[q \ {Max(q)}] = F[q \ {Max(q)}]
        BY <3>2, <4>4
      <4> HIDE DEF G
      <4> QED
        BY <4>2, <4>3, <4>5
    <3> QED
      BY <3>1, <3>2
  <2>7. Rec(G, m + 1)
    BY <2>6, Zenon
  <2>8. \A q \in SUBSET (1..(m + 1)) : q # {} => Max(q) \in q
    BY <2>6, Zenon
  <2>9. m + 1 \in 0..n
    BY <2>0
  <2> HIDE DEF G, Rec
  <2> QED
    BY <2>5, <2>7, <2>8, <2>9
<1> HIDE DEF S
<1>3. \A i \in 0..n : i \in S
  BY <1>1, <1>2, Induction
<1>4. n \in S
  BY <1>3
<1>5. PICK F \in [SUBSET (1..n) -> B] : Rec(F, n)
  BY <1>4, Zenon DEF S
<1>6. Folded(F, base, step, n)
  BY <1>5, Zenon DEF Folded
<1>7. HasMax(n)
  BY <1>4 DEF S, HasMax
<1> QED
  BY <1>5, <1>6, <1>7

(* g collects the first n elements of s, as FlattenSeq does it. *)
Chained(g, s, n) ==
  \A i \in 1..n : g[i] = IF i = 1 THEN s[i] ELSE g[i - 1] \o s[i]

(* s and t have the same first n elements. *)
Agree(s, t, n) == \A i \in 1..n : s[i] = t[i]

(* Two functions that obey the same recursion over a list are equal. *)
LEMMA ChainUnique ==
  ASSUME NEW n \in Nat, NEW s, NEW t, NEW g, NEW h,
         Agree(s, t, n), Chained(g, s, n), Chained(h, t, n)
  PROVE  Agree(g, h, n)
<1> DEFINE E == {i \in 0..n : i = 0 \/ g[i] = h[i]}
<1>1. 0 \in E
  OBVIOUS
<1>2. ASSUME NEW i \in 0..(n - 1), i \in E PROVE i + 1 \in E
  <2>1. i + 1 \in 1..n /\ i + 1 \in 0..n
    OBVIOUS
  <2>2. /\ g[i + 1] = IF i + 1 = 1 THEN s[i + 1] ELSE g[(i + 1) - 1] \o s[i + 1]
        /\ h[i + 1] = IF i + 1 = 1 THEN s[i + 1] ELSE h[(i + 1) - 1] \o s[i + 1]
    BY <2>1 DEF Chained, Agree
  <2>3. (i + 1) - 1 = i /\ (i + 1 # 1 => i # 0)
    OBVIOUS
  <2> QED
    BY <1>2, <2>1, <2>2, <2>3
<1> HIDE DEF E
<1>3. \A i \in 0..n : i \in E
  BY <1>1, <1>2, Induction
<1> QED
  BY <1>3 DEF E, Agree

(* FlattenSeq collects its argument from the left. *)
LEMMA FlattenRec ==
  ASSUME NEW B, NEW s \in Seq(Seq(B)), s # <<>>
  PROVE  \E g \in [1..Len(s) -> Seq(B)] :
           Chained(g, s, Len(s)) /\ FlattenSeq(s) = g[Len(s)]
<1> DEFINE n == Len(s)
           S == {m \in 0..n : \E g \in [1..m -> Seq(B)] : Chained(g, s, m)}
<1>0. n \in Nat \ {0} /\ \A i \in 1..n : s[i] \in Seq(B)
  OBVIOUS
<1>1. 0 \in S
  <2> DEFINE g == [i \in 1..0 |-> <<>>]
  <2>1. g \in [1..0 -> Seq(B)] /\ Chained(g, s, 0) /\ 0 \in 0..n
    BY <1>0 DEF Chained
  <2> HIDE DEF g
  <2> QED
    BY <2>1, Zenon
<1>2. ASSUME NEW m \in 0..(n - 1), m \in S PROVE m + 1 \in S
  <2>0. m \in Nat /\ m + 1 \in 0..n
    BY <1>0
  <2>1. PICK g \in [1..m -> Seq(B)] : Chained(g, s, m)
    BY <1>2
  <2> DEFINE x == IF m = 0 THEN s[1] ELSE g[m] \o s[m + 1]
             h == [i \in 1..(m + 1) |-> IF i = m + 1 THEN x ELSE g[i]]
  <2>2. x \in Seq(B)
    <3>1. CASE m = 0
      BY <1>0, <3>1
    <3>2. CASE m # 0
      <4>1. g[m] \in Seq(B) /\ s[m + 1] \in Seq(B)
        BY <1>0, <2>0, <3>2
      <4>2. g[m] \o s[m + 1] \in Seq(B)
        BY <4>1, ConcatProperties
      <4> QED
        BY <3>2, <4>2
    <3> QED
      BY <3>1, <3>2
  <2>3. h \in [1..(m + 1) -> Seq(B)]
    <3>1. \A i \in 1..(m + 1) : i = m + 1 \/ g[i] \in Seq(B)
      BY <2>0
    <3> HIDE DEF x
    <3> QED
      BY <2>2, <3>1
  <2>4. Chained(h, s, m + 1)
    <3> SUFFICES ASSUME NEW i \in 1..(m + 1)
                 PROVE  h[i] = IF i = 1 THEN s[i] ELSE h[i - 1] \o s[i]
      BY Zenon DEF Chained
    <3>1. CASE i = m + 1
      <4>1. h[i] = x
        BY <2>0, <3>1
      <4>2. i # 1 => h[i - 1] = g[m]
        BY <2>0, <3>1
      <4> HIDE DEF h
      <4> QED
        BY <2>0, <3>1, <4>1, <4>2
    <3>2. CASE i # m + 1
      <4>1. i \in 1..m /\ h[i] = g[i]
        BY <2>0, <3>2
      <4>2. i # 1 => h[i - 1] = g[i - 1]
        BY <2>0, <3>2
      <4>3. g[i] = IF i = 1 THEN s[i] ELSE g[i - 1] \o s[i]
        BY <2>1, <4>1, Zenon DEF Chained
      <4> HIDE DEF h
      <4> QED
        BY <4>1, <4>2, <4>3
    <3> QED
      BY <3>1, <3>2
  <2> HIDE DEF h
  <2> QED
    BY <2>0, <2>3, <2>4
<1> HIDE DEF S
<1>3. n \in S
  <2>1. \A i \in 0..n : i \in S
    BY <1>0, <1>1, <1>2, Induction, Zenon
  <2> QED
    BY <1>0, <2>1
<1>4. PICK g \in [1..n -> Seq(B)] : Chained(g, s, n)
  BY <1>3 DEF S
<1>5. g = [i \in 1..n |-> IF i = 1 THEN s[i] ELSE g[i - 1] \o s[i]]
  BY <1>4, Zenon DEF Chained
<1> DEFINE c == CHOOSE f : f = [i \in 1..n |-> IF i = 1 THEN s[i] ELSE f[i - 1] \o s[i]]
<1>6. FlattenSeq(s) = c[n]
  BY <1>0 DEF FlattenSeq
<1>7. c = [i \in 1..n |-> IF i = 1 THEN s[i] ELSE c[i - 1] \o s[i]]
  BY <1>5, Zenon
<1> HIDE DEF c
<1>8. Chained(c, s, n)
  BY <1>7, Zenon DEF Chained
<1>9. Agree(c, g, n)
  <2>1. Agree(s, s, n)
    BY DEF Agree
  <2> HIDE DEF n
  <2> QED
    BY <1>0, <1>4, <1>8, <2>1, ChainUnique
<1>10. n \in 1..n
  BY <1>0
<1> QED
  BY <1>4, <1>6, <1>9, <1>10 DEF Agree

(* Nothing flattens to nothing. *)
LEMMA FlattenEmpty == FlattenSeq(<<>>) = <<>>
BY DEF FlattenSeq

(* What FlattenSeq returns is a sequence of the elements. *)
LEMMA FlattenType ==
  ASSUME NEW B, NEW s \in Seq(Seq(B))
  PROVE  FlattenSeq(s) \in Seq(B)
<1>1. CASE s = <<>>
  <2>1. <<>> \in Seq(B)
    OBVIOUS
  <2> QED
    BY <1>1, <2>1, FlattenEmpty, Zenon
<1>2. CASE s # <<>>
  <2>1. Len(s) \in 1..Len(s)
    BY <1>2
  <2>2. PICK g \in [1..Len(s) -> Seq(B)] : FlattenSeq(s) = g[Len(s)]
    BY <1>2, FlattenRec
  <2> QED
    BY <2>1, <2>2, Zenon
<1> QED
  BY <1>1, <1>2
=============================================================================
