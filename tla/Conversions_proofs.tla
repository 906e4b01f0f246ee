------------------------- MODULE Conversions_proofs -------------------------
(***************************************************************************)
(* That the two UTF-8 checks of the program accept what they should, for   *)
(* every text, and that the search for H.264 units finds the units of the  *)
(* byte stream, for every stream and every alignment of the buffer, and    *)
(* that the frames of an audio stream are counted as they are.  Each       *)
(* loop is a recursive function over positions, so the proofs first show   *)
(* that a function with that recursion exists, and then compare two of     *)
(* them from the end of the text or stream downwards.                      *)
(***************************************************************************)
EXTENDS Conversions, FoldInduction, SequenceTheorems, FiniteSetTheorems

(* Induction from n down to m, for a set instead of a predicate. *)
LEMMA Descent ==
  ASSUME NEW m \in Nat, NEW n \in Nat, NEW S,
         \A p \in m..n : (\A q \in (p + 1)..n : q \in S) => p \in S
  PROVE  \A p \in m..n : p \in S
<1> DEFINE T == {i \in 0..n : n - i \in m..n /\ n - i \notin S}
<1> SUFFICES ASSUME NEW x \in m..n, x \notin S PROVE FALSE
  OBVIOUS
<1>1. T \in SUBSET Nat /\ n - x \in T
  <2>1. n - (n - x) = x /\ n - x \in 0..n
    OBVIOUS
  <2> QED
    BY <2>1
<1>2. PICK i \in T : \A j \in T : i <= j
  <2>1. T # {}
    BY <1>1
  <2> HIDE DEF T
  <2> QED
    BY <1>1, <2>1, NatMin
<1>3. i \in 0..n /\ n - i \in m..n /\ n - i \notin S
  BY <1>2
<1>4. ASSUME NEW q \in ((n - i) + 1)..n PROVE q \in S
  <2>1. n - q \in 0..n /\ n - (n - q) = q /\ q \in m..n /\ n - q < i
    BY <1>3
  <2>2. n - q \notin T
    <3> HIDE DEF T
    <3> QED
      BY <1>2, <1>3, <2>1
  <2> QED
    BY <2>1, <2>2
<1> QED
  BY <1>3, <1>4

(* Whether the end of a text of n symbols can be reached from a position,  *)
(* by steps that lead on to next: there is a function that says it.        *)
LEMMA ReachExists ==
  ASSUME NEW n \in Nat, NEW next \in [1..n -> SUBSET (1..(n + 1))]
  PROVE  \E f \in [1..(n + 1) -> BOOLEAN] :
           /\ f[n + 1]
           /\ \A p \in 1..n : f[p] <=> \E q \in next[p] : f[q]
<1> DEFINE P == 1..(n + 1)
           Closed(X) == /\ X \in SUBSET P /\ n + 1 \in X
                        /\ \A p \in 1..n : (\E q \in next[p] : q \in X) => p \in X
           M == {p \in P : \A X \in SUBSET P : Closed(X) => p \in X}
           f == [p \in P |-> p \in M]
<1>0. n + 1 \in P /\ \A p \in 1..n : p \in P /\ next[p] \in SUBSET P /\ p # n + 1
  OBVIOUS
<1>1. Closed(M)
  <2>1. M \in SUBSET P /\ n + 1 \in M
    BY <1>0, Zenon
  <2>2. ASSUME NEW p \in 1..n, NEW q \in next[p], q \in M PROVE p \in M
    <3> SUFFICES ASSUME NEW X \in SUBSET P, Closed(X) PROVE p \in X
      BY <1>0, Zenon
    <3>1. q \in X
      BY <2>2, Zenon
    <3> QED
      BY <3>1, Zenon
  <2> HIDE DEF M
  <2> QED
    BY <2>1, <2>2, Zenon
<1>2. ASSUME NEW p \in 1..n, p \in M PROVE \E q \in next[p] : q \in M
  <2> SUFFICES ASSUME \A q \in next[p] : q \notin M PROVE FALSE
    BY Zenon
  <2> DEFINE X == M \ {p}
  <2>1. Closed(X)
    <3>1. X \in SUBSET P /\ n + 1 \in X
      BY <1>0, <1>1, Zenon
    <3>2. ASSUME NEW r \in 1..n, NEW q \in next[r], q \in X PROVE r \in X
      <4>1. q \in M /\ r \in M
        <5> HIDE DEF M
        <5> QED
          BY <1>1, <3>2, Zenon
      <4>2. r # p
        BY <4>1, Zenon
      <4> QED
        BY <4>1, <4>2, Zenon
    <3> HIDE DEF X
    <3> QED
      BY <3>1, <3>2, Zenon
  <2>2. p \in X
    <3>1. X \in SUBSET P
      OBVIOUS
    <3> HIDE DEF X, Closed
    <3> QED
      BY <1>2, <2>1, <3>1, Zenon
  <2> QED
    BY <2>2
<1>3. f \in [P -> BOOLEAN] /\ f[n + 1]
  <2>1. n + 1 \in M
    <3> HIDE DEF M
    <3> QED
      BY <1>1, Zenon
  <2>2. \A p \in P : (p \in M) \in BOOLEAN
    OBVIOUS
  <2> HIDE DEF M, P
  <2>3. f[n + 1]
    BY <1>0, <2>1, Zenon
  <2>4. f \in [P -> BOOLEAN]
    BY <2>2
  <2> QED
    BY <2>3, <2>4
<1>4. ASSUME NEW p \in 1..n PROVE f[p] <=> \E q \in next[p] : f[q]
  <2>1. f[p] <=> p \in M
    BY <1>0, Zenon
  <2>2. \A q \in next[p] : f[q] <=> q \in M
    BY <1>0, Zenon
  <2>3. p \in M <=> \E q \in next[p] : q \in M
    <3> HIDE DEF M
    <3> QED
      BY <1>1, <1>2, Zenon
  <2> HIDE DEF f, M
  <2> QED
    BY <2>1, <2>2, <2>3, Zenon
<1> HIDE DEF f, P
<1> QED
  BY <1>3, <1>4, Zenon DEF P

Byte == 0..255

LEMMA ByteInt == \A x \in Byte : x \in Int /\ x >= 0 /\ x <= 255
  BY DEF Byte

(* What the fold of Codepoint computes, step by step. *)
LEMMA CodepointSteps ==
  ASSUME NEW s \in Seq(Int), NEW b \in Int
  PROVE  \E g \in [0..Len(s) -> Int] :
           /\ g[0] = b
           /\ \A i \in 1..Len(s) : g[i] = g[i - 1] * 64 + s[i] - 128
           /\ FoldLeft(LAMBDA v, x : v * 64 + x - 128, b, s) = g[Len(s)]
<1> DEFINE n == Len(s)
           Op(v, x) == v * 64 + x - 128
           step == [z \in (1..n) \X Int |-> Op(z[2], s[z[1]])]
<1>1. n \in Nat /\ DOMAIN s = 1..n /\ \A i \in 1..n : s[i] \in Int
  OBVIOUS
<1>0. \A v, x \in Int : Op(v, x) \in Int
  OBVIOUS
<1> HIDE DEF n
<1>2. step \in [(1..n) \X Int -> Int]
  <2> SUFFICES ASSUME NEW z \in (1..n) \X Int PROVE Op(z[2], s[z[1]]) \in Int
    OBVIOUS
  <2>1. z[2] \in Int /\ s[z[1]] \in Int
    BY <1>1
  <2> QED
    BY <1>0, <2>1, Zenon
<1>3. HasMax(n) /\ \E F \in [SUBSET (1..n) -> Int] : Folded(F, b, step, n)
  <2> HIDE DEF step
  <2> QED
    BY <1>1, <1>2, FoldExists, Zenon
<1>4. PICK F \in [SUBSET (1..n) -> Int] : Folded(F, b, step, n)
  BY <1>3, Zenon
<1> DEFINE R(f) == f = [q \in SUBSET (1..n) |-> IF q = {} THEN b
                          ELSE Op(f[q \ {Max(q)}], s[Max(q)])]
           c == CHOOSE f : R(f)
<1>5. R(F)
  <2> HIDE DEF Op
  <2> SUFFICES ASSUME NEW q \in SUBSET (1..n)
               PROVE  F[q] = IF q = {} THEN b ELSE Op(F[q \ {Max(q)}], s[Max(q)])
    BY Zenon
  <2>1. CASE q = {}
    BY <1>4, <2>1, Zenon DEF Folded
  <2>2. CASE q # {}
    <3>1. F[q] = step[<<Max(q), F[q \ {Max(q)}]>>]
      BY <1>4, <2>2, Zenon DEF Folded
    <3>2. Max(q) \in 1..n /\ F[q \ {Max(q)}] \in Int
      BY <1>3, <2>2, Zenon DEF HasMax
    <3>3. <<Max(q), F[q \ {Max(q)}]>> \in (1..n) \X Int
      BY <3>2
    <3> QED
      BY <2>2, <3>1, <3>3, Zenon
  <2> QED
    BY <2>1, <2>2
<1>6. FoldLeft(LAMBDA v, x : v * 64 + x - 128, b, s) = c[1..n]
  BY <1>1 DEF FoldLeft, MapThenFoldSet
<1>7. R(c)
  <2> HIDE DEF R
  <2> QED
    BY <1>5
<1> DEFINE g == [i \in 0..n |-> c[1..i]]
<1>8. c[1..0] = b
  <2>1. 1..0 = {}
    OBVIOUS
  <2> HIDE DEF c
  <2> QED
    BY <1>7, <2>1
<1>9. ASSUME NEW i \in 1..n PROVE c[1..i] = Op(c[1..(i - 1)], s[i])
  <2>0. i \in Nat \ {0} /\ i <= n
    BY <1>1
  <2>1. 1..i \in SUBSET (1..n) /\ i \in 1..i /\ (1..i) \ {i} = 1..(i - 1)
    BY <1>1, <2>0
  <2>2. Max(1..i) = i
    BY <1>1 DEF Max
  <2> DEFINE q == 1..i
  <2> HIDE DEF Op, c
  <2>3. c[q] = Op(c[q \ {Max(q)}], s[Max(q)])
    <3> HIDE DEF q
    <3>1. q \in SUBSET (1..n) /\ q # {}
      BY <2>1 DEF q
    <3> QED
      BY <1>7, <3>1, Zenon
  <2> QED
    BY <2>1, <2>2, <2>3, Zenon
<1> HIDE DEF c, R
<1>10. \A i \in 0..n : i \in {j \in 0..n : c[1..j] \in Int}
  <2> DEFINE S == {j \in 0..n : c[1..j] \in Int}
  <2>1. 0 \in S
    BY <1>1, <1>8
  <2>2. ASSUME NEW i \in 0..(n - 1), i \in S PROVE i + 1 \in S
    <3>1. i + 1 \in 1..n /\ (i + 1) - 1 = i /\ i + 1 \in 0..n
      BY <1>1
    <3>2. c[1..(i + 1)] = Op(c[1..i], s[i + 1])
      <4> HIDE DEF Op
      <4> QED
        BY <1>9, <3>1
    <3>3. c[1..i] \in Int /\ s[i + 1] \in Int
      BY <1>1, <2>2, <3>1
    <3> HIDE DEF Op
    <3> QED
      BY <1>0, <3>1, <3>2, <3>3
  <2> HIDE DEF S
  <2>3. \A i \in 0..n : i \in S
    BY <1>1, <2>1, <2>2, Induction
  <2> QED
    BY <2>3 DEF S
<1>11. g \in [0..n -> Int] /\ g[0] = b /\ c[1..n] = g[n]
  BY <1>1, <1>8, <1>10
<1>12. \A i \in 1..n : g[i] = Op(g[i - 1], s[i])
  <2> SUFFICES ASSUME NEW i \in 1..n PROVE g[i] = Op(g[i - 1], s[i])
    OBVIOUS
  <2>1. i \in 0..n /\ i - 1 \in 0..n
    BY <1>1
  <2>2. g[i] = c[1..i] /\ g[i - 1] = c[1..(i - 1)]
    BY <2>1
  <2> HIDE DEF g, Op
  <2> QED
    BY <1>9, <2>2
<1> HIDE DEF g
<1> QED
  BY <1>6, <1>11, <1>12 DEF n

(* The number of a character of two, three or four bytes. *)
LEMMA CodepointOf ==
  ASSUME NEW c \in Seq(Byte)
  PROVE  /\ Len(c) = 1 => Codepoint(c) = c[1]
         /\ Len(c) = 2 => Codepoint(c) = (c[1] % 32) * 64 + c[2] - 128
         /\ Len(c) = 3 => Codepoint(c) = ((c[1] % 16) * 64 + c[2] - 128) * 64 + c[3] - 128
         /\ Len(c) = 4 => Codepoint(c) = (((c[1] % 8) * 64 + c[2] - 128) * 64
                                            + c[3] - 128) * 64 + c[4] - 128
         /\ Len(c) \in 2..6 => Codepoint(c) \in Int
<1>1. Len(c) = 1 => Codepoint(c) = c[1]
  BY DEF Codepoint
<1>2. ASSUME Len(c) \in 2..6
      PROVE  /\ Len(c) = 2 => Codepoint(c) = (c[1] % 32) * 64 + c[2] - 128
             /\ Len(c) = 3 => Codepoint(c) = ((c[1] % 16) * 64 + c[2] - 128) * 64 + c[3] - 128
             /\ Len(c) = 4 => Codepoint(c) = (((c[1] % 8) * 64 + c[2] - 128) * 64
                                            + c[3] - 128) * 64 + c[4] - 128
             /\ Codepoint(c) \in Int
  <2> DEFINE n == Len(c)
             b == c[1] % 2^(7 - n)
             t == Tail(c)
  <2>0. n \in 2..6 /\ \A i \in 1..n : c[i] \in Int
    BY <1>2, ByteInt
  <2>1. /\ t \in Seq(Int) /\ Len(t) = n - 1
        /\ \A i \in 1..(n - 1) : t[i] = c[i + 1]
    <3>1. c # <<>>
      BY <1>2
    <3>2. Len(t) = n - 1 /\ \A i \in 1..(n - 1) : t[i] = c[i + 1]
      BY <3>1
    <3>3. t \in Seq(Byte)
      BY <3>1
    <3> QED
      BY <3>2, <3>3, ByteInt
  <2>2. /\ n = 2 => b = c[1] % 32
        /\ n = 3 => b = c[1] % 16
        /\ n = 4 => b = c[1] % 8
        /\ n = 5 => b = c[1] % 4
        /\ n = 6 => b = c[1] % 2
    <3>1. 2^5 = 32 /\ 2^4 = 16 /\ 2^3 = 8 /\ 2^2 = 4 /\ 2^1 = 2
      OBVIOUS
    <3>2. 7 - 2 = 5 /\ 7 - 3 = 4 /\ 7 - 4 = 3 /\ 7 - 5 = 2 /\ 7 - 6 = 1
      OBVIOUS
    <3> HIDE DEF n
    <3> QED
      BY <3>1, <3>2, Zenon
  <2>4. Codepoint(c) = FoldLeft(LAMBDA v, x : v * 64 + x - 128, b, t)
    <3>1. n # 1
      BY <1>2
    <3> QED
      BY <3>1 DEF Codepoint
  <2> HIDE DEF b, t, n
  <2>3. b \in Int
    BY <2>0, <2>2
  <2>5. PICK g \in [0..Len(t) -> Int] :
           /\ g[0] = b
           /\ \A i \in 1..Len(t) : g[i] = g[i - 1] * 64 + t[i] - 128
           /\ FoldLeft(LAMBDA v, x : v * 64 + x - 128, b, t) = g[Len(t)]
    BY <2>1, <2>3, CodepointSteps, ZenonT(60)
  <2>6. Codepoint(c) = g[n - 1] /\ g[0] = b
    BY <2>1, <2>4, <2>5
  <2>7. g[n - 1] \in Int
    <3>1. n - 1 \in 0..Len(t)
      BY <2>0, <2>1
    <3> QED
      BY <2>5, <3>1
  <2>8. \A i \in 1..(n - 1) : g[i] = g[i - 1] * 64 + c[i + 1] - 128
    BY <2>1, <2>5, ZenonT(60)
  <2>9. n = 2 => g[1] = b * 64 + c[2] - 128
    BY <2>6, <2>8
  <2>10. n = 3 => g[1] = b * 64 + c[2] - 128 /\ g[2] = g[1] * 64 + c[3] - 128
    BY <2>6, <2>8
  <2>11. n = 4 => /\ g[1] = b * 64 + c[2] - 128 /\ g[2] = g[1] * 64 + c[3] - 128
                  /\ g[3] = g[2] * 64 + c[4] - 128
    BY <2>6, <2>8
  <2>12. n = 2 => Codepoint(c) = (c[1] % 32) * 64 + c[2] - 128
    BY <2>2, <2>6, <2>9
  <2>13. n = 3 => Codepoint(c) = ((c[1] % 16) * 64 + c[2] - 128) * 64 + c[3] - 128
    BY <2>2, <2>6, <2>10
  <2>14. n = 4 => Codepoint(c) = (((c[1] % 8) * 64 + c[2] - 128) * 64
                                   + c[3] - 128) * 64 + c[4] - 128
    BY <2>2, <2>6, <2>11
  <2> QED
    BY <2>6, <2>7, <2>12, <2>13, <2>14, Zenon DEF n
<1> QED
  BY <1>1, <1>2

(* What CharOk asks of the number of a character. *)
Accepted(v, least) ==
  v >= least /\ v < 1114112 /\ v # 65534 /\ v \notin 55296..57343

LEMMA CharOkParts ==
  ASSUME NEW c
  PROVE  CharOk(c) <=> /\ ~Continues(c[1]) /\ c[1] < 254
                       /\ Len(c) = Asked(c[1]) /\ \A i \in 2..Len(c) : Continues(c[i])
                       /\ Accepted(Codepoint(c), Shortest(Len(c)))
  BY SMT DEF CharOk, Accepted

LEMMA ShortestOf == Shortest(1) = 0 /\ Shortest(2) = 128 /\ Shortest(3) = 2048
  BY SMT DEF Shortest

LEMMA ShortestLong ==
  Shortest(4) = 65536 /\ Shortest(5) = 2097152 /\ Shortest(6) = 67108864
  BY SMT DEF Shortest

(* The first byte of a character of one to four bytes. *)
LEMMA FirstByte ==
  ASSUME NEW x \in Byte
  PROVE  /\ Asked(x) \in 1..6
         /\ Asked(x) = 1 /\ ~Continues(x) <=> x \in 0..127
         /\ Asked(x) = 2 /\ ~Continues(x) <=> x \in 192..223
         /\ Asked(x) = 3 /\ ~Continues(x) <=> x \in 224..239
         /\ Asked(x) = 4 /\ ~Continues(x) <=> x \in 240..247
<1>1. x \in Int /\ x >= 0 /\ x <= 255
  BY ByteInt
<1> QED
  BY <1>1 DEF Asked, Continues

(* A character of one to four bytes, as Unicode's table has it, is one     *)
(* whose bits make up a number of the range that needs that many bytes and *)
(* is no surrogate.                                                        *)
Two(a, b) == (a % 32) * 64 + b - 128
Three(a, b, d) == ((a % 16) * 64 + b - 128) * 64 + d - 128
Four(a, b, d, e) == (((a % 8) * 64 + b - 128) * 64 + d - 128) * 64 + e - 128

(* The rows of the table for three and four bytes. *)
ThreeRow(a, b) ==
  \/ a = 224 /\ b \in 160..191
  \/ a \in 225..236 /\ b \in 128..191
  \/ a = 237 /\ b \in 128..159
  \/ a \in 238..239 /\ b \in 128..191

IsFFFE(a, b, d) == a = 239 /\ b = 191 /\ d = 190

FourRow(a, b) ==
  \/ a = 240 /\ b \in 144..191
  \/ a \in 241..243 /\ b \in 128..191
  \/ a = 244 /\ b \in 128..143

LEMMA OneByte ==
  ASSUME NEW a \in 0..127
  PROVE  a < 254 /\ Accepted(a, Shortest(1))
  BY ShortestOf, SMTT(30) DEF Accepted

LEMMA TwoBytes ==
  ASSUME NEW a \in 192..223, NEW b \in 128..191
  PROVE  Accepted(Two(a, b), Shortest(2)) <=> a \in 194..223
<1>1. a % 32 = a - 192
  OBVIOUS
<1> QED
  BY <1>1, ShortestOf, ShortestLong, SMTT(30)
  DEF Accepted, Two, Three, Four, ThreeRow, FourRow, IsFFFE

LEMMA ThreeBytes ==
  ASSUME NEW a \in 224..239, NEW b \in 128..191, NEW d \in 128..191
  PROVE  Accepted(Three(a, b, d), Shortest(3))
           <=> ThreeRow(a, b) /\ ~IsFFFE(a, b, d)
<1>1. a % 16 = a - 224
  OBVIOUS
<1> QED
  BY <1>1, ShortestOf, ShortestLong, SMTT(30)
  DEF Accepted, Two, Three, Four, ThreeRow, FourRow, IsFFFE

LEMMA FourBytes ==
  ASSUME NEW a \in 240..247, NEW b \in 128..191, NEW d \in 128..191, NEW e \in 128..191
  PROVE  Accepted(Four(a, b, d, e), Shortest(4))
           <=> FourRow(a, b)
<1> DEFINE n == 262144 * (a - 240) + 4096 * (b - 128) + 64 * (d - 128) + (e - 128)
<1>0. /\ a \in Int /\ a >= 240 /\ a <= 247 /\ b \in Int /\ b >= 128 /\ b <= 191
      /\ d \in Int /\ d >= 128 /\ d <= 191 /\ e \in Int /\ e >= 128 /\ e <= 191
  OBVIOUS
<1>1. a % 8 = a - 240
  BY <1>0
<1>2. Four(a, b, d, e) = n
  BY <1>0, <1>1, SMTT(30) DEF Four
<1>3. n \in Int /\ (n >= 65536 /\ n <= 1114111 <=> FourRow(a, b))
  BY <1>0, SMTT(30) DEF FourRow
<1> HIDE DEF n
<1> QED
  BY <1>2, <1>3, ShortestLong, SMTT(30) DEF Accepted

(* A round of the loop of is_utf8_chars accepts the characters of the      *)
(* table, U+FFFE excepted.                                                 *)
LEMMA CharChecked ==
  ASSUME NEW c \in Seq(Byte), Len(c) >= 1
  PROVE  /\ CharOk(c) <=> WellFormedChar(c) /\ c # <<239, 191, 190>>
         /\ WellFormedChar(c) => /\ Len(c) = Asked(c[1]) /\ Len(c) \in 1..4
                                 /\ \A i \in 2..Len(c) : Continues(c[i])
<1> DEFINE n == Len(c)
           a == c[1]
           b == c[2]
           d == c[3]
           e == c[4]
           v == Codepoint(c)
           FFFE == <<239, 191, 190>>
           Rest == \A i \in 2..n : Continues(c[i])
           Ok == /\ ~Continues(a) /\ a < 254 /\ n = Asked(a) /\ Rest
                 /\ Accepted(v, Shortest(n))
<1>1. n \in Nat /\ n >= 1 /\ \A i \in 1..n : c[i] \in Byte
  OBVIOUS
<1>2. CharOk(c) <=> Ok
  BY CharOkParts, Zenon
<1>3. a \in Byte
  BY <1>1
<1>4. \A x : Continues(x) <=> x \in 128..191
  BY Zenon DEF Continues
<1>5. SUFFICES /\ Ok <=> WellFormedChar(c) /\ c # FFFE
               /\ WellFormedChar(c) => n = Asked(a) /\ n \in 1..4 /\ Rest
  BY <1>2, Zenon
<1>6. CASE n = 1
  <2>1. c # FFFE /\ Rest
    BY <1>6
  <2>2. v = a
    BY <1>6, CodepointOf
  <2>3. WellFormedChar(c) <=> a \in 0..127
    BY <1>6 DEF WellFormedChar
  <2>4. a \in 0..127 => a < 254 /\ Accepted(a, Shortest(1))
    <3> HIDE DEF a
    <3> QED
      BY OneByte, Zenon
  <2>5. Ok <=> ~Continues(a) /\ a < 254 /\ Asked(a) = 1 /\ Accepted(a, Shortest(1))
    <3> HIDE DEF a, Rest, n
    <3> QED
      BY <1>6, <2>1, <2>2, Zenon
  <2>6. Asked(a) = 1 /\ ~Continues(a) <=> a \in 0..127
    <3> HIDE DEF a
    <3> QED
      BY <1>3, FirstByte
  <2>7. Ok <=> a \in 0..127
    <3> HIDE DEF a, Ok
    <3> QED
      BY <2>4, <2>5, <2>6, Zenon
  <2>8. n \in 1..4
    BY <1>6
  <2> HIDE DEF a, Ok, n, Rest
  <2> QED
    BY <1>6, <2>1, <2>3, <2>6, <2>7, <2>8, Zenon
<1>7. CASE n = 2
  <2>1. c # FFFE /\ b \in Byte /\ n \in 1..4
    BY <1>1, <1>7
  <2>2. v = Two(a, b)
    BY <1>7, CodepointOf DEF Two
  <2>3. WellFormedChar(c) <=> a \in 194..223 /\ b \in 128..191
    BY <1>7 DEF WellFormedChar
  <2>4. Rest <=> b \in 128..191
    BY <1>4, <1>7
  <2> HIDE DEF a, b, n, v, Rest, FFFE
  <2>5. Ok <=> /\ ~Continues(a) /\ a < 254 /\ Asked(a) = 2 /\ b \in 128..191
               /\ Accepted(v, Shortest(2))
    BY <1>7, <2>2, <2>4, Zenon
  <2>6. Asked(a) = 2 /\ ~Continues(a) <=> a \in 192..223
    BY <1>3, FirstByte
  <2>7. a \in 192..223 => a < 254
    OBVIOUS
  <2>8. a \in 194..223 => a \in 192..223
    OBVIOUS
  <2>9. ASSUME a \in 192..223, b \in 128..191
        PROVE  Accepted(v, Shortest(2)) <=> a \in 194..223
    BY <2>2, <2>9, TwoBytes, ZenonT(60)
  <2>10. Ok <=> a \in 194..223 /\ b \in 128..191
    <3> HIDE DEF Ok
    <3> QED
      BY <2>5, <2>6, <2>7, <2>8, <2>9, Zenon
  <2> HIDE DEF Ok
  <2> QED
    BY <1>7, <2>1, <2>3, <2>4, <2>6, <2>8, <2>10, Zenon
<1>8. CASE n = 3
  <2> DEFINE Row == ThreeRow(a, b)
  <2>1. (c = FFFE <=> IsFFFE(a, b, d)) /\ n \in 1..4
    BY <1>1, <1>8 DEF IsFFFE
  <2>2. v = Three(a, b, d)
    BY <1>8, CodepointOf DEF Three
  <2>3. WellFormedChar(c) <=> Row /\ d \in 128..191
    <3>1. n # 1 /\ n # 2 /\ n # 4
      BY <1>8
    <3> QED
      BY <1>8, <3>1, Zenon DEF WellFormedChar, ThreeRow
  <2>4. Rest <=> b \in 128..191 /\ d \in 128..191
    BY <1>4, <1>8
  <2> HIDE DEF a, b, d, n, v, Rest, FFFE
  <2>5. Ok <=> /\ ~Continues(a) /\ a < 254 /\ Asked(a) = 3
               /\ b \in 128..191 /\ d \in 128..191
               /\ Accepted(v, Shortest(3))
    BY <1>8, <2>2, <2>4, Zenon
  <2>6. Asked(a) = 3 /\ ~Continues(a) <=> a \in 224..239
    BY <1>3, FirstByte
  <2>7. a \in 224..239 => a < 254
    OBVIOUS
  <2>8. Row => a \in 224..239 /\ b \in 128..191
    BY DEF ThreeRow
  <2>9. ASSUME a \in 224..239, b \in 128..191, d \in 128..191
        PROVE  Accepted(v, Shortest(3))
                 <=> ~IsFFFE(a, b, d) /\ Row
    BY <2>2, <2>9, ThreeBytes
  <2> HIDE DEF Row
  <2>10. Ok <=> Row /\ d \in 128..191 /\ ~IsFFFE(a, b, d)
    <3> HIDE DEF Ok
    <3> QED
      BY <2>5, <2>6, <2>7, <2>8, <2>9, Zenon
  <2> HIDE DEF Ok
  <2> QED
    BY <1>8, <2>1, <2>3, <2>4, <2>6, <2>8, <2>10, Zenon
<1>9. CASE n = 4
  <2> DEFINE Row == FourRow(a, b)
  <2>1. c # FFFE /\ n \in 1..4
    BY <1>1, <1>9
  <2>2. v = Four(a, b, d, e)
    BY <1>9, CodepointOf DEF Four
  <2>3. WellFormedChar(c) <=> Row /\ d \in 128..191 /\ e \in 128..191
    <3>1. n # 1 /\ n # 2 /\ n # 3
      BY <1>9
    <3> QED
      BY <1>9, <3>1, Zenon DEF WellFormedChar, FourRow
  <2>4. Rest <=> b \in 128..191 /\ d \in 128..191 /\ e \in 128..191
    BY <1>4, <1>9
  <2> HIDE DEF a, b, d, e, n, v, Rest, FFFE
  <2>5. Ok <=> /\ ~Continues(a) /\ a < 254 /\ Asked(a) = 4
               /\ b \in 128..191 /\ d \in 128..191 /\ e \in 128..191
               /\ Accepted(v, Shortest(4))
    BY <1>9, <2>2, <2>4, Zenon
  <2>6. Asked(a) = 4 /\ ~Continues(a) <=> a \in 240..247
    BY <1>3, FirstByte
  <2>7. a \in 240..247 => a < 254
    OBVIOUS
  <2>8. Row => a \in 240..247 /\ b \in 128..191
    BY DEF FourRow
  <2>9. ASSUME a \in 240..247, b \in 128..191, d \in 128..191, e \in 128..191
        PROVE  Accepted(v, Shortest(4)) <=> Row
    BY <2>2, <2>9, FourBytes
  <2> HIDE DEF Row
  <2>10. Ok <=> Row /\ d \in 128..191 /\ e \in 128..191
    <3> HIDE DEF Ok
    <3> QED
      BY <2>5, <2>6, <2>7, <2>8, <2>9, Zenon
  <2> HIDE DEF Ok
  <2> QED
    BY <1>9, <2>1, <2>3, <2>4, <2>6, <2>8, <2>10, Zenon
<1>10. CASE n > 4
  <2>1. n # 1 /\ n # 2 /\ n # 3 /\ n # 4
    BY <1>1, <1>10
  <2>2. ~WellFormedChar(c)
    BY <2>1, Zenon DEF WellFormedChar
  <2>3. ASSUME Ok PROVE FALSE
    <3>1. n = Asked(a) /\ Asked(a) \in 1..6
      <4> HIDE DEF a, n, Rest
      <4> QED
        BY <1>3, <2>3, FirstByte, SMTT(30)
    <3>2. n \in 5..6 /\ n \in 2..6
      BY <1>10, <3>1
    <3>3. v \in Int
      BY <3>2, CodepointOf
    <3>4. n = 5 \/ n = 6
      BY <3>2
    <3>5. Accepted(v, Shortest(n))
      BY <2>3, Zenon
    <3> HIDE DEF n, v
    <3>6. Shortest(n) \in Int /\ Shortest(n) >= 2097152
      BY <3>4, ShortestLong, SMT
    <3> QED
      BY <3>3, <3>5, <3>6, SMT DEF Accepted
  <2> HIDE DEF Ok, n
  <2> QED
    BY <2>2, <2>3, Zenon
<1>11. n = 1 \/ n = 2 \/ n = 3 \/ n = 4 \/ n > 4
  <2> HIDE DEF n
  <2> QED
    BY <1>1
<1> HIDE DEF Ok, Rest, a, n, v, FFFE
<1> QED
  BY <1>6, <1>7, <1>8, <1>9, <1>10, <1>11, Zenon

----------------------------------------------------------------------------
(* The character that the loop of is_utf8_chars looks at. *)
LEMMA CharAtOf ==
  ASSUME NEW s \in Seq(Byte), NEW p \in 1..Len(s)
  PROVE  LET c == CharAt(s, p)
             k == Asked(s[p])
         IN  /\ c \in Seq(Byte) /\ Len(c) >= 1 /\ Len(c) <= k /\ p + Len(c) \in (p + 1)..(Len(s) + 1)
             /\ \A i \in 1..Len(c) : c[i] = s[p + i - 1]
             /\ p + k - 1 <= Len(s) => Len(c) = k
             /\ c = SubSeq(s, p, p + Len(c) - 1)
<1> DEFINE n == Len(s)
           k == Asked(s[p])
           e == IF p + k - 1 <= n THEN p + k - 1 ELSE n
           c == CharAt(s, p)
<1>1. n \in Nat /\ p \in Int /\ p >= 1 /\ p <= n /\ s[p] \in Byte
  OBVIOUS
<1>2. k \in Int /\ k >= 1
  <2>1. k \in 1..6
    <3> DEFINE x == s[p]
    <3> HIDE DEF x
    <3> QED
      BY <1>1, FirstByte DEF x
  <2> QED
    BY <2>1
<1>3. c = SubSeq(s, p, e)
  BY Zenon DEF CharAt
<1> HIDE DEF k, c
<1>4. e \in Int /\ e >= p /\ e <= n /\ e <= p + k - 1 /\ (p + k - 1 <= n => e = p + k - 1)
  BY <1>1, <1>2
<1> HIDE DEF e
<1>5. /\ Len(c) = e - p + 1 /\ \A i \in 1..(e - p + 1) : c[i] = s[p + i - 1]
      /\ c \in Seq(Byte)
  BY <1>1, <1>3, <1>4, SubSeqProperties
<1>6. p + Len(c) - 1 = e /\ p + Len(c) \in (p + 1)..(n + 1) /\ Len(c) >= 1 /\ Len(c) <= k
  BY <1>1, <1>2, <1>4, <1>5
<1>7. p + k - 1 <= n => Len(c) = k
  BY <1>1, <1>2, <1>4, <1>5
<1> QED
  BY <1>3, <1>5, <1>6, <1>7 DEF c, k

(* The loop of is_utf8_chars, as a recursion over positions. *)
LEMMA LoopSteps ==
  ASSUME NEW s \in Seq(Byte)
  PROVE  \E f \in [1..(Len(s) + 1) -> BOOLEAN] :
           /\ is_utf8_chars(s) <=> f[1]
           /\ f[Len(s) + 1]
           /\ \A p \in 1..Len(s) :
                f[p] <=> CharOk(CharAt(s, p)) /\ f[p + Len(CharAt(s, p))]
<1> DEFINE n == Len(s)
           To(p) == p + Len(CharAt(s, p))
           next == [p \in 1..n |-> IF CharOk(CharAt(s, p)) THEN {To(p)} ELSE {}]
           Body(f, p) == p > n \/ (CharOk(CharAt(s, p)) /\ f[p + Len(CharAt(s, p))])
           R(f) == f = [p \in 1..(n + 1) |-> Body(f, p)]
           c == CHOOSE f : R(f)
<1>1. n \in Nat
  OBVIOUS
<1>2. \A p \in 1..n : To(p) \in 1..(n + 1)
  <2> SUFFICES ASSUME NEW p \in 1..n PROVE To(p) \in 1..(n + 1)
    BY Zenon
  <2>1. To(p) \in (p + 1)..(n + 1)
    BY CharAtOf
  <2> HIDE DEF To
  <2> QED
    BY <1>1, <2>1
<1>3. is_utf8_chars(s) = c[1]
  BY DEF is_utf8_chars
<1> HIDE DEF n, To
<1>4. next \in [1..n -> SUBSET (1..(n + 1))]
  BY <1>2
<1>5. PICK f \in [1..(n + 1) -> BOOLEAN] :
           /\ f[n + 1]
           /\ \A p \in 1..n : f[p] <=> \E q \in next[p] : f[q]
  <2> HIDE DEF next
  <2> QED
    BY <1>1, <1>4, ReachExists
<1>6. \A p \in 1..n : f[p] <=> CharOk(CharAt(s, p)) /\ f[To(p)]
  BY <1>5, Zenon
<1>7. \A p \in 1..(n + 1) : (p > n <=> p = n + 1) /\ (p # n + 1 => p \in 1..n)
  BY <1>1
<1>8. \A p \in 1..(n + 1) : f[p] <=> Body(f, p)
  BY <1>5, <1>6, <1>7, Zenon DEF To
<1>9. \A p \in 1..(n + 1) : f[p] = Body(f, p)
  <2> SUFFICES ASSUME NEW p \in 1..(n + 1) PROVE f[p] = Body(f, p)
    BY Zenon
  <2>1. f[p] \in BOOLEAN /\ Body(f, p) \in BOOLEAN
    <3>1. f[p] \in BOOLEAN
      BY <1>5
    <3>2. Body(f, p) \in BOOLEAN
      BY Zenon
    <3> QED
      BY <3>1, <3>2
  <2> HIDE DEF Body
  <2> QED
    BY <1>8, <2>1
<1>10. R(f)
  <2> HIDE DEF Body
  <2> QED
    BY <1>9
<1>11. R(c)
  <2> HIDE DEF R
  <2> QED
    BY <1>10
<1> HIDE DEF c
<1>12. \A p \in 1..(n + 1) : c[p] = Body(c, p)
  <2> HIDE DEF Body
  <2> QED
    BY <1>11, Zenon
<1>13. c \in [1..(n + 1) -> BOOLEAN]
  <2>1. \A p \in 1..(n + 1) : Body(c, p) \in BOOLEAN
    BY Zenon
  <2> HIDE DEF Body
  <2> QED
    BY <1>11, <2>1
<1>14. c[n + 1] /\ \A p \in 1..n : c[p] <=> CharOk(CharAt(s, p)) /\ c[To(p)]
  <2>1. n + 1 \in 1..(n + 1) /\ n + 1 > n /\ \A p \in 1..n : p \in 1..(n + 1) /\ ~(p > n)
    BY <1>1
  <2> QED
    BY <1>12, <2>1, Zenon DEF To
<1> QED
  BY <1>3, <1>13, <1>14, Zenon DEF n, To

(* The reference, as a recursion over positions: a character of the table  *)
(* has the length that its first byte asks for, so there is no choice.     *)
LEMMA GoodSteps ==
  ASSUME NEW s \in Seq(Byte)
  PROVE  \E f \in [1..(Len(s) + 1) -> BOOLEAN] :
           /\ WellFormed(s) <=> f[1]
           /\ f[Len(s) + 1]
           /\ \A p \in 1..Len(s) :
                f[p] <=> WellFormedChar(CharAt(s, p)) /\ f[p + Len(CharAt(s, p))]
<1> DEFINE n == Len(s)
           Fits(p, k) == p + k - 1 <= n /\ WellFormedChar(SubSeq(s, p, p + k - 1))
           next == [p \in 1..n |-> {q \in 1..(n + 1) : \E k \in 1..4 : q = p + k /\ Fits(p, k)}]
           Body(f, p) == p > n \/ \E k \in 1..4 :
                           /\ p + k - 1 <= n /\ WellFormedChar(SubSeq(s, p, p + k - 1))
                           /\ f[p + k]
           R(f) == f = [p \in 1..(n + 1) |-> Body(f, p)]
           c == CHOOSE f : R(f)
<1>1. n \in Nat
  OBVIOUS
<1>2. WellFormed(s) = c[1]
  BY DEF WellFormed
<1>3. ASSUME NEW p \in 1..n
      PROVE  LET l == Len(CharAt(s, p)) IN
             /\ \A k \in 1..4 : Fits(p, k) => k = l /\ WellFormedChar(CharAt(s, p))
             /\ WellFormedChar(CharAt(s, p)) => l \in 1..4 /\ Fits(p, l)
  <2> DEFINE d == CharAt(s, p)
             l == Len(d)
  <2>1. /\ d \in Seq(Byte) /\ l >= 1 /\ p + l \in (p + 1)..(n + 1)
        /\ p + Asked(s[p]) - 1 <= n => l = Asked(s[p])
        /\ d = SubSeq(s, p, p + l - 1)
    BY CharAtOf
  <2>2. WellFormedChar(d) => l \in 1..4
    <3> HIDE DEF d
    <3> QED
      BY <2>1, CharChecked
  <2>3. ASSUME NEW k \in 1..4, Fits(p, k) PROVE k = l /\ WellFormedChar(d)
    <3> DEFINE t == SubSeq(s, p, p + k - 1)
    <3>1. t \in Seq(Byte) /\ Len(t) = k /\ t[1] = s[p]
      <4>1. p \in 1..Len(s) /\ p + k - 1 \in p..Len(s)
        BY <2>3
      <4> QED
        BY <4>1, SubSeqProperties
    <3>2. WellFormedChar(t)
      BY <2>3
    <3> HIDE DEF t
    <3>3. k = Asked(s[p])
      BY <3>1, <3>2, CharChecked
    <3> HIDE DEF d
    <3>4. k = l
      BY <2>1, <2>3, <3>3
    <3> QED
      BY <2>1, <3>2, <3>4 DEF t
  <2>4. p + l - 1 <= n
    <3> HIDE DEF d
    <3> QED
      BY <1>1, <2>1
  <2> QED
    BY <2>1, <2>2, <2>3, <2>4, Zenon
<1> HIDE DEF n
<1>4. next \in [1..n -> SUBSET (1..(n + 1))]
  <2> HIDE DEF Fits
  <2> QED
    OBVIOUS
<1>5. PICK f \in [1..(n + 1) -> BOOLEAN] :
           /\ f[n + 1]
           /\ \A p \in 1..n : f[p] <=> \E q \in next[p] : f[q]
  <2> HIDE DEF next
  <2> QED
    BY <1>1, <1>4, ReachExists
<1>6. ASSUME NEW p \in 1..n PROVE f[p] <=> \E k \in 1..4 : Fits(p, k) /\ f[p + k]
  <2>1. \A k \in 1..4 : Fits(p, k) => p + k \in 1..(n + 1)
    <3> SUFFICES ASSUME NEW k \in 1..4, p + k - 1 <= n PROVE p + k \in 1..(n + 1)
      BY Zenon
    <3> QED
      BY <1>1
  <2> HIDE DEF Fits
  <2> QED
    BY <1>5, <2>1, Zenon
<1>7. \A p \in 1..(n + 1) : (p > n <=> p = n + 1) /\ (p # n + 1 => p \in 1..n)
  BY <1>1
<1>8. \A p \in 1..(n + 1) : f[p] <=> Body(f, p)
  BY <1>5, <1>6, <1>7, Zenon
<1>9. \A p \in 1..(n + 1) : f[p] = Body(f, p)
  <2> SUFFICES ASSUME NEW p \in 1..(n + 1) PROVE f[p] = Body(f, p)
    BY Zenon
  <2>1. f[p] \in BOOLEAN /\ Body(f, p) \in BOOLEAN
    <3>1. f[p] \in BOOLEAN
      BY <1>5
    <3>2. Body(f, p) \in BOOLEAN
      BY Zenon
    <3> QED
      BY <3>1, <3>2
  <2> HIDE DEF Body
  <2> QED
    BY <1>8, <2>1
<1>10. R(f)
  <2> HIDE DEF Body
  <2> QED
    BY <1>9
<1>11. R(c)
  <2> HIDE DEF R
  <2> QED
    BY <1>10
<1> HIDE DEF c
<1>12. \A p \in 1..(n + 1) : c[p] = Body(c, p)
  <2> HIDE DEF Body
  <2> QED
    BY <1>11, Zenon
<1>13. c \in [1..(n + 1) -> BOOLEAN]
  <2>1. \A p \in 1..(n + 1) : Body(c, p) \in BOOLEAN
    BY Zenon
  <2> HIDE DEF Body
  <2> QED
    BY <1>11, <2>1
<1>14. c[n + 1] /\ \A p \in 1..n : c[p] <=> \E k \in 1..4 : Fits(p, k) /\ c[p + k]
  <2>1. n + 1 \in 1..(n + 1) /\ n + 1 > n /\ \A p \in 1..n : p \in 1..(n + 1) /\ ~(p > n)
    BY <1>1
  <2> QED
    BY <1>12, <2>1, Zenon
<1>15. ASSUME NEW p \in 1..n
       PROVE  c[p] <=> WellFormedChar(CharAt(s, p)) /\ c[p + Len(CharAt(s, p))]
  <2> HIDE DEF Fits
  <2> QED
    BY <1>3, <1>14, Zenon
<1> QED
  BY <1>2, <1>13, <1>14, <1>15, Zenon DEF n

(* What the fold of is_utf8_str computes, step by step. *)
LEMMA StrSteps ==
  ASSUME NEW s \in Seq(Int)
  PROVE  \E g \in [0..Len(s) -> Int] :
           /\ g[0] = 0
           /\ \A i \in 1..Len(s) : g[i] = Wanted(g[i - 1], s[i])
           /\ FoldLeft(Wanted, 0, s) = g[Len(s)]
<1> DEFINE n == Len(s)
           step == [z \in (1..n) \X Int |-> Wanted(z[2], s[z[1]])]
<1>1. n \in Nat /\ DOMAIN s = 1..n /\ \A i \in 1..n : s[i] \in Int
  OBVIOUS
<1>0. \A v, x \in Int : Wanted(v, x) \in Int
  BY DEF Wanted, Continues
<1> HIDE DEF n
<1>2. step \in [(1..n) \X Int -> Int]
  <2> SUFFICES ASSUME NEW z \in (1..n) \X Int PROVE Wanted(z[2], s[z[1]]) \in Int
    OBVIOUS
  <2>1. z[2] \in Int /\ s[z[1]] \in Int
    BY <1>1
  <2> QED
    BY <1>0, <2>1, Zenon
<1>3. HasMax(n) /\ \E F \in [SUBSET (1..n) -> Int] : Folded(F, 0, step, n)
  <2>1. 0 \in Int
    OBVIOUS
  <2> HIDE DEF step
  <2> QED
    BY <1>1, <1>2, <2>1, FoldExists, Zenon
<1>4. PICK F \in [SUBSET (1..n) -> Int] : Folded(F, 0, step, n)
  BY <1>3, Zenon
<1> DEFINE R(f) == f = [q \in SUBSET (1..n) |-> IF q = {} THEN 0
                          ELSE Wanted(f[q \ {Max(q)}], s[Max(q)])]
           c == CHOOSE f : R(f)
<1>5. R(F)
  <2> SUFFICES ASSUME NEW q \in SUBSET (1..n)
               PROVE  F[q] = IF q = {} THEN 0 ELSE Wanted(F[q \ {Max(q)}], s[Max(q)])
    BY Zenon
  <2>1. CASE q = {}
    BY <1>4, <2>1, Zenon DEF Folded
  <2>2. CASE q # {}
    <3>1. F[q] = step[<<Max(q), F[q \ {Max(q)}]>>]
      BY <1>4, <2>2, Zenon DEF Folded
    <3>2. Max(q) \in 1..n /\ F[q \ {Max(q)}] \in Int
      BY <1>3, <2>2, Zenon DEF HasMax
    <3>3. <<Max(q), F[q \ {Max(q)}]>> \in (1..n) \X Int
      BY <3>2
    <3> QED
      BY <2>2, <3>1, <3>3, Zenon
  <2> QED
    BY <2>1, <2>2
<1>6. FoldLeft(Wanted, 0, s) = c[1..n]
  BY <1>1 DEF FoldLeft, MapThenFoldSet
<1>7. R(c)
  <2> HIDE DEF R
  <2> QED
    BY <1>5
<1> DEFINE g == [i \in 0..n |-> c[1..i]]
<1>8. c[1..0] = 0
  <2>1. 1..0 = {}
    OBVIOUS
  <2> HIDE DEF c
  <2> QED
    BY <1>7, <2>1
<1>9. ASSUME NEW i \in 1..n PROVE c[1..i] = Wanted(c[1..(i - 1)], s[i])
  <2>0. i \in Nat \ {0} /\ i <= n
    BY <1>1
  <2>1. 1..i \in SUBSET (1..n) /\ i \in 1..i /\ (1..i) \ {i} = 1..(i - 1)
    BY <1>1, <2>0
  <2>2. Max(1..i) = i
    BY <1>1 DEF Max
  <2> DEFINE q == 1..i
  <2> HIDE DEF c
  <2>3. c[q] = Wanted(c[q \ {Max(q)}], s[Max(q)])
    <3> HIDE DEF q
    <3>1. q \in SUBSET (1..n) /\ q # {}
      BY <2>1 DEF q
    <3> QED
      BY <1>7, <3>1, Zenon
  <2> QED
    BY <2>1, <2>2, <2>3, Zenon
<1> HIDE DEF c, R
<1>10. \A i \in 0..n : i \in {j \in 0..n : c[1..j] \in Int}
  <2> DEFINE S == {j \in 0..n : c[1..j] \in Int}
  <2>1. 0 \in S
    BY <1>1, <1>8
  <2>2. ASSUME NEW i \in 0..(n - 1), i \in S PROVE i + 1 \in S
    <3>1. i + 1 \in 1..n /\ (i + 1) - 1 = i /\ i + 1 \in 0..n
      BY <1>1
    <3>2. c[1..(i + 1)] = Wanted(c[1..i], s[i + 1])
      BY <1>9, <3>1
    <3>3. c[1..i] \in Int /\ s[i + 1] \in Int
      BY <1>1, <2>2, <3>1
    <3> QED
      BY <1>0, <3>1, <3>2, <3>3
  <2> HIDE DEF S
  <2>3. \A i \in 0..n : i \in S
    BY <1>1, <2>1, <2>2, Induction
  <2> QED
    BY <2>3 DEF S
<1>11. g \in [0..n -> Int] /\ g[0] = 0 /\ c[1..n] = g[n]
  BY <1>1, <1>8, <1>10
<1>12. \A i \in 1..n : g[i] = Wanted(g[i - 1], s[i])
  <2> SUFFICES ASSUME NEW i \in 1..n PROVE g[i] = Wanted(g[i - 1], s[i])
    OBVIOUS
  <2>1. i \in 0..n /\ i - 1 \in 0..n
    BY <1>1
  <2>2. g[i] = c[1..i] /\ g[i - 1] = c[1..(i - 1)]
    BY <2>1
  <2> HIDE DEF g
  <2> QED
    BY <1>9, <2>2
<1> HIDE DEF g
<1> QED
  BY <1>6, <1>11, <1>12 DEF n

(* is_utf8_chars accepts a text from a position on exactly when it is      *)
(* well-formed from there on and has no U+FFFE there, whose bytes can      *)
(* begin nowhere but where a character begins.                             *)
LEMMA CharsAccepted ==
  ASSUME NEW s \in Seq(Byte)
  PROVE  is_utf8_chars(s) <=> WellFormed(s) /\ ~HasFFFE(s)
<1> DEFINE n == Len(s)
           At3(q) == s[q] = 239 /\ s[q + 1] = 191 /\ s[q + 2] = 190
           Free(p) == \A q \in p..(n - 2) : ~At3(q)
<1>1. n \in Nat /\ \A q \in 1..n : s[q] \in Byte
  OBVIOUS
<1>2. PICK f \in [1..(n + 1) -> BOOLEAN] :
           /\ is_utf8_chars(s) <=> f[1]
           /\ f[n + 1]
           /\ \A p \in 1..n : f[p] <=> CharOk(CharAt(s, p)) /\ f[p + Len(CharAt(s, p))]
  BY LoopSteps, Zenon
<1>3. PICK g \in [1..(n + 1) -> BOOLEAN] :
           /\ WellFormed(s) <=> g[1]
           /\ g[n + 1]
           /\ \A p \in 1..n :
                g[p] <=> WellFormedChar(CharAt(s, p)) /\ g[p + Len(CharAt(s, p))]
  BY GoodSteps, Zenon
<1>4. \A q \in 1..(n - 2) : SubSeq(s, q, q + 2) = <<239, 191, 190>> <=> At3(q)
  <2> SUFFICES ASSUME NEW q \in 1..(n - 2)
               PROVE  SubSeq(s, q, q + 2) = <<239, 191, 190>> <=> At3(q)
    OBVIOUS
  <2> DEFINE t == SubSeq(s, q, q + 2)
  <2>1. t \in Seq(Byte) /\ Len(t) = 3 /\ t[1] = s[q] /\ t[2] = s[q + 1] /\ t[3] = s[q + 2]
    <3>1. q \in 1..Len(s) /\ q + 2 \in q..Len(s) /\ (q + 2) - q + 1 = 3
          /\ q + 1 - 1 = q /\ q + 2 - 1 = q + 1 /\ q + 3 - 1 = q + 2
      OBVIOUS
    <3> QED
      BY <3>1, SubSeqProperties
  <2> HIDE DEF t
  <2>2. t = <<239, 191, 190>> <=> At3(q)
    BY <2>1
  <2> QED
    BY <2>2, Zenon DEF t
<1>0. \A x : Continues(x) => x # 239
  BY DEF Continues
<1>5. HasFFFE(s) <=> ~Free(1)
  <2> HIDE DEF At3
  <2> QED
    BY <1>4 DEF HasFFFE
<1> DEFINE S == {p \in 1..(n + 1) : f[p] <=> g[p] /\ Free(p)}
<1>6. ASSUME NEW p \in 1..(n + 1), \A q \in (p + 1)..(n + 1) : q \in S PROVE p \in S
  <2>1. CASE p = n + 1
    <3>1. Free(p)
      BY <1>1, <2>1
    <3> HIDE DEF Free
    <3> QED
      BY <1>2, <1>3, <2>1, <3>1
  <2>2. CASE p # n + 1
    <3> DEFINE c == CharAt(s, p)
               k == Len(c)
    <3>1. p \in 1..n
      BY <1>1, <2>2
    <3>2. /\ c \in Seq(Byte) /\ k \in Nat /\ k >= 1 /\ p + k \in (p + 1)..(n + 1)
          /\ \A i \in 1..k : c[i] = s[p + i - 1]
          /\ p + Asked(s[p]) - 1 <= n => k = Asked(s[p])
      BY <3>1, CharAtOf
    <3>3. f[p + k] <=> g[p + k] /\ Free(p + k)
      <4> HIDE DEF k, Free
      <4> QED
        BY <1>6, <3>2
    <3>4. f[p] <=> CharOk(c) /\ f[p + k]
      BY <1>2, <3>1, Zenon
    <3>5. g[p] <=> WellFormedChar(c) /\ g[p + k]
      BY <1>3, <3>1, Zenon
    <3>6. /\ CharOk(c) <=> WellFormedChar(c) /\ c # <<239, 191, 190>>
          /\ WellFormedChar(c) => \A i \in 2..k : Continues(c[i])
      <4> HIDE DEF c
      <4> QED
        BY <3>2, CharChecked
    <3>7. c = <<239, 191, 190>> <=> p <= n - 2 /\ At3(p)
      <4>1. ASSUME c = <<239, 191, 190>> PROVE p <= n - 2 /\ At3(p)
        <5>1. k = 3 /\ c[1] = 239 /\ c[2] = 191 /\ c[3] = 190
          <6> HIDE DEF c
          <6> QED
            BY <4>1
        <5> HIDE DEF c, k
        <5>2. c[1] = s[p] /\ c[2] = s[p + 1] /\ c[3] = s[p + 2]
          BY <3>1, <3>2, <5>1, SMTT(30)
        <5>3. p + 3 \in (p + 1)..(n + 1)
          BY <3>2, <5>1, Zenon
        <5>4. p <= n - 2
          BY <1>1, <3>1, <5>3
        <5> QED
          BY <5>1, <5>2, <5>4
      <4>2. ASSUME p <= n - 2, At3(p) PROVE c = <<239, 191, 190>>
        <5>1. Asked(s[p]) = 3
          BY <4>2 DEF Asked
        <5> HIDE DEF c
        <5>2. k = 3
          <6>1. p + Asked(s[p]) - 1 <= n
            BY <1>1, <3>1, <4>2, <5>1
          <6> QED
            BY <3>2, <5>1, <6>1, Zenon
        <5>3. c[1] = s[p] /\ c[2] = s[p + 1] /\ c[3] = s[p + 2]
          BY <3>1, <3>2, <5>2
        <5> QED
          BY <3>2, <4>2, <5>2, <5>3
      <4> QED
        BY <4>1, <4>2
    <3>8. ASSUME WellFormedChar(c)
          PROVE  Free(p) <=> ~(p <= n - 2 /\ At3(p)) /\ Free(p + k)
      <4>1. ASSUME NEW q \in p..(n - 2), q # p, q \notin (p + k)..(n - 2) PROVE ~At3(q)
        <5> HIDE DEF c, k
        <5>1. q - p + 1 \in 2..k /\ q - p + 1 \in 1..k /\ p + (q - p + 1) - 1 = q
          <6>1. k \in Nat /\ k >= 1
            BY <3>2, Zenon
          <6>2. q \in Int /\ p \in Int /\ q >= p /\ q <= n - 2 /\ q < p + k
            BY <1>1, <3>1, <4>1, <6>1
          <6>3. q # p
            BY <4>1, Zenon
          <6> QED
            BY <6>1, <6>2, <6>3
        <5>2. Continues(s[q])
          BY <3>2, <3>6, <3>8, <5>1
        <5> QED
          BY <1>0, <5>2
      <4>2. (p + k)..(n - 2) \subseteq p..(n - 2) /\ (p <= n - 2 <=> p \in p..(n - 2))
        <5> HIDE DEF c, k
        <5> QED
          BY <1>1, <3>1, <3>2
      <4> HIDE DEF c, k, At3
      <4> QED
        BY <4>1, <4>2, Zenon
    <3> HIDE DEF c, k, Free, At3
    <3> QED
      BY <3>3, <3>4, <3>5, <3>6, <3>7, <3>8, Zenon
  <2> QED
    BY <2>1, <2>2
<1>7. 1 \in S
  <2>1. n + 1 \in Nat /\ 1 \in 1..(n + 1)
    BY <1>1
  <2>2. \A p \in 1..(n + 1) : p \in S
    <3> DEFINE m == n + 1
    <3>1. 1 \in Nat
      OBVIOUS
    <3> HIDE DEF S, m
    <3> QED
      BY <1>6, <2>1, <3>1, Descent DEF m
  <2> QED
    BY <2>1, <2>2
<1> HIDE DEF Free
<1> QED
  BY <1>2, <1>3, <1>5, <1>7, Zenon

(* What is_utf8_str wants behind the first byte of a character, and behind *)
(* another one.                                                            *)
LEMMA WantedFirst ==
  ASSUME NEW x
  PROVE  /\ x \in 0..127 => Wanted(0, x) = 0
         /\ x \in 194..223 => Wanted(0, x) = 1
         /\ x \in 224..239 => Wanted(0, x) = 2
         /\ x \in 240..244 => Wanted(0, x) = 3
<1> DEFINE W == IF x < 128 THEN 0
                ELSE IF x \in 252..253 THEN 5
                ELSE IF x >= 248 THEN 4
                ELSE IF x >= 240 THEN 3
                ELSE IF x >= 224 THEN 2
                ELSE IF x >= 192 THEN 1 ELSE -1
<1>1. Wanted(0, x) = W
  BY DEF Wanted
<1>2. x \in 0..127 => W = 0
  OBVIOUS
<1>3. x \in 194..223 => W = 1
  OBVIOUS
<1>4. x \in 224..239 => W = 2
  OBVIOUS
<1>5. x \in 240..244 => W = 3
  OBVIOUS
<1> HIDE DEF W
<1> QED
  BY <1>1, <1>2, <1>3, <1>4, <1>5, ZenonT(60)

LEMMA WantedNext ==
  ASSUME NEW x, x \in 128..191
  PROVE  Wanted(1, x) = 0 /\ Wanted(2, x) = 1 /\ Wanted(3, x) = 2
<1>1. Continues(x)
  BY DEF Continues
<1> QED
  BY <1>1 DEF Wanted

(* is_utf8_str wants no byte more at the end of each character, so it      *)
(* accepts what is well-formed.                                            *)
LEMMA StrAccepted ==
  ASSUME NEW s \in Seq(Byte), WellFormed(s)
  PROVE  is_utf8_str(s)
<1> DEFINE n == Len(s)
<1>1. n \in Nat /\ \A q \in 1..n : s[q] \in Byte
  OBVIOUS
<1>2. PICK g \in [1..(n + 1) -> BOOLEAN] :
           /\ WellFormed(s) <=> g[1]
           /\ g[n + 1]
           /\ \A p \in 1..n :
                g[p] <=> WellFormedChar(CharAt(s, p)) /\ g[p + Len(CharAt(s, p))]
  BY GoodSteps, Zenon
<1>3. s \in Seq(Int)
  BY ByteInt
<1>4. PICK w \in [0..n -> Int] :
           /\ w[0] = 0
           /\ \A i \in 1..n : w[i] = Wanted(w[i - 1], s[i])
           /\ FoldLeft(Wanted, 0, s) = w[n]
  BY <1>3, StrSteps, Zenon
<1> DEFINE S == {p \in 1..(n + 1) : g[p] /\ w[p - 1] = 0 => w[n] = 0}
<1>6. ASSUME NEW p \in 1..(n + 1), \A q \in (p + 1)..(n + 1) : q \in S PROVE p \in S
  <2> SUFFICES ASSUME g[p], w[p - 1] = 0, p # n + 1 PROVE w[n] = 0
    BY <1>1
  <2> DEFINE c == CharAt(s, p)
             k == Len(c)
  <2>1. p \in 1..n
    BY <1>1
  <2>2. /\ c \in Seq(Byte) /\ k \in Nat /\ k >= 1 /\ p + k \in (p + 1)..(n + 1)
        /\ \A i \in 1..k : c[i] = s[p + i - 1]
    BY <2>1, CharAtOf
  <2>3. WellFormedChar(c) /\ g[p + k]
    BY <1>2, <2>1, Zenon
  <2> HIDE DEF c, k
  <2>4. \A i \in 1..k : c[i] \in Byte /\ w[p + i - 1] = Wanted(w[p + i - 2], c[i])
    <3> SUFFICES ASSUME NEW i \in 1..k
                 PROVE  c[i] \in Byte /\ w[p + i - 1] = Wanted(w[p + i - 2], c[i])
      OBVIOUS
    <3>1. p + i - 1 \in 1..n /\ (p + i - 1) - 1 = p + i - 2
      BY <1>1, <2>1, <2>2
    <3> QED
      BY <1>1, <1>4, <2>2, <3>1
  <2>5. w[p + k - 1] = 0
    <3>1. /\ k >= 1 => c[1] \in Byte /\ w[p] = Wanted(0, c[1])
          /\ k >= 2 => c[2] \in Byte /\ w[p + 1] = Wanted(w[p], c[2])
          /\ k >= 3 => c[3] \in Byte /\ w[p + 2] = Wanted(w[p + 1], c[3])
          /\ k >= 4 => c[4] \in Byte /\ w[p + 3] = Wanted(w[p + 2], c[4])
      <4>1. p + 1 - 1 = p /\ p + 1 - 2 = p - 1 /\ p + 2 - 1 = p + 1 /\ p + 2 - 2 = p
            /\ p + 3 - 1 = p + 2 /\ p + 3 - 2 = p + 1 /\ p + 4 - 1 = p + 3 /\ p + 4 - 2 = p + 2
        BY <2>1
      <4>2. /\ k >= 1 => 1 \in 1..k
            /\ k >= 2 => 2 \in 1..k
            /\ k >= 3 => 3 \in 1..k
            /\ k >= 4 => 4 \in 1..k
        BY <2>2
      <4> QED
        BY <2>4, <4>1, <4>2, SMTT(30)
    <3>2. CASE k = 1
      <4>1. c[1] \in 0..127
        BY <2>3, <3>2 DEF WellFormedChar, k
      <4>2. p + k - 1 = p
        BY <2>1, <3>2
      <4>3. Wanted(0, c[1]) = 0
        <5> DEFINE x == c[1]
        <5>1. x \in 0..127
          BY <4>1
        <5> HIDE DEF x
        <5>2. Wanted(0, x) = 0
          BY <5>1, WantedFirst
        <5> QED
          BY <5>2 DEF x
      <4>5. /\ w[p] = Wanted(0, c[1])
        <5>1. k >= 1
          BY <3>2
        <5> QED
          BY <3>1, <5>1, Zenon
      <4> QED
        BY <4>2, <4>3, <4>5, Zenon
    <3>3. CASE k = 2
      <4>1. c[1] \in 194..223 /\ c[2] \in 128..191
        BY <2>3, <3>3 DEF WellFormedChar, k
      <4>2. p + k - 1 = p + 1
        BY <2>1, <3>3
      <4>3. Wanted(0, c[1]) = 1
        <5> DEFINE x == c[1]
        <5>1. x \in 194..223
          BY <4>1
        <5> HIDE DEF x
        <5>2. Wanted(0, x) = 1
          BY <5>1, WantedFirst
        <5> QED
          BY <5>2 DEF x
      <4>4. Wanted(1, c[2]) = 0
        BY <4>1, WantedNext
      <4>5. /\ w[p] = Wanted(0, c[1])
            /\ w[p + 1] = Wanted(w[p], c[2])
        <5>1. k >= 1 /\ k >= 2
          BY <3>3
        <5> QED
          BY <3>1, <5>1, Zenon
      <4> QED
        BY <4>2, <4>3, <4>4, <4>5, Zenon
    <3>4. CASE k = 3
      <4>1. c[1] \in 224..239 /\ c[2] \in 128..191 /\ c[3] \in 128..191
        BY <2>3, <3>4 DEF WellFormedChar, k
      <4>2. p + k - 1 = p + 2
        BY <2>1, <3>4
      <4>3. Wanted(0, c[1]) = 2
        <5> DEFINE x == c[1]
        <5>1. x \in 224..239
          BY <4>1
        <5> HIDE DEF x
        <5>2. Wanted(0, x) = 2
          BY <5>1, WantedFirst
        <5> QED
          BY <5>2 DEF x
      <4>4. Wanted(2, c[2]) = 1 /\ Wanted(1, c[3]) = 0
        BY <4>1, WantedNext
      <4>5. /\ w[p] = Wanted(0, c[1])
            /\ w[p + 1] = Wanted(w[p], c[2])
            /\ w[p + 2] = Wanted(w[p + 1], c[3])
        <5>1. k >= 1 /\ k >= 2 /\ k >= 3
          BY <3>4
        <5> QED
          BY <3>1, <5>1, Zenon
      <4> QED
        BY <4>2, <4>3, <4>4, <4>5, Zenon
    <3>5. CASE k = 4
      <4>1. c[1] \in 240..244 /\ c[2] \in 128..191 /\ c[3] \in 128..191 /\ c[4] \in 128..191
        BY <2>3, <3>5 DEF WellFormedChar, k
      <4>2. p + k - 1 = p + 3
        BY <2>1, <3>5
      <4>3. Wanted(0, c[1]) = 3
        <5> DEFINE x == c[1]
        <5>1. x \in 240..244
          BY <4>1
        <5> HIDE DEF x
        <5>2. Wanted(0, x) = 3
          BY <5>1, WantedFirst
        <5> QED
          BY <5>2 DEF x
      <4>4. Wanted(3, c[2]) = 2 /\ Wanted(2, c[3]) = 1 /\ Wanted(1, c[4]) = 0
        BY <4>1, WantedNext
      <4>5. /\ w[p] = Wanted(0, c[1])
            /\ w[p + 1] = Wanted(w[p], c[2])
            /\ w[p + 2] = Wanted(w[p + 1], c[3])
            /\ w[p + 3] = Wanted(w[p + 2], c[4])
        <5>1. k >= 1 /\ k >= 2 /\ k >= 3 /\ k >= 4
          BY <3>5
        <5> QED
          BY <3>1, <5>1, Zenon
      <4> QED
        BY <4>2, <4>3, <4>4, <4>5, SMTT(30)
    <3>6. k \in 1..4
      <4>1. k = Len(c)
        BY DEF k
      <4> QED
        BY <2>2, <2>3, <4>1, CharChecked
    <3>7. k = 1 \/ k = 2 \/ k = 3 \/ k = 4
      BY <3>6
    <3> QED
      BY <3>2, <3>3, <3>4, <3>5, <3>7
  <2>6. p + k \in S
    <3> HIDE DEF S
    <3> QED
      BY <1>6, <2>2
  <2>7. g[p + k] /\ w[(p + k) - 1] = 0 => w[n] = 0
    BY <2>6, Zenon
  <2>8. (p + k) - 1 = p + k - 1
    BY <2>1, <2>2
  <2> HIDE DEF S
  <2> QED
    BY <2>3, <2>5, <2>7, <2>8, Zenon
<1>7. 1 \in S
  <2>1. n + 1 \in Nat /\ 1 \in 1..(n + 1)
    BY <1>1
  <2>2. \A p \in 1..(n + 1) : p \in S
    <3> DEFINE m == n + 1
    <3>1. 1 \in Nat
      OBVIOUS
    <3> HIDE DEF S, m
    <3> QED
      BY <1>6, <2>1, <3>1, Descent DEF m
  <2> QED
    BY <2>1, <2>2
<1>8. w[n] = 0
  BY <1>2, <1>4, <1>7
<1> QED
  BY <1>4, <1>8, Zenon DEF is_utf8_str

(* Whatever bytes a text is made of, the loop of is_utf8_chars accepts it  *)
(* exactly when Unicode calls it well-formed and it has no U+FFFE, and     *)
(* is_utf8_str accepts every well-formed text: no overlong form, surrogate *)
(* or number above U+10FFFF gets through the first, and no text of other   *)
(* languages is refused by either.  The first reads up to a NUL, so that   *)
(* its texts have none.                                                    *)
THEOREM Utf8Exact ==
  /\ \A s \in Seq(1..255) : is_utf8_chars(s) <=> WellFormed(s) /\ ~HasFFFE(s)
  /\ \A s \in Seq(0..255) : WellFormed(s) => is_utf8_str(s)
<1>1. ASSUME NEW s \in Seq(1..255)
      PROVE  is_utf8_chars(s) <=> WellFormed(s) /\ ~HasFFFE(s)
  <2>1. s \in Seq(Byte)
    BY DEF Byte
  <2> QED
    BY <2>1, CharsAccepted, Zenon
<1>2. ASSUME NEW s \in Seq(0..255) PROVE WellFormed(s) => is_utf8_str(s)
  <2>1. s \in Seq(Byte)
    BY Zenon DEF Byte
  <2> QED
    BY <2>1, StrAccepted, Zenon
<1> QED
  BY <1>1, <1>2, Zenon

(* Every input is made of symbols of its kind. *)
InputOK == kind \in DOMAIN Alphabet /\ input \in Seq(Alphabet[kind])

LEMMA InputTyped == Spec => []InputOK
<1>1. Init => InputOK
  BY DEF Init, InputOK
<1>2. InputOK /\ [Next]_vars => InputOK'
  <2> SUFFICES ASSUME InputOK, [Next]_vars PROVE InputOK'
    OBVIOUS
  <2>1. CASE Grow
    BY <2>1 DEF Grow, InputOK
  <2>2. CASE Done
    BY <2>2 DEF Done, InputOK, vars
  <2>3. CASE UNCHANGED vars
    BY <2>3 DEF InputOK, vars
  <2> QED
    BY <2>1, <2>2, <2>3 DEF Next
<1> QED
  BY <1>1, <1>2, PTL DEF Spec

(* The UTF-8 checks of common_utf8.cpp accept what they should, on every   *)
(* text that the machine of the conversions can grow.                      *)
THEOREM Utf8Correct == Spec => []Utf8Accepted
<1>1. InputOK => Utf8Accepted
  <2> SUFFICES ASSUME InputOK, kind = "utf8"
               PROVE  /\ is_utf8_chars(input) <=> WellFormed(input) /\ ~HasFFFE(input)
                      /\ WellFormed(input) => is_utf8_str(input)
    BY DEF Utf8Accepted
  <2>1. input \in Seq(Alphabet["utf8"])
    BY DEF InputOK
  <2>2. Alphabet["utf8"] \subseteq 1..255
    BY DEF Alphabet
  <2>3. input \in Seq(1..255)
    BY <2>1, <2>2
  <2>4. input \in Seq(0..255)
    BY <2>3
  <2> QED
    BY <2>3, <2>4, Utf8Exact, Zenon
<1> QED
  BY <1>1, InputTyped, PTL

----------------------------------------------------------------------------
(* A set of numbers with a bound has a greatest one, and Min and Max are   *)
(* what they are called.                                                   *)
LEMMA NatMax ==
  ASSUME NEW n \in Nat, NEW T \in SUBSET (0..n), T # {}
  PROVE  \E x \in T : \A y \in T : x >= y
<1> DEFINE U == {i \in 0..n : n - i \in T}
<1>1. U \in SUBSET Nat /\ U # {}
  <2>1. PICK t \in T : TRUE
    OBVIOUS
  <2>2. n - t \in 0..n /\ n - (n - t) = t
    BY <2>1
  <2>3. n - t \in U
    BY <2>1, <2>2
  <2> QED
    BY <2>3
<1>2. PICK i \in U : \A j \in U : i <= j
  <2> HIDE DEF U
  <2> QED
    BY <1>1, NatMin
<1>3. i \in 0..n /\ n - i \in T
  BY <1>2
<1>4. ASSUME NEW y \in T PROVE n - i >= y
  <2>1. n - y \in 0..n /\ n - (n - y) = y /\ y \in 0..n
    OBVIOUS
  <2>2. n - y \in U
    BY <2>1
  <2>3. i <= n - y
    <3> HIDE DEF U
    <3> QED
      BY <1>2, <2>2
  <2> QED
    BY <1>3, <2>1, <2>3
<1> QED
  BY <1>3, <1>4

LEMMA MinIs ==
  ASSUME NEW T \in SUBSET Nat, T # {}
  PROVE  Min(T) \in T /\ \A y \in T : Min(T) <= y
  BY NatMin DEF Min

LEMMA MaxIs ==
  ASSUME NEW n \in Nat, NEW T \in SUBSET (0..n), T # {}
  PROVE  Max(T) \in T /\ \A y \in T : Max(T) >= y
  BY NatMax DEF Max

(* A loop over positions that leads on to nx, and puts item before what    *)
(* the rest of the loop gives: there is a function that says what it gives.*)
Forward(nx, n) == nx \in [0..(n - 1) -> 0..n] /\ \A p \in 0..(n - 1) : nx[p] > p

Walked(f, item, nx, n) ==
  f[n] = <<>> /\ \A p \in 0..(n - 1) : f[p] = item[p] \o f[nx[p]]

LEMMA WalkExists ==
  ASSUME NEW n \in Nat, NEW T, NEW item \in [0..(n - 1) -> Seq(T)],
         NEW nx, Forward(nx, n)
  PROVE  \E f \in [0..n -> Seq(T)] : Walked(f, item, nx, n)
<1> USE DEF Forward
<1> DEFINE Rec(f, m) == /\ f \in [(n - m)..n -> Seq(T)] /\ f[n] = <<>>
                        /\ \A p \in (n - m)..(n - 1) : f[p] = item[p] \o f[nx[p]]
           S == {m \in 0..n : \E f : Rec(f, m)}
<1>1. 0 \in S
  <2> DEFINE f == [p \in (n - 0)..n |-> <<>>]
  <2>1. f \in [(n - 0)..n -> Seq(T)] /\ f[n] = <<>>
    OBVIOUS
  <2>2. (n - 0)..(n - 1) = {}
    OBVIOUS
  <2> HIDE DEF f
  <2>3. Rec(f, 0)
    BY <2>1, <2>2, Zenon
  <2> HIDE DEF Rec
  <2> QED
    BY <2>3
<1>2. ASSUME NEW m \in 0..(n - 1), m \in S PROVE m + 1 \in S
  <2>1. PICK f : Rec(f, m)
    BY <1>2, Zenon
  <2> DEFINE q == n - (m + 1)
             g == [p \in q..n |-> IF p = q THEN item[q] \o f[nx[q]] ELSE f[p]]
  <2>2. /\ q \in 0..(n - 1) /\ q < n /\ n \in q..n
        /\ \A p \in q..n : p # q => p \in (n - m)..n
        /\ \A p \in q..(n - 1) : p # q => p \in (n - m)..(n - 1)
        /\ \A p \in q..(n - 1) : p \in 0..(n - 1) /\ p \in q..n
    OBVIOUS
  <2>3. \A p \in q..(n - 1) : nx[p] \in (n - m)..n /\ nx[p] \in q..n /\ nx[p] # q
    OBVIOUS
  <2> HIDE DEF q
  <2>4. ASSUME NEW a \in Seq(T), NEW b \in Seq(T) PROVE a \o b \in Seq(T)
    OBVIOUS
  <2>5. item[q] \o f[nx[q]] \in Seq(T)
    <3>1. q \in q..(n - 1)
      BY <2>2
    <3>2. item[q] \in Seq(T) /\ f[nx[q]] \in Seq(T)
      BY <2>1, <2>2, <2>3, <3>1, Zenon
    <3> QED
      BY <2>4, <3>2, Zenon
  <2>6. g \in [q..n -> Seq(T)]
    <3> SUFFICES ASSUME NEW p \in q..n
                 PROVE  (IF p = q THEN item[q] \o f[nx[q]] ELSE f[p]) \in Seq(T)
      BY Zenon
    <3>1. CASE p = q
      BY <2>5, <3>1, Zenon
    <3>2. CASE p # q
      BY <2>1, <2>2, <3>2, Zenon
    <3> QED
      BY <3>1, <3>2, Zenon
  <2>7. g[n] = <<>>
    <3>1. n # q
      BY <2>2
    <3> QED
      BY <2>1, <2>2, <3>1, Zenon
  <2>8. ASSUME NEW p \in q..(n - 1) PROVE g[p] = item[p] \o g[nx[p]]
    <3>1. g[nx[p]] = f[nx[p]]
      BY <2>3, Zenon
    <3>2. CASE p = q
      <4>1. g[p] = item[p] \o f[nx[p]]
        BY <2>2, <3>2, Zenon
      <4> HIDE DEF g
      <4> QED
        BY <3>1, <4>1, Zenon
    <3>3. CASE p # q
      <4>1. g[p] = f[p]
        BY <2>2, <3>3, Zenon
      <4>2. f[p] = item[p] \o f[nx[p]]
        BY <2>1, <2>2, <3>3, Zenon
      <4> HIDE DEF g
      <4> QED
        BY <3>1, <4>1, <4>2, Zenon
    <3> QED
      BY <3>2, <3>3, Zenon
  <2> HIDE DEF g
  <2>9. Rec(g, m + 1)
    BY <2>6, <2>7, <2>8, Zenon DEF q
  <2>10. m + 1 \in 0..n
    OBVIOUS
  <2> HIDE DEF Rec
  <2> QED
    BY <2>9, <2>10
<1>3. n \in S
  <2> HIDE DEF S
  <2>1. \A i \in 0..n : i \in S
    BY <1>1, <1>2, Induction
  <2> QED
    BY <2>1
<1>4. PICK f : Rec(f, n)
  BY <1>3, Zenon
<1>5. n - n = 0
  OBVIOUS
<1> QED
  BY <1>4, <1>5, Zenon DEF Walked

----------------------------------------------------------------------------
(* r is the first start code from s on, or the end: what a search for one  *)
(* has to give.                                                            *)
IsFirst(d, s, r) ==
  \/ r = Len(d) /\ \A q \in s..(Len(d) - 4) : ~IsCode(d, q)
  \/ r \in s..(Len(d) - 4) /\ IsCode(d, r) /\ \A q \in s..(r - 1) : ~IsCode(d, q)

LEMMA FirstCodeOf ==
  ASSUME NEW d, NEW S \in SUBSET Nat
  PROVE  \/ FirstCode(d, S) = Len(d) /\ \A q \in S : ~IsCode(d, q)
         \/ /\ FirstCode(d, S) \in S /\ IsCode(d, FirstCode(d, S))
            /\ \A q \in S : IsCode(d, q) => FirstCode(d, S) <= q
<1> DEFINE H == {q \in S : IsCode(d, q)}
<1>1. FirstCode(d, S) = IF H = {} THEN Len(d) ELSE Min(H)
  BY Zenon DEF FirstCode
<1>2. H \in SUBSET Nat
  OBVIOUS
<1>3. CASE H = {}
  BY <1>1, <1>3
<1>4. CASE H # {}
  <2>1. Min(H) \in H /\ \A y \in H : Min(H) <= y
    <3> HIDE DEF H
    <3> QED
      BY <1>2, <1>4, MinIs
  <2>2. FirstCode(d, S) = Min(H)
    BY <1>1, <1>4, Zenon
  <2> QED
    BY <2>1, <2>2
<1> QED
  BY <1>3, <1>4

(* The same for an interval of positions before the end. *)
LEMMA FirstIn ==
  ASSUME NEW d \in Seq(Int), NEW a \in Nat, NEW b \in Int, b <= Len(d) - 4
  PROVE  LET r == FirstCode(d, a..b) IN
         /\ r \in Int
         /\ r = Len(d) => \A q \in a..b : ~IsCode(d, q)
         /\ r # Len(d) => r \in a..b /\ IsCode(d, r) /\ \A q \in a..(r - 1) : ~IsCode(d, q)
<1> DEFINE r == FirstCode(d, a..b)
<1>1. a..b \in SUBSET Nat /\ Len(d) \in Nat
  OBVIOUS
<1>2. \/ r = Len(d) /\ \A q \in a..b : ~IsCode(d, q)
      \/ r \in a..b /\ IsCode(d, r) /\ \A q \in a..b : IsCode(d, q) => r <= q
  <2> DEFINE S == a..b
  <2>1. S \in SUBSET Nat
    BY <1>1
  <2> HIDE DEF S
  <2>2. \/ FirstCode(d, S) = Len(d) /\ \A q \in S : ~IsCode(d, q)
        \/ /\ FirstCode(d, S) \in S /\ IsCode(d, FirstCode(d, S))
           /\ \A q \in S : IsCode(d, q) => FirstCode(d, S) <= q
    BY <2>1, FirstCodeOf, Zenon
  <2> QED
    BY <2>2, Zenon DEF S
<1> HIDE DEF r
<1>3. CASE r = Len(d)
  <2>1. r \notin a..b
    BY <1>1, <1>3
  <2> QED
    BY <1>1, <1>2, <1>3, <2>1 DEF r
<1>4. CASE r # Len(d)
  <2>1. r \in a..b /\ IsCode(d, r) /\ \A q \in a..b : IsCode(d, q) => r <= q
    BY <1>2, <1>4
  <2>2. \A q \in a..(r - 1) : q \in a..b /\ ~(r <= q)
    BY <2>1
  <2>3. \A q \in a..(r - 1) : ~IsCode(d, q)
    BY <2>1, <2>2, Zenon
  <2>4. r \in Int
    BY <2>1
  <2> QED
    BY <1>4, <2>1, <2>3, <2>4, Zenon DEF r
<1> QED
  BY <1>3, <1>4

(* A round of the fast loop finds the first start code of its word: the    *)
(* tests it makes before it looks at two positions are needed by both.     *)
LEMMA WordSearched ==
  ASSUME NEW d \in Seq(Int), NEW p \in Nat, p <= Len(d) - 7
  PROVE  LET r == FindInWord(d, p) IN
         /\ r = Len(d) => \A q \in p..(p + 3) : ~IsCode(d, q)
         /\ r # Len(d) => /\ r \in p..(p + 3) /\ IsCode(d, r)
                          /\ \A q \in p..(r - 1) : ~IsCode(d, q)
<1> DEFINE r == FindInWord(d, p)
           a == FirstCode(d, p..(p + 1))
           b == FirstCode(d, (p + 2)..(p + 3))
           n == Len(d)
           Zero(k) == At(d, k) = 0
<1>0. n \in Nat /\ p \in Int
  OBVIOUS
<1>1. /\ a = n => \A q \in p..(p + 1) : ~IsCode(d, q)
      /\ a # n => a \in p..(p + 1) /\ IsCode(d, a) /\ \A q \in p..(a - 1) : ~IsCode(d, q)
  <2>1. p + 1 \in Int /\ p + 1 <= n - 4
    BY <1>0
  <2> QED
    BY <2>1, FirstIn, Zenon
<1>2. /\ b = n => \A q \in (p + 2)..(p + 3) : ~IsCode(d, q)
      /\ b # n => b \in (p + 2)..(p + 3) /\ IsCode(d, b) /\ \A q \in (p + 2)..(b - 1) : ~IsCode(d, q)
  <2>1. p + 2 \in Nat /\ p + 3 \in Int /\ p + 3 <= n - 4
    BY <1>0
  <2> QED
    BY <2>1, FirstIn, Zenon
<1>3. \A k : IsCode(d, k) => Zero(k) /\ Zero(k + 1)
  BY Zenon DEF IsCode
<1>4. /\ (p + 1) + 1 = p + 2 /\ (p + 2) + 1 = p + 3
      /\ \A q \in p..(p + 3) : q = p \/ q = p + 1 \/ q = p + 2 \/ q = p + 3
      /\ \A q \in p..(p + 3) : q \in p..(p + 1) \/ q \in (p + 2)..(p + 3)
      /\ p \in p..(p + 3) /\ p + 1 \in p..(p + 3) /\ p + 2 \in p..(p + 3) /\ p + 3 \in p..(p + 3)
      /\ \A q \in p..(p + 1) : q = p \/ q = p + 1
      /\ \A q \in (p + 2)..(p + 3) : q = p + 2 \/ q = p + 3
  BY <1>0
<1>5. r = IF \A k \in p..(p + 3) : ~Zero(k) THEN n
          ELSE IF Zero(p + 1) /\ a # n THEN a
          ELSE IF Zero(p + 3) THEN b ELSE n
  BY Zenon DEF FindInWord
<1> HIDE DEF r, a, b, n, Zero
<1>6. CASE \A k \in p..(p + 3) : ~Zero(k)
  <2>1. r = n /\ \A q \in p..(p + 3) : ~IsCode(d, q)
    BY <1>3, <1>5, <1>6, Zenon
  <2> QED
    BY <2>1, Zenon DEF r, n
<1>7. CASE ~(\A k \in p..(p + 3) : ~Zero(k)) /\ Zero(p + 1) /\ a # n
  <2>1. r = a
    BY <1>5, <1>7, Zenon
  <2>2. a \in p..(p + 3)
    BY <1>0, <1>1, <1>7
  <2> QED
    BY <1>1, <1>7, <2>1, <2>2, Zenon DEF r, n
<1>8. CASE ~(\A k \in p..(p + 3) : ~Zero(k)) /\ ~(Zero(p + 1) /\ a # n)
  <2>1. \A q \in p..(p + 1) : ~IsCode(d, q)
    BY <1>1, <1>3, <1>4, <1>8, Zenon
  <2>2. CASE Zero(p + 3) /\ b # n
    <3>1. r = b
      BY <1>5, <1>8, <2>2, Zenon
    <3>2. b \in Int /\ b \in p..(p + 3) /\ \A q \in p..(b - 1) : q \in p..(p + 1) \/ q \in (p + 2)..(b - 1)
      BY <1>0, <1>2, <2>2
    <3> QED
      BY <1>2, <2>1, <2>2, <3>1, <3>2, Zenon DEF r, n
  <2>3. CASE ~(Zero(p + 3) /\ b # n)
    <3>1. r = n
      BY <1>5, <1>8, <2>3, Zenon
    <3>2. \A q \in (p + 2)..(p + 3) : ~IsCode(d, q)
      BY <1>2, <1>3, <1>4, <2>3, Zenon
    <3> QED
      BY <1>4, <2>1, <3>1, <3>2, Zenon DEF r, n
  <2> QED
    BY <2>2, <2>3, Zenon
<1> QED
  BY <1>6, <1>7, <1>8, Zenon

(* A position that is not before mid lies in a word that is not before it. *)
LEMMA WordOf ==
  ASSUME NEW mid \in Nat, NEW k \in Nat, k >= mid
  PROVE  \E w \in Nat : w >= mid /\ (w - mid) % 4 = 0 /\ w <= k /\ k <= w + 3
<1> DEFINE w == k - ((k - mid) % 4)
<1>1. w \in Nat /\ w >= mid /\ (w - mid) % 4 = 0 /\ w <= k /\ k <= w + 3
  OBVIOUS
<1> QED
  BY <1>1

(* Words of the same tiling that overlap are the same. *)
LEMMA WordsApart ==
  ASSUME NEW mid \in Nat, NEW v \in Nat, NEW w \in Nat, v >= mid, w >= mid,
         (v - mid) % 4 = 0, (w - mid) % 4 = 0, w < v + 4
  PROVE  w <= v
  OBVIOUS

(* The search finds the first start code, whatever the alignment: the      *)
(* bytes up to the next word, the words, and the bytes behind them, cover  *)
(* every position before the last three bytes once.                        *)
LEMMA SearchExact ==
  ASSUME NEW d \in Seq(Int), NEW base \in Nat, NEW s \in 0..Len(d)
  PROVE  IsFirst(d, s, AVCFindStartCodeInternal(d, s, base))
<1> DEFINE end   == Len(d)
           a     == s + 4 - ((base + s) % 4)
           mid   == Max({s, Smaller(a, end - 3)})
           first == FirstCode(d, s..(mid - 1))
           words == {p \in mid..(end - 7) : (p - mid) % 4 = 0}
           found == {p \in words : FindInWord(d, p) # end}
           rest  == IF words = {} THEN mid ELSE Max(words) + 4
           last  == FirstCode(d, rest..(end - 4))
           r     == AVCFindStartCodeInternal(d, s, base)
<1>1. end \in Nat /\ s \in Nat /\ s <= end
  OBVIOUS
<1>2. r = IF first # end THEN first
          ELSE IF found # {} THEN FindInWord(d, Min(found))
          ELSE last
  BY Zenon DEF AVCFindStartCodeInternal
<1>3. a \in Int /\ a >= s + 1
  <2>1. (base + s) % 4 \in 0..3
    BY <1>1
  <2> DEFINE x == (base + s) % 4
  <2> HIDE DEF x
  <2> QED
    BY <1>1, <2>1 DEF x
<1> HIDE DEF a
<1>4. mid \in Nat /\ mid >= s /\ (s < end - 3 => mid <= end - 3) /\ (s >= end - 3 => mid = s)
  <2> DEFINE m == Smaller(a, end - 3)
  <2>1. m \in Int /\ m <= end - 3 /\ (s < end - 3 => m > s)
    BY <1>1, <1>3 DEF Smaller
  <2> HIDE DEF m
  <2>2. CASE m >= s
    <3>1. Max({s, m}) = m
      BY <1>1, <2>1, <2>2 DEF Max
    <3> QED
      BY <1>1, <2>1, <2>2, <3>1 DEF m
  <2>3. CASE m < s
    <3>1. Max({s, m}) = s
      BY <1>1, <2>1, <2>3 DEF Max
    <3> QED
      BY <1>1, <2>1, <2>3, <3>1 DEF m
  <2> QED
    BY <1>1, <2>1, <2>2, <2>3
<1> HIDE DEF r, mid
<1>5. /\ first \in Int
      /\ first = end => \A q \in s..(mid - 1) : ~IsCode(d, q)
      /\ first # end => first \in s..(mid - 1) /\ IsCode(d, first) /\ \A q \in s..(first - 1) : ~IsCode(d, q)
  <2>1. CASE s < end - 3
    <3>1. mid - 1 \in Int /\ mid - 1 <= end - 4
      BY <1>1, <1>4, <2>1
    <3> QED
      BY <1>1, <3>1, FirstIn, Zenon
  <2>2. CASE ~(s < end - 3)
    <3>1. mid = s /\ s..(mid - 1) = {}
      BY <1>1, <1>4, <2>2
    <3>2. first = end
      BY <3>1, Zenon DEF FirstCode
    <3> HIDE DEF first
    <3> QED
      BY <1>1, <3>1, <3>2
  <2> QED
    BY <2>1, <2>2
<1> HIDE DEF first
<1>6. \A p \in words : p \in Nat /\ p >= mid /\ (p - mid) % 4 = 0 /\ p <= end - 7
  BY <1>1, <1>4
<1>7. \A p \in Nat : p >= mid /\ (p - mid) % 4 = 0 /\ p <= end - 7 => p \in words
  BY <1>1, <1>4
<1>8. ASSUME NEW p \in words
      PROVE  LET f == FindInWord(d, p) IN
             /\ f = end => \A q \in p..(p + 3) : ~IsCode(d, q)
             /\ f # end => f \in p..(p + 3) /\ IsCode(d, f) /\ \A q \in p..(f - 1) : ~IsCode(d, q)
  <2> HIDE DEF words
  <2>1. p \in Nat /\ p <= end - 7
    BY <1>6
  <2> QED
    BY <2>1, WordSearched, Zenon
<1> HIDE DEF words
<1>9. CASE first # end
  <2>1. r = first
    BY <1>2, <1>9, Zenon
  <2>2. first \in s..(end - 4)
    <3>1. s < end - 3
      BY <1>1, <1>4, <1>5, <1>9
    <3> QED
      BY <1>1, <1>4, <1>5, <1>9, <3>1
  <2> QED
    BY <1>5, <1>9, <2>1, <2>2, Zenon DEF IsFirst, r
<1>10. CASE first = end /\ found # {}
  <2> DEFINE m == Min(found)
             f == FindInWord(d, m)
  <2>1. r = f
    BY <1>2, <1>10, Zenon
  <2>2. m \in found /\ \A y \in found : m <= y
    <3>1. found \in SUBSET Nat
      BY <1>6
    <3> HIDE DEF found
    <3> QED
      BY <1>10, <3>1, MinIs
  <2>3. m \in words /\ f # end
    BY <2>2, Zenon
  <2>4. m \in Nat /\ m >= mid /\ (m - mid) % 4 = 0 /\ m <= end - 7
    BY <1>6, <2>3
  <2>5. f \in m..(m + 3) /\ IsCode(d, f) /\ \A q \in m..(f - 1) : ~IsCode(d, q)
    BY <1>8, <2>3, Zenon
  <2>6. ASSUME NEW q \in s..(m - 1) PROVE ~IsCode(d, q)
    <3>1. CASE q < mid
      <4>1. q \in s..(mid - 1)
        BY <1>1, <1>4, <2>4, <3>1
      <4> QED
        BY <1>5, <1>10, <4>1, Zenon
    <3>2. CASE q >= mid
      <4>0. q \in Nat
        BY <1>1
      <4>1. PICK w \in Nat : w >= mid /\ (w - mid) % 4 = 0 /\ w <= q /\ q <= w + 3
        BY <1>4, <3>2, <4>0, WordOf
      <4>2. w <= end - 7 /\ q \in w..(w + 3) /\ ~(m <= w)
        <5> HIDE DEF m
        <5> QED
          BY <1>1, <2>4, <2>6, <4>0, <4>1
      <4>3. w \in words
        BY <1>7, <4>1, <4>2
      <4>4. FindInWord(d, w) = end
        <5>1. w \notin found
          <6> HIDE DEF found
          <6> QED
            BY <2>2, <4>2
        <5> QED
          BY <4>3, <5>1, Zenon
      <4> QED
        BY <1>8, <4>2, <4>3, <4>4, Zenon
    <3> QED
      BY <1>1, <1>4, <2>4, <3>1, <3>2
  <2> HIDE DEF f, m
  <2>7. f \in Int /\ f \in s..(end - 4) /\ \A q \in s..(f - 1) : q \in s..(m - 1) \/ q \in m..(f - 1)
    BY <1>1, <1>4, <2>4, <2>5
  <2>8. \A q \in s..(f - 1) : ~IsCode(d, q)
    BY <2>5, <2>6, <2>7, Zenon
  <2> QED
    BY <2>1, <2>5, <2>7, <2>8, Zenon DEF IsFirst, r
<1>11. CASE first = end /\ found = {}
  <2>1. r = last
    BY <1>2, <1>11, Zenon
  <2>2. \A w \in words : \A q \in w..(w + 3) : ~IsCode(d, q)
    BY <1>8, <1>11, Zenon
  <2>3. CASE words = {}
    <3>1. rest = mid
      BY <2>3
    <3> HIDE DEF rest
    <3>2. IsFirst(d, s, last)
      <4>1. /\ last = end => \A q \in mid..(end - 4) : ~IsCode(d, q)
            /\ last # end => last \in mid..(end - 4) /\ IsCode(d, last) /\ \A q \in mid..(last - 1) : ~IsCode(d, q)
        <5>1. end - 4 \in Int /\ end - 4 <= end - 4
          BY <1>1
        <5> QED
          BY <1>4, <3>1, <5>1, FirstIn, ZenonT(30)
      <4> HIDE DEF last
      <4>2. \A q \in s..(end - 4) : q \in s..(mid - 1) \/ q \in mid..(end - 4)
        BY <1>1, <1>4
      <4>3. CASE last = end
        BY <1>5, <1>11, <4>1, <4>2, <4>3, Zenon DEF IsFirst
      <4>4. CASE last # end
        <5>1. last \in Int /\ last \in s..(end - 4) /\ \A q \in s..(last - 1) : q \in s..(mid - 1) \/ q \in mid..(last - 1)
          BY <1>1, <1>4, <4>1, <4>4
        <5> QED
          BY <1>5, <1>11, <4>1, <4>4, <5>1, Zenon DEF IsFirst
      <4> QED
        BY <4>3, <4>4
    <3> QED
      BY <2>1, <3>2, Zenon DEF r
  <2>4. CASE words # {}
    <3> DEFINE t == Max(words)
    <3>1. t \in words /\ \A y \in words : t >= y
      <4>1. words \in SUBSET (0..end)
        BY <1>1, <1>4, SMTT(30) DEF words
      <4> QED
        BY <1>1, <2>4, <4>1, MaxIs
    <3>2. rest = t + 4
      BY <2>4
    <3> HIDE DEF rest, t
    <3>3. t \in Nat /\ t >= mid /\ (t - mid) % 4 = 0 /\ t <= end - 7
      BY <1>6, <3>1
    <3>4. /\ last = end => \A q \in rest..(end - 4) : ~IsCode(d, q)
          /\ last # end => last \in rest..(end - 4) /\ IsCode(d, last) /\ \A q \in rest..(last - 1) : ~IsCode(d, q)
      <4>1. end - 4 \in Int /\ end - 4 <= end - 4 /\ rest \in Nat
        BY <1>1, <3>2, <3>3
      <4> QED
        BY <4>1, FirstIn, Zenon
    <3> HIDE DEF last
    <3>5. ASSUME NEW q \in s..(rest - 1) PROVE ~IsCode(d, q)
      <4>1. CASE q < mid
        <5>1. q \in s..(mid - 1)
          BY <1>1, <1>4, <3>2, <3>3, <4>1
        <5> QED
          BY <1>5, <1>11, <5>1, Zenon
      <4>2. CASE q >= mid
        <5>0. q \in Nat
          BY <1>1
        <5>1. PICK w \in Nat : w >= mid /\ (w - mid) % 4 = 0 /\ w <= q /\ q <= w + 3
          BY <1>4, <4>2, <5>0, WordOf
        <5>2. w < t + 4
          BY <3>2, <3>3, <3>5, <5>0, <5>1
        <5>3. w <= t
          BY <1>4, <3>3, <5>1, <5>2, WordsApart
        <5>4. w <= end - 7 /\ q \in w..(w + 3)
          BY <1>1, <3>3, <5>0, <5>1, <5>3
        <5>5. w \in words
          BY <1>7, <5>1, <5>4
        <5> QED
          BY <2>2, <5>4, <5>5, Zenon
      <4> QED
        BY <1>1, <1>4, <3>2, <3>3, <4>1, <4>2
    <3>6. rest \in Nat /\ rest >= s /\ \A q \in s..(end - 4) : q \in s..(rest - 1) \/ q \in rest..(end - 4)
      BY <1>1, <1>4, <3>2, <3>3
    <3>7. CASE last = end
      BY <2>1, <3>4, <3>5, <3>6, <3>7, Zenon DEF IsFirst, r
    <3>8. CASE last # end
      <4>1. last \in Int /\ last \in s..(end - 4) /\ \A q \in s..(last - 1) : q \in s..(rest - 1) \/ q \in rest..(last - 1)
        BY <1>1, <3>4, <3>6, <3>8
      <4> QED
        BY <2>1, <3>4, <3>5, <3>8, <4>1, Zenon DEF IsFirst, r
    <3> QED
      BY <3>7, <3>8
  <2> QED
    BY <2>3, <2>4
<1> QED
  BY <1>9, <1>10, <1>11, Zenon

(* Where avc_find_start_code leads: to the first start code, or the end,   *)
(* or the zero byte before it.                                             *)
LEMMA FoundAt ==
  ASSUME NEW d \in Seq(Int), NEW base \in Nat, NEW s \in 0..Len(d)
  PROVE  LET e == avc_find_start_code(d, s, base) IN
         /\ e \in s..Len(d)
         /\ \E r \in 0..Len(d) :
              /\ IsFirst(d, s, r)
              /\ e = IF s < r /\ r < Len(d) /\ At(d, r - 1) = 0 THEN r - 1 ELSE r
<1> DEFINE e == avc_find_start_code(d, s, base)
           r == AVCFindStartCodeInternal(d, s, base)
<1>1. IsFirst(d, s, r)
  BY SearchExact
<1>2. e = IF s < r /\ r < Len(d) /\ At(d, r - 1) = 0 THEN r - 1 ELSE r
  BY Zenon DEF avc_find_start_code
<1> HIDE DEF e, r
<1>3. r \in Int /\ r >= s /\ r <= Len(d)
  BY <1>1 DEF IsFirst
<1>4. r \in 0..Len(d) /\ e \in s..Len(d)
  BY <1>2, <1>3
<1> QED
  BY <1>1, <1>2, <1>4 DEF e

LEMMA Skipped ==
  ASSUME NEW d \in Seq(Int), NEW p \in 0..(Len(d) - 1)
  PROVE  /\ SkipCode(d, p) \in (p + 1)..Len(d)
         /\ \A k \in p..(Len(d) - 1) :
              At(d, k) # 0 /\ (\A j \in p..(k - 1) : At(d, j) = 0) => SkipCode(d, p) = k + 1
<1> DEFINE n == Len(d)
           K == {k \in p..(n - 1) : At(d, k) # 0 \/ k = n - 1}
<1>1. n \in Nat /\ p \in Nat /\ p <= n - 1
  OBVIOUS
<1>2. SkipCode(d, p) = Min(K) + 1
  BY Zenon DEF SkipCode
<1>3. K \in SUBSET Nat /\ n - 1 \in K
  BY <1>1
<1>4. Min(K) \in K /\ \A y \in K : Min(K) <= y
  <2> HIDE DEF K
  <2> QED
    BY <1>3, MinIs
<1> DEFINE m == Min(K)
<1>5. m \in p..(n - 1) /\ (At(d, m) # 0 \/ m = n - 1)
  BY <1>4, Zenon
<1>6. ASSUME NEW k \in p..(n - 1), At(d, k) # 0, \A j \in p..(k - 1) : At(d, j) = 0
      PROVE  m = k
  <2>1. k \in K
    BY <1>6, Zenon
  <2>2. m <= k
    <3> HIDE DEF K
    <3> QED
      BY <1>4, <2>1
  <2> HIDE DEF m
  <2>3. m \notin p..(k - 1)
    <3>1. ASSUME m \in p..(k - 1) PROVE FALSE
      <4>1. At(d, m) = 0
        BY <1>6, <3>1, Zenon
      <4>2. m # n - 1
        BY <1>1, <1>6, <3>1
      <4> QED
        BY <1>5, <4>1, <4>2, Zenon
    <3> QED
      BY <3>1
  <2> QED
    BY <1>1, <1>5, <2>2, <2>3
<1> HIDE DEF m
<1>7. SkipCode(d, p) = m + 1
  BY <1>2, Zenon DEF m
<1>8. m + 1 \in (p + 1)..n
  BY <1>1, <1>5
<1> QED
  BY <1>6, <1>7, <1>8, Zenon

(* The loop of send_data, as a recursion over positions. *)
LEMMA UnitsSteps ==
  ASSUME NEW d \in Seq(Int), NEW base \in Nat
  PROVE  \E f : /\ f[Len(d)] = <<>>
                /\ \A p \in 0..(Len(d) - 1) :
                     LET b == SkipCode(d, p)
                         e == avc_find_start_code(d, b, base)
                     IN  f[p] = <<<<b, e>>>> \o f[e]
                /\ Units(d, base) = f[avc_find_start_code(d, 0, base)]
<1> DEFINE n == Len(d)
           B(p) == SkipCode(d, p)
           E(p) == avc_find_start_code(d, B(p), base)
           T == {<<B(p), E(p)>> : p \in 0..(n - 1)}
           item == [p \in 0..(n - 1) |-> <<<<B(p), E(p)>>>>]
           nx == [p \in 0..(n - 1) |-> E(p)]
           Body(f, p) == IF p = n THEN <<>> ELSE <<<<B(p), E(p)>>>> \o f[E(p)]
           R(f) == f = [p \in 0..n |-> Body(f, p)]
           c == CHOOSE f : R(f)
<1>1. n \in Nat
  OBVIOUS
<1>2. ASSUME NEW p \in 0..(n - 1) PROVE E(p) \in 0..n /\ E(p) > p
  <2>1. B(p) \in (p + 1)..n
    BY Skipped
  <2>2. B(p) \in 0..n
    <3> HIDE DEF B
    <3> QED
      BY <1>1, <2>1
  <2>3. E(p) \in B(p)..n
    <3> DEFINE b == B(p)
    <3> HIDE DEF b
    <3>1. avc_find_start_code(d, b, base) \in b..n
      BY <2>2, FoundAt DEF b
    <3> QED
      BY <3>1 DEF b
  <2> HIDE DEF B, E
  <2> QED
    BY <1>1, <2>1, <2>3
<1>3. Units(d, base) = c[avc_find_start_code(d, 0, base)]
  BY DEF Units
<1> HIDE DEF n, B, E
<1>4. item \in [0..(n - 1) -> Seq(T)]
  <2> SUFFICES ASSUME NEW p \in 0..(n - 1) PROVE <<<<B(p), E(p)>>>> \in Seq(T)
    BY Zenon
  <2>1. <<B(p), E(p)>> \in T
    BY Zenon
  <2> HIDE DEF T
  <2> QED
    BY <2>1
<1>5. Forward(nx, n)
  BY <1>2 DEF Forward
<1>6. PICK f \in [0..n -> Seq(T)] : Walked(f, item, nx, n)
  <2> HIDE DEF item, nx, T
  <2> QED
    BY <1>1, <1>4, <1>5, WalkExists
<1>7. \A p \in 0..n : p # n => p \in 0..(n - 1)
  BY <1>1
<1>8. R(f)
  <2>1. ASSUME NEW p \in 0..n PROVE f[p] = Body(f, p)
    BY <1>6, <1>7, Zenon DEF Walked
  <2> HIDE DEF Body, T
  <2> QED
    BY <1>6, <2>1
<1>9. R(c)
  <2> HIDE DEF R
  <2> QED
    BY <1>8
<1> HIDE DEF c
<1>10. \A p \in 0..n : c[p] = Body(c, p)
  <2> HIDE DEF Body
  <2> QED
    BY <1>9, Zenon
<1>11. n \in 0..n /\ \A p \in 0..(n - 1) : p \in 0..n /\ p # n
  BY <1>1
<1>12. c[n] = <<>> /\ \A p \in 0..(n - 1) : c[p] = <<<<B(p), E(p)>>>> \o c[E(p)]
  BY <1>10, <1>11, Zenon
<1> QED
  BY <1>3, <1>12, Zenon DEF n, B, E

(* The reference, as a recursion over positions. *)
LEMMA SpansSteps ==
  ASSUME NEW d \in Seq(Int), NEW end
  PROVE  \E f : /\ f \in [0..Len(d) -> Seq({<<p + 3, end[p]>> : p \in Codes(d)})]
                /\ f[Len(d)] = <<>>
                /\ \A p \in 0..(Len(d) - 1) :
                     f[p] = (IF p \in Codes(d) THEN <<<<p + 3, end[p]>>>> ELSE <<>>)
                              \o f[p + 1]
                /\ Spans(d, end) = f[0]
<1> DEFINE n == Len(d)
           I(p) == IF p \in Codes(d) THEN <<<<p + 3, end[p]>>>> ELSE <<>>
           T == {<<p + 3, end[p]>> : p \in Codes(d)}
           item == [p \in 0..(n - 1) |-> I(p)]
           nx == [p \in 0..(n - 1) |-> p + 1]
           Body(f, p) == IF p = n THEN <<>> ELSE I(p) \o f[p + 1]
           R(f) == f = [p \in 0..n |-> Body(f, p)]
           c == CHOOSE f : R(f)
<1>1. n \in Nat
  OBVIOUS
<1>2. Spans(d, end) = c[0]
  BY DEF Spans
<1> HIDE DEF n
<1>3. \A p \in 0..(n - 1) : I(p) \in Seq(T)
  <2> SUFFICES ASSUME NEW p \in 0..(n - 1) PROVE I(p) \in Seq(T)
    BY Zenon
  <2>1. CASE p \in Codes(d)
    <3>1. <<p + 3, end[p]>> \in T
      BY <2>1, Zenon
    <3>2. I(p) = <<<<p + 3, end[p]>>>>
      BY <2>1, Zenon
    <3> HIDE DEF T, I
    <3> QED
      BY <3>1, <3>2
  <2>2. CASE p \notin Codes(d)
    <3>1. I(p) = <<>>
      BY <2>2, Zenon
    <3> HIDE DEF T, I
    <3> QED
      BY <3>1
  <2> QED
    BY <2>1, <2>2, Zenon
<1> HIDE DEF I, T
<1>4. item \in [0..(n - 1) -> Seq(T)]
  BY <1>3, Zenon
<1>5. Forward(nx, n)
  BY <1>1 DEF Forward
<1>6. PICK f \in [0..n -> Seq(T)] : Walked(f, item, nx, n)
  <2> HIDE DEF item, nx
  <2> QED
    BY <1>1, <1>4, <1>5, WalkExists
<1>7. \A p \in 0..n : p # n => p \in 0..(n - 1)
  BY <1>1
<1>8. R(f)
  <2>1. ASSUME NEW p \in 0..n PROVE f[p] = Body(f, p)
    BY <1>6, <1>7, Zenon DEF Walked
  <2> HIDE DEF Body
  <2> QED
    BY <1>6, <2>1
<1>9. R(c)
  <2> HIDE DEF R
  <2> QED
    BY <1>8
<1> HIDE DEF c
<1>10. \A p \in 0..n : c[p] = Body(c, p)
  <2> HIDE DEF Body
  <2> QED
    BY <1>9, Zenon
<1>11. n \in 0..n /\ \A p \in 0..(n - 1) : p \in 0..n /\ p # n
  BY <1>1
<1>12. c[n] = <<>> /\ \A p \in 0..(n - 1) : c[p] = I(p) \o c[p + 1]
  BY <1>10, <1>11, Zenon
<1>13. c \in [0..n -> Seq(T)]
  <2> DEFINE S == {p \in 0..n : c[p] \in Seq(T)}
  <2>1. ASSUME NEW p \in 0..n, \A q \in (p + 1)..n : q \in S PROVE p \in S
    <3>1. CASE p = n
      <4>1. <<>> \in Seq(T)
        OBVIOUS
      <4> QED
        BY <1>12, <3>1, <4>1, Zenon
    <3>2. CASE p # n
      <4>1. p \in 0..(n - 1) /\ p + 1 \in (p + 1)..n
        BY <1>1, <3>2
      <4>2. c[p + 1] \in Seq(T) /\ I(p) \in Seq(T)
        BY <1>3, <2>1, <4>1, Zenon
      <4>3. I(p) \o c[p + 1] \in Seq(T)
        BY <4>2
      <4> QED
        BY <1>12, <4>1, <4>3, Zenon
    <3> QED
      BY <3>1, <3>2
  <2>2. \A p \in 0..n : p \in S
    <3>1. 0 \in Nat
      OBVIOUS
    <3> HIDE DEF S
    <3> QED
      BY <1>1, <2>1, <3>1, Descent
  <2>3. \A p \in 0..n : c[p] \in Seq(T)
    BY <2>2, Zenon
  <2> HIDE DEF Body
  <2> QED
    BY <1>9, <2>3
<1> QED
  BY <1>2, <1>12, <1>13, Zenon DEF n, I, T

(* Between two positions without a start code the reference finds nothing. *)
Skips(g, C, T, n) ==
  /\ n \in Nat /\ g \in [0..n -> Seq(T)]
  /\ \A p \in 0..(n - 1) : p \notin C => g[p] = <<>> \o g[p + 1]

LEMMA SpansSkip ==
  ASSUME NEW n, NEW C, NEW T, NEW g, Skips(g, C, T, n)
  PROVE  \A q \in 0..n : \A p \in 0..q : (\A k \in p..(q - 1) : k \notin C) => g[p] = g[q]
<1> SUFFICES ASSUME NEW q \in 0..n, NEW p \in 0..q, \A k \in p..(q - 1) : k \notin C
             PROVE  g[p] = g[q]
  BY Zenon
<1>0. n \in Nat /\ g \in [0..n -> Seq(T)]
  BY Zenon DEF Skips
<1> DEFINE S == {x \in 0..q : x >= p => g[x] = g[q]}
<1>1. ASSUME NEW x \in 0..q, \A y \in (x + 1)..q : y \in S PROVE x \in S
  <2>1. CASE x = q
    BY <2>1
  <2>2. CASE x # q /\ x >= p
    <3>1. x + 1 \in (x + 1)..q /\ x + 1 >= p /\ x \in p..(q - 1) /\ x \in 0..(n - 1) /\ x + 1 \in 0..n
      BY <1>0, <2>2
    <3>2. g[x + 1] = g[q]
      BY <1>1, <3>1
    <3>3. g[x] = <<>> \o g[x + 1]
      BY <3>1, Zenon DEF Skips
    <3>4. g[x + 1] \in Seq(T)
      BY <1>0, <3>1
    <3>5. <<>> \o g[x + 1] = g[x + 1]
      BY <3>4, ConcatEmptySeq
    <3> QED
      BY <3>2, <3>3, <3>5, Zenon
  <2>3. CASE ~(x >= p)
    BY <2>3
  <2> QED
    BY <2>1, <2>2, <2>3
<1>2. p \in S
  <2> HIDE DEF S
  <2>1. 0 \in Nat /\ q \in Nat
    BY <1>0
  <2>2. \A x \in 0..q : x \in S
    BY <1>1, <2>1, Descent
  <2> QED
    BY <2>2
<1> QED
  BY <1>2

(* e is where a search stops that found the start code r, or the end. *)
Stops(d, e, r) ==
  \/ r = Len(d) /\ e = Len(d)
  \/ r \in Codes(d) /\ (e = r \/ (e = r - 1 /\ e \in Nat /\ At(d, e) = 0))

LEMMA CodesOf ==
  ASSUME NEW d \in Seq(Int), NEW r \in Codes(d)
  PROVE  /\ r \in Nat /\ r <= Len(d) - 4
         /\ At(d, r) = 0 /\ At(d, r + 1) = 0 /\ At(d, r + 2) = 1
         /\ r + 1 \notin Codes(d) /\ r + 2 \notin Codes(d)
<1>1. r \in 0..(Len(d) - 4) /\ IsCode(d, r)
  BY DEF Codes
<1>2. r \in Nat /\ r <= Len(d) - 4
  BY <1>1
<1>3. At(d, r) = 0 /\ At(d, r + 1) = 0 /\ At(d, r + 2) = 1
  BY <1>1, Zenon DEF IsCode
<1>4. (r + 1) + 1 = r + 2 /\ 0 # 1
  BY <1>2
<1>5. ~IsCode(d, r + 1) /\ ~IsCode(d, r + 2)
  BY <1>3, <1>4, Zenon DEF IsCode
<1> QED
  BY <1>2, <1>3, <1>5, Zenon DEF Codes

LEMMA FoundStops ==
  ASSUME NEW d \in Seq(Int), NEW base \in Nat, NEW s \in 0..Len(d)
  PROVE  LET e == avc_find_start_code(d, s, base) IN
         \E r \in s..Len(d) :
           /\ Stops(d, e, r) /\ \A k \in s..(r - 1) : k \notin Codes(d)
           /\ e = IF s < r /\ r < Len(d) /\ At(d, r - 1) = 0 THEN r - 1 ELSE r
           /\ e \in s..Len(d) /\ (r # Len(d) => r \in Codes(d))
<1> DEFINE n == Len(d)
           e == avc_find_start_code(d, s, base)
<1>0. n \in Nat /\ s \in Nat /\ s <= n
  OBVIOUS
<1>1. e \in s..n /\ \E r \in 0..n : /\ IsFirst(d, s, r)
                                    /\ e = IF s < r /\ r < n /\ At(d, r - 1) = 0 THEN r - 1 ELSE r
  BY FoundAt, Zenon
<1>2. PICK r \in 0..n : /\ IsFirst(d, s, r)
                        /\ e = IF s < r /\ r < n /\ At(d, r - 1) = 0 THEN r - 1 ELSE r
  BY <1>1, Zenon
<1> HIDE DEF e
<1>3. \A k \in Codes(d) : k \in 0..(n - 4) /\ IsCode(d, k)
  BY Zenon DEF Codes
<1>4. CASE r = n
  <2>1. e = n /\ n \in s..n
    BY <1>0, <1>2, <1>4
  <2>2. \A q \in s..(n - 4) : ~IsCode(d, q)
    <3>1. ~(n \in s..(n - 4))
      BY <1>0
    <3> QED
      BY <1>2, <1>4, <3>1, Zenon DEF IsFirst
  <2>3. \A k \in s..(n - 1) : k \in 0..(n - 4) => k \in s..(n - 4)
    BY <1>0
  <2>4. \A k \in s..(n - 1) : k \notin Codes(d)
    BY <1>3, <2>2, <2>3, Zenon
  <2> QED
    BY <1>1, <1>2, <1>4, <2>1, <2>4, Zenon DEF Stops, e
<1>5. CASE r # n
  <2>1. r \in s..(n - 4) /\ IsCode(d, r) /\ \A q \in s..(r - 1) : ~IsCode(d, q)
    BY <1>2, <1>5, Zenon DEF IsFirst
  <2>2. r \in 0..(n - 4) /\ r \in s..n
    BY <1>0, <2>1
  <2>3. r \in Codes(d)
    BY <2>1, <2>2, Zenon DEF Codes
  <2>4. \A k \in s..(r - 1) : k \notin Codes(d)
    BY <1>3, <2>1, Zenon
  <2>5. e = r \/ (e = r - 1 /\ e \in Nat /\ At(d, e) = 0)
    <3>1. CASE s < r /\ r < n /\ At(d, r - 1) = 0
      <4>1. r - 1 \in Nat
        BY <1>0, <2>2, <3>1
      <4> QED
        BY <1>2, <3>1, <4>1, Zenon
    <3>2. CASE ~(s < r /\ r < n /\ At(d, r - 1) = 0)
      BY <1>2, <3>2, Zenon
    <3> QED
      BY <3>1, <3>2
  <2> QED
    BY <1>1, <1>2, <2>2, <2>3, <2>4, <2>5, Zenon DEF Stops, e
<1> QED
  BY <1>4, <1>5

(* What the reference says about the end of a unit is what the search for  *)
(* the next start code gives.                                              *)
LEMMA SentEndFound ==
  ASSUME NEW d \in Seq(Int), NEW r \in Codes(d), NEW q \in (r + 3)..Len(d),
         \A k \in (r + 3)..(q - 1) : k \notin Codes(d), q # Len(d) => q \in Codes(d)
  PROVE  SentEnd(d, r) = IF r + 3 < q /\ q < Len(d) /\ At(d, q - 1) = 0 THEN q - 1 ELSE q
<1> DEFINE n == Len(d)
           L == {k \in Codes(d) : k > r}
<1>0. n \in Nat /\ r \in Nat /\ r <= n - 4 /\ r + 1 \notin Codes(d) /\ r + 2 \notin Codes(d)
  BY CodesOf
<1>1. SentEnd(d, r) = IF L = {} THEN n
                      ELSE IF Min(L) - 1 >= r + 3 /\ At(d, Min(L) - 1) = 0
                      THEN Min(L) - 1 ELSE Min(L)
  BY Zenon DEF SentEnd
<1>2. \A k \in Codes(d) : k \in Nat /\ k <= n - 4
  BY DEF Codes
<1>3. ASSUME NEW k \in L PROVE k >= q
  <2>1. k \in Codes(d) /\ k > r /\ k \in Nat
    BY <1>2
  <2>2. k # r + 1 /\ k # r + 2
    BY <1>0, <2>1, Zenon
  <2>3. k \notin (r + 3)..(q - 1)
    BY <2>1, Zenon
  <2> QED
    BY <1>0, <2>1, <2>2, <2>3
<1>4. CASE q = n
  <2>1. L = {}
    <3>1. \A k \in L : k <= n - 4 /\ k \in Nat
      BY <1>2
    <3>2. \A k \in L : FALSE
      <4> SUFFICES ASSUME NEW k \in L PROVE FALSE
        OBVIOUS
      <4>1. k >= q /\ k <= n - 4 /\ k \in Nat
        BY <1>3, <3>1, Zenon
      <4> QED
        BY <1>0, <1>4, <4>1
    <3> QED
      BY <3>2, Zenon
  <2>2. SentEnd(d, r) = n /\ ~(q < n)
    BY <1>0, <1>1, <1>4, <2>1
  <2> QED
    BY <1>4, <2>2, Zenon
<1>5. CASE q # n
  <2>1. q \in L
    BY <1>0, <1>5
  <2>2. Min(L) = q
    <3>1. L \in SUBSET Nat /\ L # {}
      BY <1>2, <2>1
    <3>2. Min(L) \in L /\ \A y \in L : Min(L) <= y
      <4> HIDE DEF L
      <4> QED
        BY <3>1, MinIs
    <3>3. Min(L) >= q /\ Min(L) <= q /\ Min(L) \in Nat
      <4> HIDE DEF L
      <4> QED
        BY <1>3, <2>1, <3>1, <3>2
    <3> DEFINE m == Min(L)
    <3> HIDE DEF m
    <3>4. m = q
      BY <1>0, <3>3 DEF m
    <3> QED
      BY <3>4 DEF m
  <2>3. SentEnd(d, r) = IF q - 1 >= r + 3 /\ At(d, q - 1) = 0 THEN q - 1 ELSE q
    BY <1>1, <2>1, <2>2, Zenon
  <2>4. q < n /\ (q - 1 >= r + 3 <=> r + 3 < q)
    BY <1>0, <1>5
  <2> QED
    BY <2>3, <2>4, Zenon
<1> QED
  BY <1>4, <1>5

(* The reference with the ends of the search, as a recursion. *)
LEMMA SentSpansSteps ==
  ASSUME NEW d \in Seq(Int)
  PROVE  \E f : /\ f \in [0..Len(d) -> Seq({<<p + 3, SentEnd(d, p)>> : p \in Codes(d)})]
                /\ f[Len(d)] = <<>>
                /\ \A p \in 0..(Len(d) - 1) :
                     f[p] = (IF p \in Codes(d) THEN <<<<p + 3, SentEnd(d, p)>>>> ELSE <<>>)
                              \o f[p + 1]
                /\ SentSpans(d) = f[0]
<1> DEFINE end == [p \in Codes(d) |-> SentEnd(d, p)]
<1>1. \A p \in Codes(d) : end[p] = SentEnd(d, p)
  OBVIOUS
<1>2. SentSpans(d) = Spans(d, end)
  BY DEF SentSpans
<1> HIDE DEF end
<1>3. {<<p + 3, end[p]>> : p \in Codes(d)} = {<<p + 3, SentEnd(d, p)>> : p \in Codes(d)}
  BY <1>1
<1>4. \A p : (IF p \in Codes(d) THEN <<<<p + 3, end[p]>>>> ELSE <<>>)
              = (IF p \in Codes(d) THEN <<<<p + 3, SentEnd(d, p)>>>> ELSE <<>>)
  BY <1>1, Zenon
<1>5. PICK f : /\ f \in [0..Len(d) -> Seq({<<p + 3, end[p]>> : p \in Codes(d)})]
               /\ f[Len(d)] = <<>>
               /\ \A p \in 0..(Len(d) - 1) :
                    f[p] = (IF p \in Codes(d) THEN <<<<p + 3, end[p]>>>> ELSE <<>>) \o f[p + 1]
               /\ Spans(d, end) = f[0]
  BY SpansSteps, Zenon
<1>6. f \in [0..Len(d) -> Seq({<<p + 3, SentEnd(d, p)>> : p \in Codes(d)})]
  BY <1>3, <1>5, Zenon
<1>7. \A p \in 0..(Len(d) - 1) :
        f[p] = (IF p \in Codes(d) THEN <<<<p + 3, SentEnd(d, p)>>>> ELSE <<>>) \o f[p + 1]
  BY <1>4, <1>5, Zenon
<1> QED
  BY <1>2, <1>5, <1>6, <1>7, Zenon

(* The loop of send_data finds exactly the start codes of the byte stream. *)
LEMMA UnitsAreSpans ==
  ASSUME NEW d \in Seq(Int), NEW base \in Nat
  PROVE  Units(d, base) = SentSpans(d)
<1> DEFINE n == Len(d)
           C == Codes(d)
           Find(s) == avc_find_start_code(d, s, base)
           B(p) == SkipCode(d, p)
           I(p) == IF p \in C THEN <<<<p + 3, SentEnd(d, p)>>>> ELSE <<>>
           T == {<<p + 3, SentEnd(d, p)>> : p \in C}
<1>0. n \in Nat
  OBVIOUS
<1>1. PICK f : /\ f[n] = <<>>
               /\ \A p \in 0..(n - 1) : f[p] = <<<<B(p), Find(B(p))>>>> \o f[Find(B(p))]
               /\ Units(d, base) = f[Find(0)]
  BY UnitsSteps, Zenon
<1>2. PICK g : /\ g \in [0..n -> Seq(T)] /\ g[n] = <<>>
               /\ \A p \in 0..(n - 1) : g[p] = I(p) \o g[p + 1]
               /\ SentSpans(d) = g[0]
  BY SentSpansSteps, Zenon
<1>3. \A q \in 0..n : \A p \in 0..q : (\A k \in p..(q - 1) : k \notin C) => g[p] = g[q]
  <2>1. Skips(g, C, T, n)
    BY <1>0, <1>2, Zenon DEF Skips
  <2> HIDE DEF T, C, n
  <2> QED
    BY <2>1, SpansSkip
<1> DEFINE S == {r \in 0..n : \A e \in 0..n : Stops(d, e, r) => f[e] = g[r]}
<1>4. ASSUME NEW r \in 0..n, \A q \in (r + 1)..n : q \in S PROVE r \in S
  <2> SUFFICES ASSUME NEW e \in 0..n, Stops(d, e, r) PROVE f[e] = g[r]
    BY Zenon
  <2>1. CASE r = n /\ e = n
    BY <1>1, <1>2, <2>1, Zenon
  <2>2. CASE r \in C /\ (e = r \/ (e = r - 1 /\ e \in Nat /\ At(d, e) = 0))
    <3>1. /\ r \in Nat /\ r <= n - 4
          /\ At(d, r) = 0 /\ At(d, r + 1) = 0 /\ At(d, r + 2) = 1
      BY <2>2, CodesOf
    <3>2. B(e) = r + 3
      <4>1. /\ e \in 0..(n - 1) /\ r + 2 \in e..(n - 1) /\ (r + 2) + 1 = r + 3
            /\ \A j \in e..((r + 2) - 1) : j = e \/ j = r \/ j = r + 1
        BY <1>0, <2>2, <3>1
      <4>2. At(d, r + 2) # 0
        BY <3>1
      <4>3. \A j \in e..((r + 2) - 1) : At(d, j) = 0
        BY <2>2, <3>1, <4>1, Zenon
      <4> QED
        BY <4>1, <4>2, <4>3, Skipped, Zenon
    <3> DEFINE s == r + 3
               w == Find(s)
    <3>3. s \in 0..n /\ s \in Nat
      BY <1>0, <3>1
    <3>4. PICK q \in s..n :
             /\ Stops(d, w, q) /\ \A k \in s..(q - 1) : k \notin C
             /\ w = IF s < q /\ q < n /\ At(d, q - 1) = 0 THEN q - 1 ELSE q
             /\ w \in s..n /\ (q # n => q \in C)
      <4> HIDE DEF s
      <4> QED
        BY <3>3, FoundStops, Zenon
    <3>5. SentEnd(d, r) = w
      <4>1. SentEnd(d, r) = IF r + 3 < q /\ q < Len(d) /\ At(d, q - 1) = 0 THEN q - 1 ELSE q
        BY <2>2, <3>4, SentEndFound
      <4> HIDE DEF w
      <4> QED
        BY <3>4, <4>1, Zenon
    <3> HIDE DEF w
    <3>6. q \in (r + 1)..n /\ w \in 0..n /\ q \in 0..n
      BY <1>0, <3>1, <3>4
    <3>7. f[w] = g[q]
      <4>1. q \in S
        <5> HIDE DEF S
        <5> QED
          BY <1>4, <3>6, Zenon
      <4> QED
        BY <3>4, <3>6, <4>1, Zenon
    <3>8. g[r + 1] = g[q]
      <4>1. r + 1 \in 0..q /\ \A k \in (r + 1)..(q - 1) : k = r + 1 \/ k = r + 2 \/ k \in s..(q - 1)
        BY <1>0, <3>1, <3>4
      <4>2. r + 1 \notin C /\ r + 2 \notin C
        BY <2>2, CodesOf, Zenon
      <4>3. \A k \in (r + 1)..(q - 1) : k \notin C
        BY <3>4, <4>1, <4>2, Zenon
      <4> QED
        BY <1>3, <3>6, <4>1, <4>3, Zenon
    <3>9. e \in 0..(n - 1) /\ r \in 0..(n - 1)
      BY <1>0, <2>2, <3>1
    <3>10. f[e] = <<<<r + 3, w>>>> \o f[w]
      <4>1. f[e] = <<<<B(e), Find(B(e))>>>> \o f[Find(B(e))]
        BY <1>1, <3>9, Zenon
      <4> HIDE DEF B, Find
      <4> QED
        BY <3>2, <4>1, Zenon DEF w
    <3>11. g[r] = <<<<r + 3, w>>>> \o g[r + 1]
      <4>1. g[r] = I(r) \o g[r + 1]
        BY <1>2, <3>9, Zenon
      <4>2. I(r) = <<<<r + 3, w>>>>
        BY <2>2, <3>5, Zenon
      <4> HIDE DEF I
      <4> QED
        BY <4>1, <4>2, Zenon
    <3> QED
      BY <3>7, <3>8, <3>10, <3>11, Zenon
  <2> QED
    BY <2>1, <2>2, Zenon DEF Stops
<1>5. \A r \in 0..n : r \in S
  <2>1. 0 \in Nat
    OBVIOUS
  <2> HIDE DEF S, n
  <2> QED
    BY <1>0, <1>4, <2>1, Descent
<1>6. 0 \in 0..n
  BY <1>0
<1>7. PICK r \in 0..n :
         /\ Stops(d, Find(0), r) /\ \A k \in 0..(r - 1) : k \notin C
         /\ Find(0) \in 0..n
  BY <1>6, FoundStops, Zenon
<1>8. f[Find(0)] = g[r]
  BY <1>5, <1>7, Zenon
<1>9. g[0] = g[r]
  <2>1. 0 \in 0..r
    BY <1>0
  <2> QED
    BY <1>3, <1>7, <2>1, Zenon
<1> QED
  BY <1>1, <1>2, <1>8, <1>9, Zenon

(* The fold of count_avc_key_frames counts the fives. *)
Counted(count, t) == IF t = 5 THEN count + 1 ELSE count

LEMMA FivesCounted ==
  ASSUME NEW n \in Nat, NEW s, DOMAIN s = 1..n
  PROVE  FoldLeft(LAMBDA count, t : IF t = 5 THEN count + 1 ELSE count, 0, s)
           = Cardinality({i \in 1..n : s[i] = 5})
<1> DEFINE step == [z \in (1..n) \X Int |-> Counted(z[2], s[z[1]])]
<1>0. \A x : \A v \in Int : Counted(v, x) \in Int
  BY DEF Counted
<1>2. step \in [(1..n) \X Int -> Int]
  <2> SUFFICES ASSUME NEW z \in (1..n) \X Int PROVE Counted(z[2], s[z[1]]) \in Int
    OBVIOUS
  <2>1. z[2] \in Int
    OBVIOUS
  <2> QED
    BY <1>0, <2>1, Zenon
<1>3. HasMax(n) /\ \E F \in [SUBSET (1..n) -> Int] : Folded(F, 0, step, n)
  <2>1. 0 \in Int
    OBVIOUS
  <2> HIDE DEF step
  <2> QED
    BY <1>2, <2>1, FoldExists, Zenon
<1>4. PICK F \in [SUBSET (1..n) -> Int] : Folded(F, 0, step, n)
  BY <1>3, Zenon
<1> DEFINE R(f) == f = [q \in SUBSET (1..n) |-> IF q = {} THEN 0
                          ELSE Counted(f[q \ {Max(q)}], s[Max(q)])]
           c == CHOOSE f : R(f)
<1>5. R(F)
  <2> SUFFICES ASSUME NEW q \in SUBSET (1..n)
               PROVE  F[q] = IF q = {} THEN 0 ELSE Counted(F[q \ {Max(q)}], s[Max(q)])
    BY Zenon
  <2>1. CASE q = {}
    BY <1>4, <2>1, Zenon DEF Folded
  <2>2. CASE q # {}
    <3>1. F[q] = step[<<Max(q), F[q \ {Max(q)}]>>]
      BY <1>4, <2>2, Zenon DEF Folded
    <3>2. Max(q) \in 1..n /\ F[q \ {Max(q)}] \in Int
      BY <1>3, <2>2, Zenon DEF HasMax
    <3>3. <<Max(q), F[q \ {Max(q)}]>> \in (1..n) \X Int
      BY <3>2
    <3> QED
      BY <2>2, <3>1, <3>3, Zenon
  <2> QED
    BY <2>1, <2>2
<1>6. FoldLeft(LAMBDA count, t : IF t = 5 THEN count + 1 ELSE count, 0, s) = c[1..n]
  BY DEF FoldLeft, MapThenFoldSet, Counted
<1>7. R(c)
  <2> HIDE DEF R
  <2> QED
    BY <1>5
<1>8. c[1..0] = 0
  <2>1. 1..0 = {}
    OBVIOUS
  <2> HIDE DEF c
  <2> QED
    BY <1>7, <2>1
<1>9. ASSUME NEW i \in 1..n PROVE c[1..i] = Counted(c[1..(i - 1)], s[i])
  <2>1. 1..i \in SUBSET (1..n) /\ i \in 1..i /\ (1..i) \ {i} = 1..(i - 1)
    OBVIOUS
  <2>2. Max(1..i) = i
    BY DEF Max
  <2> DEFINE q == 1..i
  <2> HIDE DEF c
  <2>3. c[q] = Counted(c[q \ {Max(q)}], s[Max(q)])
    <3> HIDE DEF q
    <3>1. q \in SUBSET (1..n) /\ q # {}
      BY <2>1 DEF q
    <3> QED
      BY <1>7, <3>1, Zenon
  <2> QED
    BY <2>1, <2>2, <2>3, Zenon
<1> HIDE DEF c, R
<1> DEFINE Fives(i) == {j \in 1..i : s[j] = 5}
           S == {i \in 0..n : IsFiniteSet(Fives(i)) /\ c[1..i] = Cardinality(Fives(i))}
<1>10. 0 \in S
  <2>1. Fives(0) = {} /\ 0 \in 0..n
    OBVIOUS
  <2>2. IsFiniteSet({}) /\ Cardinality({}) = 0
    BY FS_EmptySet
  <2> HIDE DEF Fives
  <2> QED
    BY <1>8, <2>1, <2>2
<1>11. ASSUME NEW i \in 0..(n - 1), i \in S PROVE i + 1 \in S
  <2>1. i + 1 \in 1..n /\ (i + 1) - 1 = i /\ i + 1 \in 0..n
    OBVIOUS
  <2>2. c[1..(i + 1)] = Counted(c[1..i], s[i + 1])
    BY <1>9, <2>1, Zenon
  <2>3. IsFiniteSet(Fives(i)) /\ c[1..i] = Cardinality(Fives(i))
    <3> HIDE DEF Fives
    <3> QED
      BY <1>11
  <2>4. CASE s[i + 1] = 5
    <3>1. Fives(i + 1) = Fives(i) \cup {i + 1} /\ i + 1 \notin Fives(i)
      BY <2>1, <2>4
    <3> HIDE DEF Fives
    <3>2. /\ IsFiniteSet(Fives(i) \cup {i + 1})
          /\ Cardinality(Fives(i) \cup {i + 1}) = Cardinality(Fives(i)) + 1
      BY <2>3, <3>1, FS_AddElement
    <3>3. c[1..(i + 1)] = Cardinality(Fives(i)) + 1
      BY <2>2, <2>3, <2>4, Zenon DEF Counted
    <3> QED
      BY <2>1, <3>1, <3>2, <3>3, Zenon
  <2>5. CASE s[i + 1] # 5
    <3>1. Fives(i + 1) = Fives(i)
      BY <2>1, <2>5
    <3> HIDE DEF Fives
    <3>2. c[1..(i + 1)] = Cardinality(Fives(i))
      BY <2>2, <2>3, <2>5, Zenon DEF Counted
    <3> QED
      BY <2>1, <2>3, <3>1, <3>2, Zenon
  <2> QED
    BY <2>4, <2>5
<1>12. n \in S
  <2> HIDE DEF S
  <2>1. \A i \in 0..n : i \in S
    BY <1>10, <1>11, Induction
  <2> QED
    BY <2>1
<1> QED
  BY <1>6, <1>12, Zenon

(* In a tidy stream the search ends each unit where Annex B does. *)
LEMMA TidyEnds ==
  ASSUME NEW d \in Seq(Int), Tidy(d), NEW p \in Codes(d)
  PROVE  UnitEnd(d, p) = SentEnd(d, p)
<1> DEFINE n == Len(d)
           L == {q \in Codes(d) : q > p}
           later == {q \in (p + 1)..(n - 3) : IsCode(d, q)}
           next == Min(later \cup {n})
           Ends == {e \in (p + 3)..next : \A k \in e..(next - 1) : At(d, k) = 0}
<1>0. n \in Nat /\ p \in Nat /\ p <= n - 4 /\ p + 1 \notin Codes(d) /\ p + 2 \notin Codes(d)
  BY CodesOf
<1>1. UnitEnd(d, p) = Min(Ends)
  BY Zenon DEF UnitEnd
<1>2. /\ SentEnd(d, p) = IF L = {} THEN n
                         ELSE IF Min(L) - 1 >= p + 3 /\ At(d, Min(L) - 1) = 0
                         THEN Min(L) - 1 ELSE Min(L)
  BY Zenon DEF SentEnd
<1>3. At(d, n - 1) # 0 /\ ~IsCode(d, n - 3)
  BY <1>0 DEF Tidy
<1>4. \A i \in 1..(n - 4) : SubSeq(d, i, i + 4) # <<0, 0, 0, 0, 1>>
  BY DEF Tidy
<1>5. later = L
  <2>1. \A q : q \in L <=> q \in 0..(n - 4) /\ IsCode(d, q) /\ q > p
    BY Zenon DEF Codes
  <2>2. \A q : q \in later <=> q \in (p + 1)..(n - 3) /\ IsCode(d, q)
    BY Zenon
  <2>3. \A q : q \in (p + 1)..(n - 3) <=> (q \in 0..(n - 4) /\ q > p) \/ q = n - 3
    <3> HIDE DEF n
    <3>1. ASSUME NEW q \in (p + 1)..(n - 3) PROVE (q \in 0..(n - 4) /\ q > p) \/ q = n - 3
      BY <1>0
    <3>2. ASSUME NEW q \in 0..(n - 4), q > p PROVE q \in (p + 1)..(n - 3)
      BY <1>0, <3>2
    <3>3. n - 3 \in (p + 1)..(n - 3)
      BY <1>0
    <3> QED
      BY <3>1, <3>2, <3>3, Zenon
  <2> HIDE DEF L, later
  <2>4. \A q : q \in later <=> q \in L
    BY <1>3, <2>1, <2>2, <2>3, Zenon
  <2> QED
    BY <2>4, Zenon
<1>6. ASSUME NEW E \in SUBSET Nat, NEW e \in E, \A x \in E : e <= x
      PROVE  Min(E) = e
  <2>1. Min(E) \in E /\ \A y \in E : Min(E) <= y
    BY <1>6, MinIs
  <2> DEFINE m == Min(E)
  <2>2. m \in Nat /\ e \in Nat /\ m <= e /\ e <= m
    BY <1>6, <2>1
  <2> HIDE DEF m
  <2>3. m = e
    BY <2>2
  <2> QED
    BY <2>3 DEF m
<1>7. CASE L = {}
  <2>1. next = n
    <3>1. later \cup {n} = {n}
      BY <1>5, <1>7, Zenon
    <3>2. Min({n}) = n
      BY <1>0, <1>6
    <3> QED
      BY <3>1, <3>2, Zenon
  <2> HIDE DEF next
  <2>2. n \in Ends /\ Ends \in SUBSET Nat
    BY <1>0, <2>1
  <2>3. ASSUME NEW e \in Ends PROVE n <= e
    <3>1. e \in Nat /\ e <= n /\ \A k \in e..(n - 1) : At(d, k) = 0
      BY <1>0, <2>1
    <3>2. n - 1 \notin e..(n - 1)
      BY <1>3, <3>1, Zenon
    <3> QED
      BY <1>0, <3>1, <3>2
  <2> HIDE DEF Ends
  <2>4. Min(Ends) = n
    BY <1>6, <2>2, <2>3
  <2> QED
    BY <1>1, <1>2, <1>7, <2>4, Zenon
<1>8. CASE L # {}
  <2>1. L \in SUBSET Nat /\ \A q \in L : q \in Codes(d) /\ q > p /\ q <= n - 4
    BY <1>0 DEF Codes
  <2>2. PICK q \in L : q = Min(L) /\ \A y \in L : q <= y
    <3> HIDE DEF L
    <3> QED
      BY <1>8, <2>1, MinIs
  <2>3. q \in Codes(d) /\ q > p /\ q <= n - 4 /\ q \in Nat
    BY <2>1, <2>2
  <2>4. q >= p + 3 /\ q \in Nat
    <3>1. q # p + 1 /\ q # p + 2
      BY <1>0, <2>3, Zenon
    <3> QED
      BY <1>0, <2>3, <3>1
  <2>5. next = q
    <3> DEFINE M == L \cup {n}
    <3>1. M \in SUBSET Nat /\ q \in M /\ \A x \in M : q <= x
      <4> HIDE DEF L, n
      <4>1. q <= n
        BY <1>0, <2>3
      <4> QED
        BY <1>0, <2>1, <2>2, <4>1
    <3>2. Min(M) = q
      <4> HIDE DEF M
      <4> QED
        BY <1>6, <3>1
    <3> HIDE DEF L, later
    <3> QED
      BY <1>5, <3>2, Zenon
  <2> HIDE DEF next, L
  <2>6. At(d, q) = 0 /\ At(d, q + 1) = 0 /\ At(d, q + 2) = 1
    BY <2>3, CodesOf
  <2>7. Ends \in SUBSET Nat
    BY <1>0, <2>5
  <2>8. CASE q - 1 >= p + 3 /\ At(d, q - 1) = 0
    <3>1. SentEnd(d, p) = q - 1
      BY <1>2, <1>8, <2>2, <2>8, Zenon
    <3>2. q - 1 \in Ends
      <4>1. q - 1 \in (p + 3)..q /\ \A k \in (q - 1)..(q - 1) : k = q - 1
        BY <1>0, <2>4, <2>8
      <4> QED
        BY <2>5, <2>8, <4>1, Zenon
    <3>3. ASSUME NEW e \in Ends, e < q - 1 PROVE FALSE
      <4>1. e \in (p + 3)..q /\ \A k \in e..(q - 1) : At(d, k) = 0
        BY <2>5, Zenon
      <4>2. q - 2 \in e..(q - 1) /\ q - 1 \in 1..(n - 4)
        BY <1>0, <2>3, <3>3, <4>1
      <4>3. At(d, q - 2) = 0
        BY <4>1, <4>2, Zenon
      <4>4. SubSeq(d, q - 1, (q - 1) + 4) = <<0, 0, 0, 0, 1>>
        <5>1. d[q - 1] = 0 /\ d[q] = 0 /\ d[q + 1] = 0 /\ d[q + 2] = 0 /\ d[q + 3] = 1
          BY <1>0, <2>3, <2>6, <2>8, <4>3 DEF At
        <5>2. SubSeq(d, q - 1, (q - 1) + 4) = [i \in 1..5 |-> d[(q - 1) + i - 1]]
          BY <1>0, <2>3, <4>2
        <5>3. <<0, 0, 0, 0, 1>> = [i \in 1..5 |-> IF i = 5 THEN 1 ELSE 0]
          OBVIOUS
        <5>4. \A i \in 1..5 : d[(q - 1) + i - 1] = IF i = 5 THEN 1 ELSE 0
          <6>1. \A i \in 1..5 : i \in {1, 2, 3, 4, 5}
            OBVIOUS
          <6> QED
            BY <2>3, <5>1, <6>1
        <5> QED
          BY <5>2, <5>3, <5>4
      <4> QED
        BY <1>4, <4>2, <4>4, Zenon
    <3>4. \A e \in Ends : q - 1 <= e
      BY <2>3, <2>7, <3>3
    <3>5. Min(Ends) = q - 1
      <4> HIDE DEF Ends
      <4> QED
        BY <1>6, <2>7, <3>2, <3>4
    <3> QED
      BY <1>1, <3>1, <3>5, Zenon
  <2>9. CASE ~(q - 1 >= p + 3 /\ At(d, q - 1) = 0)
    <3>1. SentEnd(d, p) = q
      BY <1>2, <1>8, <2>2, <2>9, Zenon
    <3>2. q \in Ends
      BY <1>0, <2>4, <2>5
    <3>3. ASSUME NEW e \in Ends, e < q PROVE FALSE
      <4>1. e \in (p + 3)..q /\ \A k \in e..(q - 1) : At(d, k) = 0
        BY <2>5, Zenon
      <4>2. q - 1 \in e..(q - 1) /\ q - 1 >= p + 3
        BY <1>0, <2>3, <3>3, <4>1
      <4> QED
        BY <2>9, <4>1, <4>2, Zenon
    <3>4. \A e \in Ends : q <= e
      BY <2>3, <2>7, <3>3
    <3>5. Min(Ends) = q
      <4> HIDE DEF Ends
      <4> QED
        BY <1>6, <2>7, <3>2, <3>4
    <3> QED
      BY <1>1, <3>1, <3>5, Zenon
  <2> QED
    BY <2>8, <2>9
<1> QED
  BY <1>7, <1>8

(* For every byte stream and every alignment of its buffer, send_data      *)
(* takes out the units of Annex B if the stream is tidy, and if not those  *)
(* with the bytes that avc_find_start_code leaves behind them; and the     *)
(* functions that look for or count frames see each unit once, with its    *)
(* type: the word-wise search misses no start code and reports none twice. *)
THEOREM UnitsExact ==
  \A d \in Seq(0..255), base \in Nat :
    LET types == CodeTypes(d)
        slices == {i \in DOMAIN types : types[i] \in {1, 5}}
    IN  /\ Tidy(d) => send_data(d, base) = AnnexBUnits(d)
        /\ send_data(d, base) = Kept(d, SentSpans(d))
        /\ count_frames(d, base) = Len(types)
        /\ count_avc_key_frames(d, base) =
             Cardinality({i \in DOMAIN types : types[i] = 5})
        /\ avc_find_key_frame(d, base) <=>
             slices # {} /\ types[Min(slices)] = 5
        /\ avc_find_sps_pps_idr(d, base) <=>
             \E i \in DOMAIN types : types[i] \in {5, 7, 8}
<1> SUFFICES ASSUME NEW d \in Seq(Byte), NEW base \in Nat
             PROVE  LET types == CodeTypes(d)
                        slices == {i \in DOMAIN types : types[i] \in {1, 5}}
                    IN  /\ Tidy(d) => send_data(d, base) = AnnexBUnits(d)
                        /\ send_data(d, base) = Kept(d, SentSpans(d))
                        /\ count_frames(d, base) = Len(types)
                        /\ count_avc_key_frames(d, base) =
                             Cardinality({i \in DOMAIN types : types[i] = 5})
                        /\ avc_find_key_frame(d, base) <=>
                             slices # {} /\ types[Min(slices)] = 5
                        /\ avc_find_sps_pps_idr(d, base) <=>
                             \E i \in DOMAIN types : types[i] \in {5, 7, 8}
  BY Zenon DEF Byte
<1>1. d \in Seq(Int)
  BY ByteInt
<1> DEFINE us == Units(d, base)
           types == CodeTypes(d)
           slices == {i \in DOMAIN types : types[i] \in {1, 5}}
           n == Len(us)
<1>2. us = SentSpans(d)
  BY <1>1, UnitsAreSpans
<1>3. us \in Seq({<<p + 3, SentEnd(d, p)>> : p \in Codes(d)})
  <2> DEFINE T == {<<p + 3, SentEnd(d, p)>> : p \in Codes(d)}
  <2>1. PICK f : f \in [0..Len(d) -> Seq(T)] /\ SentSpans(d) = f[0]
    BY <1>1, SentSpansSteps, Zenon
  <2>2. 0 \in 0..Len(d)
    BY <1>1
  <2> HIDE DEF us, T
  <2> QED
    BY <1>2, <2>1, <2>2, Zenon DEF T
<1>4. n \in Nat /\ DOMAIN us = 1..n
  <2> DEFINE T == {<<p + 3, SentEnd(d, p)>> : p \in Codes(d)}
  <2> HIDE DEF T, us
  <2> QED
    BY <1>3 DEF T
<1>5. types = [i \in DOMAIN us |-> At(d, us[i][1]) % 32]
  <2> HIDE DEF us
  <2> QED
    BY <1>2, Zenon DEF CodeTypes
<1>6. Types(d, base) = types
  <2>1. Types(d, base) = [i \in DOMAIN us |-> At(d, us[i][1]) % 32]
    BY Zenon DEF Types
  <2> HIDE DEF us, types
  <2> QED
    BY <1>5, <2>1, Zenon
<1>7. send_data(d, base) = Kept(d, SentSpans(d))
  BY <1>2, Zenon DEF send_data
<1>13. Tidy(d) => send_data(d, base) = AnnexBUnits(d)
  <2> HAVE Tidy(d)
  <2>1. \A p \in Codes(d) : UnitEnd(d, p) = SentEnd(d, p)
    BY <1>1, TidyEnds, Zenon
  <2>2. [p \in Codes(d) |-> UnitEnd(d, p)] = [p \in Codes(d) |-> SentEnd(d, p)]
    BY <2>1, Zenon
  <2> QED
    BY <1>7, <2>2, Zenon DEF AnnexBUnits, SentSpans
<1>8. count_frames(d, base) = n
  BY Zenon DEF count_frames
<1> HIDE DEF us, types, n
<1>9. DOMAIN types = 1..n /\ Len(types) = n
  <2>1. DOMAIN types = 1..n
    BY <1>4, <1>5, Zenon
  <2>2. types \in Seq({types[i] : i \in 1..n})
    <3>1. types = [i \in 1..n |-> types[i]]
      BY <1>4, <1>5, Zenon
    <3> QED
      BY <1>4, <3>1
  <2> QED
    BY <1>4, <2>1, <2>2
<1>10. count_avc_key_frames(d, base) = Cardinality({i \in DOMAIN types : types[i] = 5})
  <2>1. count_avc_key_frames(d, base)
          = FoldLeft(LAMBDA count, t : IF t = 5 THEN count + 1 ELSE count, 0, types)
    BY <1>6 DEF count_avc_key_frames
  <2> QED
    BY <1>4, <1>9, <2>1, FivesCounted
<1>11. avc_find_key_frame(d, base) <=> slices # {} /\ types[Min(slices)] = 5
  <2>1. avc_find_key_frame(d, base) <=>
          \E i \in 1..n : types[i] = 5 /\ \A j \in 1..(i - 1) : types[j] \notin {1, 5}
    BY <1>6, <1>9, Zenon DEF avc_find_key_frame
  <2>2. slices \in SUBSET Nat /\ slices = {i \in 1..n : types[i] \in {1, 5}}
    BY <1>4, <1>9
  <2>3. slices # {} => Min(slices) \in slices /\ \A y \in slices : Min(slices) <= y
    <3> HIDE DEF slices
    <3> QED
      BY <2>2, MinIs
  <2>4. ASSUME NEW i \in 1..n, types[i] = 5, \A j \in 1..(i - 1) : types[j] \notin {1, 5}
        PROVE  slices # {} /\ Min(slices) = i
    <3>1. i \in slices
      BY <1>9, <2>4
    <3>2. Min(slices) \in slices /\ Min(slices) <= i
      BY <2>3, <3>1
    <3> DEFINE m == Min(slices)
    <3>3. m \in 1..n /\ types[m] \in {1, 5} /\ m <= i
      <4> HIDE DEF m
      <4>1. m \in slices /\ m <= i
        BY <3>2 DEF m
      <4> QED
        BY <2>2, <4>1, Zenon
    <3> HIDE DEF m
    <3>4. m \notin 1..(i - 1)
      BY <2>4, <3>3, Zenon
    <3>5. m = i
      BY <1>4, <3>3, <3>4
    <3> QED
      BY <3>1, <3>5 DEF m
  <2>5. ASSUME slices # {}, types[Min(slices)] = 5
        PROVE  \E i \in 1..n : types[i] = 5 /\ \A j \in 1..(i - 1) : types[j] \notin {1, 5}
    <3> DEFINE m == Min(slices)
    <3>1. m \in slices /\ \A y \in slices : m <= y
      BY <2>3, <2>5, Zenon
    <3>2. types[m] = 5
      BY <2>5, Zenon
    <3> HIDE DEF m
    <3>3. m \in 1..n
      BY <2>2, <3>1, Zenon
    <3>4. ASSUME NEW j \in 1..(m - 1) PROVE types[j] \notin {1, 5}
      <4>1. j \in 1..n /\ ~(m <= j)
        BY <1>4, <3>3
      <4> QED
        BY <2>2, <3>1, <4>1, Zenon
    <3> QED
      BY <3>2, <3>3, <3>4, Zenon
  <2> HIDE DEF slices
  <2> QED
    BY <2>1, <2>4, <2>5, Zenon
<1>12. avc_find_sps_pps_idr(d, base) <=> \E i \in DOMAIN types : types[i] \in {5, 7, 8}
  BY <1>6 DEF avc_find_sps_pps_idr, Range
<1> QED
  BY <1>7, <1>8, <1>9, <1>10, <1>11, <1>12, <1>13, Zenon DEF types

(* The streams of the machine of the conversions are taken apart as they   *)
(* should be, at every alignment.                                          *)
THEOREM UnitsCorrect == Spec => []UnitsFound
<1>1. InputOK => UnitsFound
  <2> SUFFICES ASSUME InputOK, kind = "avc" PROVE UnitsFound
    BY DEF UnitsFound, SplitExact, ScansExact
  <2>1. input \in Seq(0..255)
    <3>1. input \in Seq(Alphabet["avc"])
      BY DEF InputOK
    <3>2. Alphabet["avc"] \subseteq 0..255
      BY DEF Alphabet
    <3> QED
      BY <3>1, <3>2
  <2>2. ASSUME NEW s \in Streams PROVE s.data \in Seq(0..255) /\ s.base \in Nat
    <3> DEFINE Fives(n) == [i \in 1..n |-> 5]
               Data(f, t) == Fives(f) \o input \o Fives(t)
    <3>1. Streams = {[base |-> b, data |-> Data(f, t)] :
                       b \in 0..3, f \in {0, 4, 7}, t \in {0, 3}}
      BY DEF Streams
    <3>2. ASSUME NEW f \in Nat, NEW t \in Nat PROVE Data(f, t) \in Seq(0..255)
      <4>1. Fives(f) \in Seq(0..255) /\ Fives(t) \in Seq(0..255)
        OBVIOUS
      <4> QED
        BY <2>1, <4>1
    <3> HIDE DEF Data
    <3>3. PICK b \in 0..3, f \in {0, 4, 7}, t \in {0, 3} : s = [base |-> b, data |-> Data(f, t)]
      BY <3>1
    <3>4. f \in Nat /\ t \in Nat /\ b \in Nat
      OBVIOUS
    <3> QED
      BY <3>2, <3>3, <3>4
  <2>3. SplitExact
    BY <2>2, UnitsExact, Zenon DEF SplitExact
  <2>4. ScansExact
    BY <2>2, UnitsExact, Zenon DEF ScansExact
  <2> QED
    BY <2>3, <2>4, Zenon DEF UnitsFound
<1> QED
  BY <1>1, InputTyped, PTL

----------------------------------------------------------------------------
(* The loop of count_aac_frames, as a recursion over positions: the headers *)
(* it meets from a position on are walked, and counted unless one is empty. *)
LEMMA CountSteps ==
  ASSUME NEW h \in Seq(Nat \union {-1})
  PROVE  \E c : /\ count_aac_frames(h) = c[0]
                /\ \A p \in 0..(2 * Len(h) + 1) :
                     c[p] = IF p + 7 > Len(h) \/ At(h, p) = -1 THEN 0
                            ELSE IF At(h, p) = 0 THEN -1
                            ELSE LET n == c[Smaller(p + At(h, p), 2 * Len(h) + 1)]
                                 IN  IF n = -1 THEN -1 ELSE n + 1
<1> DEFINE size == Len(h)
           m == 2 * size + 1
           Ends(p) == p + 7 > size \/ At(h, p) = -1
           Next1(p) == Smaller(p + At(h, p), m)
           Body(c, p) == IF Ends(p) THEN 0 ELSE IF At(h, p) = 0 THEN -1
                         ELSE LET n == c[Next1(p)] IN IF n = -1 THEN -1 ELSE n + 1
           R(c) == c = [p \in 0..m |-> Body(c, p)]
           Chosen == CHOOSE c : R(c)
           nx == [p \in 0..(m - 1) |-> IF Ends(p) \/ At(h, p) = 0 THEN m ELSE Next1(p)]
           item == [p \in 0..(m - 1) |->
                      IF Ends(p) THEN <<>> ELSE IF At(h, p) = 0 THEN <<-1>> ELSE <<1>>]
<1>1. count_aac_frames(h) = Chosen[0]
  BY DEF count_aac_frames
<1>2. size \in Nat /\ m \in Nat
  OBVIOUS
<1>3. ASSUME NEW p \in 0..m, ~Ends(p) PROVE p \in 0..(m - 1) /\ At(h, p) \in Nat
  BY <1>3 DEF At
<1>4. ASSUME NEW p \in 0..m, ~Ends(p), At(h, p) # 0
      PROVE  Next1(p) \in 0..m /\ Next1(p) > p
  BY <1>3, <1>4 DEF Smaller
<1>5. Forward(nx, m)
  <2>1. ASSUME NEW p \in 0..(m - 1)
        PROVE  LET q == IF Ends(p) \/ At(h, p) = 0 THEN m ELSE Next1(p)
               IN  q \in 0..m /\ q > p
    <3> HIDE DEF Ends, Next1
    <3> QED
      BY <1>2, <1>4
  <2> HIDE DEF Ends, Next1, m
  <2> QED
    BY <2>1 DEF Forward
<1>6. item \in [0..(m - 1) -> Seq({-1, 1})]
  <2> HIDE DEF Ends, m
  <2>1. <<>> \in Seq({-1, 1}) /\ <<-1>> \in Seq({-1, 1}) /\ <<1>> \in Seq({-1, 1})
    OBVIOUS
  <2> QED
    BY <2>1
<1> HIDE DEF m, Ends, Next1
<1>7. PICK f \in [0..m -> Seq({-1, 1})] : Walked(f, item, nx, m)
  <2> HIDE DEF item, nx
  <2> QED
    BY <1>2, <1>5, <1>6, WalkExists
<1> DEFINE Count(u) == IF \E i \in 1..Len(u) : u[i] = -1 THEN -1 ELSE Len(u)
           g == [p \in 0..m |-> Count(f[p])]
<1>8. Count(<<>>) = 0 /\ Count(<<-1>>) = -1
  OBVIOUS
<1>9. ASSUME NEW u \in Seq({-1, 1})
      PROVE  Count(<<1>> \o u) = IF Count(u) = -1 THEN -1 ELSE Count(u) + 1
  <2> DEFINE w == <<1>> \o u
  <2>1. /\ Len(w) = Len(u) + 1 /\ Len(u) \in Nat /\ w[1] = 1
        /\ \A i \in 1..Len(u) : w[i + 1] = u[i]
    OBVIOUS
  <2>2. (\E i \in 1..Len(w) : w[i] = -1) <=> \E i \in 1..Len(u) : u[i] = -1
    <3> HIDE DEF w
    <3>1. ASSUME NEW i \in 1..Len(w), w[i] = -1 PROVE \E j \in 1..Len(u) : u[j] = -1
      <4>1. i # 1 /\ i - 1 \in 1..Len(u) /\ (i - 1) + 1 = i
        BY <2>1, <3>1
      <4>2. u[i - 1] = -1
        BY <2>1, <3>1, <4>1
      <4> QED
        BY <4>1, <4>2
    <3>2. ASSUME NEW i \in 1..Len(u), u[i] = -1 PROVE \E j \in 1..Len(w) : w[j] = -1
      <4>1. i + 1 \in 1..Len(w) /\ w[i + 1] = -1
        BY <2>1, <3>2
      <4> QED
        BY <4>1
    <3> QED
      BY <3>1, <3>2
  <2> HIDE DEF w
  <2>3. Len(u) # -1
    BY <2>1
  <2>4. Count(w) = IF Count(u) = -1 THEN -1 ELSE Count(u) + 1
    BY <2>1, <2>2, <2>3
  <2> QED
    BY <2>4 DEF w
<1> HIDE DEF Count
<1>10. ASSUME NEW p \in 0..m PROVE g[p] = Body(g, p)
  <2>1. CASE p = m
    <3>1. Ends(p)
      BY <1>2, <2>1 DEF Ends, m
    <3>2. f[p] = <<>>
      BY <1>7, <2>1, Zenon DEF Walked
    <3> QED
      BY <1>8, <3>1, <3>2
  <2>2. CASE p # m
    <3>1. p \in 0..(m - 1)
      BY <1>2, <2>2
    <3>2. f[p] = item[p] \o f[nx[p]]
      BY <1>7, <3>1, Zenon DEF Walked
    <3>3. f[m] = <<>>
      BY <1>7, Zenon DEF Walked
    <3>4. CASE Ends(p)
      <4>1. item[p] = <<>> /\ nx[p] = m
        BY <3>1, <3>4, Zenon
      <4>2. <<>> \o <<>> = <<>>
        OBVIOUS
      <4>3. f[p] = <<>>
        BY <3>2, <3>3, <4>1, <4>2, Zenon
      <4> QED
        BY <1>8, <3>4, <4>3
    <3>5. CASE ~Ends(p) /\ At(h, p) = 0
      <4>1. item[p] = <<-1>> /\ nx[p] = m
        BY <3>1, <3>5, Zenon
      <4>2. <<-1>> \o <<>> = <<-1>>
        OBVIOUS
      <4>3. f[p] = <<-1>>
        BY <3>2, <3>3, <4>1, <4>2, Zenon
      <4> QED
        BY <1>8, <3>5, <4>3
    <3>6. CASE ~Ends(p) /\ At(h, p) # 0
      <4>1. item[p] = <<1>> /\ nx[p] = Next1(p)
        BY <3>1, <3>6, Zenon
      <4>2. Next1(p) \in 0..m
        BY <1>4, <3>6
      <4>3. f[p] = <<1>> \o f[Next1(p)] /\ f[Next1(p)] \in Seq({-1, 1})
        BY <1>7, <3>2, <4>1, <4>2, Zenon
      <4>4. g[p] = Count(f[p]) /\ g[Next1(p)] = Count(f[Next1(p)])
        BY <4>2, Zenon
      <4>5. Count(f[p]) = IF Count(f[Next1(p)]) = -1 THEN -1 ELSE Count(f[Next1(p)]) + 1
        BY <1>9, <4>3, Zenon
      <4> HIDE DEF g
      <4> QED
        BY <3>6, <4>4, <4>5, Zenon
    <3> QED
      BY <3>4, <3>5, <3>6, Zenon
  <2> QED
    BY <2>1, <2>2, Zenon
<1>11. R(g)
  <2> HIDE DEF Body
  <2>1. g = [p \in 0..m |-> g[p]]
    BY Zenon
  <2> QED
    BY <1>10, <2>1
<1>12. R(Chosen)
  <2> HIDE DEF R, g
  <2> QED
    BY <1>11
<1> HIDE DEF Chosen
<1>13. \A p \in 0..m : Chosen[p] = Body(Chosen, p)
  <2> HIDE DEF Body
  <2> QED
    BY <1>12, Zenon
<1> QED
  BY <1>1, <1>13, Zenon DEF m, Ends, Next1

(* The header of a frame of n bytes (of 7 when it says 0), as the positions *)
(* of the model have it.                                                    *)
Width(n) == IF n < 7 THEN 7 ELSE n
AacFrame(n) == [i \in 1..Width(n) |-> IF i = 1 THEN n ELSE -1]
AacStream(s) == FlattenSeq([i \in DOMAIN s |-> AacFrame(s[i])])
FrameLengths == {0} \union {n \in Nat : n >= 7}

(* The frames of s lie one behind the other, at the offsets o. *)
Laid(o, s, t) ==
  /\ o[0] = 0 /\ o[Len(s)] = Len(t)
  /\ \A i \in 0..(Len(s) - 1) : /\ o[i + 1] = o[i] + Width(s[i + 1])
                                /\ t[o[i] + 1] = s[i + 1]

(* A stream has an offset for each of its frames. *)
LEMMA FramesLaid ==
  ASSUME NEW s \in Seq(FrameLengths), s # <<>>
  PROVE  /\ AacStream(s) \in Seq(Nat \union {-1})
         /\ \E o \in [0..Len(s) -> Nat] : Laid(o, s, AacStream(s))
<1> DEFINE n == Len(s)
           B == Nat \union {-1}
           fs == [i \in DOMAIN s |-> AacFrame(s[i])]
           t == AacStream(s)
<1>1. n \in Nat /\ n >= 1 /\ DOMAIN s = 1..n /\ \A i \in 1..n : s[i] \in FrameLengths
  OBVIOUS
<1>2. ASSUME NEW x \in FrameLengths
      PROVE  /\ AacFrame(x) \in Seq(B) /\ Len(AacFrame(x)) = Width(x)
             /\ Width(x) \in Nat /\ Width(x) >= 1 /\ AacFrame(x)[1] = x
  BY DEF AacFrame, Width, FrameLengths
<1>3. fs \in Seq(Seq(B)) /\ Len(fs) = n /\ fs # <<>> /\ \A i \in 1..n : fs[i] = AacFrame(s[i])
  <2> HIDE DEF n, B
  <2>1. fs \in [1..n -> Seq(B)]
    BY <1>1, <1>2
  <2>2. \A i \in 1..n : fs[i] = AacFrame(s[i])
    BY <1>1, Zenon
  <2> HIDE DEF fs
  <2>3. fs \in Seq(Seq(B)) /\ Len(fs) = n
    BY <1>1, <2>1
  <2>4. fs # <<>>
    BY <1>1, <2>3
  <2> QED
    BY <2>2, <2>3, <2>4, Zenon
<1>4. t = FlattenSeq(fs)
  BY DEF AacStream
<1> HIDE DEF fs, t, n, B
<1>5. PICK g \in [1..n -> Seq(B)] : Chained(g, fs, n) /\ t = g[n]
  BY <1>3, <1>4, FlattenRec
<1>6. \A i \in 1..n : g[i] \in Seq(B) /\ Len(g[i]) \in Nat
  <2>1. \A i \in 1..n : g[i] \in Seq(B)
    BY <1>5
  <2> QED
    BY <2>1
<1>7. \A i \in 1..n : /\ fs[i] \in Seq(B) /\ Len(fs[i]) = Width(s[i]) /\ fs[i][1] = s[i]
                      /\ Width(s[i]) \in Nat /\ Width(s[i]) >= 1
  BY <1>1, <1>2, <1>3
<1>8. ASSUME NEW a \in Seq(B), NEW b \in Seq(B), Len(b) >= 1
      PROVE  /\ Len(a \o b) = Len(a) + Len(b) /\ (a \o b)[Len(a) + 1] = b[1]
             /\ \A k \in 1..Len(a) : (a \o b)[k] = a[k]
  BY <1>8
<1> DEFINE o == [i \in 0..n |-> IF i = 0 THEN 0 ELSE Len(g[i])]
<1>9. o \in [0..n -> Nat]
  BY <1>1, <1>6
<1>10. g[1] = fs[1]
  <2>1. 1 \in 1..n
    BY <1>1
  <2> QED
    BY <1>5, <2>1, Zenon DEF Chained
<1>11. ASSUME NEW i \in 1..(n - 1)
       PROVE  /\ g[i + 1] = g[i] \o fs[i + 1]
              /\ Len(g[i + 1]) = Len(g[i]) + Width(s[i + 1])
              /\ g[i + 1][Len(g[i]) + 1] = s[i + 1]
              /\ \A k \in 1..Len(g[i]) : g[i + 1][k] = g[i][k]
  <2>1. i \in 1..n /\ i + 1 \in 1..n /\ i + 1 # 1 /\ (i + 1) - 1 = i
    BY <1>1
  <2>2. g[i + 1] = g[i] \o fs[i + 1]
    BY <1>5, <2>1, Zenon DEF Chained
  <2>3. g[i] \in Seq(B) /\ fs[i + 1] \in Seq(B) /\ Len(fs[i + 1]) >= 1
    BY <1>6, <1>7, <2>1
  <2>4. /\ Len(g[i] \o fs[i + 1]) = Len(g[i]) + Len(fs[i + 1])
        /\ (g[i] \o fs[i + 1])[Len(g[i]) + 1] = fs[i + 1][1]
        /\ \A k \in 1..Len(g[i]) : (g[i] \o fs[i + 1])[k] = g[i][k]
    BY <1>8, <2>3
  <2> QED
    BY <1>7, <2>1, <2>2, <2>4, Zenon
<1>12. ASSUME NEW i \in 1..n PROVE \A k \in 1..Len(g[i]) : t[k] = g[i][k] /\ k \in Nat
  <2> DEFINE S == {j \in 1..n : \A k \in 1..Len(g[j]) : t[k] = g[j][k]}
  <2>1. ASSUME NEW j \in 1..n, \A q \in (j + 1)..n : q \in S PROVE j \in S
    <3>1. CASE j = n
      BY <1>5, <3>1
    <3>2. CASE j # n
      <4>1. j \in 1..(n - 1) /\ j + 1 \in (j + 1)..n /\ j + 1 \in 1..n
        BY <1>1, <3>2
      <4>2. \A k \in 1..Len(g[j + 1]) : t[k] = g[j + 1][k]
        BY <2>1, <4>1, Zenon
      <4>3. /\ Len(g[j]) \in Nat /\ Width(s[j + 1]) \in Nat
            /\ Len(g[j + 1]) = Len(g[j]) + Width(s[j + 1])
        BY <1>6, <1>7, <1>11, <4>1, Zenon
      <4>4. \A k \in 1..Len(g[j]) : k \in 1..Len(g[j + 1])
        BY <4>3
      <4> QED
        BY <1>11, <4>1, <4>2, <4>4, Zenon
    <3> QED
      BY <3>1, <3>2
  <2> HIDE DEF S
  <2>2. \A j \in 1..n : j \in S
    BY <1>1, <2>1, Descent
  <2>3. \A k \in 1..Len(g[i]) : t[k] = g[i][k]
    BY <2>2 DEF S
  <2> QED
    BY <2>3
<1>13. Laid(o, s, t)
  <2>1. o[0] = 0 /\ o[n] = Len(t)
    BY <1>1, <1>5
  <2>2. ASSUME NEW i \in 0..(n - 1)
        PROVE  o[i + 1] = o[i] + Width(s[i + 1]) /\ t[o[i] + 1] = s[i + 1]
    <3>1. i + 1 \in 1..n /\ i \in 0..n /\ i + 1 # 0 /\ i + 1 \in 0..n
      BY <1>1
    <3>2. CASE i = 0
      <4>1. o[1] = Len(g[1]) /\ o[0] = 0
        BY <1>1
      <4>2. 1 \in 1..n /\ 1 \in 1..Len(g[1])
        BY <1>1, <1>7, <1>10
      <4>3. t[1] = g[1][1]
        BY <1>12, <4>2
      <4> HIDE DEF o
      <4> QED
        BY <1>7, <1>10, <3>2, <4>1, <4>2, <4>3
    <3>3. CASE i # 0
      <4>1. i \in 1..(n - 1) /\ i \in 1..n
        BY <1>1, <3>3
      <4>2. o[i] = Len(g[i]) /\ o[i + 1] = Len(g[i + 1])
        BY <3>1, <3>3
      <4>3. Len(g[i]) + 1 \in 1..Len(g[i + 1])
        <5>1. /\ Len(g[i]) \in Nat /\ Width(s[i + 1]) \in Nat /\ Width(s[i + 1]) >= 1
              /\ Len(g[i + 1]) = Len(g[i]) + Width(s[i + 1])
          BY <1>6, <1>7, <1>11, <3>1, <4>1, Zenon
        <5> QED
          BY <5>1
      <4>4. t[Len(g[i]) + 1] = g[i + 1][Len(g[i]) + 1]
        BY <1>12, <3>1, <4>3
      <4> HIDE DEF o
      <4> QED
        BY <1>11, <4>1, <4>2, <4>4
    <3> QED
      BY <3>2, <3>3
  <2> HIDE DEF o
  <2> QED
    BY <2>1, <2>2, Zenon DEF Laid, n
<1>14. t \in Seq(B)
  BY <1>1, <1>5
<1> HIDE DEF o
<1> QED
  BY <1>9, <1>13, <1>14, Zenon DEF t, B, n

(* For every stream of AAC frames, count_aac_frames counts the frames, and *)
(* it never returns exactly when a header says that its frame is empty.    *)
THEOREM AacExact ==
  \A s \in Seq(FrameLengths) :
    count_aac_frames(AacStream(s)) = IF 0 \in Range(s) THEN -1 ELSE Len(s)
<1> SUFFICES ASSUME NEW s \in Seq(FrameLengths)
             PROVE  count_aac_frames(AacStream(s)) = IF 0 \in Range(s) THEN -1 ELSE Len(s)
  BY Zenon
<1> DEFINE n == Len(s)
           t == AacStream(s)
<1>1. n \in Nat /\ DOMAIN s = 1..n /\ \A i \in 1..n : s[i] \in Nat /\ (s[i] = 0 \/ s[i] >= 7)
  BY DEF FrameLengths
<1>2. 0 \in Range(s) <=> \E i \in 1..n : s[i] = 0
  BY <1>1 DEF Range
<1>3. /\ t \in Seq(Nat \union {-1})
      /\ \E o \in [0..n -> Nat] : Laid(o, s, t)
  <2>1. CASE s = <<>>
    <3>1. t = <<>> /\ n = 0
      <4>1. DOMAIN s = {}
        BY <2>1
      <4>2. [i \in DOMAIN s |-> AacFrame(s[i])] = <<>>
        BY <4>1
      <4> QED
        BY <2>1, <4>2, FlattenEmpty DEF AacStream
    <3> DEFINE o == [i \in 0..0 |-> 0]
    <3>2. o \in [0..n -> Nat] /\ Laid(o, s, t)
      BY <2>1, <3>1 DEF Laid
    <3>3. t \in Seq(Nat \union {-1})
      BY <3>1
    <3> HIDE DEF o
    <3> QED
      BY <3>2, <3>3
  <2>2. CASE s # <<>>
    BY <2>2, FramesLaid, Zenon
  <2> QED
    BY <2>1, <2>2, Zenon
<1> HIDE DEF t, n
<1>4. PICK o \in [0..n -> Nat] : Laid(o, s, t)
  BY <1>3, Zenon
<1> DEFINE size == Len(t)
           m == 2 * size + 1
<1>5. /\ o[0] = 0 /\ o[n] = size
      /\ \A i \in 0..(n - 1) : o[i + 1] = o[i] + Width(s[i + 1]) /\ t[o[i] + 1] = s[i + 1]
  BY <1>4, Zenon DEF Laid, n
<1>6. PICK c : /\ count_aac_frames(t) = c[0]
               /\ \A p \in 0..m :
                    c[p] = IF p + 7 > size \/ At(t, p) = -1 THEN 0
                           ELSE IF At(t, p) = 0 THEN -1
                           ELSE LET x == c[Smaller(p + At(t, p), m)]
                                IN  IF x = -1 THEN -1 ELSE x + 1
  BY <1>3, CountSteps, Zenon
<1>7. size \in Nat /\ m \in Nat /\ m >= size
  BY <1>3
<1> HIDE DEF size, m
<1> DEFINE Empty(i) == \E j \in (i + 1)..n : s[j] = 0
           S == {i \in 0..n : o[i] <= size /\ c[o[i]] = IF Empty(i) THEN -1 ELSE n - i}
<1>8. ASSUME NEW i \in 0..n, \A q \in (i + 1)..n : q \in S PROVE i \in S
  <2>0. o[i] \in Nat
    BY <1>4
  <2>1. CASE i = n
    <3>1. o[i] \in 0..m /\ o[i] + 7 > size /\ o[i] <= size
      BY <1>5, <1>7, <2>1
    <3>2. c[o[i]] = 0
      BY <1>6, <3>1, Zenon
    <3>3. ~Empty(i) /\ n - i = 0
      BY <1>1, <2>1
    <3> QED
      BY <3>1, <3>2, <3>3
  <2>2. CASE i # n
    <3>1. /\ i \in 0..(n - 1) /\ i + 1 \in (i + 1)..n /\ i + 1 \in 0..n /\ i + 1 \in 1..n
      BY <1>1, <2>2
    <3>2. i + 1 \in S
      BY <1>8, <3>1, Zenon
    <3>3. o[i + 1] <= size /\ c[o[i + 1]] = IF Empty(i + 1) THEN -1 ELSE n - (i + 1)
      BY <3>2
    <3>4. Empty(i) <=> s[i + 1] = 0 \/ Empty(i + 1)
      BY <1>1, <3>1
    <3> HIDE DEF Empty
    <3>5. s[i + 1] \in Nat /\ (s[i + 1] = 0 \/ s[i + 1] >= 7)
      BY <1>1, <3>1
    <3>6. o[i + 1] = o[i] + Width(s[i + 1]) /\ At(t, o[i]) = s[i + 1]
      BY <1>5, <3>1, Zenon DEF At
    <3>7. /\ Width(s[i + 1]) >= 7 /\ Width(s[i + 1]) \in Nat
          /\ s[i + 1] # 0 => Width(s[i + 1]) = s[i + 1]
      BY <3>5 DEF Width
    <3>8. /\ o[i] <= size /\ o[i] \in 0..m /\ ~(o[i] + 7 > size) /\ At(t, o[i]) # -1
      BY <1>7, <2>0, <3>3, <3>5, <3>6, <3>7
    <3>9. CASE s[i + 1] = 0
      <4>1. c[o[i]] = -1
        BY <1>6, <3>6, <3>8, <3>9, Zenon
      <4> QED
        BY <3>4, <3>8, <3>9, <4>1
    <3>10. CASE s[i + 1] # 0
      <4>1. Smaller(o[i] + At(t, o[i]), m) = o[i + 1]
        BY <1>7, <2>0, <3>3, <3>5, <3>6, <3>7, <3>10 DEF Smaller
      <4>2. c[o[i]] = IF c[o[i + 1]] = -1 THEN -1 ELSE c[o[i + 1]] + 1
        BY <1>6, <3>6, <3>8, <3>10, <4>1, Zenon
      <4>3. n - (i + 1) # -1 /\ n - (i + 1) + 1 = n - i
        BY <1>1, <3>1
      <4>4. c[o[i]] = IF Empty(i) THEN -1 ELSE n - i
        BY <1>1, <3>1, <3>3, <3>4, <3>10, <4>2, <4>3
      <4> QED
        BY <3>8, <4>4
    <3> QED
      BY <3>9, <3>10
  <2> QED
    BY <2>1, <2>2
<1>9. 0 \in S
  <2> HIDE DEF S
  <2>1. \A i \in 0..n : i \in S
    BY <1>1, <1>8, Descent
  <2> QED
    BY <1>1, <2>1
<1>10. c[0] = IF \E i \in 1..n : s[i] = 0 THEN -1 ELSE n
  BY <1>1, <1>5, <1>9
<1> QED
  BY <1>2, <1>6, <1>10, Zenon DEF t, n

(* The streams of audio frames of the machine of the conversions are       *)
(* counted as they should be.                                              *)
THEOREM AacCorrect == Spec => []AacCounted
<1>1. InputOK => AacCounted
  <2> SUFFICES ASSUME InputOK, kind = "aac"
               PROVE  count_aac_frames(AacStream(input)) =
                        IF 0 \in Range(input) THEN -1 ELSE Len(input)
    BY DEF AacCounted, AacStream, AacFrame, Width
  <2>1. input \in Seq(Alphabet["aac"]) /\ Alphabet["aac"] = {0, 7, 9}
    BY DEF InputOK, Alphabet
  <2>2. input \in Seq(FrameLengths)
    BY <2>1 DEF FrameLengths
  <2> QED
    BY <2>2, AacExact, Zenon
<1> QED
  BY <1>1, InputTyped, PTL
=============================================================================
