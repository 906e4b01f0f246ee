-------------------------- MODULE H264Stream_proofs --------------------------
(***************************************************************************)
(* Proofs about H264Stream, for every size of a packet and of the buffers, *)
(* every length and number of NAL units and every number of frames.        *)
(*                                                                         *)
(* The builder is a fold over the units of a frame, and the text that goes *)
(* into it and comes out of the assembler is a flattened sequence.  The    *)
(* first part reasons about the two library operators by induction over    *)
(* the length of their argument, the second about the builder: its packets *)
(* carry the text of the frame (BuiltCorrect).  The third is the invariant *)
(* of the stream from the sender to the callback.                          *)
(***************************************************************************)
EXTENDS H264Stream, FoldInduction, SequenceTheorems

-------------------------------------------------------------------------------
(* Flattened sequences.                                                    *)

(* One sequence more goes to the end. *)
LEMMA FlattenAppend ==
  ASSUME NEW B, NEW s \in Seq(Seq(B)), NEW u \in Seq(B)
  PROVE  FlattenSeq(Append(s, u)) = FlattenSeq(s) \o u
<1> DEFINE t == Append(s, u)
           n == Len(s)
<1>1. /\ t \in Seq(Seq(B)) /\ t # <<>> /\ Len(t) = n + 1 /\ t[n + 1] = u
      /\ n \in Nat /\ \A i \in 1..n : s[i] = t[i]
  BY AppendProperties
<1> HIDE DEF t
<1>2. PICK h \in [1..Len(t) -> Seq(B)] :
        Chained(h, t, Len(t)) /\ FlattenSeq(t) = h[Len(t)]
  BY <1>1, FlattenRec, Zenon
<1> HIDE DEF n
<1>3. h[n + 1] = IF n + 1 = 1 THEN t[n + 1] ELSE h[(n + 1) - 1] \o t[n + 1]
  <2>1. n + 1 \in 1..Len(t)
    BY <1>1
  <2> QED
    BY <1>2, <2>1, Zenon DEF Chained
<1>4. CASE s = <<>>
  <2>1. n = 0 /\ FlattenSeq(s) = <<>>
    BY <1>4, FlattenEmpty DEF n
  <2>2. <<>> \o u = u
    BY ConcatEmptySeq
  <2> QED
    BY <1>1, <1>2, <1>3, <2>1, <2>2 DEF t
<1>5. CASE s # <<>>
  <2>1. PICK g \in [1..n -> Seq(B)] :
          Chained(g, s, n) /\ FlattenSeq(s) = g[n]
    BY <1>5, FlattenRec DEF n
  <2>2. Chained(h, t, n)
    <3>1. \A i \in 1..n : i \in 1..Len(t)
      BY <1>1
    <3> QED
      BY <1>2, <3>1, Zenon DEF Chained
  <2>3. \A i \in 1..n : g[i] = h[i]
    <3>1. n \in Nat /\ Agree(s, t, n)
      BY <1>1 DEF Agree
    <3>2. Agree(g, h, n)
      BY <2>1, <2>2, <3>1, ChainUnique
    <3> QED
      BY <3>2 DEF Agree
  <2>4. n # 0 /\ n \in 1..n /\ (n + 1) - 1 = n
    BY <1>1, <1>5 DEF n
  <2>5. FlattenSeq(t) = h[n] \o u /\ h[n] = g[n]
    BY <1>1, <1>2, <1>3, <2>3, <2>4
  <2> QED
    BY <2>1, <2>5 DEF t
<1> QED
  BY <1>4, <1>5

(* Three sequences over B, one after the other. *)
Assoc(B) == \A a, b, c \in Seq(B) : (a \o b) \o c = a \o (b \o c)

(* It does not matter which two are joined first. *)
LEMMA SeqAssoc == ASSUME NEW B PROVE Assoc(B)
<1> SUFFICES ASSUME NEW a \in Seq(B), NEW b \in Seq(B), NEW c \in Seq(B)
             PROVE  (a \o b) \o c = a \o (b \o c)
  BY Zenon DEF Assoc
<1> QED
  OBVIOUS

(* FlattenSeq of two parts is the two flattened. *)
LEMMA FlattenConcat ==
  ASSUME NEW B, NEW s \in Seq(Seq(B)), NEW t \in Seq(Seq(B))
  PROVE  FlattenSeq(s \o t) = FlattenSeq(s) \o FlattenSeq(t)
<1> DEFINE n == Len(t)
           P(k) == SubSeq(t, 1, k)
           S == {k \in 0..n : FlattenSeq(s \o P(k)) = FlattenSeq(s) \o FlattenSeq(P(k))}
<1>0. n \in Nat /\ FlattenSeq(s) \in Seq(B)
  BY FlattenType
<1>1. 0 \in S
  <2>1. P(0) = <<>>
    OBVIOUS
  <2>2. s \o <<>> = s /\ FlattenSeq(s) \o <<>> = FlattenSeq(s)
    BY <1>0, ConcatEmptySeq
  <2> HIDE DEF P
  <2>3. FlattenSeq(s \o P(0)) = FlattenSeq(s) \o FlattenSeq(P(0))
    BY <2>1, <2>2, FlattenEmpty, Zenon
  <2> QED
    BY <1>0, <2>3
<1>2. ASSUME NEW k \in 0..(n - 1), k \in S PROVE k + 1 \in S
  <2>0. k \in Nat /\ k + 1 \in 1..n /\ k + 1 \in 0..n
    BY <1>0
  <2>1. t[k + 1] \in Seq(B) /\ P(k) \in Seq(Seq(B))
    BY <2>0
  <2>2. P(k + 1) = Append(P(k), t[k + 1])
    <3>1. P(k + 1) = SubSeq(t, 1, (k + 1) - 1) \o <<t[k + 1]>>
      BY <2>0, SubSeqRecursiveSecond
    <3>2. (k + 1) - 1 = k
      BY <2>0
    <3> HIDE DEF P
    <3> QED
      BY <2>1, <3>1, <3>2, AppendIsConcat DEF P
  <2> DEFINE p == P(k)
             x == t[k + 1]
  <2>3. s \o Append(p, x) = Append(s \o p, x) /\ s \o p \in Seq(Seq(B))
    <3>1. p \in Seq(Seq(B)) /\ x \in Seq(B)
      BY <2>1
    <3>2. <<x>> \in Seq(Seq(B))
      BY <3>1
    <3> HIDE DEF p, x
    <3>3. s \o p \in Seq(Seq(B))
      BY <3>1, ConcatProperties
    <3>4. /\ Append(p, x) = p \o <<x>>
          /\ Append(s \o p, x) = (s \o p) \o <<x>>
      BY <3>1, <3>3, AppendIsConcat, Zenon
    <3>5. (s \o p) \o <<x>> = s \o (p \o <<x>>)
      <4>1. Assoc(Seq(B))
        BY SeqAssoc, Zenon
      <4> QED
        BY <3>1, <3>2, <4>1, Zenon DEF Assoc
    <3> QED
      BY <3>3, <3>4, <3>5, Zenon
  <2>4. /\ FlattenSeq(Append(s \o p, x)) = FlattenSeq(s \o p) \o x
        /\ FlattenSeq(Append(p, x)) = FlattenSeq(p) \o x
        /\ FlattenSeq(p) \in Seq(B)
    BY <2>1, <2>3, FlattenAppend, FlattenType, Zenon
  <2>5. FlattenSeq(s \o p) = FlattenSeq(s) \o FlattenSeq(p)
    BY <1>2
  <2>6. (FlattenSeq(s) \o FlattenSeq(p)) \o x = FlattenSeq(s) \o (FlattenSeq(p) \o x)
    <3>1. Assoc(B)
      BY SeqAssoc, Zenon
    <3> HIDE DEF P
    <3> QED
      BY <1>0, <2>1, <2>4, <3>1, Zenon DEF Assoc
  <2>7. FlattenSeq(s \o P(k + 1)) = FlattenSeq(s) \o FlattenSeq(P(k + 1))
    <3> HIDE DEF P
    <3> QED
      BY <2>2, <2>3, <2>4, <2>5, <2>6, Zenon
  <2> HIDE DEF P
  <2> QED
    BY <2>0, <2>7
<1> HIDE DEF S
<1>3. n \in S
  <2>1. \A i \in 0..n : i \in S
    BY <1>0, <1>1, <1>2, Induction, Zenon
  <2> QED
    BY <1>0, <2>1
<1>4. P(n) = t
  BY SubSeqFull
<1> HIDE DEF P
<1> QED
  BY <1>3, <1>4 DEF S

(* A single sequence is its own flattening. *)
LEMMA FlattenOne ==
  ASSUME NEW B, NEW u \in Seq(B)
  PROVE  FlattenSeq(<<u>>) = u
<1>1. <<>> \in Seq(Seq(B)) /\ Append(<<>>, u) = <<u>>
  OBVIOUS
<1>2. FlattenSeq(Append(<<>>, u)) = <<>> \o u
  BY <1>1, FlattenAppend, FlattenEmpty, Zenon
<1>3. <<>> \o u = u
  BY ConcatEmptySeq
<1> QED
  BY <1>1, <1>2, <1>3

----------------------------------------------------------------------------
(* What the packets of a frame are to the assembler. *)

Byte   == Nat \X Nat \X Nat
Unit   == Seq(Byte)
Nalu   == Unit \ {<<>>}
Kinds  == {"single", "stapa", "start", "middle", "end"}
Packet == [kind: Kinds, units: Seq(Unit) \ {<<>>}, nal: Byte]

(* The bytes that push_packet gets out of a packet. *)
Part(p) ==
  CASE p.kind \in {"single", "stapa"} -> AnnexB(p.units)
    [] p.kind = "start" -> <<StartCode, p.nal>> \o p.units[1]
    [] OTHER            -> p.units[1]

Text(packets) == FlattenSeq([i \in DOMAIN packets |-> Part(packets[i])])

(* NAL units, which are not empty, are units. *)
LEMMA NaluUnits == Seq(Nalu) \subseteq Seq(Unit)
<1> SUFFICES ASSUME NEW s \in Seq(Nalu) PROVE s \in Seq(Unit)
  OBVIOUS
<1>1. Nalu \subseteq Unit
  BY DEF Nalu
<1> QED
  BY <1>1, SeqMonotonic

(* A start code is written like a byte. *)
LEMMA StartCodeType == StartCode \in Byte
BY DEF StartCode, Byte

(* A unit behind its start code. *)
LEMMA CodedType ==
  ASSUME NEW u \in Unit
  PROVE  <<StartCode>> \o u \in Unit /\ Len(<<StartCode>> \o u) = Len(u) + 1
<1>1. <<StartCode>> \in Seq(Byte) /\ Len(<<StartCode>>) = 1
  BY StartCodeType
<1>2. /\ <<StartCode>> \o u \in Seq(Byte)
      /\ Len(<<StartCode>> \o u) = Len(<<StartCode>>) + Len(u)
  BY <1>1, ConcatProperties DEF Unit
<1>3. Len(u) \in Nat
  BY DEF Unit
<1> QED
  BY <1>1, <1>2, <1>3 DEF Unit

(* The text of units is a sequence of bytes. *)
LEMMA AnnexBType ==
  ASSUME NEW us \in Seq(Unit)
  PROVE  AnnexB(us) \in Unit
<1> DEFINE m == [n \in DOMAIN us |-> <<StartCode>> \o us[n]]
<1>1. Len(us) \in Nat /\ DOMAIN us = 1..Len(us) /\ \A n \in 1..Len(us) : us[n] \in Unit
  OBVIOUS
<1>2. m \in [1..Len(us) -> Unit]
  BY <1>1, CodedType
<1>3. m \in Seq(Unit)
  BY <1>1, <1>2
<1> HIDE DEF m
<1>4. FlattenSeq(m) \in Seq(Byte)
  BY <1>3, FlattenType DEF Unit
<1> QED
  BY <1>4 DEF AnnexB, Unit, m

(* No units, no text. *)
LEMMA AnnexBEmpty == AnnexB(<<>>) = <<>>
<1>1. [n \in DOMAIN <<>> |-> <<StartCode>> \o <<>>[n]] = <<>>
  OBVIOUS
<1> QED
  BY <1>1, FlattenEmpty DEF AnnexB

(* The text of one unit more. *)
LEMMA AnnexBAppend ==
  ASSUME NEW us \in Seq(Unit), NEW u \in Unit
  PROVE  AnnexB(Append(us, u)) = AnnexB(us) \o (<<StartCode>> \o u)
<1> DEFINE vs == Append(us, u)
           c == <<StartCode>> \o u
           m == [n \in DOMAIN us |-> <<StartCode>> \o us[n]]
           w == [n \in DOMAIN vs |-> <<StartCode>> \o vs[n]]
<1>1. Len(us) \in Nat /\ DOMAIN us = 1..Len(us) /\ \A n \in 1..Len(us) : us[n] \in Unit
  OBVIOUS
<1>2. /\ DOMAIN vs = 1..(Len(us) + 1) /\ vs[Len(us) + 1] = u
      /\ \A n \in 1..Len(us) : vs[n] = us[n]
  OBVIOUS
<1>3. m \in Seq(Unit) /\ Len(m) = Len(us) /\ c \in Unit
  <2>1. m \in [1..Len(us) -> Unit]
    BY <1>1, CodedType
  <2> QED
    BY <1>1, <2>1, CodedType
<1> HIDE DEF vs
<1>4. w = Append(m, c)
  <2>1. \A n \in 1..(Len(us) + 1) : n \in 1..Len(us) \/ n = Len(us) + 1
    BY <1>1
  <2>2. \A n \in 1..Len(us) : m[n] = <<StartCode>> \o us[n] /\ Append(m, c)[n] = m[n]
    BY <1>1, <1>3
  <2>3. Append(m, c)[Len(us) + 1] = c /\ DOMAIN Append(m, c) = 1..(Len(us) + 1)
    BY <1>3
  <2>4. Append(m, c) \in Seq(Unit) /\ Append(m, c) = [n \in 1..(Len(us) + 1) |-> Append(m, c)[n]]
    BY <1>3, <2>3
  <2> DEFINE a == Append(m, c)
  <2>5. /\ \A n \in 1..Len(us) : a[n] = <<StartCode>> \o vs[n]
        /\ a[Len(us) + 1] = <<StartCode>> \o vs[Len(us) + 1]
        /\ a = [n \in 1..(Len(us) + 1) |-> a[n]]
    BY <1>2, <2>2, <2>3, <2>4, Zenon
  <2> HIDE DEF a
  <2>6. \A n \in 1..(Len(us) + 1) : a[n] = <<StartCode>> \o vs[n]
    BY <2>1, <2>5, Zenon
  <2>7. w = a
    BY <1>2, <2>5, <2>6
  <2> QED
    BY <2>7, Zenon DEF a
<1> HIDE DEF m, w, c
<1>5. FlattenSeq(w) = FlattenSeq(m) \o c
  BY <1>3, <1>4, FlattenAppend, Zenon DEF Unit
<1> QED
  BY <1>5, Zenon DEF AnnexB, m, w, c, vs

(* The text of one unit. *)
LEMMA AnnexBOne ==
  ASSUME NEW u \in Unit
  PROVE  AnnexB(<<u>>) = <<StartCode>> \o u
<1>1. <<>> \in Seq(Unit) /\ Append(<<>>, u) = <<u>>
  OBVIOUS
<1>2. AnnexB(Append(<<>>, u)) = <<>> \o (<<StartCode>> \o u)
  BY <1>1, AnnexBAppend, AnnexBEmpty, Zenon
<1>3. <<>> \o (<<StartCode>> \o u) = <<StartCode>> \o u
  BY CodedType, ConcatEmptySeq DEF Unit
<1> QED
  BY <1>1, <1>2, <1>3, Zenon

(* What push_packet gets out of a packet is a sequence of bytes. *)
LEMMA PartType ==
  ASSUME NEW p \in Packet
  PROVE  /\ Part(p) \in Unit /\ p.units \in Seq(Unit) /\ p.units # <<>>
         /\ p.units[1] \in Unit /\ p.nal \in Byte /\ p.kind \in Kinds
<1>1. p.units \in Seq(Unit) /\ p.units # <<>> /\ p.nal \in Byte /\ p.kind \in Kinds
  BY DEF Packet
<1>2. p.units[1] \in Unit
  BY <1>1
<1>3. AnnexB(p.units) \in Unit
  BY <1>1, AnnexBType
<1>4. <<StartCode, p.nal>> \o p.units[1] \in Unit
  <2>1. <<StartCode, p.nal>> \in Seq(Byte)
    BY <1>1, StartCodeType
  <2> QED
    BY <1>2, <2>1, ConcatProperties DEF Unit
<1> QED
  BY <1>1, <1>2, <1>3, <1>4 DEF Part

(* The parts of the packets, one after the other. *)
LEMMA PartsType ==
  ASSUME NEW ps \in Seq(Packet)
  PROVE  /\ [i \in DOMAIN ps |-> Part(ps[i])] \in Seq(Unit)
         /\ Len([i \in DOMAIN ps |-> Part(ps[i])]) = Len(ps)
<1>1. Len(ps) \in Nat /\ DOMAIN ps = 1..Len(ps) /\ \A i \in 1..Len(ps) : ps[i] \in Packet
  OBVIOUS
<1>2. \A i \in 1..Len(ps) : Part(ps[i]) \in Unit
  BY <1>1, PartType
<1>3. [i \in DOMAIN ps |-> Part(ps[i])] \in [1..Len(ps) -> Unit]
  BY <1>1, <1>2
<1> QED
  BY <1>1, <1>3

(* The text of packets is a sequence of bytes. *)
LEMMA TextType ==
  ASSUME NEW ps \in Seq(Packet)
  PROVE  Text(ps) \in Unit
BY PartsType, FlattenType DEF Text, Unit

(* No packets, no text. *)
LEMMA TextEmpty == Text(<<>>) = <<>>
<1>1. [i \in DOMAIN <<>> |-> Part(<<>>[i])] = <<>>
  OBVIOUS
<1> QED
  BY <1>1, FlattenEmpty DEF Text

(* The text of packets is that of a first part and that of the rest. *)
LEMMA TextConcat ==
  ASSUME NEW ps \in Seq(Packet), NEW qs \in Seq(Packet)
  PROVE  Text(ps \o qs) = Text(ps) \o Text(qs)
<1> DEFINE r == ps \o qs
           m == [i \in DOMAIN ps |-> Part(ps[i])]
           w == [i \in DOMAIN qs |-> Part(qs[i])]
           v == [i \in DOMAIN r |-> Part(r[i])]
<1>1. /\ m \in Seq(Unit) /\ w \in Seq(Unit) /\ Len(m) = Len(ps) /\ Len(w) = Len(qs)
      /\ Len(ps) \in Nat /\ Len(qs) \in Nat
  BY PartsType
<1>2. /\ r \in Seq(Packet) /\ Len(r) = Len(ps) + Len(qs)
      /\ \A i \in 1..(Len(ps) + Len(qs)) :
           r[i] = IF i <= Len(ps) THEN ps[i] ELSE qs[i - Len(ps)]
  BY ConcatProperties
<1> HIDE DEF r
<1>3. v \in Seq(Unit) /\ Len(v) = Len(ps) + Len(qs)
  BY <1>2, PartsType, Zenon
<1>4. /\ m \o w \in Seq(Unit) /\ Len(m \o w) = Len(ps) + Len(qs)
      /\ \A i \in 1..(Len(ps) + Len(qs)) :
           (m \o w)[i] = IF i <= Len(ps) THEN m[i] ELSE w[i - Len(ps)]
  <2> HIDE DEF m, w
  <2>1. /\ m \o w \in Seq(Unit) /\ Len(m \o w) = Len(m) + Len(w)
        /\ \A i \in 1..(Len(m) + Len(w)) :
             (m \o w)[i] = IF i <= Len(m) THEN m[i] ELSE w[i - Len(m)]
    BY <1>1, ConcatProperties, Zenon
  <2> QED
    BY <1>1, <2>1
<1>5. \A i \in 1..(Len(ps) + Len(qs)) : v[i] = (m \o w)[i]
  <2> SUFFICES ASSUME NEW i \in 1..(Len(ps) + Len(qs)) PROVE v[i] = (m \o w)[i]
    BY Zenon
  <2>1. i \in DOMAIN r
    BY <1>2
  <2>2. v[i] = Part(r[i])
    BY <2>1
  <2>3. CASE i <= Len(ps)
    <3>1. m[i] = Part(ps[i])
      BY <2>3
    <3> HIDE DEF m, w, v
    <3> QED
      BY <1>2, <1>4, <2>2, <2>3, <3>1
  <2>4. CASE ~(i <= Len(ps))
    <3>1. i - Len(ps) \in DOMAIN qs
      BY <1>1, <2>4
    <3>2. w[i - Len(ps)] = Part(qs[i - Len(ps)])
      BY <3>1
    <3> HIDE DEF m, w, v
    <3> QED
      BY <1>2, <1>4, <2>2, <2>4, <3>2, Zenon
  <2> QED
    BY <2>3, <2>4
<1> HIDE DEF m, w, v
<1>6. v = m \o w
  <2> DEFINE z == m \o w
  <2>1. /\ z \in Seq(Unit) /\ Len(z) = Len(v)
        /\ \A i \in 1..Len(v) : v[i] = z[i]
    BY <1>3, <1>4, <1>5
  <2> HIDE DEF z
  <2>2. v = z
    BY <1>3, <2>1, SeqEqual
  <2> QED
    BY <2>2 DEF z
<1>7. FlattenSeq(m \o w) = FlattenSeq(m) \o FlattenSeq(w)
  BY <1>1, FlattenConcat DEF Unit
<1> QED
  BY <1>6, <1>7, Zenon DEF Text, m, w, v, r

(* The text of one packet. *)
LEMMA TextOne ==
  ASSUME NEW p \in Packet
  PROVE  Text(<<p>>) = Part(p)
<1>1. [i \in DOMAIN <<p>> |-> Part(<<p>>[i])] = <<Part(p)>>
  OBVIOUS
<1> QED
  BY <1>1, PartType, FlattenOne DEF Text, Unit

(* The text of one packet more. *)
LEMMA TextAppend ==
  ASSUME NEW ps \in Seq(Packet), NEW p \in Packet
  PROVE  Text(Append(ps, p)) = Text(ps) \o Part(p)
<1>1. Append(ps, p) = ps \o <<p>> /\ <<p>> \in Seq(Packet)
  BY AppendIsConcat
<1> QED
  BY <1>1, TextConcat, TextOne, Zenon

----------------------------------------------------------------------------
(* The packet builder.                                                     *)

Builder == [tmp: Seq(Nalu), totalLen: Nat, packets: Seq(Packet), used: Int, ok: BOOLEAN]

(* The sizes the builder reckons with are integers. *)
LEMMA SizeType ==
  ASSUME NEW p \in Packet
  PROVE  PayloadSize(p) \in Int /\ ReckonedSize(p) \in Int
<1>1. FlattenSeq(p.units) \in Seq(Byte)
  BY PartType, FlattenType DEF Unit
<1>2. Len(FlattenSeq(p.units)) \in Nat /\ Len(p.units) \in Nat
  BY <1>1, PartType
<1>3. PayloadSize(p) \in Int
  BY <1>2 DEF PayloadSize
<1> QED
  BY <1>3 DEF ReckonedSize

(* A packet is written behind the others, or the frame is given up. *)
LEMMA AddPacketSound ==
  ASSUME NEW b \in Builder, NEW p \in Packet
  PROVE  LET r == AddPacket(b, p) IN
         /\ r \in Builder /\ r.tmp = b.tmp /\ r.totalLen = b.totalLen
         /\ r.ok => b.ok /\ r.packets = Append(b.packets, p)
<1> DEFINE r == AddPacket(b, p)
           fits == b.ok /\ b.used + HeaderSize + ReckonedSize(p) < PacketsBufferSize
<1>1. /\ b.tmp \in Seq(Nalu) /\ b.totalLen \in Nat /\ b.packets \in Seq(Packet)
      /\ b.used \in Int /\ b.ok \in BOOLEAN
  BY DEF Builder
<1>2. CASE fits
  <2> DEFINE ps == Append(b.packets, p)
             u == b.used + HeaderSize + PayloadSize(p)
  <2>1. r = [b EXCEPT !.packets = ps, !.used = u]
    BY <1>2 DEF AddPacket
  <2>2. ps \in Seq(Packet) /\ u \in Int
    BY <1>1, SizeType, SizeAssumption
  <2> HIDE DEF ps, u
  <2>3. r \in Builder
    BY <2>1, <2>2, Zenon DEF Builder
  <2>4. r.tmp = b.tmp /\ r.totalLen = b.totalLen /\ r.packets = ps
    BY <2>1 DEF Builder
  <2> QED
    BY <1>2, <2>3, <2>4 DEF ps
<1>3. CASE ~fits
  <2>1. r = [b EXCEPT !.ok = FALSE]
    BY <1>3 DEF AddPacket
  <2>2. r \in Builder
    BY <2>1, Zenon DEF Builder
  <2> QED
    BY <2>1, <2>2 DEF Builder
<1> QED
  BY <1>2, <1>3

(* The fold over the packets of a unit, one after the other. *)
LEMMA FoldPackets ==
  ASSUME NEW b \in Builder, NEW s \in Seq(Packet)
  PROVE  \E g \in [0..Len(s) -> Builder] :
           /\ g[0] = b
           /\ \A i \in 1..Len(s) : g[i] = AddPacket(g[i - 1], s[i])
           /\ FoldLeft(AddPacket, b, s) = g[Len(s)]
<1> DEFINE n == Len(s)
           step == [z \in (1..n) \X Builder |-> AddPacket(z[2], s[z[1]])]
<1>1. n \in Nat /\ DOMAIN s = 1..n /\ \A i \in 1..n : s[i] \in Packet
  OBVIOUS
<1> HIDE DEF n
<1>2. step \in [(1..n) \X Builder -> Builder]
  <2> SUFFICES ASSUME NEW z \in (1..n) \X Builder
               PROVE  AddPacket(z[2], s[z[1]]) \in Builder
    OBVIOUS
  <2>1. z[2] \in Builder /\ s[z[1]] \in Packet
    BY <1>1
  <2> QED
    BY <2>1, AddPacketSound
<1>3. HasMax(n) /\ \E F \in [SUBSET (1..n) -> Builder] : Folded(F, b, step, n)
  <2> HIDE DEF step
  <2> QED
    BY <1>1, <1>2, FoldExists, Zenon
<1>4. PICK F \in [SUBSET (1..n) -> Builder] : Folded(F, b, step, n)
  BY <1>3, Zenon
<1> DEFINE R(f) == f = [q \in SUBSET (1..n) |-> IF q = {} THEN b
                          ELSE AddPacket(f[q \ {Max(q)}], s[Max(q)])]
           c == CHOOSE f : R(f)
<1>5. R(F)
  <2> SUFFICES ASSUME NEW q \in SUBSET (1..n)
               PROVE  F[q] = IF q = {} THEN b ELSE AddPacket(F[q \ {Max(q)}], s[Max(q)])
    BY Zenon
  <2>1. CASE q = {}
    BY <1>4, <2>1, Zenon DEF Folded
  <2>2. CASE q # {}
    <3>1. F[q] = step[<<Max(q), F[q \ {Max(q)}]>>]
      BY <1>4, <2>2, Zenon DEF Folded
    <3>2. Max(q) \in 1..n /\ F[q \ {Max(q)}] \in Builder
      BY <1>3, <2>2, Zenon DEF HasMax
    <3>3. <<Max(q), F[q \ {Max(q)}]>> \in (1..n) \X Builder
      BY <3>2
    <3> QED
      BY <2>2, <3>1, <3>3, Zenon
  <2> QED
    BY <2>1, <2>2
<1>6. FoldLeft(AddPacket, b, s) = c[1..n]
  BY <1>1 DEF FoldLeft, MapThenFoldSet
<1>7. R(c)
  <2> HIDE DEF R
  <2> QED
    BY <1>5
<1>8. ASSUME NEW f, R(f)
      PROVE  f[1..0] = b /\ \A i \in 1..n : f[1..i] = AddPacket(f[1..(i - 1)], s[i])
  <2>1. f[1..0] = b
    <3>1. 1..0 = {}
      OBVIOUS
    <3> QED
      BY <1>8, <3>1
  <2>2. ASSUME NEW i \in 1..n PROVE f[1..i] = AddPacket(f[1..(i - 1)], s[i])
    <3>0. i \in Nat \ {0} /\ i <= n
      BY <1>1
    <3>1. 1..i \in SUBSET (1..n) /\ i \in 1..i /\ (1..i) \ {i} = 1..(i - 1)
      BY <1>1, <3>0
    <3>2. Max(1..i) = i
      BY <1>1 DEF Max
    <3> DEFINE q == 1..i
    <3>3. f[q] = AddPacket(f[q \ {Max(q)}], s[Max(q)])
      <4> HIDE DEF q
      <4>1. q \in SUBSET (1..n) /\ q # {}
        BY <3>1 DEF q
      <4> QED
        BY <1>8, <4>1, Zenon
    <3> QED
      BY <3>1, <3>2, <3>3, Zenon
  <2> QED
    BY <2>1, <2>2
<1> HIDE DEF R, c
<1> DEFINE E == {i \in 0..n : c[1..i] = F[1..i]}
<1>9. n \in E
  <2>1. 0 \in E
    BY <1>1, <1>5, <1>7, <1>8
  <2>2. ASSUME NEW i \in 0..(n - 1), i \in E PROVE i + 1 \in E
    <3>1. i + 1 \in 1..n /\ i + 1 \in 0..n /\ (i + 1) - 1 = i
      BY <1>1
    <3>2. /\ c[1..(i + 1)] = AddPacket(c[1..((i + 1) - 1)], s[i + 1])
          /\ F[1..(i + 1)] = AddPacket(F[1..((i + 1) - 1)], s[i + 1])
      BY <1>5, <1>7, <1>8, <3>1, Zenon
    <3> QED
      BY <2>2, <3>1, <3>2
  <2> HIDE DEF E
  <2>3. \A i \in 0..n : i \in E
    BY <1>1, <2>1, <2>2, Induction, Zenon
  <2> QED
    BY <1>1, <2>3
<1> DEFINE g == [i \in 0..n |-> F[1..i]]
<1>10. g \in [0..n -> Builder]
  <2>1. \A i \in 0..n : 1..i \in SUBSET (1..n)
    BY <1>1
  <2> QED
    BY <2>1
<1>11. g[0] = b /\ g[n] = FoldLeft(AddPacket, b, s)
  BY <1>1, <1>5, <1>6, <1>8, <1>9
<1>12. \A i \in 1..n : g[i] = AddPacket(g[i - 1], s[i])
  <2> SUFFICES ASSUME NEW i \in 1..n PROVE g[i] = AddPacket(g[i - 1], s[i])
    BY Zenon
  <2>1. g[i] = F[1..i] /\ g[i - 1] = F[1..(i - 1)]
    BY <1>1
  <2> HIDE DEF g
  <2> QED
    BY <1>5, <1>8, <2>1, Zenon
<1> HIDE DEF g
<1> QED
  BY <1>10, <1>11, <1>12 DEF n

----------------------------------------------------------------------------
(* The fragments of a unit.                                                *)

(* Cutting L bytes into pieces of the same size, the last one shorter. *)
LEMMA Cuts ==
  ASSUME NEW L \in Nat, NEW size \in Nat \ {0}, L > size
  PROVE  LET count == (L + size - 1) \div size IN
         /\ count \in Nat /\ count >= 2 /\ count * size >= L
         /\ \A i \in 0..(count - 1) : i * size \in Nat /\ i * size < L
<1> DEFINE a == L + size - 1
           count == a \div size
<1>1. a \in Nat /\ count \in Int
  OBVIOUS
<1>2. a - size * count \in 0..(size - 1)
  BY <1>1
<1> HIDE DEF count, a
<1>3. size * count >= L /\ size * count <= L + size - 1
  BY <1>1, <1>2 DEF a
<1>4. count >= 2
  <2>1. size * count > size
    BY <1>1, <1>3
  <2>2. count > 1
    BY <1>1, <2>1
  <2> QED
    BY <1>1, <2>2
<1>5. count * size = size * count
  BY <1>1
<1>6. ASSUME NEW i \in 0..(count - 1) PROVE i * size \in Nat /\ i * size < L
  <2>1. i \in Nat /\ count - 1 - i >= 0
    BY <1>1
  <2>2. (count - 1 - i) * size >= 0
    BY <1>1, <2>1
  <2>3. (count - 1 - i) * size = count * size - size - i * size
    BY <1>1, <2>1
  <2>4. i * size \in Nat
    BY <2>1
  <2> QED
    BY <1>1, <1>3, <1>5, <2>2, <2>3, <2>4
<1> QED
  BY <1>1, <1>3, <1>4, <1>5, <1>6 DEF a, count

(* A packet holds more than RTP_PAYLOAD_SIZE bytes only behind units that  *)
(* fill it exactly.                                                        *)
Filled(units) ==
  Len(FlattenSeq(units)) > RtpPayloadSize =>
    \E n \in 1..(Len(units) - 1) :
      Len(FlattenSeq(SubSeq(units, 1, n))) = RtpPayloadSize

(* The fragments are a first one, middle ones and a last one, and hold the *)
(* unit.                                                                   *)
LEMMA FragmentsSound ==
  ASSUME NEW u \in Nalu, Len(u) > RtpPayloadSize
  PROVE  LET F == Fragments(u) IN
         /\ F \in Seq(Packet) /\ Len(F) \in Nat /\ Len(F) >= 2
         /\ \A i \in 1..Len(F) :
              /\ F[i].kind = IF i = 1 THEN "start"
                             ELSE IF i = Len(F) THEN "end" ELSE "middle"
              /\ Filled(F[i].units)
         /\ Text(F) = <<StartCode>> \o u
<1> DEFINE size  == RtpPayloadSize - 2
           data  == Tail(u)
           L     == Len(data)
           count == (L + size - 1) \div size
           End(i) == IF i * size < L THEN i * size ELSE L
           F     == Fragments(u)
           x(i)  == SubSeq(data, (i - 1) * size + 1, End(i))
<1>0. size \in Nat \ {0} /\ RtpPayloadSize \in Nat /\ RtpPayloadSize = size + 2
  BY SizeAssumption
<1>1. /\ u \in Seq(Byte) /\ u # <<>> /\ Head(u) \in Byte /\ data \in Seq(Byte)
      /\ L \in Nat /\ L = Len(u) - 1 /\ L > size
  <2>1. u \in Seq(Byte) /\ u # <<>>
    BY DEF Nalu, Unit
  <2> QED
    BY <1>0, <2>1
<1> HIDE DEF data, L
<1>2. /\ count \in Nat /\ count >= 2 /\ count * size >= L
      /\ \A i \in 0..(count - 1) : i * size \in Nat /\ i * size < L
  <2> HIDE DEF size
  <2> QED
    BY <1>0, <1>1, Cuts, Zenon
<1>3. F = [i \in 1..count |->
             [kind  |-> IF i = 1 THEN "start" ELSE IF i = count THEN "end" ELSE "middle",
              units |-> <<x(i)>>, nal |-> Head(u)]]
  BY DEF Fragments, data, L
<1> HIDE DEF count, F, size
<1>4. /\ \A i \in 0..(count - 1) : End(i) = i * size /\ End(i) \in Nat
      /\ End(count) = L
  <2>1. count * size \in Int /\ ~(count * size < L)
    BY <1>0, <1>1, <1>2
  <2> QED
    BY <1>0, <1>1, <1>2, <2>1, Zenon
<1>5. ASSUME NEW i \in 1..count
      PROVE  /\ (i - 1) * size \in Nat /\ (i - 1) * size < End(i)
             /\ End(i) <= (i - 1) * size + size /\ End(i) <= L /\ End(i) \in Nat
  <2>1. i - 1 \in 0..(count - 1) /\ i * size = (i - 1) * size + size
    BY <1>0, <1>2
  <2>2. (i - 1) * size \in Nat /\ (i - 1) * size < L
    BY <1>2, <2>1
  <2> QED
    BY <1>0, <1>1, <2>1, <2>2
<1> HIDE DEF End
<1>6. ASSUME NEW i \in 1..count
      PROVE  x(i) \in Seq(Byte) /\ Len(x(i)) <= RtpPayloadSize /\ Len(x(i)) \in Nat
  <2> DEFINE lo == (i - 1) * size
             hi == End(i)
  <2>1. /\ lo \in Nat /\ hi \in Nat /\ lo < hi /\ hi <= lo + size /\ hi <= L
    BY <1>5
  <2> HIDE DEF lo, hi
  <2>2. \A j \in (lo + 1)..hi : data[j] \in Byte
    BY <1>1, <2>1 DEF L
  <2>3. /\ SubSeq(data, lo + 1, hi) \in Seq(Byte)
        /\ Len(SubSeq(data, lo + 1, hi)) = hi - (lo + 1) + 1
    BY <2>1, <2>2, SubSeqProperties
  <2>4. Len(SubSeq(data, lo + 1, hi)) <= RtpPayloadSize
    BY <1>0, <2>1, <2>3
  <2> QED
    BY <2>3, <2>4 DEF lo, hi
<1> HIDE DEF x
<1>7. /\ \A i \in 1..count :
           /\ F[i] \in Packet /\ F[i].units = <<x(i)>> /\ F[i].nal = Head(u)
           /\ F[i].kind = IF i = 1 THEN "start"
                          ELSE IF i = count THEN "end" ELSE "middle"
      /\ F \in Seq(Packet) /\ Len(F) = count
  <2>1. ASSUME NEW i \in 1..count
        PROVE  /\ F[i] \in Packet /\ F[i].units = <<x(i)>> /\ F[i].nal = Head(u)
               /\ F[i].kind = IF i = 1 THEN "start"
                              ELSE IF i = count THEN "end" ELSE "middle"
    <3>1. F[i] = [kind  |-> IF i = 1 THEN "start"
                            ELSE IF i = count THEN "end" ELSE "middle",
                  units |-> <<x(i)>>, nal |-> Head(u)]
      BY <1>3
    <3>2. <<x(i)>> \in Seq(Unit) \ {<<>>}
      BY <1>6 DEF Unit
    <3> QED
      BY <1>1, <3>1, <3>2 DEF Packet, Kinds
  <2>2. F \in [1..count -> Packet]
    BY <1>3, <2>1
  <2>3. F \in Seq(Packet) /\ Len(F) = count
    BY <1>2, <2>2
  <2> QED
    BY <2>1, <2>3
<1>8. \A i \in 1..count : Filled(F[i].units)
  <2> SUFFICES ASSUME NEW i \in 1..count PROVE Filled(F[i].units)
    OBVIOUS
  <2>1. FlattenSeq(F[i].units) = x(i)
    BY <1>6, <1>7, FlattenOne, Zenon
  <2>2. ~(Len(x(i)) > RtpPayloadSize)
    BY <1>0, <1>6
  <2>3. ~(Len(FlattenSeq(F[i].units)) > RtpPayloadSize)
    BY <2>1, <2>2
  <2> QED
    BY <2>3, Zenon DEF Filled
<1> DEFINE h == <<StartCode, Head(u)>>
           T(k) == Text(SubSeq(F, 1, k)) = h \o SubSeq(data, 1, End(k))
<1>9. h \in Seq(Byte)
  BY <1>1, StartCodeType
<1>10. ASSUME NEW i \in 1..count
       PROVE  Part(F[i]) = IF i = 1 THEN h \o x(1) ELSE x(i)
  <2>1. F[i].units[1] = x(i)
    BY <1>7
  <2> QED
    BY <1>2, <1>7, <2>1, Zenon DEF Part
<1> HIDE DEF h
<1>11. T(1)
  <2>1. 1 \in 1..count /\ F[1] \in Packet
    BY <1>2, <1>7
  <2>2. SubSeq(F, 1, 1) = <<F[1]>>
    <3>1. \A i \in 1..1 : F[i] \in Packet
      BY <2>1
    <3>2. /\ SubSeq(F, 1, 1) \in Seq(Packet) /\ Len(SubSeq(F, 1, 1)) = 1
          /\ SubSeq(F, 1, 1)[1] = F[1]
      BY <3>1, SubSeqProperties
    <3> DEFINE a == SubSeq(F, 1, 1)
               b == <<F[1]>>
    <3>3. b \in Seq(Packet) /\ Len(b) = 1 /\ b[1] = F[1] /\ 1..1 = {1}
      BY <2>1
    <3>4. a \in Seq(Packet) /\ Len(a) = 1 /\ a[1] = F[1]
      BY <3>2
    <3> HIDE DEF a, b
    <3>5. a = b
      BY <3>3, <3>4, SeqEqual
    <3> QED
      BY <3>5 DEF a, b
  <2>3. Text(<<F[1]>>) = h \o x(1)
    BY <1>10, <2>1, TextOne, Zenon
  <2>4. (1 - 1) * size + 1 = 1
    BY <1>0
  <2>5. x(1) = SubSeq(data, 1, End(1))
    BY <2>4, Zenon DEF x
  <2> QED
    BY <2>2, <2>3, <2>5, Zenon
<1>12. ASSUME NEW k \in 1..(count - 1), T(k) PROVE T(k + 1)
  <2>0. k \in Nat /\ k + 1 \in 1..count /\ k \in 0..(count - 1) /\ (k + 1) - 1 = k
    BY <1>2
  <2> DEFINE P == SubSeq(F, 1, k)
             y == SubSeq(data, 1, k * size)
  <2>1. P \in Seq(Packet) /\ F[k + 1] \in Packet
    BY <1>7, <2>0
  <2>2. SubSeq(F, 1, k + 1) = Append(P, F[k + 1])
    <3>1. SubSeq(F, 1, k + 1) = SubSeq(F, 1, (k + 1) - 1) \o <<F[k + 1]>>
      BY <1>2, <1>7, <2>0, SubSeqRecursiveSecond
    <3> QED
      BY <2>0, <2>1, <3>1, AppendIsConcat
  <2>3. Text(SubSeq(F, 1, k + 1)) = Text(P) \o x(k + 1)
    <3>1. Part(F[k + 1]) = x(k + 1)
      BY <1>10, <2>0
    <3> HIDE DEF P
    <3> QED
      BY <2>1, <2>2, <3>1, TextAppend, Zenon
  <2>4. Text(P) = h \o y
    BY <1>4, <1>12, <2>0, Zenon
  <2>5. /\ k * size \in Nat /\ k * size < End(k + 1) /\ End(k + 1) <= L
        /\ End(k + 1) \in Nat
    BY <1>5, <2>0
  <2>6. x(k + 1) = SubSeq(data, k * size + 1, End(k + 1))
    BY <2>0, Zenon DEF x
  <2>7. y \o x(k + 1) = SubSeq(data, 1, End(k + 1))
    <3> DEFINE a == k * size
               b == End(k + 1)
    <3>1. a \in Nat /\ b \in Nat /\ a < b /\ b <= Len(data)
      BY <2>5 DEF L
    <3> HIDE DEF a, b
    <3>2. 1 \in 1..(Len(data) + 1) /\ a \in (1 - 1)..Len(data) /\ b \in a..Len(data)
      BY <1>1, <3>1
    <3>3. SubSeq(data, 1, a) \o SubSeq(data, a + 1, b) = SubSeq(data, 1, b)
      BY <1>1, <3>2, ConcatAdjacentSubSeq, Zenon
    <3> QED
      BY <2>6, <3>3, Zenon DEF a, b
  <2>8. y \in Seq(Byte) /\ x(k + 1) \in Seq(Byte)
    <3>1. x(k + 1) \in Seq(Byte)
      BY <1>6, <2>0
    <3>2. \A j \in 1..(k * size) : data[j] \in Byte
      BY <1>1, <2>5 DEF L
    <3>3. y \in Seq(Byte)
      BY <2>5, <3>2, SubSeqProperties
    <3> QED
      BY <3>1, <3>3
  <2> HIDE DEF P, y
  <2>9. (h \o y) \o x(k + 1) = h \o (y \o x(k + 1))
    <3> DEFINE z == x(k + 1)
    <3>1. z \in Seq(Byte)
      BY <2>8
    <3> HIDE DEF z
    <3>2. (h \o y) \o z = h \o (y \o z)
      BY <1>9, <2>8, <3>1
    <3> QED
      BY <3>2, Zenon DEF z
  <2> QED
    BY <2>3, <2>4, <2>7, <2>9, Zenon
<1>13. T(count)
  <2> DEFINE S == {k \in 0..(count - 1) : T(k + 1)}
  <2>1. count - 1 \in Nat /\ (count - 1) + 1 = count
    BY <1>2
  <2>2. 0 \in S
    <3>1. 0 + 1 = 1 /\ 0 \in 0..(count - 1)
      BY <2>1
    <3> HIDE DEF T
    <3> QED
      BY <1>11, <3>1
  <2>3. ASSUME NEW k \in 0..((count - 1) - 1), k \in S PROVE k + 1 \in S
    <3>1. k + 1 \in 1..(count - 1) /\ k + 1 \in 0..(count - 1)
      BY <2>1
    <3>2. T(k + 1)
      BY <2>3, Zenon
    <3> HIDE DEF T
    <3>3. T((k + 1) + 1)
      BY <1>12, <3>1, <3>2
    <3> QED
      BY <3>1, <3>3
  <2> HIDE DEF S
  <2>4. \A k \in 0..(count - 1) : k \in S
    BY <2>1, <2>2, <2>3, Induction, Zenon
  <2>5. count - 1 \in S
    BY <2>1, <2>4
  <2> HIDE DEF T
  <2> QED
    BY <2>1, <2>5 DEF S
<1>14. Text(F) = h \o data
  <2>1. SubSeq(F, 1, count) = F
    BY <1>7, SubSeqFull
  <2>2. SubSeq(data, 1, L) = data
    BY <1>1, SubSeqFull DEF L
  <2> QED
    BY <1>4, <1>13, <2>1, <2>2, Zenon
<1>15. h \o data = <<StartCode>> \o u
  <2> DEFINE a == h \o data
             b == <<StartCode>> \o u
  <2>1. /\ h \in Seq(Byte) /\ Len(h) = 2 /\ h[1] = StartCode /\ h[2] = Head(u)
        /\ <<StartCode>> \in Seq(Byte)
    BY <1>9, StartCodeType DEF h
  <2>2. /\ data \in Seq(Byte) /\ Len(data) = Len(u) - 1 /\ Head(u) = u[1]
        /\ \A i \in 1..(Len(u) - 1) : data[i] = u[i + 1]
        /\ Len(u) \in Nat
    BY <1>1 DEF data
  <2>3. /\ a \in Seq(Byte) /\ Len(a) = Len(u) + 1
        /\ \A i \in 1..(Len(u) + 1) : a[i] = IF i <= 2 THEN h[i] ELSE data[i - 2]
    <3>1. /\ a \in Seq(Byte) /\ Len(a) = Len(h) + Len(data)
          /\ \A i \in 1..(Len(h) + Len(data)) :
               a[i] = IF i <= Len(h) THEN h[i] ELSE data[i - Len(h)]
      BY <2>1, <2>2, ConcatProperties, Zenon
    <3>2. Len(h) + Len(data) = Len(u) + 1
      BY <2>1, <2>2
    <3> HIDE DEF a
    <3> QED
      BY <2>1, <3>1, <3>2
  <2>4. /\ b \in Seq(Byte) /\ Len(b) = Len(u) + 1
        /\ \A i \in 1..(Len(u) + 1) : b[i] = IF i <= 1 THEN StartCode ELSE u[i - 1]
    BY <1>1, <2>1, <2>2
  <2> HIDE DEF a, b
  <2>5. \A i \in 1..(Len(u) + 1) : a[i] = b[i]
    <3> SUFFICES ASSUME NEW i \in 1..(Len(u) + 1) PROVE a[i] = b[i]
      OBVIOUS
    <3>1. i = 1 \/ i = 2 \/ (i > 2 /\ i - 2 \in 1..(Len(u) - 1) /\ (i - 2) + 1 = i - 1)
      BY <2>2
    <3>2. CASE i = 1
      BY <2>1, <2>3, <2>4, <3>2
    <3>3. CASE i = 2
      BY <2>1, <2>2, <2>3, <2>4, <3>3
    <3>4. CASE i > 2 /\ i - 2 \in 1..(Len(u) - 1) /\ (i - 2) + 1 = i - 1
      BY <2>2, <2>3, <2>4, <3>4
    <3> QED
      BY <3>1, <3>2, <3>3, <3>4
  <2>6. a = b
    BY <2>3, <2>4, <2>5, SeqEqual
  <2> QED
    BY <2>6 DEF a, b
<1> QED
  BY <1>2, <1>7, <1>8, <1>14, <1>15 DEF F

(* build_fua_packet puts all fragments behind the packets, or gives up. *)
LEMMA FuaSound ==
  ASSUME NEW b \in Builder, NEW s \in Seq(Packet)
  PROVE  LET r == FoldLeft(AddPacket, b, s) IN
         /\ r \in Builder /\ r.tmp = b.tmp /\ r.totalLen = b.totalLen
         /\ r.ok => b.ok /\ r.packets = b.packets \o s
<1> DEFINE n == Len(s)
<1>1. PICK g \in [0..n -> Builder] :
        /\ g[0] = b
        /\ \A i \in 1..n : g[i] = AddPacket(g[i - 1], s[i])
        /\ FoldLeft(AddPacket, b, s) = g[n]
  BY FoldPackets, Zenon
<1>2. n \in Nat /\ b.packets \in Seq(Packet) /\ \A i \in 1..n : s[i] \in Packet
  BY DEF Builder
<1> DEFINE So(r, i) == /\ r \in Builder /\ r.tmp = b.tmp /\ r.totalLen = b.totalLen
                       /\ r.ok => b.ok /\ r.packets = b.packets \o SubSeq(s, 1, i)
           S == {i \in 0..n : So(g[i], i)}
<1>3. 0 \in S
  <2>1. SubSeq(s, 1, 0) = <<>> /\ b.packets \o <<>> = b.packets /\ 0 \in 0..n
    BY <1>2, ConcatEmptySeq
  <2>2. So(b, 0)
    BY <2>1
  <2> HIDE DEF So
  <2> QED
    BY <1>1, <2>1, <2>2
<1>4. ASSUME NEW i \in 0..(n - 1), i \in S PROVE i + 1 \in S
  <2>0. i \in Nat /\ i + 1 \in 1..n /\ i + 1 \in 0..n /\ (i + 1) - 1 = i
    BY <1>2
  <2> DEFINE c == g[i]
             p == s[i + 1]
             r == AddPacket(c, p)
             q == SubSeq(s, 1, i)
  <2>1. So(c, i) /\ p \in Packet /\ q \in Seq(Packet)
    <3>1. So(c, i)
      <4> HIDE DEF So
      <4> QED
        BY <1>4
    <3>2. p \in Packet
      BY <1>2, <2>0
    <3>3. q \in Seq(Packet)
      BY <1>2, <2>0
    <3> QED
      BY <3>1, <3>2, <3>3, Zenon
  <2>2. g[i + 1] = r
    BY <1>1, <2>0
  <2>3. SubSeq(s, 1, i + 1) = q \o <<p>>
    <3>1. SubSeq(s, 1, i + 1) = SubSeq(s, 1, (i + 1) - 1) \o <<s[i + 1]>>
      BY <1>2, <2>0, SubSeqRecursiveSecond
    <3> QED
      BY <2>0, <3>1
  <2> HIDE DEF c, p, q
  <2>4. /\ r \in Builder /\ r.tmp = c.tmp /\ r.totalLen = c.totalLen
        /\ r.ok => c.ok /\ r.packets = Append(c.packets, p)
    BY <2>1, AddPacketSound
  <2> HIDE DEF r
  <2>5. Append(b.packets \o q, p) = b.packets \o (q \o <<p>>)
    <3> DEFINE a == b.packets
    <3>0. a \in Seq(Packet)
      BY <1>2
    <3> HIDE DEF a
    <3>1. <<p>> \in Seq(Packet) /\ a \o q \in Seq(Packet)
      BY <2>1, <3>0
    <3>2. Append(a \o q, p) = (a \o q) \o <<p>>
      BY <2>1, <3>1, AppendIsConcat
    <3>3. (a \o q) \o <<p>> = a \o (q \o <<p>>)
      <4> DEFINE e == <<p>>
      <4>1. e \in Seq(Packet)
        BY <3>1
      <4> HIDE DEF e
      <4>2. (a \o q) \o e = a \o (q \o e)
        BY <2>1, <3>0, <4>1
      <4> QED
        BY <4>2, Zenon DEF e
    <3> QED
      BY <3>2, <3>3, Zenon DEF a
  <2>6. So(r, i + 1)
    <3>1. r.ok => c.packets = b.packets \o q /\ b.ok
      BY <2>1, <2>4, Zenon DEF q
    <3> QED
      BY <2>1, <2>3, <2>4, <2>5, <3>1, Zenon
  <2> HIDE DEF So
  <2> QED
    BY <2>0, <2>2, <2>6
<1> HIDE DEF S
<1>5. n \in S
  <2>1. \A i \in 0..n : i \in S
    BY <1>2, <1>3, <1>4, Induction, Zenon
  <2> QED
    BY <1>2, <2>1
<1>6. So(g[n], n)
  BY <1>5, Zenon DEF S
<1>7. SubSeq(s, 1, n) = s
  BY SubSeqFull
<1> HIDE DEF n
<1> QED
  BY <1>1, <1>6, <1>7, Zenon

----------------------------------------------------------------------------
(* The packets of a frame.                                                 *)

(* The kinds of packet after which a unit begins. *)
Opens(p) == p.kind \in {"single", "stapa", "start"}

(* The fragments of a unit follow each other, every unit that is begun is  *)
(* ended, and no packet is overfull for another reason than a first part   *)
(* that filled it.                                                         *)
Runs(ps)  == \A i \in 1..Len(ps) : Opens(ps[i]) <=> (i = 1 \/ Ends(ps[i - 1]))
Ended(ps) == ps # <<>> => Ends(ps[Len(ps)])
Good(ps)  == Runs(ps) /\ Ended(ps) /\ \A i \in 1..Len(ps) : Filled(ps[i].units)

(* No packets are in order. *)
LEMMA GoodEmpty == Good(<<>>)
BY DEF Good, Runs, Ended

(* Packets in order stay so when whole units follow. *)
LEMMA GoodAppend ==
  ASSUME NEW ps \in Seq(Packet), NEW p \in Packet, Good(ps),
         p.kind \in {"single", "stapa"}, Filled(p.units)
  PROVE  Good(Append(ps, p))
<1> DEFINE r == Append(ps, p)
           n == Len(ps)
<1>1. /\ r \in Seq(Packet) /\ r # <<>> /\ Len(r) = n + 1 /\ r[n + 1] = p /\ n \in Nat
      /\ \A i \in 1..n : r[i] = ps[i]
  BY AppendProperties
<1> HIDE DEF r
<1>2. \A i \in 1..(n + 1) : i \in 1..n \/ i = n + 1
  BY <1>1
<1>3. Opens(p) /\ Ends(p)
  BY DEF Opens, Ends
<1>4. Ended(r)
  BY <1>1, <1>3 DEF Ended
<1>5. n = 0 \/ Ends(ps[n])
  BY DEF Good, Ended
<1>6. Runs(r)
  <2> SUFFICES ASSUME NEW i \in 1..(n + 1)
               PROVE  Opens(r[i]) <=> (i = 1 \/ Ends(r[i - 1]))
    BY <1>1 DEF Runs
  <2>1. CASE i \in 1..n
    <3>1. r[i] = ps[i] /\ (i # 1 => r[i - 1] = ps[i - 1])
      BY <1>1, <2>1
    <3>2. Opens(ps[i]) <=> (i = 1 \/ Ends(ps[i - 1]))
      BY <2>1 DEF Good, Runs
    <3> QED
      BY <3>1, <3>2
  <2>2. CASE i = n + 1
    <3>1. r[i] = p /\ (i # 1 => i - 1 = n /\ r[i - 1] = ps[n] /\ n # 0)
      BY <1>1, <2>2
    <3> QED
      BY <1>3, <1>5, <3>1
  <2> QED
    BY <1>2, <2>1, <2>2
<1>7. \A i \in 1..(n + 1) : Filled(r[i].units)
  BY <1>1, <1>2 DEF Good
<1> QED
  BY <1>1, <1>4, <1>6, <1>7 DEF Good, r

(* Packets in order stay so when all fragments of a unit follow. *)
LEMMA GoodFragments ==
  ASSUME NEW ps \in Seq(Packet), NEW u \in Nalu, Len(u) > RtpPayloadSize, Good(ps)
  PROVE  Good(ps \o Fragments(u))
<1> DEFINE F == Fragments(u)
           r == ps \o F
           n == Len(ps)
           m == Len(F)
<1>1. /\ F \in Seq(Packet) /\ m \in Nat /\ m >= 2
      /\ \A i \in 1..m : /\ F[i].kind = IF i = 1 THEN "start"
                                        ELSE IF i = m THEN "end" ELSE "middle"
                         /\ Filled(F[i].units)
  BY FragmentsSound
<1> HIDE DEF F
<1>2. /\ n \in Nat /\ r \in Seq(Packet) /\ Len(r) = n + m
      /\ \A i \in 1..(n + m) : r[i] = IF i <= n THEN ps[i] ELSE F[i - n]
  BY <1>1, ConcatProperties
<1> HIDE DEF r, m
<1>3. n = 0 \/ Ends(ps[n])
  BY DEF Good, Ended
<1> HIDE DEF n
<1>4. \A i \in 1..m : /\ Opens(F[i]) <=> i = 1
                      /\ Ends(F[i]) <=> i = m
  BY <1>1 DEF Opens, Ends
<1>5. Ended(r)
  <2>1. n + m \in 1..(n + m) /\ ~(n + m <= n) /\ (n + m) - n = m /\ m \in 1..m
    BY <1>1, <1>2
  <2> QED
    BY <1>2, <1>4, <2>1 DEF Ended
<1>6. Runs(r)
  <2> SUFFICES ASSUME NEW i \in 1..(n + m)
               PROVE  Opens(r[i]) <=> (i = 1 \/ Ends(r[i - 1]))
    BY <1>2 DEF Runs
  <2>1. CASE i <= n
    <3>1. i \in 1..n /\ r[i] = ps[i] /\ (i # 1 => r[i - 1] = ps[i - 1])
      BY <1>1, <1>2, <2>1
    <3>2. Opens(ps[i]) <=> (i = 1 \/ Ends(ps[i - 1]))
      BY <3>1 DEF Good, Runs, n
    <3> QED
      BY <3>1, <3>2
  <2>2. CASE i = n + 1
    <3>1. r[i] = F[1] /\ 1 \in 1..m /\ (i # 1 => i - 1 = n /\ r[i - 1] = ps[n] /\ n # 0)
      BY <1>1, <1>2, <2>2
    <3> QED
      BY <1>3, <1>4, <3>1
  <2>3. CASE i > n + 1
    <3>1. /\ r[i] = F[i - n] /\ i - n \in 1..m /\ i - n # 1 /\ i # 1
          /\ r[i - 1] = F[(i - n) - 1] /\ (i - n) - 1 \in 1..m /\ (i - n) - 1 # m
      BY <1>1, <1>2, <2>3
    <3> QED
      BY <1>4, <3>1
  <2> QED
    BY <1>1, <1>2, <2>1, <2>2, <2>3
<1>7. \A i \in 1..(n + m) : Filled(r[i].units)
  <2> SUFFICES ASSUME NEW i \in 1..(n + m) PROVE Filled(r[i].units)
    OBVIOUS
  <2>1. CASE i <= n
    <3>1. i \in 1..n /\ r[i] = ps[i]
      BY <1>1, <1>2, <2>1
    <3> QED
      BY <3>1 DEF Good, n
  <2>2. CASE ~(i <= n)
    <3>1. i - n \in 1..m /\ r[i] = F[i - n]
      BY <1>1, <1>2, <2>2
    <3> QED
      BY <1>1, <3>1
  <2> QED
    BY <2>1, <2>2
<1> QED
  BY <1>2, <1>5, <1>6, <1>7 DEF Good, r, F

----------------------------------------------------------------------------
(* A round of the builder.                                                 *)

(* build_packet: what was collected becomes a packet, or nothing did. *)
LEMMA BuildPacketSound ==
  ASSUME NEW b \in Builder
  PROVE  LET r == BuildPacket(b) IN
         /\ r \in Builder /\ r.tmp = <<>>
         /\ b.tmp = <<>> => r = b
         /\ b.tmp # <<>> =>
              /\ r.totalLen = 0
              /\ r.ok => /\ b.ok
                         /\ \E p \in Packet :
                              /\ p.kind \in {"single", "stapa"} /\ p.units = b.tmp
                              /\ r.packets = Append(b.packets, p)
<1> DEFINE r == BuildPacket(b)
<1>1. b.tmp \in Seq(Nalu) /\ b.packets \in Seq(Packet)
  BY DEF Builder
<1>2. CASE b.tmp = <<>>
  BY <1>2 DEF BuildPacket
<1>3. CASE b.tmp # <<>>
  <2> DEFINE p == [kind  |-> IF Len(b.tmp) = 1 THEN "single" ELSE "stapa",
                   units |-> b.tmp, nal |-> Head(Head(b.tmp))]
             a == AddPacket(b, p)
  <2>1. p \in Packet
    <3>1. Head(b.tmp) \in Nalu
      BY <1>1, <1>3
    <3>2. Head(Head(b.tmp)) \in Byte
      BY <3>1 DEF Nalu, Unit
    <3>3. b.tmp \in Seq(Unit) \ {<<>>}
      BY <1>1, <1>3, NaluUnits
    <3> QED
      BY <3>2, <3>3 DEF Packet, Kinds
  <2>2. p.kind \in {"single", "stapa"} /\ p.units = b.tmp
    OBVIOUS
  <2>3. r = [a EXCEPT !.tmp = <<>>, !.totalLen = 0]
    BY <1>3 DEF BuildPacket
  <2> HIDE DEF p
  <2>4. /\ a \in Builder /\ a.tmp = b.tmp /\ a.totalLen = b.totalLen
        /\ a.ok => b.ok /\ a.packets = Append(b.packets, p)
    BY <2>1, AddPacketSound
  <2> HIDE DEF a
  <2>5. <<>> \in Seq(Nalu) /\ 0 \in Nat
    OBVIOUS
  <2>6. /\ r \in Builder /\ r.tmp = <<>> /\ r.totalLen = 0 /\ r.ok = a.ok
        /\ r.packets = a.packets
    BY <2>3, <2>4, <2>5, Zenon DEF Builder
  <2> QED
    BY <1>3, <2>1, <2>2, <2>4, <2>6
<1> QED
  BY <1>2, <1>3

(* What becomes of a unit: fragments, the first of a new packet, or one    *)
(* more of the packet that is being collected.                             *)
LEMMA AddNaluCases ==
  ASSUME NEW b, NEW u
  PROVE  \/ /\ Len(u) > RtpPayloadSize
            /\ AddNalu(b, u) = BuildFuaPacket(BuildPacket(b), u)
         \/ /\ ~(Len(u) > RtpPayloadSize)
            /\ AddNalu(b, u) = [BuildPacket(b) EXCEPT !.tmp = <<u>>, !.totalLen = Len(u)]
         \/ /\ ~(Len(u) > RtpPayloadSize)
            /\ ~(b.totalLen < RtpPayloadSize /\ RtpPayloadSize < b.totalLen + Len(u))
            /\ AddNalu(b, u) = [b EXCEPT !.tmp = Append(@, u), !.totalLen = @ + Len(u)]
BY DEF AddNalu

(* A NAL unit has a first byte. *)
LEMMA NaluType ==
  ASSUME NEW u \in Nalu
  PROVE  u \in Seq(Byte) /\ u \in Unit /\ u # <<>> /\ Len(u) \in Nat \ {0}
BY DEF Nalu, Unit

(* A round of the loop leaves a builder. *)
LEMMA AddNaluType ==
  ASSUME NEW b \in Builder, NEW u \in Nalu
  PROVE  AddNalu(b, u) \in Builder
<1>1. BuildPacket(b) \in Builder
  BY BuildPacketSound
<1>2. CASE Len(u) > RtpPayloadSize /\ AddNalu(b, u) = BuildFuaPacket(BuildPacket(b), u)
  BY <1>1, <1>2, FragmentsSound, FuaSound DEF BuildFuaPacket
<1>3. CASE AddNalu(b, u) = [BuildPacket(b) EXCEPT !.tmp = <<u>>, !.totalLen = Len(u)]
  <2>1. <<u>> \in Seq(Nalu) /\ Len(u) \in Nat
    BY NaluType
  <2> QED
    BY <1>1, <1>3, <2>1, Zenon DEF Builder
<1>4. CASE AddNalu(b, u) = [b EXCEPT !.tmp = Append(@, u), !.totalLen = @ + Len(u)]
  <2> DEFINE x == Append(b.tmp, u)
             y == b.totalLen + Len(u)
  <2>1. x \in Seq(Nalu) /\ y \in Nat
    BY NaluType DEF Builder
  <2>2. AddNalu(b, u) = [b EXCEPT !.tmp = x, !.totalLen = y]
    BY <1>4
  <2> HIDE DEF x, y
  <2> QED
    BY <2>1, <2>2, Zenon DEF Builder
<1> QED
  BY <1>2, <1>3, <1>4, AddNaluCases, Zenon

(* The fold over the units of a frame, one after the other. *)
LEMMA FoldNalus ==
  ASSUME NEW b \in Builder, NEW s \in Seq(Nalu)
  PROVE  \E g \in [0..Len(s) -> Builder] :
           /\ g[0] = b
           /\ \A i \in 1..Len(s) : g[i] = AddNalu(g[i - 1], s[i])
           /\ FoldLeft(AddNalu, b, s) = g[Len(s)]
<1> DEFINE n == Len(s)
           step == [z \in (1..n) \X Builder |-> AddNalu(z[2], s[z[1]])]
<1>1. n \in Nat /\ DOMAIN s = 1..n /\ \A i \in 1..n : s[i] \in Nalu
  OBVIOUS
<1> HIDE DEF n
<1>2. step \in [(1..n) \X Builder -> Builder]
  <2> SUFFICES ASSUME NEW z \in (1..n) \X Builder
               PROVE  AddNalu(z[2], s[z[1]]) \in Builder
    OBVIOUS
  <2>1. z[2] \in Builder /\ s[z[1]] \in Nalu
    BY <1>1
  <2> QED
    BY <2>1, AddNaluType
<1>3. HasMax(n) /\ \E F \in [SUBSET (1..n) -> Builder] : Folded(F, b, step, n)
  <2> HIDE DEF step
  <2> QED
    BY <1>1, <1>2, FoldExists, Zenon
<1>4. PICK F \in [SUBSET (1..n) -> Builder] : Folded(F, b, step, n)
  BY <1>3, Zenon
<1> DEFINE R(f) == f = [q \in SUBSET (1..n) |-> IF q = {} THEN b
                          ELSE AddNalu(f[q \ {Max(q)}], s[Max(q)])]
           c == CHOOSE f : R(f)
<1>5. R(F)
  <2> SUFFICES ASSUME NEW q \in SUBSET (1..n)
               PROVE  F[q] = IF q = {} THEN b ELSE AddNalu(F[q \ {Max(q)}], s[Max(q)])
    BY Zenon
  <2>1. CASE q = {}
    BY <1>4, <2>1, Zenon DEF Folded
  <2>2. CASE q # {}
    <3>1. F[q] = step[<<Max(q), F[q \ {Max(q)}]>>]
      BY <1>4, <2>2, Zenon DEF Folded
    <3>2. Max(q) \in 1..n /\ F[q \ {Max(q)}] \in Builder
      BY <1>3, <2>2, Zenon DEF HasMax
    <3>3. <<Max(q), F[q \ {Max(q)}]>> \in (1..n) \X Builder
      BY <3>2
    <3> QED
      BY <2>2, <3>1, <3>3, Zenon
  <2> QED
    BY <2>1, <2>2
<1>6. FoldLeft(AddNalu, b, s) = c[1..n]
  BY <1>1 DEF FoldLeft, MapThenFoldSet
<1>7. R(c)
  <2> HIDE DEF R
  <2> QED
    BY <1>5
<1>8. ASSUME NEW f, R(f)
      PROVE  f[1..0] = b /\ \A i \in 1..n : f[1..i] = AddNalu(f[1..(i - 1)], s[i])
  <2>1. f[1..0] = b
    <3>1. 1..0 = {}
      OBVIOUS
    <3> QED
      BY <1>8, <3>1
  <2>2. ASSUME NEW i \in 1..n PROVE f[1..i] = AddNalu(f[1..(i - 1)], s[i])
    <3>0. i \in Nat \ {0} /\ i <= n
      BY <1>1
    <3>1. 1..i \in SUBSET (1..n) /\ i \in 1..i /\ (1..i) \ {i} = 1..(i - 1)
      BY <1>1, <3>0
    <3>2. Max(1..i) = i
      BY <1>1 DEF Max
    <3> DEFINE q == 1..i
    <3>3. f[q] = AddNalu(f[q \ {Max(q)}], s[Max(q)])
      <4> HIDE DEF q
      <4>1. q \in SUBSET (1..n) /\ q # {}
        BY <3>1 DEF q
      <4> QED
        BY <1>8, <4>1, Zenon
    <3> QED
      BY <3>1, <3>2, <3>3, Zenon
  <2> QED
    BY <2>1, <2>2
<1> HIDE DEF R, c
<1> DEFINE E == {i \in 0..n : c[1..i] = F[1..i]}
<1>9. n \in E
  <2>1. 0 \in E
    BY <1>1, <1>5, <1>7, <1>8
  <2>2. ASSUME NEW i \in 0..(n - 1), i \in E PROVE i + 1 \in E
    <3>1. i + 1 \in 1..n /\ i + 1 \in 0..n /\ (i + 1) - 1 = i
      BY <1>1
    <3>2. /\ c[1..(i + 1)] = AddNalu(c[1..((i + 1) - 1)], s[i + 1])
          /\ F[1..(i + 1)] = AddNalu(F[1..((i + 1) - 1)], s[i + 1])
      BY <1>5, <1>7, <1>8, <3>1, Zenon
    <3> QED
      BY <2>2, <3>1, <3>2
  <2> HIDE DEF E
  <2>3. \A i \in 0..n : i \in E
    BY <1>1, <2>1, <2>2, Induction, Zenon
  <2> QED
    BY <1>1, <2>3
<1> DEFINE g == [i \in 0..n |-> F[1..i]]
<1>10. g \in [0..n -> Builder]
  <2>1. \A i \in 0..n : 1..i \in SUBSET (1..n)
    BY <1>1
  <2> QED
    BY <2>1
<1>11. g[0] = b /\ g[n] = FoldLeft(AddNalu, b, s)
  BY <1>1, <1>5, <1>6, <1>8, <1>9
<1>12. \A i \in 1..n : g[i] = AddNalu(g[i - 1], s[i])
  <2> SUFFICES ASSUME NEW i \in 1..n PROVE g[i] = AddNalu(g[i - 1], s[i])
    BY Zenon
  <2>1. g[i] = F[1..i] /\ g[i - 1] = F[1..(i - 1)]
    BY <1>1
  <2> HIDE DEF g
  <2> QED
    BY <1>5, <1>8, <2>1, Zenon
<1> HIDE DEF g
<1> QED
  BY <1>10, <1>11, <1>12 DEF n

(* The builder after the units us of a frame: what it has packed and what  *)
(* it has collected is their text.                                         *)
Collected(b, us) ==
  /\ b \in Builder /\ b.totalLen = Len(FlattenSeq(b.tmp)) /\ Filled(b.tmp)
  /\ b.ok => Good(b.packets) /\ Text(b.packets) \o AnnexB(b.tmp) = AnnexB(us)

(* Three parts of a text. *)
LEMMA UnitAssoc ==
  ASSUME NEW x \in Unit, NEW y \in Unit, NEW z \in Unit
  PROVE  /\ (x \o y) \o z = x \o (y \o z)
         /\ x \o <<>> = x /\ <<>> \o x = x /\ x \o y \in Unit
         /\ Len(x \o y) = Len(x) + Len(y) /\ Len(x) \in Nat /\ Len(y) \in Nat
<1>1. x \in Seq(Byte) /\ y \in Seq(Byte) /\ z \in Seq(Byte)
  BY DEF Unit
<1>2. (x \o y) \o z = x \o (y \o z)
  BY <1>1
<1>3. /\ x \o <<>> = x /\ <<>> \o x = x /\ x \o y \in Seq(Byte)
      /\ Len(x \o y) = Len(x) + Len(y) /\ Len(x) \in Nat /\ Len(y) \in Nat
  BY <1>1, ConcatEmptySeq, ConcatProperties
<1> QED
  BY <1>2, <1>3 DEF Unit

(* Nothing collected is not too much. *)
LEMMA FilledEmpty == Filled(<<>>) /\ Len(FlattenSeq(<<>>)) = 0
<1>1. Len(FlattenSeq(<<>>)) = 0 /\ ~(0 > RtpPayloadSize)
  BY FlattenEmpty, SizeAssumption
<1> QED
  BY <1>1, Zenon DEF Filled

(* build_packet loses none of what was collected. *)
LEMMA CollectedPacked ==
  ASSUME NEW b, NEW us \in Seq(Unit), Collected(b, us)
  PROVE  LET r == BuildPacket(b) IN
         /\ r.tmp = <<>> /\ r.totalLen = 0 /\ Collected(r, us)
         /\ r.ok => Text(r.packets) = AnnexB(us)
<1> DEFINE r == BuildPacket(b)
<1>1. /\ b \in Builder /\ b.tmp \in Seq(Unit) /\ b.packets \in Seq(Packet)
  BY NaluUnits DEF Collected, Builder
<1>2. /\ r \in Builder /\ r.tmp = <<>> /\ r.packets \in Seq(Packet)
  BY <1>1, BuildPacketSound DEF Builder
<1>3. /\ r.totalLen = 0
      /\ r.ok => Good(r.packets) /\ Text(r.packets) = AnnexB(us)
  <2>1. CASE b.tmp = <<>>
    <3>1. r = b
      BY <1>1, <2>1, BuildPacketSound
    <3> HIDE DEF r
    <3>2. Text(r.packets) \in Unit
      BY <1>2, TextType
    <3>3. Text(r.packets) \o <<>> = Text(r.packets)
      BY <3>2, UnitAssoc
    <3> QED
      BY <2>1, <3>1, <3>3, AnnexBEmpty, FilledEmpty, Zenon DEF Collected
  <2>2. CASE b.tmp # <<>>
    <3>1. r.totalLen = 0
      BY <1>1, <2>2, BuildPacketSound
    <3>2. ASSUME r.ok PROVE Good(r.packets) /\ Text(r.packets) = AnnexB(us)
      <4>1. b.ok
        BY <1>1, <2>2, <3>2, BuildPacketSound
      <4>2. PICK p \in Packet : /\ p.kind \in {"single", "stapa"} /\ p.units = b.tmp
                                /\ r.packets = Append(b.packets, p)
        BY <1>1, <2>2, <3>2, BuildPacketSound
      <4>3. Good(b.packets) /\ Filled(p.units)
        BY <4>1, <4>2 DEF Collected
      <4>4. Good(Append(b.packets, p))
        BY <1>1, <4>2, <4>3, GoodAppend
      <4>5. Part(p) = AnnexB(b.tmp)
        BY <4>2 DEF Part
      <4>6. Text(Append(b.packets, p)) = Text(b.packets) \o AnnexB(b.tmp)
        BY <1>1, <4>2, <4>5, TextAppend
      <4> QED
        BY <4>1, <4>2, <4>4, <4>6 DEF Collected
    <3> QED
      BY <3>1, <3>2
  <2> QED
    BY <2>1, <2>2
<1> HIDE DEF r
<1>4. r.ok => Text(r.packets) \o AnnexB(r.tmp) = AnnexB(us)
  <2>1. Text(r.packets) \o <<>> = Text(r.packets)
    BY <1>2, TextType, UnitAssoc
  <2> QED
    BY <1>2, <1>3, <2>1, AnnexBEmpty, Zenon
<1>5. Collected(r, us)
  BY <1>2, <1>3, <1>4, FilledEmpty DEF Collected
<1> QED
  BY <1>2, <1>3, <1>5 DEF r

(* One unit more is collected when the packet is not yet full and has room *)
(* for it, or when it is full already: it grows past RTP_PAYLOAD_SIZE only *)
(* behind an exact fill.                                                   *)
LEMMA FilledAppend ==
  ASSUME NEW tmp \in Seq(Unit), NEW u \in Unit, Filled(tmp),
         NEW total, total = Len(FlattenSeq(tmp)),
         ~(total < RtpPayloadSize /\ RtpPayloadSize < total + Len(u))
  PROVE  /\ Filled(Append(tmp, u))
         /\ Len(FlattenSeq(Append(tmp, u))) = total + Len(u)
<1> DEFINE t == Append(tmp, u)
           m == Len(tmp)
<1>1. /\ t \in Seq(Unit) /\ Len(t) = m + 1 /\ m \in Nat
      /\ \A i \in 1..m : t[i] = tmp[i]
  BY AppendProperties
<1>2. FlattenSeq(t) = FlattenSeq(tmp) \o u /\ FlattenSeq(tmp) \in Unit
  BY FlattenAppend, FlattenType, Zenon DEF Unit
<1>3. /\ Len(FlattenSeq(t)) = total + Len(u) /\ total \in Nat /\ Len(u) \in Nat
      /\ RtpPayloadSize \in Nat /\ RtpPayloadSize > 2
  BY <1>2, UnitAssoc, SizeAssumption
<1>4. ASSUME NEW n \in 0..m PROVE SubSeq(t, 1, n) = SubSeq(tmp, 1, n)
  <2> DEFINE x == SubSeq(t, 1, n)
             y == SubSeq(tmp, 1, n)
  <2>0. n \in Nat /\ n <= m
    BY <1>1
  <2>1. \A i \in 1..n : t[i] \in Unit /\ tmp[i] \in Unit /\ t[i] = tmp[i]
    BY <1>1, <2>0
  <2>2. /\ x \in Seq(Unit) /\ y \in Seq(Unit)
        /\ Len(x) = IF 1 <= n THEN n - 1 + 1 ELSE 0
        /\ Len(y) = IF 1 <= n THEN n - 1 + 1 ELSE 0
        /\ \A i \in 1..(n - 1 + 1) : x[i] = t[1 + i - 1]
        /\ \A i \in 1..(n - 1 + 1) : y[i] = tmp[1 + i - 1]
    <3> HIDE DEF t
    <3> QED
      BY <2>0, <2>1, SubSeqProperties
  <2> HIDE DEF x, y, t
  <2>3. Len(x) = n /\ Len(y) = n /\ n - 1 + 1 = n /\ \A i \in 1..n : 1 + i - 1 = i
    BY <2>0, <2>2
  <2>4. \A i \in 1..n : x[i] = y[i]
    BY <2>1, <2>2, <2>3
  <2>5. x = y
    BY <2>2, <2>3, <2>4, SeqEqual
  <2> QED
    BY <2>5 DEF x, y
<1> HIDE DEF t
<1>5. ASSUME Len(FlattenSeq(t)) > RtpPayloadSize
      PROVE  \E n \in 1..(Len(t) - 1) : Len(FlattenSeq(SubSeq(t, 1, n))) = RtpPayloadSize
  <2>1. total >= RtpPayloadSize
    BY <1>3, <1>5
  <2>2. CASE total = RtpPayloadSize
    <3>1. tmp # <<>>
      <4>1. tmp = <<>> => total = 0
        BY FilledEmpty, Zenon
      <4> QED
        BY <1>3, <2>2, <4>1
    <3>2. m \in 1..(Len(t) - 1) /\ m \in 0..m
      BY <1>1, <3>1
    <3>3. SubSeq(t, 1, m) = tmp
      BY <1>4, <3>2, SubSeqFull
    <3> QED
      BY <2>2, <3>2, <3>3, Zenon
  <2>3. CASE total > RtpPayloadSize
    <3>1. PICK n \in 1..(m - 1) : Len(FlattenSeq(SubSeq(tmp, 1, n))) = RtpPayloadSize
      BY <2>3 DEF Filled
    <3>2. n \in 1..(Len(t) - 1) /\ n \in 0..m
      BY <1>1
    <3>3. SubSeq(t, 1, n) = SubSeq(tmp, 1, n)
      BY <1>4, <3>2
    <3> QED
      BY <3>1, <3>2, <3>3, Zenon
  <2> QED
    BY <1>3, <2>1, <2>2, <2>3
<1>6. Filled(t)
  BY <1>5 DEF Filled
<1> QED
  BY <1>3, <1>6 DEF t

(* A round of receive_rtp_packets. *)
LEMMA CollectedAdd ==
  ASSUME NEW b, NEW us \in Seq(Unit), NEW u \in Nalu, Collected(b, us)
  PROVE  Collected(AddNalu(b, u), Append(us, u))
<1> DEFINE code == <<StartCode>> \o u
           c == BuildPacket(b)
           r == AddNalu(b, u)
<1>1. /\ u \in Unit /\ Len(u) \in Nat \ {0} /\ code \in Unit
      /\ AnnexB(us) \in Unit /\ AnnexB(Append(us, u)) = AnnexB(us) \o code
  BY NaluType, CodedType, AnnexBType, AnnexBAppend, Zenon
<1>2. /\ b \in Builder /\ b.tmp \in Seq(Nalu) /\ b.tmp \in Seq(Unit)
      /\ b.packets \in Seq(Packet) /\ b.totalLen \in Nat
  BY NaluUnits DEF Collected, Builder
<1>3. /\ c.tmp = <<>> /\ c.totalLen = 0 /\ Collected(c, us)
      /\ c.ok => Text(c.packets) = AnnexB(us)
  BY CollectedPacked
<1>4. /\ c \in Builder /\ c.packets \in Seq(Packet)
      /\ c.ok => Good(c.packets)
  BY <1>3 DEF Collected, Builder
<1>5. r \in Builder
  BY <1>2, AddNaluType
<1>6. CASE Len(u) > RtpPayloadSize /\ r = BuildFuaPacket(c, u)
  <2> DEFINE F == Fragments(u)
  <2>1. F \in Seq(Packet) /\ Text(F) = code
    BY <1>6, FragmentsSound
  <2>2. r = FoldLeft(AddPacket, c, F)
    BY <1>6 DEF BuildFuaPacket
  <2> HIDE DEF F, r, c
  <2>3. /\ r.tmp = c.tmp /\ r.totalLen = c.totalLen
        /\ r.ok => c.ok /\ r.packets = c.packets \o F
    BY <1>4, <2>1, <2>2, FuaSound, Zenon
  <2>4. ASSUME r.ok
        PROVE  Good(r.packets) /\ Text(r.packets) \o AnnexB(r.tmp) = AnnexB(Append(us, u))
    <3>1. c.ok /\ r.packets = c.packets \o F /\ r.tmp = <<>>
      BY <1>3, <2>3, <2>4
    <3>2. Good(c.packets \o F)
      BY <1>4, <1>6, <3>1, GoodFragments DEF F
    <3>3. Text(c.packets \o F) = AnnexB(us) \o code
      BY <1>3, <1>4, <2>1, <3>1, TextConcat, Zenon
    <3> HIDE DEF code
    <3>4. (AnnexB(us) \o code) \o <<>> = AnnexB(us) \o code
      <4>1. AnnexB(us) \o code \in Unit
        BY <1>1, UnitAssoc
      <4> QED
        BY <4>1, UnitAssoc
    <3> QED
      BY <1>1, <3>1, <3>2, <3>3, <3>4, AnnexBEmpty, Zenon
  <2>5. r.tmp = <<>> /\ r.totalLen = 0
    BY <1>3, <2>3
  <2> QED
    BY <1>5, <2>4, <2>5, FilledEmpty DEF Collected, r
<1>7. CASE /\ ~(Len(u) > RtpPayloadSize)
           /\ r = [c EXCEPT !.tmp = <<u>>, !.totalLen = Len(u)]
  <2> HIDE DEF c, r
  <2>1. /\ r.tmp = <<u>> /\ r.totalLen = Len(u) /\ r.packets = c.packets /\ r.ok = c.ok
    BY <1>4, <1>7 DEF Builder
  <2>2. FlattenSeq(<<u>>) = u
    BY <1>1, FlattenOne DEF Unit
  <2>3. Filled(<<u>>)
    BY <1>7, <2>2 DEF Filled
  <2>4. AnnexB(<<u>>) = code
    BY <1>1, AnnexBOne, Zenon
  <2>5. r.ok => Good(r.packets) /\ Text(r.packets) \o AnnexB(r.tmp) = AnnexB(Append(us, u))
    BY <1>1, <1>3, <1>4, <2>1, <2>4, Zenon
  <2> QED
    BY <1>5, <2>1, <2>2, <2>3, <2>5, Zenon DEF Collected, r
<1>8. CASE /\ ~(b.totalLen < RtpPayloadSize /\ RtpPayloadSize < b.totalLen + Len(u))
           /\ r = [b EXCEPT !.tmp = Append(@, u), !.totalLen = @ + Len(u)]
  <2> HIDE DEF r
  <2>1. /\ r.tmp = Append(b.tmp, u) /\ r.totalLen = b.totalLen + Len(u)
        /\ r.packets = b.packets /\ r.ok = b.ok
    BY <1>2, <1>8 DEF Builder
  <2>2. /\ Filled(Append(b.tmp, u))
        /\ Len(FlattenSeq(Append(b.tmp, u))) = b.totalLen + Len(u)
    <3>1. Filled(b.tmp) /\ b.totalLen = Len(FlattenSeq(b.tmp))
      BY DEF Collected
    <3> QED
      BY <1>1, <1>2, <1>8, <3>1, FilledAppend, Zenon
  <2>3. AnnexB(Append(b.tmp, u)) = AnnexB(b.tmp) \o code /\ AnnexB(b.tmp) \in Unit
    BY <1>1, <1>2, AnnexBAppend, AnnexBType, Zenon
  <2>4. Text(b.packets) \in Unit
    BY <1>2, TextType
  <2> HIDE DEF code
  <2> DEFINE x == Text(b.packets)
             y == AnnexB(b.tmp)
  <2>5. x \o (y \o code) = (x \o y) \o code
    <3>1. x \in Unit /\ y \in Unit /\ code \in Unit
      BY <1>1, <2>3, <2>4
    <3> HIDE DEF x, y
    <3> QED
      BY <3>1, SMT DEF Unit
  <2>6. r.ok => Good(r.packets) /\ Text(r.packets) \o AnnexB(r.tmp) = AnnexB(Append(us, u))
    BY <1>1, <2>1, <2>3, <2>5, Zenon DEF Collected
  <2> QED
    BY <1>5, <2>1, <2>2, <2>6 DEF Collected, r
<1> HIDE DEF c, r
<1> QED
  BY <1>6, <1>7, <1>8, AddNaluCases, Zenon DEF c, r

(* receive_rtp_packets: the packets of a frame carry its text. *)
THEOREM BuiltCorrect ==
  ASSUME NEW nalus \in Seq(Nalu), nalus # <<>>
  PROVE  LET built == ReceiveRtpPackets(nalus) IN
         /\ built \in Builder
         /\ built.ok => /\ built.packets # <<>> /\ Good(built.packets)
                        /\ Text(built.packets) = AnnexB(nalus)
<1> DEFINE b0 == [tmp |-> <<>>, totalLen |-> 0, packets |-> <<>>, used |-> 0, ok |-> TRUE]
           n == Len(nalus)
           T(i) == SubSeq(nalus, 1, i)
<1>1. n \in Nat /\ n >= 1 /\ n \in 0..n
  BY EmptySeq, LenProperties
<1>2. b0 \in Builder
  <2>1. <<>> \in Seq(Nalu) /\ <<>> \in Seq(Packet)
    OBVIOUS
  <2> QED
    BY <2>1 DEF Builder
<1>3. Collected(b0, <<>>)
  <2>1. /\ b0.tmp = <<>> /\ b0.totalLen = 0 /\ b0.packets = <<>>
    OBVIOUS
  <2>2. <<>> \o <<>> = <<>>
    OBVIOUS
  <2> HIDE DEF b0
  <2> QED
    BY <1>2, <2>1, <2>2, FilledEmpty, GoodEmpty, TextEmpty, AnnexBEmpty, Zenon DEF Collected
<1>4. PICK g \in [0..n -> Builder] :
        /\ g[0] = b0
        /\ \A i \in 1..n : g[i] = AddNalu(g[i - 1], nalus[i])
        /\ FoldLeft(AddNalu, b0, nalus) = g[n]
  <2> HIDE DEF b0
  <2> QED
    BY <1>2, FoldNalus, Zenon
<1>5. T(0) = <<>> /\ T(n) = nalus
  BY <1>1, SubSeqFull, SubSeqEmpty
<1>6. \A i \in 0..(n - 1) : /\ T(i) \in Seq(Nalu) /\ nalus[i + 1] \in Nalu
                            /\ T(i + 1) = Append(T(i), nalus[i + 1])
  <2> SUFFICES ASSUME NEW i \in 0..(n - 1)
               PROVE /\ T(i) \in Seq(Nalu) /\ nalus[i + 1] \in Nalu
                     /\ T(i + 1) = Append(T(i), nalus[i + 1])
    OBVIOUS
  <2>1. i \in Nat /\ i + 1 \in 1..n /\ i <= n
    BY <1>1
  <2>2. nalus[i + 1] \in Nalu
    BY <2>1
  <2>3. \A j \in 1..i : nalus[j] \in Nalu
    BY <2>1
  <2>4. T(i) \in Seq(Nalu)
    BY <2>1, <2>3, SubSeqProperties
  <2>5. T(i + 1) = Append(T(i), nalus[i + 1])
    BY <2>1
  <2> QED
    BY <2>2, <2>4, <2>5
<1> HIDE DEF T, b0
<1> DEFINE S == {i \in 0..n : Collected(g[i], T(i))}
<1>7. \A i \in 0..n : i \in S
  <2>1. 0 \in S
    BY <1>1, <1>3, <1>4, <1>5
  <2>2. \A i \in 0..(n - 1) : i \in S => i + 1 \in S
    <3> SUFFICES ASSUME NEW i \in 0..(n - 1), i \in S PROVE i + 1 \in S
      OBVIOUS
    <3>1. i + 1 \in 1..n /\ i + 1 \in 0..n /\ (i + 1) - 1 = i /\ Collected(g[i], T(i))
      BY <1>1
    <3>2. g[i + 1] = AddNalu(g[i], nalus[i + 1])
      BY <1>4, <3>1
    <3>3. T(i) \in Seq(Unit)
      BY <1>6, NaluUnits
    <3>4. Collected(g[i + 1], T(i + 1))
      BY <1>6, <3>1, <3>2, <3>3, CollectedAdd, Zenon
    <3> QED
      BY <3>1, <3>4
  <2> HIDE DEF S
  <2> QED
    BY <1>1, <2>1, <2>2, Induction, Zenon
<1>8. Collected(g[n], nalus) /\ nalus \in Seq(Unit)
  BY <1>1, <1>5, <1>7, NaluUnits
<1> DEFINE r == BuildPacket(g[n])
<1>9. ReceiveRtpPackets(nalus) = r
  BY <1>4 DEF ReceiveRtpPackets, b0
<1>10. Collected(r, nalus) /\ (r.ok => Text(r.packets) = AnnexB(nalus))
  BY <1>8, CollectedPacked
<1>11. AnnexB(nalus) # <<>>
  <2>1. 0 <= n - 1 /\ n - 1 \in 0..(n - 1) /\ (n - 1) + 1 = n
    BY <1>1
  <2> DEFINE v == T(n - 1)
             u == nalus[(n - 1) + 1]
  <2>2. v \in Seq(Unit) /\ u \in Unit /\ nalus = Append(v, u)
    BY <1>5, <1>6, <2>1, NaluUnits, NaluType, Zenon
  <2> HIDE DEF v, u
  <2>3. AnnexB(nalus) = AnnexB(v) \o (<<StartCode>> \o u)
    BY <2>2, AnnexBAppend, Zenon
  <2>4. /\ AnnexB(v) \in Unit /\ <<StartCode>> \o u \in Unit /\ Len(u) \in Nat
        /\ Len(<<StartCode>> \o u) = Len(u) + 1
    BY <2>2, AnnexBType, CodedType, UnitAssoc, Zenon
  <2>5. Len(AnnexB(nalus)) = Len(AnnexB(v)) + (Len(u) + 1) /\ Len(AnnexB(v)) \in Nat
    BY <2>3, <2>4, UnitAssoc
  <2> QED
    BY <2>4, <2>5
<1> HIDE DEF r
<1>12. r.ok => r.packets # <<>>
  BY <1>10, <1>11, TextEmpty
<1> QED
  BY <1>9, <1>10, <1>12 DEF Collected

-------------------------------------------------------------------------------
(* The stream.                                                             *)

(* A frame that was sent, and a packet on its way. *)
FrameRec == [nalus: Seq(Nalu), count: Nat]
OnWire   == [kind: Kinds, units: Seq(Unit) \ {<<>>}, nal: Byte,
             id: Nat \X Nat, marker: BOOLEAN]

(* They carry the text of the frame, when there are any. *)
FrameOK(s) ==
  s.count # 0 => /\ Packets(s) \in Seq(Packet) /\ Len(Packets(s)) = s.count
                 /\ Good(Packets(s)) /\ Text(Packets(s)) = AnnexB(s.nalus)

(* The order in which packets are sent. *)
Before(a, b) == a[1] < b[1] \/ (a[1] = b[1] /\ a[2] < b[2])

(* Packet a is one of the frames s. *)
Known(a, s) == a \in Nat \X Nat /\ a[1] \in 1..Len(s) /\ a[2] \in 1..s[a[1]].count

(* p is the packet of frame s that its number says. *)
Carries(p, s) ==
  LET q == Packets(s)[p.id[2]] IN
  /\ p.kind = q.kind /\ p.units = q.units /\ p.nal = q.nal
  /\ p.marker <=> p.id[2] = s.count

SentOK == sent \in Seq(FrameRec) /\ \A f \in 1..Len(sent) : FrameOK(sent[f])

(* What is on the wire are packets of frames, in the order they were sent. *)
WireOK ==
  /\ wire \in Seq(OnWire)
  /\ \A i \in 1..Len(wire) : Known(wire[i].id, sent) /\ Carries(wire[i], sent[wire[i].id[1]])
  /\ \A i, j \in 1..Len(wire) : i < j => Before(wire[i].id, wire[j].id)

(* The packet that receive_video was given last. *)
Latest(a) == a \in arrived /\ \A c \in arrived : c = a \/ Before(c, a)

(* What arrived was sent before what is on the wire. *)
ArrivedOK ==
  /\ \A a \in arrived : Known(a, sent) /\ \A i \in 1..Len(wire) : Before(a, wire[i].id)
  /\ arrived # {} => \E a \in arrived : Latest(a)

(* The second half of CleanlyReceived. *)
Clean(f) ==
  \A g \in 1 .. f - 1 :
    Reached(g) /\ (\A h \in g + 1 .. f - 1 : ~Reached(h)) => MarkerTaken(g)

(* m_h264_rtp_buffer is empty at first and after every marker taken. *)
Emptied ==
  arrived = {} \/ (\E f \in 1..Len(sent) : Latest(LastPacket(f)) /\ MarkerTaken(f))
  => rtpBuffer = <<>>

(* The first k packets of a frame came as they were sent. *)
CameWhole(f, k) ==
  \A i \in 1..k : <<f, i>> \in arrived /\ Whole(Packets(sent[f])[i])

(* What is in the two buffers then. *)
Gathered ==
  \A f \in 1..Len(sent) : \A k \in 1 .. sent[f].count - 1 :
    /\ Latest(<<f, k>>) /\ Clean(f) /\ CameWhole(f, k)
    /\ Len(AnnexB(sent[f].nalus)) < RecvBufferSize
    => rtpBuffer \o (IF Ends(Packets(sent[f])[k]) THEN <<>> ELSE frame)
       = Text(SubSeq(Packets(sent[f]), 1, k))

BuffersOK == frame \in Unit /\ rtpBuffer \in Unit /\ Emptied /\ Gathered

DeliveredOK ==
  /\ delivered \in Seq([frame: Nat, data: Unit])
  /\ OneDeliveryPerMarker /\ IntactAfterMarker

(* The inductive invariant. *)
StreamInv == SentOK /\ WireOK /\ ArrivedOK /\ BuffersOK /\ DeliveredOK

(* What send_data finds in a frame are NAL units. *)
LEMMA NalusType ==
  ASSUME NEW f \in Nat, NEW k \in Nat \ {0}, NEW lens \in [1..k -> NaluLens]
  PROVE  Nalus(f, lens) \in Seq(Nalu) \ {<<>>}
<1>1. ASSUME NEW n \in 1..k PROVE [j \in 1..lens[n] |-> <<f, n, j>>] \in Nalu
  <2> DEFINE m == lens[n]
             u == [j \in 1..m |-> <<f, n, j>>]
  <2>1. m \in Nat /\ m # 0
    BY SizeAssumption, Zenon
  <2>2. \A j \in 1..m : <<f, n, j>> \in Byte
    BY DEF Byte
  <2> HIDE DEF m
  <2>3. u \in [1..m -> Byte]
    BY <2>2
  <2>4. u \in Seq(Byte)
    BY <2>1, <2>3
  <2>5. Len(u) = m
    BY <2>1
  <2>6. u # <<>>
    BY <2>1, <2>4, <2>5
  <2> QED
    BY <2>4, <2>6 DEF Nalu, Unit, m
<1> DEFINE T(n) == [j \in 1..lens[n] |-> <<f, n, j>>]
           s == [n \in 1..k |-> T(n)]
<1>2. Nalus(f, lens) = s
  BY DEF Nalus
<1>3. \A n \in 1..k : T(n) \in Nalu
  BY <1>1
<1> HIDE DEF T
<1>4. s \in [1..k -> Nalu]
  BY <1>3
<1>5. s \in Seq(Nalu) /\ Len(s) = k
  BY <1>4
<1>6. s # <<>>
  BY <1>5
<1> QED
  BY <1>2, <1>5, <1>6

(* w are the first n of the packets ps of frame f, as they are sent. *)
SentAs(w, f, ps, n) ==
  /\ w \in Seq(OnWire) /\ Len(w) = n
  /\ \A i \in 1..n :
       /\ i \in 1..Len(ps) /\ w[i].id = <<f, i>>
       /\ w[i].marker <=> i = Len(ps)
       /\ w[i].kind = ps[i].kind /\ w[i].units = ps[i].units /\ w[i].nal = ps[i].nal

(* The packets that send_h264_data sends are those of the builder,         *)
(* numbered, and the last of them has the marker.                          *)
LEMMA MarkedSound ==
  ASSUME NEW f \in Nat, NEW ps \in Seq(Packet), NEW n \in 0..Len(ps)
  PROVE  SentAs(SubSeq(Marked(f, ps), 1, n), f, ps, n)
<1> DEFINE T(i) == [kind  |-> ps[i].kind,  units |-> ps[i].units,
                    nal   |-> ps[i].nal,   id    |-> <<f, i>>,
                    marker |-> i = Len(ps)]
           m == Marked(f, ps)
           w == SubSeq(m, 1, n)
<1>1. Len(ps) \in Nat /\ DOMAIN ps = 1..Len(ps) /\ n \in Nat /\ n <= Len(ps)
  BY LenProperties
<1>2. m = [i \in 1..Len(ps) |-> T(i)]
  BY <1>1 DEF Marked
<1>3. ASSUME NEW i \in 1..Len(ps)
      PROVE  /\ T(i) \in OnWire
             /\ T(i).id = <<f, i>> /\ (T(i).marker <=> i = Len(ps))
             /\ T(i).kind = ps[i].kind /\ T(i).units = ps[i].units /\ T(i).nal = ps[i].nal
  <2>1. ps[i] \in Packet
    BY <1>1
  <2>2. /\ ps[i].kind \in Kinds /\ ps[i].units \in Seq(Unit) \ {<<>>} /\ ps[i].nal \in Byte
        /\ <<f, i>> \in Nat \X Nat /\ (i = Len(ps)) \in BOOLEAN
    BY <2>1 DEF Packet
  <2>3. T(i) \in OnWire
    BY <2>2, Zenon DEF OnWire
  <2> QED
    BY <2>3, Zenon
<1> HIDE DEF T
<1>4. m \in Seq(OnWire) /\ Len(m) = Len(ps) /\ \A i \in 1..Len(ps) : m[i] = T(i)
  <2>1. m \in [1..Len(ps) -> OnWire]
    BY <1>2, <1>3
  <2> QED
    BY <1>1, <1>2, <2>1
<1> HIDE DEF m
<1>5. /\ w \in Seq(OnWire) /\ Len(w) = IF 1 <= n THEN n - 1 + 1 ELSE 0
      /\ \A i \in 1..(n - 1 + 1) : w[i] = m[1 + i - 1]
  <2>1. \A i \in 1..n : m[i] \in OnWire
    BY <1>1, <1>4
  <2> QED
    BY <1>1, <1>4, <2>1, SubSeqProperties
<1> HIDE DEF w
<1>6. Len(w) = n /\ \A i \in 1..n : i \in 1..Len(ps) /\ w[i] = T(i)
  <2>1. n - 1 + 1 = n /\ \A i \in 1..n : 1 + i - 1 = i /\ i \in 1..Len(ps)
    BY <1>1
  <2> QED
    BY <1>1, <1>4, <1>5, <2>1
<1>7. SentAs(w, f, ps, n)
  BY <1>3, <1>5, <1>6 DEF SentAs
<1> QED
  BY <1>7 DEF m, w

(* The first packet on the wire and the others. *)
LEMMA RestOfWire ==
  ASSUME NEW S, NEW w \in Seq(S), w # <<>>
  PROVE  /\ Head(w) = w[1] /\ w[1] \in S /\ 1 \in 1..Len(w) /\ Tail(w) \in Seq(S)
         /\ Len(w) \in Nat /\ Len(Tail(w)) = Len(w) - 1
         /\ \A i \in 1..Len(Tail(w)) : i + 1 \in 1..Len(w) /\ Tail(w)[i] = w[i + 1]
<1>1. Len(w) \in Nat /\ Len(w) >= 1 /\ Len(Tail(w)) = Len(w) - 1 /\ Tail(w) \in Seq(S)
  BY EmptySeq
<1>2. Head(w) = w[1] /\ 1 \in 1..Len(w)
  BY <1>1
<1>3. w[1] \in S
  BY <1>2
<1>4. \A i \in 1..Len(Tail(w)) : i + 1 \in 1..Len(w) /\ Tail(w)[i] = w[i + 1]
  BY <1>1
<1> QED
  BY <1>1, <1>2, <1>3, <1>4

(* The invariant of the receiver speaks of nothing but its variables and   *)
(* the frames.                                                             *)
LEMMA SameReceiver ==
  ASSUME sent' = sent, arrived' = arrived, frame' = frame, rtpBuffer' = rtpBuffer,
         delivered' = delivered
  PROVE  /\ BuffersOK => BuffersOK'
         /\ DeliveredOK => DeliveredOK'
<1>1. \A f : /\ LastPacket(f)' = LastPacket(f)
             /\ Reached(f)' <=> Reached(f)
  BY DEF LastPacket, Reached
<1>2. \A f : MarkerTaken(f)' <=> MarkerTaken(f)
  BY DEF MarkerTaken, LastPacket
<1>3. \A f : /\ Clean(f)' <=> Clean(f)
             /\ CleanlyReceived(f)' <=> CleanlyReceived(f)
  BY <1>1, <1>2, Zenon DEF Clean, CleanlyReceived
<1>4. \A f, k : CameWhole(f, k)' <=> CameWhole(f, k)
  BY Zenon DEF CameWhole
<1>5. \A a : Latest(a)' <=> Latest(a)
  BY Zenon DEF Latest
<1>6. Emptied => Emptied'
  BY <1>1, <1>2, <1>5, Zenon DEF Emptied, Latest
<1>7. Gathered => Gathered'
  BY <1>3, <1>4, <1>5, Zenon DEF Gathered
<1>8. BuffersOK => BuffersOK'
  BY <1>6, <1>7, Zenon DEF BuffersOK
<1>9. OneDeliveryPerMarker => OneDeliveryPerMarker'
  <2>1. {f \in DOMAIN sent : MarkerTaken(f)'} = {f \in DOMAIN sent : MarkerTaken(f)}
    BY <1>2
  <2> QED
    BY <2>1, Zenon DEF OneDeliveryPerMarker
<1>10. IntactAfterMarker => IntactAfterMarker'
  BY <1>3, Zenon DEF IntactAfterMarker
<1> QED
  BY <1>8, <1>9, <1>10, Zenon DEF DeliveredOK

(* A lost packet leaves the receiver as it was. *)
LEMMA LoseStep ==
  ASSUME StreamInv, Lose
  PROVE  StreamInv'
<1>1. /\ wire # <<>> /\ wire' = Tail(wire) /\ sent' = sent /\ arrived' = arrived
      /\ frame' = frame /\ rtpBuffer' = rtpBuffer /\ delivered' = delivered
  BY DEF Lose
<1>2. /\ Tail(wire) \in Seq(OnWire) /\ Len(wire) \in Nat /\ Len(Tail(wire)) \in Nat
      /\ \A i \in 1..Len(Tail(wire)) : i + 1 \in 1..Len(wire) /\ Tail(wire)[i] = wire[i + 1]
  BY <1>1, RestOfWire DEF StreamInv, WireOK
<1>3. SentOK'
  BY <1>1 DEF StreamInv, SentOK
<1>4. WireOK'
  <2>1. ASSUME NEW i \in 1..Len(Tail(wire))
        PROVE /\ Known(Tail(wire)[i].id, sent)
              /\ Carries(Tail(wire)[i], sent[Tail(wire)[i].id[1]])
    BY <1>2 DEF StreamInv, WireOK
  <2>2. ASSUME NEW i \in 1..Len(Tail(wire)), NEW j \in 1..Len(Tail(wire)), i < j
        PROVE Before(Tail(wire)[i].id, Tail(wire)[j].id)
    <3>1. i + 1 < j + 1 /\ i + 1 \in 1..Len(wire) /\ j + 1 \in 1..Len(wire)
      BY <1>2, <2>2
    <3>2. Before(wire[i + 1].id, wire[j + 1].id)
      BY <3>1 DEF StreamInv, WireOK
    <3> QED
      BY <1>2, <3>2
  <2> QED
    BY <1>1, <1>2, <2>1, <2>2 DEF WireOK
<1>5. ArrivedOK'
  <2>1. ASSUME NEW a \in arrived, NEW i \in 1..Len(Tail(wire))
        PROVE Before(a, Tail(wire)[i].id)
    BY <1>2 DEF StreamInv, ArrivedOK
  <2> QED
    BY <1>1, <2>1 DEF StreamInv, ArrivedOK, Latest
<1>6. BuffersOK' /\ DeliveredOK'
  BY <1>1, SameReceiver DEF StreamInv
<1> QED
  BY <1>3, <1>4, <1>5, <1>6 DEF StreamInv

(* The order of the packets is strict. *)
LEMMA BeforeOrder ==
  ASSUME NEW a \in Nat \X Nat, NEW b \in Nat \X Nat
  PROVE  /\ Before(a, b) => a # b /\ ~Before(b, a)
         /\ a[1] \in Nat /\ a[2] \in Nat /\ a = <<a[1], a[2]>>
BY DEF Before

(* A packet is given to receive_video. *)
LEMMA ReceiveOrder ==
  ASSUME StreamInv, wire # <<>>, sent' = sent, wire' = Tail(wire),
         arrived' = arrived \union {Head(wire).id}
  PROVE  LET id == Head(wire).id IN
         /\ SentOK' /\ WireOK' /\ ArrivedOK' /\ \A a : Latest(a)' <=> a = id
         /\ Known(id, sent) /\ Carries(Head(wire), sent[id[1]]) /\ Head(wire) \in OnWire
         /\ \A a \in arrived : a \in Nat \X Nat /\ Before(a, id)
<1> DEFINE p == Head(wire)
           id == p.id
           t == Tail(wire)
<1>1. /\ p = wire[1] /\ 1 \in 1..Len(wire) /\ p \in OnWire
      /\ t \in Seq(OnWire) /\ Len(wire) \in Nat /\ Len(t) \in Nat
      /\ \A i \in 1..Len(t) : i + 1 \in 1..Len(wire) /\ t[i] = wire[i + 1]
  BY RestOfWire DEF StreamInv, WireOK
<1>2. Known(id, sent) /\ Carries(p, sent[id[1]]) /\ id \in Nat \X Nat
  BY <1>1 DEF StreamInv, WireOK, Known
<1>3. \A a \in arrived : a \in Nat \X Nat /\ Before(a, id) /\ Known(a, sent)
  BY <1>1 DEF StreamInv, ArrivedOK, Known
<1> HIDE DEF p, t, id
<1>4. SentOK'
  BY DEF StreamInv, SentOK
<1>5. WireOK'
  <2>1. ASSUME NEW i \in 1..Len(t)
        PROVE /\ Known(t[i].id, sent)
              /\ Carries(t[i], sent[t[i].id[1]])
    BY <1>1 DEF StreamInv, WireOK
  <2>2. ASSUME NEW i \in 1..Len(t), NEW j \in 1..Len(t), i < j
        PROVE Before(t[i].id, t[j].id)
    <3>1. i + 1 < j + 1 /\ i + 1 \in 1..Len(wire) /\ j + 1 \in 1..Len(wire)
      BY <1>1, <2>2
    <3>2. Before(wire[i + 1].id, wire[j + 1].id)
      BY <3>1 DEF StreamInv, WireOK
    <3> QED
      BY <1>1, <3>2, Zenon
  <2>3. wire' = t
    BY DEF t
  <2> QED
    BY <1>1, <2>1, <2>2, <2>3, Zenon DEF WireOK
<1>6. \A a : Latest(a)' <=> a = id
  <2>1. arrived' = arrived \union {id}
    BY DEF id, p
  <2>2. ASSUME NEW a, Latest(a)' PROVE a = id
    <3>1. a = id \/ Before(id, a)
      BY <2>1, <2>2 DEF Latest
    <3>2. a \in arrived => ~Before(id, a)
      BY <1>2, <1>3, BeforeOrder
    <3> QED
      BY <2>1, <2>2, <3>1, <3>2 DEF Latest
  <2>3. ASSUME NEW a, a = id PROVE Latest(a)'
    BY <1>3, <2>1, <2>3 DEF Latest
  <2> QED
    BY <2>2, <2>3
<1>7. ArrivedOK'
  <2>1. ASSUME NEW i \in 1..Len(t)
        PROVE  Before(id, t[i].id) /\ \A a \in arrived : Before(a, t[i].id)
    <3>1. 1 < i + 1 /\ i + 1 \in 1..Len(wire)
      BY <1>1
    <3>2. Before(wire[1].id, wire[i + 1].id)
      BY <1>1, <3>1 DEF StreamInv, WireOK
    <3>3. \A a \in arrived : Before(a, wire[i + 1].id)
      BY <3>1 DEF StreamInv, ArrivedOK
    <3> QED
      BY <1>1, <3>2, <3>3 DEF id
  <2>2. arrived' = arrived \union {id} /\ wire' = t
    BY DEF id, p, t
  <2>3. \A a \in arrived' : Known(a, sent') /\ \A i \in 1..Len(wire') : Before(a, wire'[i].id)
    BY <1>2, <1>3, <2>1, <2>2, Zenon
  <2> QED
    BY <1>6, <2>2, <2>3 DEF ArrivedOK
<1> QED
  BY <1>1, <1>2, <1>3, <1>4, <1>5, <1>6, <1>7 DEF id, p

(* The text of the first packets of a frame grows by a packet and is never *)
(* longer than that of the frame.                                          *)
LEMMA PrefixText ==
  ASSUME NEW ps \in Seq(Packet), NEW k \in 1..Len(ps)
  PROVE  /\ SubSeq(ps, 1, k) \in Seq(Packet) /\ SubSeq(ps, 1, k - 1) \in Seq(Packet)
         /\ ps[k] \in Packet
         /\ Text(SubSeq(ps, 1, k)) = Text(SubSeq(ps, 1, k - 1)) \o Part(ps[k])
         /\ Text(SubSeq(ps, 1, k)) \in Unit /\ Text(SubSeq(ps, 1, k - 1)) \in Unit
         /\ Len(Text(SubSeq(ps, 1, k))) <= Len(Text(ps))
         /\ SubSeq(ps, 1, Len(ps)) = ps /\ SubSeq(ps, 1, 0) = <<>>
<1> DEFINE x == SubSeq(ps, 1, k)
           y == SubSeq(ps, 1, k - 1)
           z == SubSeq(ps, k + 1, Len(ps))
<1>1. Len(ps) \in Nat /\ k \in Nat /\ k >= 1 /\ k <= Len(ps) /\ k - 1 \in Nat
  BY LenProperties
<1>2. ps[k] \in Packet
  BY <1>1
<1>3. x \in Seq(Packet) /\ y \in Seq(Packet) /\ z \in Seq(Packet)
  <2>1. /\ \A i \in 1..k : ps[i] \in Packet
        /\ \A i \in 1..(k - 1) : ps[i] \in Packet
        /\ \A i \in (k + 1)..Len(ps) : ps[i] \in Packet
    BY <1>1
  <2>2. x \in Seq(Packet)
    BY <1>1, <2>1, SubSeqProperties
  <2>3. y \in Seq(Packet)
    BY <1>1, <2>1, SubSeqProperties
  <2>4. z \in Seq(Packet)
    BY <1>1, <2>1, SubSeqProperties
  <2> QED
    BY <2>2, <2>3, <2>4
<1>4. x = Append(y, ps[k])
  BY <1>1
<1>5. ps = x \o z
  BY <1>1
<1>6. SubSeq(ps, 1, Len(ps)) = ps /\ SubSeq(ps, 1, 0) = <<>>
  BY <1>1, SubSeqFull, SubSeqEmpty
<1> HIDE DEF x, y, z
<1>7. Text(x) \in Unit /\ Text(y) \in Unit /\ Text(z) \in Unit
  BY <1>3, TextType
<1>8. Text(x) = Text(y) \o Part(ps[k])
  BY <1>2, <1>3, <1>4, TextAppend, Zenon
<1>9. Text(ps) = Text(x) \o Text(z)
  BY <1>3, <1>5, TextConcat, Zenon
<1>10. Len(Text(x)) <= Len(Text(ps))
  <2>1. /\ Len(Text(x) \o Text(z)) = Len(Text(x)) + Len(Text(z))
        /\ Len(Text(x)) \in Nat /\ Len(Text(z)) \in Nat
    BY <1>7, UnitAssoc
  <2> QED
    BY <1>9, <2>1
<1> QED
  BY <1>2, <1>3, <1>6, <1>7, <1>8, <1>10, Zenon DEF x, y

(* A frame that was sent. *)
LEMMA FrameType ==
  ASSUME SentOK, NEW f \in 1..Len(sent)
  PROVE  sent[f].count \in Nat /\ sent[f].nalus \in Seq(Unit)
<1>1. sent[f] \in FrameRec
  BY DEF SentOK
<1> QED
  BY <1>1, NaluUnits DEF FrameRec

(* m_buffer after the packet that carries q of the builder, when it is not *)
(* cut; and whether push_packet returns true.                              *)
LEMMA PushedText ==
  ASSUME NEW q \in Packet, NEW p, p.kind = q.kind, p.units = q.units, p.nal = q.nal
  PROVE  /\ Whole(q) => PushPacket(p) = IF Opens(q) THEN Part(q) ELSE frame \o Part(q)
         /\ Refused(p) <=> Refused(q)
         /\ Ends(p) <=> Ends(q)
         /\ Whole(q) => ~Refused(q)
<1>1. q.kind \in Kinds
  BY DEF Packet
<1>2. /\ Whole(p) <=> Whole(q)
      /\ \A n : UpTo(p, n) = UpTo(q, n)
  BY DEF Whole, PayloadSize, UpTo
<1>3. /\ Refused(p) <=> Refused(q)
      /\ Ends(p) <=> Ends(q)
      /\ Whole(q) => ~Refused(q)
  BY <1>2 DEF Refused, Ends
<1>4. ASSUME Whole(q)
      PROVE  PushPacket(p) = IF Opens(q) THEN Part(q) ELSE frame \o Part(q)
  <2>1. CASE q.kind = "single"
    <3>1. PushPacket(p) = AnnexB(p.units)
      BY <2>1 DEF PushPacket
    <3>2. Part(q) = AnnexB(q.units)
      BY <2>1 DEF Part
    <3> QED
      BY <2>1, <3>1, <3>2 DEF Opens
  <2>2. CASE q.kind = "stapa"
    <3>1. PushPacket(p) = IF Refused(p) THEN <<>> ELSE AnnexB(UnitsRead(p))
      BY <2>2 DEF PushPacket
    <3>2. UnitsRead(p) = p.units /\ ~Refused(p)
      BY <1>2, <1>3, <1>4 DEF UnitsRead
    <3>3. Part(q) = AnnexB(q.units)
      BY <2>2 DEF Part
    <3> QED
      BY <2>2, <3>1, <3>2, <3>3 DEF Opens
  <2>3. CASE q.kind = "start"
    <3>1. PushPacket(p) = <<StartCode, p.nal>> \o p.units[1]
      BY <2>3 DEF PushPacket
    <3>2. Part(q) = <<StartCode, q.nal>> \o q.units[1]
      BY <2>3 DEF Part
    <3> QED
      BY <2>3, <3>1, <3>2 DEF Opens
  <2>4. CASE q.kind \in {"middle", "end"}
    <3>1. PushPacket(p) = frame \o p.units[1]
      BY <2>4 DEF PushPacket
    <3>2. Part(q) = q.units[1]
      BY <2>4 DEF Part
    <3> QED
      BY <2>4, <3>1, <3>2 DEF Opens
  <2> QED
    BY <1>1, <2>1, <2>2, <2>3, <2>4 DEF Kinds
<1> QED
  BY <1>3, <1>4

(* What get_stapa_frame finds are units of the aggregation. *)
LEMMA UnitsReadType ==
  ASSUME NEW p, p.units \in Seq(Unit)
  PROVE  UnitsRead(p) \in Seq(Unit)
<1> DEFINE us == p.units
           T(n) == IF UpTo(p, n) <= Room THEN <<us[n]>> ELSE <<>>
           s == [n \in DOMAIN us |-> T(n)]
<1>1. Len(us) \in Nat /\ DOMAIN us = 1..Len(us)
  BY LenProperties
<1>2. ASSUME NEW n \in 1..Len(us) PROVE T(n) \in Seq(Unit)
  <2>1. us[n] \in Unit
    BY <1>1
  <2> QED
    BY <2>1
<1> HIDE DEF T
<1>3. s \in [1..Len(us) -> Seq(Unit)]
  BY <1>1, <1>2
<1>4. s \in Seq(Seq(Unit))
  BY <1>1, <1>3
<1> HIDE DEF s
<1>5. FlattenSeq(s) \in Seq(Unit)
  BY <1>4, FlattenType
<1> QED
  BY <1>5 DEF UnitsRead, s, T

(* What is in m_buffer after any packet is a sequence of bytes. *)
LEMMA PushedType ==
  ASSUME NEW p \in OnWire, frame \in Unit
  PROVE  PushPacket(p) \in Unit
<1>1. p.units \in Seq(Unit) /\ p.units # <<>> /\ p.nal \in Byte /\ p.kind \in Kinds
  BY DEF OnWire
<1>2. p.units[1] \in Unit
  BY <1>1
<1>3. AnnexB(p.units) \in Unit /\ AnnexB(UnitsRead(p)) \in Unit
  BY <1>1, AnnexBType, UnitsReadType
<1>4. <<StartCode, p.nal>> \o p.units[1] \in Unit
  <2>1. <<StartCode, p.nal>> \in Seq(Byte)
    BY <1>1, StartCodeType
  <2> QED
    BY <1>2, <2>1, ConcatProperties DEF Unit
<1>5. frame \o p.units[1] \in Unit /\ <<>> \in Unit
  BY <1>2, UnitAssoc DEF Unit
<1> QED
  BY <1>3, <1>4, <1>5 DEF PushPacket

(* A frame that starts cleanly finds the reassembly buffer empty. *)
LEMMA CleanStart ==
  ASSUME StreamInv, NEW f \in Nat, Clean(f),
         \A a \in arrived : a \in Nat \X Nat /\ a[1] < f
  PROVE  rtpBuffer = <<>>
<1>1. CASE arrived = {}
  BY <1>1 DEF StreamInv, BuffersOK, Emptied
<1>2. CASE arrived # {}
  <2>1. PICK a \in arrived : Latest(a)
    BY <1>2 DEF StreamInv, ArrivedOK
  <2> DEFINE g == a[1]
             last == LastPacket(g)
  <2>2. /\ a \in Nat \X Nat /\ g \in 1..Len(sent) /\ g \in Nat /\ g < f
        /\ a[2] \in 1..sent[g].count
    BY DEF StreamInv, ArrivedOK, Known
  <2>3. sent[g].count \in Nat
    BY <2>2, FrameType DEF StreamInv
  <2>4. Reached(g)
    BY DEF Reached
  <2>5. ASSUME NEW h \in g + 1 .. f - 1, Reached(h) PROVE FALSE
    <3>1. PICK c \in arrived : c[1] = h
      BY <2>5 DEF Reached
    <3>2. c = a \/ Before(c, a)
      BY <2>1 DEF Latest
    <3> QED
      BY <2>2, <3>1, <3>2 DEF Before
  <2>6. MarkerTaken(g) /\ last \in arrived
    <3>1. g \in 1 .. f - 1
      BY <2>2
    <3>2. MarkerTaken(g)
      BY <2>4, <2>5, <3>1 DEF Clean
    <3> QED
      BY <3>2 DEF MarkerTaken
  <2>7. last = a
    <3>1. last = a \/ Before(last, a)
      BY <2>1, <2>6 DEF Latest
    <3>2. last = <<g, sent[g].count>>
      BY DEF LastPacket
    <3>3. ~Before(last, a)
      BY <2>2, <2>3, <3>2 DEF Before
    <3> QED
      BY <3>1, <3>3
  <2> QED
    BY <2>1, <2>2, <2>6, <2>7 DEF StreamInv, BuffersOK, Emptied
<1> QED
  BY <1>1, <1>2

(* A packet given to receive_video changes nothing about a marker that is  *)
(* not its own.                                                            *)
LEMMA MarkerKept ==
  ASSUME NEW id, arrived' = arrived \union {id}, sent' = sent,
         NEW g, LastPacket(g) # id
  PROVE  MarkerTaken(g)' <=> MarkerTaken(g)
BY DEF MarkerTaken, LastPacket

(* What receive_video holds once it has pushed the packet k of a frame of  *)
(* which every packet so far arrived.                                      *)
LEMMA HeldText ==
  ASSUME StreamInv, wire # <<>>, sent' = sent, wire' = Tail(wire),
         arrived' = arrived \union {Head(wire).id},
         NEW f, NEW k, Head(wire).id = <<f, k>>,
         Clean(f)', CameWhole(f, k)',
         Len(AnnexB(sent[f].nalus)) < RecvBufferSize
  PROVE  rtpBuffer \o PushPacket(Head(wire)) = Text(SubSeq(Packets(sent[f]), 1, k))
<1> DEFINE p == Head(wire)
           ps == Packets(sent[f])
           q == ps[k]
<1>1. /\ f \in 1..Len(sent) /\ k \in 1..sent[f].count /\ f \in Nat /\ k \in Nat
      /\ p.kind = q.kind /\ p.units = q.units /\ p.nal = q.nal
      /\ \A a \in arrived : a \in Nat \X Nat /\ Before(a, <<f, k>>)
  <2>1. /\ Known(p.id, sent) /\ Carries(p, sent[p.id[1]])
        /\ \A a \in arrived : a \in Nat \X Nat /\ Before(a, p.id)
    BY ReceiveOrder
  <2>2. p.id[1] = f /\ p.id[2] = k
    OBVIOUS
  <2>3. f \in 1..Len(sent) /\ k \in 1..sent[f].count /\ f \in Nat /\ k \in Nat
    BY <2>1, <2>2 DEF Known
  <2> QED
    BY <2>1, <2>2, <2>3, Zenon DEF Carries
<1>2. sent[f].count \in Nat /\ ps \in Seq(Packet) /\ Len(ps) = sent[f].count /\ Good(ps)
  <2>1. sent[f].count \in Nat
    BY <1>1, FrameType DEF StreamInv
  <2> QED
    BY <1>1, <2>1 DEF StreamInv, SentOK, FrameOK
<1>3. frame \in Unit /\ rtpBuffer \in Unit
  BY DEF StreamInv, BuffersOK
<1>4. Clean(f)
  <2>1. \A g \in 1 .. f - 1 : Reached(g)' <=> Reached(g)
    BY <1>1 DEF Reached
  <2>2. \A g \in 1 .. f - 1 : LastPacket(g) # Head(wire).id
    BY <1>1 DEF LastPacket
  <2>3. \A g \in 1 .. f - 1 : \A h \in g + 1 .. f - 1 : h \in 1 .. f - 1
    BY <1>1
  <2>4. \A g \in 1 .. f - 1 : MarkerTaken(g)' <=> MarkerTaken(g)
    BY <2>2, MarkerKept, Zenon
  <2> QED
    BY <2>1, <2>3, <2>4 DEF Clean
<1>5. /\ q \in Packet /\ Part(q) \in Unit /\ Text(SubSeq(ps, 1, k - 1)) \in Unit
      /\ Text(SubSeq(ps, 1, k)) = Text(SubSeq(ps, 1, k - 1)) \o Part(q)
      /\ SubSeq(ps, 1, 0) = <<>>
  <2>1. k \in 1..Len(ps)
    BY <1>1, <1>2
  <2> HIDE DEF ps
  <2> QED
    BY <1>2, <2>1, PrefixText, PartType, Zenon
<1>w. /\ Whole(q)
      /\ \A i \in 1..k : <<f, i>> \in arrived' /\ Whole(ps[i])
  <2>1. \A i \in 1..k : <<f, i>> \in arrived' /\ Whole(ps[i])
    BY Zenon DEF CameWhole
  <2>2. k \in 1..k
    BY <1>1
  <2> QED
    BY <2>1, <2>2, Zenon
<1>6. PushPacket(p) = IF Opens(q) THEN Part(q) ELSE frame \o Part(q)
  <2> HIDE DEF p, q
  <2> QED
    BY <1>1, <1>5, <1>w, PushedText, Zenon
<1>7. Opens(q) <=> (k = 1 \/ Ends(ps[k - 1]))
  BY <1>1, <1>2, Zenon DEF Good, Runs
<1>8. CASE k = 1
  <2>1. \A a \in arrived : a \in Nat \X Nat /\ a[1] < f
    <3> SUFFICES ASSUME NEW a \in arrived PROVE a \in Nat \X Nat /\ a[1] < f
      OBVIOUS
    <3>1. a[2] \in Nat /\ a[2] >= 1
      <4>1. Known(a, sent)
        BY DEF StreamInv, ArrivedOK
      <4> QED
        BY <4>1 DEF Known
    <3> QED
      BY <1>1, <1>8, <3>1 DEF Before
  <2>2. rtpBuffer = <<>>
    BY <1>1, <1>4, <2>1, CleanStart
  <2>3. PushPacket(p) = Part(q)
    BY <1>6, <1>7, <1>8
  <2>4. Text(SubSeq(ps, 1, k)) = <<>> \o Part(q)
    <3>1. k - 1 = 0
      BY <1>8
    <3> QED
      BY <1>5, <3>1, TextEmpty, Zenon
  <2> QED
    BY <2>2, <2>3, <2>4
<1>9. CASE k # 1
  <2> DEFINE j == k - 1
             d == IF Ends(ps[j]) THEN <<>> ELSE frame
             x == Text(SubSeq(ps, 1, j))
  <2>1. j \in 1 .. sent[f].count - 1 /\ j \in 1..k /\ j \in Nat /\ j # k
    BY <1>1, <1>2, <1>9
  <2>2. <<f, j>> \in arrived /\ CameWhole(f, j)
    <3>1. \A i \in 1..j : i \in 1..k /\ i # k
      BY <1>1, <2>1
    <3>2. \A i \in 1..j : <<f, i>> \in arrived' /\ <<f, i>> # <<f, k>>
      BY <1>w, <3>1
    <3>3. \A i \in 1..j : <<f, i>> \in arrived
      BY <3>2
    <3>4. \A i \in 1..j : Whole(ps[i])
      BY <1>w, <3>1, Zenon
    <3>5. j \in 1..j
      BY <2>1
    <3> QED
      BY <3>3, <3>4, <3>5, Zenon DEF CameWhole
  <2>3. Latest(<<f, j>>)
    <3> SUFFICES ASSUME NEW c \in arrived PROVE c = <<f, j>> \/ Before(c, <<f, j>>)
      BY <2>2, Zenon DEF Latest
    <3> QED
      BY <1>1, <2>1 DEF Before
  <2>4. rtpBuffer \o d = x
    BY <1>1, <1>4, <2>1, <2>2, <2>3, Zenon DEF StreamInv, BuffersOK, Gathered
  <2>5. PushPacket(p) = d \o Part(q)
    <3>1. <<>> \o Part(q) = Part(q)
      BY <1>5, UnitAssoc
    <3> QED
      BY <1>6, <1>7, <1>9, <3>1, Zenon
  <2>6. d \in Unit
    <3>1. <<>> \in Unit
      BY DEF Unit
    <3> QED
      BY <1>3, <3>1
  <2> DEFINE y == Part(q)
  <2>7. rtpBuffer \o (d \o y) = (rtpBuffer \o d) \o y
    <3>1. d \in Unit /\ y \in Unit
      BY <1>5, <2>6
    <3> HIDE DEF d, y
    <3> QED
      BY <1>3, <3>1 DEF Unit
  <2> QED
    BY <1>5, <2>4, <2>5, <2>7, Zenon
<1> QED
  BY <1>8, <1>9

(* A frame whose packets all arrived before, and what came before it, is   *)
(* not touched by a later packet.                                          *)
LEMMA EarlierFrame ==
  ASSUME StreamInv, wire # <<>>, sent' = sent, wire' = Tail(wire),
         arrived' = arrived \union {Head(wire).id},
         NEW f \in 1..Len(sent), f # Head(wire).id[1], CleanlyReceived(f)'
  PROVE  CleanlyReceived(f)
<1> DEFINE id == Head(wire).id
<1>1. /\ id \in Nat \X Nat /\ f \in Nat
      /\ \A a \in arrived : a \in Nat \X Nat /\ Before(a, id)
  BY ReceiveOrder DEF Known
<1>2. /\ sent[f].count > 0 /\ \A i \in 1 .. sent[f].count : <<f, i>> \in arrived
      /\ \A i \in 1 .. sent[f].count : Whole(Packets(sent[f])[i])
      /\ sent[f].count \in Nat
  <2>1. /\ sent[f].count > 0
        /\ \A i \in 1 .. sent[f].count : <<f, i>> \in arrived' /\ Whole(Packets(sent[f])[i])
    BY Zenon DEF CleanlyReceived
  <2>2. \A i \in 1 .. sent[f].count : <<f, i>> # id
    BY <1>1
  <2>3. sent[f].count \in Nat
    BY FrameType DEF StreamInv
  <2> QED
    BY <2>1, <2>2, <2>3
<1>3. f < id[1]
  <2>1. <<f, 1>> \in arrived
    BY <1>2
  <2>2. Before(<<f, 1>>, id)
    BY <1>1, <2>1
  <2> QED
    BY <1>1, <2>2 DEF Before
<1>4. \A g \in 1 .. f - 1 :
        Reached(g) /\ (\A h \in g + 1 .. f - 1 : ~Reached(h)) => MarkerTaken(g)
  <2>1. \A g \in 1 .. f - 1 : g # id[1]
    BY <1>1, <1>3
  <2>2. \A g \in 1 .. f - 1 : Reached(g)' <=> Reached(g)
    BY <2>1 DEF Reached
  <2>3. \A g \in 1 .. f - 1 : LastPacket(g)' = LastPacket(g) /\ LastPacket(g)[1] = g
    BY DEF LastPacket
  <2>4. \A g \in 1 .. f - 1 : MarkerTaken(g)' <=> MarkerTaken(g)
    <3> SUFFICES ASSUME NEW g \in 1 .. f - 1 PROVE MarkerTaken(g)' <=> MarkerTaken(g)
      OBVIOUS
    <3>1. LastPacket(g) # Head(wire).id
      BY <2>1, <2>3
    <3> QED
      BY <3>1, MarkerKept, Zenon
  <2>5. \A g \in 1 .. f - 1 : \A h \in g + 1 .. f - 1 : h \in 1 .. f - 1
    BY <1>1
  <2>6. \A g \in 1 .. f - 1 :
        Reached(g)' /\ (\A h \in g + 1 .. f - 1 : ~Reached(h)') => MarkerTaken(g)'
    BY Zenon DEF CleanlyReceived
  <2> QED
    BY <2>2, <2>4, <2>5, <2>6
<1> QED
  BY <1>2, <1>4, Zenon DEF CleanlyReceived

(* receive_video is given a fragment that does not end its unit, or an     *)
(* aggregation that is refused.                                            *)
LEMMA NothingStep ==
  ASSUME StreamInv, ReceiveNothing
  PROVE  StreamInv'
<1> DEFINE p == Head(wire)
           id == p.id
<1>1. /\ wire # <<>> /\ wire' = Tail(wire) /\ sent' = sent
      /\ arrived' = arrived \union {id}
      /\ frame' = PushPacket(p) /\ rtpBuffer' = rtpBuffer /\ delivered' = delivered
      /\ ~Pushed(p)
  BY DEF ReceiveNothing
<1>2. /\ SentOK' /\ WireOK' /\ ArrivedOK' /\ \A a : Latest(a)' <=> a = id
      /\ Known(id, sent) /\ Carries(p, sent[id[1]]) /\ p \in OnWire
      /\ \A a \in arrived : a \in Nat \X Nat /\ Before(a, id)
  BY <1>1, ReceiveOrder
<1> DEFINE f0 == id[1]
           k0 == id[2]
           ps == Packets(sent[f0])
<1>3. /\ id = <<f0, k0>> /\ f0 \in 1..Len(sent) /\ k0 \in 1..sent[f0].count
      /\ f0 \in Nat /\ k0 \in Nat
  BY <1>2 DEF Known
<1>4. sent[f0].count \in Nat /\ ps \in Seq(Packet) /\ Len(ps) = sent[f0].count /\ Good(ps)
  <2>1. sent[f0].count \in Nat
    BY <1>3, FrameType DEF StreamInv
  <2> QED
    BY <1>3, <2>1 DEF StreamInv, SentOK, FrameOK
<1>5. /\ ps[k0] \in Packet
      /\ p.kind = ps[k0].kind /\ p.units = ps[k0].units /\ p.nal = ps[k0].nal
  <2>1. ps[k0] \in Packet
    BY <1>3, <1>4
  <2> QED
    BY <1>2, <2>1 DEF Carries
<1>6. /\ ~Ends(ps[k0]) \/ Refused(ps[k0])
      /\ Whole(ps[k0]) => ~Ends(ps[k0])
  <2> DEFINE q == ps[k0]
  <2>1. /\ Refused(p) <=> Refused(q)
        /\ Ends(p) <=> Ends(q)
        /\ Whole(q) => ~Refused(q)
    <3> HIDE DEF p, q
    <3> QED
      BY <1>5, PushedText, Zenon DEF q
  <2> QED
    BY <1>1, <2>1, Zenon DEF Pushed
(* The packet with the marker ends a unit: it was refused. *)
<1>7. k0 = sent[f0].count => Refused(ps[k0]) /\ ~Whole(ps[k0])
  <2>1. ps # <<>>
    BY <1>3, <1>4
  <2>2. Ends(ps[Len(ps)])
    BY <1>4, <2>1, Zenon DEF Good, Ended
  <2> QED
    BY <1>4, <1>6, <2>2
<1>8. frame' \in Unit /\ rtpBuffer' \in Unit
  BY <1>1, <1>2, PushedType DEF StreamInv, BuffersOK
<1>t. \A f \in 1..Len(sent) :
        /\ f = f0 => ~MarkerTaken(f)'
        /\ MarkerTaken(f)' <=> MarkerTaken(f)
  <2>1. \A f : LastPacket(f)' = LastPacket(f) /\ LastPacket(f) = <<f, sent[f].count>>
    BY <1>1 DEF LastPacket
  <2>2. ~(\E a \in arrived : a = id \/ Before(id, a))
    <3>1. id \in Nat \X Nat
      BY <1>2 DEF Known
    <3> QED
      BY <1>2, <3>1, BeforeOrder
  <2>3. ASSUME NEW f \in 1..Len(sent), f = f0 PROVE ~MarkerTaken(f)' /\ ~MarkerTaken(f)
    <3>1. CASE k0 = sent[f0].count
      <4>1. Refused(Packets(sent[f])[sent[f].count])
        BY <1>7, <2>3, <3>1
      <4> QED
        BY <1>1, <4>1 DEF MarkerTaken
    <3>2. CASE k0 # sent[f0].count
      <4>1. Before(id, <<f, sent[f].count>>) /\ <<f, sent[f].count>> # id
        BY <1>3, <1>4, <2>3, <3>2 DEF Before
      <4>2. <<f, sent[f].count>> \notin arrived \union {id}
        BY <2>2, <4>1
      <4> QED
        BY <1>1, <2>1, <4>2 DEF MarkerTaken
    <3> QED
      BY <3>1, <3>2
  <2>4. ASSUME NEW f \in 1..Len(sent), f # f0 PROVE MarkerTaken(f)' <=> MarkerTaken(f)
    <3>1. LastPacket(f) # id
      BY <1>3, <2>1, <2>4
    <3> QED
      BY <1>1, <3>1, MarkerKept, Zenon
  <2> QED
    BY <1>3, <2>3, <2>4
<1>9. Emptied'
  <2>1. arrived' # {}
    BY <1>1
  <2>2. ASSUME NEW f \in 1..Len(sent), Latest(LastPacket(f))', MarkerTaken(f)' PROVE FALSE
    <3>1. LastPacket(f)' = <<f, sent[f].count>>
      BY <1>1 DEF LastPacket
    <3>2. Latest(<<f, sent[f].count>>)'
      BY <1>1, <2>2 DEF Latest, LastPacket
    <3>3. <<f, sent[f].count>> = id
      BY <1>1, <1>2, <3>2
    <3>4. f = f0
      BY <3>3
    <3> QED
      BY <1>t, <2>2, <3>4
  <2> QED
    BY <1>1, <2>1, <2>2 DEF Emptied
<1>10. Gathered'
  <2> SUFFICES ASSUME NEW f \in 1..Len(sent), NEW k \in 1 .. sent[f].count - 1,
                      Latest(<<f, k>>)', Clean(f)', CameWhole(f, k)',
                      Len(AnnexB(sent[f].nalus)) < RecvBufferSize
               PROVE  rtpBuffer' \o (IF Ends(Packets(sent[f])[k]) THEN <<>> ELSE frame')
                      = Text(SubSeq(Packets(sent[f]), 1, k))
    BY <1>1, Zenon DEF Gathered
  <2>1. id = <<f, k>> /\ f = f0 /\ k = k0
    BY <1>2, <1>3
  <2>2. rtpBuffer \o PushPacket(p) = Text(SubSeq(Packets(sent[f]), 1, k))
    BY <1>1, <2>1, HeldText, Zenon
  <2>3. Whole(ps[k0])
    <3>1. k \in 1..k
      BY <1>3, <2>1
    <3> QED
      BY <1>1, <2>1, <3>1, Zenon DEF CameWhole
  <2> QED
    BY <1>1, <1>6, <2>1, <2>2, <2>3, Zenon
<1>11. OneDeliveryPerMarker'
  <2>1. DOMAIN sent = 1..Len(sent)
    BY DEF StreamInv, SentOK
  <2>2. {f \in DOMAIN sent : MarkerTaken(f)'} = {f \in DOMAIN sent : MarkerTaken(f)}
    BY <1>t, <2>1
  <2>3. OneDeliveryPerMarker
    BY DEF StreamInv, DeliveredOK
  <2> QED
    BY <1>1, <2>2, <2>3 DEF OneDeliveryPerMarker
<1>12. IntactAfterMarker'
  <2> SUFFICES ASSUME NEW f \in DOMAIN sent, CleanlyReceived(f)',
                      Len(AnnexB(sent[f].nalus)) < RecvBufferSize
               PROVE  [frame |-> f, data |-> AnnexB(sent[f].nalus)] \in ToSet(delivered)
    BY <1>1 DEF IntactAfterMarker
  <2>1. f \in 1..Len(sent)
    BY DEF StreamInv, SentOK
  <2>2. f # f0
    <3> SUFFICES ASSUME f = f0 PROVE FALSE
      OBVIOUS
    <3>1. /\ <<f0, sent[f0].count>> \in arrived'
          /\ Whole(ps[sent[f0].count])
      <4>1. sent[f0].count \in 1..sent[f0].count
        BY <1>3, <1>4
      <4> QED
        BY <1>1, <4>1, Zenon DEF CleanlyReceived
    <3>2. <<f0, sent[f0].count>> # id
      BY <1>3, <1>7, <3>1
    <3>3. Before(<<f0, sent[f0].count>>, id)
      BY <1>1, <1>2, <3>1, <3>2
    <3> QED
      BY <1>3, <1>4, <3>3 DEF Before
  <2>3. CleanlyReceived(f)
    BY <1>1, <2>1, <2>2, EarlierFrame
  <2> QED
    BY <2>3 DEF StreamInv, DeliveredOK, IntactAfterMarker
<1> QED
  BY <1>1, <1>2, <1>8, <1>9, <1>10, <1>11, <1>12 DEF StreamInv, BuffersOK, DeliveredOK

(* receive_video is given the end of a unit or whole units. *)
LEMMA UnitsStep ==
  ASSUME StreamInv, ReceiveUnits
  PROVE  StreamInv'
<1> DEFINE p == Head(wire)
           id == p.id
           data == PushPacket(p)
           kept == IF Len(rtpBuffer) + Len(data) >= RecvBufferSize THEN <<>> ELSE rtpBuffer
           entry == [frame |-> id[1], data |-> kept \o data]
<1>1. /\ wire # <<>> /\ wire' = Tail(wire) /\ sent' = sent
      /\ arrived' = arrived \union {id}
      /\ frame' = data /\ Pushed(p)
      /\ p.marker => delivered' = Append(delivered, entry) /\ rtpBuffer' = <<>>
      /\ ~p.marker => delivered' = delivered /\ rtpBuffer' = kept \o data
  BY Zenon DEF ReceiveUnits
<1>2. /\ SentOK' /\ WireOK' /\ ArrivedOK' /\ \A a : Latest(a)' <=> a = id
      /\ Known(id, sent) /\ Carries(p, sent[id[1]]) /\ p \in OnWire
      /\ \A a \in arrived : a \in Nat \X Nat /\ Before(a, id)
  BY <1>1, ReceiveOrder
<1> DEFINE f0 == id[1]
           k0 == id[2]
           ps == Packets(sent[f0])
           q == ps[k0]
<1>3. /\ id = <<f0, k0>> /\ f0 \in 1..Len(sent) /\ k0 \in 1..sent[f0].count
      /\ f0 \in Nat /\ k0 \in Nat
  BY <1>2 DEF Known
<1>4. /\ sent[f0].count \in Nat /\ ps \in Seq(Packet) /\ Len(ps) = sent[f0].count
      /\ Text(ps) = AnnexB(sent[f0].nalus)
  <2>1. sent[f0].count \in Nat
    BY <1>3, FrameType DEF StreamInv
  <2> QED
    BY <1>3, <2>1 DEF StreamInv, SentOK, FrameOK
<1>5. /\ q \in Packet
      /\ p.marker <=> k0 = sent[f0].count
      /\ p.kind = q.kind /\ p.units = q.units /\ p.nal = q.nal
  <2>1. q \in Packet
    BY <1>3, <1>4
  <2> QED
    BY <1>2, <2>1 DEF Carries
<1>6. Ends(q) /\ ~Refused(q)
  <2>1. /\ Refused(p) <=> Refused(q)
        /\ Ends(p) <=> Ends(q)
    <3> HIDE DEF p, q
    <3> QED
      BY <1>5, PushedText, Zenon DEF q
  <2> QED
    BY <1>1, <2>1, Zenon DEF Pushed
<1>7. data \in Unit /\ rtpBuffer \in Unit /\ kept \in Unit /\ kept \o data \in Unit
  <2>1. frame \in Unit /\ rtpBuffer \in Unit
    BY DEF StreamInv, BuffersOK
  <2>5. data \in Unit
    BY <1>2, <2>1, PushedType
  <2>6. kept \in Unit
    <3>1. <<>> \in Unit
      BY DEF Unit
    <3> QED
      BY <2>1, <3>1
  <2>7. kept \o data \in Unit
    <3> HIDE DEF kept, data
    <3> QED
      BY <2>5, <2>6, UnitAssoc
  <2> QED
    BY <2>1, <2>5, <2>6, <2>7
(* What is handed on when every packet of the frame so far arrived. *)
<1>8. ASSUME NEW f, NEW k, f = f0, k = k0,
             Clean(f)', CameWhole(f, k)',
             Len(AnnexB(sent[f].nalus)) < RecvBufferSize
      PROVE  kept \o data = Text(SubSeq(ps, 1, k0))
  <2>1. rtpBuffer \o data = Text(SubSeq(ps, 1, k0))
    <3>1. Head(wire).id = <<f, k>>
      BY <1>3, <1>8
    <3>2. rtpBuffer \o data = Text(SubSeq(Packets(sent[f]), 1, k))
      BY <1>1, <1>8, <3>1, HeldText, Zenon
    <3> QED
      BY <1>8, <3>2
  <2>2. Len(rtpBuffer \o data) = Len(rtpBuffer) + Len(data)
    BY <1>7, UnitAssoc
  <2>3. Len(Text(SubSeq(ps, 1, k0))) <= Len(Text(ps))
    <3>1. k0 \in 1..Len(ps)
      BY <1>3, <1>4
    <3> HIDE DEF ps, k0
    <3> QED
      BY <1>4, <3>1, PrefixText
  <2>4. /\ Len(Text(ps)) \in Nat /\ Len(rtpBuffer) \in Nat /\ Len(data) \in Nat
        /\ RecvBufferSize \in Nat
    <3>1. Text(ps) \in Unit
      BY <1>4, TextType
    <3> HIDE DEF data, ps
    <3> QED
      BY <1>7, <3>1, UnitAssoc, SizeAssumption
  <2>5. ~(Len(rtpBuffer) + Len(data) >= RecvBufferSize)
    <3>1. Len(Text(ps)) < RecvBufferSize
      BY <1>4, <1>8
    <3>2. Len(rtpBuffer) + Len(data) <= Len(Text(ps))
      BY <2>1, <2>2, <2>3
    <3> HIDE DEF data, ps
    <3> QED
      BY <2>4, <3>1, <3>2
  <2> QED
    BY <2>1, <2>5
<1> HIDE DEF data, kept
<1>9. frame' \in Unit /\ rtpBuffer' \in Unit
  <2>1. <<>> \in Unit
    BY DEF Unit
  <2> QED
    BY <1>1, <1>7, <2>1, Zenon
<1>10. Emptied'
  <2>1. arrived' # {}
    BY <1>1, Zenon
  <2>2. ASSUME NEW f \in 1..Len(sent), Latest(LastPacket(f))' PROVE rtpBuffer' = <<>>
    <3>1. Latest(<<f, sent[f].count>>)'
      BY <1>1, <2>2, Zenon DEF Latest, LastPacket
    <3>2. <<f, sent[f].count>> = id
      BY <1>1, <1>2, <3>1
    <3>3. k0 = sent[f0].count
      BY <1>3, <3>2
    <3> QED
      BY <1>1, <1>5, <3>3
  <2> QED
    BY <1>1, <2>1, <2>2 DEF Emptied
<1>11. Gathered'
  <2> SUFFICES ASSUME NEW f \in 1..Len(sent), NEW k \in 1 .. sent[f].count - 1,
                      Latest(<<f, k>>)', Clean(f)', CameWhole(f, k)',
                      Len(AnnexB(sent[f].nalus)) < RecvBufferSize
               PROVE  rtpBuffer' \o (IF Ends(Packets(sent[f])[k]) THEN <<>> ELSE frame')
                      = Text(SubSeq(Packets(sent[f]), 1, k))
    BY <1>1, Zenon DEF Gathered
  <2>1. id = <<f, k>> /\ f = f0 /\ k = k0
    BY <1>2, <1>3
  <2>2. kept \o data = Text(SubSeq(ps, 1, k0))
    BY <1>8, <2>1
  <2>3. ~p.marker
    <3>1. sent[f].count \in Nat
      BY <1>4, <2>1
    <3>2. k # sent[f].count
      BY <3>1
    <3>3. k0 # sent[f0].count
      BY <2>1, <3>2
    <3> QED
      BY <1>5, <3>3
  <2>4. rtpBuffer' \o <<>> = rtpBuffer'
    BY <1>9, UnitAssoc
  <2> QED
    BY <1>1, <1>6, <2>1, <2>2, <2>3, <2>4, Zenon
<1>12. \A f \in 1..Len(sent) :
         LastPacket(f) = <<f, sent[f].count>> /\ LastPacket(f)' = LastPacket(f)
  BY <1>1 DEF LastPacket
<1>t. /\ \A f \in 1..Len(sent) : f = f0 /\ p.marker => MarkerTaken(f)'
      /\ \A f \in 1..Len(sent) : f # f0 \/ ~p.marker => (MarkerTaken(f)' <=> MarkerTaken(f))
  <2>1. ASSUME NEW f \in 1..Len(sent), f = f0, p.marker PROVE MarkerTaken(f)'
    <3>1. k0 = sent[f0].count /\ LastPacket(f) = id /\ LastPacket(f)' = id
      BY <1>3, <1>5, <1>12, <2>1
    <3>2. ~Refused(Packets(sent[f])[sent[f].count])
      BY <1>6, <2>1, <3>1
    <3> QED
      BY <1>1, <3>1, <3>2 DEF MarkerTaken
  <2>2. ASSUME NEW f \in 1..Len(sent), f # f0 \/ ~p.marker
        PROVE  MarkerTaken(f)' <=> MarkerTaken(f)
    <3>1. LastPacket(f) # id
      BY <1>3, <1>5, <1>12, <2>2
    <3> QED
      BY <1>1, <3>1, MarkerKept, Zenon
  <2> QED
    BY <2>1, <2>2
<1>13. /\ delivered \in Seq([frame: Nat, data: Unit]) /\ DOMAIN sent = 1..Len(sent)
       /\ DOMAIN delivered = 1..Len(delivered) /\ Len(delivered) \in Nat
       /\ OneDeliveryPerMarker /\ IntactAfterMarker
  BY DEF StreamInv, SentOK, DeliveredOK
<1>14. entry \in [frame: Nat, data: Unit] /\ entry.frame = f0
  BY <1>3, <1>7
<1>15. CASE p.marker
  <2> HIDE DEF entry
  <2>1. /\ delivered' = Append(delivered, entry)
        /\ delivered' \in Seq([frame: Nat, data: Unit])
        /\ Len(delivered') = Len(delivered) + 1
        /\ DOMAIN delivered' = 1..(Len(delivered) + 1)
        /\ \A i \in 1..Len(delivered) : delivered'[i] = delivered[i]
        /\ delivered'[Len(delivered) + 1] = entry
    <3> DEFINE E == [frame: Nat, data: Unit]
    <3>1. delivered \in Seq(E) /\ entry \in E
      BY <1>13, <1>14
    <3> HIDE DEF E
    <3>2. /\ Append(delivered, entry) \in Seq(E)
          /\ Len(Append(delivered, entry)) = Len(delivered) + 1
          /\ \A i \in 1..Len(delivered) : Append(delivered, entry)[i] = delivered[i]
          /\ Append(delivered, entry)[Len(delivered) + 1] = entry
      BY <3>1, AppendProperties
    <3>3. DOMAIN Append(delivered, entry) = 1..(Len(delivered) + 1)
      BY <3>2
    <3>4. delivered' = Append(delivered, entry)
      BY <1>1, <1>15
    <3> QED
      BY <3>2, <3>3, <3>4 DEF E
  <2>2. LastPacket(f0) = id /\ k0 = sent[f0].count
    BY <1>3, <1>5, <1>12, <1>15
  <2>3. \A i \in 1..Len(delivered) : delivered[i].frame \in Nat /\ delivered[i].frame < f0
    <3> SUFFICES ASSUME NEW i \in 1..Len(delivered)
                 PROVE  delivered[i].frame \in Nat /\ delivered[i].frame < f0
      OBVIOUS
    <3> DEFINE f == delivered[i].frame
    <3>1. f \in {g \in DOMAIN sent : MarkerTaken(g)}
      BY <1>13 DEF OneDeliveryPerMarker
    <3>2. f \in 1..Len(sent) /\ LastPacket(f) \in arrived
      BY <1>13, <3>1 DEF MarkerTaken
    <3>3. Before(<<f, sent[f].count>>, id)
      BY <1>2, <1>12, <3>2, Zenon
    <3>4. f \in Nat /\ sent[f].count \in Nat
      BY <3>2, FrameType DEF StreamInv
    <3>5. f # f0
      BY <1>3, <1>4, <2>2, <3>3 DEF Before
    <3> QED
      BY <1>3, <3>3, <3>4, <3>5 DEF Before
  <2>4. OneDeliveryPerMarker'
    <3>1. \A i, j \in DOMAIN delivered' : i < j => delivered'[i].frame < delivered'[j].frame
      <4> SUFFICES ASSUME NEW i \in 1..(Len(delivered) + 1), NEW j \in 1..(Len(delivered) + 1),
                          i < j
                   PROVE  delivered'[i].frame < delivered'[j].frame
        BY <2>1, Zenon
      <4>1. i \in 1..Len(delivered)
        BY <1>13
      <4>2. CASE j \in 1..Len(delivered)
        BY <1>13, <2>1, <4>1, <4>2, Zenon DEF OneDeliveryPerMarker
      <4>3. CASE j = Len(delivered) + 1
        BY <1>14, <2>1, <2>3, <4>1, <4>3
      <4> QED
        BY <1>13, <4>2, <4>3, SMTT(30)
    <3>2. ASSUME NEW x PROVE x \in {delivered'[i].frame : i \in DOMAIN delivered'} <=>
                 x \in {delivered[i].frame : i \in DOMAIN delivered} \/ x = f0
      <4>1. ASSUME NEW i \in 1..(Len(delivered) + 1)
            PROVE  \/ delivered'[i].frame \in {delivered[j].frame : j \in DOMAIN delivered}
                   \/ delivered'[i].frame = f0
        <5>1. CASE i \in 1..Len(delivered)
          BY <1>13, <2>1, <5>1
        <5>2. CASE i = Len(delivered) + 1
          BY <1>14, <2>1, <5>2
        <5> QED
          BY <1>13, <5>1, <5>2
      <4>2. ASSUME NEW j \in 1..Len(delivered)
            PROVE  delivered[j].frame \in {delivered'[i].frame : i \in DOMAIN delivered'}
        <5>1. j \in DOMAIN delivered' /\ delivered'[j] = delivered[j]
          BY <1>13, <2>1
        <5> QED
          BY <5>1
      <4>3. f0 \in {delivered'[i].frame : i \in DOMAIN delivered'}
        <5>1. Len(delivered) + 1 \in DOMAIN delivered'
          BY <1>13, <2>1
        <5> QED
          BY <1>14, <2>1, <5>1
      <4> QED
        BY <1>13, <2>1, <4>1, <4>2, <4>3, Zenon
    <3>3. ASSUME NEW x PROVE x \in {f \in DOMAIN sent : MarkerTaken(f)'} <=>
                 x \in {f \in DOMAIN sent : MarkerTaken(f)} \/ x = f0
      <4>1. ASSUME NEW f \in 1..Len(sent)
            PROVE  MarkerTaken(f)' <=> MarkerTaken(f) \/ f = f0
        BY <1>15, <1>t
      <4> QED
        BY <1>3, <1>13, <4>1
    <3>4. {delivered'[i].frame : i \in DOMAIN delivered'} =
          {f \in DOMAIN sent : MarkerTaken(f)'}
      BY <1>13, <3>2, <3>3, Zenon DEF OneDeliveryPerMarker
    <3> QED
      BY <1>1, <3>1, <3>4 DEF OneDeliveryPerMarker
  <2>5. ToSet(delivered) \subseteq ToSet(delivered') /\ entry \in ToSet(delivered')
    <3>1. \A i \in DOMAIN delivered : i \in DOMAIN delivered' /\ delivered'[i] = delivered[i]
      BY <1>13, <2>1
    <3>2. Len(delivered) + 1 \in DOMAIN delivered'
      BY <1>13, <2>1
    <3> QED
      BY <2>1, <3>1, <3>2 DEF ToSet
  <2>6. IntactAfterMarker'
    <3> SUFFICES ASSUME NEW f \in DOMAIN sent, CleanlyReceived(f)',
                        Len(AnnexB(sent[f].nalus)) < RecvBufferSize
                 PROVE  [frame |-> f, data |-> AnnexB(sent[f].nalus)] \in ToSet(delivered')
      BY <1>1 DEF IntactAfterMarker
    <3>1. CASE f = f0
      <4>1. Clean(f)'
        BY <1>1, Zenon DEF Clean, CleanlyReceived
      <4>2. PICK k : k = k0
        OBVIOUS
      <4>3. kept \o data = Text(SubSeq(ps, 1, k0))
        <5>1. CameWhole(f, k)'
          BY <1>1, <2>2, <3>1, <4>2, Zenon DEF CameWhole, CleanlyReceived
        <5> QED
          BY <1>8, <3>1, <4>1, <4>2, <5>1, Zenon
      <4>4. SubSeq(ps, 1, k0) = ps
        BY <1>4, <2>2, SubSeqFull
      <4>5. entry = [frame |-> f, data |-> AnnexB(sent[f].nalus)]
        BY <1>4, <3>1, <4>3, <4>4, Zenon DEF entry
      <4> QED
        BY <2>5, <4>5
    <3>2. CASE f # f0
      <4>1. CleanlyReceived(f)
        BY <1>1, <1>13, <3>2, EarlierFrame
      <4> QED
        BY <1>13, <2>5, <4>1, Zenon DEF IntactAfterMarker
    <3> QED
      BY <3>1, <3>2
  <2> QED
    BY <1>1, <1>2, <1>9, <1>10, <1>11, <2>1, <2>4, <2>6 DEF StreamInv, BuffersOK, DeliveredOK
<1>16. CASE ~p.marker
  <2>1. delivered' = delivered /\ k0 # sent[f0].count
    BY <1>1, <1>5, <1>16
  <2>2. OneDeliveryPerMarker'
    <3>1. \A f \in 1..Len(sent) : MarkerTaken(f)' <=> MarkerTaken(f)
      BY <1>16, <1>t
    <3>2. {f \in DOMAIN sent : MarkerTaken(f)'} = {f \in DOMAIN sent : MarkerTaken(f)}
      BY <1>13, <3>1
    <3> QED
      BY <1>1, <1>13, <2>1, <3>2, Zenon DEF OneDeliveryPerMarker
  <2>3. IntactAfterMarker'
    <3> SUFFICES ASSUME NEW f \in DOMAIN sent, CleanlyReceived(f)',
                        Len(AnnexB(sent[f].nalus)) < RecvBufferSize
                 PROVE  [frame |-> f, data |-> AnnexB(sent[f].nalus)] \in ToSet(delivered)
      BY <1>1, <2>1, Zenon DEF IntactAfterMarker
    <3>1. f # f0
      <4> SUFFICES ASSUME f = f0 PROVE FALSE
        OBVIOUS
      <4>1. <<f0, sent[f0].count>> \in arrived'
        BY <1>1, <1>3, <1>4, SMTT(30) DEF CleanlyReceived
      <4>2. Before(<<f0, sent[f0].count>>, id)
        BY <1>1, <1>2, <1>3, <2>1, <4>1
      <4> QED
        BY <1>3, <1>4, <4>2 DEF Before
    <3>2. CleanlyReceived(f)
      BY <1>1, <1>13, <3>1, EarlierFrame
    <3> QED
      BY <1>13, <3>2 DEF IntactAfterMarker
  <2> QED
    BY <1>1, <1>2, <1>9, <1>10, <1>11, <1>13, <2>1, <2>2, <2>3, Zenon
    DEF StreamInv, BuffersOK, DeliveredOK
<1> QED
  BY <1>15, <1>16

(* Nothing has been sent at first. *)
LEMMA InitStep ==
  ASSUME Init
  PROVE  StreamInv
<1>1. /\ Len(sent) = 0 /\ Len(wire) = 0 /\ arrived = {}
      /\ DOMAIN sent = {} /\ DOMAIN delivered = {}
      /\ frame = <<>> /\ rtpBuffer = <<>> /\ sent = <<>> /\ wire = <<>> /\ delivered = <<>>
  BY DEF Init
<1>2. SentOK
  BY <1>1 DEF SentOK
<1>3. WireOK
  BY <1>1 DEF WireOK
<1>4. ArrivedOK
  BY <1>1 DEF ArrivedOK
<1>5. BuffersOK
  <2>1. <<>> \in Unit
    BY DEF Unit
  <2> QED
    BY <1>1, <2>1 DEF BuffersOK, Emptied, Gathered
<1>6. DeliveredOK
  <2>1. delivered \in Seq([frame: Nat, data: Unit])
    BY <1>1
  <2>2. OneDeliveryPerMarker
    BY <1>1 DEF OneDeliveryPerMarker
  <2>3. IntactAfterMarker
    BY <1>1 DEF IntactAfterMarker
  <2> QED
    BY <2>1, <2>2, <2>3 DEF DeliveredOK
<1> QED
  BY <1>2, <1>3, <1>4, <1>5, <1>6 DEF StreamInv

(* A frame is given to send_h264_data. *)
LEMMA SendStep ==
  ASSUME StreamInv, SendH264Data
  PROVE  StreamInv'
<1>0. PICK f : f = Len(sent) + 1
  OBVIOUS
<1>1. Len(sent) \in Nat /\ f \in Nat /\ DOMAIN sent = 1..Len(sent) /\ sent \in Seq(FrameRec)
  BY <1>0 DEF StreamInv, SentOK
<1>2. PICK k \in 1..MaxNalus : \E lens \in [1..k -> NaluLens] :
        LET nalus == Nalus(f, lens)
            built == ReceiveRtpPackets(nalus)
            count == Len(built.packets)
        IN  IF built.ok
            THEN /\ sent' = Append(sent, [nalus |-> nalus, count |-> count])
                 /\ \E n \in 0..count :
                      wire' = wire \o SubSeq(Marked(f, built.packets), 1, n)
            ELSE /\ sent' = Append(sent, [nalus |-> <<>>, count |-> 0])
                 /\ wire' = wire
  BY <1>0, Zenon DEF SendH264Data
<1>3. PICK lens \in [1..k -> NaluLens] :
        LET nalus == Nalus(f, lens)
            built == ReceiveRtpPackets(nalus)
            count == Len(built.packets)
        IN  IF built.ok
            THEN /\ sent' = Append(sent, [nalus |-> nalus, count |-> count])
                 /\ \E n \in 0..count :
                      wire' = wire \o SubSeq(Marked(f, built.packets), 1, n)
            ELSE /\ sent' = Append(sent, [nalus |-> <<>>, count |-> 0])
                 /\ wire' = wire
  BY <1>2, Zenon
<1> DEFINE nalus == Nalus(f, lens)
           built == ReceiveRtpPackets(nalus)
           count == IF built.ok THEN Len(built.packets) ELSE 0
           r == IF built.ok THEN [nalus |-> nalus, count |-> Len(built.packets)]
                ELSE [nalus |-> <<>>, count |-> 0]
<1>4. /\ arrived' = arrived /\ frame' = frame /\ rtpBuffer' = rtpBuffer /\ delivered' = delivered
  BY DEF SendH264Data
<1>5. nalus \in Seq(Nalu) \ {<<>>}
  <2>1. k \in Nat \ {0}
    BY SizeAssumption
  <2> QED
    BY <1>1, <2>1, NalusType, Zenon
<1>6. /\ built \in Builder /\ built.packets \in Seq(Packet) /\ count \in Nat
      /\ built.ok => /\ Good(built.packets) /\ Text(built.packets) = AnnexB(nalus)
                     /\ count = Len(built.packets)
  <2> HIDE DEF nalus
  <2>1. /\ built \in Builder
        /\ built.ok => Good(built.packets) /\ Text(built.packets) = AnnexB(nalus)
    BY <1>5, BuiltCorrect
  <2>2. built.packets \in Seq(Packet)
    BY <2>1 DEF Builder
  <2>3. count \in Nat
    BY <2>2
  <2> QED
    BY <2>1, <2>2, <2>3
<1>7. /\ r \in FrameRec /\ FrameOK(r) /\ r.count = count
      /\ built.ok => Packets(r) = built.packets
  <2>1. /\ built.ok => r.nalus = nalus
        /\ r.count = count
    OBVIOUS
  <2>2. built.ok => Packets(r) = built.packets
    BY <2>1, Zenon DEF Packets
  <2>3. r \in FrameRec
    <3>1. CASE built.ok
      <4>1. r = [nalus |-> nalus, count |-> count] /\ nalus \in Seq(Nalu)
        BY <1>5, <3>1
      <4> HIDE DEF r, count, nalus, built
      <4> QED
        BY <1>6, <4>1 DEF FrameRec
    <3>2. CASE ~built.ok
      <4>1. r = [nalus |-> <<>>, count |-> 0] /\ <<>> \in Seq(Nalu)
        BY <3>2
      <4> HIDE DEF r
      <4> QED
        BY <4>1 DEF FrameRec
    <3> QED
      BY <3>1, <3>2
  <2>4. count # 0 => built.ok
    OBVIOUS
  <2> HIDE DEF r, count, built
  <2>5. FrameOK(r)
    BY <1>6, <2>1, <2>2, <2>4 DEF FrameOK
  <2> QED
    BY <2>1, <2>2, <2>3, <2>5
<1>8. sent' = Append(sent, r)
  BY <1>3
<1>9. \E new \in Seq(OnWire) :
        /\ wire' = wire \o new
        /\ \A i \in 1..Len(new) : new[i].id = <<f, i>> /\ i \in 1..count /\ Carries(new[i], r)
  <2>1. CASE built.ok
    <3>1. PICK n \in 0..count : wire' = wire \o SubSeq(Marked(f, built.packets), 1, n)
      BY <1>3, <2>1, Zenon
    <3> DEFINE ps == built.packets
               new == SubSeq(Marked(f, ps), 1, n)
    <3>2. ps \in Seq(Packet) /\ n \in 0..Len(ps) /\ count = Len(ps)
      BY <1>6, <2>1, <3>1
    <3>3. /\ new \in Seq(OnWire) /\ Len(new) = n
          /\ \A i \in 1..n :
              /\ i \in 1..Len(ps) /\ new[i].id = <<f, i>>
              /\ new[i].marker <=> i = Len(ps)
              /\ new[i].kind = ps[i].kind /\ new[i].units = ps[i].units /\ new[i].nal = ps[i].nal
      <4> HIDE DEF ps
      <4>1. f \in Nat /\ ps \in Seq(Packet) /\ n \in 0..Len(ps)
        BY <1>1, <3>2
      <4>2. SentAs(new, f, ps, n)
        BY <4>1, MarkedSound, Zenon
      <4> HIDE DEF new
      <4> QED
        BY <4>2 DEF SentAs
    <3>4. Packets(r) = ps /\ r.count = count
      BY <1>7, <2>1
    <3>5. wire' = wire \o new
      BY <3>1
    <3> HIDE DEF ps, new, r, count
    <3>6. \A i \in 1..n : Carries(new[i], r)
      BY <3>2, <3>3, <3>4 DEF Carries
    <3> QED
      BY <3>2, <3>3, <3>5, <3>6, Zenon
  <2>2. CASE ~built.ok
    <3>1. wire' = wire \o <<>>
      <4>1. wire' = wire /\ wire \in Seq(OnWire)
        BY <1>3, <2>2 DEF StreamInv, WireOK
      <4> HIDE DEF r, count, built
      <4> QED
        BY <4>1, ConcatEmptySeq
    <3>2. <<>> \in Seq(OnWire) /\ Len(<<>>) = 0
      OBVIOUS
    <3>3. \A i \in 1..Len(<<>>) : FALSE
      BY <3>2
    <3> WITNESS <<>> \in Seq(OnWire)
    <3> QED
      BY <3>1, <3>3
  <2> QED
    BY <2>1, <2>2, Zenon
<1>10. PICK new \in Seq(OnWire) :
        /\ wire' = wire \o new
        /\ \A i \in 1..Len(new) : new[i].id = <<f, i>> /\ i \in 1..count /\ Carries(new[i], r)
  BY <1>9, Zenon
<1> HIDE DEF r, count
<1>11. /\ sent' \in Seq(FrameRec) /\ Len(sent') = f /\ DOMAIN sent' = 1..f /\ sent'[f] = r
       /\ \A g \in 1..Len(sent) : g \in 1..f /\ g # f /\ sent'[g] = sent[g]
       /\ \A g \in 1..f : g = f \/ g \in 1..Len(sent)
  <2>1. /\ Append(sent, r) \in Seq(FrameRec) /\ Len(Append(sent, r)) = Len(sent) + 1
        /\ \A i \in 1..Len(sent) : Append(sent, r)[i] = sent[i]
        /\ Append(sent, r)[Len(sent) + 1] = r
    BY <1>1, <1>7, AppendProperties
  <2>2. DOMAIN Append(sent, r) = 1..f
    BY <1>0, <2>1
  <2>3. /\ \A g \in 1..Len(sent) : g \in 1..f /\ g # f
        /\ \A g \in 1..f : g = f \/ g \in 1..Len(sent)
    BY <1>0, <1>1
  <2> QED
    BY <1>0, <1>8, <2>1, <2>2, <2>3
<1>12. \A a : Known(a, sent) => Known(a, sent')
  BY <1>11 DEF Known
<1>13. \A a \in arrived : Known(a, sent) /\ a[1] \in 1..Len(sent) /\ a[1] # f
  BY <1>11 DEF StreamInv, ArrivedOK, Known
<1>14. \A g \in 1..Len(sent) : LastPacket(g)' = LastPacket(g)
  BY <1>11 DEF LastPacket
<1>t. \A g \in 1..Len(sent) : MarkerTaken(g)' <=> MarkerTaken(g)
  BY <1>4, <1>11, <1>14 DEF MarkerTaken
<1>15. \A g \in 1..Len(sent) : Reached(g)' <=> Reached(g)
  BY <1>4 DEF Reached
<1>16. \A j : <<f, j>> \notin arrived
  BY <1>13
<1>17. \A a : Latest(a)' <=> Latest(a)
  BY <1>4 DEF Latest
<1>18. ASSUME NEW g \in 1..Len(sent), NEW h \in 1 .. g - 1
       PROVE  h \in 1..Len(sent) /\ \A j \in h + 1 .. g - 1 : j \in 1..Len(sent)
  BY <1>1
<1>19. SentOK'
  BY <1>7, <1>11, Zenon DEF StreamInv, SentOK
<1>20. WireOK'
  <2> DEFINE m == Len(wire)
  <2>1. /\ wire \in Seq(OnWire) /\ m \in Nat /\ Len(new) \in Nat
        /\ wire' \in Seq(OnWire) /\ Len(wire') = m + Len(new)
        /\ \A i \in 1..m : wire'[i] = wire[i]
        /\ \A i \in 1..Len(new) : wire'[m + i] = new[i]
    <3>1. wire \in Seq(OnWire)
      BY DEF StreamInv, WireOK
    <3>2. /\ wire \o new \in Seq(OnWire) /\ Len(wire \o new) = Len(wire) + Len(new)
          /\ Len(wire) \in Nat /\ Len(new) \in Nat
      BY <3>1, ConcatProperties, LenProperties
    <3>3. \A i \in 1..(Len(wire) + Len(new)) :
             (wire \o new)[i] = IF i <= Len(wire) THEN wire[i] ELSE new[i - Len(wire)]
      BY <3>1, <3>2, ConcatProperties
    <3>4. \A i \in 1..m : i \in 1..(m + Len(new)) /\ i <= m
      BY <3>2
    <3>5. \A i \in 1..Len(new) : m + i \in 1..(m + Len(new)) /\ ~(m + i <= m) /\ (m + i) - m = i
      BY <3>2
    <3>6. \A i \in 1..Len(new) : (wire \o new)[m + i] = new[i]
      BY <3>3, <3>5
    <3> QED
      BY <1>10, <3>1, <3>2, <3>3, <3>4, <3>6
  <2>2. \A i \in 1..(m + Len(new)) : i \in 1..m \/ (\E j \in 1..Len(new) : i = m + j)
    <3> SUFFICES ASSUME NEW i \in 1..(m + Len(new)), i \notin 1..m
                 PROVE  \E j \in 1..Len(new) : i = m + j
      OBVIOUS
    <3>1. i - m \in 1..Len(new) /\ i = m + (i - m)
      BY <2>1
    <3> QED
      BY <3>1, Zenon
  <2>3. ASSUME NEW i \in 1..m
        PROVE  /\ Known(wire[i].id, sent') /\ Carries(wire[i], sent'[wire[i].id[1]])
               /\ wire[i].id \in Nat \X Nat /\ wire[i].id[1] < f
    <3>1. Known(wire[i].id, sent) /\ Carries(wire[i], sent[wire[i].id[1]])
      BY DEF StreamInv, WireOK
    <3>2. wire[i].id[1] \in 1..Len(sent) /\ wire[i].id \in Nat \X Nat
      BY <3>1 DEF Known
    <3> QED
      BY <1>0, <1>1, <1>11, <1>12, <3>1, <3>2
  <2>4. ASSUME NEW j \in 1..Len(new)
        PROVE  /\ Known(new[j].id, sent') /\ Carries(new[j], sent'[new[j].id[1]])
    <3>1. new[j].id = <<f, j>> /\ j \in 1..count /\ Carries(new[j], r) /\ f \in 1..f
      BY <1>0, <1>1, <1>10
    <3>2. new[j].id[1] = f /\ new[j].id[2] = j /\ new[j].id \in Nat \X Nat
      BY <1>1, <3>1
    <3> QED
      BY <1>7, <1>11, <3>1, <3>2 DEF Known
  <2>5. \A i \in 1..Len(wire') :
          Known(wire'[i].id, sent') /\ Carries(wire'[i], sent'[wire'[i].id[1]])
    <3> SUFFICES ASSUME NEW i \in 1..Len(wire')
                 PROVE  Known(wire'[i].id, sent') /\ Carries(wire'[i], sent'[wire'[i].id[1]])
      OBVIOUS
    <3>1. CASE i \in 1..m
      BY <2>1, <2>3, <3>1, Zenon
    <3>2. ASSUME NEW j \in 1..Len(new), i = m + j
          PROVE  Known(wire'[i].id, sent') /\ Carries(wire'[i], sent'[wire'[i].id[1]])
      <4>1. wire'[i] = new[j]
        BY <2>1, <3>2
      <4> QED
        BY <2>4, <4>1
    <3> QED
      BY <2>1, <2>2, <3>1, <3>2
  <2>6. ASSUME NEW i \in 1..Len(wire'), NEW j \in 1..Len(wire'), i < j
        PROVE  Before(wire'[i].id, wire'[j].id)
    <3>1. CASE i \in 1..m /\ j \in 1..m
      <4>1. Before(wire[i].id, wire[j].id)
        BY <2>6, <3>1 DEF StreamInv, WireOK
      <4> QED
        BY <2>1, <3>1, <4>1
    <3>2. ASSUME i \in 1..m, NEW b \in 1..Len(new), j = m + b
          PROVE  Before(wire'[i].id, wire'[j].id)
      <4>1. wire'[i].id[1] < f /\ wire'[j].id = <<f, b>>
        BY <1>10, <2>1, <2>3, <3>2, Zenon
      <4> QED
        BY <4>1 DEF Before
    <3>3. ASSUME NEW a \in 1..Len(new), NEW b \in 1..Len(new), i = m + a, j = m + b
          PROVE  Before(wire'[i].id, wire'[j].id)
      <4>1. wire'[i] = new[a] /\ wire'[j] = new[b]
        BY <2>1, <3>3, Zenon
      <4>2. a < b
        BY <2>1, <2>6, <3>3
      <4>3. wire'[i].id = <<f, a>> /\ wire'[j].id = <<f, b>>
        BY <1>10, <4>1, Zenon
      <4> QED
        BY <4>2, <4>3 DEF Before
    <3>4. ASSUME NEW a \in 1..Len(new), i = m + a, j \in 1..m PROVE FALSE
      BY <2>1, <2>6, <3>4
    <3> QED
      BY <2>1, <2>2, <3>1, <3>2, <3>3, <3>4
  <2>7. /\ wire' \in Seq(OnWire)
        /\ \A i, j \in 1..Len(wire') : i < j => Before(wire'[i].id, wire'[j].id)
    BY <2>1, <2>6
  <2> QED
    BY <2>5, <2>7 DEF WireOK
<1>21. ArrivedOK'
  <2>1. ASSUME NEW a \in arrived, NEW i \in 1..Len(wire') PROVE Before(a, wire'[i].id)
    <3> DEFINE m == Len(wire)
    <3>1. wire \in Seq(OnWire) /\ wire' = wire \o new /\ m \in Nat /\ Len(new) \in Nat
      BY <1>10 DEF StreamInv, WireOK
    <3>2. Len(wire') = m + Len(new)
      BY <3>1, ConcatProperties
    <3>3. wire'[i] = IF i <= m THEN wire[i] ELSE new[i - m]
      BY <3>1, <3>2, ConcatProperties
    <3>4. CASE i <= m
      BY <3>1, <3>3, <3>4 DEF StreamInv, ArrivedOK
    <3>5. CASE ~(i <= m)
      <4>1. i - m \in 1..Len(new)
        BY <3>1, <3>2, <3>5
      <4>2. wire'[i].id = <<f, i - m>>
        BY <1>10, <3>3, <3>5, <4>1
      <4>3. a[1] < f
        BY <1>0, <1>1, <1>13
      <4> QED
        BY <4>2, <4>3 DEF Before
    <3> QED
      BY <3>4, <3>5
  <2>2. \A a \in arrived : Known(a, sent')
    BY <1>12, <1>13
  <2>3. arrived # {} => \E a \in arrived : Latest(a)'
    BY <1>17 DEF StreamInv, ArrivedOK
  <2> QED
    BY <1>4, <2>1, <2>2, <2>3 DEF ArrivedOK
<1>22. ASSUME NEW g \in 1..Len(sent), Clean(g)' PROVE Clean(g)
  BY <1>15, <1>18, <1>22, <1>t DEF Clean
<1>23. BuffersOK'
  <2>1. Emptied'
    <3> SUFFICES ASSUME arrived # {}, NEW g \in 1..f, Latest(LastPacket(g))', MarkerTaken(g)'
                 PROVE  \E h \in 1..Len(sent) : Latest(LastPacket(h)) /\ MarkerTaken(h)
      BY <1>4, <1>11 DEF StreamInv, BuffersOK, Emptied
    <3>1. LastPacket(g)' = <<g, sent'[g].count>> /\ LastPacket(g)' \in arrived
      BY <1>4 DEF LastPacket, Latest
    <3>2. g \in 1..Len(sent)
      BY <1>11, <1>16, <3>1
    <3> QED
      BY <1>4, <1>14, <1>t, <3>2 DEF Latest
  <2>2. Gathered'
    <3> SUFFICES ASSUME NEW g \in 1..f, NEW j \in 1 .. sent'[g].count - 1,
                        Latest(<<g, j>>)', Clean(g)', CameWhole(g, j)',
                        Len(AnnexB(sent'[g].nalus)) < RecvBufferSize
                 PROVE  rtpBuffer \o (IF Ends(Packets(sent'[g])[j]) THEN <<>> ELSE frame)
                        = Text(SubSeq(Packets(sent'[g]), 1, j))
      BY <1>4, <1>11, Zenon DEF Gathered
    <3>1. <<g, j>> \in arrived /\ Latest(<<g, j>>)
      BY <1>4, Zenon DEF Latest
    <3>2. g \in 1..Len(sent)
      BY <1>11, <1>16, <3>1
    <3>3. Clean(g) /\ sent'[g] = sent[g]
      BY <1>11, <1>22, <3>2
    <3>4. CameWhole(g, j)
      BY <1>4, <3>3, Zenon DEF CameWhole
    <3> QED
      BY <3>1, <3>2, <3>3, <3>4, Zenon DEF StreamInv, BuffersOK, Gathered
  <2> QED
    BY <1>4, <2>1, <2>2 DEF StreamInv, BuffersOK
<1>24. DeliveredOK'
  <2>1. {g \in DOMAIN sent' : MarkerTaken(g)'} = {g \in DOMAIN sent : MarkerTaken(g)}
    <3>1. ~MarkerTaken(f)'
      BY <1>4, <1>11, <1>16 DEF LastPacket, MarkerTaken
    <3> QED
      BY <1>1, <1>11, <1>t, <3>1
  <2>2. OneDeliveryPerMarker'
    BY <1>4, <2>1, Zenon DEF StreamInv, DeliveredOK, OneDeliveryPerMarker
  <2>3. IntactAfterMarker'
    <3> SUFFICES ASSUME NEW g \in 1..f, CleanlyReceived(g)',
                        Len(AnnexB(sent'[g].nalus)) < RecvBufferSize
                 PROVE  [frame |-> g, data |-> AnnexB(sent'[g].nalus)] \in ToSet(delivered)
      BY <1>4, <1>11 DEF IntactAfterMarker
    <3>1. /\ sent'[g].count > 0
          /\ \A i \in 1..sent'[g].count : <<g, i>> \in arrived /\ Whole(Packets(sent'[g])[i])
      BY <1>4, Zenon DEF CleanlyReceived
    <3>2. g \in 1..Len(sent)
      <4>1. r.count \in Nat
        BY <1>6, <1>7
      <4>2. ASSUME g = f PROVE FALSE
        <5>1. 1 \in 1..sent'[g].count
          BY <1>11, <3>1, <4>1, <4>2
        <5> QED
          BY <1>16, <3>1, <4>2, <5>1, Zenon
      <4> QED
        BY <1>11, <4>2
    <3>3. Clean(g)
      BY <1>22, <3>2, Zenon DEF Clean, CleanlyReceived
    <3>4. CleanlyReceived(g) /\ sent'[g] = sent[g]
      <4>1. sent'[g] = sent[g]
        BY <1>11, <3>2
      <4> QED
        BY <3>1, <3>3, <4>1, Zenon DEF Clean, CleanlyReceived
    <3> QED
      BY <1>1, <3>2, <3>4, Zenon DEF StreamInv, DeliveredOK, IntactAfterMarker
  <2> QED
    BY <1>4, <2>2, <2>3 DEF StreamInv, DeliveredOK
<1> QED
  BY <1>19, <1>20, <1>21, <1>23, <1>24 DEF StreamInv

(* Every step of the stream keeps the invariant. *)
LEMMA Inductive == Spec => []StreamInv
<1>1. Init => StreamInv
  BY InitStep
<1>2. StreamInv /\ [Next]_vars => StreamInv'
  <2> SUFFICES ASSUME StreamInv, [Next]_vars PROVE StreamInv'
    OBVIOUS
  <2>1. CASE SendH264Data
    BY <2>1, SendStep
  <2>2. CASE Lose
    BY <2>2, LoseStep
  <2>3. CASE ReceiveUnits
    BY <2>3, UnitsStep
  <2>4. CASE ReceiveNothing
    BY <2>4, NothingStep
  <2>5. CASE UNCHANGED vars
    <3>1. /\ sent' = sent /\ wire' = wire /\ arrived' = arrived /\ frame' = frame
          /\ rtpBuffer' = rtpBuffer /\ delivered' = delivered
      BY <2>5 DEF vars
    <3>2. SentOK' /\ WireOK' /\ ArrivedOK'
      BY <3>1, Zenon DEF StreamInv, SentOK, WireOK, ArrivedOK, Latest
    <3> QED
      BY <3>1, <3>2, SameReceiver DEF StreamInv
  <2> QED
    BY <2>1, <2>2, <2>3, <2>4, <2>5 DEF Next, Done
<1> QED
  BY <1>1, <1>2, PTL DEF Spec

(* The frame that the callback gets is byte by byte the one that was given *)
(* to send_h264_data, whatever NAL units it has and whatever was lost, cut *)
(* or refused before, when its packets all arrive after a marker that was  *)
(* taken, none of them is cut by recvfrom and it fits into                 *)
(* m_h264_rtp_buffer: for any sizes and any number of units and frames.    *)
THEOREM FramesIntact == Spec => []IntactAfterMarker
<1>1. StreamInv => IntactAfterMarker
  BY DEF StreamInv, DeliveredOK
<1> QED
  BY <1>1, Inductive, PTL

(* receive_video calls the callback once for every frame whose last packet *)
(* arrives, in the order of the frames, and for no other, except that it   *)
(* ignores the marker of an aggregation that was cut within a unit.        *)
THEOREM MarkerDelivers == Spec => []OneDeliveryPerMarker
<1>1. StreamInv => OneDeliveryPerMarker
  BY DEF StreamInv, DeliveredOK
<1> QED
  BY <1>1, Inductive, PTL

(* The one way in which receive_rtp_packets exceeds RTP_PAYLOAD_SIZE is to *)
(* go on collecting behind units that fill a packet exactly.               *)
THEOREM OverfullOnlyExact == Spec => []OverfullAfterExactFill
<1>1. ASSUME StreamInv PROVE OverfullAfterExactFill
  <2>0. DOMAIN wire = 1..Len(wire)
    BY <1>1 DEF StreamInv, WireOK
  <2> SUFFICES ASSUME NEW i \in 1..Len(wire) PROVE Filled(wire[i].units)
    BY <2>0, Zenon DEF OverfullAfterExactFill, Filled
  <2> DEFINE f == wire[i].id[1]
             k == wire[i].id[2]
             ps == Packets(sent[f])
  <2>1. f \in 1..Len(sent) /\ k \in 1..sent[f].count /\ Carries(wire[i], sent[f])
    BY <1>1 DEF StreamInv, WireOK, Known
  <2>2. sent[f].count \in Nat
    BY <1>1, <2>1, FrameType DEF StreamInv
  <2>3. Good(ps) /\ Len(ps) = sent[f].count
    BY <1>1, <2>1, <2>2, SMTT(30) DEF StreamInv, SentOK, FrameOK
  <2>4. Filled(ps[k].units)
    BY <2>1, <2>3, Zenon DEF Good
  <2>5. wire[i].units = ps[k].units
    BY <2>1 DEF Carries
  <2> QED
    BY <2>4, <2>5
<1> QED
  BY <1>1, Inductive, PTL
===============================================================================
