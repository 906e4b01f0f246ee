----------------------- MODULE ReorderReceiver_proofs -----------------------
(***************************************************************************)
(* Proofs about ReorderReceiver, for any network, any length of the list,  *)
(* any stream, audio or video, and numbers that wrap.                      *)
(***************************************************************************)
EXTENDS ReorderReceiver, TLAPS, FiniteSetTheorems

(* The numbers that are compared are integers. *)
LEMMA KeyType == \A n \in Known : Key(n) \in Int
<1>1. \A n \in Int, h \in Nat \ {0} : n % h \in Int
  OBVIOUS
<1>2. Half * Half \in Nat \ {0}
  BY ReorderAssumption
<1>3. \A n \in Packets : n \in Int
  BY ReorderAssumption DEF Packets
<1> QED
  BY <1>1, <1>2, <1>3, ReorderAssumption DEF Key, Known, Dummy

(* A list in strictly ascending order, as ListSound says m_reorder_list is. *)
Sorted(l) == \A i, j \in 1..Len(l) : i < j => Key(l[i]) < Key(l[j])

(* Inserting into a list. *)
LEMMA InsertAfterType ==
  ASSUME NEW S, NEW s \in Seq(S), NEW k \in 0..Len(s), NEW e \in S
  PROVE  /\ InsertAfter(s, k, e) \in Seq(S)
         /\ Len(InsertAfter(s, k, e)) = Len(s) + 1
         /\ \A j \in 1..(Len(s) + 1) :
              InsertAfter(s, k, e)[j] =
                IF j <= k THEN s[j] ELSE IF j = k + 1 THEN e ELSE s[j - 1]
<1> DEFINE n == Len(s)
           t == InsertAfter(s, k, e)
<1>1. n \in Nat /\ \A j \in 1..n : s[j] \in S
  OBVIOUS
<1>2. \A j \in 1..(n + 1) :
        (IF j <= k THEN s[j] ELSE IF j = k + 1 THEN e ELSE s[j - 1]) \in S
  BY <1>1
<1>3. t \in [1..(n + 1) -> S]
  BY <1>2 DEF InsertAfter
<1> QED
  BY <1>1, <1>3 DEF InsertAfter

(* Removing an element. *)
LEMMA WithoutType ==
  ASSUME NEW S, NEW s \in Seq(S), NEW i \in 1..Len(s)
  PROVE  Without(s, i) \in Seq(S) /\ Len(Without(s, i)) = Len(s) - 1
<1>1. Len(s) - 1 \in Nat /\ \A j \in 1..Len(s) : s[j] \in S
  OBVIOUS
<1>2. \A j \in 1..(Len(s) - 1) : (IF j < i THEN s[j] ELSE s[j + 1]) \in S
  BY <1>1
<1>3. Without(s, i) \in [1..(Len(s) - 1) -> S]
  BY <1>2 DEF Without
<1> QED
  BY <1>1, <1>3

(* The list with a new packet in it is sorted and at most one longer. *)
LEMMA InsertSorted ==
  ASSUME list \in Seq(Known), Sorted(list),
         NEW s \in Known, NEW l \in Insert(s)
  PROVE  l \in Seq(Known) /\ Sorted(l) /\ Len(l) <= Len(list) + 1
<1>1. PICK k \in 0..Len(list) :
        /\ StopsAt(k, s)
        /\ l = IF k > 0 /\ Key(list[k]) = Key(s) THEN list
               ELSE InsertAfter(list, k, s)
  BY DEF Insert
<1>2. CASE l = list
  BY <1>2
<1>3. CASE l # list
  <2>1. l = InsertAfter(list, k, s) /\ (k > 0 => Key(list[k]) # Key(s))
    BY <1>1, <1>3
  <2>2. /\ l \in Seq(Known) /\ Len(l) = Len(list) + 1
        /\ \A j \in 1..(Len(list) + 1) :
             l[j] = IF j <= k THEN list[j]
                    ELSE IF j = k + 1 THEN s ELSE list[j - 1]
    BY <2>1, InsertAfterType
  <2>3. /\ Key(s) \in Int /\ \A j \in 1..Len(list) : Key(list[j]) \in Int
    BY KeyType
  <2>4. \A j \in 1..k : Key(list[j]) < Key(s)
    <3> SUFFICES ASSUME NEW j \in 1..k PROVE Key(list[j]) < Key(s)
      OBVIOUS
    <3>1. k \in 1..Len(list) /\ j \in 1..Len(list) /\ Key(list[k]) < Key(s)
      BY <1>1, <2>1, <2>3 DEF StopsAt
    <3>2. j = k \/ Key(list[j]) < Key(list[k])
      BY <3>1 DEF Sorted
    <3> QED
      BY <2>3, <3>1, <3>2
  <2>5. \A j \in (k + 1)..Len(list) : Key(s) < Key(list[j])
    BY <1>1, <2>3 DEF StopsAt
  <2>6. ASSUME NEW i \in 1..Len(l), NEW j \in 1..Len(l), i < j
        PROVE  Key(l[i]) < Key(l[j])
    <3>1. CASE j <= k
      BY <2>2, <2>6, <3>1 DEF Sorted
    <3>2. CASE j = k + 1
      BY <2>2, <2>4, <2>6, <3>2
    <3>3. ASSUME j > k + 1
          PROVE  l[j] = list[j - 1] /\ j - 1 \in (k + 1)..Len(list)
      BY <2>2, <3>3
    <3>4. CASE j > k + 1 /\ i = k + 1
      BY <2>2, <2>5, <3>3, <3>4
    <3>5. CASE j > k + 1 /\ i > k + 1
      <4>1. l[i] = list[i - 1] /\ i - 1 \in 1..Len(list)
        BY <2>2, <3>5
      <4>2. i - 1 < j - 1 /\ j - 1 \in 1..Len(list)
        BY <2>6, <3>3, <3>5
      <4> QED
        BY <3>3, <3>5, <4>1, <4>2 DEF Sorted
    <3>6. CASE j > k + 1 /\ i <= k
      <4>1. l[i] = list[i] /\ i \in 1..Len(list)
        BY <2>2, <3>6
      <4>2. i < j - 1 /\ j - 1 \in 1..Len(list)
        BY <2>6, <3>3, <3>6
      <4> QED
        BY <3>3, <3>6, <4>1, <4>2 DEF Sorted
    <3> QED
      BY <2>6, <3>1, <3>2, <3>4, <3>5, <3>6
  <2> QED
    BY <2>2, <2>6 DEF Sorted
<1> QED
  BY <1>2, <1>3

(* Returning a packet keeps the rest of the list sorted and short. *)
LEMMA ReturnSound ==
  ASSUME NEW l \in Seq(Known), Sorted(l), Len(l) <= ReorderLen + 1,
         delivered \in Seq(Known), Return(l)
  PROVE  /\ list' \in Seq(Known) /\ delivered' \in Seq(Known)
         /\ Sorted(list') /\ Len(list') <= ReorderLen
<1>1. CASE Len(l) <= ReorderLen
  <2>1. ~(Len(l) > ReorderLen)
    BY <1>1, ReorderAssumption
  <2> QED
    BY <1>1, <2>1 DEF Return
<1>2. CASE Len(l) > ReorderLen
  <2>1. list' = Tail(l) /\ delivered' = Append(delivered, Head(l))
    BY <1>2 DEF Return
  <2>2. l # <<>> /\ Len(l) \in Nat
    BY <1>2, ReorderAssumption
  <2>3. /\ Head(l) \in Known /\ Tail(l) \in Seq(Known)
        /\ Len(Tail(l)) = Len(l) - 1
        /\ \A i \in 1..(Len(l) - 1) : Tail(l)[i] = l[i + 1]
    BY <2>2
  <2>4. ASSUME NEW i \in 1..Len(Tail(l)), NEW j \in 1..Len(Tail(l)), i < j
        PROVE  Key(Tail(l)[i]) < Key(Tail(l)[j])
    <3>1. /\ i + 1 \in 1..Len(l) /\ j + 1 \in 1..Len(l) /\ i + 1 < j + 1
          /\ Tail(l)[i] = l[i + 1] /\ Tail(l)[j] = l[j + 1]
      BY <2>2, <2>3, <2>4
    <3> QED
      BY <3>1 DEF Sorted
  <2>5. Sorted(Tail(l))
    BY <2>4 DEF Sorted
  <2> QED
    BY <2>1, <2>2, <2>3, <2>5, ReorderAssumption
<1> QED
  BY <1>1, <1>2, ReorderAssumption

(* A datagram that arrives leaves the network. *)
LEMMA ArriveType ==
  ASSUME TypeOK, NEW i \in 1..Len(net), Arrive(i)
  PROVE  /\ net' \in Seq(Datagram) /\ Len(net') <= MaxNet
         /\ net[i].seq \in Packets
<1>1. /\ net \in Seq(Datagram) /\ Len(net) - 1 \in Nat
      /\ \A j \in 1..Len(net) : net[j] \in Datagram
  BY DEF TypeOK
<1>2. ASSUME NEW j \in 1..(Len(net) - 1), j < i
      PROVE  [net[j] EXCEPT !.passed = @ + 1] \in Datagram
  <2>1. net[j] \in Datagram /\ net[j].passed < Displace
    BY <1>1, <1>2 DEF Arrive
  <2> QED
    BY <2>1, ReorderAssumption DEF Datagram
<1>3. net' \in [1..(Len(net) - 1) -> Datagram]
  BY <1>1, <1>2 DEF Arrive
<1>4. net' \in Seq(Datagram) /\ Len(net') = Len(net) - 1
  BY <1>1, <1>3
<1>5. Len(net) <= MaxNet /\ Len(net) \in Nat
  BY DEF TypeOK
<1>6. net[i].seq \in Packets
  BY <1>1 DEF Datagram
<1> QED
  BY <1>4, <1>5, <1>6, ReorderAssumption

(* Nothing is sent or received at first. *)
LEMMA SoundInit == Init => TypeOK /\ ListSound
BY ReorderAssumption DEF Init, TypeOK, ListSound

(* Whatever the network does, a call keeps the list sorted and short. *)
LEMMA SoundNext ==
  TypeOK /\ ListSound /\ [Next]_vars => TypeOK' /\ ListSound'
<1> SUFFICES ASSUME TypeOK, ListSound, [Next]_vars
             PROVE  TypeOK' /\ ListSound'
  OBVIOUS
<1>0. Sorted(list) /\ Len(list) <= ReorderLen /\ list \in Seq(Known)
  BY DEF ListSound, Sorted, TypeOK
<1>1. CASE Send
  <2>1. [seq |-> Start + sent, passed |-> 0] \in Datagram
    BY <1>1, ReorderAssumption DEF Send, TypeOK, Datagram, Packets
  <2> QED
    BY <1>1, <2>1, ReorderAssumption DEF Send, TypeOK, ListSound
<1>2. CASE Lose
  BY <1>2, WithoutType, ReorderAssumption DEF Lose, TypeOK, ListSound
<1>3. CASE Duplicate
  <2>1. PICK i \in 1..Len(net) : net' = InsertAfter(net, i, net[i])
    BY <1>3 DEF Duplicate
  <2>2. i \in 0..Len(net) /\ net \in Seq(Datagram) /\ net[i] \in Datagram
    BY DEF TypeOK
  <2>3. net' \in Seq(Datagram) /\ Len(net') = Len(net) + 1
    BY <2>1, <2>2, InsertAfterType
  <2> QED
    BY <1>3, <2>2, <2>3, ReorderAssumption DEF Duplicate, TypeOK, ListSound
<1>4. CASE ReceiveFirst
  <2>1. /\ net' \in Seq(Datagram) /\ Len(net') <= MaxNet
        /\ received' \in SUBSET Packets
    BY <1>4, ArriveType DEF ReceiveFirst, TypeOK
  <2>2. /\ <<Dummy>> \in Seq(Known) /\ Len(<<Dummy>>) = 1
        /\ Sorted(<<Dummy>>)
    BY DEF Known, Sorted
  <2>3. /\ list' \in Seq(Known) /\ delivered' \in Seq(Known)
        /\ Sorted(list') /\ Len(list') <= ReorderLen
    <3>1. Len(<<Dummy>>) <= ReorderLen + 1 /\ Return(<<Dummy>>)
      BY <1>4, <2>2, ReorderAssumption DEF ReceiveFirst
    <3>2. delivered \in Seq(Known)
      BY DEF TypeOK
    <3> HIDE DEF Return
    <3> QED
      BY <2>2, <3>1, <3>2, ReturnSound
  <2> QED
    BY <1>4, <2>1, <2>3 DEF ReceiveFirst, TypeOK, ListSound, Sorted
<1>5. CASE ReceiveNext
  <2>1. PICK i \in 1..Len(net) :
          /\ Arrive(i) /\ received' = received \union {net[i].seq}
          /\ \E l \in Insert(net[i].seq) : Return(l)
    BY <1>5 DEF ReceiveNext
  <2>2. /\ net' \in Seq(Datagram) /\ Len(net') <= MaxNet
        /\ net[i].seq \in Packets
    BY <2>1, ArriveType
  <2>3. PICK l \in Insert(net[i].seq) : Return(l)
    BY <2>1
  <2>4. l \in Seq(Known) /\ Sorted(l) /\ Len(l) <= Len(list) + 1
    BY <1>0, <2>2, <2>3, InsertSorted DEF Known
  <2>5. Len(l) <= ReorderLen + 1
    BY <1>0, <2>4, ReorderAssumption
  <2>6. /\ list' \in Seq(Known) /\ delivered' \in Seq(Known)
        /\ Sorted(list') /\ Len(list') <= ReorderLen
    BY <2>3, <2>4, <2>5, ReturnSound DEF TypeOK
  <2> QED
    BY <1>5, <2>1, <2>2, <2>6 DEF ReceiveNext, TypeOK, ListSound, Sorted
<1>6. CASE Done \/ UNCHANGED vars
  BY <1>6 DEF Done, vars, TypeOK, ListSound
<1> QED
  BY <1>1, <1>2, <1>3, <1>4, <1>5, <1>6 DEF Next

(* Every variable keeps its type. *)
THEOREM TypeCorrect == Spec => []TypeOK
BY SoundInit, SoundNext, PTL DEF Spec

(* Between two calls m_reorder_list holds at most reorderLen packets, in   *)
(* strictly ascending order: for any loss, duplication and reordering, for *)
(* audio and for video, and also when the numbers wrap.                    *)
THEOREM ListCorrect == Spec => []ListSound
BY SoundInit, SoundNext, PTL DEF Spec

----------------------------------------------------------------------------
(* The numbers that are compared do not wrap while the stream lasts: 2^32  *)
(* packets of audio, 2^16 of video, of which only the low half is sent.    *)
NoWrap == Start + MaxSent <= (IF Video THEN Half ELSE Half * Half)

(* Then the number compared is the packet's own. *)
LEMMA KeyId ==
  ASSUME NoWrap, NEW n \in Packets
  PROVE  Key(n) = n /\ n \in Nat
<1> DEFINE h == IF Video THEN Half ELSE Half * Half
<1>1. h \in Nat \ {0}
  BY ReorderAssumption
<1>2. n \in Nat /\ n < h
  BY <1>1, ReorderAssumption DEF NoWrap, Packets
<1>3. Key(n) = n % h
  BY <1>2 DEF Key, Dummy
<1> HIDE DEF h
<1> QED
  BY <1>1, <1>2, <1>3

(* Then a packet that compares lower was sent earlier. *)
LEMMA KeyOrder ==
  ASSUME NoWrap, NEW d \in Known, NEW e \in Known, Key(d) < Key(e)
  PROVE  d < e
<1>1. \A n \in Packets : Key(n) = n /\ n \in Nat
  BY KeyId
<1> QED
  BY <1>1 DEF Known, Key, Dummy

(* The list is full from the first packet that comes out. *)
Full == delivered # <<>> => Len(list) = ReorderLen

(* A call returns a packet that was sent before those that stay. *)
LEMMA EarliestReturn ==
  ASSUME NoWrap, TypeOK, ListSound, Full, ReturnsEarliest, list # <<>>,
         NEW s \in Packets, NEW l \in Insert(s), Return(l)
  PROVE  Full' /\ ReturnsEarliest'
<1>1. /\ list \in Seq(Known) /\ delivered \in Seq(Known)
      /\ Len(list) \in Nat \ {0} /\ Len(list) <= ReorderLen
      /\ Sorted(list) /\ s \in Known
  BY DEF TypeOK, ListSound, Sorted, Known
<1>2. l \in Seq(Known) /\ Sorted(l) /\ Len(l) <= Len(list) + 1
  BY <1>1, InsertSorted
<1>3. CASE ~(Len(l) > ReorderLen)
  <2>1. list' = l /\ delivered' = delivered
    BY <1>3 DEF Return
  <2>2. CASE delivered = <<>>
    BY <2>1, <2>2 DEF Full, ReturnsEarliest, Elements
  <2>3. CASE delivered # <<>>
    <3>1. Len(list) = ReorderLen
      BY <2>3 DEF Full
    <3>2. l = list
      <4>1. PICK k \in 0..Len(list) :
              l = list \/ l = InsertAfter(list, k, s)
        BY DEF Insert
      <4>2. Len(InsertAfter(list, k, s)) = Len(list) + 1
        BY <1>1, InsertAfterType
      <4> QED
        BY <1>1, <1>3, <3>1, <4>1, <4>2, ReorderAssumption
    <3> QED
      BY <2>1, <3>1, <3>2 DEF Full, ReturnsEarliest, Elements
  <2> QED
    BY <2>2, <2>3
<1>4. CASE Len(l) > ReorderLen
  <2>1. list' = Tail(l) /\ delivered' = Append(delivered, Head(l))
    BY <1>4 DEF Return
  <2>2. Len(l) = Len(list) + 1 /\ Len(list) = ReorderLen
    BY <1>1, <1>2, <1>4, ReorderAssumption
  <2>3. /\ Head(l) = l[1] /\ Tail(l) \in Seq(Known)
        /\ Len(Tail(l)) = Len(l) - 1
        /\ \A i \in 1..(Len(l) - 1) : Tail(l)[i] = l[i + 1]
    BY <1>1, <1>2, <2>2
  <2>4. Full'
    BY <1>1, <2>1, <2>2, <2>3 DEF Full
  <2>5. PICK k \in 0..Len(list) : l = InsertAfter(list, k, s)
    <3>1. PICK k \in 0..Len(list) : l = list \/ l = InsertAfter(list, k, s)
      BY DEF Insert
    <3> QED
      BY <1>1, <2>2, <3>1
  <2>6. \A j \in 1..(Len(list) + 1) :
          l[j] = IF j <= k THEN list[j]
                 ELSE IF j = k + 1 THEN s ELSE list[j - 1]
    <3>1. \A j \in 1..(Len(list) + 1) :
            InsertAfter(list, k, s)[j] =
              IF j <= k THEN list[j]
              ELSE IF j = k + 1 THEN s ELSE list[j - 1]
      BY <1>1, InsertAfterType
    <3> QED
      BY <2>5, <3>1
  <2>7. \A e \in Elements(Tail(l)) : Head(l) < e
    <3> SUFFICES ASSUME NEW i \in 1..Len(Tail(l)) PROVE Head(l) < Tail(l)[i]
      BY DEF Elements
    <3>1. /\ 1 \in 1..Len(l) /\ i + 1 \in 1..Len(l) /\ 1 < i + 1
          /\ Tail(l)[i] = l[i + 1]
      BY <1>1, <2>2, <2>3
    <3>2. Key(l[1]) < Key(l[i + 1])
      BY <1>2, <3>1 DEF Sorted
    <3>3. l[1] \in Known /\ l[i + 1] \in Known
      BY <1>2, <3>1
    <3> QED
      BY <2>3, <3>1, <3>2, <3>3, KeyOrder
  <2>8. \A d \in Elements(delivered), e \in Elements(Tail(l)) : d < e
    <3> SUFFICES ASSUME NEW d \in Elements(delivered),
                        NEW i \in 1..Len(Tail(l))
                 PROVE  d < Tail(l)[i]
      BY DEF Elements
    <3>1. Tail(l)[i] = l[i + 1] /\ i + 1 \in 2..(Len(list) + 1)
      BY <1>1, <2>2, <2>3
    <3>2. \A j \in 1..Len(list) : d < list[j]
      BY DEF ReturnsEarliest, Elements
    <3>3. CASE i + 1 # k + 1
      <4>1. \E j \in 1..Len(list) : l[i + 1] = list[j]
        <5>1. CASE i + 1 <= k
          BY <2>6, <3>1, <5>1
        <5>2. CASE i + 1 > k + 1
          BY <2>6, <3>1, <5>2
        <5> QED
          BY <3>1, <3>3, <5>1, <5>2
      <4> QED
        BY <3>1, <3>2, <4>1
    <3>4. CASE i + 1 = k + 1
      <4>1. Head(l) = list[1] /\ 1 \in 1..Len(list)
        BY <1>1, <2>3, <2>6, <3>1, <3>4
      <4>2. d < Head(l) /\ Head(l) < Tail(l)[i]
        BY <2>7, <3>2, <4>1 DEF Elements
      <4>3. d \in Int /\ Head(l) \in Int /\ Tail(l)[i] \in Int
        <5>1. \A x \in Known : x \in Int
          BY ReorderAssumption DEF Known, Packets, Dummy
        <5>2. d \in Known
          BY <1>1 DEF Elements
        <5>3. Head(l) \in Known /\ Tail(l)[i] \in Known
          BY <1>1, <2>3, <4>1
        <5> QED
          BY <5>1, <5>2, <5>3
      <4> QED
        BY <4>2, <4>3
    <3> QED
      BY <3>3, <3>4
  <2>9. Elements(delivered') = Elements(delivered) \union {Head(l)}
    <3>1. /\ Len(delivered) \in Nat /\ Len(delivered') = Len(delivered) + 1
          /\ delivered'[Len(delivered) + 1] = Head(l)
          /\ \A i \in 1..Len(delivered) : delivered'[i] = delivered[i]
      BY <1>1, <2>1
    <3>2. \A i \in 1..(Len(delivered) + 1) :
            i \in 1..Len(delivered) \/ i = Len(delivered) + 1
      BY <3>1
    <3>3. /\ \A i \in 1..Len(delivered) : i \in 1..(Len(delivered) + 1)
          /\ Len(delivered) + 1 \in 1..(Len(delivered) + 1)
      BY <3>1
    <3> QED
      BY <3>1, <3>2, <3>3 DEF Elements
  <2>10. ReturnsEarliest'
    <3>1. \A d \in Elements(delivered'), e \in Elements(list') : d < e
      BY <2>1, <2>7, <2>8, <2>9
    <3> QED
      BY <3>1 DEF ReturnsEarliest, Elements
  <2> QED
    BY <2>4, <2>10
<1> QED
  BY <1>3, <1>4

(* Nothing has come out at first, and every step keeps the order. *)
LEMMA EarliestInit == Init => Full /\ ReturnsEarliest
BY DEF Init, Full, ReturnsEarliest, Elements

(* Every step returns the earliest packet only. *)
LEMMA EarliestNext ==
  ASSUME NoWrap
  PROVE  TypeOK /\ ListSound /\ Full /\ ReturnsEarliest /\ [Next]_vars =>
           Full' /\ ReturnsEarliest'
<1> SUFFICES ASSUME TypeOK, ListSound, Full, ReturnsEarliest, [Next]_vars
             PROVE  Full' /\ ReturnsEarliest'
  OBVIOUS
<1>1. CASE UNCHANGED <<list, delivered>>
  BY <1>1 DEF Full, ReturnsEarliest, Elements
<1>2. CASE ReceiveFirst
  <2>1. list' = <<Dummy>> /\ delivered' = delivered
    BY <1>2, ReorderAssumption DEF ReceiveFirst, Return
  <2>2. delivered = <<>>
    BY <1>2, ReorderAssumption DEF ReceiveFirst, Full
  <2> QED
    BY <2>1, <2>2 DEF Full, ReturnsEarliest, Elements
<1>3. CASE ReceiveNext
  <2>1. PICK i \in 1..Len(net) :
          Arrive(i) /\ \E l \in Insert(net[i].seq) : Return(l)
    BY <1>3 DEF ReceiveNext
  <2>2. net[i].seq \in Packets
    BY <2>1, ArriveType
  <2> QED
    BY <1>3, <2>1, <2>2, EarliestReturn, NoWrap DEF ReceiveNext
<1> QED
  BY <1>1, <1>2, <1>3
  DEF Next, Send, Lose, Duplicate, Done, vars

(* As long as the numbers compared do not wrap, a packet that comes out    *)
(* was sent before every packet still in the list, whatever the network    *)
(* does.                                                                   *)
THEOREM Earliest ==
  ASSUME NoWrap
  PROVE  Spec => []ReturnsEarliest
BY EarliestInit, EarliestNext, SoundInit, SoundNext, PTL DEF Spec

----------------------------------------------------------------------------
(* How far behind a datagram can be.                                       *)

(* The network keeps the order of sending, and counts for each datagram at *)
(* least the packets received that were sent after it.                     *)
NetInv ==
  /\ \A p \in received : p < Start + sent
  /\ \A i \in 1..Len(net) : net[i].seq < Start + sent
  /\ \A i, j \in 1..Len(net) : i < j => net[i].seq <= net[j].seq
  /\ \A i \in 1..Len(net) :
       Cardinality({p \in received : p > net[i].seq}) <= net[i].passed

(* What came out or is in the list has been received, unless it was never  *)
(* parsed; nothing is received before the list has a packet; and all but   *)
(* one of the packets received are accounted for.                          *)
KeptInv ==
  /\ Elements(delivered) \union Elements(list) \subseteq received \union {Dummy}
  /\ list = <<>> => received = {}
  /\ \E x : {p \in received : Key(p) # 0}
              \ (Elements(delivered) \union Elements(list)) \subseteq {x}

(* The packets received are finitely many, and a number grows their count  *)
(* by one at most.                                                         *)
LEMMA CountType ==
  ASSUME NEW S \in SUBSET Packets, NEW s
  PROVE  /\ IsFiniteSet({p \in S : p > s})
         /\ Cardinality({p \in S : p > s}) \in Nat
<1>1. IsFiniteSet(Packets)
  BY FS_Interval, ReorderAssumption DEF Packets
<1>2. IsFiniteSet({p \in S : p > s})
  BY <1>1, FS_Subset
<1> QED
  BY <1>2, FS_CardinalityType

(* Counting one element more. *)
LEMMA CountAdd ==
  ASSUME NEW S \in SUBSET Packets, NEW s, NEW x \in Packets
  PROVE  /\ Cardinality({p \in S \union {x} : p > s})
              <= Cardinality({p \in S : p > s}) + 1
         /\ ~(x > s) => {p \in S \union {x} : p > s} = {p \in S : p > s}
<1> DEFINE T == {p \in S : p > s}
<1>1. IsFiniteSet(T) /\ Cardinality(T) \in Nat
  BY CountType
<1>2. CASE x > s
  <2>1. {p \in S \union {x} : p > s} = T \union {x}
    BY <1>2
  <2> HIDE DEF T
  <2>2. Cardinality(T \union {x}) <= Cardinality(T) + 1
    <3>1. Cardinality(T \union {x}) =
            IF x \in T THEN Cardinality(T) ELSE Cardinality(T) + 1
      BY <1>1, FS_AddElement
    <3> QED
      BY <1>1, <3>1
  <2> QED
    BY <1>2, <2>1, <2>2 DEF T
<1>3. CASE ~(x > s)
  <2>1. {p \in S \union {x} : p > s} = T
    BY <1>3
  <2> HIDE DEF T
  <2>2. Cardinality(T) <= Cardinality(T) + 1
    BY <1>1
  <2> QED
    BY <2>1, <2>2 DEF T
<1> QED
  BY <1>2, <1>3

(* Nothing has been overtaken at first. *)
LEMMA NetInit == Init => NetInv
BY DEF Init, NetInv

(* An arrival is counted by every datagram it overtakes, and those behind  *)
(* it were not sent before it.                                             *)
LEMMA NetArrive ==
  ASSUME TypeOK, NetInv, NEW i \in 1..Len(net), Arrive(i), UNCHANGED sent,
         received' = received \union {net[i].seq}
  PROVE  NetInv'
<1> DEFINE s == net[i].seq
           n == Len(net)
<1>0. /\ n \in Nat /\ n - 1 \in Nat /\ sent \in Nat /\ Start \in Nat
      /\ received \in SUBSET Packets
      /\ \A j \in 1..n : /\ net[j] \in Datagram /\ net[j].seq \in Packets
                         /\ net[j].seq \in Int /\ net[j].passed \in Nat
  <2>1. net \in Seq(Datagram)
    BY DEF TypeOK
  <2>2. \A j \in 1..n : net[j] \in Datagram
    BY <2>1
  <2>3. \A j \in 1..n : net[j].seq \in Packets /\ net[j].passed \in Nat
    BY <2>2, ReorderAssumption DEF Datagram
  <2>4. Packets \subseteq Int
    BY ReorderAssumption DEF Packets
  <2>5. n \in Nat /\ n - 1 \in Nat
    BY <2>1
  <2>6. sent \in Nat /\ Start \in Nat /\ received \in SUBSET Packets
    BY ReorderAssumption DEF TypeOK
  <2> HIDE DEF n
  <2> QED
    BY <2>2, <2>3, <2>4, <2>5, <2>6
<1>1. /\ Len(net') = n - 1
      /\ \A j \in 1..(n - 1) :
           /\ j < i => /\ net'[j].seq = net[j].seq
                       /\ net'[j].passed = net[j].passed + 1
           /\ ~(j < i) => net'[j] = net[j + 1]
  <2>1. net' = [j \in 1..(n - 1) |->
                  IF j < i THEN [net[j] EXCEPT !.passed = @ + 1] ELSE net[j + 1]]
    BY DEF Arrive
  <2>2. net' \in Seq(Datagram)
    BY ArriveType
  <2>3. Len(net') = n - 1
    <3> HIDE DEF n
    <3>1. DOMAIN net' = 1..(n - 1)
      BY <2>1
    <3>2. DOMAIN net' = 1..Len(net') /\ Len(net') \in Nat
      BY <2>2
    <3> QED
      BY <1>0, <3>1, <3>2
  <2>4. \A j \in 1..(n - 1) : j < i => net'[j] = [net[j] EXCEPT !.passed = @ + 1]
    BY <2>1
  <2>5. \A j \in 1..(n - 1) : ~(j < i) => net'[j] = net[j + 1]
    BY <2>1
  <2>6. \A j \in 1..(n - 1) : j \in 1..n
    BY <1>0
  <2> QED
    BY <1>0, <2>3, <2>4, <2>5, <2>6 DEF Datagram
<1>2. s \in Packets /\ s < Start + sent
  BY <1>0 DEF NetInv
<1>3. \A p \in received' : p < Start + sent'
  BY <1>2 DEF NetInv
<1> DEFINE Was(j) == IF j < i THEN j ELSE j + 1
<1>4. \A j \in 1..(n - 1) : Was(j) \in 1..n /\ net'[j].seq = net[Was(j)].seq
  BY <1>0, <1>1
<1>5. \A j \in 1..Len(net') : net'[j].seq < Start + sent'
  BY <1>1, <1>4 DEF NetInv
<1>6. \A j, k \in 1..Len(net') : j < k => net'[j].seq <= net'[k].seq
  <2> SUFFICES ASSUME NEW j \in 1..Len(net'), NEW k \in 1..Len(net'), j < k
               PROVE  net'[j].seq <= net'[k].seq
    OBVIOUS
  <2>1. /\ Was(j) < Was(k) /\ Was(j) \in 1..n /\ Was(k) \in 1..n
        /\ net'[j].seq = net[Was(j)].seq /\ net'[k].seq = net[Was(k)].seq
    BY <1>0, <1>1, <1>4
  <2> HIDE DEF Was
  <2> QED
    BY <2>1 DEF NetInv
<1>7. ASSUME NEW j \in 1..Len(net')
      PROVE  Cardinality({p \in received' : p > net'[j].seq}) <= net'[j].passed
  <2> DEFINE a == net'[j].seq
  <2>0. received' = received \union {s}
    OBVIOUS
  <2>1. /\ Cardinality({p \in received : p > a}) \in Nat
        /\ Cardinality({p \in received' : p > a})
             <= Cardinality({p \in received : p > a}) + 1
        /\ ~(s > a) => {p \in received' : p > a} = {p \in received : p > a}
    BY <1>0, <1>2, <2>0, CountType, CountAdd
  <2>2. Cardinality({p \in received' : p > a}) \in Nat
    <3>1. received' \in SUBSET Packets
      BY <1>0, <1>2, <2>0
    <3> QED
      BY <3>1, CountType
  <2>3. CASE j < i
    <3>1. /\ j \in 1..n /\ a = net[j].seq /\ net'[j].passed = net[j].passed + 1
      <4>1. j \in 1..(n - 1) /\ j \in 1..n
        BY <1>0, <1>1
      <4> HIDE DEF n
      <4> QED
        BY <1>1, <2>3, <4>1
    <3>2. Cardinality({p \in received : p > a}) <= net[j].passed
      BY <3>1 DEF NetInv
    <3> HIDE DEF a
    <3>3. net[j].passed \in Nat
      BY <1>0, <3>1
    <3> QED
      BY <2>1, <2>2, <3>1, <3>2, <3>3 DEF a
  <2>4. CASE ~(j < i)
    <3>1. j + 1 \in 1..n /\ i < j + 1 /\ net'[j] = net[j + 1]
      BY <1>0, <1>1, <2>4
    <3>2. s <= a
      BY <3>1 DEF NetInv
    <3>3. ~(s > a)
      BY <1>0, <3>1, <3>2
    <3>4. Cardinality({p \in received : p > net[j + 1].seq}) <= net[j + 1].passed
      BY <3>1 DEF NetInv
    <3> QED
      BY <2>1, <3>1, <3>3, <3>4
  <2> QED
    BY <2>3, <2>4
<1> QED
  BY <1>3, <1>5, <1>6, <1>7 DEF NetInv

(* Sending, losing, duplicating and receiving. *)
LEMMA NetNext == TypeOK /\ NetInv /\ [Next]_vars => NetInv'
<1> SUFFICES ASSUME TypeOK, NetInv, [Next]_vars PROVE NetInv'
  OBVIOUS
<1>0. /\ net \in Seq(Datagram) /\ Len(net) \in Nat /\ sent \in Nat /\ Start \in Nat
      /\ received \in SUBSET Packets
      /\ \A j \in 1..Len(net) : net[j].seq \in Int /\ net[j].passed \in Nat
      /\ \A p \in received : p \in Int
  <2>1. Packets \subseteq Int
    BY ReorderAssumption DEF Packets
  <2>2. net \in Seq(Datagram)
    BY DEF TypeOK
  <2>3. \A j \in 1..Len(net) : net[j] \in Datagram
    BY <2>2
  <2>4. ASSUME NEW j \in 1..Len(net)
        PROVE  net[j].seq \in Int /\ net[j].passed \in Nat
    <3>1. net[j].seq \in Packets /\ net[j].passed \in 0..Displace
      BY <2>3 DEF Datagram
    <3>2. net[j].passed \in Nat
      BY <3>1
    <3>3. net[j].seq \in Int
      BY <2>1, <3>1
    <3> QED
      BY <3>2, <3>3
  <2>5. sent \in Nat /\ Start \in Nat /\ received \in SUBSET Packets
    BY ReorderAssumption DEF TypeOK
  <2> QED
    BY <2>1, <2>2, <2>4, <2>5
<1>1. CASE UNCHANGED <<net, sent, received>>
  BY <1>1 DEF NetInv
<1>2. CASE Send
  <2> DEFINE e == [seq |-> Start + sent, passed |-> 0]
             n == Len(net)
  <2>1. net' = Append(net, e) /\ sent' = sent + 1 /\ received' = received
    BY <1>2 DEF Send
  <2>2. /\ Len(net') = n + 1 /\ net'[n + 1] = e
        /\ \A j \in 1..n : net'[j] = net[j]
    BY <1>0, <2>1
  <2>3. e.seq = Start + sent /\ e.passed = 0
    OBVIOUS
  <2>4. {p \in received : p > Start + sent} = {}
    BY <1>0 DEF NetInv
  <2>5. Cardinality({p \in received : p > e.seq}) = 0
    BY <2>3, <2>4, FS_EmptySet
  <2> HIDE DEF e, n
  <2>6. \A j \in 1..(n + 1) : j \in 1..n \/ j = n + 1
    BY <1>0 DEF n
  <2>7. \A p \in received' : p < Start + sent'
    BY <1>0, <2>1 DEF NetInv
  <2>8. \A j \in 1..Len(net') : net'[j].seq < Start + sent'
    BY <1>0, <2>1, <2>2, <2>3, <2>6 DEF NetInv, n
  <2>9. \A j, k \in 1..Len(net') : j < k => net'[j].seq <= net'[k].seq
    <3> SUFFICES ASSUME NEW j \in 1..Len(net'), NEW k \in 1..Len(net'), j < k
                 PROVE  net'[j].seq <= net'[k].seq
      OBVIOUS
    <3>1. j \in 1..n /\ net'[j] = net[j]
      BY <1>0, <2>2 DEF n
    <3>2. CASE k \in 1..n
      BY <2>2, <3>1, <3>2 DEF NetInv, n
    <3>3. CASE k = n + 1
      <4>1. net'[k] = e /\ net[j].seq < Start + sent /\ net[j].seq \in Int
        BY <1>0, <2>2, <3>1, <3>3 DEF NetInv, n
      <4> QED
        BY <1>0, <2>3, <3>1, <4>1
    <3> QED
      BY <2>2, <2>6, <3>2, <3>3
  <2>10. \A j \in 1..Len(net') :
           Cardinality({p \in received' : p > net'[j].seq}) <= net'[j].passed
    <3> SUFFICES ASSUME NEW j \in 1..Len(net')
                 PROVE  Cardinality({p \in received : p > net'[j].seq}) <= net'[j].passed
      BY <2>1
    <3>1. CASE j \in 1..n
      BY <2>2, <3>1 DEF NetInv, n
    <3>2. CASE j = n + 1
      <4>1. net'[j] = e
        BY <2>2, <3>2
      <4>2. Cardinality({p \in received : p > e.seq}) <= e.passed
        BY <2>3, <2>5
      <4> QED
        BY <4>1, <4>2
    <3> QED
      BY <2>2, <2>6, <3>1, <3>2
  <2> QED
    BY <2>7, <2>8, <2>9, <2>10 DEF NetInv
<1>3. ASSUME UNCHANGED <<sent, received>>, Len(net') \in Nat,
             NEW from \in [1..Len(net') -> 1..Len(net)],
             \A j \in 1..Len(net') : net'[j] = net[from[j]],
             \A j, k \in 1..Len(net') : j < k => from[j] <= from[k]
      PROVE  NetInv'
  <2>1. \A j, k \in 1..Len(net') : j < k => net'[j].seq <= net'[k].seq
    <3> SUFFICES ASSUME NEW j \in 1..Len(net'), NEW k \in 1..Len(net'), j < k
                 PROVE  net'[j].seq <= net'[k].seq
      OBVIOUS
    <3>1. /\ from[j] \in 1..Len(net) /\ from[k] \in 1..Len(net) /\ from[j] <= from[k]
          /\ net'[j] = net[from[j]] /\ net'[k] = net[from[k]]
      BY <1>3
    <3>2. CASE from[j] = from[k]
      BY <1>0, <3>1, <3>2
    <3>3. CASE from[j] < from[k]
      BY <3>1, <3>3 DEF NetInv
    <3> QED
      BY <3>1, <3>2, <3>3
  <2>2. \A j \in 1..Len(net') :
          /\ net'[j].seq < Start + sent
          /\ Cardinality({p \in received : p > net'[j].seq}) <= net'[j].passed
    <3> SUFFICES ASSUME NEW j \in 1..Len(net')
                 PROVE  /\ net'[j].seq < Start + sent
                        /\ Cardinality({p \in received : p > net'[j].seq})
                             <= net'[j].passed
      OBVIOUS
    <3>1. from[j] \in 1..Len(net) /\ net'[j] = net[from[j]]
      BY <1>3
    <3> QED
      BY <3>1 DEF NetInv
  <2> QED
    BY <1>3, <2>1, <2>2 DEF NetInv
<1>4. CASE Lose
  <2>1. PICK i \in 1..Len(net) : net' = Without(net, i)
    BY <1>4 DEF Lose
  <2> DEFINE from == [j \in 1..Len(net') |-> IF j < i THEN j ELSE j + 1]
  <2>2. Len(net') = Len(net) - 1
    BY <1>0, <2>1, WithoutType
  <2>3. \A j \in 1..(Len(net) - 1) : net'[j] = IF j < i THEN net[j] ELSE net[j + 1]
    BY <2>1 DEF Without
  <2>4. /\ from \in [1..Len(net') -> 1..Len(net)]
        /\ \A j \in 1..Len(net') : net'[j] = net[from[j]]
    BY <1>0, <2>2, <2>3
  <2>5. \A j, k \in 1..Len(net') : j < k => from[j] <= from[k]
    BY <1>0, <2>2
  <2>6. Len(net') \in Nat /\ UNCHANGED <<sent, received>>
    BY <1>0, <1>4, <2>2 DEF Lose
  <2> HIDE DEF from
  <2> QED
    BY <1>3, <2>4, <2>5, <2>6
<1>5. CASE Duplicate
  <2>1. PICK i \in 1..Len(net) : net' = InsertAfter(net, i, net[i])
    BY <1>5 DEF Duplicate
  <2> DEFINE from == [j \in 1..Len(net') |-> IF j <= i THEN j ELSE j - 1]
  <2>2. /\ Len(net') = Len(net) + 1
        /\ \A j \in 1..(Len(net) + 1) :
             net'[j] = IF j <= i THEN net[j] ELSE IF j = i + 1 THEN net[i] ELSE net[j - 1]
    <3> DEFINE e == net[i]
    <3>1. i \in 0..Len(net) /\ e \in Datagram /\ net' = InsertAfter(net, i, e)
      BY <1>0, <2>1
    <3> HIDE DEF e
    <3>2. Len(net') = Len(net) + 1
      BY <1>0, <3>1, InsertAfterType
    <3>3. \A j \in 1..(Len(net) + 1) :
            net'[j] = IF j <= i THEN net[j] ELSE IF j = i + 1 THEN e ELSE net[j - 1]
      BY <3>1 DEF InsertAfter
    <3> QED
      BY <3>2, <3>3 DEF e
  <2>3. /\ from \in [1..Len(net') -> 1..Len(net)]
        /\ \A j \in 1..Len(net') : net'[j] = net[from[j]]
    BY <1>0, <2>2
  <2>4. \A j, k \in 1..Len(net') : j < k => from[j] <= from[k]
    BY <1>0, <2>2
  <2>5. Len(net') \in Nat /\ UNCHANGED <<sent, received>>
    BY <1>0, <1>5, <2>2 DEF Duplicate
  <2> HIDE DEF from
  <2> QED
    BY <1>3, <2>3, <2>4, <2>5
<1>6. CASE ReceiveFirst \/ ReceiveNext
  <2>1. UNCHANGED sent
    BY <1>6 DEF ReceiveFirst, ReceiveNext
  <2>2. \/ UNCHANGED <<net, received>>
        \/ \E i \in 1..Len(net) :
             Arrive(i) /\ received' = received \union {net[i].seq}
    BY <1>6 DEF ReceiveFirst, ReceiveNext
  <2> QED
    BY <1>1, <2>1, <2>2, NetArrive
<1> QED
  BY <1>1, <1>2, <1>4, <1>5, <1>6 DEF Next, Done, vars

----------------------------------------------------------------------------
(* What comes out.                                                         *)

(* Appending adds one element. *)
LEMMA AppendElements ==
  ASSUME NEW q \in Seq(Known), NEW x \in Known
  PROVE  Elements(Append(q, x)) = Elements(q) \union {x}
<1> DEFINE n == Len(q)
           r == Append(q, x)
<1>1. /\ n \in Nat /\ Len(r) = n + 1 /\ r[n + 1] = x
      /\ \A i \in 1..n : r[i] = q[i]
  OBVIOUS
<1>2. \A i \in 1..(n + 1) : i \in 1..n \/ i = n + 1
  BY <1>1
<1>3. (\A i \in 1..n : i \in 1..(n + 1)) /\ n + 1 \in 1..(n + 1)
  BY <1>1
<1> HIDE DEF n, r
<1>4. Elements(r) \subseteq Elements(q) \union {x}
  BY <1>1, <1>2 DEF Elements, n
<1>5. Elements(q) \union {x} \subseteq Elements(r)
  BY <1>1, <1>3 DEF Elements, n
<1> QED
  BY <1>4, <1>5 DEF r

(* The first element and the others. *)
LEMMA TailElements ==
  ASSUME NEW q \in Seq(Known), q # <<>>
  PROVE  Elements(q) = Elements(Tail(q)) \union {Head(q)}
<1> DEFINE n == Len(q)
           r == Tail(q)
<1>1. /\ n \in Nat \ {0} /\ Len(r) = n - 1 /\ Head(q) = q[1]
      /\ \A i \in 1..(n - 1) : r[i] = q[i + 1]
  OBVIOUS
<1>2. \A i \in 1..n : i = 1 \/ (i - 1 \in 1..(n - 1) /\ q[i] = r[i - 1])
  BY <1>1
<1>3. (\A i \in 1..(n - 1) : i + 1 \in 1..n) /\ 1 \in 1..n
  BY <1>1
<1> HIDE DEF n, r
<1>4. Elements(q) \subseteq Elements(r) \union {Head(q)}
  BY <1>1, <1>2 DEF Elements, n
<1>5. Elements(r) \union {Head(q)} \subseteq Elements(q)
  BY <1>1, <1>3 DEF Elements, n
<1> QED
  BY <1>4, <1>5 DEF r

(* What an insertion does to the elements of the list: the packet is one   *)
(* of them now, unless its number was there.                               *)
LEMMA InsertElements ==
  ASSUME list \in Seq(Known), NEW s \in Known, NEW l \in Insert(s)
  PROVE  \/ l = list /\ \E i \in 1..Len(list) : Key(list[i]) = Key(s)
         \/ Elements(l) = Elements(list) \union {s}
<1>0. Len(list) \in Nat
  OBVIOUS
<1>1. PICK k \in 0..Len(list) :
        l = IF k > 0 /\ Key(list[k]) = Key(s) THEN list ELSE InsertAfter(list, k, s)
  BY DEF Insert
<1>2. CASE k > 0 /\ Key(list[k]) = Key(s)
  BY <1>0, <1>1, <1>2
<1>3. CASE ~(k > 0 /\ Key(list[k]) = Key(s))
  <2> DEFINE n == Len(list)
  <2>1. l = InsertAfter(list, k, s)
    BY <1>1, <1>3
  <2>2. Len(l) = n + 1
    BY <2>1, InsertAfterType
  <2>3. \A j \in 1..(n + 1) :
          l[j] = IF j <= k THEN list[j] ELSE IF j = k + 1 THEN s ELSE list[j - 1]
    BY <2>1 DEF InsertAfter
  <2>4. Elements(l) \subseteq Elements(list) \union {s}
    <3> SUFFICES ASSUME NEW j \in 1..(n + 1)
                 PROVE  l[j] = s \/ \E i \in 1..n : l[j] = list[i]
      BY <2>2 DEF Elements
    <3>1. CASE j <= k
      BY <1>0, <2>3, <3>1
    <3>2. CASE j = k + 1
      BY <1>0, <2>3, <3>2
    <3>3. CASE j > k + 1
      <4>1. l[j] = list[j - 1] /\ j - 1 \in 1..n
        BY <1>0, <2>3, <3>3
      <4> QED
        BY <4>1
    <3> QED
      BY <1>0, <3>1, <3>2, <3>3
  <2>5. s \in Elements(l)
    <3>1. k + 1 \in 1..(n + 1) /\ l[k + 1] = s
      BY <1>0, <2>3
    <3> QED
      BY <2>2, <3>1 DEF Elements
  <2>6. Elements(list) \subseteq Elements(l)
    <3> SUFFICES ASSUME NEW i \in 1..n PROVE \E j \in 1..(n + 1) : l[j] = list[i]
      BY <2>2 DEF Elements
    <3>1. CASE i <= k
      BY <1>0, <2>3, <3>1
    <3>2. CASE i > k
      <4>1. i + 1 \in 1..(n + 1) /\ l[i + 1] = list[i]
        BY <1>0, <2>3, <3>2
      <4> QED
        BY <4>1
    <3> QED
      BY <1>0, <3>1, <3>2
  <2> QED
    BY <2>4, <2>5, <2>6
<1> QED
  BY <1>2, <1>3

(* Returning moves a packet from the list to what came out. *)
LEMMA ReturnElements ==
  ASSUME NEW l \in Seq(Known), l # <<>>, delivered \in Seq(Known), Return(l)
  PROVE  /\ Elements(delivered') \union Elements(list')
              = Elements(delivered) \union Elements(l)
         /\ Len(l) > ReorderLen => Elements(delivered') = Elements(delivered) \union {Head(l)}
<1>1. CASE Len(l) > ReorderLen
  <2>1. list' = Tail(l) /\ delivered' = Append(delivered, Head(l))
    BY <1>1 DEF Return
  <2>2. Head(l) \in Known
    OBVIOUS
  <2>3. Elements(delivered') = Elements(delivered) \union {Head(l)}
    BY <2>1, <2>2, AppendElements
  <2> QED
    BY <2>1, <2>3, TailElements
<1>2. CASE ~(Len(l) > ReorderLen)
  BY <1>2 DEF Return
<1> QED
  BY <1>1, <1>2

(* Nothing is received at first. *)
LEMMA KeptInit == Init => KeptInv
BY DEF Init, KeptInv, Elements

(* Every step keeps the packets received in the list or passes them on. *)
LEMMA KeptNext ==
  ASSUME NoWrap
  PROVE  TypeOK /\ ListSound /\ Full /\ KeptInv /\ [Next]_vars => KeptInv'
<1> SUFFICES ASSUME TypeOK, ListSound, Full, KeptInv, [Next]_vars PROVE KeptInv'
  OBVIOUS
<1>0. list \in Seq(Known) /\ delivered \in Seq(Known) /\ ReorderLen \in Nat \ {0}
  BY ReorderAssumption DEF TypeOK
<1> DEFINE Out  == Elements(delivered) \union Elements(list)
           OutN == Elements(delivered') \union Elements(list')
<1>1. CASE UNCHANGED <<list, delivered, received>>
  BY <1>1 DEF KeptInv
<1>2. CASE ReceiveFirst
  <2>1. list = <<>> /\ received = {} /\ delivered = <<>>
    BY <1>0, <1>2 DEF ReceiveFirst, KeptInv, Full
  <2>2. list' = <<Dummy>> /\ delivered' = delivered
    BY <1>0, <1>2 DEF ReceiveFirst, Return
  <2>3. OutN = {Dummy} /\ list' # <<>>
    BY <2>1, <2>2 DEF Elements
  <2>4. \E x : received' \subseteq {x}
    <3>1. received' = {} \/ \E i \in 1..Len(net) : received' = {net[i].seq}
      BY <1>2, <2>1 DEF ReceiveFirst
    <3> QED
      BY <3>1
  <2> HIDE DEF OutN
  <2>5. /\ OutN \subseteq received' \union {Dummy}
        /\ list' = <<>> => received' = {}
        /\ \E x : {p \in received' : Key(p) # 0} \ OutN \subseteq {x}
    BY <2>3, <2>4
  <2> QED
    BY <2>5 DEF KeptInv, OutN
<1>3. CASE ReceiveNext
  <2>1. PICK i \in 1..Len(net) :
          /\ Arrive(i) /\ received' = received \union {net[i].seq}
          /\ \E l \in Insert(net[i].seq) : Return(l)
    BY <1>3 DEF ReceiveNext
  <2> DEFINE s == net[i].seq
  <2>2. s \in Packets /\ s \in Known
    BY <2>1, ArriveType DEF Known
  <2>3. PICK l \in Insert(s) : Return(l)
    BY <2>1
  <2>4. l \in Seq(Known)
    BY <1>0, <2>2, <2>3, InsertSorted DEF ListSound, Sorted
  <2> HIDE DEF s
  <2>5. \/ l = list /\ \E j \in 1..Len(list) : Key(list[j]) = Key(s)
        \/ Elements(l) = Elements(list) \union {s}
    BY <1>0, <2>2, <2>3, InsertElements
  <2>6. l # <<>>
    <3>1. CASE l = list
      BY <1>3, <3>1 DEF ReceiveNext
    <3>2. CASE Elements(l) = Elements(list) \union {s}
      <4>1. s \in Elements(l)
        BY <3>2
      <4> QED
        BY <4>1 DEF Elements
    <3> QED
      BY <2>5, <3>1, <3>2
  <2>7. OutN = Elements(delivered) \union Elements(l)
    BY <1>0, <2>3, <2>4, <2>6, ReturnElements
  <2>8. /\ Elements(list) \subseteq Elements(l)
        /\ Elements(l) \subseteq Elements(list) \union {s}
        /\ Key(s) # 0 => s \in Elements(l)
    <3>1. ASSUME l = list, NEW j \in 1..Len(list), Key(list[j]) = Key(s), Key(s) # 0
          PROVE  s \in Elements(l)
      <4>1. list[j] \in Known /\ list[j] # Dummy
        BY <1>0, <3>1 DEF Key
      <4>2. list[j] \in Packets
        BY <4>1 DEF Known
      <4>3. list[j] = s
        BY <2>2, <3>1, <4>2, KeyId
      <4> QED
        BY <3>1, <4>3 DEF Elements
    <3> QED
      BY <2>5, <3>1
  <2>9. list' # <<>>
    <3>1. CASE Len(l) > ReorderLen
      <4>1. list' = Tail(l) /\ Len(Tail(l)) = Len(l) - 1 /\ Len(l) \in Nat
        BY <2>3, <2>4, <2>6, <3>1 DEF Return
      <4>2. Len(l) - 1 # 0
        BY <1>0, <3>1, <4>1
      <4>3. Len(<<>>) = 0
        OBVIOUS
      <4> QED
        BY <4>1, <4>2, <4>3
    <3>2. CASE ~(Len(l) > ReorderLen)
      BY <2>3, <2>6, <3>2 DEF Return
    <3> QED
      BY <3>1, <3>2
  <2>10. received' = received \union {s}
    BY <2>1 DEF s
  <2>11. PICK x : {p \in received : Key(p) # 0} \ Out \subseteq {x}
    BY DEF KeptInv
  <2>12. Out \subseteq received \union {Dummy}
    BY DEF KeptInv
  <2>13. OutN \subseteq received' \union {Dummy}
    BY <2>7, <2>8, <2>10, <2>12
  <2>14. {p \in received' : Key(p) # 0} \ OutN \subseteq {x}
    <3> SUFFICES ASSUME NEW p \in received', Key(p) # 0, p \notin OutN PROVE p = x
      OBVIOUS
    <3> HIDE DEF OutN
    <3>1. p # s
      BY <2>7, <2>8
    <3>2. p \in received /\ p \notin Out
      BY <2>7, <2>8, <2>10, <3>1
    <3> QED
      BY <2>11, <3>2
  <2> QED
    BY <2>9, <2>13, <2>14 DEF KeptInv
<1> QED
  BY <1>1, <1>2, <1>3 DEF Next, Send, Lose, Duplicate, Done, vars

----------------------------------------------------------------------------
(* Packets come out in order as long as the network overtakes one by no    *)
(* more than reorderLen others.                                            *)

(* A datagram that would go to the front of a full list after a later      *)
(* packet has come out was overtaken by that packet and by all those in    *)
(* the list: more of them than the network lets pass.                      *)
LEMMA NotOvertaken ==
  ASSUME NoWrap, Displace <= ReorderLen,
         TypeOK, ListSound, Full, ReturnsEarliest, NetInv, KeptInv,
         NEW n \in 1..Len(net), list # <<>>, StopsAt(0, net[n].seq),
         NEW d \in Elements(delivered)
  PROVE  d <= net[n].seq
<1> DEFINE s == net[n].seq
           T == {p \in received : p > s}
<1>1. /\ list \in Seq(Known) /\ delivered \in Seq(Known)
      /\ received \in SUBSET Packets /\ net[n] \in Datagram
  BY DEF TypeOK
<1>2. s \in Packets /\ net[n].passed \in 0..Displace
  BY <1>1 DEF Datagram
<1>3. /\ \A x \in Known : x \in Int
      /\ \A x \in Packets : x \in Nat
  BY ReorderAssumption DEF Known, Packets, Dummy
<1>4. d \in Known /\ delivered # <<>>
  BY <1>1 DEF Elements
<1>5. Len(list) = ReorderLen /\ ReorderLen \in Nat \ {0} /\ Displace \in Nat
  BY <1>4, ReorderAssumption DEF Full
<1> SUFFICES ASSUME d > s PROVE FALSE
  BY <1>2, <1>3, <1>4
<1>6. \A j \in 1..ReorderLen : list[j] \in T /\ d < list[j]
  <2> SUFFICES ASSUME NEW j \in 1..ReorderLen PROVE list[j] \in T /\ d < list[j]
    OBVIOUS
  <2>1. list[j] \in Known /\ list[j] \in Elements(list) /\ s \in Known
    BY <1>1, <1>2, <1>5 DEF Elements, Known
  <2>2. Key(s) < Key(list[j])
    <3>1. j \in (0 + 1)..Len(list)
      BY <1>5
    <3>2. Key(list[j]) > Key(s)
      BY <3>1 DEF StopsAt
    <3> QED
      BY <2>1, <3>2, KeyType
  <2>3. s < list[j]
    BY <2>1, <2>2, KeyOrder
  <2>4. list[j] # Dummy
    BY <1>2, <1>3, <2>3 DEF Dummy
  <2>5. list[j] \in received
    BY <2>1, <2>4 DEF KeptInv
  <2> QED
    BY <1>2, <1>3, <2>1, <2>3, <2>5 DEF ReturnsEarliest
<1>7. d \in T
  <2>1. d # Dummy
    BY <1>2, <1>3, <1>4 DEF Dummy
  <2> QED
    BY <2>1 DEF KeptInv
<1>8. IsFiniteSet(T) /\ Cardinality(T) \in Nat
  BY <1>1, CountType
<1>9. Cardinality(T) < ReorderLen + 1
  <2>1. Cardinality(T) <= net[n].passed
    BY DEF NetInv
  <2> QED
    BY <1>2, <1>5, <1>8, <2>1
<1> DEFINE D == 1..(ReorderLen + 1)
           f == [j \in D |-> IF j <= ReorderLen THEN list[j] ELSE d]
<1>10. IsFiniteSet(D) /\ Cardinality(D) = ReorderLen + 1
  <2>1. /\ IsFiniteSet(D)
        /\ Cardinality(D) = IF 1 > ReorderLen + 1 THEN 0 ELSE ReorderLen + 1 - 1 + 1
    BY <1>5, FS_Interval
  <2> QED
    BY <1>5, <2>1
<1>11. f \in [D -> T]
  <2>1. \A j \in D : j <= ReorderLen => j \in 1..ReorderLen
    BY <1>5
  <2> HIDE DEF T
  <2> QED
    BY <1>6, <1>7, <2>1
<1>12. \A x, y \in D : x < y => f[x] # f[y]
  <2> SUFFICES ASSUME NEW x \in D, NEW y \in D, x < y PROVE f[x] # f[y]
    OBVIOUS
  <2>1. x \in 1..ReorderLen /\ f[x] = list[x] /\ list[x] \in Known
    BY <1>1, <1>5
  <2>2. CASE y <= ReorderLen
    <3>1. y \in 1..ReorderLen /\ f[y] = list[y] /\ list[y] \in Known
      BY <1>1, <1>5, <2>2
    <3>2. Key(list[x]) < Key(list[y])
      BY <1>5, <2>1, <3>1 DEF ListSound
    <3>3. list[x] < list[y]
      BY <2>1, <3>1, <3>2, KeyOrder
    <3> QED
      BY <1>3, <2>1, <3>1, <3>3
  <2>3. CASE ~(y <= ReorderLen)
    <3>1. f[y] = d
      BY <2>3
    <3>2. d < list[x]
      BY <1>6, <2>1
    <3> QED
      BY <1>3, <1>4, <2>1, <3>1, <3>2
  <2> QED
    BY <2>2, <2>3
<1>13. \E x, y \in D : x # y /\ f[x] = f[y]
  <2> HIDE DEF D, T, f
  <2> QED
    BY <1>8, <1>9, <1>10, <1>11, FS_PigeonHole
<1>14. \A x, y \in D : x # y => x < y \/ y < x
  BY <1>5
<1> HIDE DEF D, f
<1> QED
  BY <1>12, <1>13, <1>14

(* So what comes out does so after everything sent before it. *)
LEMMA OrderNext ==
  ASSUME NoWrap, Displace <= ReorderLen
  PROVE  /\ TypeOK /\ ListSound /\ Full /\ ReturnsEarliest
         /\ NetInv /\ KeptInv /\ InOrder /\ [Next]_vars
         => InOrder'
<1> SUFFICES ASSUME TypeOK, ListSound, Full, ReturnsEarliest, NetInv, KeptInv,
                    InOrder, [Next]_vars
             PROVE  InOrder'
  OBVIOUS
<1>0. list \in Seq(Known) /\ delivered \in Seq(Known) /\ ReorderLen \in Nat \ {0}
  BY ReorderAssumption DEF TypeOK
<1>1. CASE UNCHANGED delivered
  BY <1>1 DEF InOrder
<1>2. CASE ReceiveFirst
  BY <1>0, <1>1, <1>2 DEF ReceiveFirst, Return
<1>3. CASE ReceiveNext
  <2>1. PICK n \in 1..Len(net) :
          Arrive(n) /\ \E l \in Insert(net[n].seq) : Return(l)
    BY <1>3 DEF ReceiveNext
  <2> DEFINE s == net[n].seq
  <2>2. s \in Packets /\ s \in Known
    BY <2>1, ArriveType DEF Known
  <2>3. PICK l \in Insert(s) : Return(l)
    BY <2>1
  <2>4. CASE ~(Len(l) > ReorderLen)
    BY <1>1, <2>3, <2>4 DEF Return
  <2>5. CASE Len(l) > ReorderLen
    <3>0. list # <<>> /\ Len(list) \in Nat \ {0} /\ Len(list) <= ReorderLen
      BY <1>0, <1>3 DEF ReceiveNext, ListSound
    <3>1. delivered' = Append(delivered, Head(l))
      BY <2>3, <2>5 DEF Return
    <3>2. PICK k \in 0..Len(list) :
            StopsAt(k, s) /\ (l = list \/ l = InsertAfter(list, k, s))
      BY DEF Insert
    <3>3. l = InsertAfter(list, k, s)
      BY <1>0, <2>5, <3>0, <3>2
    <3>4. l \in Seq(Known) /\ l[1] = IF 1 <= k THEN list[1] ELSE s
      <4>1. l \in Seq(Known)
        BY <1>0, <2>2, <3>3, InsertAfterType
      <4>2. l[1] = IF 1 <= k THEN list[1] ELSE IF 1 = k + 1 THEN s ELSE list[1 - 1]
        BY <3>0, <3>3 DEF InsertAfter
      <4> QED
        BY <4>1, <4>2
    <3>5. Head(l) = l[1] /\ Head(l) \in Known
      BY <1>0, <2>5, <3>4
    <3>6. \A d \in Elements(delivered) : d <= Head(l)
      <4> SUFFICES ASSUME NEW d \in Elements(delivered) PROVE d <= Head(l)
        OBVIOUS
      <4>1. CASE k > 0
        <5>1. Head(l) = list[1] /\ list[1] \in Elements(list)
          BY <3>0, <3>4, <3>5, <4>1 DEF Elements
        <5>2. d < Head(l)
          BY <5>1 DEF ReturnsEarliest
        <5>3. d \in Known
          BY <1>0 DEF Elements
        <5>4. \A x \in Known : x \in Int
          BY ReorderAssumption DEF Known, Packets, Dummy
        <5> QED
          BY <3>5, <5>2, <5>3, <5>4
      <4>2. CASE k = 0
        <5>1. Head(l) = s /\ StopsAt(0, s)
          BY <3>2, <3>4, <3>5, <4>2
        <5> QED
          BY <3>0, <5>1, NotOvertaken
      <4> QED
        BY <3>0, <4>1, <4>2
    <3>7. /\ Len(delivered) \in Nat /\ Len(delivered') = Len(delivered) + 1
          /\ delivered'[Len(delivered) + 1] = Head(l)
          /\ \A i \in 1..Len(delivered) : delivered'[i] = delivered[i]
      BY <1>0, <3>1, <3>5
    <3>8. \A i, j \in 1..Len(delivered') : i < j => delivered'[i] <= delivered'[j]
      <4> SUFFICES ASSUME NEW i \in 1..Len(delivered'), NEW j \in 1..Len(delivered'), i < j
                   PROVE  delivered'[i] <= delivered'[j]
        OBVIOUS
      <4>1. i \in 1..Len(delivered) /\ (j \in 1..Len(delivered) \/ j = Len(delivered) + 1)
        BY <3>7
      <4>2. delivered[i] \in Elements(delivered)
        BY <4>1 DEF Elements
      <4> QED
        BY <3>6, <3>7, <4>1, <4>2 DEF InOrder
    <3> QED
      BY <3>8 DEF InOrder
  <2> QED
    BY <2>4, <2>5
<1> QED
  BY <1>1, <1>2, <1>3 DEF Next, Send, Lose, Duplicate, Done, vars

(* All but one of the packets received is at most one packet. *)
LEMMA KeptCount == KeptInv => OnlyFirstDropped
<1> SUFFICES ASSUME KeptInv PROVE OnlyFirstDropped
  OBVIOUS
<1> DEFINE S == {p \in received : Key(p) # 0}
                  \ (Elements(delivered) \union Elements(list))
<1>1. PICK x : S \subseteq {x}
  BY DEF KeptInv
<1> HIDE DEF S
<1>2. IsFiniteSet({x}) /\ Cardinality({x}) = 1
  BY FS_Singleton
<1>3. IsFiniteSet(S) /\ Cardinality(S) <= Cardinality({x})
  BY <1>1, <1>2, FS_Subset
<1> QED
  BY <1>2, <1>3 DEF OnlyFirstDropped, S

(* As long as the numbers that are compared do not wrap and the network    *)
(* lets no datagram be overtaken by more than reorderLen others, packets   *)
(* come out of receive_rtp_packet in the order in which they were sent and *)
(* none that arrived is lost in the list, however many are lost on the     *)
(* way, duplicated or late.                                                *)
THEOREM OrderedDelivery ==
  ASSUME NoWrap, Displace <= ReorderLen
  PROVE  Spec => []DeliversInOrder
<1>1. Init => InOrder
  BY DEF Init, InOrder
<1>2. InOrder /\ KeptInv => DeliversInOrder
  BY KeptCount DEF DeliversInOrder
<1> QED
  BY <1>1, <1>2, SoundInit, SoundNext, EarliestInit, EarliestNext, NetInit,
     NetNext, KeptInit, KeptNext, OrderNext, PTL DEF Spec
=============================================================================
