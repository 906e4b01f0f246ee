-------------------------- MODULE ReorderReceiver --------------------------
(***************************************************************************)
(* The reordering half of RTPSessionReceiver, fed over a network that      *)
(* loses, duplicates and reorders datagrams by the packet builder of the   *)
(* remote client.  A packet is the value of the builder's 32-bit           *)
(* m_sequence; what the receiver compares is Key of it, the number that    *)
(* RTPPacket::parse puts together from the header and the extension.       *)
(***************************************************************************)
EXTENDS Integers, Sequences, FiniteSets

CONSTANTS
  Start,       \* the first sequence number of the stream
  MaxSent,     \* bound on the packets sent
  Half,        \* 2^16: values of each half of a sequence number
  Video,       \* a video stream: the high half is sent as 0
  ReorderLen,  \* reorderLen (5 in the code)
  Displace,    \* how many later datagrams may overtake one on the network
  MaxDup,      \* bound on the datagrams the network duplicates
  MaxNet       \* bound on the datagrams in flight

ASSUME ReorderAssumption ==
  /\ Start \in Nat /\ MaxSent \in Nat /\ Half \in Nat \ {0}
  /\ Video \in BOOLEAN
  /\ ReorderLen \in Nat \ {0} /\ Displace \in Nat /\ MaxNet \in Nat
  /\ MaxDup \in Nat

VARIABLES
  sent,       \* packets built so far
  dups,       \* datagrams duplicated so far
  net,        \* datagrams in flight, in the order in which they were sent
  list,       \* m_reorder_list
  received,   \* history: packets that receive_data has returned
  delivered   \* history: what receive_rtp_packet has returned

vars == <<sent, dups, net, list, received, delivered>>

Packets  == Start..(Start + MaxSent - 1)
Dummy    == -1    \* an RTPPacket that was never parsed: all its fields are 0
Datagram == [seq: Packets, passed: 0..Displace]

Key(n) == IF n = Dummy THEN 0
          ELSE IF Video THEN n % Half ELSE n % (Half * Half)

Init ==
  /\ sent = 0 /\ dups = 0 /\ net = <<>> /\ list = <<>>
  /\ received = {} /\ delivered = <<>>

----------------------------------------------------------------------------
(* The packet builder and the network. *)

Send ==
  /\ sent < MaxSent /\ Len(net) < MaxNet
  /\ sent' = sent + 1
  /\ net' = Append(net, [seq |-> Start + sent, passed |-> 0])
  /\ UNCHANGED <<dups, list, received, delivered>>

Without(s, i) == [j \in 1..(Len(s) - 1) |-> IF j < i THEN s[j] ELSE s[j + 1]]

InsertAfter(s, k, e) ==
  [j \in 1..(Len(s) + 1) |-> IF j <= k THEN s[j]
                             ELSE IF j = k + 1 THEN e ELSE s[j - 1]]

Lose ==
  /\ \E i \in 1..Len(net) : net' = Without(net, i)
  /\ UNCHANGED <<sent, dups, list, received, delivered>>

Duplicate ==
  /\ dups < MaxDup /\ Len(net) < MaxNet
  /\ dups' = dups + 1
  /\ \E i \in 1..Len(net) : net' = InsertAfter(net, i, net[i])
  /\ UNCHANGED <<sent, list, received, delivered>>

(* The datagram at place i arrives next and overtakes those before it. *)
Arrive(i) ==
  /\ \A j \in 1..(i - 1) : net[j].passed < Displace
  /\ net' = [j \in 1..(Len(net) - 1) |->
               IF j < i THEN [net[j] EXCEPT !.passed = @ + 1] ELSE net[j + 1]]

----------------------------------------------------------------------------
(***************************************************************************)
(* receive_rtp_packet(reorderLen, timeout).                                *)
(***************************************************************************)

(* The search runs from the back of the list to the first packet that is   *)
(* not greater than the new one.                                           *)
StopsAt(k, s) ==
  /\ \A i \in (k + 1)..Len(list) : Key(list[i]) > Key(s)
  /\ k > 0 => Key(list[k]) <= Key(s)

(* Mutant of Insert: a packet that follows an empty place is taken for a   *)
(* duplicate.                                                              *)
InsertDropsNext(s) ==
  {IF k > 0 /\ Key(list[k]) >= Key(s) - 1 THEN list
   ELSE InsertAfter(list, k, s) : k \in {j \in 0..Len(list) : StopsAt(j, s)}}

(* The list with packet s in it; a packet whose number is already there is *)
(* dropped.                                                                *)
Insert(s) ==
  {IF k > 0 /\ Key(list[k]) = Key(s) THEN list ELSE InsertAfter(list, k, s) :
     k \in {j \in 0..Len(list) : StopsAt(j, s)}}

(* Mutant of Return: the newest packet is returned. *)
ReturnLast(l) ==
  IF Len(l) > ReorderLen
  THEN /\ list' = SubSeq(l, 1, Len(l) - 1)
       /\ delivered' = Append(delivered, l[Len(l)])
  ELSE list' = l /\ UNCHANGED delivered

(* Mutant of Return: the list is left to grow by one more packet. *)
ReturnLate(l) ==
  IF Len(l) > ReorderLen + 1
  THEN list' = Tail(l) /\ delivered' = Append(delivered, Head(l))
  ELSE list' = l /\ UNCHANGED delivered

Return(l) ==
  IF Len(l) > ReorderLen
  THEN list' = Tail(l) /\ delivered' = Append(delivered, Head(l))
  ELSE list' = l /\ UNCHANGED delivered

(* An empty list gets a packet that was never parsed, and the datagram, if *)
(* there is one, is lost.                                                  *)
ReceiveFirst ==
  /\ list = <<>>
  /\ \/ UNCHANGED <<net, received>>
     \/ \E i \in 1..Len(net) :
          Arrive(i) /\ received' = received \union {net[i].seq}
  /\ Return(<<Dummy>>)
  /\ UNCHANGED <<sent, dups>>

(* A call that finds no datagram, or one that parse refuses, changes       *)
(* nothing: the list is never longer than reorderLen between calls.        *)
ReceiveNext ==
  /\ list # <<>>
  /\ \E i \in 1..Len(net) :
       /\ Arrive(i)
       /\ received' = received \union {net[i].seq}
       /\ \E l \in Insert(net[i].seq) : Return(l)
  /\ UNCHANGED <<sent, dups>>

Done == sent = MaxSent /\ net = <<>> /\ list # <<>> /\ UNCHANGED vars

Next == Send \/ Lose \/ Duplicate \/ ReceiveFirst \/ ReceiveNext \/ Done

Spec == Init /\ [][Next]_vars

----------------------------------------------------------------------------
Known == Packets \union {Dummy}

TypeOK ==
  /\ sent \in 0..MaxSent /\ dups \in 0..MaxDup
  /\ net \in Seq(Datagram) /\ Len(net) <= MaxNet
  /\ list \in Seq(Known)
  /\ received \in SUBSET Packets
  /\ delivered \in Seq(Known)

(* Between two calls the list holds at most reorderLen packets, in strictly*)
(* ascending order of the numbers that are compared, whatever the network  *)
(* did: the search from the back and the push_front keep it sorted.        *)
ListSound ==
  /\ Len(list) <= ReorderLen
  /\ \A i, j \in 1..Len(list) : i < j => Key(list[i]) < Key(list[j])

Elements(s) == {s[i] : i \in 1..Len(s)}

(* A packet that has come out was sent before every packet still in the    *)
(* list, however late datagrams arrive.  It takes numbers that do not wrap.*)
(* rtp_session_receiver.h: "reorder the rtp packets by their sequences".   *)
ReturnsEarliest ==
  \A d \in Elements(delivered), e \in Elements(list) : d < e

(* Packets come out in the order in which they were sent.  With numbers    *)
(* that do not wrap this holds for as long as no more than reorderLen      *)
(* later datagrams overtake one: the buffer is as good as its length.      *)
InOrder ==
  \A i, j \in 1..Len(delivered) : i < j => delivered[i] <= delivered[j]

(* Apart from packet number 0, which a packet that was never parsed looks  *)
(* like, at most one of all packets received never comes out: the datagram *)
(* that found the list empty.                                              *)
OnlyFirstDropped ==
  Cardinality({p \in received : Key(p) # 0}
                \ (Elements(delivered) \union Elements(list))) <= 1

(* As long as datagrams are overtaken by no more than reorderLen others,   *)
(* packets come out in order and none that arrived gets lost in the list.  *)
DeliversInOrder == InOrder /\ OnlyFirstDropped
=============================================================================
