--------------------------- MODULE RoomUser_proofs ---------------------------
(***************************************************************************)
(* Proofs about PortManager and about RoomUser, which uses it.  The first  *)
(* part is about the pool of ports alone, for every range of ports and any *)
(* number of users.  The second shows, for any senders and any length of   *)
(* the reorder list, that the pool's properties carry over to the room     *)
(* that uses it, that initialize is all or nothing, and which receiver the *)
(* unguarded initialize endangers.                                         *)
(***************************************************************************)
EXTENDS RoomUser, FiniteSetTheorems, TLAPS

----------------------------------------------------------------------------
(* The pool of ports. *)

(* Taking the first element off a list, as the loop of get_udp_port does.  *)
LEMMA HeadTail ==
  ASSUME NEW S, NEW s \in Seq(S), s # <<>>
  PROVE  /\ Head(s) \in S /\ Tail(s) \in Seq(S)
         /\ Elements(s) = {Head(s)} \union Elements(Tail(s))
<1>1. /\ Len(s) \in Nat \ {0} /\ Head(s) = s[1] /\ Head(s) \in S
      /\ Tail(s) \in Seq(S) /\ Len(Tail(s)) = Len(s) - 1
      /\ \A i \in 1..(Len(s) - 1) : Tail(s)[i] = s[i + 1]
  OBVIOUS
<1>2. ASSUME NEW x \in Elements(s)
      PROVE  x \in {Head(s)} \union Elements(Tail(s))
  <2>1. PICK i \in 1..Len(s) : x = s[i]
    BY DEF Elements
  <2>2. CASE i = 1
    BY <1>1, <2>1, <2>2
  <2>3. CASE i # 1
    <3>1. i - 1 \in 1..Len(Tail(s)) /\ Tail(s)[i - 1] = x
      BY <1>1, <2>1, <2>3
    <3> QED
      BY <3>1 DEF Elements
  <2> QED
    BY <2>2, <2>3
<1>3. ASSUME NEW x \in {Head(s)} \union Elements(Tail(s))
      PROVE  x \in Elements(s)
  <2>1. CASE x = Head(s)
    BY <1>1, <2>1 DEF Elements
  <2>2. CASE x \in Elements(Tail(s))
    <3>1. PICK i \in 1..Len(Tail(s)) : x = Tail(s)[i]
      BY <2>2 DEF Elements
    <3>2. i + 1 \in 1..Len(s) /\ x = s[i + 1]
      BY <1>1, <3>1
    <3> QED
      BY <3>2 DEF Elements
  <2> QED
    BY <1>3, <2>1, <2>2
<1> QED
  BY <1>1, <1>2, <1>3

(* m_ports_in_use is a finite set of numbers. *)
LEMMA SubsetOfPorts ==
  ASSUME NEW S \in SUBSET Ports
  PROVE  Cardinality(S) \in Nat
<1>1. IsFiniteSet(Ports)
  BY PortsAssumption, FS_Interval DEF Ports
<1> QED
  BY <1>1, FS_Subset, FS_CardinalityType

(* The ports in use, in order, are a list of them without repeats. *)
LEMMA AscendingList ==
  ASSUME NEW S \in SUBSET Ports, NEW s \in Ascending(S)
  PROVE  /\ s \in Seq(Ports) /\ Elements(s) = S
         /\ \A i, j \in 1..Len(s) : s[i] = s[j] => i = j
<1>1. Cardinality(S) \in Nat
  BY SubsetOfPorts
<1>2. s \in Seq(S) /\ Len(s) = Cardinality(S)
  BY <1>1 DEF Ascending
<1>3. \A x \in S : x \in Int
  BY PortsAssumption DEF Ports
<1>4. ASSUME NEW i \in 1..Len(s), NEW j \in 1..Len(s), s[i] = s[j], i # j
      PROVE  FALSE
  <2>1. s[i] \in S /\ s[j] \in S
    BY <1>2
  <2>2. i < j \/ j < i
    BY <1>1, <1>2, <1>4
  <2>3. s[i] < s[j] \/ s[j] < s[i]
    BY <1>2, <2>2 DEF Ascending
  <2>4. s[i] \in Int
    BY <1>3, <2>1
  <2>5. ~(s[i] < s[i])
    BY <2>4
  <2> QED
    BY <1>4, <2>3, <2>5
<1> QED
  BY <1>2, <1>4 DEF Ascending

(* Before initialize the pool is empty and no socket is bound. *)
LEMMA TypeInit == Init => TypeOK
<1> SUFFICES ASSUME Init PROVE TypeOK
  OBVIOUS
<1>1. initialized \in BOOLEAN
  BY Zenon DEF Init
<1> QED
  BY <1>1, PortsAssumption DEF Init, TypeOK, NoPort

(* Only ports of the range get into the two lists. *)
LEMMA TypeNext == TypeOK /\ [Next]_vars => TypeOK'
<1> USE DEF TypeOK, poolVars, callVars, histVars
<1>1. ASSUME TypeOK, Recycle
      PROVE  available' \in Seq(Ports) /\ inUse' \in SUBSET Ports
  BY <1>1, AscendingList DEF Recycle
<1>2. ASSUME TypeOK, Initialize PROVE TypeOK'
  <2>1. available' \in Seq(Ports)
    BY <1>2, PortsAssumption DEF Initialize, Ports
  <2> QED
    BY <1>2, <2>1 DEF Initialize
<1>3. ASSUME TypeOK, TryPort PROVE TypeOK'
  BY <1>3, HeadTail DEF TryPort, CheckAvailable
<1>4. ASSUME TypeOK, GetFails PROVE TypeOK'
  BY <1>4, <1>1 DEF GetFails
<1>5. ASSUME TypeOK, Bind PROVE TypeOK'
  BY <1>5 DEF Bind
<1>6. ASSUME TypeOK, NEW h \in Sockets, GetPort(h) PROVE TypeOK'
  <2>1. offered' \in SUBSET Ports
    BY <1>1, <1>6 DEF GetPort, Elements
  <2> QED
    BY <1>1, <1>6, <2>1 DEF GetPort
<1>7. ASSUME TypeOK, NEW h \in Sockets, Close(h) PROVE TypeOK'
  BY <1>7 DEF Close
<1>8. ASSUME TypeOK, NEW p \in Ports, ReleasePort(p) PROVE TypeOK'
  BY <1>8 DEF ReleasePort
<1>9. ASSUME TypeOK, NEW p \in Ports, OtherBind(p) PROVE TypeOK'
  BY <1>9 DEF OtherBind
<1>10. ASSUME TypeOK, NEW p \in Ports, OtherClose(p) PROVE TypeOK'
  BY <1>10 DEF OtherClose
<1>11. ASSUME TypeOK, UNCHANGED vars PROVE TypeOK'
  BY <1>11 DEF vars
<1> QED
  BY <1>2, <1>3, <1>4, <1>5, <1>6, <1>7, <1>8, <1>9, <1>10, <1>11 DEF Next

(* The lists hold ports of the range, the sockets a port or none. *)
THEOREM TypeCorrect == Spec => []TypeOK
BY TypeInit, TypeNext, PTL DEF Spec

----------------------------------------------------------------------------
(* Appending a port that is not in the list, as release_port does. *)
LEMMA AppendNew ==
  ASSUME NEW S, NEW s \in Seq(S), NEW x \in S, x \notin Elements(s),
         \A i, j \in 1..Len(s) : s[i] = s[j] => i = j
  PROVE  LET t == Append(s, x) IN
         /\ Elements(t) = Elements(s) \union {x}
         /\ \A i, j \in 1..Len(t) : t[i] = t[j] => i = j
<1> DEFINE t == Append(s, x)
<1>1. /\ Len(s) \in Nat /\ Len(t) = Len(s) + 1 /\ t[Len(s) + 1] = x
      /\ \A i \in 1..Len(s) : t[i] = s[i]
  OBVIOUS
<1>2. \A i \in 1..Len(t) : i \in 1..Len(s) \/ i = Len(s) + 1
  BY <1>1
<1>3. \A i \in 1..Len(s) : i \in 1..Len(t)
  BY <1>1
<1>4. Len(s) + 1 \in 1..Len(t)
  BY <1>1
<1> HIDE DEF t
<1>5. Elements(t) = Elements(s) \union {x}
  BY <1>1, <1>2, <1>3, <1>4 DEF Elements
<1>6. \A i, j \in 1..Len(t) : t[i] = t[j] => i = j
  BY <1>1, <1>2 DEF Elements
<1> QED
  BY <1>5, <1>6 DEF t

(* With no repeats the first port of the list is not in the rest of it. *)
LEMMA TailNew ==
  ASSUME NEW S, NEW s \in Seq(S), s # <<>>,
         \A i, j \in 1..Len(s) : s[i] = s[j] => i = j
  PROVE  /\ Head(s) \notin Elements(Tail(s))
         /\ \A i, j \in 1..Len(Tail(s)) : Tail(s)[i] = Tail(s)[j] => i = j
<1>1. /\ Len(s) \in Nat \ {0} /\ Head(s) = s[1]
      /\ Len(Tail(s)) = Len(s) - 1
      /\ \A i \in 1..(Len(s) - 1) : Tail(s)[i] = s[i + 1]
  OBVIOUS
<1>2. \A i \in 1..(Len(s) - 1) : i + 1 \in 1..Len(s) /\ i + 1 # 1
  BY <1>1
<1>3. 1 \in 1..Len(s)
  BY <1>1
<1>4. Head(s) \notin Elements(Tail(s))
  BY <1>1, <1>2, <1>3 DEF Elements
<1>5. ASSUME NEW i \in 1..Len(Tail(s)), NEW j \in 1..Len(Tail(s)),
             Tail(s)[i] = Tail(s)[j]
      PROVE  i = j
  <2>1. s[i + 1] = s[j + 1]
    BY <1>1, <1>5
  <2>2. i + 1 = j + 1
    BY <1>1, <1>2, <2>1
  <2> QED
    BY <2>2
<1> QED
  BY <1>4, <1>5

(* No port is in a list or in use before initialize. *)
LEMMA PartitionInit == Init => PoolPartition
BY DEF Init, PoolPartition, NoRepeats, Elements

(* Every operation of the pool moves ports between the two lists, none     *)
(* loses or duplicates one.                                                *)
LEMMA PartitionNext == TypeOK /\ PoolPartition /\ [Next]_vars => PoolPartition'
<1> USE DEF PoolPartition, NoRepeats
<1>1. ASSUME PoolPartition, UNCHANGED poolVars PROVE PoolPartition'
  BY <1>1 DEF poolVars, Elements
<1>2. ASSUME TypeOK, PoolPartition, Recycle, UNCHANGED initialized
      PROVE  PoolPartition'
  <2>1. CASE available = <<>>
    <3>1. inUse \in SUBSET Ports /\ inUse' = {}
      BY <1>2, <2>1 DEF Recycle, TypeOK
    <3>2. Elements(available) = {}
      BY <2>1 DEF Elements
    <3>3. /\ Elements(available)' = inUse
          /\ NoRepeats'
      BY <1>2, <2>1, <3>1, AscendingList DEF Recycle, Elements
    <3> QED
      BY <1>2, <3>1, <3>2, <3>3
  <2>2. CASE available # <<>>
    BY <1>1, <1>2, <2>2 DEF Recycle, poolVars
  <2> QED
    BY <2>1, <2>2
<1>3. ASSUME TypeOK, PoolPartition, Initialize PROVE PoolPartition'
  <2>1. Len(available') = End - First
    BY <1>3, PortsAssumption DEF Initialize
  <2>2. Elements(available)' = Ports
    <3>1. Elements(available)' \subseteq Ports
      BY <1>3, <2>1, PortsAssumption DEF Initialize, Ports, Elements
    <3>2. ASSUME NEW p \in Ports PROVE p \in Elements(available)'
      <4>1. p - First + 1 \in 1..(End - First)
        BY PortsAssumption DEF Ports
      <4>2. available'[p - First + 1] = p
        BY <1>3, <4>1, PortsAssumption DEF Initialize, Ports
      <4> QED
        BY <2>1, <4>1, <4>2 DEF Elements
    <3> QED
      BY <3>1, <3>2
  <2>3. NoRepeats'
    BY <1>3, <2>1, PortsAssumption DEF Initialize
  <2> QED
    BY <1>3, <2>2, <2>3 DEF Initialize
<1>4. ASSUME TypeOK, PoolPartition, TryPort PROVE PoolPartition'
  <2>1. /\ available \in Seq(Ports) /\ available # <<>>
        /\ available' = Tail(available)
        /\ inUse' = inUse \union {Head(available)}
        /\ initialized' = initialized
    BY <1>4 DEF TryPort, TypeOK
  <2>2. /\ Head(available) \notin Elements(Tail(available))
        /\ NoRepeats'
    BY <1>4, <2>1, TailNew
  <2>3. Elements(available) =
          {Head(available)} \union Elements(Tail(available))
    BY <2>1, HeadTail
  <2>4. Elements(available)' = Elements(Tail(available))
    BY <2>1 DEF Elements
  <2> QED
    BY <1>4, <2>1, <2>2, <2>3, <2>4
<1>5. ASSUME TypeOK, PoolPartition, NEW p \in Ports, ReleasePort(p)
      PROVE  PoolPartition'
  <2>1. /\ available \in Seq(Ports) /\ p \in inUse
        /\ available' = Append(available, p)
        /\ inUse' = inUse \ {p} /\ initialized' = initialized
    BY <1>5 DEF ReleasePort, TypeOK
  <2>2. /\ Elements(Append(available, p)) = Elements(available) \union {p}
        /\ NoRepeats'
    BY <1>5, <2>1, AppendNew
  <2>3. Elements(available)' = Elements(Append(available, p))
    BY <2>1 DEF Elements
  <2> QED
    BY <1>5, <2>1, <2>2, <2>3
<1>6. CASE \/ Bind \/ UNCHANGED vars
           \/ \E h \in Sockets : Close(h)
           \/ \E p \in Ports : OtherBind(p) \/ OtherClose(p)
  <2>1. UNCHANGED poolVars
    BY <1>6 DEF Bind, Close, OtherBind, OtherClose, vars, poolVars
  <2> QED
    BY <1>1, <2>1
<1>7. CASE GetFails \/ \E h \in Sockets : GetPort(h)
  BY <1>2, <1>7 DEF GetFails, GetPort
<1> QED
  BY <1>3, <1>4, <1>5, <1>6, <1>7 DEF Next

(* Every port of the pool is, at any time, once in m_available_ports or    *)
(* once in m_ports_in_use: failed checks, recycling and releases lose none *)
(* and list none twice.                                                    *)
THEOREM Partition == Spec => []PoolPartition
BY TypeInit, TypeNext, PartitionInit, PartitionNext, PTL DEF Spec

(* What the loop of get_udp_port knows of the ports it has left to try. *)
Searching ==
  pc = "try" => /\ \A p \in freeSince : Free(p)
                /\ offered \intersect freeSince
                     \subseteq Elements(available) \union unprobed

(* A step keeps what the loop knows and, once a port is found, that no     *)
(* socket of the program has it.                                           *)
LEMMA SearchNext ==
  TypeOK /\ Searching /\ GrantExclusive /\ [Next]_vars =>
    Searching' /\ GrantExclusive'
<1> SUFFICES ASSUME TypeOK, Searching, GrantExclusive, [Next]_vars
             PROVE  Searching' /\ GrantExclusive'
  OBVIOUS
<1> USE DEF Searching, GrantExclusive, Free
<1>1. CASE UNCHANGED vars
  BY <1>1 DEF vars, poolVars, callVars, histVars, Elements
<1>2. CASE Initialize \/ Bind \/ GetFails \/ \E h \in Sockets : Close(h)
  BY <1>2 DEF Initialize, Bind, GetFails, Close, callVars
<1>3. CASE TryPort
  <2>1. Elements(available) =
          {Head(available)} \union Elements(Tail(available))
    BY <1>3, HeadTail DEF TryPort, TypeOK
  <2>2. Elements(available)' = Elements(Tail(available))
    BY <1>3 DEF TryPort, Elements
  <2> QED
    BY <1>3, <2>1, <2>2 DEF TryPort, CheckAvailable
<1>4. CASE \E h \in Sockets : GetPort(h)
  BY <1>4 DEF GetPort, Elements
<1>5. CASE \E p \in Ports : ReleasePort(p)
  BY <1>5 DEF ReleasePort, callVars
<1>6. CASE \E p \in Ports : OtherBind(p)
  BY <1>6 DEF OtherBind, poolVars, callVars, Elements
<1>7. CASE \E p \in Ports : OtherClose(p)
  BY <1>7 DEF OtherClose, poolVars, callVars, histVars, Elements
<1> QED
  BY <1>1, <1>2, <1>3, <1>4, <1>5, <1>6, <1>7 DEF Next

(* get_udp_port returns no port that a socket of the program has, although *)
(* recycling offers such ports again, and gives up only when each port it  *)
(* started with has been taken at some time of the call or could not be    *)
(* tried for want of a socket.                                             *)
THEOREM SearchCorrect == Spec => [](GrantExclusive /\ FailureTriedAll)
<1>1. Init => Searching /\ GrantExclusive
  BY DEF Init, Searching, GrantExclusive
<1>2. Searching => FailureTriedAll
  BY DEF Searching, FailureTriedAll, Elements
<1> QED
  BY <1>1, <1>2, TypeInit, TypeNext, SearchNext, PTL DEF Spec

----------------------------------------------------------------------------
(* The user of a room. *)

(* Every step of the two threads and of the rest of the system is a step   *)
(* of PortManager or leaves it alone.                                      *)
LEMMA PoolStep == [UserNext]_allVars => [Next]_vars
<1> SUFFICES ASSUME [UserNext]_allVars PROVE [Next]_vars
  OBVIOUS
<1> USE DEF Sockets
<1>1. CASE UNCHANGED allVars \/ Halt
  BY <1>1 DEF Halt, allVars
<1>2. CASE Others
  BY <1>2 DEF Others, Next
<1>3. CASE RecvNext
  BY <1>3 DEF RecvNext, RecvLock, Test, Receive, Push, Pinhole, SendPinhole
<1>4. CASE WsNext
  <2>1. CASE Search \/ SenderBind
    BY <2>1 DEF Search, SenderBind, Next
  <2>2. CASE NewAssembler \/ InitAssembler \/ NewBuffer \/ EraseUser \/ Erased
    BY <2>2 DEF NewAssembler, InitAssembler, NewBuffer, EraseUser, Erased
  <2>3. CASE \E h \in Sockets : Begin(h)
    BY <2>3 DEF Begin, Next
  <2>4. ASSUME NEW h \in Receivers,
               \/ NewReceiver(h) \/ SetReorder(h) \/ NewTransmitter(h)
               \/ BindReceiver(h) \/ Ready(h) \/ Initialized(h) \/ Failed(h)
        PROVE  [Next]_vars
    BY <2>4 DEF NewReceiver, SetReorder, NewTransmitter, BindReceiver, Ready,
                Initialized, Failed, Next
  <2>5. ASSUME NEW h \in Receivers,
               DeleteReceiver(h) \/ ExitFlag(h) \/ Destroy(h)
        PROVE  [Next]_vars
    BY <2>5 DEF DeleteReceiver, ExitFlag, Destroy, CloseSocket, Next
  <2> QED
    BY <1>4, <2>1, <2>2, <2>3, <2>4, <2>5 DEF WsNext
<1> QED
  BY <1>1, <1>2, <1>3, <1>4 DEF UserNext

(* What is proved of PortManager holds of RoomUser. *)
LEMMA UsesPool == UserSpec => Spec
<1>1. UserInit => Init
  BY DEF UserInit
<1> QED
  BY <1>1, PoolStep, PTL DEF UserSpec, Spec

(* No port is lost or doubled by a failing initialize, none that a socket  *)
(* of the room has is granted, and none that is free all the time and can  *)
(* be tried is overlooked.                                                 *)
THEOREM UserPorts ==
  UserSpec => [](PoolPartition /\ GrantExclusive /\ FailureTriedAll)
BY UsesPool, Partition, SearchCorrect, PTL

----------------------------------------------------------------------------
(* Nothing of receiver h is there, or all of it is. *)
Nothing(h) ==
  /\ rx[h] = "none" /\ ~done[h] /\ sock[h] = NoPort
  /\ h = Video => ~buffer /\ assembler = "none"

Complete(h) ==
  /\ rx[h] = "ready" /\ done[h] /\ sock[h] # NoPort
  /\ h = Video => buffer /\ assembler = "ready"

(* What there is of receiver h while initialize is at it: up to the bind   *)
(* there is a port granted to it and no socket; the socket, the assembler  *)
(* and the buffer come in this order and exitFlag takes them all away.     *)
Underway(h) ==
  /\ ~done[h]
  /\ rx[h] \in {"new", "reorder", "transmitter"} => pc # "idle"
  /\ pc # "idle" =>
       /\ rx[h] \in {"none", "new", "reorder", "transmitter"}
       /\ pc = "try" => rx[h] = "none"
  /\ sock[h] # NoPort => rx[h] \in {"bound", "ready", "failed"}
  /\ rx[h] \in {"bound", "ready"} => sock[h] # NoPort
  /\ h = Video =>
       /\ buffer => assembler = "ready"
       /\ assembler # "none" => rx[h] \in {"ready", "failed", "deleted"}

(* The inductive invariant: the ws thread asks for the receiver that it is *)
(* busy with, and only that one is neither nothing nor complete.           *)
UserInv ==
  /\ rx \in [Receivers -> Stages] /\ done \in [Receivers -> BOOLEAN]
  /\ assembler \in {"none", "new", "ready"} /\ buffer \in BOOLEAN
  /\ sock \in [Sockets -> Ports \union {NoPort, Ephemeral}]
  /\ busy \in Sockets \union {"idle", "erase"}
  /\ pc # "idle" => busy = owner /\ owner \in Sockets
  /\ \A h \in Receivers :
       IF busy = h THEN Underway(h) ELSE Nothing(h) \/ Complete(h)

(* Before the first pull_stream there is nothing. *)
LEMMA UserInvInit == UserInit => UserInv
BY UserAssumption
   DEF UserInit, Init, UserInv, Nothing, Stages, Sockets, NoPort

(* The names of the ws thread's other occupations are not sockets. *)
LEMMA Distinct ==
  /\ "idle" \notin Sockets /\ "erase" \notin Sockets
  /\ Receivers \subseteq Sockets /\ Senders \intersect Receivers = {}
  /\ Video \in Receivers /\ Audio \in Receivers /\ Video # Audio
BY UserAssumption, PortsAssumption DEF Sockets

(* No step of either thread leaves a receiver that the ws thread is not    *)
(* busy with incomplete.                                                   *)
LEMMA UserInvNext ==
  UserInv /\ TypeOK /\ TypeOK' /\ [UserNext]_allVars => UserInv'
<1> SUFFICES ASSUME UserInv, TypeOK, TypeOK', [UserNext]_allVars
             PROVE  UserInv'
  OBVIOUS
<1> USE Distinct DEF UserInv, Underway, Nothing, Complete, rxVars, videoVars,
        recvVars
<1>1. CASE UNCHANGED allVars \/ Halt
  BY <1>1 DEF Halt, allVars, userVars, vars, callVars
<1>2. CASE Others
  <2>1. CASE \E g \in Senders : busy = "idle" /\ Close(g)
    <3>1. PICK g \in Senders : busy = "idle" /\ Close(g)
      BY <2>1
    <3>2. \A h \in Receivers : sock'[h] = sock[h]
      BY <3>1 DEF Close, Sockets
    <3> QED
      BY <1>2, <3>1, <3>2 DEF Close, Others, userVars, callVars
  <2>2. CASE ~ \E g \in Senders : busy = "idle" /\ Close(g)
    BY <1>2, <2>2 DEF Others, Initialize, ReleasePort, OtherBind, OtherClose,
                      userVars, callVars
  <2> QED
    BY <2>1, <2>2
<1>3. CASE RecvNext
  <2>1. UNCHANGED <<vars, busy, rx, done, videoVars>>
    BY <1>3 DEF RecvNext, RecvLock, Test, Receive, Push, Pinhole, SendPinhole
  <2> QED
    BY <2>1 DEF vars, callVars
<1>4. CASE WsNext
  <2>1. CASE Search
    BY <1>4, <2>1 DEF Search, TryPort, GetFails
  <2>2. CASE SenderBind
    <3>1. \A h \in Receivers : sock'[h] = sock[h]
      BY <2>2 DEF SenderBind, Bind
    <3>2. busy \in Senders /\ busy' = "idle" /\ pc' = "idle"
          /\ UNCHANGED <<rx, done, assembler, buffer>>
      BY <2>2 DEF SenderBind, Bind
    <3>3. ASSUME NEW h \in Receivers PROVE Nothing(h) \/ Complete(h)
      BY <3>2
    <3> QED
      BY <3>1, <3>2, <3>3 DEF TypeOK
  <2>3. CASE NewAssembler \/ InitAssembler \/ NewBuffer
    <3>1. /\ busy = Video /\ rx[Video] = "ready" /\ pc = "idle"
          /\ UNCHANGED <<pc, owner, busy, sock, done, rx[Audio]>>
          /\ rx' \in [Receivers -> Stages]
      BY <2>3 DEF NewAssembler, InitAssembler, NewBuffer, At, Move, Stages,
                  vars, callVars
    <3>2. /\ rx'[Video] \in {"ready", "failed"}
          /\ assembler' \in {"none", "new", "ready"} /\ buffer' \in BOOLEAN
          /\ buffer' => assembler' = "ready"
      <4>1. CASE NewAssembler
        BY <3>1, <4>1 DEF NewAssembler, Move
      <4>2. CASE InitAssembler
        BY <3>1, <4>2 DEF InitAssembler
      <4>3. CASE NewBuffer
        BY <3>1, <4>3 DEF NewBuffer
      <4> QED
        BY <2>3, <4>1, <4>2, <4>3
    <3>3. Underway(Video)'
      BY <3>1, <3>2
    <3>4. (Nothing(Audio) \/ Complete(Audio))'
      BY <3>1
    <3> QED
      BY <3>1, <3>2, <3>3, <3>4, UserAssumption
  <2>4. CASE EraseUser \/ Erased
    BY <2>4 DEF EraseUser, Erased, vars, callVars
  <2>5. ASSUME NEW h \in Sockets, Begin(h) PROVE UserInv'
    BY <2>5 DEF Begin, GetPort
  <2>6. ASSUME NEW h \in Receivers, NewReceiver(h) PROVE UserInv'
    BY <2>6 DEF NewReceiver, At, Move, Receiver, Bind, Stages, vars, callVars
  <2>7. ASSUME NEW h \in Receivers, SetReorder(h) \/ NewTransmitter(h)
        PROVE  UserInv'
    BY <2>7 DEF SetReorder, NewTransmitter, At, Move, Receiver, Stages,
                vars, callVars
  <2>8. ASSUME NEW h \in Receivers, BindReceiver(h) PROVE UserInv'
    <3>1. /\ busy = h /\ owner = h /\ pc' = "idle"
          /\ UNCHANGED <<owner, busy, done, assembler, buffer>>
          /\ rx' = [rx EXCEPT ![h] = IF sock'[h] # NoPort
                                    THEN "bound" ELSE "failed"]
          /\ \A g \in Receivers \ {h} : sock'[g] = sock[g]
      BY <2>8 DEF BindReceiver, At, Move, Bind
    <3>2. rx' \in [Receivers -> Stages]
      BY <3>1 DEF Stages
    <3>3. Underway(h)'
      BY <3>1, <2>8 DEF BindReceiver, At
    <3>4. ASSUME NEW g \in Receivers \ {h}
          PROVE  (Nothing(g) \/ Complete(g))'
      BY <3>1
    <3> QED
      BY <3>1, <3>2, <3>3, <3>4 DEF TypeOK
  <2>9. ASSUME NEW h \in Receivers, Ready(h) PROVE UserInv'
    BY <2>9 DEF Ready, At, Move, Receiver, Stages, vars, callVars
  <2>10. ASSUME NEW h \in Receivers, Initialized(h) PROVE UserInv'
    BY <2>10 DEF Initialized, At, vars, callVars
  <2>11. ASSUME NEW h \in Receivers, DeleteReceiver(h) PROVE UserInv'
    BY <2>11 DEF DeleteReceiver, At, Move, CloseSocket, Close, Stages, vars,
                 callVars
  <2>12. ASSUME NEW h \in Receivers, ExitFlag(h) PROVE UserInv'
    BY <2>12 DEF ExitFlag, At, Move, Stages, vars, callVars
  <2>13. ASSUME NEW h \in Receivers, Failed(h) PROVE UserInv'
    BY <2>13 DEF Failed, At, vars, callVars
  <2>14. ASSUME NEW h \in Receivers, Destroy(h) PROVE UserInv'
    <3>1. /\ busy = "erase" /\ UNCHANGED <<busy, pc, owner>>
          /\ rx' = [rx EXCEPT ![h] = "none"] /\ done' = [done EXCEPT ![h] = FALSE]
          /\ assembler' = IF h = Video THEN "none" ELSE assembler
          /\ buffer' = IF h = Video THEN FALSE ELSE buffer
      BY <2>14 DEF Destroy, Move, CloseSocket, Close, vars, callVars
    <3>2. sock' = [sock EXCEPT ![h] = NoPort]
      BY <2>14 DEF Destroy, CloseSocket, Close, vars
    <3>3. Nothing(h)'
      BY <3>1, <3>2
    <3>4. ASSUME NEW g \in Receivers \ {h}
          PROVE  (Nothing(g) \/ Complete(g))'
      BY <3>1, <3>2
    <3>5. rx' \in [Receivers -> Stages] /\ done' \in [Receivers -> BOOLEAN]
      BY <3>1 DEF Stages
    <3>6. assembler' \in {"none", "new", "ready"} /\ buffer' \in BOOLEAN
      BY <3>1
    <3>7. ASSUME NEW g \in Receivers
          PROVE  busy' # g /\ (Nothing(g) \/ Complete(g))'
      <4> HIDE DEF Nothing, Complete
      <4> QED
        BY <3>1, <3>3, <3>4
    <3>8. /\ sock' \in [Sockets -> Ports \union {NoPort, Ephemeral}]
          /\ busy' \in Sockets \union {"idle", "erase"} /\ pc' = "idle"
      BY <3>1 DEF TypeOK
    <3> HIDE DEF Nothing, Complete, Underway
    <3> QED
      BY <3>5, <3>6, <3>7, <3>8
  <2> QED
    BY <1>4, <2>1, <2>2, <2>3, <2>4, <2>5, <2>6, <2>7, <2>8, <2>9, <2>10,
       <2>11, <2>12, <2>13, <2>14 DEF WsNext
<1> QED
  BY <1>1, <1>2, <1>3, <1>4 DEF UserNext

(* UserInv holds of every reachable state, whatever other threads do. *)
LEMMA UserInvAlways == UserSpec => []UserInv
<1>1. UserInit => TypeOK
  BY TypeInit DEF UserInit
<1>2. TypeOK /\ [UserNext]_allVars => TypeOK'
  BY PoolStep, TypeNext
<1> QED
  BY <1>1, <1>2, UserInvInit, UserInvNext, PTL DEF UserSpec

(* Every variable keeps its type; in particular the reorder list never     *)
(* gets longer than the length receive_rtp_packet is called with.          *)
THEOREM UserTypeCorrect == UserSpec => []UserTypeOK
<1> DEFINE Rest == /\ list \in [Receivers -> 0..ReorderLen]
                   /\ mutex \in {"free", "ws", "recv"}
                   /\ recv \in Phases \X Receivers \union {Idle}
                   /\ undef \in BOOLEAN
<1>1. UserInit => Rest
  <2> SUFFICES ASSUME UserInit PROVE Rest
    OBVIOUS
  <2>1. undef \in BOOLEAN
    BY Zenon DEF UserInit
  <2> QED
    BY <2>1, UserAssumption DEF UserInit
<1>2. Rest /\ [UserNext]_allVars => Rest'
  <2> SUFFICES ASSUME Rest, [UserNext]_allVars PROVE Rest'
    OBVIOUS
  <2> USE UserAssumption DEF rxVars, recvVars
  <2>1. CASE UNCHANGED allVars \/ Halt \/ Others
    BY <2>1 DEF Halt, Others, allVars, userVars
  <2>2. CASE WsNext
    <3>1. CASE Search \/ SenderBind \/ NewAssembler \/ InitAssembler
               \/ NewBuffer \/ EraseUser \/ Erased
      BY <3>1 DEF Search, SenderBind, NewAssembler, InitAssembler, NewBuffer,
                  EraseUser, Erased
    <3>2. CASE \E h \in Sockets : Begin(h)
      BY <3>2 DEF Begin
    <3>3. ASSUME NEW h \in Receivers,
                 \/ NewReceiver(h) \/ SetReorder(h) \/ NewTransmitter(h)
                 \/ Ready(h) \/ Initialized(h) \/ Failed(h)
          PROVE  Rest'
      BY <3>3 DEF NewReceiver, SetReorder, NewTransmitter, Ready, Initialized,
                  Failed, Receiver
    <3>4. ASSUME NEW h \in Receivers,
                 \/ BindReceiver(h) \/ DeleteReceiver(h) \/ ExitFlag(h)
                 \/ Destroy(h)
          PROVE  Rest'
      <4>1. \/ UNCHANGED undef \/ undef' = Held(h)
        BY <3>4, Zenon DEF BindReceiver, DeleteReceiver, ExitFlag, Destroy
      <4>2. undef' \in BOOLEAN
        BY <4>1, Zenon DEF Held
      <4>3. UNCHANGED recvVars /\ list' \in {list, [list EXCEPT ![h] = 0]}
        BY <3>4 DEF BindReceiver, DeleteReceiver, ExitFlag, Destroy
      <4> QED
        BY <4>2, <4>3
    <3> QED
      BY <2>2, <3>1, <3>2, <3>3, <3>4 DEF WsNext
  <2>3. CASE RecvNext
    <3>1. ASSUME NEW h \in Receivers, AfterReceive(h) \/ AfterSend(h)
          PROVE  /\ mutex' \in {"free", "ws", "recv"}
                 /\ recv' \in Phases \X Receivers \union {Idle}
      BY <3>1 DEF AfterReceive, AfterSend, Go, Unlock, Phases
    <3>2. CASE RecvLock
      BY <3>2 DEF RecvLock, Phases
    <3>3. ASSUME NEW h \in Receivers, Test(h) \/ Pinhole(h) PROVE Rest'
      BY <3>1, <3>3 DEF Test, Pinhole, Go, Phases
    <3>4. ASSUME NEW h \in Receivers, Push(h) \/ SendPinhole(h) PROVE Rest'
      <4>1. undef' \in BOOLEAN
        <5>1. CASE Push(h)
          BY <5>1, SMT DEF Push
        <5>2. CASE SendPinhole(h)
          BY <5>2, SMT DEF SendPinhole
        <5> QED
          BY <3>4, <5>1, <5>2
      <4>2. (AfterReceive(h) \/ AfterSend(h)) /\ UNCHANGED list
        BY <3>4 DEF Push, SendPinhole
      <4> QED
        BY <3>1, <4>1, <4>2
    <3>5. ASSUME NEW h \in Receivers, Receive(h) PROVE Rest'
      <4>1. list' \in [Receivers -> 0..ReorderLen]
        BY <3>5 DEF Receive
      <4>2. AfterReceive(h) \/ Go("push", h)
        BY <3>5 DEF Receive
      <4>3. undef' \in BOOLEAN
        BY <3>5 DEF Receive
      <4> QED
        BY <3>1, <4>1, <4>2, <4>3 DEF Go, Phases
    <3> QED
      BY <2>3, <3>2, <3>3, <3>4, <3>5 DEF RecvNext
  <2> QED
    BY <2>1, <2>2, <2>3 DEF UserNext
<1>3. TypeOK /\ UserInv /\ Rest => UserTypeOK
  BY DEF UserInv, UserTypeOK
<1> QED
  BY <1>1, <1>2, <1>3, UserInvAlways, UsesPool, TypeCorrect, PTL
     DEF UserSpec

(* Whatever fails on the way, initialize leaves a receiver complete, with  *)
(* its socket, assembler, buffer and flag, or nothing of it.               *)
THEOREM InitializeAllOrNothing == UserSpec => []AllOrNothing
<1>1. UserInv => AllOrNothing
  BY DEF UserInv, Nothing, Complete, AllOrNothing
<1> QED
  BY <1>1, UserInvAlways, PTL

----------------------------------------------------------------------------
(* What keeps the recv thread from the receivers of other times: it holds  *)
(* the mutex from the test of a pointer to its use, which a user who       *)
(* leaves waits for, and as long as nothing undefined has happened the     *)
(* pointer it has tested is set.                                           *)
RaceInv ==
  /\ mutex = "recv" <=> recv # Idle
  /\ busy = "erase" <=> mutex = "ws"
  /\ undef => busy \in Receivers
  /\ \A h \in Receivers :
       /\ recv = <<"push", h>> => h = Video
       /\ ~undef /\ Held(h) => rx[h] # "none"

(* A step that uses a receiver the ws thread is not initialising finds it  *)
(* complete.                                                               *)
LEMMA RaceInvNext ==
  UserInv /\ RaceInv /\ [UserNext]_allVars => RaceInv'
<1> SUFFICES ASSUME UserInv, RaceInv, [UserNext]_allVars PROVE RaceInv'
  OBVIOUS
<1> USE Distinct DEF RaceInv, Held, Idle
<1>1. CASE UNCHANGED allVars \/ Halt
  BY <1>1 DEF Halt, allVars, userVars, rxVars, recvVars
<1>2. CASE Others
  BY <1>2 DEF Others, userVars, rxVars, recvVars
<1>3. CASE ~undef /\ RecvNext
  <2>1. \A h \in Receivers :
          rx[h] \notin {"none", "ready"} => busy = h
    BY DEF UserInv, Nothing, Complete
  <2>2. (assembler = "ready" /\ buffer) \/ busy = Video \/ rx[Video] = "none"
    BY DEF UserInv, Nothing, Complete
  <2>3. UNCHANGED <<busy, rx>>
    BY <1>3 DEF RecvNext, RecvLock, Test, Receive, Push, Pinhole, SendPinhole,
                rxVars
  <2>4. ASSUME NEW h \in Receivers, AfterReceive(h), recv # Idle
        PROVE  /\ mutex' = "recv" <=> recv' # Idle
               /\ mutex' = "ws" <=> mutex = "ws"
               /\ recv'[1] \notin {"receive", "push", "send"}
    BY <2>4 DEF AfterReceive, Go, Unlock
  <2>5. ASSUME NEW h \in Receivers, AfterSend(h), recv # Idle
        PROVE  /\ mutex' = "recv" <=> recv' # Idle
               /\ mutex' = "ws" <=> mutex = "ws"
               /\ recv'[1] \notin {"receive", "push", "send"}
    BY <2>5 DEF AfterSend, Go, Unlock
  <2>6. CASE RecvLock
    BY <1>3, <2>3, <2>6 DEF RecvLock
  <2>7. ASSUME NEW h \in Receivers, Test(h) \/ Pinhole(h) PROVE RaceInv'
    <3>1. recv # Idle /\ undef' = undef
      BY <2>7 DEF Test, Pinhole
    <3>2. CASE rx[h] = "none"
      BY <1>3, <2>3, <2>4, <2>5, <2>7, <3>1, <3>2 DEF Test, Pinhole
    <3>3. CASE rx[h] # "none"
      BY <1>3, <2>3, <2>7, <3>1, <3>3 DEF Test, Pinhole, Go
    <3> QED
      BY <3>2, <3>3
  <2>8. ASSUME NEW h \in Receivers, Receive(h) PROVE RaceInv'
    <3>1. recv = <<"receive", h>> /\ (undef' => busy = h)
      BY <2>1, <2>8 DEF Receive
    <3>2. CASE AfterReceive(h)
      BY <2>3, <2>4, <3>1, <3>2
    <3>3. CASE rx[h] = "ready" /\ h = Video /\ Go("push", h)
      BY <2>3, <3>1, <3>3 DEF Go
    <3> QED
      BY <2>8, <3>2, <3>3 DEF Receive
  <2>9. ASSUME NEW h \in Receivers, Push(h) PROVE RaceInv'
    <3>1. recv = <<"push", h>> /\ h = Video /\ rx[h] # "none"
      BY <1>3, <2>9 DEF Push
    <3>2. undef' => busy = h
      BY <2>1, <2>2, <2>9, <3>1 DEF Push
    <3> QED
      BY <2>3, <2>4, <2>9, <3>1, <3>2 DEF Push
  <2>10. ASSUME NEW h \in Receivers, SendPinhole(h) PROVE RaceInv'
    <3>1. recv = <<"send", h>> /\ (undef' => busy = h)
      BY <2>1, <2>10 DEF SendPinhole
    <3> QED
      BY <2>3, <2>5, <2>10, <3>1 DEF SendPinhole
  <2> QED
    BY <1>3, <2>6, <2>7, <2>8, <2>9, <2>10 DEF RecvNext
<1>4. CASE ~undef /\ WsNext
  <2> USE DEF rxVars, recvVars
  <2>1. CASE Search \/ SenderBind
    <3>1. busy \in Sockets
      BY <2>1 DEF Search, SenderBind, TryPort, GetFails, UserInv, Sockets
    <3>2. busy' \in {busy, "idle"} /\ UNCHANGED <<rx, mutex, recv, undef>>
      BY <2>1 DEF Search, SenderBind
    <3> QED
      BY <1>4, <3>1, <3>2
  <2>2. CASE NewAssembler \/ InitAssembler \/ NewBuffer
    BY <1>4, <2>2 DEF NewAssembler, InitAssembler, NewBuffer, Move, UserInv
  <2>3. CASE EraseUser \/ Erased
    BY <1>4, <2>3 DEF EraseUser, Erased
  <2>4. ASSUME NEW h \in Sockets, Begin(h) PROVE RaceInv'
    BY <1>4, <2>4 DEF Begin
  <2>5. ASSUME NEW h \in Receivers,
               \/ NewReceiver(h) \/ SetReorder(h) \/ NewTransmitter(h)
               \/ Ready(h) \/ Initialized(h) \/ Failed(h)
        PROVE  RaceInv'
    BY <1>4, <2>5 DEF NewReceiver, SetReorder, NewTransmitter, Ready,
                      Initialized, Failed, At, Move, Receiver, UserInv
  <2>6. ASSUME NEW h \in Receivers,
               BindReceiver(h) \/ DeleteReceiver(h) \/ ExitFlag(h)
        PROVE  RaceInv'
    BY <1>4, <2>6 DEF BindReceiver, DeleteReceiver, ExitFlag, At, Move,
                      UserInv
  <2>7. ASSUME NEW h \in Receivers, Destroy(h) PROVE RaceInv'
    BY <1>4, <2>7 DEF Destroy, Move, UserInv
  <2> QED
    BY <1>4, <2>1, <2>2, <2>3, <2>4, <2>5, <2>6, <2>7 DEF WsNext
<1> QED
  BY <1>1, <1>2, <1>3, <1>4 DEF UserNext

(* The step that meets a receiver half built or deleted meets the one that *)
(* the ws thread is initialising.                                          *)
LEMMA RaceStep ==
  UserInv /\ RaceInv /\ [UserNext]_allVars =>
    [undef' /\ ~undef => recv[2] = busy /\ ~done[busy]]_allVars
<1> SUFFICES ASSUME UserInv, RaceInv, UserNext, undef', ~undef
             PROVE  recv[2] = busy /\ ~done[busy]
  OBVIOUS
<1>1. \A h \in Receivers : busy = h => ~done[h]
  BY DEF UserInv, Underway
<1>2. SUFFICES \E h \in Receivers : busy = h /\ recv[2] = h
  BY <1>1
<1>3. \A h \in Receivers : rx[h] \notin {"none", "ready"} => busy = h
  BY DEF UserInv, Nothing, Complete
<1>4. (assembler = "ready" /\ buffer) \/ busy = Video \/ rx[Video] = "none"
  BY Distinct DEF UserInv, Nothing, Complete
<1> USE DEF rxVars, recvVars
<1>5. CASE RecvNext
  <2>1. ASSUME NEW h \in Receivers, Receive(h)
        PROVE  busy = h /\ recv[2] = h
    BY <1>3, <2>1 DEF Receive
  <2>2. ASSUME NEW h \in Receivers, Push(h)
        PROVE  busy = h /\ recv[2] = h
    <3>1. recv = <<"push", h>> /\ h = Video /\ rx[h] # "none"
      BY <2>2 DEF Push, RaceInv, Held
    <3>2. CASE rx[h] = "deleted"
      BY <1>3, <3>1, <3>2
    <3>3. CASE rx[h] # "deleted" /\ ~(assembler = "ready" /\ buffer)
      BY <1>4, <3>1, <3>3
    <3>4. CASE rx[h] # "deleted" /\ assembler = "ready" /\ buffer
      BY <2>2, <3>4 DEF Push
    <3> QED
      BY <3>2, <3>3, <3>4
  <2>3. ASSUME NEW h \in Receivers, SendPinhole(h)
        PROVE  busy = h /\ recv[2] = h
    BY <1>3, <2>3 DEF SendPinhole
  <2> QED
    BY <1>5, <2>1, <2>2, <2>3 DEF RecvNext, RecvLock, Test, Pinhole
<1>6. CASE WsNext
  <2>1. ASSUME NEW h \in Receivers,
               BindReceiver(h) \/ DeleteReceiver(h) \/ ExitFlag(h)
        PROVE  busy = h /\ recv[2] = h
    BY <2>1 DEF BindReceiver, DeleteReceiver, ExitFlag, At, Held
  <2> QED
    BY <1>6, <2>1 DEF WsNext, Search, SenderBind, NewAssembler, InitAssembler,
       NewBuffer, EraseUser, Erased, Begin, NewReceiver, SetReorder,
       NewTransmitter, Ready, Initialized, Failed, Destroy, Receiver
<1>7. CASE Others \/ Halt
  BY <1>7 DEF Others, Halt, userVars, allVars
<1> QED
  BY <1>5, <1>6, <1>7 DEF UserNext

(* The unguarded initialize meets the recv thread only while it is at      *)
(* work, and only at the receiver it works on: a user that leaves, the     *)
(* other receiver, or an initialize that has returned, whether it failed   *)
(* or not, never leaves the recv thread with a receiver that is half built *)
(* or deleted.                                                             *)
THEOREM RaceConfined == UserSpec => RaceOnlyInInitialize
<1>1. UserInit => RaceInv
  BY Distinct DEF UserInit, RaceInv, Held, Idle
<1> QED
  BY <1>1, RaceStep, UserInvAlways, RaceInvNext, PTL
     DEF UserSpec, RaceOnlyInInitialize
=============================================================================
