-------------------------- MODULE WSClient_proofs --------------------------
(***************************************************************************)
(* Proofs about WSClient, for any number of addresses the allocator may    *)
(* hand out, any number of texts and any length of the buffers.  The       *)
(* invariant has three parts: the types, what the pointers of the client   *)
(* say of mongoose's list while mg_mgr_poll is under way, and how the      *)
(* frames on the way to the client continue what it has read.              *)
(***************************************************************************)
EXTENDS WSClient, TLAPS, SequenceTheorems

----------------------------------------------------------------------------
(* Types.                                                                  *)

(* TypeOK without the range of the texts, which needs the frames. *)
BaseOK ==
  /\ life \in {"none", "run", "stop", "free", "gone"}
  /\ poll \in {"idle", "timer", "connect", "visit", "work", "frames",
               "reply", "write", "close"}
  /\ todo \subseteq Addr /\ cur \in Addr \union {Null}
  /\ due \in BOOLEAN /\ conns \subseteq Addr
  /\ conn \in [Addr -> Conn]
  /\ m_connection \in Addr \union {Null} /\ m_connected \in BOOLEAN
  /\ m_mutex \in {"free", "app"}
  /\ app \in {"idle", "tested", "send"} /\ target \in Addr \union {Null}
  /\ named \in BOOLEAN /\ calm \in BOOLEAN /\ orphans \in 0..MaxOrphan
  /\ got \in Seq(Nat) /\ lateTimer \in BOOLEAN /\ undef \in BOOLEAN

(* mg_mgr_poll is visiting a connection. *)
Working == {"work", "frames", "reply", "write", "close"}

(* What the pointers say of the list, and what the poll relies on. *)
PlaceInv ==
  /\ SingleConnection
  /\ m_connected <=> m_connection \in conns /\ conn[m_connection].st = "open"
  /\ poll \in Working => cur \in conns /\ todo = {}
  /\ poll = "visit" => todo \subseteq conns
  /\ poll = "connect" => conns = {}
  /\ life = "none" => conns = {} /\ poll = "idle"
  /\ app = "send" => undef \/ target \in Addr

(* The destructor's poll, when the timer is not due: every connection is   *)
(* marked and is on its way to be closed.                                  *)
ClosingInv ==
  /\ life \in {"free", "gone"} /\ ~lateTimer =>
       /\ \A a \in conns : conn[a].closing
       /\ poll \in {"idle", "timer", "visit", "close"}
       /\ poll = "visit" => conns \subseteq todo
       /\ poll = "idle" => conns = {}
  /\ life = "gone" => poll = "idle"
  /\ life = "free" => poll # "idle"

----------------------------------------------------------------------------
(* The frames on the way.  A place in what the server says is a number: 0  *)
(* before the answer to the upgrade request, then 2n when the n-th text is *)
(* next and 2n + 1 inside its fragments.                                   *)

(* The frame f leads from place s to place t. *)
Leads(f, s, t) ==
  \/ f[1] \in {"refuse", "bin", "ping", "close"} /\ t = s
  \/ f[1] = "101" /\ s = 0 /\ t = 2
  \/ f[1] = "text" /\ s = 2 * f[2] /\ t = 2 * f[2] + 2
  \/ f[1] = "first" /\ s = 2 * f[2] /\ t = 2 * f[2] + 1
  \/ f[1] = "last" /\ s = 2 * f[2] + 1 /\ t = 2 * f[2] + 2

(* The frames of q lead from place s to place t. *)
Flow(q, s, t) ==
  \E p \in [1..(Len(q) + 1) -> Nat] :
    /\ p[1] = s /\ p[Len(q) + 1] = t
    /\ \A i \in 1..Len(q) : Leads(q[i], p[i], p[i + 1])

(* Where the server is, and where a client is that has read g texts. *)
ServerPlace(c) ==
  IF c.srv = "wait" THEN 0 ELSE 2 * c.next + IF c.mid THEN 1 ELSE 0

ClientPlace(c, g) ==
  IF c.st # "open" THEN 0 ELSE 2 * (g + 1) + IF c.frag # 0 THEN 1 ELSE 0

(* The server still adds to what is on the way. *)
Sends(c) == c.peer = "up" /\ c.srv # "done"

(* A connection of which the client has read g texts. *)
FlowOK(c, g) ==
  /\ \E t \in Nat : /\ Flow(c.in, ClientPlace(c, g), t)
                    /\ Sends(c) => t = ServerPlace(c)
  /\ c.frag # 0 => c.st = "open" /\ c.frag = g + 1

(* The server's count of its texts. *)
TextsOK(c) ==
  /\ c.next # 0
  /\ c.mid => c.next <= MaxMsg
  /\ c.srv = "wait" => c.next = 1 /\ ~c.mid

TextsInv == \A a \in Addr : TextsOK(conn[a])

StreamInv ==
  /\ \A a \in conns : FlowOK(conn[a], Len(got))
  /\ Len(got) <= MaxMsg
  /\ \A i \in 1..Len(got) : got[i] = i

----------------------------------------------------------------------------
(* Every mg_connection the client can make is well typed. *)
LEMMA FreedType == Freed \in Conn
BY DEF Freed, Conn

(* What may become of a connection that is being resolved is a connection. *)
LEMMA ResolvedType ==
  ASSUME NEW c \in Conn PROVE Resolved(c) \subseteq Conn
<1>1. [c EXCEPT !.st = "connecting", !.fd = TRUE] \in Conn
  BY DEF Conn
<1>2. [c EXCEPT !.st = "handshake", !.fd = TRUE] \in Conn
  BY DEF Conn
<1>3. [c EXCEPT !.st = "handshake", !.fd = TRUE, !.closing = TRUE] \in Conn
  BY DEF Conn
<1>4. [c EXCEPT !.st = "handshake", !.closing = TRUE] \in Conn
  BY DEF Conn
<1> QED
  BY <1>1, <1>2, <1>3, <1>4 DEF Resolved, May

(* mg_ws_connect makes a connection. *)
LEMMA NewConnType == NewConn \subseteq Conn
<1> DEFINE c == [Freed EXCEPT !.out = <<"request">>]
<1>1. c \in Conn
  <2>1. <<"request">> \in Seq({"request", "control", "text"})
    OBVIOUS
  <2> QED
    BY <2>1, FreedType DEF Conn
<1>2. Resolved(c) \subseteq Conn
  BY <1>1, ResolvedType
<1>3. /\ [c EXCEPT !.st = "resolving"] \in Conn
      /\ [c EXCEPT !.st = "resolving", !.closing = TRUE] \in Conn
  BY <1>1 DEF Conn
<1> HIDE DEF c
<1> QED
  BY <1>2, <1>3 DEF NewConn, May, c

(* A new connection has not been upgraded, has asked nobody and has        *)
(* nothing on the way.                                                     *)
LEMMA NewConnState ==
  ASSUME NEW c \in NewConn
  PROVE  /\ c.st # "open" /\ c.in = <<>> /\ c.srv = "wait" /\ c.next = 1
         /\ c.mid = FALSE /\ c.frag = 0
BY ZenonT(30) DEF NewConn, Resolved, May, Freed

(* Queueing a frame changes the send buffer only. *)
LEMMA QueueType ==
  ASSUME conn \in [Addr -> Conn], NEW a \in Addr,
         NEW f \in {"request", "control", "text"}
  PROVE  /\ Queue(a, f) \in [Addr -> Conn]
         /\ \A b \in Addr : Queue(a, f)[b] =
              [conn[b] EXCEPT !.out = Queue(a, f)[b].out]
<1>1. conn[a] \in Conn
  OBVIOUS
<1>2. [conn[a] EXCEPT !.out = Append(@, f)] \in Conn
  <2>1. conn[a].out \in Seq({"request", "control", "text"})
    BY <1>1 DEF Conn
  <2>2. Append(conn[a].out, f) \in Seq({"request", "control", "text"})
    BY <2>1, AppendProperties
  <2> QED
    BY <1>1, <2>2 DEF Conn
<1>3. Queue(a, f) = [conn EXCEPT ![a] = [conn[a] EXCEPT !.out = Append(@, f)]]
  BY DEF Queue
<1>4. \A b \in Addr : conn[b] = [conn[b] EXCEPT !.out = conn[b].out]
  BY DEF Conn
<1>5. Queue(a, f) \in [Addr -> Conn]
  BY <1>2, <1>3
<1>6. ASSUME NEW b \in Addr
      PROVE  Queue(a, f)[b] = [conn[b] EXCEPT !.out = Queue(a, f)[b].out]
  <2>1. CASE b = a
    <3>1. Queue(a, f)[a] = [conn[a] EXCEPT !.out = Append(@, f)]
      BY <1>3
    <3>2. Queue(a, f)[a].out = Append(conn[a].out, f)
      BY <1>1, <3>1 DEF Conn
    <3> QED
      BY <2>1, <3>1, <3>2
  <2>2. CASE b # a
    BY <1>3, <1>4, <2>2
  <2> QED
    BY <2>1, <2>2
<1> QED
  BY <1>5, <1>6

(* The frames of the receive buffer. *)
LEMMA HeadFrame ==
  ASSUME NEW c \in Conn, c.in # <<>>
  PROVE  /\ Head(c.in) \in Frame /\ Tail(c.in) \in Seq(Frame)
         /\ [c EXCEPT !.in = Tail(@)] \in Conn
<1>1. c.in \in Seq(Frame)
  BY DEF Conn
<1>2. Head(c.in) \in Frame /\ Tail(c.in) \in Seq(Frame)
  BY <1>1, HeadTailProperties
<1> QED
  BY <1>2 DEF Conn

(* A visit of mg_mgr_poll keeps the types. *)
LEMMA WorkBase ==
  ASSUME BaseOK, NEW new \in Conn,
         NEW pc \in {"frames", "reply", "write", "close"}, Work(new, pc),
         m_connected' \in BOOLEAN, got' \in Seq(Nat), undef' \in BOOLEAN
  PROVE  BaseOK'
<1>1. conn' \in [Addr -> Conn]
  BY DEF BaseOK, Work
<1>2. poll' \in {"frames", "reply", "write", "close"}
  BY DEF Work
<1>3. UNCHANGED <<life, todo, cur, due, conns, m_connection, m_mutex, app,
                  target, named, calm, orphans, lateTimer>>
  BY DEF Work, appVars, envVars
<1> QED
  BY <1>1, <1>2, <1>3 DEF BaseOK

(* mg_close_conn and mg_ws_connect keep the types. *)
LEMMA CloseBase ==
  ASSUME BaseOK, NEW a \in Addr, MgCloseConn(a)
  PROVE  /\ conns' \subseteq Addr /\ conn' \in [Addr -> Conn]
         /\ m_connection' \in Addr \union {Null} /\ m_connected' \in BOOLEAN
         /\ undef' \in BOOLEAN
<1>1. undef' \in BOOLEAN
  BY Zenon DEF MgCloseConn, InUse
<1> QED
  BY <1>1, FreedType DEF BaseOK, MgCloseConn

(* A new connection is entered into the list. *)
LEMMA ConnectBase ==
  ASSUME BaseOK, WsConnect
  PROVE  /\ conns' \subseteq Addr /\ conn' \in [Addr -> Conn]
         /\ m_connection' \in Addr
BY NewConnType DEF BaseOK, WsConnect

(* Every step of the poll keeps the types. *)
LEMMA PollBase ==
  ASSUME BaseOK, PlaceInv, PollNext PROVE BaseOK'
<1>0. poll \in Working => cur \in Addr /\ conn[cur] \in Conn
  BY DEF PlaceInv, BaseOK
<1>1. CASE PollBegin
  BY <1>1 DEF BaseOK, PollBegin, ptrVars, appVars, envVars
<1>2. CASE NotDue
  BY <1>2 DEF BaseOK, NotDue, ptrVars, appVars, envVars
<1>3. CASE TimerPing
  <2>1. m_connection \in Addr
    BY <1>3 DEF TimerPing, PlaceInv, BaseOK
  <2>2. conn' \in [Addr -> Conn]
    BY <1>3, <2>1, QueueType DEF TimerPing, BaseOK
  <2>3. lateTimer' \in BOOLEAN /\ due' \in BOOLEAN
    BY <1>3, Zenon DEF TimerPing
  <2> QED
    BY <1>3, <2>2, <2>3 DEF BaseOK, TimerPing, ptrVars, appVars, envVars
<1>4. CASE TimerClose
  <2>1. lateTimer' \in BOOLEAN /\ due' \in BOOLEAN
    BY <1>4, Zenon DEF TimerClose
  <2>2. /\ conns' \subseteq Addr /\ conn' \in [Addr -> Conn]
        /\ m_connection' \in Addr \union {Null} /\ m_connected' \in BOOLEAN
        /\ undef' \in BOOLEAN
    <3>1. CASE m_connection # Null
      BY <1>4, <3>1, CloseBase DEF TimerClose, BaseOK
    <3>2. CASE m_connection = Null
      BY <1>4, <3>2 DEF TimerClose, BaseOK, ptrVars
    <3> QED
      BY <3>1, <3>2
  <2>3. orphans' \in 0..MaxOrphan
    BY <1>4, WSAssumption DEF TimerClose, BaseOK, Orphan
  <2> QED
    BY <1>4, <2>1, <2>2, <2>3 DEF BaseOK, TimerClose, appVars, envVars
<1>5. CASE TimerConnect
  BY <1>5, ConnectBase DEF BaseOK, TimerConnect, appVars, envVars
<1>6. CASE Visit
  <2>1. /\ life' \in {"none", "run", "stop", "free", "gone"}
        /\ poll' \in {"idle", "close", "work"}
        /\ todo' \subseteq Addr /\ cur' \in Addr \union {Null}
    BY <1>6 DEF Visit, BaseOK
  <2> QED
    BY <1>6, <2>1 DEF BaseOK, Visit, ptrVars, appVars, envVars
<1>7. ASSUME Silent
      PROVE  m_connected' \in BOOLEAN /\ got' \in Seq(Nat) /\ undef' \in BOOLEAN
  BY <1>7 DEF Silent, BaseOK
<1>8. ASSUME NEW new \in Conn, NEW pc \in {"frames", "reply", "write", "close"},
             Work(new, pc), Silent
      PROVE  BaseOK'
  BY <1>7, <1>8, WorkBase
<1>9. CASE DnsDone
  <2>1. PICK c \in Resolved(conn[cur]) : Work(c, "close")
    BY <1>9 DEF DnsDone
  <2>2. c \in Conn
    BY <1>0, <1>9, ResolvedType DEF DnsDone, At, Working
  <2> QED
    BY <1>8, <1>9, <2>1, <2>2 DEF DnsDone
<1>10. CASE DnsFailed \/ ConnectDone \/ ConnectFailed
  <2>1. conn[cur] \in Conn
    BY <1>0, <1>10 DEF DnsFailed, ConnectDone, ConnectFailed, At, Working
  <2>2. /\ [conn[cur] EXCEPT !.closing = TRUE] \in Conn
        /\ [conn[cur] EXCEPT !.st = "handshake"] \in Conn
        /\ [conn[cur] EXCEPT !.st = "handshake", !.closing = TRUE] \in Conn
    BY <2>1 DEF Conn
  <2> QED
    BY <1>8, <1>10, <2>2 DEF DnsFailed, ConnectDone, ConnectFailed
<1>11. CASE NotReady
  BY <1>0, <1>8, <1>11 DEF NotReady, Working
<1>12. CASE ReadNext
  <2>0. cur \in Addr /\ conn[cur] \in Conn
    BY <1>0, <1>12
    DEF ReadNext, ReadUpgrade, ReadClosing, ReadPing, ReadBinary, ReadText,
        ReadFirst, ReadLast, ReadEof, Reading, Working
  <2>1. CASE ReadEof
    <3>1. [conn[cur] EXCEPT !.closing = TRUE] \in Conn
      BY <2>0 DEF Conn
    <3> QED
      BY <1>8, <2>1, <3>1 DEF ReadEof
  <2>2. ASSUME conn[cur].in # <<>>
        PROVE  Head(conn[cur].in) \in Frame /\ Taken \in Conn
    BY <2>0, <2>2, HeadFrame DEF Taken
  <2>3. CASE ReadUpgrade
    <3>1. [Taken EXCEPT !.st = "open"] \in Conn
      BY <2>2, <2>3 DEF ReadUpgrade, Reading, Conn
    <3>2. m_connected' \in BOOLEAN /\ got' \in Seq(Nat) /\ undef' \in BOOLEAN
      BY <2>3 DEF ReadUpgrade, BaseOK
    <3> QED
      BY <2>3, <3>1, <3>2, WorkBase DEF ReadUpgrade
  <2>4. CASE ReadClosing
    <3>1. [Taken EXCEPT !.closing = TRUE] \in Conn
      BY <2>2, <2>4 DEF ReadClosing, Reading, Conn
    <3> QED
      BY <1>8, <2>4, <3>1 DEF ReadClosing
  <2>5. CASE ReadPing
    <3>1. Taken \in Conn
      BY <2>2, <2>5 DEF ReadPing, Reading
    <3>2. Taken.out \in Seq({"request", "control", "text"})
      BY <3>1 DEF Conn
    <3>3. Append(Taken.out, "control") \in Seq({"request", "control", "text"})
      BY <3>2, AppendProperties
    <3>4. [Taken EXCEPT !.out = Append(@, "control")] \in Conn
      BY <3>1, <3>3 DEF Conn
    <3>5. undef' \in BOOLEAN
      BY <2>5, Zenon DEF ReadPing, InUse
    <3>6. m_connected' \in BOOLEAN /\ got' \in Seq(Nat)
      BY <2>5 DEF ReadPing, BaseOK
    <3> QED
      BY <2>5, <3>4, <3>5, <3>6, WorkBase DEF ReadPing
  <2>6. CASE ReadBinary
    BY <1>8, <2>2, <2>6 DEF ReadBinary, Reading
  <2>7. CASE ReadText
    <3>1. Head(conn[cur].in)[2] \in Nat
      BY <2>7, WSAssumption DEF ReadText, Reading
    <3>2. m_connected' \in BOOLEAN /\ got' \in Seq(Nat) /\ undef' \in BOOLEAN
      BY <2>7, <3>1, AppendProperties DEF ReadText, BaseOK
    <3> QED
      BY <2>2, <2>7, <3>2, WorkBase DEF ReadText, Reading
  <2>8. CASE ReadFirst
    <3>1. Head(conn[cur].in)[2] \in Nat
      BY <2>8, WSAssumption DEF ReadFirst, Reading
    <3>2. [Taken EXCEPT !.frag = Head(conn[cur].in)[2]] \in Conn
      BY <2>2, <2>8, <3>1 DEF ReadFirst, Reading, Conn
    <3> QED
      BY <1>8, <2>8, <3>2 DEF ReadFirst
  <2>9. CASE ReadLast
    <3>1. conn[cur].frag \in Nat
      BY <2>0 DEF Conn
    <3>2. m_connected' \in BOOLEAN /\ got' \in Seq(Nat) /\ undef' \in BOOLEAN
      BY <2>9, <3>1, AppendProperties DEF ReadLast, BaseOK
    <3>3. [Taken EXCEPT !.frag = 0] \in Conn
      BY <2>2, <2>9 DEF ReadLast, Reading, Conn
    <3> QED
      BY <2>9, <3>2, <3>3, WorkBase DEF ReadLast
  <2> QED
    BY <1>12, <2>1, <2>3, <2>4, <2>5, <2>6, <2>7, <2>8, <2>9 DEF ReadNext
<1>13. CASE Callback
  <2>1. CASE Work(conn[cur], "frames")
    BY <1>0, <1>8, <1>13, <2>1 DEF Callback, Working
  <2>2. CASE /\ m_connection # Null /\ conn' = Queue(m_connection, "text")
             /\ poll' = "frames"
             /\ UNCHANGED <<life, todo, cur, due, conns, m_connection, m_mutex,
                            appVars, envVars, orphans, lateTimer>>
    <3>1. conn' \in [Addr -> Conn]
      BY <2>2, QueueType DEF BaseOK
    <3> QED
      BY <1>7, <1>13, <2>2, <3>1 DEF BaseOK, Callback, appVars, envVars
  <2> QED
    BY <1>13, <2>1, <2>2 DEF Callback
<1>14. CASE Write
  <2>1. conn[cur] \in Conn
    BY <1>0, <1>14 DEF Write, Working
  <2>2. PICK n \in 1..Len(conn[cur].out) :
          Work([conn[cur] EXCEPT !.out = SubSeq(@, n + 1, Len(@)),
                 !.asked = @ \/ "request" \in Range(SubSeq(conn[cur].out, 1, n))],
               "close")
    BY <1>14 DEF Write
  <2> DEFINE o == SubSeq(conn[cur].out, n + 1, Len(conn[cur].out))
             k == conn[cur].asked \/ "request" \in Range(SubSeq(conn[cur].out, 1, n))
  <2>3. conn[cur].out \in Seq({"request", "control", "text"})
    BY <2>1 DEF Conn
  <2>4. o \in Seq({"request", "control", "text"})
    BY <2>3, SubSeqProperties
  <2>5. k \in BOOLEAN
    BY Zenon
  <2>6. Work([conn[cur] EXCEPT !.out = o, !.asked = k], "close")
    BY <2>2
  <2> HIDE DEF o, k
  <2>7. [conn[cur] EXCEPT !.out = o, !.asked = k] \in Conn
    BY <2>1, <2>4, <2>5 DEF Conn
  <2>8. undef' \in BOOLEAN
    BY <1>14, Zenon DEF Write, InUse
  <2>9. m_connected' \in BOOLEAN /\ got' \in Seq(Nat)
    BY <1>14 DEF Write, BaseOK
  <2> QED
    BY <2>6, <2>7, <2>8, <2>9, WorkBase
<1>15. CASE CloseConn
  <2>1. cur \in Addr
    BY <1>0, <1>15 DEF CloseConn, Working
  <2>2. /\ conns' \subseteq Addr /\ conn' \in [Addr -> Conn]
        /\ m_connection' \in Addr \union {Null} /\ m_connected' \in BOOLEAN
        /\ undef' \in BOOLEAN
    <3>1. CASE conn[cur].closing
      BY <1>15, <2>1, <3>1, CloseBase DEF CloseConn
    <3>2. CASE ~conn[cur].closing
      BY <1>15, <3>2 DEF CloseConn, BaseOK, ptrVars
    <3> QED
      BY <3>1, <3>2
  <2> QED
    BY <1>15, <2>2 DEF BaseOK, CloseConn, appVars, envVars
<1> QED
  BY <1>1, <1>2, <1>3, <1>4, <1>5, <1>6, <1>9, <1>10, <1>11, <1>12, <1>13,
     <1>14, <1>15
  DEF PollNext

(* What the server and the network may do to a connection c: they leave    *)
(* the client's side alone, and either add a frame that goes on from where *)
(* the server is, or lose what is on the way and never add again.          *)
PeerChange(c, new) ==
  /\ new \in Conn /\ TextsOK(new)
  /\ new.st = c.st /\ new.closing = c.closing /\ new.frag = c.frag
  /\ \/ /\ Sends(c)
        /\ \E f \in Frame, t \in Nat :
             /\ new.in = Append(c.in, f) /\ Leads(f, ServerPlace(c), t)
             /\ Sends(new) => t = ServerPlace(new)
     \/ new.peer # "up" /\ new.in \in {<<>>, c.in}

(* The step of a peer is such a change. *)
LEMMA PeerStep ==
  ASSUME conn \in [Addr -> Conn], conns \subseteq Addr, TextsInv, PeerNext
  PROVE  \E a \in conns, new \in Conn : Peer(a, new) /\ PeerChange(conn[a], new)
<1>1. PICK a \in Addr : \/ Accept(a) \/ Refuse(a) \/ ServerSend(a) \/ PeerGone(a)
  BY DEF PeerNext
<1> DEFINE c == conn[a]
<1>2. /\ a \in conns /\ c \in Conn /\ c.in \in Seq(Frame) /\ <<>> \in Seq(Frame)
      /\ \A f \in Frame : Append(c.in, f) \in Seq(Frame)
  <2>1. a \in conns
    BY <1>1 DEF Accept, Refuse, ServerSend, PeerGone, Talking
  <2>2. c.in \in Seq(Frame)
    BY DEF Conn
  <2> QED
    BY <2>1, <2>2, AppendProperties
<1>3. c.next \in Nat /\ c.mid \in BOOLEAN /\ MaxMsg \in Nat /\ TextsOK(c)
  BY <1>2, WSAssumption DEF Conn, TextsInv
<1>4. SUFFICES \E new : Peer(a, new) /\ PeerChange(c, new)
  BY <1>2 DEF PeerChange
<1> HIDE DEF c
<1>5. CASE Accept(a)
  <2> DEFINE f == <<"101", 0>>
             new == [c EXCEPT !.in = Append(@, f), !.srv = "open"]
  <2>1. Peer(a, new) /\ Sends(c) /\ c.srv = "wait" /\ f \in Frame
    BY <1>5 DEF Accept, Talking, Sends, Frame, c
  <2>2. /\ new \in Conn /\ new.st = c.st /\ new.closing = c.closing
        /\ new.frag = c.frag /\ new.in = Append(c.in, f) /\ new.srv = "open"
        /\ new.next = c.next /\ new.mid = c.mid
    BY <1>2, <2>1 DEF Conn
  <2>3. Leads(f, ServerPlace(c), 2) /\ ServerPlace(new) = 2
    BY <1>3, <2>1, <2>2 DEF Leads, ServerPlace, TextsOK
  <2>4. TextsOK(new)
    BY <1>3, <2>2 DEF TextsOK
  <2> QED
    BY <2>1, <2>2, <2>3, <2>4 DEF PeerChange
<1>6. CASE Refuse(a)
  <2> DEFINE f == <<"refuse", 0>>
             new == [c EXCEPT !.in = Append(@, f), !.srv = "done"]
  <2>1. Peer(a, new) /\ Sends(c) /\ c.srv = "wait" /\ f \in Frame
    BY <1>6 DEF Refuse, Talking, Sends, Frame, c
  <2>2. /\ new \in Conn /\ new.st = c.st /\ new.closing = c.closing
        /\ new.frag = c.frag /\ new.in = Append(c.in, f) /\ new.srv = "done"
        /\ new.next = c.next /\ new.mid = c.mid
    BY <1>2, <2>1 DEF Conn
  <2>3. Leads(f, ServerPlace(c), 0) /\ ~Sends(new)
    BY <2>1, <2>2 DEF Leads, ServerPlace, Sends
  <2>4. TextsOK(new)
    BY <1>3, <2>2 DEF TextsOK
  <2> QED
    BY <2>1, <2>2, <2>3, <2>4 DEF PeerChange
<1>7. CASE ServerSend(a)
  <2> DEFINE Sent(f) == [c EXCEPT !.in = Append(@, f)]
  <2>0. Sends(c) /\ c.srv = "open" /\ c.peer = "up"
    BY <1>7 DEF ServerSend, Talking, Sends, c
  <2>1. /\ c.srv \in {"open"} /\ ServerPlace(c) = 2 * c.next + IF c.mid THEN 1 ELSE 0
        /\ ServerPlace(c) \in Nat
    BY <1>3, <2>0 DEF ServerPlace
  <2>2. ASSUME NEW f \in {<<"ping", 0>>, <<"bin", 0>>}, Peer(a, Sent(f))
        PROVE  \E new : Peer(a, new) /\ PeerChange(c, new)
    <3> DEFINE new == Sent(f)
    <3>1. f \in Frame
      BY <2>2 DEF Frame
    <3>2. /\ new \in Conn /\ new.st = c.st /\ new.closing = c.closing
          /\ new.frag = c.frag /\ new.in = Append(c.in, f) /\ new.srv = c.srv
          /\ new.next = c.next /\ new.mid = c.mid
      BY <1>2, <3>1 DEF Conn
    <3>3. Leads(f, ServerPlace(c), ServerPlace(c)) /\ ServerPlace(new) = ServerPlace(c)
      BY <2>2, <3>2 DEF Leads, ServerPlace
    <3>4. TextsOK(new)
      BY <1>3, <3>2 DEF TextsOK
    <3> HIDE DEF new
    <3> QED
      BY <2>0, <2>1, <2>2, <3>1, <3>2, <3>3, <3>4 DEF PeerChange, new
  <2>3. ASSUME Peer(a, [Sent(<<"close", 0>>) EXCEPT !.srv = "done"])
        PROVE  \E new : Peer(a, new) /\ PeerChange(c, new)
    <3> DEFINE f == <<"close", 0>>
               new == [Sent(f) EXCEPT !.srv = "done"]
    <3>1. f \in Frame
      BY DEF Frame
    <3>2. /\ new \in Conn /\ new.st = c.st /\ new.closing = c.closing
          /\ new.frag = c.frag /\ new.in = Append(c.in, f) /\ new.srv = "done"
          /\ new.next = c.next /\ new.mid = c.mid
      BY <1>2, <3>1 DEF Conn
    <3>3. Leads(f, ServerPlace(c), ServerPlace(c)) /\ ~Sends(new)
      BY <3>2 DEF Leads, Sends
    <3>4. TextsOK(new)
      BY <1>3, <3>2 DEF TextsOK
    <3> HIDE DEF new
    <3> QED
      BY <2>0, <2>1, <2>3, <3>1, <3>2, <3>3, <3>4 DEF PeerChange, new
  <2>4. ASSUME ~c.mid, c.next <= MaxMsg,
               Peer(a, [Sent(<<"text", c.next>>) EXCEPT !.next = @ + 1])
        PROVE  \E new : Peer(a, new) /\ PeerChange(c, new)
    <3> DEFINE f == <<"text", c.next>>
               new == [Sent(f) EXCEPT !.next = @ + 1]
    <3>1. f \in Frame
      BY <1>3, <2>4 DEF Frame, TextsOK
    <3>2. /\ new \in Conn /\ new.st = c.st /\ new.closing = c.closing
          /\ new.frag = c.frag /\ new.in = Append(c.in, f) /\ new.srv = c.srv
          /\ new.next = c.next + 1 /\ new.mid = c.mid
      <4> DEFINE g == Sent(f)
      <4>1. /\ g \in Conn /\ g.st = c.st /\ g.closing = c.closing
            /\ g.frag = c.frag /\ g.in = Append(c.in, f) /\ g.srv = c.srv
            /\ g.next = c.next /\ g.mid = c.mid
        BY <1>2, <3>1 DEF Conn
      <4>2. new = [g EXCEPT !.next = @ + 1]
        OBVIOUS
      <4>3. g.next + 1 \in Nat
        BY <1>3, <4>1
      <4> HIDE DEF g, new, f
      <4> QED
        BY <4>1, <4>2, <4>3 DEF Conn
    <3>3. Leads(f, ServerPlace(c), 2 * c.next + 2)
          /\ ServerPlace(new) = 2 * c.next + 2 /\ 2 * c.next + 2 \in Nat
      BY <1>3, <2>0, <2>1, <2>4, <3>2, SMTT(30) DEF Leads, ServerPlace
    <3>4. TextsOK(new)
      BY <1>3, <2>0, <2>4, <3>2 DEF TextsOK
    <3> HIDE DEF new
    <3> QED
      BY <2>0, <2>4, <3>1, <3>2, <3>3, <3>4 DEF PeerChange, new
  <2>5. ASSUME ~c.mid, c.next <= MaxMsg,
               Peer(a, [Sent(<<"first", c.next>>) EXCEPT !.mid = TRUE])
        PROVE  \E new : Peer(a, new) /\ PeerChange(c, new)
    <3> DEFINE f == <<"first", c.next>>
               new == [Sent(f) EXCEPT !.mid = TRUE]
    <3>1. f \in Frame
      BY <1>3, <2>5 DEF Frame, TextsOK
    <3>2. /\ new \in Conn /\ new.st = c.st /\ new.closing = c.closing
          /\ new.frag = c.frag /\ new.in = Append(c.in, f) /\ new.srv = c.srv
          /\ new.next = c.next /\ new.mid = TRUE
      BY <1>2, <3>1 DEF Conn
    <3>3. Leads(f, ServerPlace(c), 2 * c.next + 1)
          /\ ServerPlace(new) = 2 * c.next + 1 /\ 2 * c.next + 1 \in Nat
      <4> HIDE DEF new
      <4>1. ServerPlace(new) = 2 * c.next + 1
        BY <1>3, <2>0, <3>2 DEF ServerPlace
      <4>2. ServerPlace(c) = 2 * c.next
        BY <1>3, <2>1, <2>5
      <4> QED
        BY <1>3, <4>1, <4>2 DEF Leads
    <3>4. TextsOK(new)
      BY <1>3, <2>0, <2>5, <3>2 DEF TextsOK
    <3> HIDE DEF new
    <3> QED
      BY <2>0, <2>5, <3>1, <3>2, <3>3, <3>4 DEF PeerChange, new
  <2>6. ASSUME c.mid,
               Peer(a, [Sent(<<"last", c.next>>) EXCEPT !.mid = FALSE, !.next = @ + 1])
        PROVE  \E new : Peer(a, new) /\ PeerChange(c, new)
    <3> DEFINE f == <<"last", c.next>>
               new == [Sent(f) EXCEPT !.mid = FALSE, !.next = @ + 1]
    <3>1. f \in Frame
      BY <1>3, <2>6 DEF Frame, TextsOK
    <3>2. /\ new \in Conn /\ new.st = c.st /\ new.closing = c.closing
          /\ new.frag = c.frag /\ new.in = Append(c.in, f) /\ new.srv = c.srv
          /\ new.next = c.next + 1 /\ new.mid = FALSE
      <4> DEFINE g == Sent(f)
      <4>1. /\ g \in Conn /\ g.st = c.st /\ g.closing = c.closing
            /\ g.frag = c.frag /\ g.in = Append(c.in, f) /\ g.srv = c.srv
            /\ g.next = c.next /\ g.mid = c.mid
        BY <1>2, <3>1 DEF Conn
      <4>2. new = [g EXCEPT !.mid = FALSE, !.next = @ + 1]
        OBVIOUS
      <4>3. g.next + 1 \in Nat
        BY <1>3, <4>1
      <4> HIDE DEF g, new, f
      <4> QED
        BY <4>1, <4>2, <4>3 DEF Conn
    <3>3. Leads(f, ServerPlace(c), 2 * c.next + 2)
          /\ ServerPlace(new) = 2 * c.next + 2 /\ 2 * c.next + 2 \in Nat
      <4> HIDE DEF new
      <4>1. ServerPlace(new) = 2 * c.next + 2
        BY <1>3, <2>0, <3>2 DEF ServerPlace
      <4>2. ServerPlace(c) = 2 * c.next + 1
        BY <1>3, <2>1, <2>6
      <4> QED
        BY <1>3, <4>1, <4>2 DEF Leads
    <3>4. TextsOK(new)
      BY <1>3, <2>0, <3>2 DEF TextsOK
    <3> HIDE DEF new
    <3> QED
      BY <2>0, <2>6, <3>1, <3>2, <3>3, <3>4 DEF PeerChange, new
  <2> QED
    BY <1>7, <2>2, <2>3, <2>4, <2>5, <2>6 DEF ServerSend, c
<1>8. CASE PeerGone(a)
  <2>1. ASSUME NEW p \in {"gone", "silent"},
               Peer(a, [c EXCEPT !.in = <<>>, !.peer = p])
        PROVE  \E new : Peer(a, new) /\ PeerChange(c, new)
    <3> DEFINE new == [c EXCEPT !.in = <<>>, !.peer = p]
    <3>1. /\ new \in Conn /\ new.st = c.st /\ new.closing = c.closing
          /\ new.frag = c.frag /\ new.in = <<>> /\ new.peer # "up"
          /\ new.srv = c.srv /\ new.next = c.next /\ new.mid = c.mid
      BY <1>2 DEF Conn
    <3>2. TextsOK(new)
      BY <1>3, <3>1 DEF TextsOK
    <3> HIDE DEF new
    <3> QED
      BY <2>1, <3>1, <3>2 DEF PeerChange, new
  <2>2. ASSUME Peer(a, [c EXCEPT !.peer = "gone"])
        PROVE  \E new : Peer(a, new) /\ PeerChange(c, new)
    <3> DEFINE new == [c EXCEPT !.peer = "gone"]
    <3>1. /\ new \in Conn /\ new.st = c.st /\ new.closing = c.closing
          /\ new.frag = c.frag /\ new.in = c.in /\ new.peer # "up"
          /\ new.srv = c.srv /\ new.next = c.next /\ new.mid = c.mid
      BY <1>2 DEF Conn
    <3>2. TextsOK(new)
      BY <1>3, <3>1 DEF TextsOK
    <3> HIDE DEF new
    <3> QED
      BY <2>2, <3>1, <3>2 DEF PeerChange, new
  <2> QED
    BY <1>8, <2>1, <2>2 DEF PeerGone, c
<1> QED
  BY <1>1, <1>5, <1>6, <1>7, <1>8

(* Every step keeps the types. *)
LEMMA BaseNext ==
  BaseOK /\ PlaceInv /\ TextsInv /\ [Next]_vars => BaseOK'
<1> SUFFICES ASSUME BaseOK, PlaceInv, TextsInv, [Next]_vars PROVE BaseOK'
  OBVIOUS
<1>1. CASE UNCHANGED vars
  BY <1>1 DEF BaseOK, vars, pollVars, ptrVars, appVars, envVars
<1>2. CASE PollNext
  BY <1>2, PollBase
<1>3. CASE PeerNext
  <2>1. PICK a \in conns, new \in Conn : Peer(a, new) /\ PeerChange(conn[a], new)
    BY <1>3, PeerStep DEF BaseOK
  <2>2. conn' \in [Addr -> Conn]
    BY <2>1 DEF Peer, BaseOK
  <2> QED
    BY <2>1, <2>2 DEF BaseOK, Peer, pollVars, ptrVars, appVars, envVars
<1>4. CASE Construct
  BY <1>4, ConnectBase DEF BaseOK, Construct, pollVars, appVars, envVars
<1>5. CASE Stop
  BY <1>5 DEF BaseOK, Stop, pollVars, ptrVars, appVars, envVars
<1>6. CASE Destroy
  <2>1. ASSUME NEW a \in Addr PROVE [conn[a] EXCEPT !.closing = TRUE] \in Conn
    <3>1. conn[a] \in Conn
      BY DEF BaseOK
    <3> QED
      BY <3>1 DEF Conn
  <2>2. conn' \in [Addr -> Conn]
    BY <1>6, <2>1 DEF BaseOK, Destroy
  <2> QED
    BY <1>6, <2>2 DEF BaseOK, Destroy, ptrVars, appVars, envVars
<1>7. CASE SendTest
  BY <1>7 DEF BaseOK, SendTest, pollVars, ptrVars, envVars
<1>8. CASE SendLock
  <2>1. undef' \in BOOLEAN
    BY <1>8, Zenon DEF SendLock
  <2> QED
    BY <1>8, <2>1 DEF BaseOK, SendLock, pollVars, ptrVars, envVars
<1>9. ASSUME SendEnd, ~undef PROVE BaseOK'
  <2>1. target \in Addr
    BY <1>9 DEF SendEnd, PlaceInv
  <2>2. conn' \in [Addr -> Conn]
    BY <1>9, <2>1, QueueType DEF SendEnd, BaseOK
  <2> QED
    BY <1>9, <2>2 DEF BaseOK, SendEnd, pollVars, ptrVars, envVars
<1>10. CASE TimerDue
  BY <1>10 DEF BaseOK, TimerDue, pollVars, ptrVars, appVars, envVars
<1>11. CASE Calm
  BY <1>11 DEF BaseOK, Calm, pollVars, ptrVars, appVars
<1> QED
  BY <1>1, <1>2, <1>3, <1>4, <1>5, <1>6, <1>7, <1>8, <1>9, <1>10, <1>11
  DEF Next, Halt, AppNext

----------------------------------------------------------------------------
(* What a step leaves as it was.                                           *)

(* The server's side of a connection, and its mark. *)
Kept(c, new) ==
  /\ new.next = c.next /\ new.mid = c.mid /\ new.srv = c.srv
  /\ new.peer = c.peer
  /\ c.closing => new.closing

(* Also what has been read of it. *)
Same(c, new) ==
  /\ Kept(c, new) /\ new.in = c.in /\ new.frag = c.frag
  /\ new.st = "open" <=> c.st = "open"

(* A connection that nobody touches is the same. *)
LEMMA SameRefl == \A c : Same(c, c)
BY DEF Same, Kept

(* A frame put on a send buffer. *)
LEMMA QueueSame ==
  ASSUME conn \in [Addr -> Conn], NEW a \in Addr,
         NEW f \in {"request", "control", "text"}, conn' = Queue(a, f)
  PROVE  \A b \in Addr : Same(conn[b], conn'[b])
<1> SUFFICES ASSUME NEW b \in Addr PROVE Same(conn[b], conn'[b])
  OBVIOUS
<1> DEFINE o == Queue(a, f)[b].out
<1>1. conn'[b] = [conn[b] EXCEPT !.out = o]
  BY QueueType
<1> HIDE DEF o
<1>2. conn[b] \in Conn
  OBVIOUS
<1> QED
  BY <1>1, <1>2 DEF Same, Kept, Conn

(* A visit that does not read. *)
LEMMA WorkSame ==
  ASSUME BaseOK, NEW new, NEW pc, Work(new, pc), Same(conn[cur], new)
  PROVE  /\ \A a \in Addr : Same(conn[a], conn'[a])
         /\ UNCHANGED <<conns, m_connection>>
<1>1. \A a \in Addr : conn'[a] = IF a = cur THEN new ELSE conn[a]
  BY DEF BaseOK, Work
<1> QED
  BY <1>1, SameRefl DEF Work

(* The steps that neither read nor open nor close a connection. *)
Quiet == \/ PollBegin \/ NotDue \/ TimerPing \/ Visit \/ DnsDone \/ DnsFailed
         \/ ConnectDone \/ ConnectFailed \/ NotReady \/ ReadEof \/ Callback
         \/ Write \/ Stop \/ Destroy \/ SendTest \/ SendLock \/ SendEnd
         \/ TimerDue \/ Calm

(* The quiet steps leave every connection the same. *)
LEMMA QuietSame ==
  ASSUME BaseOK, PlaceInv, ~undef, Quiet
  PROVE  /\ UNCHANGED <<conns, m_connection, m_connected, got>>
         /\ \A a \in Addr : Same(conn[a], conn'[a])
<1>0. poll \in Working => cur \in Addr /\ conn[cur] \in Conn
  BY DEF PlaceInv, BaseOK
<1>1. CASE PollBegin \/ NotDue \/ Visit
  BY <1>1, SameRefl DEF PollBegin, NotDue, Visit, ptrVars
<1>2. CASE Stop \/ SendTest \/ SendLock \/ TimerDue \/ Calm
  BY <1>2, SameRefl DEF Stop, SendTest, SendLock, TimerDue, Calm, ptrVars
<1>3. CASE TimerPing
  <2>1. m_connection \in Addr
    BY <1>3 DEF TimerPing, PlaceInv, BaseOK
  <2> QED
    BY <1>3, <2>1, QueueSame DEF TimerPing, ptrVars, BaseOK
<1>4. CASE SendEnd
  <2>1. target \in Addr
    BY <1>4 DEF SendEnd, PlaceInv
  <2> QED
    BY <1>4, <2>1, QueueSame DEF SendEnd, ptrVars, BaseOK
<1>5. CASE Callback
  <2>1. CASE Work(conn[cur], "frames")
    BY <1>5, <2>1, SameRefl, WorkSame DEF Callback, Silent
  <2>2. CASE /\ m_connection # Null /\ conn' = Queue(m_connection, "text")
             /\ UNCHANGED <<conns, m_connection>>
    BY <1>5, <2>2, QueueSame DEF Callback, Silent, BaseOK
  <2> QED
    BY <1>5, <2>1, <2>2 DEF Callback
<1>6. CASE NotReady
  BY <1>6, SameRefl, WorkSame DEF NotReady, Silent
<1>7. CASE DnsDone
  <2>1. PICK c \in Resolved(conn[cur]) : Work(c, "close")
    BY <1>7 DEF DnsDone
  <2>2. conn[cur] \in Conn /\ conn[cur].st = "resolving"
    BY <1>0, <1>7 DEF DnsDone, At, Working
  <2>3. Same(conn[cur], c)
    <3>1. \/ c = [conn[cur] EXCEPT !.st = "connecting", !.fd = TRUE]
          \/ c = [conn[cur] EXCEPT !.st = "handshake", !.fd = TRUE]
          \/ c = [conn[cur] EXCEPT !.st = "handshake", !.fd = TRUE, !.closing = TRUE]
          \/ c = [conn[cur] EXCEPT !.st = "handshake", !.closing = TRUE]
      BY <2>1 DEF Resolved, May
    <3> QED
      BY <2>2, <3>1 DEF Same, Kept, Conn
  <2> QED
    BY <1>7, <2>1, <2>3, WorkSame DEF DnsDone, Silent
<1>8. CASE DnsFailed \/ ConnectDone \/ ConnectFailed
  <2>1. conn[cur] \in Conn /\ conn[cur].st # "open"
    BY <1>0, <1>8 DEF DnsFailed, ConnectDone, ConnectFailed, At, Working
  <2>2. /\ Same(conn[cur], [conn[cur] EXCEPT !.closing = TRUE])
        /\ Same(conn[cur], [conn[cur] EXCEPT !.st = "handshake"])
        /\ Same(conn[cur], [conn[cur] EXCEPT !.st = "handshake", !.closing = TRUE])
    BY <2>1 DEF Same, Kept, Conn
  <2> QED
    BY <1>8, <2>2, WorkSame DEF DnsFailed, ConnectDone, ConnectFailed, Silent
<1>9. CASE ReadEof
  <2>1. conn[cur] \in Conn
    BY <1>0, <1>9 DEF ReadEof, Working
  <2>2. Same(conn[cur], [conn[cur] EXCEPT !.closing = TRUE])
    BY <2>1 DEF Same, Kept, Conn
  <2> QED
    BY <1>9, <2>2, WorkSame DEF ReadEof, Silent
<1>10. CASE Write
  <2>1. conn[cur] \in Conn
    BY <1>0, <1>10 DEF Write, Working
  <2>2. PICK o, k : Work([conn[cur] EXCEPT !.out = o, !.asked = k], "close")
    BY <1>10 DEF Write
  <2>3. Same(conn[cur], [conn[cur] EXCEPT !.out = o, !.asked = k])
    BY <2>1 DEF Same, Kept, Conn
  <2> QED
    BY <1>10, <2>2, <2>3, WorkSame DEF Write
<1>11. CASE Destroy
  <2>1. \A a \in Addr : Same(conn[a], [conn[a] EXCEPT !.closing = TRUE])
    BY DEF Same, Kept, Conn, BaseOK
  <2> QED
    BY <1>11, <2>1, SameRefl DEF Destroy, ptrVars
<1> QED
  BY <1>1, <1>2, <1>3, <1>4, <1>5, <1>6, <1>7, <1>8, <1>9, <1>10, <1>11 DEF Quiet

(* The steps that read a frame. *)
ReadFrame == \/ ReadUpgrade \/ ReadClosing \/ ReadPing \/ ReadBinary
             \/ ReadText \/ ReadFirst \/ ReadLast

(* A frame is read from m_connection; only the answer to the upgrade       *)
(* request opens it.                                                       *)
LEMMA ReadChange ==
  ASSUME BaseOK, PlaceInv, ReadFrame
  PROVE  /\ cur \in conns /\ cur = m_connection /\ conn[cur] \in Conn
         /\ conn[cur].in # <<>>
         /\ conn' = [conn EXCEPT ![cur] = conn'[cur]]
         /\ conn'[cur].in = Tail(conn[cur].in)
         /\ Kept(conn[cur], conn'[cur])
         /\ ~ReadUpgrade => UNCHANGED m_connected /\ conn'[cur].st = conn[cur].st
         /\ ReadUpgrade => conn'[cur].st = "open" /\ m_connected' = TRUE
         /\ UNCHANGED <<life, todo, cur, due, conns, m_connection, appVars, lateTimer>>
         /\ poll \in {"work", "frames"} /\ poll' \in {"frames", "reply"}
<1>1. /\ poll \in {"work", "frames"} /\ conn[cur].in # <<>>
      /\ \E new, pc : Work(new, pc)
  BY DEF ReadFrame, ReadUpgrade, ReadClosing, ReadPing, ReadBinary, ReadText,
         ReadFirst, ReadLast, Reading
<1>2. cur \in conns /\ cur = m_connection /\ cur \in Addr /\ conn[cur] \in Conn
  BY <1>1 DEF PlaceInv, SingleConnection, BaseOK, Working
<1>3. ASSUME NEW new, NEW pc, Work(new, pc)
      PROVE  /\ conn' = [conn EXCEPT ![cur] = conn'[cur]] /\ conn'[cur] = new
             /\ UNCHANGED <<life, todo, cur, due, conns, m_connection, appVars,
                            lateTimer>>
             /\ poll' = pc
  <2>1. conn' = [conn EXCEPT ![cur] = new] /\ conn \in [Addr -> Conn]
    BY <1>3 DEF Work, BaseOK
  <2> QED
    BY <1>2, <1>3, <2>1 DEF Work
<1>4. /\ Taken.in = Tail(conn[cur].in) /\ Taken.st = conn[cur].st
      /\ Kept(conn[cur], Taken) /\ Taken \in Conn
  BY <1>1, <1>2, HeadFrame DEF Taken, Kept, Conn
<1>5. CASE ReadUpgrade
  <2>1. /\ Work([Taken EXCEPT !.st = "open"], "reply") /\ m_connected' = TRUE
    BY <1>5 DEF ReadUpgrade
  <2>2. /\ [Taken EXCEPT !.st = "open"].in = Tail(conn[cur].in)
        /\ [Taken EXCEPT !.st = "open"].st = "open"
        /\ Kept(conn[cur], [Taken EXCEPT !.st = "open"])
    BY <1>4 DEF Kept, Conn
  <2> QED
    BY <1>1, <1>2, <1>3, <1>5, <2>1, <2>2
<1>6. ASSUME NEW new, NEW pc \in {"frames", "reply"}, Work(new, pc), ~ReadUpgrade,
             UNCHANGED m_connected, new.in = Taken.in, new.st = Taken.st,
             Kept(Taken, new)
      PROVE  /\ conn' = [conn EXCEPT ![cur] = conn'[cur]]
             /\ conn'[cur].in = Tail(conn[cur].in)
             /\ Kept(conn[cur], conn'[cur])
             /\ UNCHANGED m_connected /\ conn'[cur].st = conn[cur].st
             /\ UNCHANGED <<life, todo, cur, due, conns, m_connection, appVars,
                            lateTimer>>
             /\ poll' \in {"frames", "reply"}
  <2>1. Kept(conn[cur], new)
    BY <1>4, <1>6 DEF Kept
  <2>2. /\ conn' = [conn EXCEPT ![cur] = conn'[cur]] /\ conn'[cur] = new
        /\ UNCHANGED <<life, todo, cur, due, conns, m_connection, appVars,
                       lateTimer>>
        /\ poll' = pc
    BY <1>3, <1>6
  <2> QED
    BY <1>4, <1>6, <2>1, <2>2
<1>7. ASSUME ~ReadUpgrade
      PROVE  \E new, pc : /\ Work(new, pc) /\ pc \in {"frames", "reply"}
                          /\ UNCHANGED m_connected
                          /\ new.in = Taken.in /\ new.st = Taken.st
                          /\ Kept(Taken, new)
  <2>1. CASE ReadClosing
    <3> DEFINE new == [Taken EXCEPT !.closing = TRUE]
    <3>1. new.in = Taken.in /\ new.st = Taken.st /\ Kept(Taken, new)
      BY <1>4 DEF Kept, Conn
    <3> QED
      BY <2>1, <3>1 DEF ReadClosing, Silent
  <2>2. CASE ReadPing
    <3> DEFINE new == [Taken EXCEPT !.out = Append(@, "control")]
    <3>1. new.in = Taken.in /\ new.st = Taken.st /\ Kept(Taken, new)
      BY <1>4 DEF Kept, Conn
    <3> QED
      BY <2>2, <3>1 DEF ReadPing
  <2>3. CASE ReadBinary \/ ReadText
    BY <2>3 DEF ReadBinary, ReadText, Silent, Kept
  <2>4. CASE ReadFirst
    <3> DEFINE new == [Taken EXCEPT !.frag = Head(conn[cur].in)[2]]
    <3>1. new.in = Taken.in /\ new.st = Taken.st /\ Kept(Taken, new)
      BY <1>4 DEF Kept, Conn
    <3> QED
      BY <2>4, <3>1 DEF ReadFirst, Silent
  <2>5. CASE ReadLast
    <3> DEFINE new == [Taken EXCEPT !.frag = 0]
    <3>1. new.in = Taken.in /\ new.st = Taken.st /\ Kept(Taken, new)
      BY <1>4 DEF Kept, Conn
    <3> QED
      BY <2>5, <3>1 DEF ReadLast
  <2> QED
    BY <1>7, <2>1, <2>2, <2>3, <2>4, <2>5 DEF ReadFrame
<1> QED
  BY <1>1, <1>2, <1>5, <1>6, <1>7

(* Next, by what its steps do to the connections. *)
LEMMA NextKinds ==
  ASSUME [Next]_vars
  PROVE  \/ UNCHANGED vars
         \/ ~undef /\ (\/ Quiet \/ ReadFrame \/ TimerClose \/ CloseConn
                       \/ TimerConnect \/ Construct \/ PeerNext)
BY DEF Next, Halt, PollNext, AppNext, ReadNext, Quiet, ReadFrame

----------------------------------------------------------------------------
(* The pointers and the list.                                              *)

(* mg_close_conn on m_connection empties the list. *)
LEMMA CloseEmpties ==
  ASSUME BaseOK, PlaceInv, NEW a \in Addr, a = m_connection, MgCloseConn(a)
  PROVE  conns' = {} /\ ~m_connected' /\ m_connection' = Null
BY DEF PlaceInv, SingleConnection, MgCloseConn

(* mg_ws_connect with an empty list. *)
LEMMA ConnectFills ==
  ASSUME BaseOK, conns = {}, WsConnect
  PROVE  /\ conns' = {m_connection'} /\ m_connection' \in Addr
         /\ conn'[m_connection'] \in NewConn
         /\ \A b \in Addr : b # m_connection' => conn'[b] = conn[b]
BY DEF BaseOK, WsConnect

(* Every step leaves the pointer and the list in agreement. *)
LEMMA PlaceNext ==
  BaseOK /\ PlaceInv /\ TextsInv /\ [Next]_vars => PlaceInv'
<1> SUFFICES ASSUME BaseOK, PlaceInv, TextsInv, [Next]_vars PROVE PlaceInv'
  OBVIOUS
<1>1. CASE UNCHANGED vars
  BY <1>1 DEF PlaceInv, SingleConnection, vars, pollVars, ptrVars, appVars
<1>2. ASSUME ~undef, Quiet PROVE PlaceInv'
  <2>1. /\ UNCHANGED <<conns, m_connection, m_connected, got>>
        /\ \A a \in Addr : Same(conn[a], conn'[a])
    BY <1>2, QuietSame
  <2>2. /\ SingleConnection'
        /\ m_connected' <=> m_connection' \in conns' /\ conn'[m_connection'].st = "open"
    BY <2>1 DEF PlaceInv, SingleConnection, Same, BaseOK
  <2>3. /\ poll' \in Working => cur' \in conns' /\ todo' = {}
        /\ poll' = "visit" => todo' \subseteq conns'
        /\ poll' = "connect" => conns' = {}
        /\ life' = "none" => conns' = {} /\ poll' = "idle"
    <3>1. CASE PollBegin \/ NotDue \/ TimerPing
      BY <2>1, <3>1 DEF PollBegin, NotDue, TimerPing, PlaceInv, Working
    <3>2. CASE Visit
      <4>1. ASSUME NEW a \in todo PROVE conns = {a} /\ todo = {a}
        BY <3>2, <4>1 DEF Visit, PlaceInv, SingleConnection
      <4>2. CASE todo = {}
        BY <2>1, <3>2, <4>2 DEF Visit, PlaceInv, Working
      <4>3. CASE todo # {}
        BY <2>1, <3>2, <4>1, <4>3 DEF Visit, PlaceInv, Working
      <4> QED
        BY <4>2, <4>3
    <3>3. CASE \/ DnsDone \/ DnsFailed \/ ConnectDone \/ ConnectFailed
               \/ NotReady \/ ReadEof \/ Callback \/ Write
      <4>1. poll \in Working /\ poll' \in {"close", "frames"} /\ UNCHANGED <<life, todo, cur>>
        BY <3>3
        DEF DnsDone, DnsFailed, ConnectDone, ConnectFailed, NotReady, ReadEof,
            Callback, Write, Work, At, Working
      <4> QED
        BY <2>1, <4>1 DEF PlaceInv, Working
    <3>4. CASE Stop \/ Destroy \/ SendTest \/ SendLock \/ SendEnd \/ TimerDue \/ Calm
      BY <2>1, <3>4
      DEF Stop, Destroy, SendTest, SendLock, SendEnd, TimerDue, Calm, PlaceInv,
          Working, pollVars
    <3> QED
      BY <1>2, <3>1, <3>2, <3>3, <3>4 DEF Quiet
  <2>4. app' = "send" => undef' \/ target' \in Addr
    <3>1. CASE SendLock
      BY <1>2, <3>1 DEF SendLock, BaseOK
    <3>2. CASE ~SendLock
      <4>1. app' # "send" \/ UNCHANGED <<app, target>>
        BY <1>2, <3>2
        DEF Quiet, PollBegin, NotDue, TimerPing, Visit, DnsDone, DnsFailed,
            ConnectDone, ConnectFailed, NotReady, ReadEof, Callback, Write, Work,
            Stop, Destroy, SendTest, SendEnd, TimerDue, Calm, appVars
      <4> QED
        BY <1>2, <4>1 DEF PlaceInv
    <3> QED
      BY <3>1, <3>2
  <2> QED
    BY <2>2, <2>3, <2>4 DEF PlaceInv
<1>3. ASSUME ~undef, ReadFrame PROVE PlaceInv'
  <2>1. /\ cur \in conns /\ cur = m_connection
        /\ ~ReadUpgrade => UNCHANGED m_connected /\ conn'[cur].st = conn[cur].st
        /\ ReadUpgrade => conn'[cur].st = "open" /\ m_connected' = TRUE
        /\ UNCHANGED <<life, todo, cur, conns, m_connection, app, target>>
        /\ poll \in {"work", "frames"} /\ poll' \in {"frames", "reply"}
    BY <1>3, ReadChange DEF appVars
  <2> QED
    BY <1>3, <2>1 DEF PlaceInv, SingleConnection, Working
<1>4. ASSUME ~undef, TimerClose PROVE PlaceInv'
  <2>1. conns' = {} /\ ~m_connected'
    <3>1. CASE m_connection = Null
      BY <1>4, <3>1, WSAssumption DEF TimerClose, ptrVars, PlaceInv, SingleConnection, BaseOK
    <3>2. CASE m_connection # Null
      BY <1>4, <3>2, CloseEmpties DEF TimerClose, BaseOK
    <3> QED
      BY <3>1, <3>2
  <2> QED
    BY <1>4, <2>1 DEF TimerClose, PlaceInv, SingleConnection, Working, appVars
<1>5. ASSUME ~undef, CloseConn PROVE PlaceInv'
  <2>1. cur \in conns /\ cur = m_connection /\ cur \in Addr /\ todo = {}
    BY <1>5 DEF CloseConn, PlaceInv, SingleConnection, BaseOK, Working
  <2>2. CASE conn[cur].closing
    <3>1. conns' = {} /\ ~m_connected'
      BY <1>5, <2>1, <2>2, CloseEmpties DEF CloseConn
    <3> QED
      BY <1>5, <2>1, <3>1 DEF CloseConn, PlaceInv, SingleConnection, Working, appVars
  <2>3. CASE ~conn[cur].closing
    BY <1>5, <2>1, <2>3
    DEF CloseConn, PlaceInv, SingleConnection, Working, appVars, ptrVars
  <2> QED
    BY <2>2, <2>3
<1>6. ASSUME ~undef, TimerConnect \/ Construct PROVE PlaceInv'
  <2>1. conns = {} /\ ~m_connected /\ WsConnect /\ UNCHANGED m_connected
    BY <1>6 DEF TimerConnect, Construct, PlaceInv
  <2>2. /\ conns' = {m_connection'} /\ m_connection' \in Addr
        /\ conn'[m_connection'] \in NewConn
    BY <2>1, ConnectFills
  <2>3. conn'[m_connection'].st # "open"
    BY <2>2, NewConnState
  <2>4. /\ todo' \subseteq conns' \/ poll' = "idle"
        /\ poll' \in {"idle", "visit"} /\ life' # "none"
    BY <1>6 DEF TimerConnect, Construct, PlaceInv, pollVars
  <2>5. app' = app /\ target' = target
    BY <1>6 DEF TimerConnect, Construct, appVars
  <2> QED
    BY <1>6, <2>1, <2>2, <2>3, <2>4, <2>5 DEF PlaceInv, SingleConnection, Working
<1>7. CASE PeerNext
  <2>1. PICK a \in conns, new \in Conn : Peer(a, new) /\ PeerChange(conn[a], new)
    BY <1>7, PeerStep DEF BaseOK
  <2>2. \A b \in Addr : conn'[b].st = conn[b].st
    BY <2>1 DEF Peer, PeerChange, BaseOK
  <2>3. UNCHANGED <<life, poll, todo, cur, conns, m_connection, m_connected, app,
                    target, undef>>
    BY <2>1 DEF Peer, pollVars, ptrVars, appVars
  <2>4. m_connection \in conns => conn'[m_connection].st = conn[m_connection].st
    BY <2>2 DEF BaseOK
  <2> QED
    BY <2>3, <2>4 DEF PlaceInv, SingleConnection
<1> QED
  BY <1>1, <1>2, <1>3, <1>4, <1>5, <1>6, <1>7, NextKinds

(* The server counts its texts from 1. *)
LEMMA TextsNext ==
  BaseOK /\ PlaceInv /\ TextsInv /\ [Next]_vars => TextsInv'
<1> SUFFICES ASSUME BaseOK, PlaceInv, TextsInv, [Next]_vars, NEW b \in Addr
             PROVE  TextsOK(conn'[b])
  BY DEF TextsInv
<1>0. TextsOK(conn[b]) /\ conn[b] \in Conn
  BY DEF TextsInv, BaseOK
<1>1. CASE UNCHANGED vars
  BY <1>0, <1>1 DEF vars
<1>2. ASSUME Kept(conn[b], conn'[b]) PROVE TextsOK(conn'[b])
  BY <1>0, <1>2 DEF Kept, TextsOK
<1>3. ASSUME ~undef, Quiet PROVE TextsOK(conn'[b])
  BY <1>2, <1>3, QuietSame DEF Same
<1>4. CASE ReadFrame
  <2>1. conn' = [conn EXCEPT ![cur] = conn'[cur]] /\ Kept(conn[cur], conn'[cur])
    BY <1>4, ReadChange
  <2>2. CASE b = cur
    BY <1>2, <2>1, <2>2
  <2>3. CASE b # cur
    BY <1>0, <2>1, <2>3 DEF BaseOK
  <2> QED
    BY <2>2, <2>3
<1>5. TextsOK(Freed)
  BY DEF TextsOK, Freed
<1>6. ASSUME NEW a, MgCloseConn(a) PROVE TextsOK(conn'[b])
  BY <1>0, <1>5, <1>6 DEF MgCloseConn, BaseOK
<1>7. CASE TimerClose \/ CloseConn
  BY <1>0, <1>6, <1>7 DEF TimerClose, CloseConn
<1>8. CASE TimerConnect \/ Construct
  <2>1. conns = {} /\ WsConnect
    BY <1>8 DEF TimerConnect, Construct, PlaceInv
  <2>2. /\ conn'[m_connection'] \in NewConn
        /\ b # m_connection' => conn'[b] = conn[b]
    BY <2>1, ConnectFills
  <2>3. conn'[m_connection'].next = 1 /\ conn'[m_connection'].mid = FALSE
    BY <2>2, NewConnState
  <2>4. TextsOK(conn'[m_connection'])
    BY <2>3 DEF TextsOK
  <2> QED
    BY <1>0, <2>2, <2>4
<1>9. CASE PeerNext
  <2>1. PICK a \in conns, new \in Conn : Peer(a, new) /\ PeerChange(conn[a], new)
    BY <1>9, PeerStep DEF BaseOK
  <2> QED
    BY <1>0, <2>1 DEF Peer, PeerChange, BaseOK
<1> QED
  BY <1>1, <1>3, <1>4, <1>7, <1>8, <1>9, NextKinds

(* The destructor's poll. *)
LEMMA ClosingNext ==
  BaseOK /\ PlaceInv /\ TextsInv /\ ClosingInv /\ [Next]_vars => ClosingInv'
<1> SUFFICES ASSUME BaseOK, PlaceInv, TextsInv, ClosingInv, [Next]_vars
             PROVE  ClosingInv'
  OBVIOUS
<1>1. CASE UNCHANGED vars
  BY <1>1 DEF ClosingInv, vars, pollVars
<1>2. ASSUME ~undef, Quiet, life # "gone" PROVE ClosingInv'
  <2>1. /\ UNCHANGED conns
        /\ \A a \in conns : conn[a].closing => conn'[a].closing
    BY <1>2, QuietSame DEF Same, Kept, BaseOK
  <2>2. CASE PollBegin \/ NotDue \/ TimerPing
    BY <1>2, <2>1, <2>2 DEF PollBegin, NotDue, TimerPing, ClosingInv
  <2>3. CASE Visit
    <3>1. CASE todo = {}
      BY <1>2, <2>1, <2>3, <3>1 DEF Visit, ClosingInv
    <3>2. CASE todo # {}
      <4>1. PICK a \in todo : /\ poll' = IF conn[a].closing THEN "close" ELSE "work"
                              /\ UNCHANGED <<life, lateTimer>>
        BY <2>3, <3>2 DEF Visit
      <4>2. a \in conns
        BY <2>3 DEF Visit, PlaceInv
      <4> QED
        BY <1>2, <2>1, <4>1, <4>2 DEF ClosingInv
    <3> QED
      BY <3>1, <3>2
  <2>4. CASE \/ DnsDone \/ DnsFailed \/ ConnectDone \/ ConnectFailed
             \/ NotReady \/ ReadEof \/ Callback \/ Write
    <3>1. /\ poll \in {"work", "frames", "reply"} /\ poll' \in {"close", "frames"}
          /\ UNCHANGED <<life, lateTimer>>
      BY <2>4
      DEF DnsDone, DnsFailed, ConnectDone, ConnectFailed, NotReady, ReadEof,
          Callback, Write, Work, At
    <3> QED
      BY <1>2, <3>1 DEF ClosingInv
  <2>5. CASE Stop \/ SendTest \/ SendLock \/ SendEnd \/ TimerDue \/ Calm
    BY <1>2, <2>1, <2>5
    DEF Stop, SendTest, SendLock, SendEnd, TimerDue, Calm, ClosingInv, pollVars
  <2>6. CASE Destroy
    <3>1. \A a \in conns : conn'[a].closing
      <4>1. \A a \in conns : conn'[a] = [conn[a] EXCEPT !.closing = TRUE]
        BY <2>6 DEF Destroy, BaseOK
      <4>2. \A a \in conns : conn[a] \in Conn
        BY DEF BaseOK
      <4> QED
        BY <4>1, <4>2 DEF Conn
    <3> QED
      BY <2>1, <2>6, <3>1 DEF Destroy, ClosingInv
  <2> QED
    BY <1>2, <2>2, <2>3, <2>4, <2>5, <2>6 DEF Quiet
<1>3. ASSUME ReadFrame, life # "gone" PROVE ClosingInv'
  <2>1. /\ poll \in {"work", "frames"} /\ poll' \in {"frames", "reply"}
        /\ UNCHANGED <<life, lateTimer>>
    BY <1>3, ReadChange
  <2> QED
    BY <1>3, <2>1 DEF ClosingInv
<1>4. ASSUME TimerClose \/ TimerConnect, life # "gone" PROVE ClosingInv'
  <2>1. CASE TimerConnect
    BY <1>4, <2>1 DEF TimerConnect, ClosingInv
  <2>2. CASE TimerClose
    <3>1. lateTimer' = (life = "free") /\ life' = life /\ poll' = "connect"
      BY <2>2 DEF TimerClose
    <3>2. life = "free" => lateTimer'
      BY <3>1, Zenon
    <3> QED
      BY <1>4, <3>1, <3>2 DEF ClosingInv
  <2> QED
    BY <1>4, <2>1, <2>2
<1>5. ASSUME CloseConn, life # "gone" PROVE ClosingInv'
  <2>1. cur \in conns /\ cur = m_connection /\ cur \in Addr
    BY <1>5 DEF CloseConn, PlaceInv, SingleConnection, BaseOK, Working
  <2>2. CASE conn[cur].closing
    <3>1. conns' = {}
      BY <1>5, <2>1, <2>2, CloseEmpties DEF CloseConn
    <3> QED
      BY <1>5, <3>1 DEF CloseConn, ClosingInv
  <2>3. CASE ~conn[cur].closing
    BY <1>5, <2>1, <2>3 DEF CloseConn, ClosingInv
  <2> QED
    BY <2>2, <2>3
<1>6. CASE Construct
  BY <1>6 DEF Construct, ClosingInv
<1>7. CASE PeerNext
  <2>1. PICK a \in conns, new \in Conn : Peer(a, new) /\ PeerChange(conn[a], new)
    BY <1>7, PeerStep DEF BaseOK
  <2>2. \A b \in Addr : conn'[b].closing = conn[b].closing
    BY <2>1 DEF Peer, PeerChange, BaseOK
  <2> QED
    BY <2>1, <2>2 DEF Peer, ClosingInv, pollVars, BaseOK
<1>8. [Next]_vars => UNCHANGED vars \/ life # "gone"
  BY DEF Next, Halt
<1> QED
  BY <1>1, <1>2, <1>3, <1>4, <1>5, <1>6, <1>7, <1>8, NextKinds

----------------------------------------------------------------------------
(* The frames.                                                             *)

(* An empty stream goes from a number to itself. *)
LEMMA FlowEmpty == ASSUME NEW s \in Nat PROVE Flow(<<>>, s, s)
<1> DEFINE p == [i \in 1..1 |-> s]
<1>1. Len(<<>>) = 0 /\ Len(<<>>) + 1 = 1 /\ p \in [1..1 -> Nat] /\ p[1] = s
  OBVIOUS
<1> HIDE DEF p
<1> QED
  BY <1>1 DEF Flow

(* A frame added at the end. *)
LEMMA FlowAppend ==
  ASSUME NEW q \in Seq(Frame), NEW f \in Frame, NEW s \in Nat, NEW t \in Nat,
         NEW u \in Nat, Flow(q, s, t), Leads(f, t, u)
  PROVE  Flow(Append(q, f), s, u)
<1> DEFINE L == Len(q)
           r == Append(q, f)
<1>1. /\ L \in Nat /\ Len(r) = L + 1 /\ r[L + 1] = f
      /\ \A i \in 1..L : r[i] = q[i]
  BY AppendProperties
<1>2. PICK p \in [1..(L + 1) -> Nat] :
        /\ p[1] = s /\ p[L + 1] = t /\ \A i \in 1..L : Leads(q[i], p[i], p[i + 1])
  BY DEF Flow
<1> DEFINE p2 == [i \in 1..(L + 2) |-> IF i = L + 2 THEN u ELSE p[i]]
<1> HIDE DEF L, r
<1>3. /\ p2 \in [1..(L + 2) -> Nat] /\ p2[1] = s /\ p2[L + 1] = t /\ p2[L + 2] = u
      /\ \A i \in 1..L : p2[i] = p[i] /\ p2[i + 1] = p[i + 1]
  BY <1>1, <1>2
<1> HIDE DEF p2
<1>4. ASSUME NEW i \in 1..(L + 1) PROVE Leads(r[i], p2[i], p2[i + 1])
  <2>1. CASE i \in 1..L
    BY <1>1, <1>2, <1>3, <2>1
  <2>2. CASE i = L + 1
    <3>1. i + 1 = L + 2
      BY <1>1, <2>2
    <3> QED
      BY <1>1, <1>3, <2>2, <3>1
  <2> QED
    BY <1>1, <2>1, <2>2
<1>5. (L + 1) + 1 = L + 2
  BY <1>1
<1>6. Flow(r, s, u)
  BY <1>1, <1>3, <1>4, <1>5, ZenonT(30) DEF Flow
<1> QED
  BY <1>6 DEF r

(* The first frame taken. *)
LEMMA FlowTail ==
  ASSUME NEW q \in Seq(Frame), q # <<>>, NEW s, NEW t, Flow(q, s, t)
  PROVE  \E u \in Nat : Leads(Head(q), s, u) /\ Flow(Tail(q), u, t)
<1> DEFINE L == Len(q)
           r == Tail(q)
<1>1. /\ L \in Nat /\ L # 0 /\ Len(r) = L - 1 /\ Head(q) = q[1]
      /\ \A i \in 1..(L - 1) : r[i] = q[i + 1]
  BY HeadTailProperties, EmptySeq, LenProperties
<1>2. PICK p \in [1..(L + 1) -> Nat] :
        /\ p[1] = s /\ p[L + 1] = t /\ \A i \in 1..L : Leads(q[i], p[i], p[i + 1])
  BY DEF Flow
<1> DEFINE p2 == [i \in 1..L |-> p[i + 1]]
<1> HIDE DEF L, r
<1>3. /\ p2 \in [1..L -> Nat] /\ p2[1] = p[1 + 1] /\ p2[L] = t
      /\ \A i \in 1..(L - 1) : p2[i] = p[i + 1] /\ p2[i + 1] = p[(i + 1) + 1]
  BY <1>1, <1>2
<1> HIDE DEF p2
<1>4. ASSUME NEW i \in 1..(L - 1) PROVE Leads(r[i], p2[i], p2[i + 1])
  <2>1. i + 1 \in 1..L
    BY <1>1
  <2> QED
    BY <1>1, <1>2, <1>3, <2>1
<1>5. (L - 1) + 1 = L
  BY <1>1
<1>6. Flow(r, p2[1], t)
  BY <1>1, <1>3, <1>4, <1>5, ZenonT(30) DEF Flow
<1>7. p2[1] \in Nat /\ Leads(Head(q), s, p2[1])
  <2>1. 1 \in 1..L
    BY <1>1
  <2> QED
    BY <1>1, <1>2, <1>3, <2>1
<1> QED
  BY <1>6, <1>7 DEF r

(* A connection whose frames are as they should be stays so when only the  *)
(* rest of it changes.                                                     *)
LEMMA FlowSame ==
  ASSUME NEW c, NEW new, NEW g, Same(c, new), FlowOK(c, g)
  PROVE  FlowOK(new, g)
<1>1. /\ ClientPlace(new, g) = ClientPlace(c, g) /\ ServerPlace(new) = ServerPlace(c)
      /\ Sends(new) <=> Sends(c)
  BY DEF Same, Kept, ClientPlace, ServerPlace, Sends
<1> QED
  BY <1>1 DEF FlowOK, Same

(* What reading a frame does: the answer to the upgrade request opens a    *)
(* connection that was not open, a text in one or two frames is the next   *)
(* one of the server, and the rest is not heard of.                        *)
LEMMA ReadEffect ==
  ASSUME BaseOK, PlaceInv, StreamInv, ReadFrame
  PROVE  /\ FlowOK(conn'[cur], Len(got'))
         /\ \/ UNCHANGED <<m_connected, got>>
            \/ ~m_connected /\ m_connected' = TRUE /\ got' = <<>>
            \/ /\ m_connected /\ UNCHANGED m_connected
               /\ got' = Append(got, Len(got) + 1) /\ Len(got) + 1 <= MaxMsg
<1> DEFINE c == conn[cur]
           new == conn'[cur]
           g == Len(got)
           h == Head(c.in)
<1>1. /\ cur \in conns /\ cur = m_connection /\ c \in Conn /\ c.in # <<>>
      /\ new.in = Tail(c.in) /\ Kept(c, new)
      /\ conn' = [conn EXCEPT ![cur] = new]
      /\ ~ReadUpgrade => UNCHANGED m_connected /\ new.st = c.st
      /\ ReadUpgrade => new.st = "open" /\ m_connected' = TRUE
  BY ReadChange
<1>2. /\ g \in Nat /\ FlowOK(c, g) /\ c.in \in Seq(Frame) /\ c.frag \in Nat
      /\ MaxMsg \in Nat
  BY <1>1, WSAssumption DEF BaseOK, StreamInv, Conn
<1>3. m_connected <=> c.st = "open"
  BY <1>1 DEF PlaceInv
<1>4. PICK t \in Nat : /\ Flow(c.in, ClientPlace(c, g), t)
                       /\ Sends(c) => t = ServerPlace(c)
  BY <1>2 DEF FlowOK
<1>5. PICK u \in Nat : Leads(h, ClientPlace(c, g), u) /\ Flow(new.in, u, t)
  BY <1>1, <1>2, <1>4, FlowTail
<1>6. c.frag # 0 => c.st = "open" /\ c.frag = g + 1
  BY <1>2 DEF FlowOK
<1>7. Sends(new) => t = ServerPlace(new)
  BY <1>1, <1>4 DEF Kept, Sends, ServerPlace
<1>8. ASSUME NEW k, ClientPlace(new, k) = u,
             new.frag # 0 => new.st = "open" /\ new.frag = k + 1
      PROVE  FlowOK(new, k)
  BY <1>5, <1>7, <1>8 DEF FlowOK
<1>9. Taken \in Conn /\ Taken.frag = c.frag
  BY <1>1, HeadFrame DEF Taken, Conn
<1>10. \A x, pc : Work(x, pc) => new = x
  BY <1>1 DEF Work, BaseOK
<1> HIDE DEF c, new, g, h
<1>11. CASE ReadUpgrade
  <2>1. h[1] = "101" /\ got' = <<>> /\ Len(got') = 0
    BY <1>11 DEF ReadUpgrade, Reading, h, c
  <2>2. ClientPlace(c, g) = 0 /\ u = 2
    BY <1>5, <2>1 DEF Leads
  <2>3. c.st # "open"
    BY <1>2, <2>2 DEF ClientPlace
  <2>4. new.frag = c.frag
    <3>1. new = [Taken EXCEPT !.st = "open"]
      BY <1>10, <1>11 DEF ReadUpgrade
    <3> QED
      BY <1>9, <3>1 DEF Conn
  <2>5. new.frag = 0 /\ ClientPlace(new, 0) = 2
    BY <1>1, <1>6, <1>11, <2>3, <2>4 DEF ClientPlace
  <2>6. FlowOK(new, 0)
    BY <1>8, <2>2, <2>5
  <2> QED
    BY <1>1, <1>3, <1>11, <2>1, <2>3, <2>6 DEF new
<1>12. CASE ReadClosing \/ ReadPing \/ ReadBinary
  <2>1. /\ h[1] \in {"refuse", "bin", "ping", "close"} /\ UNCHANGED <<m_connected, got>>
    BY <1>12 DEF ReadClosing, ReadPing, ReadBinary, Reading, Silent, h, c
  <2>2. ~ReadUpgrade
    BY <2>1 DEF ReadUpgrade, Reading, h, c
  <2>3. u = ClientPlace(c, g)
    BY <1>5, <2>1 DEF Leads
  <2>4. new.frag = c.frag /\ new.st = c.st
    <3>1. \/ new = [Taken EXCEPT !.closing = TRUE]
          \/ new = [Taken EXCEPT !.out = Append(@, "control")]
          \/ new = Taken
      BY <1>10, <1>12 DEF ReadClosing, ReadPing, ReadBinary
    <3>2. new.frag = c.frag
      BY <1>9, <3>1 DEF Conn
    <3> QED
      BY <1>1, <2>2, <3>2
  <2>5. ClientPlace(new, g) = u
    BY <2>3, <2>4 DEF ClientPlace
  <2>6. FlowOK(new, g)
    BY <1>6, <1>8, <2>4, <2>5
  <2> QED
    BY <2>1, <2>6 DEF new, g
<1>13. ASSUME h[1] \in {"text", "first", "last"}, h[2] \in 1..MaxMsg
       PROVE  /\ c.st = "open" /\ m_connected /\ ~ReadUpgrade /\ new.st = "open"
              /\ UNCHANGED m_connected /\ h[2] = g + 1 /\ g + 1 <= MaxMsg
              /\ h[1] = "last" => c.frag = g + 1 /\ u = 2 * g + 4
              /\ h[1] = "text" => c.frag = 0 /\ u = 2 * g + 4
              /\ h[1] = "first" => c.frag = 0 /\ u = 2 * g + 3
  <2>1. ~ReadUpgrade
    BY <1>13 DEF ReadUpgrade, Reading, h, c
  <2>2. ClientPlace(c, g) \in {2 * h[2], 2 * h[2] + 1}
    BY <1>5, <1>13 DEF Leads
  <2>3. c.st = "open"
    BY <1>13, <2>2, <1>2 DEF ClientPlace
  <2>4. ClientPlace(c, g) = 2 * (g + 1) + IF c.frag # 0 THEN 1 ELSE 0
    BY <2>3 DEF ClientPlace
  <2>5. /\ h[1] = "last" => ClientPlace(c, g) = 2 * h[2] + 1 /\ u = 2 * h[2] + 2
        /\ h[1] = "text" => ClientPlace(c, g) = 2 * h[2] /\ u = 2 * h[2] + 2
        /\ h[1] = "first" => ClientPlace(c, g) = 2 * h[2] /\ u = 2 * h[2] + 1
    BY <1>5 DEF Leads
  <2>6. h[2] = g + 1 /\ (h[1] = "last" <=> c.frag # 0)
    BY <1>2, <1>13, <2>4, <2>5, SMTT(30)
  <2> QED
    BY <1>1, <1>2, <1>3, <1>6, <1>13, <2>1, <2>3, <2>5, <2>6
<1>14. CASE ReadText
  <2>1. /\ h[1] = "text" /\ h[2] \in 1..MaxMsg /\ new = Taken
        /\ got' = Append(got, h[2])
    BY <1>10, <1>14 DEF ReadText, Reading, h, c
  <2>2. new.frag = 0 /\ new.st = "open" /\ h[2] = g + 1 /\ u = 2 * g + 4
    BY <1>9, <1>13, <2>1
  <2>3. got' = Append(got, g + 1) /\ Len(got') = g + 1
    <3>1. got' = Append(got, g + 1)
      BY <2>1, <2>2
    <3> QED
      BY <1>2, <3>1, AppendProperties DEF BaseOK, g
  <2>4. ClientPlace(new, g + 1) = u
    BY <1>2, <2>2 DEF ClientPlace
  <2>5. FlowOK(new, g + 1)
    BY <1>8, <2>2, <2>4
  <2> QED
    BY <1>13, <2>1, <2>3, <2>5 DEF new, g
<1>15. CASE ReadFirst
  <2>1. /\ h[1] = "first" /\ h[2] \in 1..MaxMsg
        /\ new = [Taken EXCEPT !.frag = h[2]] /\ UNCHANGED <<m_connected, got>>
    BY <1>10, <1>15 DEF ReadFirst, Reading, Silent, h, c
  <2>2. new.st = "open" /\ h[2] = g + 1 /\ u = 2 * g + 3
    BY <1>13, <2>1
  <2>3. new.frag = g + 1
    BY <1>9, <2>1, <2>2 DEF Conn
  <2>4. ClientPlace(new, g) = u
    BY <1>2, <2>2, <2>3 DEF ClientPlace
  <2>5. FlowOK(new, g)
    BY <1>8, <2>2, <2>3, <2>4
  <2> QED
    BY <2>1, <2>5 DEF new, g
<1>16. CASE ReadLast
  <2>1. /\ h[1] = "last" /\ h[2] \in 1..MaxMsg
        /\ new = [Taken EXCEPT !.frag = 0] /\ got' = Append(got, c.frag)
    BY <1>10, <1>16 DEF ReadLast, Reading, h, c
  <2>2. new.st = "open" /\ c.frag = g + 1 /\ u = 2 * g + 4
    BY <1>13, <2>1
  <2>3. new.frag = 0
    BY <1>9, <2>1 DEF Conn
  <2>4. got' = Append(got, g + 1) /\ Len(got') = g + 1
    <3>1. got' = Append(got, g + 1)
      BY <2>1, <2>2
    <3> QED
      BY <1>2, <3>1, AppendProperties DEF BaseOK, g
  <2>5. ClientPlace(new, g + 1) = u
    BY <1>2, <2>2, <2>3 DEF ClientPlace
  <2>6. FlowOK(new, g + 1)
    BY <1>8, <2>3, <2>5
  <2> QED
    BY <1>13, <2>1, <2>4, <2>6 DEF new, g
<1> QED
  BY <1>11, <1>12, <1>14, <1>15, <1>16 DEF ReadFrame

(* Every step keeps the frames a continuation of what was read. *)
LEMMA StreamNext ==
  BaseOK /\ PlaceInv /\ TextsInv /\ StreamInv /\ [Next]_vars => StreamInv'
<1> SUFFICES ASSUME BaseOK, PlaceInv, TextsInv, StreamInv, [Next]_vars
             PROVE  StreamInv'
  OBVIOUS
<1>0. /\ Len(got) \in Nat /\ MaxMsg \in Nat
      /\ \A a \in conns : a \in Addr /\ conn[a] \in Conn /\ FlowOK(conn[a], Len(got))
  BY WSAssumption DEF BaseOK, StreamInv
<1>1. CASE UNCHANGED vars
  BY <1>1 DEF StreamInv, vars
<1>2. ASSUME ~undef, Quiet PROVE StreamInv'
  <2>1. /\ UNCHANGED <<conns, got>> /\ \A a \in Addr : Same(conn[a], conn'[a])
    BY <1>2, QuietSame
  <2>2. \A a \in conns : FlowOK(conn'[a], Len(got))
    BY <1>0, <2>1, FlowSame
  <2> QED
    BY <2>1, <2>2 DEF StreamInv
<1>3. CASE ReadFrame
  <2>1. cur \in conns /\ cur = m_connection /\ UNCHANGED conns
    BY <1>3, ReadChange
  <2>2. /\ FlowOK(conn'[cur], Len(got'))
        /\ \/ UNCHANGED got
           \/ got' = <<>>
           \/ got' = Append(got, Len(got) + 1) /\ Len(got) + 1 <= MaxMsg
    BY <1>3, ReadEffect
  <2>3. \A a \in conns' : FlowOK(conn'[a], Len(got'))
    BY <2>1, <2>2 DEF PlaceInv, SingleConnection
  <2>4. Len(got') <= MaxMsg /\ \A i \in 1..Len(got') : got'[i] = i
    <3>1. CASE UNCHANGED got
      BY <3>1 DEF StreamInv
    <3>2. CASE got' = <<>>
      BY <1>0, <3>2
    <3>3. CASE got' = Append(got, Len(got) + 1) /\ Len(got) + 1 <= MaxMsg
      <4>1. /\ Len(got') = Len(got) + 1 /\ got'[Len(got) + 1] = Len(got) + 1
            /\ \A i \in 1..Len(got) : got'[i] = got[i]
        BY <1>0, <3>3, AppendProperties DEF BaseOK
      <4> QED
        BY <1>0, <3>3, <4>1 DEF StreamInv
    <3> QED
      BY <2>2, <3>1, <3>2, <3>3
  <2> QED
    BY <2>3, <2>4 DEF StreamInv
<1>4. ASSUME conns' = {}, UNCHANGED got PROVE StreamInv'
  BY <1>4 DEF StreamInv
<1>5. CASE TimerClose
  <2>1. CASE m_connection = Null
    BY <1>5, <2>1 DEF TimerClose, StreamInv
  <2>2. CASE m_connection # Null
    BY <1>4, <1>5, <2>2, CloseEmpties DEF TimerClose, BaseOK
  <2> QED
    BY <2>1, <2>2
<1>6. CASE CloseConn
  <2>1. cur = m_connection /\ cur \in Addr
    BY <1>6 DEF CloseConn, PlaceInv, SingleConnection, BaseOK, Working
  <2>2. CASE conn[cur].closing
    BY <1>4, <1>6, <2>1, <2>2, CloseEmpties DEF CloseConn
  <2>3. CASE ~conn[cur].closing
    BY <1>6, <2>3 DEF CloseConn, StreamInv
  <2> QED
    BY <2>2, <2>3
<1>7. CASE TimerConnect \/ Construct
  <2>1. conns = {} /\ WsConnect /\ UNCHANGED got
    BY <1>7 DEF TimerConnect, Construct, PlaceInv
  <2> DEFINE c == conn'[m_connection']
  <2>2. conns' = {m_connection'} /\ c \in NewConn
    BY <2>1, ConnectFills
  <2>3. c.st # "open" /\ c.in = <<>> /\ c.srv = "wait" /\ c.frag = 0
    BY <2>2, NewConnState
  <2> HIDE DEF c
  <2>4. ClientPlace(c, Len(got)) = 0 /\ ServerPlace(c) = 0
    BY <2>3 DEF ClientPlace, ServerPlace
  <2>5. FlowOK(c, Len(got))
    <3>1. Flow(c.in, 0, 0)
      BY <2>3, FlowEmpty
    <3> QED
      BY <2>3, <2>4, <3>1 DEF FlowOK
  <2> QED
    BY <2>1, <2>2, <2>5 DEF StreamInv, c
<1>8. CASE PeerNext
  <2>1. PICK a \in conns, new \in Conn : Peer(a, new) /\ PeerChange(conn[a], new)
    BY <1>8, PeerStep DEF BaseOK
  <2>2. UNCHANGED <<conns, got>> /\ conn' = [conn EXCEPT ![a] = new]
    BY <2>1 DEF Peer
  <2> DEFINE c == conn[a]
             g == Len(got)
  <2>3. FlowOK(c, g) /\ c \in Conn /\ g \in Nat /\ c.in \in Seq(Frame)
    BY <1>0 DEF Conn
  <2>4. PeerChange(c, new)
    BY <2>1
  <2> HIDE DEF c, g
  <2>5. ClientPlace(new, g) = ClientPlace(c, g) /\ ClientPlace(c, g) \in Nat
    BY <2>3, <2>4 DEF PeerChange, ClientPlace
  <2>6. new.frag # 0 => new.st = "open" /\ new.frag = g + 1
    BY <2>3, <2>4 DEF FlowOK, PeerChange
  <2>7. PICK t \in Nat : /\ Flow(c.in, ClientPlace(c, g), t)
                         /\ Sends(c) => t = ServerPlace(c)
    BY <2>3 DEF FlowOK
  <2>8. FlowOK(new, g)
    <3>1. ASSUME Sends(c), NEW f \in Frame, NEW u \in Nat,
                 new.in = Append(c.in, f), Leads(f, ServerPlace(c), u),
                 Sends(new) => u = ServerPlace(new)
          PROVE  FlowOK(new, g)
      <4>1. Flow(new.in, ClientPlace(c, g), u)
        BY <2>3, <2>5, <2>7, <3>1, FlowAppend
      <4> QED
        BY <2>5, <2>6, <3>1, <4>1 DEF FlowOK
    <3>2. ASSUME new.peer # "up", new.in \in {<<>>, c.in}
          PROVE  FlowOK(new, g)
      <4>1. ~Sends(new)
        BY <3>2 DEF Sends
      <4>2. \E v \in Nat : Flow(new.in, ClientPlace(c, g), v)
        BY <2>5, <2>7, <3>2, FlowEmpty
      <4> QED
        BY <2>5, <2>6, <4>1, <4>2 DEF FlowOK
    <3> QED
      BY <2>4, <3>1, <3>2 DEF PeerChange
  <2>9. \A b \in conns : FlowOK(conn'[b], g)
    BY <1>0, <2>2, <2>8 DEF BaseOK, g
  <2> QED
    BY <2>2, <2>9 DEF StreamInv, g
<1> QED
  BY <1>1, <1>2, <1>3, <1>5, <1>6, <1>7, <1>8, NextKinds

----------------------------------------------------------------------------
(* The sockets that on_timer leaves behind.                                *)

(* Nothing has gone wrong with the attempt c, and nothing will: the server *)
(* has still to answer, or its consent is the next frame to be read.       *)
Answered(c) ==
  /\ c.peer = "up"
  /\ \/ c.in = <<>> /\ c.srv = "wait"
     \/ c.in # <<>> /\ Head(c.in) = <<"101", 0>>

(* Once a socket has been left behind on a network that is well, the       *)
(* attempt under way is a later one, which is answered before the timer is *)
(* due again.                                                              *)
LeakInv ==
  /\ m_connection # Null => m_connection \in conns
  /\ orphans \in {0, 1}
  /\ orphans = 1 =>
       /\ calm /\ life # "none"
       /\ poll = "connect" => ~due
       /\ m_connection # Null /\ ~m_connected =>
            /\ ~due /\ Answered(conn[m_connection])
            /\ life \in {"run", "stop"} => ~conn[m_connection].closing

(* On a network that is well a quiet step marks no such attempt, except in *)
(* the destructor.                                                         *)
LEMMA QuietUnmarked ==
  ASSUME BaseOK, PlaceInv, ~undef, Quiet, calm, m_connection \in conns,
         Answered(conn[m_connection]), ~conn[m_connection].closing, ~Destroy
  PROVE  ~conn'[m_connection].closing
<1> DEFINE a == m_connection
<1>0. a \in Addr /\ conn[a] \in Conn /\ ~conn[a].closing
  BY DEF BaseOK
<1>1. poll \in Working => cur = a
  BY DEF PlaceInv, SingleConnection
<1>2. CASE \/ PollBegin \/ NotDue \/ Visit \/ Stop \/ SendTest \/ SendLock
           \/ TimerDue \/ Calm
  BY <1>0, <1>2 DEF PollBegin, NotDue, Visit, Stop, SendTest, SendLock, TimerDue, Calm
<1>3. ASSUME NEW b \in Addr, NEW f \in {"request", "control", "text"}, conn' = Queue(b, f)
      PROVE  ~conn'[a].closing
  <2> DEFINE o == Queue(b, f)[a].out
  <2>1. conn'[a] = [conn[a] EXCEPT !.out = o]
    BY <1>0, <1>3, QueueType DEF BaseOK
  <2> HIDE DEF o
  <2> QED
    BY <1>0, <2>1 DEF Conn
<1>4. CASE TimerPing
  BY <1>0, <1>3, <1>4 DEF TimerPing
<1>5. CASE SendEnd
  <2>1. target \in Addr
    BY <1>5 DEF SendEnd, PlaceInv
  <2> QED
    BY <1>3, <1>5, <2>1 DEF SendEnd
<1>6. ASSUME NEW c, NEW pc, Work(c, pc), ~c.closing PROVE ~conn'[a].closing
  <2>1. conn' = [conn EXCEPT ![cur] = c]
    BY <1>6 DEF Work
  <2> QED
    BY <1>0, <1>6, <2>1 DEF BaseOK
<1>7. CASE Callback
  <2>1. CASE Work(conn[cur], "frames")
    BY <1>0, <1>1, <1>6, <1>7, <2>1 DEF Callback, Working
  <2>2. CASE conn' = Queue(m_connection, "text")
    BY <1>0, <1>3, <2>2
  <2> QED
    BY <1>7, <2>1, <2>2 DEF Callback
<1>8. CASE NotReady
  BY <1>0, <1>1, <1>6, <1>8 DEF NotReady, Working
<1>9. CASE DnsDone \/ ConnectDone
  <2>1. cur = a
    BY <1>1, <1>9 DEF DnsDone, ConnectDone, At, Working
  <2>2. PICK c : /\ Work(c, "close")
                 /\ \/ c = [conn[a] EXCEPT !.st = "connecting", !.fd = TRUE]
                    \/ c = [conn[a] EXCEPT !.st = "handshake", !.fd = TRUE]
                    \/ c = [conn[a] EXCEPT !.st = "handshake"]
    BY <1>9, <2>1 DEF DnsDone, ConnectDone, Resolved, May
  <2>3. ~c.closing
    BY <1>0, <2>2 DEF Conn
  <2> QED
    BY <1>6, <2>2, <2>3
<1>10. CASE DnsFailed \/ ConnectFailed
  BY <1>10 DEF DnsFailed, ConnectFailed
<1>11. CASE ReadEof
  <2>1. cur = a /\ conn[cur].peer = "gone"
    BY <1>1, <1>11 DEF ReadEof, Working
  <2> QED
    BY <2>1 DEF Answered
<1>12. CASE Write
  <2>1. cur = a
    BY <1>1, <1>12 DEF Write, Working
  <2>2. PICK o, k : Work([conn[a] EXCEPT !.out = o, !.asked = k], "close")
    BY <1>12, <2>1 DEF Write
  <2>3. ~[conn[a] EXCEPT !.out = o, !.asked = k].closing
    BY <1>0 DEF Conn
  <2> QED
    BY <1>6, <2>2, <2>3
<1> QED
  BY <1>2, <1>4, <1>5, <1>7, <1>8, <1>9, <1>10, <1>11, <1>12 DEF Quiet

(* An attempt that begins on a network that is well. *)
LEMMA NewConnCalm ==
  ASSUME calm, NEW c \in NewConn
  PROVE  Answered(c) /\ ~c.closing
<1>1. ~c.closing /\ c.peer = "up"
  BY ZenonT(30) DEF NewConn, Resolved, May, Freed
<1> QED
  BY <1>1, NewConnState DEF Answered

(* What the server does on a network that is well. *)
LEMMA PeerCalm ==
  ASSUME BaseOK, TextsInv, calm, PeerNext, NEW a \in Addr, Answered(conn[a])
  PROVE  Answered(conn'[a]) /\ conn'[a].closing = conn[a].closing
<1>2. PICK b2 \in Addr : Accept(b2) \/ Refuse(b2) \/ ServerSend(b2) \/ PeerGone(b2)
  BY DEF PeerNext
<1>3. conn[a] \in Conn /\ conn[b2] \in Conn /\ conn[b2].in \in Seq(Frame)
  BY DEF BaseOK, Conn
<1>4. Accept(b2) \/ ServerSend(b2)
  BY <1>2 DEF Refuse, PeerGone
<1>5. CASE a # b2
  <2>1. conn'[a] = conn[a]
    BY <1>4, <1>5 DEF Accept, ServerSend, Peer, BaseOK
  <2> QED
    BY <2>1
<1>6. CASE a = b2
  <2> DEFINE c == conn[a]
  <2>1. \A r : Peer(a, r) => conn'[a] = r
    BY DEF Peer, BaseOK
  <2>2. \E f : /\ conn'[a].in = Append(c.in, f) /\ conn'[a].peer = c.peer
               /\ conn'[a].closing = c.closing
               /\ Accept(a) => f = <<"101", 0>>
    <3>1. CASE Accept(a)
      <4>1. conn'[a] = [c EXCEPT !.in = Append(@, <<"101", 0>>), !.srv = "open"]
        BY <2>1, <3>1, Zenon DEF Accept
      <4> QED
        BY <1>3, <4>1 DEF Conn
    <3>2. CASE ServerSend(a) /\ ~Accept(a)
      <4> DEFINE Sent(f) == [c EXCEPT !.in = Append(@, f)]
      <4>1. PICK f : \/ Peer(a, Sent(f))
                     \/ Peer(a, [Sent(f) EXCEPT !.srv = "done"])
                     \/ Peer(a, [Sent(f) EXCEPT !.next = @ + 1])
                     \/ Peer(a, [Sent(f) EXCEPT !.mid = TRUE])
                     \/ Peer(a, [Sent(f) EXCEPT !.mid = FALSE, !.next = @ + 1])
        BY <3>2, Zenon DEF ServerSend
      <4>2. \/ conn'[a] = Sent(f)
            \/ conn'[a] = [Sent(f) EXCEPT !.srv = "done"]
            \/ conn'[a] = [Sent(f) EXCEPT !.next = @ + 1]
            \/ conn'[a] = [Sent(f) EXCEPT !.mid = TRUE]
            \/ conn'[a] = [Sent(f) EXCEPT !.mid = FALSE, !.next = @ + 1]
        BY <2>1, <4>1, Zenon
      <4>3. /\ conn'[a].in = Append(c.in, f) /\ conn'[a].peer = c.peer
            /\ conn'[a].closing = c.closing
        BY <1>3, <4>2 DEF Conn
      <4> QED
        BY <3>2, <4>3, Zenon
    <3> QED
      BY <1>4, <1>6, <3>1, <3>2
  <2>3. PICK f : /\ conn'[a].in = Append(c.in, f) /\ conn'[a].peer = "up"
                 /\ conn'[a].closing = c.closing
                 /\ Accept(a) => f = <<"101", 0>>
    BY <2>2 DEF Answered
  <2>4. c.in = <<>> => Accept(a)
    BY <1>4, <1>6 DEF Answered, ServerSend
  <2>5. Append(c.in, f) # <<>>
    BY <1>3, <1>6, AppendProperties
  <2>6. Head(Append(c.in, f)) = <<"101", 0>>
    <3>1. CASE c.in = <<>>
      <4>1. Append(<<>>, f) = <<f>> /\ Head(<<f>>) = f
        OBVIOUS
      <4> QED
        BY <2>3, <2>4, <3>1, <4>1
    <3>2. CASE c.in # <<>>
      <4>1. Head(Append(c.in, f)) = Head(c.in)
        BY <1>3, <1>6, <3>2
      <4> QED
        BY <3>2, <4>1 DEF Answered
    <3> QED
      BY <3>1, <3>2
  <2> QED
    BY <2>3, <2>5, <2>6 DEF Answered
<1> QED
  BY <1>5, <1>6

(* Every step keeps the count. *)
LEMMA LeakNext ==
  BaseOK /\ PlaceInv /\ TextsInv /\ LeakInv /\ [Next]_vars => LeakInv'
<1> SUFFICES ASSUME BaseOK, PlaceInv, TextsInv, LeakInv, [Next]_vars PROVE LeakInv'
  OBVIOUS
<1>1. CASE UNCHANGED vars
  BY <1>1 DEF LeakInv, vars, pollVars, ptrVars, envVars
<1>2. ASSUME ~undef, Quiet PROVE LeakInv'
  <2>1. /\ UNCHANGED <<conns, m_connection, m_connected>>
        /\ \A a \in Addr : Same(conn[a], conn'[a])
    BY <1>2, QuietSame
  <2>2. /\ orphans' = orphans /\ (calm => calm')
        /\ life # "none" => life' # "none"
        /\ poll' = "connect" => poll = "connect"
        /\ life' \in {"run", "stop"} => life \in {"run", "stop", "none"} /\ ~Destroy
    <3>1. CASE Visit
      BY <3>1 DEF Visit, Destroy, envVars
    <3>2. CASE PollBegin \/ NotDue \/ TimerPing
      BY <3>2 DEF PollBegin, NotDue, TimerPing, Destroy, envVars
    <3>3. CASE \/ DnsDone \/ DnsFailed \/ ConnectDone \/ ConnectFailed
               \/ NotReady \/ ReadEof \/ Callback \/ Write
      <4>1. /\ poll \in {"work", "frames", "reply"} /\ poll' \in {"close", "frames"}
            /\ UNCHANGED <<life, calm, orphans>>
        BY <3>3
        DEF DnsDone, DnsFailed, ConnectDone, ConnectFailed, NotReady, ReadEof,
            Callback, Write, Work, At, envVars
      <4> QED
        BY <4>1 DEF Destroy, BaseOK
    <3>4. CASE Stop \/ Destroy
      BY <3>4 DEF Stop, Destroy, envVars, pollVars
    <3>5. CASE SendTest \/ SendLock \/ SendEnd \/ TimerDue
      BY <3>5 DEF SendTest, SendLock, SendEnd, TimerDue, Destroy, envVars, pollVars
    <3>6. CASE Calm
      BY <3>6 DEF Calm, Destroy, pollVars
    <3> QED
      BY <1>2, <3>1, <3>2, <3>3, <3>4, <3>5, <3>6 DEF Quiet
  <2>3. ~TimerDue => due' = due \/ due' = FALSE
    BY <1>2
    DEF Quiet, PollBegin, NotDue, TimerPing, Visit, DnsDone, DnsFailed,
        ConnectDone, ConnectFailed, NotReady, ReadEof, Callback, Write, Work,
        Stop, Destroy, SendTest, SendLock, SendEnd, Calm
  <2>4. CASE orphans = 0
    BY <2>1, <2>2, <2>4 DEF LeakInv
  <2>5. CASE orphans = 1
    <3>1. calm /\ life # "none"
      BY <2>5 DEF LeakInv
    <3>2. poll = "connect" => ~due'
      BY <2>3, <2>5, <3>1 DEF LeakInv, TimerDue, InProgress
    <3>3. ASSUME m_connection # Null, ~m_connected
          PROVE  /\ ~due' /\ Answered(conn'[m_connection])
                 /\ life' \in {"run", "stop"} => ~conn'[m_connection].closing
      <4>1. /\ m_connection \in conns /\ m_connection \in Addr /\ ~due
            /\ Answered(conn[m_connection])
            /\ life \in {"run", "stop"} => ~conn[m_connection].closing
        BY <2>5, <3>3 DEF LeakInv, BaseOK
      <4>2. Answered(conn'[m_connection])
        BY <2>1, <4>1 DEF Answered, Same, Kept
      <4>3. life' \in {"run", "stop"} => ~conn'[m_connection].closing
        BY <1>2, <2>2, <3>1, <4>1, QuietUnmarked
      <4>4. ~TimerDue
        BY <3>1, <3>3, <4>1 DEF TimerDue, InProgress, Answered
      <4> QED
        BY <2>3, <4>1, <4>2, <4>3, <4>4
    <3> QED
      BY <2>1, <2>2, <2>5, <3>1, <3>2, <3>3 DEF LeakInv
  <2> QED
    BY <2>4, <2>5 DEF LeakInv
<1>3. CASE ReadFrame
  <2>1. /\ cur = m_connection /\ cur \in conns /\ conn[cur].in # <<>>
        /\ UNCHANGED <<life, due, conns, m_connection>>
        /\ poll' \in {"frames", "reply"}
        /\ ReadUpgrade => m_connected' = TRUE
        /\ ~ReadUpgrade => UNCHANGED m_connected
    BY <1>3, ReadChange
  <2>2. UNCHANGED <<orphans, calm>>
    BY <1>3 DEF ReadFrame, ReadUpgrade, ReadClosing, ReadPing, ReadBinary, ReadText,
                ReadFirst, ReadLast, Work, envVars
  <2>3. ~ReadUpgrade => Head(conn[cur].in) # <<"101", 0>>
    BY <1>3 DEF ReadFrame, ReadClosing, ReadPing, ReadBinary, ReadText, ReadFirst,
                ReadLast, Reading
  <2>4. orphans = 1 => m_connected'
    <3> SUFFICES ASSUME orphans = 1, ~ReadUpgrade PROVE m_connected
      BY <2>1
    <3> QED
      BY <2>1, <2>3, WSAssumption DEF LeakInv, Answered, BaseOK
  <2> QED
    BY <2>1, <2>2, <2>4 DEF LeakInv
<1>4. CASE TimerClose
  <2>1. /\ due /\ ~m_connected /\ due' = FALSE /\ poll = "timer"
        /\ UNCHANGED <<life, calm>>
    BY <1>4 DEF TimerClose, envVars
  <2>2. life # "none"
    BY <2>1 DEF PlaceInv
  <2>3. CASE m_connection = Null
    <3>1. UNCHANGED <<orphans, m_connection, conns>>
      BY <1>4, <2>3 DEF TimerClose, ptrVars
    <3> QED
      BY <2>1, <2>3, <3>1 DEF LeakInv
  <2>4. CASE m_connection # Null
    <3>1. orphans = 0
      BY <2>1, <2>4 DEF LeakInv
    <3>2. m_connection' = Null /\ orphans' = Orphan(m_connection)
      BY <1>4, <2>4 DEF TimerClose, MgCloseConn
    <3>3. orphans' \in {0, 1} /\ (orphans' = 1 => calm)
      BY <3>1, <3>2 DEF Orphan
    <3> QED
      BY <2>1, <2>2, <3>2, <3>3 DEF LeakInv
  <2> QED
    BY <2>3, <2>4
<1>5. CASE CloseConn
  <2>1. poll' = "visit" /\ UNCHANGED <<life, due, calm, orphans>>
    BY <1>5 DEF CloseConn, envVars
  <2>2. CASE conn[cur].closing
    BY <1>5, <2>1, <2>2 DEF CloseConn, MgCloseConn, LeakInv
  <2>3. CASE ~conn[cur].closing
    BY <1>5, <2>1, <2>3 DEF CloseConn, ptrVars, LeakInv
  <2> QED
    BY <2>2, <2>3
<1>6. CASE TimerConnect \/ Construct
  <2>1. /\ conns = {} /\ WsConnect /\ poll' # "connect"
        /\ UNCHANGED <<due, calm, orphans>>
    BY <1>6 DEF TimerConnect, Construct, PlaceInv, envVars, pollVars
  <2>2. /\ conns' = {m_connection'} /\ m_connection' \in Addr
        /\ conn'[m_connection'] \in NewConn
    BY <2>1, ConnectFills
  <2>3. calm => Answered(conn'[m_connection']) /\ ~conn'[m_connection'].closing
    BY <2>2, NewConnCalm
  <2>4. orphans = 1 => calm /\ ~due /\ life' # "none"
    BY <1>6 DEF LeakInv, TimerConnect, Construct
  <2> QED
    BY <2>1, <2>2, <2>3, <2>4 DEF LeakInv
<1>7. CASE PeerNext
  <2>1. UNCHANGED <<life, poll, due, conns, m_connection, m_connected, calm, orphans>>
    BY <1>7 DEF PeerNext, Accept, Refuse, ServerSend, PeerGone, Peer, pollVars,
                ptrVars, envVars
  <2>2. ASSUME orphans = 1, m_connection # Null, ~m_connected
        PROVE  /\ Answered(conn'[m_connection])
               /\ conn'[m_connection].closing = conn[m_connection].closing
    BY <1>7, <2>2, PeerCalm DEF LeakInv, BaseOK
  <2> QED
    BY <2>1, <2>2 DEF LeakInv
<1> QED
  BY <1>1, <1>2, <1>3, <1>4, <1>5, <1>6, <1>7, NextKinds

----------------------------------------------------------------------------
(* The theorems.                                                           *)

ClientInv == BaseOK /\ PlaceInv /\ TextsInv /\ ClosingInv /\ StreamInv

(* The client starts in the invariant. *)
LEMMA ClientInit == Init => ClientInv
<1> SUFFICES ASSUME Init PROVE ClientInv
  OBVIOUS
<1>1. BaseOK
  <2>1. conn \in [Addr -> Conn]
    BY FreedType DEF Init
  <2>2. named \in BOOLEAN /\ got \in Seq(Nat) /\ orphans \in 0..MaxOrphan
    BY WSAssumption DEF Init
  <2> QED
    BY <2>1, <2>2 DEF Init, BaseOK
<1>2. PlaceInv
  BY DEF Init, PlaceInv, SingleConnection, Working
<1>3. TextsInv
  BY DEF Init, TextsInv, TextsOK, Freed
<1>4. ClosingInv
  BY DEF Init, ClosingInv
<1>5. StreamInv
  <2>1. got = <<>> /\ Len(got) = 0 /\ conns = {} /\ MaxMsg \in Nat
    BY WSAssumption DEF Init
  <2> QED
    BY <2>1 DEF StreamInv
<1> QED
  BY <1>1, <1>2, <1>3, <1>4, <1>5 DEF ClientInv

(* Every step keeps the invariant. *)
LEMMA ClientNext == ClientInv /\ [Next]_vars => ClientInv'
BY BaseNext, PlaceNext, TextsNext, ClosingNext, StreamNext DEF ClientInv

(* The invariant always holds. *)
LEMMA ClientAlways == Spec => []ClientInv
BY ClientInit, ClientNext, PTL DEF Spec

(* Every variable of the client and of mongoose keeps its type, the texts  *)
(* handed on included.                                                     *)
THEOREM TypeCorrect == Spec => []TypeOK
<1>1. ClientInv => TypeOK
  <2> SUFFICES ASSUME ClientInv PROVE TypeOK
    OBVIOUS
  <2>1. got \in Seq(1..MaxMsg)
    <3>1. /\ got \in Seq(Nat) /\ Len(got) \in Nat /\ Len(got) <= MaxMsg
          /\ \A i \in 1..Len(got) : got[i] = i /\ MaxMsg \in Nat
      BY WSAssumption DEF ClientInv, BaseOK, StreamInv
    <3>2. \A i \in 1..Len(got) : got[i] \in 1..MaxMsg
      BY <3>1, WSAssumption
    <3> QED
      BY <3>1, <3>2
  <2> QED
    BY <2>1 DEF ClientInv, BaseOK, TypeOK
<1> QED
  BY <1>1, ClientAlways, PTL

(* mongoose lists no connection of this client but the one m_connection    *)
(* points to, and m_connected is set only when that one has been upgraded: *)
(* the handler of MG_EV_CLOSE, which does not look which connection the    *)
(* event is about, clears the right pointer.                               *)
THEOREM PointersSound == Spec => []ConnectionSound
<1>1. ClientInv => ConnectionSound
  BY DEF ClientInv, PlaceInv, ConnectionSound, ConnectedIsOpen
<1> QED
  BY <1>1, ClientAlways, PTL

(* The one poll of ~WSClient closes every connection, unless the timer is  *)
(* due in it.                                                              *)
THEOREM DestructorCloses == Spec => []DeleteCloses
<1>1. ClientInv => DeleteCloses
  BY DEF ClientInv, ClosingInv, DeleteCloses
<1> QED
  BY <1>1, ClientAlways, PTL

(* Once the network is well on_timer gives up at most the attempt of that  *)
(* moment, and nothing else leaves a socket open without a connection.     *)
THEOREM LeaksOnlyOnce == Spec => []LeaksOnce
<1>1. Init => LeakInv
  BY DEF Init, LeakInv
<1>2. LeakInv => LeaksOnce
  BY DEF LeakInv, LeaksOnce
<1> QED
  BY <1>1, <1>2, LeakNext, ClientAlways, PTL DEF Spec, ClientInv

(* Every step of the client is a step of the link it promises, or none. *)
LEMMA LinkStep == ClientInv /\ [Next]_vars => [Link!LinkNext]_(Link!linkVars)
<1> SUFFICES ASSUME ClientInv, [Next]_vars
             PROVE  Link!LinkNext \/ UNCHANGED <<m_connected, got>>
  BY DEF Link!linkVars
<1>0. BaseOK /\ PlaceInv /\ TextsInv /\ StreamInv
  BY DEF ClientInv
<1>1. CASE UNCHANGED vars
  BY <1>1 DEF vars, ptrVars
<1>2. ASSUME ~undef, Quiet PROVE UNCHANGED <<m_connected, got>>
  BY <1>0, <1>2, QuietSame
<1>3. CASE ReadFrame
  BY <1>0, <1>3, ReadEffect DEF Link!LinkNext, Link!Open, Link!Deliver
<1>4. CASE TimerClose
  <2>1. ~m_connected /\ m_connected' = FALSE /\ UNCHANGED got
    BY <1>0, <1>4 DEF TimerClose, MgCloseConn, ptrVars, BaseOK
  <2> QED
    BY <1>0, <2>1 DEF BaseOK
<1>5. CASE CloseConn
  <2>1. CASE conn[cur].closing
    <3>1. m_connected' = FALSE /\ UNCHANGED got
      BY <1>5, <2>1 DEF CloseConn, MgCloseConn
    <3> QED
      BY <1>0, <3>1 DEF BaseOK, Link!LinkNext, Link!Close
  <2>2. CASE ~conn[cur].closing
    BY <1>5, <2>2 DEF CloseConn, ptrVars
  <2> QED
    BY <2>1, <2>2
<1>6. CASE TimerConnect \/ Construct
  BY <1>6 DEF TimerConnect, Construct
<1>7. CASE PeerNext
  BY <1>7 DEF PeerNext, Accept, Refuse, ServerSend, PeerGone, Peer, ptrVars
<1> QED
  BY <1>1, <1>2, <1>3, <1>4, <1>5, <1>6, <1>7, NextKinds

(* WSClient implements the link LiveMeetingRoom is promised: it opens and  *)
(* closes in turn, and each text of the server arrives once, in order and  *)
(* whole, however it was cut into fragments, whatever control frames come  *)
(* between them and however the connection ends.                           *)
THEOREM LinkImplemented == Spec => ImplementsLink
<1>1. Init => Link!LinkInit
  BY DEF Init, Link!LinkInit
<1> QED
  BY <1>1, LinkStep, ClientAlways, PTL
  DEF Spec, ImplementsLink, Link!LinkSpec
=============================================================================
