------------------------------ MODULE WSClient ------------------------------
(***************************************************************************)
(* WSClient and the part of mongoose it drives: the connection with its    *)
(* socket and buffers, the list of connections, the repeating timer and    *)
(* the destructor.                                                         *)
(*                                                                         *)
(* mg_mgr_poll runs on the ws thread, in the destructor on the app thread. *)
(* send_text is called by callbacks on the ws thread and, by LiveMeetingRoom, *)
(* on the app thread; only these calls and the ping of the timer take      *)
(* m_mutex.  A step of the poll ends where the app thread can see the      *)
(* difference.  The server, the resolver and the network are external.     *)
(***************************************************************************)
EXTENDS Naturals, Sequences, SequencesExt

CONSTANTS
  Addr,      \* addresses the allocator has for an mg_connection
  Null,      \* no connection
  MaxMsg,    \* bound on the texts the server sends on one connection
  MaxIn,     \* bound on the frames in flight to the client
  MaxOut,    \* bound on what the client queues
  MaxOrphan  \* the sockets nobody will close are counted up to here

ASSUME WSAssumption ==
  /\ Null \notin Addr
  /\ MaxMsg \in Nat /\ MaxIn \in Nat \ {0} /\ MaxOut \in Nat \ {0}
  /\ MaxOrphan \in Nat

VARIABLES
  life,         \* none, run, stop (pulse loop told to end), free, gone
  poll,         \* where mg_mgr_poll is; idle between two pulses
  todo,         \* connections mg_mgr_poll has still to visit
  cur,          \* the connection it is visiting
  due,          \* the timer's period has passed
  conns,        \* mgr->conns
  conn,         \* the mg_connection at an address
  m_connection, m_connected,
  m_mutex,      \* the owner, or free
  app,          \* the app thread in send_text: idle, tested or send
  target,       \* the connection its mg_ws_send works on
  named,        \* is the host of m_server_url a name (or an address)?
  calm,         \* external: from now on the network and the server are well
  orphans,      \* sockets left open without a connection since it is calm
  got,          \* texts handed to m_recv_func since MG_EV_WS_OPEN
  lateTimer,    \* the timer went off in the destructor's poll
  undef         \* freed memory was used, or a buffer by two threads at once

pollVars == <<poll, todo, cur>>
appVars  == <<app, target>>
ptrVars  == <<m_connection, m_connected>>
envVars  == <<named, calm>>
vars == <<life, pollVars, due, conns, conn, ptrVars, m_mutex, appVars,
          envVars, orphans, got, lateTimer, undef>>

(* Frames of the server: the answer to the upgrade request, a text in one  *)
(* frame or in two fragments, a binary message, a ping, a close.           *)
Frame == {"101", "refuse", "bin", "ping", "close"}
           \X {0} \union {"text", "first", "last"} \X (1..MaxMsg)

Conn == [st: {"resolving", "connecting", "handshake", "open"},
         closing: BOOLEAN,  \* is_closing
         fd: BOOLEAN,       \* has a socket
         out: Seq({"request", "control", "text"}),  \* send buffer
         asked: BOOLEAN,    \* the upgrade request is written
         in: Seq(Frame),    \* on the way to the client
         peer: {"up", "gone", "silent"},  \* gone: seen as end of file
         srv: {"wait", "open", "done"},  \* the server's side
         next: Nat,         \* the server's next text
         mid: BOOLEAN,      \* the server is inside a fragmented text
         frag: Nat]         \* pfn_data: the text being put together, or 0

TypeOK ==
  /\ life \in {"none", "run", "stop", "free", "gone"}
  /\ poll \in {"idle", "timer", "connect", "visit", "work", "frames",
               "reply", "write", "close"}
  /\ todo \subseteq Addr /\ cur \in Addr \union {Null}
  /\ due \in BOOLEAN /\ conns \subseteq Addr
  /\ conn \in [Addr -> Conn]
  /\ m_connection \in Addr \union {Null} /\ m_connected \in BOOLEAN
  /\ m_mutex \in {"free", "app"}
  /\ app \in {"idle", "tested", "send"} /\ target \in Addr \union {Null}
  /\ named \in BOOLEAN /\ calm \in BOOLEAN /\ orphans \in 0..MaxOrphan
  /\ got \in Seq(1..MaxMsg) /\ lateTimer \in BOOLEAN /\ undef \in BOOLEAN

(* Freed memory reads as zeroes. *)
Freed == [st |-> "connecting", closing |-> FALSE, fd |-> FALSE, out |-> <<>>,
          asked |-> FALSE, in |-> <<>>, peer |-> "up", srv |-> "wait",
          next |-> 1, mid |-> FALSE, frag |-> 0]

Init ==
  /\ life = "none" /\ poll = "idle" /\ todo = {} /\ cur = Null
  /\ due = FALSE /\ conns = {} /\ conn = [a \in Addr |-> Freed]
  /\ m_connection = Null /\ m_connected = FALSE /\ m_mutex = "free"
  /\ app = "idle" /\ target = Null /\ named \in BOOLEAN /\ calm = FALSE
  /\ orphans = 0 /\ got = <<>> /\ lateTimer = FALSE /\ undef = FALSE

----------------------------------------------------------------------------
(* What may go wrong goes wrong only while the network is not well. *)
May(faults) == IF calm THEN {} ELSE faults

(* socket and connect: in progress, done at once, refused, or no socket. *)
Resolved(c) ==
  {[c EXCEPT !.st = "connecting", !.fd = TRUE],
   [c EXCEPT !.st = "handshake", !.fd = TRUE]} \union
  May({[c EXCEPT !.st = "handshake", !.fd = TRUE, !.closing = TRUE],
       [c EXCEPT !.st = "handshake", !.closing = TRUE]})

(* mg_connect and mg_resolve: an address is connected to, a name is asked  *)
(* for (or there is no resolver).                                          *)
NewConn ==
  LET c == [Freed EXCEPT !.out = <<"request">>] IN
  IF named
  THEN {[c EXCEPT !.st = "resolving"]} \union
       May({[c EXCEPT !.st = "resolving", !.closing = TRUE]})
  ELSE Resolved(c)

(* mg_ws_connect: the allocator may hand out any address that is free. *)
WsConnect ==
  \E a \in Addr \ conns :
    /\ conns' = conns \union {a}
    /\ \E c \in NewConn : conn' = [conn EXCEPT ![a] = c]
    /\ m_connection' = a

(* The constructor runs on_timer at once. *)
Construct ==
  /\ life = "none"
  /\ life' = "run"
  /\ WsConnect
  /\ UNCHANGED <<pollVars, due, m_connected, m_mutex, appVars, envVars,
                 orphans, got, lateTimer, undef>>

(* The app thread is inside mg_ws_send on this connection. *)
InUse(a) == app = "send" /\ target = a

(* The count of orphans when a connection goes and its socket stays. *)
Orphan(a) ==
  IF calm /\ conn[a].fd /\ orphans < MaxOrphan THEN orphans + 1 ELSE orphans

(* mg_close_conn: off the list, MG_EV_CLOSE, then free.  The handler does  *)
(* not look which connection the event is for; its two assignments are one *)
(* step, as send_text's test of both gives the same after the first one.   *)
MgCloseConn(a) ==
  /\ conns' = conns \ {a}
  /\ conn' = [conn EXCEPT ![a] = Freed]
  /\ m_connection' = Null /\ m_connected' = FALSE
  /\ undef' = InUse(a)

----------------------------------------------------------------------------
(* websocket_pulse_loop and mg_mgr_poll. *)
PollBegin ==
  /\ poll = "idle" /\ life = "run"
  /\ poll' = "timer"
  /\ UNCHANGED <<life, todo, cur, due, conns, conn, ptrVars, m_mutex,
                 appVars, envVars, orphans, got, lateTimer, undef>>

NotDue ==
  /\ poll = "timer" /\ ~due
  /\ poll' = "visit" /\ todo' = conns
  /\ UNCHANGED <<life, cur, due, conns, conn, ptrVars, m_mutex, appVars,
                 envVars, orphans, got, lateTimer, undef>>

(* mg_ws_send puts a frame at the end of the send buffer. *)
Queue(a, frame) == [conn EXCEPT ![a].out = Append(@, frame)]

(* on_timer on an open connection: a ping, under the mutex. *)
TimerPing ==
  /\ poll = "timer" /\ due /\ m_connected
  /\ m_mutex = "free"
  /\ due' = FALSE /\ lateTimer' = (life = "free")
  /\ poll' = "visit" /\ todo' = conns
  /\ conn' = Queue(m_connection, "control")
  /\ UNCHANGED <<life, cur, conns, ptrVars, m_mutex, appVars, envVars, orphans,
                 got, undef>>

(* Mutant of TimerClose: the old attempt is forgotten, not closed. *)
TimerCloseForgets ==
  /\ poll = "timer" /\ due /\ ~m_connected
  /\ due' = FALSE /\ lateTimer' = (life = "free")
  /\ poll' = "connect"
  /\ UNCHANGED <<life, todo, cur, conns, conn, ptrVars, m_mutex, appVars,
                 envVars, orphans, got, undef>>

(* Mutant of TimerClose: an attempt that has not failed is given more time. *)
TimerCloseWaits ==
  /\ poll = "timer" /\ due /\ ~m_connected
  /\ due' = FALSE /\ lateTimer' = (life = "free")
  /\ IF m_connection # Null
     THEN poll' = "visit" /\ todo' = conns
     ELSE poll' = "connect" /\ UNCHANGED todo
  /\ UNCHANGED <<life, cur, conns, conn, ptrVars, m_mutex, appVars, envVars,
                 orphans, got, undef>>

(* on_timer on an attempt that has not opened: mg_close_conn is called     *)
(* directly, which closes no socket.                                       *)
TimerClose ==
  /\ poll = "timer" /\ due /\ ~m_connected
  /\ due' = FALSE /\ lateTimer' = (life = "free")
  /\ poll' = "connect"
  /\ IF m_connection # Null
     THEN /\ MgCloseConn(m_connection)
          /\ orphans' = Orphan(m_connection)
     ELSE UNCHANGED <<conns, conn, ptrVars, orphans, undef>>
  /\ UNCHANGED <<life, todo, cur, m_mutex, appVars, envVars, got>>

TimerConnect ==
  /\ poll = "connect"
  /\ WsConnect
  /\ poll' = "visit" /\ todo' = conns'
  /\ UNCHANGED <<life, cur, due, m_connected, m_mutex, appVars, envVars,
                 orphans, got, lateTimer, undef>>

(* The next connection of the list; one that is closing is only closed. *)
Visit ==
  /\ poll = "visit"
  /\ IF todo = {}
     THEN /\ poll' = "idle" /\ cur' = Null /\ UNCHANGED todo
          /\ life' = IF life = "free" THEN "gone" ELSE life
     ELSE \E a \in todo :
            /\ cur' = a /\ todo' = todo \ {a}
            /\ poll' = IF conn[a].closing THEN "close" ELSE "work"
            /\ UNCHANGED life
  /\ UNCHANGED <<due, conns, conn, ptrVars, m_mutex, appVars, envVars, orphans,
                 got, lateTimer, undef>>

(* What the visit does to the connection, and where it goes on. *)
Work(new, pc) ==
  /\ conn' = [conn EXCEPT ![cur] = new]
  /\ poll' = pc
  /\ UNCHANGED <<life, todo, cur, due, conns, m_connection, m_mutex, appVars,
                 envVars, orphans, lateTimer>>

Silent == UNCHANGED <<m_connected, got, undef>>

At(st) == poll = "work" /\ conn[cur].st = st

(* The resolver answers; it fails, or says nothing for three seconds. *)
DnsDone ==
  /\ At("resolving") /\ Silent
  /\ \E c \in Resolved(conn[cur]) : Work(c, "close")

DnsFailed ==
  /\ At("resolving") /\ Silent /\ ~calm
  /\ Work([conn[cur] EXCEPT !.closing = TRUE], "close")

(* connect_conn: the socket has become writable, or has an error. *)
ConnectDone ==
  /\ At("connecting") /\ Silent
  /\ Work([conn[cur] EXCEPT !.st = "handshake"], "close")

ConnectFailed ==
  /\ At("connecting") /\ Silent /\ ~calm
  /\ Work([conn[cur] EXCEPT !.st = "handshake", !.closing = TRUE], "close")

(* select has reported nothing, or nothing more, for this connection: a    *)
(* network that is well makes it ready when there is something to do.      *)
Pending(c) ==
  /\ c.peer # "silent"
  /\ c.st \in {"resolving", "connecting"} \/ c.in # <<>> \/ c.out # <<>>
       \/ c.peer = "gone"

NotReady ==
  /\ poll \in {"work", "frames"} /\ Silent
  /\ calm => ~Pending(conn[cur])
  /\ Work(conn[cur], "close")

----------------------------------------------------------------------------
(* read_conn and mg_ws_cb: every complete frame of the receive buffer is   *)
(* handled, also those that follow one that closes the connection.         *)
Reading(frames) ==
  /\ poll \in {"work", "frames"}
  /\ conn[cur].in # <<>> /\ Head(conn[cur].in) \in frames

Taken == [conn[cur] EXCEPT !.in = Tail(@)]

(* 101 makes the connection a websocket; MG_EV_WS_OPEN. *)
ReadUpgrade ==
  /\ Reading({<<"101", 0>>})
  /\ Work([Taken EXCEPT !.st = "open"], "reply")
  /\ m_connected' = TRUE /\ got' = <<>>
  /\ UNCHANGED undef

(* Another answer to the request, or a close frame. *)
ReadClosing ==
  /\ Reading({<<"refuse", 0>>, <<"close", 0>>}) /\ Silent
  /\ Work([Taken EXCEPT !.closing = TRUE], "frames")

(* A ping is answered at once, without the mutex. *)
ReadPing ==
  /\ Reading({<<"ping", 0>>})
  /\ Work([Taken EXCEPT !.out = Append(@, "control")], "frames")
  /\ undef' = InUse(cur)
  /\ UNCHANGED <<m_connected, got>>

(* A binary message reaches on_event_handle, which does nothing with it.   *)
ReadBinary ==
  /\ Reading({<<"bin", 0>>}) /\ Silent
  /\ Work(Taken, "frames")

ReadText ==
  /\ Reading({"text"} \X (1..MaxMsg))
  /\ Work(Taken, "reply")
  /\ got' = Append(got, Head(conn[cur].in)[2])
  /\ UNCHANGED <<m_connected, undef>>

(* Mutant of ReadFirst: where the text begins is not kept. *)
ReadFirstForgets ==
  /\ Reading({"first"} \X (1..MaxMsg)) /\ Silent
  /\ Work(Taken, "frames")

(* The first fragment stays in the receive buffer, without its header. *)
ReadFirst ==
  /\ Reading({"first"} \X (1..MaxMsg)) /\ Silent
  /\ Work([Taken EXCEPT !.frag = Head(conn[cur].in)[2]], "frames")

(* Mutant of ReadLast: the fragment is taken for a message of its own. *)
ReadLastDropped ==
  /\ Reading({"last"} \X (1..MaxMsg)) /\ Silent
  /\ Work([Taken EXCEPT !.frag = 0], "frames")

(* The last fragment completes the text. *)
ReadLast ==
  /\ Reading({"last"} \X (1..MaxMsg))
  /\ Work([Taken EXCEPT !.frag = 0], "reply")
  /\ got' = Append(got, conn[cur].frag)
  /\ UNCHANGED <<m_connected, undef>>

ReadEof ==
  /\ poll \in {"work", "frames"}
  /\ conn[cur].in = <<>> /\ conn[cur].peer = "gone" /\ Silent
  /\ Work([conn[cur] EXCEPT !.closing = TRUE], "close")

(* The callback, on the ws thread, calls send_text or does not. *)
Callback ==
  /\ poll = "reply" /\ Silent
  /\ \/ Work(conn[cur], "frames")
     \/ /\ m_connection # Null /\ m_connected /\ m_mutex = "free"
        /\ Len(conn[m_connection].out) < MaxOut
        /\ conn' = Queue(m_connection, "text")
        /\ poll' = "frames"
        /\ UNCHANGED <<life, todo, cur, due, conns, m_connection, m_mutex,
                       appVars, envVars, orphans, lateTimer>>

(* write_conn: the socket takes some of the send buffer. *)
Write ==
  /\ poll \in {"work", "frames"}
  /\ conn[cur].st \in {"handshake", "open"} /\ conn[cur].peer # "silent"
  /\ \E n \in 1..Len(conn[cur].out) :
       LET done == SubSeq(conn[cur].out, 1, n) IN
       Work([conn[cur] EXCEPT !.out = SubSeq(@, n + 1, Len(@)),
                              !.asked = @ \/ "request" \in Range(done)],
            "close")
  /\ undef' = InUse(cur)
  /\ UNCHANGED <<m_connected, got>>

(* Mutant of CloseConn: the socket is not closed. *)
CloseConnLeaks ==
  /\ poll = "close" /\ poll' = "visit"
  /\ IF conn[cur].closing
     THEN MgCloseConn(cur) /\ orphans' = Orphan(cur)
     ELSE UNCHANGED <<conns, conn, ptrVars, undef, orphans>>
  /\ UNCHANGED <<life, todo, cur, due, m_mutex, appVars, envVars, got,
                 lateTimer>>

(* The end of the visit: close_conn closes the socket and the connection. *)
CloseConn ==
  /\ poll = "close" /\ poll' = "visit"
  /\ IF conn[cur].closing
     THEN MgCloseConn(cur)
     ELSE UNCHANGED <<conns, conn, ptrVars, undef>>
  /\ UNCHANGED <<life, todo, cur, due, m_mutex, appVars, envVars, orphans, got,
                 lateTimer>>

----------------------------------------------------------------------------
(* free_context ends the pulse loop, joins its thread and deletes the      *)
(* client: ~WSClient marks every connection and polls once more, timers    *)
(* included.                                                               *)
Stop ==
  /\ life = "run" /\ app = "idle"
  /\ life' = "stop"
  /\ UNCHANGED <<pollVars, due, conns, conn, ptrVars, m_mutex, appVars,
                 envVars, orphans, got, lateTimer, undef>>

(* Mutant of Destroy: the connections are not marked. *)
DestroyUnmarked ==
  /\ life = "stop" /\ poll = "idle"
  /\ life' = "free" /\ poll' = "timer"
  /\ UNCHANGED <<todo, cur, due, conns, conn, ptrVars, m_mutex, appVars,
                 envVars, orphans, got, lateTimer, undef>>

Destroy ==
  /\ life = "stop" /\ poll = "idle"
  /\ life' = "free" /\ poll' = "timer"
  /\ conn' = [a \in Addr |-> IF a \in conns
                             THEN [conn[a] EXCEPT !.closing = TRUE]
                             ELSE conn[a]]
  /\ UNCHANGED <<todo, cur, due, conns, ptrVars, m_mutex, appVars, envVars,
                 orphans, got, lateTimer, undef>>

----------------------------------------------------------------------------
(* send_text on the app thread tests the pointer and the flag, ...         *)
SendTest ==
  /\ life = "run" /\ app = "idle"
  /\ m_connection # Null /\ m_connected
  /\ Len(conn[m_connection].out) < MaxOut
  /\ app' = "tested"
  /\ UNCHANGED <<life, pollVars, due, conns, conn, ptrVars, m_mutex, target,
                 envVars, orphans, got, lateTimer, undef>>

(* ... then takes the mutex and reads the pointer again.                   *)
SendLock ==
  /\ app = "tested" /\ m_mutex = "free"
  /\ app' = "send" /\ m_mutex' = "app"
  /\ target' = m_connection
  /\ undef' = (m_connection = Null)
  /\ UNCHANGED <<life, pollVars, due, conns, conn, ptrVars, envVars, orphans,
                 got, lateTimer>>

SendEnd ==
  /\ app = "send"
  /\ conn' = Queue(target, "text")
  /\ app' = "idle" /\ m_mutex' = "free" /\ target' = Null
  /\ UNCHANGED <<life, pollVars, due, conns, ptrVars, envVars, orphans, got,
                 lateTimer, undef>>

----------------------------------------------------------------------------
(* External: the clock, the server and the network.  Twelve seconds are    *)
(* enough for an attempt when everything is well.                          *)
InProgress ==
  \/ poll = "connect"
  \/ /\ m_connection # Null /\ ~m_connected
     /\ LET c == conn[m_connection] IN
        ~c.closing /\ c.peer = "up" /\ (c.srv # "done" \/ c.in # <<>>)

TimerDue ==
  /\ ~due /\ life \in {"run", "stop"} /\ ~(calm /\ InProgress)
  /\ m_connected => Len(conn[m_connection].out) < MaxOut
  /\ due' = TRUE
  /\ UNCHANGED <<life, pollVars, conns, conn, ptrVars, m_mutex, appVars,
                 envVars, orphans, got, lateTimer, undef>>

Peer(a, new) ==
  /\ conn' = [conn EXCEPT ![a] = new]
  /\ UNCHANGED <<life, pollVars, due, conns, ptrVars, m_mutex, appVars, envVars,
                 orphans, got, lateTimer, undef>>

Talking(a) == a \in conns /\ conn[a].asked /\ conn[a].peer = "up"

Accept(a) ==
  /\ Talking(a) /\ conn[a].srv = "wait"
  /\ Peer(a, [conn[a] EXCEPT !.in = Append(@, <<"101", 0>>), !.srv = "open"])

Refuse(a) ==
  /\ Talking(a) /\ conn[a].srv = "wait" /\ ~calm
  /\ Peer(a, [conn[a] EXCEPT !.in = Append(@, <<"refuse", 0>>),
                             !.srv = "done"])

(* Control frames may come between the fragments of a text. *)
ServerSend(a) ==
  LET c == conn[a]
      Sent(frame) == [c EXCEPT !.in = Append(@, frame)]
  IN
  /\ Talking(a) /\ c.srv = "open" /\ Len(c.in) < MaxIn
  /\ \/ Len(c.out) < MaxOut /\ Peer(a, Sent(<<"ping", 0>>))
     \/ ~c.mid /\ Peer(a, Sent(<<"bin", 0>>))
     \/ Peer(a, [Sent(<<"close", 0>>) EXCEPT !.srv = "done"])
     \/ /\ ~c.mid /\ c.next <= MaxMsg
        /\ \/ Peer(a, [Sent(<<"text", c.next>>) EXCEPT !.next = @ + 1])
           \/ Peer(a, [Sent(<<"first", c.next>>) EXCEPT !.mid = TRUE])
     \/ /\ c.mid
        /\ Peer(a, [Sent(<<"last", c.next>>) EXCEPT !.mid = FALSE,
                                                    !.next = @ + 1])

(* The connection breaks and what is on the way is lost: the client gets   *)
(* an end of file, or nothing at all, or that after a silence.             *)
PeerGone(a) ==
  /\ a \in conns /\ conn[a].fd /\ ~calm
  /\ \/ /\ conn[a].peer = "up"
        /\ \E p \in {"gone", "silent"} :
             Peer(a, [conn[a] EXCEPT !.in = <<>>, !.peer = p])
     \/ /\ conn[a].peer = "silent"
        /\ Peer(a, [conn[a] EXCEPT !.peer = "gone"])

Calm ==
  /\ ~calm /\ calm' = TRUE
  /\ UNCHANGED <<life, pollVars, due, conns, conn, ptrVars, m_mutex, appVars,
                 named, orphans, got, lateTimer, undef>>

----------------------------------------------------------------------------
ReadNext == \/ ReadUpgrade \/ ReadClosing \/ ReadPing \/ ReadBinary
            \/ ReadText \/ ReadFirst \/ ReadLast \/ ReadEof
PollNext == \/ PollBegin \/ NotDue \/ TimerPing \/ TimerClose \/ TimerConnect
            \/ Visit \/ DnsDone \/ DnsFailed \/ ConnectDone \/ ConnectFailed
            \/ NotReady \/ ReadNext \/ Callback \/ Write \/ CloseConn
AppNext  == Construct \/ Stop \/ Destroy \/ SendTest \/ SendLock \/ SendEnd
PeerNext == \E a \in Addr : \/ Accept(a) \/ Refuse(a) \/ ServerSend(a)
                            \/ PeerGone(a)

(* Nothing is said of the program after an undefined operation, and        *)
(* nothing happens to a client that has been deleted.                      *)
Halt == (undef \/ life = "gone") /\ UNCHANGED vars

Next == \/ Halt
        \/ ~undef /\ life # "gone"
             /\ (PollNext \/ AppNext \/ TimerDue \/ PeerNext \/ Calm)

Spec == Init /\ [][Next]_vars

(* The pulse loop keeps running, the clock advances, a call of send_text   *)
(* ends, and a server that is asked accepts.                               *)
FairSpec ==
  /\ Spec
  /\ WF_vars(~undef /\ PollNext) /\ WF_vars(~undef /\ TimerDue)
  /\ WF_vars(~undef /\ SendLock) /\ WF_vars(~undef /\ SendEnd)
  /\ \A a \in Addr : WF_vars(~undef /\ Accept(a))

----------------------------------------------------------------------------
(* MG_EV_CLOSE clears m_connection whichever connection it is about: that  *)
(* is right because mongoose never lists a connection of this client other *)
(* than the one m_connection points to, a reconnecting timer included.     *)
SingleConnection == conns \subseteq {m_connection}

(* Whoever finds m_connected set finds m_connection pointing to a listed   *)
(* connection on which the upgrade has been done, so that a frame is never *)
(* sent in the place of the handshake.                                     *)
ConnectedIsOpen ==
  m_connected => m_connection \in conns /\ conn[m_connection].st = "open"

(* What m_connection and m_connected say of mongoose's list, between any   *)
(* two steps of the poll.                                                  *)
ConnectionSound == SingleConnection /\ ConnectedIsOpen

(* LiveMeetingRoom's view of the client: it opens and closes in turn and   *)
(* every text of the server arrives once, in order, and whole, however it  *)
(* was cut into fragments and whatever comes between them.                 *)
Link == INSTANCE WSLink WITH up <- m_connected, heard <- got
ImplementsLink == Link!LinkSpec

(* When on_timer gives up an attempt its socket stays open, as             *)
(* mg_close_conn closes none.  Once the network is well this can happen to *)
(* the attempt of that moment and to no other: connections that open and   *)
(* close again, however often, give back their sockets.                    *)
LeaksOnce == orphans <= 1

(* ~WSClient leaves no connection behind, unless its last poll finds the   *)
(* timer due, which connects once more behind mg_mgr_free's back.          *)
DeleteCloses == life = "gone" => conns = {} \/ lateTimer

(* Once the network is well the client connects, whatever became of the    *)
(* attempts before: refused, broken, and those nobody ever answers.        *)
Reconnects ==
  calm /\ life = "run" /\ ~m_connected ~> m_connected \/ life # "run" \/ undef

(* ws_client.h on m_mutex: "the mutex for thread safe".  A send works on a *)
(* connection that exists, that nobody else works on, and that has been    *)
(* upgraded.                                                               *)
SendSafe ==
  /\ ~undef
  /\ \A a \in conns : conn[a].st # "open" => "text" \notin Range(conn[a].out)
=============================================================================
