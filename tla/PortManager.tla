---------------------------- MODULE PortManager ----------------------------
(***************************************************************************)
(* PortManager and the sockets that get their UDP ports from it: the video *)
(* and audio receivers of the RoomUsers and the two RTP senders.  The room *)
(* asks for one port at a time (its ws thread does); between any two steps *)
(* other processes bind and close ports.  The program never calls          *)
(* release_port: ports come back when the pool is empty.                   *)
(***************************************************************************)
EXTENDS Integers, Sequences, FiniteSets

CONSTANTS
  First,      \* the first port of the pool
  End,        \* the port after the last one
  Receivers,  \* sockets of RoomUsers
  Senders     \* sockets of the RTP senders

ASSUME PortsAssumption ==
  /\ First \in Nat \ {0} /\ End \in Nat /\ First <= End
  /\ Receivers \intersect Senders = {}

VARIABLES
  initialized,  \* m_initialized
  available,    \* m_available_ports
  inUse,        \* m_ports_in_use
  pc,           \* idle, try (the loop of get_udp_port) or bind
  owner,        \* whom the port is for
  port,         \* the port get_udp_port returned
  sock,         \* per socket: the port it is bound to, or NoPort
  other,        \* ports bound by other processes
  offered,      \* history: m_available_ports when the loop was entered
  freeSince,    \* history: ports that have been free ever since
  unprobed      \* history: ports whose probe socket could not be created

poolVars == <<initialized, available, inUse>>
callVars == <<pc, owner, port>>
histVars == <<offered, freeSince, unprobed>>
vars == <<poolVars, callVars, sock, other, histVars>>

Ports     == First..(End - 1)
Sockets   == Receivers \union Senders
NoPort    == 0
Ephemeral == End     \* stands for any port outside of the pool

Elements(s) == {s[i] : i \in 1..Len(s)}

Free(p) == p \notin other /\ \A h \in Sockets : sock[h] # p

Init ==
  /\ initialized = FALSE /\ available = <<>> /\ inUse = {}
  /\ pc = "idle" /\ owner \in Sockets /\ port = NoPort
  /\ sock = [h \in Sockets |-> NoPort]
  /\ other \in SUBSET Ports
  /\ offered = {} /\ freeSince = {} /\ unprobed = {}

(* A second call returns at once. *)
Initialize ==
  /\ ~initialized /\ pc = "idle"
  /\ initialized' = TRUE
  /\ available' = [i \in 1..(End - First) |-> First + i - 1]
  /\ inUse' = {}
  /\ UNCHANGED <<callVars, sock, other, histVars>>

(* The elements of a std::set in the order of its iterator. *)
Ascending(S) ==
  {s \in [1..Cardinality(S) -> S] :
     /\ S = Elements(s)
     /\ \A i, j \in 1..Cardinality(S) : i < j => s[i] < s[j]}

(* Mutant of Recycle: the ports are not taken out of m_ports_in_use. *)
RecycleKeeps ==
  IF available = <<>>
  THEN available' \in Ascending(inUse) /\ UNCHANGED inUse
  ELSE UNCHANGED <<available, inUse>>

(* When no port is left, the ones in use become available again. *)
Recycle ==
  IF available = <<>>
  THEN available' \in Ascending(inUse) /\ inUse' = {}
  ELSE UNCHANGED <<available, inUse>>

GetPort(h) ==
  /\ pc = "idle" /\ sock[h] = NoPort
  /\ Recycle
  /\ pc' = "try" /\ owner' = h
  /\ offered' = Elements(available')
  /\ freeSince' = {p \in Ports : Free(p)} /\ unprobed' = {}
  /\ UNCHANGED <<initialized, port, sock, other>>

(* check_available creates a probe socket, binds it to the port and closes *)
(* it again.  It says no when there is no socket (no descriptor is left,   *)
(* say) or when the port is taken.                                         *)
CheckAvailable(p) ==
  \/ /\ pc' = IF Free(p) THEN "bind" ELSE "try"
     /\ UNCHANGED unprobed
  \/ /\ pc' = "try"
     /\ unprobed' = unprobed \union {p}

(* Mutant of TryPort: a port that is taken stays in the list. *)
TryPortKeeps ==
  /\ pc = "try" /\ available # <<>>
  /\ port' = Head(available)
  /\ CheckAvailable(port')
  /\ IF pc' = "bind"
     THEN inUse' = inUse \union {port'} /\ available' = Tail(available)
     ELSE UNCHANGED <<inUse, available>>
  /\ UNCHANGED <<initialized, owner, sock, other, offered, freeSince>>

(* Mutant of TryPort: the iterator moves on past the erased element, so    *)
(* that the port after a refused one is skipped.                           *)
TryPortSkips ==
  /\ pc = "try" /\ available # <<>>
  /\ port' = Head(available)
  /\ CheckAvailable(port')
  /\ IF pc' = "try" /\ Len(available) > 1
     THEN /\ inUse' = inUse \union {port', available[2]}
          /\ available' = Tail(Tail(available))
     ELSE /\ inUse' = inUse \union {port'}
          /\ available' = Tail(available)
  /\ UNCHANGED <<initialized, owner, sock, other, offered, freeSince>>

(* Mutant of TryPort: the port is not checked. *)
TryPortUnchecked ==
  /\ pc = "try" /\ available # <<>>
  /\ port' = Head(available) /\ pc' = "bind"
  /\ inUse' = inUse \union {port'} /\ available' = Tail(available)
  /\ UNCHANGED <<initialized, owner, sock, other, histVars>>

(* One round of the loop: the port is in use from now on, whatever the     *)
(* check said.                                                             *)
TryPort ==
  /\ pc = "try" /\ available # <<>>
  /\ port' = Head(available)
  /\ CheckAvailable(port')
  /\ inUse' = inUse \union {port'}
  /\ available' = Tail(available)
  /\ UNCHANGED <<initialized, owner, sock, other, offered, freeSince>>

(* No port: a RoomUser gives up, a sender binds to port 0, for which the   *)
(* system picks one.                                                       *)
GetFails ==
  /\ pc = "try" /\ available = <<>>
  /\ Recycle
  /\ IF owner \in Senders
     THEN pc' = "bind" /\ port' = Ephemeral
     ELSE pc' = "idle" /\ port' = NoPort
  /\ UNCHANGED <<initialized, owner, sock, other, histVars>>

(* RTPTransmitterV4::init.  It, or what its caller does next, may fail for *)
(* other reasons too: the socket is closed again, the port stays in use.   *)
Bind ==
  /\ pc = "bind"
  /\ pc' = "idle" /\ port' = NoPort
  /\ \/ /\ port = Ephemeral \/ Free(port)
        /\ sock' = [sock EXCEPT ![owner] = port]
     \/ UNCHANGED sock
  /\ UNCHANGED <<poolVars, owner, other, histVars>>

(* The destructor of RTPTransmitterV4 closes the socket, and that is all.  *)
Close(h) ==
  /\ pc = "idle" /\ sock[h] # NoPort
  /\ sock' = [sock EXCEPT ![h] = NoPort]
  /\ UNCHANGED <<poolVars, callVars, other, histVars>>

(* release_port of a port that is in use; any other one is refused. *)
ReleasePort(p) ==
  /\ pc = "idle" /\ p \in inUse
  /\ available' = Append(available, p)
  /\ inUse' = inUse \ {p}
  /\ UNCHANGED <<initialized, callVars, sock, other, histVars>>

(* Other processes. *)
OtherBind(p) ==
  /\ Free(p)
  /\ other' = other \union {p}
  /\ freeSince' = freeSince \ {p}
  /\ UNCHANGED <<poolVars, callVars, sock, offered, unprobed>>

OtherClose(p) ==
  /\ p \in other
  /\ other' = other \ {p}
  /\ UNCHANGED <<poolVars, callVars, sock, histVars>>

Next ==
  \/ Initialize \/ TryPort \/ GetFails \/ Bind
  \/ \E h \in Sockets : GetPort(h) \/ Close(h)
  \/ \E p \in Ports : ReleasePort(p) \/ OtherBind(p) \/ OtherClose(p)

Spec == Init /\ [][Next]_vars

----------------------------------------------------------------------------
TypeOK ==
  /\ initialized \in BOOLEAN
  /\ available \in Seq(Ports) /\ inUse \in SUBSET Ports
  /\ pc \in {"idle", "try", "bind"} /\ owner \in Sockets
  /\ port \in Ports \union {NoPort, Ephemeral}
  /\ sock \in [Sockets -> Ports \union {NoPort, Ephemeral}]
  /\ other \in SUBSET Ports
  /\ offered \in SUBSET Ports /\ freeSince \in SUBSET Ports
  /\ unprobed \in SUBSET Ports

NoRepeats ==
  \A i, j \in 1..Len(available) : available[i] = available[j] => i = j

(* No port is lost and none is listed twice, whatever mix of failed        *)
(* checks, recycling and releases there has been: every port of the pool   *)
(* is once in m_available_ports or once in m_ports_in_use.                 *)
PoolPartition ==
  /\ NoRepeats
  /\ Elements(available) \intersect inUse = {}
  /\ Elements(available) \union inUse = IF initialized THEN Ports ELSE {}

(* A port that get_udp_port returns is not the port of another socket of   *)
(* this program, although recycling makes the ports of open sockets        *)
(* available again: only another process can make the bind fail.           *)
GrantExclusive ==
  pc = "bind" /\ port # Ephemeral => \A h \in Sockets : sock[h] # port

(* get_udp_port does not overlook a port: when it gives up, each port that *)
(* it started with has been taken at some time of the call, or no socket   *)
(* could be created to try it with.                                        *)
FailureTriedAll ==
  pc = "try" /\ available = <<>> =>
    offered \intersect freeSince \subseteq unprobed
=============================================================================
