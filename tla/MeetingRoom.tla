---------------------------- MODULE MeetingRoom ----------------------------
(***************************************************************************)
(* LiveMeetingRoom: the signalling and thread life cycle of the client.    *)
(*                                                                         *)
(* Three threads run the code:                                             *)
(*   app   the embedding program (main.cpp): initialize, un_initialize and *)
(*         the signal_* calls;                                             *)
(*   ws    websocket_pulse_loop: every on_ws_* handler and every user      *)
(*         callback, which in turn makes signal_* calls;                   *)
(*   recv  receive_loop: walks m_other_users_map under m_receive_mutex.    *)
(* The signalling server and the connection to it are external.  A step of *)
(* this module ends where another thread can observe the difference: at a  *)
(* lock, at a join and between the gate of a signal_* call and its send.   *)
(***************************************************************************)
EXTENDS Naturals, Sequences

CONSTANTS
  Peers,        \* uuids of the other participants
  Me,           \* this client's own entry in a list of participants
  MaxSession,   \* bound on the memberships the server hands out
  Limit,        \* seconds a signal may stay unanswered (6 in the code)
  MaxChan,      \* bound on the messages in flight in each direction
  MaxConn,      \* bound on the connections made
  AppOps,       \* the signal_* operations the app thread makes
  MayFail       \* do socket and thread creation fail?

ASSUME ConstantsAssumption ==
  /\ Me \notin Peers
  /\ AppOps \subseteq {"create", "join", "pull", "stop_pull", "exit", "stop",
                    "online", "heartbeat"}
  /\ MaxSession \in Nat
  /\ Limit \in Nat \ {0}
  /\ MaxChan \in Nat \ {0}
  /\ MaxConn \in Nat
  /\ MayFail \in BOOLEAN

VARIABLES
  initialized,  \* m_initialized
  appPc,        \* app thread: idle, or a step of free_context / initialize:
                \* the two joins, the websocket thread, the two senders
  afterFree,    \* where free_context returns to
  callbackSet,  \* the user callbacks are registered
  wsFlag,       \* m_ws_thread_running
  wsPc,         \* ws thread: off, poll, or a step of a handler
  wsMsg,        \* the message the handler works on
  target,       \* the RoomUser* that pull_stream found in the map
  recvFlag,     \* m_receive_thread_running
  recvPc,       \* recv thread: off, top of the loop, at the
                \* lock, or in the locked body
  mutex,        \* m_receive_mutex: the owner, or free
  users,        \* the keys of m_other_users_map
  pulled,       \* users whose RTP receivers are initialised
  audio,        \* m_rtp_audio_sender: null, idle (not init) or ready
  video,        \* m_rtp_video_sender, likewise
  sendInit,     \* m_rtp_send_initialized
  my,           \* m_my_room_id and m_my_user_uuid, assigned together; 0 = ""
  myId,         \* is m_my_user_id non-empty?
  sigRunning,   \* m_is_signal_running
  age,          \* seconds since m_prev_signal_time, counted up to Limit
  call,         \* per thread, the signal_* call between its gate and its send
  connected,    \* the websocket connection is open (m_connected)
  conns,        \* connections made so far
  toServer,     \* requests in flight
  toClient,     \* responses and notifications in flight
  srv,          \* server: this client's membership, 0 when it has none
  srvPeers,     \* server: the other members of the conference
  issued,       \* server: memberships handed out so far
  lost          \* history: a connection broke since the room was entered

appVars  == <<initialized, appPc, afterFree>>
wsVars   == <<wsFlag, wsPc, wsMsg, target>>
recvVars == <<recvFlag, recvPc>>
mapVars  == <<users, pulled>>
sendVars == <<audio, video, sendInit>>
idVars   == <<my, myId>>
sigVars  == <<sigRunning, age, call>>
netVars  == <<connected, conns, toServer, toClient>>
srvVars  == <<srv, srvPeers, issued>>
vars == <<appVars, callbackSet, wsVars, recvVars, mutex, mapVars, sendVars,
          idVars, sigVars, netVars, srvVars, lost>>

Threads == {"app", "ws"}
Uuids   == Peers \union {Me}

(* The signal_* operations: entering ones need the client to be out of any *)
(* room, the others need it to be in one; heartbeat checks neither.        *)
EnterOps == {"create", "join"}
RoomOps  == {"pull", "stop_pull", "exit", "stop", "online"}
Ops      == EnterOps \union RoomOps \union {"heartbeat"}
LeaveOps == {"exit", "stop", "closing"}
MsgOps   == Ops \union {"error", "new_joined", "gone", "closing"}

Call    == [op: Ops \union {"none"}, us: SUBSET Peers, age: 0..Limit]
Request == [op: Ops, us: SUBSET Peers, sess: 0..MaxSession]
Message == [op: MsgOps \union {"none"}, us: SUBSET Uuids, sess: 0..MaxSession]

NoCall == [op |-> "none", us |-> {}, age |-> 0]
NoMsg  == [op |-> "none", us |-> {}, sess |-> 0]
Msg(op, us, sess) == [op |-> op, us |-> us, sess |-> sess]

TypeApp ==
  /\ initialized \in BOOLEAN /\ callbackSet \in BOOLEAN
  /\ appPc \in {"idle", "joinWs", "joinRecv", "create", "audio", "video"}
  /\ afterFree \in {"idle", "create"}

TypeWs ==
  /\ wsFlag \in BOOLEAN
  /\ wsPc \in {"off", "poll", "join", "drop", "clear", "reset", "insert",
               "erase", "find", "init", "event", "call"}
  /\ wsMsg \in Message /\ target \in SUBSET Uuids

TypeRecv ==
  /\ recvFlag \in BOOLEAN /\ recvPc \in {"off", "top", "lock", "body"}
  /\ mutex \in {"free", "recv"}
  /\ users \in SUBSET Uuids /\ pulled \in SUBSET Uuids

TypeSend ==
  /\ audio \in {"null", "idle", "ready"}
  /\ video \in {"null", "idle", "ready"}
  /\ sendInit \in BOOLEAN

TypeSig ==
  /\ my \in 0..MaxSession /\ myId \in BOOLEAN
  /\ sigRunning \in BOOLEAN /\ age \in 0..Limit
  /\ call \in [Threads -> Call]

TypeNet ==
  /\ connected \in BOOLEAN /\ conns \in 0..MaxConn
  /\ toServer \in Seq(Request) /\ toClient \in Seq(Message)

TypeSrv ==
  /\ srv \in 0..MaxSession /\ srvPeers \in SUBSET Peers
  /\ issued \in 0..MaxSession /\ lost \in BOOLEAN

(* The types of all variables. *)
TypeOK ==
  /\ TypeApp /\ TypeWs /\ TypeRecv /\ TypeSend
  /\ TypeSig /\ TypeNet /\ TypeSrv

Init ==
  /\ initialized = FALSE /\ appPc = "idle" /\ afterFree = "idle"
  /\ callbackSet = FALSE
  /\ wsFlag = FALSE /\ wsPc = "off" /\ wsMsg = NoMsg /\ target = {}
  /\ recvFlag = FALSE /\ recvPc = "off" /\ mutex = "free"
  /\ users = {} /\ pulled = {}
  /\ audio = "null" /\ video = "null" /\ sendInit = FALSE
  /\ my = 0 /\ myId = FALSE
  /\ sigRunning = FALSE /\ age = Limit /\ call = [t \in Threads |-> NoCall]
  /\ connected = FALSE /\ conns = 0 /\ toServer = <<>> /\ toClient = <<>>
  /\ srv = 0 /\ srvPeers = {} /\ issued = 0
  /\ lost = FALSE

----------------------------------------------------------------------------
(***************************************************************************)
(* signal_* calls, made by the app thread and by the callbacks on the ws   *)
(* thread.  The gate reads the room identity, m_is_signal_running and the  *)
(* clock; a call it refuses returns an error code and changes nothing.     *)
(***************************************************************************)

(* m_websocket_client is there while initialize runs the ws thread on it,  *)
(* before m_initialized is set.                                            *)
HasClient == initialized \/ wsPc # "off"

Gate(op, us) ==
  /\ HasClient
  /\ op \in EnterOps => my = 0
  /\ op \in RoomOps => my # 0
  /\ op \in {"pull", "stop_pull"} => us \ {Me} # {}
  /\ op # "heartbeat" => (sigRunning => age >= Limit)

(* Mutant of Begin: the client asks for its own streams too. *)
BeginWithSelf(t, op, us) ==
  /\ Gate(op, us)
  /\ call' = [call EXCEPT ![t] = [op |-> op, us |-> us, age |-> 0]]

Begin(t, op, us) ==
  /\ Gate(op, us)
  /\ call' = [call EXCEPT ![t] = [op |-> op, us |-> us \ {Me}, age |-> 0]]

(* Past the gate the call marks a signal as running, builds the request    *)
(* from the room's current identity and sends it; when the connection is   *)
(* down it takes the mark back.  join also records the user id, and keeps  *)
(* it when the send fails.  heartbeat leaves the mark alone.               *)
Issue(t) ==
  LET c == call[t] IN
  /\ c.op # "none"
  /\ IF c.op = "heartbeat"
     THEN UNCHANGED <<sigRunning, age>>
     ELSE sigRunning' = connected /\ age' = c.age
  /\ myId' = (myId \/ c.op = "join")
  /\ toServer' = IF connected
                 THEN Append(toServer, [op |-> c.op, us |-> c.us, sess |-> my])
                 ELSE toServer
  /\ call' = [call EXCEPT ![t] = NoCall]
  /\ UNCHANGED <<my, connected, conns, toClient>>

AppIdle == appPc = "idle" /\ call["app"] = NoCall

AppBegin ==
  /\ AppIdle /\ Len(toServer) < MaxChan
  /\ \E op \in AppOps, us \in {{}} \union {{p} : p \in Peers} :
       /\ op \notin {"pull", "stop_pull"} => us = {}
       /\ Begin("app", op, us)
  /\ UNCHANGED <<appVars, callbackSet, wsVars, recvVars, mutex, mapVars,
                 sendVars, idVars, sigRunning, age, netVars, srvVars, lost>>

AppIssue ==
  /\ Issue("app")
  /\ UNCHANGED <<appVars, callbackSet, wsVars, recvVars, mutex, mapVars,
                 sendVars, srvVars, lost>>

Older(c) == [op |-> c.op, us |-> c.us, age |-> c.age + 1]

(* clock() is read in whole seconds. *)
Tick ==
  /\ age < Limit \/ \E t \in Threads : call[t] # NoCall /\ call[t].age < Limit
  /\ age' = IF age < Limit THEN age + 1 ELSE age
  /\ call' = [t \in Threads |->
                IF call[t] # NoCall /\ call[t].age < Limit
                THEN Older(call[t]) ELSE call[t]]
  /\ UNCHANGED <<appVars, callbackSet, wsVars, recvVars, mutex, mapVars,
                 sendVars, idVars, sigRunning, netVars, srvVars, lost>>

----------------------------------------------------------------------------
(***************************************************************************)
(* initialize and un_initialize on the app thread.                         *)
(***************************************************************************)

(* Registering the callbacks: main does it after initialize has started    *)
(* the ws thread.                                                          *)
SetCallbacks ==
  /\ AppIdle /\ initialized /\ ~callbackSet
  /\ callbackSet' = TRUE
  /\ UNCHANGED <<appVars, wsVars, recvVars, mutex, mapVars, sendVars, idVars,
                 sigVars, netVars, srvVars, lost>>

(* free_context begins by telling the ws thread to end. *)
FreeContext(after) ==
  appPc' = "joinWs" /\ afterFree' = after /\ wsFlag' = FALSE

(* initialize on a room that already is initialised frees it first. *)
Initialize ==
  /\ AppIdle
  /\ IF initialized
     THEN FreeContext("create")
     ELSE appPc' = "create" /\ UNCHANGED <<afterFree, wsFlag>>
  /\ UNCHANGED <<initialized, callbackSet, wsPc, wsMsg, target, recvVars,
                 mutex, mapVars, sendVars, idVars, sigVars, netVars, srvVars,
                 lost>>

(* initialize makes the client and starts the ws thread on it.  Without a  *)
(* thread the client is deleted again.                                     *)
CreateContext ==
  /\ appPc = "create"
  /\ \/ /\ appPc' = "audio" /\ wsFlag' = TRUE /\ wsPc' = "poll"
     \/ /\ MayFail
        /\ appPc' = "idle" /\ UNCHANGED <<wsFlag, wsPc>>
  /\ UNCHANGED <<initialized, afterFree, callbackSet, wsMsg, target, recvVars,
                 mutex, mapVars, sendVars, idVars, sigVars, netVars, srvVars,
                 lost>>

(* Mutant of NewAudioSender: the failure returns without free_context. *)
NewAudioSenderKeepsThread ==
  /\ appPc = "audio"
  /\ \/ /\ appPc' = "video" /\ audio' = "idle"
        /\ UNCHANGED <<afterFree, wsFlag>>
     \/ /\ MayFail
        /\ appPc' = "idle" /\ UNCHANGED <<afterFree, wsFlag, audio>>
  /\ UNCHANGED <<initialized, callbackSet, wsPc, wsMsg, target, recvVars,
                 mutex, mapVars, video, sendInit, idVars, sigVars, netVars,
                 srvVars, lost>>

(* From here on the ws thread delivers events and messages while           *)
(* initialize goes on to make the senders, one after the other.  A failure *)
(* frees the context of the room that was never initialised.               *)
NewAudioSender ==
  /\ appPc = "audio"
  /\ \/ /\ appPc' = "video" /\ audio' = "idle"
        /\ UNCHANGED <<afterFree, wsFlag>>
     \/ MayFail /\ FreeContext("idle") /\ UNCHANGED audio
  /\ UNCHANGED <<initialized, callbackSet, wsPc, wsMsg, target, recvVars,
                 mutex, mapVars, video, sendInit, idVars, sigVars, netVars,
                 srvVars, lost>>

(* m_initialized, which only this thread reads, is set right after.        *)
NewVideoSender ==
  /\ appPc = "video"
  /\ \/ /\ appPc' = "idle" /\ video' = "idle" /\ initialized' = TRUE
        /\ UNCHANGED <<afterFree, wsFlag>>
     \/ MayFail /\ FreeContext("idle") /\ UNCHANGED <<video, initialized>>
  /\ UNCHANGED <<callbackSet, wsPc, wsMsg, target, recvVars, mutex, mapVars,
                 audio, sendInit, idVars, sigVars, netVars, srvVars, lost>>

UnInitialize ==
  /\ AppIdle /\ initialized
  /\ FreeContext("idle")
  /\ UNCHANGED <<initialized, callbackSet, wsPc, wsMsg, target, recvVars,
                 mutex, mapVars, sendVars, idVars, sigVars, netVars, srvVars,
                 lost>>

(* Mutant of JoinWs: the ws thread is not waited for. *)
JoinWsNoWait ==
  /\ appPc = "joinWs"
  /\ recvFlag' = FALSE
  /\ appPc' = "joinRecv"
  /\ UNCHANGED <<initialized, afterFree, callbackSet, wsVars, recvPc, mutex,
                 mapVars, sendVars, idVars, sigVars, netVars, srvVars, lost>>

(* Mutant of JoinWs: the receive thread is not told to stop. *)
JoinWsKeepsReceiving ==
  /\ appPc = "joinWs" /\ wsPc = "off"
  /\ appPc' = "joinRecv"
  /\ UNCHANGED <<initialized, afterFree, callbackSet, wsVars, recvVars,
                 mutex, mapVars, sendVars, idVars, sigVars, netVars, srvVars,
                 lost>>

(* free_context waits for the ws thread, and only then stops the receive   *)
(* thread, which the ws thread could otherwise still start.                *)
JoinWs ==
  /\ appPc = "joinWs" /\ wsPc = "off"
  /\ recvFlag' = FALSE
  /\ appPc' = "joinRecv"
  /\ UNCHANGED <<initialized, afterFree, callbackSet, wsVars, recvPc, mutex,
                 mapVars, sendVars, idVars, sigVars, netVars, srvVars, lost>>

(* The server learns that the connection is gone and either drops the      *)
(* membership or keeps it for a later connection.                          *)
ConnectionGone ==
  /\ connected' = FALSE
  /\ toServer' = <<>> /\ toClient' = <<>>
  /\ srv' \in {0, srv}
  /\ srvPeers' = IF srv' = 0 THEN {} ELSE srvPeers
  /\ lost' = TRUE
  /\ UNCHANGED <<conns, issued, callbackSet>>

(* With both threads gone free_context deletes the client, the senders and *)
(* the users (without the mutex).  It does not reset the room identity.    *)
JoinRecv ==
  /\ appPc = "joinRecv" /\ recvPc = "off"
  /\ appPc' = afterFree
  /\ initialized' = FALSE
  /\ audio' = "null" /\ video' = "null" /\ sendInit' = FALSE
  /\ users' = {} /\ pulled' = {}
  /\ ConnectionGone
  /\ UNCHANGED <<afterFree, wsVars, recvVars, mutex, idVars, sigVars>>

----------------------------------------------------------------------------
(***************************************************************************)
(* The receive thread.                                                     *)
(***************************************************************************)
RecvTest ==
  /\ recvPc = "top"
  /\ recvPc' = IF recvFlag THEN "lock" ELSE "off"
  /\ UNCHANGED <<appVars, callbackSet, wsVars, recvFlag, mutex, mapVars,
                 sendVars, idVars, sigVars, netVars, srvVars, lost>>

RecvLock ==
  /\ recvPc = "lock" /\ mutex = "free"
  /\ recvPc' = "body" /\ mutex' = "recv"
  /\ UNCHANGED <<appVars, callbackSet, wsVars, recvFlag, mapVars, sendVars,
                 idVars, sigVars, netVars, srvVars, lost>>

RecvUnlock ==
  /\ recvPc = "body"
  /\ recvPc' = "top" /\ mutex' = "free"
  /\ UNCHANGED <<appVars, callbackSet, wsVars, recvFlag, mapVars, sendVars,
                 idVars, sigVars, netVars, srvVars, lost>>

----------------------------------------------------------------------------
(***************************************************************************)
(* The ws thread: on_websocket_message takes the next message; what        *)
(* follows are the on_ws_* handlers.                                       *)
(***************************************************************************)
Receive(ops) ==
  /\ wsPc = "poll"
  /\ toClient # <<>>
  /\ Head(toClient).op \in ops
  /\ toClient' = Tail(toClient)
  /\ UNCHANGED <<connected, conns, toServer>>

(* m_is_signal_running = false at the end of a handler. *)
SignalDone == sigRunning' = FALSE /\ UNCHANGED <<age, call>>

(* A response whose status is not 200 is logged and dropped, the mark of a *)
(* running signal stays; a heartbeat's response needs nothing done.        *)
OnNothing ==
  /\ Receive({"error", "heartbeat"})
  /\ UNCHANGED <<appVars, callbackSet, wsVars, recvVars, mutex, mapVars,
                 sendVars, idVars, sigVars, srvVars, lost>>

OnStopPulling ==
  /\ Receive({"stop_pull"})
  /\ SignalDone
  /\ UNCHANGED <<appVars, callbackSet, wsVars, recvVars, mutex, mapVars,
                 sendVars, idVars, srvVars, lost>>

AudioInit == \/ audio' = "ready"
             \/ MayFail /\ audio = "idle" /\ audio' = "idle"

(* Mutant of AddSenderDestination: the flag is set before the video sender *)
(* is initialised.                                                         *)
AddSenderFlagFirst ==
  IF audio = "null" \/ video = "null" \/ sendInit
  THEN UNCHANGED sendVars
  ELSE /\ AudioInit
       /\ sendInit' = (audio' = "ready")
       /\ \/ audio' = "ready" /\ video' = "ready"
          \/ MayFail /\ UNCHANGED video

(* Senders that a previous leave has deleted are not created again.        *)
AddSenderDestination ==
  IF audio = "null" \/ video = "null" \/ sendInit
  THEN UNCHANGED sendVars
  ELSE /\ AudioInit
       /\ \/ audio' = "ready" /\ video' = "ready" /\ sendInit' = TRUE
          \/ MayFail /\ UNCHANGED <<video, sendInit>>

StartReceive ==
  IF recvFlag
  THEN UNCHANGED recvVars
  ELSE \/ recvFlag' = TRUE /\ recvPc' = "top"
       \/ MayFail /\ UNCHANGED recvVars

Adopt(sess) ==
  /\ my' = sess /\ myId' = TRUE /\ lost' = FALSE
  /\ AddSenderDestination
  /\ StartReceive

(* create adopts the identity whatever the client's state is; join only    *)
(* when the response names this client's uuid or its user id.              *)
OnEnter ==
  /\ Receive(EnterOps)
  /\ LET m == Head(toClient) IN
     /\ IF m.op = "create" \/ m.sess = my \/ myId
        THEN Adopt(m.sess)
        ELSE UNCHANGED <<idVars, sendVars, recvVars, lost>>
     /\ wsMsg' = m
  /\ wsPc' = "event"
  /\ SignalDone
  /\ UNCHANGED <<appVars, callbackSet, wsFlag, target, mutex, mapVars,
                 srvVars>>

(* new_joined and user_gone go on to the locked section; online_users      *)
(* clears the mark before it waits for the lock.                           *)
OnUserList ==
  /\ Receive({"new_joined", "online"})
  /\ wsMsg' = Head(toClient)
  /\ wsPc' = "insert"
  /\ IF Head(toClient).op = "online" THEN SignalDone ELSE UNCHANGED sigVars
  /\ UNCHANGED <<appVars, callbackSet, wsFlag, target, recvVars, mutex,
                 mapVars, sendVars, idVars, srvVars, lost>>

OnUserGone ==
  /\ Receive({"gone"})
  /\ wsMsg' = Head(toClient)
  /\ wsPc' = "erase"
  /\ UNCHANGED <<appVars, callbackSet, wsFlag, target, recvVars, mutex,
                 mapVars, sendVars, idVars, sigVars, srvVars, lost>>

(* The locked section that adds the users not yet in the map. *)
InsertUsers ==
  /\ wsPc = "insert" /\ mutex = "free"
  /\ users' = users \union wsMsg.us
  /\ wsPc' = "event"
  /\ UNCHANGED <<appVars, callbackSet, wsFlag, wsMsg, target, recvVars,
                 mutex, pulled, sendVars, idVars, sigVars, netVars, srvVars,
                 lost>>

(* Mutant of EraseUser: the mutex is not taken. *)
EraseUserUnlocked ==
  /\ wsPc = "erase"
  /\ users' = users \ wsMsg.us
  /\ pulled' = pulled \ wsMsg.us
  /\ wsPc' = "event"
  /\ UNCHANGED <<appVars, callbackSet, wsFlag, wsMsg, target, recvVars,
                 mutex, sendVars, idVars, sigVars, netVars, srvVars, lost>>

(* The locked section that deletes a user and its map entry. *)
EraseUser ==
  /\ wsPc = "erase" /\ mutex = "free"
  /\ users' = users \ wsMsg.us
  /\ pulled' = pulled \ wsMsg.us
  /\ wsPc' = "event"
  /\ UNCHANGED <<appVars, callbackSet, wsFlag, wsMsg, target, recvVars,
                 mutex, sendVars, idVars, sigVars, netVars, srvVars, lost>>

(* pull_stream: for every stream, find the user under the mutex, then      *)
(* initialise its receivers after the mutex is released.                   *)
OnPullStream ==
  /\ Receive({"pull"})
  /\ wsMsg' = Head(toClient)
  /\ wsPc' = "find"
  /\ UNCHANGED <<appVars, callbackSet, wsFlag, target, recvVars, mutex,
                 mapVars, sendVars, idVars, sigVars, srvVars, lost>>

FindUser ==
  /\ wsPc = "find" /\ mutex = "free"
  /\ \E u \in wsMsg.us :
       /\ wsMsg' = [wsMsg EXCEPT !.us = @ \ {u}]
       /\ IF u \in users
          THEN wsPc' = "init" /\ target' = {u}
          ELSE UNCHANGED <<wsPc, target>>
  /\ UNCHANGED <<appVars, callbackSet, wsFlag, recvVars, mutex, mapVars,
                 sendVars, idVars, sigVars, netVars, srvVars, lost>>

(* RoomUser::initialize for the audio and the video ssrc of one user. *)
InitUser ==
  /\ wsPc = "init"
  /\ wsPc' = "find" /\ target' = {}
  /\ \/ pulled' = pulled \union target
     \/ MayFail /\ UNCHANGED pulled
  /\ UNCHANGED <<appVars, callbackSet, wsFlag, wsMsg, recvVars, mutex, users,
                 sendVars, idVars, sigVars, netVars, srvVars, lost>>

PullDone ==
  /\ wsPc = "find" /\ wsMsg.us = {}
  /\ wsPc' = "poll" /\ wsMsg' = NoMsg
  /\ SignalDone
  /\ UNCHANGED <<appVars, callbackSet, wsFlag, target, recvVars, mutex,
                 mapVars, sendVars, idVars, netVars, srvVars, lost>>

(* Mutant of OnLeave: stop_receive is called with the mutex held (by the   *)
(* ws thread; any value but "free" keeps receive_loop out).                *)
OnLeaveLocked ==
  /\ Receive(LeaveOps)
  /\ mutex = "free" /\ mutex' = "recv"
  /\ wsMsg' = Head(toClient)
  /\ wsPc' = "join"
  /\ recvFlag' = FALSE
  /\ UNCHANGED <<appVars, callbackSet, wsFlag, target, recvPc, mapVars,
                 sendVars, idVars, sigVars, srvVars, lost>>

(* exit, stop and closing: stop_receive, remove_sender, delete the users   *)
(* under the mutex, reset the identity.                                    *)
OnLeave ==
  /\ Receive(LeaveOps)
  /\ wsMsg' = Head(toClient)
  /\ wsPc' = "join"
  /\ recvFlag' = FALSE
  /\ UNCHANGED <<appVars, callbackSet, wsFlag, target, recvPc, mutex,
                 mapVars, sendVars, idVars, sigVars, srvVars, lost>>

(* Mutant of RemoveAudioSender: the receive thread is told to stop, not    *)
(* joined.                                                                 *)
RemoveAudioSenderNoJoin ==
  /\ wsPc = "join"
  /\ wsPc' = "drop"
  /\ audio' = "null" /\ sendInit' = FALSE
  /\ UNCHANGED <<appVars, callbackSet, wsFlag, wsMsg, target, recvVars,
                 mutex, mapVars, video, idVars, sigVars, netVars, srvVars,
                 lost>>

(* pthread_join returns when receive_loop has; then remove_sender, which   *)
(* deletes one sender after the other: initialize may make them meanwhile. *)
RemoveAudioSender ==
  /\ wsPc = "join" /\ recvPc = "off"
  /\ wsPc' = "drop"
  /\ audio' = "null" /\ sendInit' = FALSE
  /\ UNCHANGED <<appVars, callbackSet, wsFlag, wsMsg, target, recvVars,
                 mutex, mapVars, video, idVars, sigVars, netVars, srvVars,
                 lost>>

RemoveVideoSender ==
  /\ wsPc = "drop"
  /\ wsPc' = "clear"
  /\ video' = "null"
  /\ UNCHANGED <<appVars, callbackSet, wsFlag, wsMsg, target, recvVars,
                 mutex, mapVars, audio, sendInit, idVars, sigVars, netVars,
                 srvVars, lost>>

(* Mutant of ClearUsers: the map is left as it is. *)
ClearUsersForgotten ==
  /\ wsPc = "clear" /\ mutex = "free"
  /\ wsPc' = "reset"
  /\ UNCHANGED <<appVars, callbackSet, wsFlag, wsMsg, target, recvVars,
                 mutex, mapVars, sendVars, idVars, sigVars, netVars, srvVars,
                 lost>>

ClearUsers ==
  /\ wsPc = "clear" /\ mutex = "free"
  /\ wsPc' = "reset"
  /\ users' = {} /\ pulled' = {}
  /\ UNCHANGED <<appVars, callbackSet, wsFlag, wsMsg, target, recvVars,
                 mutex, sendVars, idVars, sigVars, netVars, srvVars, lost>>

(* Mutant of ResetIdentity: the room identity survives the leave. *)
ResetIdentityForgotten ==
  /\ wsPc = "reset"
  /\ wsPc' = "event"
  /\ SignalDone
  /\ UNCHANGED <<appVars, callbackSet, wsFlag, wsMsg, target, recvVars,
                 mutex, mapVars, sendVars, idVars, netVars, srvVars, lost>>

ResetIdentity ==
  /\ wsPc = "reset"
  /\ wsPc' = "event"
  /\ my' = 0 /\ myId' = FALSE
  /\ SignalDone
  /\ UNCHANGED <<appVars, callbackSet, wsFlag, wsMsg, target, recvVars,
                 mutex, mapVars, sendVars, netVars, srvVars, lost>>

(* The event callback of main.cpp, when it is registered: a joined client  *)
(* asks for the online users, and asks for the streams of the users it     *)
(* learns of.  A call the gate refuses is not made again.                  *)
EventCall(m) ==
  CASE m.op = "join" -> [op |-> "online", us |-> {}]
    [] m.op \in {"new_joined", "online"} -> [op |-> "pull", us |-> m.us]
    [] OTHER -> [op |-> "none", us |-> {}]

EventCallback ==
  LET c == EventCall(wsMsg) IN
  /\ wsPc = "event"
  /\ wsMsg' = NoMsg
  /\ IF callbackSet /\ c.op # "none" /\ Gate(c.op, c.us)
     THEN Begin("ws", c.op, c.us) /\ wsPc' = "call"
     ELSE wsPc' = "poll" /\ UNCHANGED call
  /\ UNCHANGED <<appVars, callbackSet, wsFlag, target, recvVars, mutex,
                 mapVars, sendVars, idVars, sigRunning, age, netVars,
                 srvVars, lost>>

WsIssue ==
  /\ wsPc = "call"
  /\ Issue("ws")
  /\ wsPc' = "poll"
  /\ UNCHANGED <<appVars, callbackSet, wsFlag, wsMsg, target, recvVars,
                 mutex, mapVars, sendVars, srvVars, lost>>

(* websocket_pulse_loop tests its flag between two pulses. *)
WsExit ==
  /\ wsPc = "poll" /\ ~wsFlag
  /\ wsPc' = "off"
  /\ UNCHANGED <<appVars, callbackSet, wsFlag, wsMsg, target, recvVars,
                 mutex, mapVars, sendVars, idVars, sigVars, netVars, srvVars,
                 lost>>

(* MG_EV_WS_OPEN and MG_EV_CLOSE, delivered by pulse.  (What main.cpp    *)
(* keeps of them in g_room_connected is read by nobody.)                   *)
Connect ==
  /\ wsPc = "poll" /\ ~connected /\ conns < MaxConn
  /\ connected' = TRUE /\ conns' = conns + 1
  /\ UNCHANGED <<appVars, callbackSet, wsVars, recvVars, mutex, mapVars,
                 sendVars, idVars, sigVars, toServer, toClient, srvVars,
                 lost>>

Disconnect ==
  /\ wsPc = "poll" /\ connected
  /\ ConnectionGone
  /\ UNCHANGED <<appVars, wsVars, recvVars, mutex, mapVars, sendVars, idVars,
                 sigVars>>

----------------------------------------------------------------------------
(***************************************************************************)
(* The signalling server, external.  It answers the requests of a          *)
(* connection in order, refuses a second membership and any request that   *)
(* does not name the client's current one, and may refuse any request.     *)
(***************************************************************************)
Reply(m) == toClient' = Append(toClient, m)

(* The streams a pull response names, the participants an online response  *)
(* lists: with or without the client itself, which signal_start_pull_stream*)
(* strips from what it is given.                                           *)
Answer(r) ==
  \/ /\ r.op \in EnterOps /\ srv = 0 /\ issued < MaxSession
     /\ issued' = issued + 1 /\ srv' = issued + 1
     /\ srvPeers' \in SUBSET Peers
     /\ r.op = "create" => srvPeers' = {}
     /\ Reply(Msg(r.op, {}, issued + 1))
  \/ /\ r.op \in {"exit", "stop"} /\ srv # 0 /\ r.sess = srv
     /\ srv' = 0 /\ srvPeers' = {} /\ UNCHANGED issued
     /\ Reply(Msg(r.op, {}, 0))
  \/ /\ r.op = "pull" /\ srv # 0 /\ r.sess = srv
     /\ UNCHANGED srvVars
     /\ Reply(Msg(r.op, r.us \intersect srvPeers, 0))
  \/ /\ r.op = "online" /\ srv # 0 /\ r.sess = srv
     /\ UNCHANGED srvVars
     /\ \E us \in {srvPeers, srvPeers \union {Me}} :
          Reply(Msg(r.op, us, 0))
  \/ /\ r.op \in {"stop_pull", "heartbeat"}
     /\ UNCHANGED srvVars
     /\ Reply(Msg(r.op, {}, 0))

Server ==
  /\ toServer # <<>> /\ Len(toClient) < MaxChan
  /\ toServer' = Tail(toServer)
  /\ \/ Answer(Head(toServer))
     \/ Reply(Msg("error", {}, 0)) /\ UNCHANGED srvVars
  /\ UNCHANGED <<appVars, callbackSet, wsVars, recvVars, mutex, mapVars,
                 sendVars, idVars, sigVars, connected, conns, lost>>

(* Notifications: a user joined or left, the creator closes the conference. *)
Notify ==
  /\ connected /\ srv # 0
  /\ Len(toClient) < MaxChan /\ Len(toServer) < MaxChan
  /\ \/ \E p \in Peers \ srvPeers :
          /\ srvPeers' = srvPeers \union {p} /\ UNCHANGED srv
          /\ Reply(Msg("new_joined", {p}, 0))
     \/ \E p \in srvPeers :
          /\ srvPeers' = srvPeers \ {p} /\ UNCHANGED srv
          /\ Reply(Msg("gone", {p}, 0))
     \/ /\ srv' = 0 /\ srvPeers' = {}
        /\ Reply(Msg("closing", {}, 0))
  /\ UNCHANGED <<appVars, callbackSet, wsVars, recvVars, mutex, mapVars,
                 sendVars, idVars, sigVars, connected, conns, toServer,
                 issued, lost>>

----------------------------------------------------------------------------
AppNext  == \/ AppBegin \/ AppIssue \/ SetCallbacks \/ Initialize
            \/ CreateContext \/ NewAudioSender \/ NewVideoSender
            \/ UnInitialize \/ JoinWs \/ JoinRecv
RecvNext == RecvTest \/ RecvLock \/ RecvUnlock
WsStep   == \/ InsertUsers \/ EraseUser \/ FindUser \/ InitUser \/ PullDone
            \/ RemoveAudioSender \/ RemoveVideoSender \/ ClearUsers
            \/ ResetIdentity \/ EventCallback \/ WsIssue
WsNext   == \/ OnNothing \/ OnStopPulling \/ OnEnter \/ OnUserList
            \/ OnUserGone \/ OnPullStream \/ OnLeave \/ WsStep \/ WsExit
            \/ Connect \/ Disconnect
EnvNext  == Tick \/ Server \/ Notify

Next == AppNext \/ RecvNext \/ WsNext \/ EnvNext

Spec == Init /\ [][Next]_vars

(* pthread_join and the locked sections return: every thread keeps running,*)
(* receive_loop sleeps without the mutex, so that a handler waiting for it *)
(* gets it (SF), and a pulse ends (SF), so that the flag is tested again.  *)
Fairness ==
  /\ WF_vars(RecvNext)
  /\ SF_vars(WsStep) /\ SF_vars(WsExit)
  /\ WF_vars(JoinWs) /\ WF_vars(JoinRecv) /\ WF_vars(CreateContext)
  /\ WF_vars(NewAudioSender) /\ WF_vars(NewVideoSender)

FairSpec == Spec /\ Fairness

----------------------------------------------------------------------------
(***************************************************************************)
(* Properties.                                                             *)
(***************************************************************************)

(* While receive_loop walks m_other_users_map no other thread inserts into *)
(* or erases from it: its iterator and the RoomUser it uses stay valid.    *)
UsersStableWhileReceiving ==
  [][recvPc = "body" => users' = users]_vars

(* m_receive_thread_running says whether there is a receive thread, except *)
(* while stop_receive or free_context waits for it to end: a handler that  *)
(* finds the flag false never starts a second thread.                      *)
ReceiveThreadTracked ==
  /\ recvFlag => recvPc # "off"
  /\ recvPc # "off" => recvFlag \/ wsPc = "join" \/ appPc = "joinRecv"

(* The RoomUser pointer that pull_stream keeps after it has released the   *)
(* mutex still belongs to a user of the map, and receivers exist only for  *)
(* such users.                                                             *)
ReceiversOnlyForKnownUsers == target \union pulled \subseteq users

(* Once un_initialize has returned (or initialize has failed) no thread    *)
(* runs and nothing that free_context owns is left.                        *)
TornDown ==
  ~initialized /\ appPc \in {"idle", "create"} =>
    /\ wsPc = "off" /\ recvPc = "off" /\ mutex = "free"
    /\ users = {} /\ audio = "null" /\ video = "null" /\ ~connected

(* m_rtp_send_initialized is set only when both senders are initialised,   *)
(* also when one of the two initialisations failed the first time.         *)
SendersInitTogether == sendInit => audio = "ready" /\ video = "ready"

(* When a handler gives up the room identity, the receive thread has       *)
(* ended, all users of that room are deleted and no sender is left that    *)
(* was initialised for it: a sender that is there comes from an initialize *)
(* that is still running, or was when the handler deleted the others.      *)
LeaveCleans ==
  [][my # 0 /\ my' = 0 =>
       /\ users' = {} /\ recvPc' = "off"
       /\ audio' # "ready" /\ video' # "ready" /\ ~sendInit']_vars

LeavePending ==
  \/ \E i \in 1..Len(toClient) : toClient[i].op \in LeaveOps
  \/ wsMsg.op \in LeaveOps

(* While the connection on which the room was entered lasts, a client that *)
(* holds a room identity is a member under that identity, or the message   *)
(* that ends the membership is on its way or being handled, whatever       *)
(* retried requests and late answers there are.                            *)
MembershipSound == my # 0 /\ ~lost => srv = my \/ LeavePending

(* The session that the embedding program sees: it is on as soon as the ws *)
(* thread runs, and stopping when free_context has waited for that thread. *)
SessionPhase ==
  IF wsPc = "off"
  THEN IF appPc \in {"joinWs", "joinRecv"} THEN "stopping" ELSE "off"
  ELSE IF wsPc \in {"join", "drop"} THEN "leaving"
  ELSE IF wsPc \in {"clear", "reset"} THEN "left" ELSE "on"

SessionSend ==
  IF sendInit THEN "ready"
  ELSE IF audio = "null" \/ video = "null" THEN "none" ELSE "idle"

Session == INSTANCE RoomSession WITH
  phase <- SessionPhase, starting <- appPc \in {"audio", "video"},
  room <- my, media <- recvPc # "off", send <- SessionSend

(* The threads, handlers, retried requests and late answers add up to the  *)
(* session of RoomSession: media ends before senders and identity go, a    *)
(* room entered is newer than the one held, senders appear once a start,   *)
(* a stop keeps the identity.                                              *)
ImplementsSession == Session!SessionSpec

(* stop_receive cannot wait for a receive thread that waits for the mutex: *)
(* a handler that leaves a room completes.                                 *)
LeaveCompletes == wsPc = "join" ~> wsPc = "event"

(* free_context completes, whatever the ws and the receive thread are      *)
(* doing when it is called.                                                *)
TeardownCompletes == appPc = "joinWs" ~> appPc = "idle"

----------------------------------------------------------------------------
(***************************************************************************)
(* What comments of the code say and the code does not do.                 *)
(***************************************************************************)
WsAtRest == initialized /\ appPc = "idle" /\ wsPc = "poll"

(* app_meeting_room.h on m_rtp_audio_sender and m_rtp_video_sender: "send  *)
(* audio rtp data to server": in a room, on a living connection and with   *)
(* no failure, the senders are there to be used.                           *)
InRoomCanSend == WsAtRest /\ my # 0 /\ ~lost => sendInit
=============================================================================
