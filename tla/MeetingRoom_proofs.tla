------------------------ MODULE MeetingRoom_proofs ------------------------
(***************************************************************************)
(* Proofs about MeetingRoom, for any set of participants, any number of    *)
(* memberships, connections and messages in flight.                        *)
(***************************************************************************)
EXTENDS MeetingRoom, TLAPS

(* What the server sends is a message. *)
LEMMA MsgType ==
  ASSUME NEW op \in MsgOps, NEW us \in SUBSET Uuids,
         NEW sess \in 0..MaxSession
  PROVE  Msg(op, us, sess) \in Message
BY DEF Msg, Message

(* 0, which stands for an empty room id, is always a value of my. *)
LEMMA ZeroSession == 0 \in 0..MaxSession
BY ConstantsAssumption

(* A program that has not called initialize yet is well typed. *)
LEMMA TypeInit == Init => TypeOK
<1> SUFFICES ASSUME Init PROVE TypeOK
  OBVIOUS
<1>1. /\ initialized \in BOOLEAN /\ callbackSet \in BOOLEAN
      /\ wsFlag \in BOOLEAN /\ recvFlag \in BOOLEAN
      /\ sendInit \in BOOLEAN /\ myId \in BOOLEAN
      /\ sigRunning \in BOOLEAN /\ connected \in BOOLEAN
      /\ lost \in BOOLEAN
  BY Zenon DEF Init
<1>2. TypeApp /\ TypeRecv /\ TypeSend
  BY <1>1 DEF Init, TypeApp, TypeRecv, TypeSend
<1>3. TypeWs
  BY <1>1, ZeroSession DEF Init, TypeWs, NoMsg, Message
<1>4. TypeSig
  BY <1>1, ConstantsAssumption DEF Init, TypeSig, NoCall, Call
<1>5. TypeNet /\ TypeSrv
  BY <1>1, ConstantsAssumption DEF Init, TypeNet, TypeSrv
<1> QED
  BY <1>2, <1>3, <1>4, <1>5 DEF TypeOK

(* What the send of a signal_* call does to the variables of the calls and *)
(* of the connection.                                                      *)
LEMMA IssueType ==
  ASSUME TypeOK, NEW t \in Threads, Issue(t)
  PROVE  TypeSig' /\ TypeNet'
<1> USE DEF TypeOK, TypeSig, TypeNet
<1>1. sigRunning' \in BOOLEAN /\ myId' \in BOOLEAN
  BY Zenon DEF Issue
<1>2. call[t] \in Call /\ call[t].op # "none"
  BY DEF Issue
<1>3. age' \in 0..Limit
  BY <1>2 DEF Issue, Call
<1>4. call' \in [Threads -> Call]
  BY ConstantsAssumption DEF Issue, Call, NoCall
<1>5. [op |-> call[t].op, us |-> call[t].us, sess |-> my] \in Request
  BY <1>2 DEF Call, Request
<1>6. toServer' \in Seq(Request)
  BY <1>5 DEF Issue
<1> QED
  BY <1>1, <1>3, <1>4, <1>6 DEF Issue

(* The server only adds messages to the connection. *)
LEMMA ReplyType ==
  ASSUME toClient \in Seq(Message), NEW m \in Message, Reply(m)
  PROVE  toClient' \in Seq(Message)
BY DEF Reply

(* Every step of every thread keeps the types.  The Boolean flags of the   *)
(* room are typed by steps of their own.                                   *)
LEMMA TypeNext == TypeOK /\ [Next]_vars => TypeOK'
<1> USE DEF appVars, wsVars, recvVars, mapVars, sendVars, idVars, sigVars,
            netVars, srvVars, TypeOK, TypeApp, TypeWs, TypeRecv, TypeSend,
            TypeSig, TypeNet, TypeSrv
<1>1. ASSUME TypeOK, AppBegin PROVE TypeOK'
  BY <1>1, ConstantsAssumption
  DEF AppBegin, Begin, Call, Ops, EnterOps, RoomOps, Threads
<1>2. ASSUME TypeOK, AppIssue PROVE TypeOK'
  <2>1. TypeSig' /\ TypeNet'
    BY <1>2, IssueType DEF AppIssue, Threads
  <2> QED
    BY <1>2, <2>1 DEF AppIssue
<1>3. ASSUME TypeOK, SetCallbacks PROVE TypeOK'
  BY <1>3 DEF SetCallbacks
<1>4. ASSUME TypeOK, Initialize PROVE TypeOK'
  <2>1. wsFlag' \in BOOLEAN
    BY <1>4, ZenonT(20) DEF Initialize, FreeContext
  <2> QED
    BY <1>4, <2>1 DEF Initialize, FreeContext
<1>5. ASSUME TypeOK, CreateContext PROVE TypeOK'
  <2>1. wsFlag' \in BOOLEAN
    BY <1>5, ZenonT(20) DEF CreateContext
  <2> QED
    BY <1>5, <2>1 DEF CreateContext
<1>6. ASSUME TypeOK, UnInitialize PROVE TypeOK'
  <2>1. wsFlag' \in BOOLEAN
    BY <1>6, ZenonT(20) DEF UnInitialize, FreeContext
  <2> QED
    BY <1>6, <2>1 DEF UnInitialize, FreeContext
<1>7. ASSUME TypeOK, JoinWs PROVE TypeOK'
  <2>1. recvFlag' \in BOOLEAN
    BY <1>7, ZenonT(20) DEF JoinWs
  <2> QED
    BY <1>7, <2>1 DEF JoinWs
<1>8. ASSUME TypeOK, JoinRecv PROVE TypeOK'
  <2>1. /\ initialized' \in BOOLEAN /\ sendInit' \in BOOLEAN
        /\ connected' \in BOOLEAN /\ lost' \in BOOLEAN
    BY <1>8, ZenonT(20) DEF JoinRecv, ConnectionGone
  <2> QED
    BY <1>8, <2>1, ConstantsAssumption DEF JoinRecv, ConnectionGone
<1>9. ASSUME TypeOK, RecvTest PROVE TypeOK'
  BY <1>9 DEF RecvTest
<1>10. ASSUME TypeOK, RecvLock PROVE TypeOK'
  BY <1>10 DEF RecvLock
<1>11. ASSUME TypeOK, RecvUnlock PROVE TypeOK'
  BY <1>11 DEF RecvUnlock
<1>12. ASSUME TypeOK, OnNothing PROVE TypeOK'
  BY <1>12 DEF OnNothing, Receive
<1>13. ASSUME TypeOK, OnStopPulling PROVE TypeOK'
  <2>1. sigRunning' \in BOOLEAN
    BY <1>13, ZenonT(20) DEF OnStopPulling, SignalDone
  <2> QED
    BY <1>13, <2>1 DEF OnStopPulling, Receive, SignalDone
<1>14. ASSUME TypeOK, OnEnter PROVE TypeOK'
  <2> DEFINE m == Head(toClient)
  <2>1. /\ sigRunning' \in BOOLEAN /\ myId' \in BOOLEAN
        /\ lost' \in BOOLEAN /\ sendInit' \in BOOLEAN
        /\ recvFlag' \in BOOLEAN
    BY <1>14, ZenonT(20)
    DEF OnEnter, SignalDone, Adopt, AddSenderDestination, AudioInit,
        StartReceive
  <2>2. m \in Message /\ toClient' \in Seq(Message)
    BY <1>14 DEF OnEnter, Receive
  <2>3. TypeSig'
    BY <1>14, <2>1, <2>2 DEF OnEnter, SignalDone, Adopt, Message
  <2>4. TypeSend'
    BY <1>14, <2>1 DEF OnEnter, Adopt, AddSenderDestination, AudioInit
  <2>5. TypeRecv'
    BY <1>14, <2>1 DEF OnEnter, Adopt, StartReceive
  <2>6. TypeWs' /\ TypeApp' /\ TypeNet' /\ TypeSrv'
    BY <1>14, <2>1, <2>2 DEF OnEnter, Receive
  <2> QED
    BY <2>3, <2>4, <2>5, <2>6
<1>15. ASSUME TypeOK, OnUserList PROVE TypeOK'
  <2>1. sigRunning' \in BOOLEAN
    BY <1>15, ZenonT(20) DEF OnUserList, SignalDone
  <2> QED
    BY <1>15, <2>1 DEF OnUserList, Receive, SignalDone
<1>16. ASSUME TypeOK, OnUserGone PROVE TypeOK'
  BY <1>16 DEF OnUserGone, Receive
<1>17. ASSUME TypeOK, OnPullStream PROVE TypeOK'
  BY <1>17 DEF OnPullStream, Receive
<1>18. ASSUME TypeOK, OnLeave PROVE TypeOK'
  <2>1. recvFlag' \in BOOLEAN
    BY <1>18, ZenonT(20) DEF OnLeave
  <2> QED
    BY <1>18, <2>1 DEF OnLeave, Receive
<1>19. ASSUME TypeOK, InsertUsers PROVE TypeOK'
  BY <1>19 DEF InsertUsers, Message
<1>20. ASSUME TypeOK, EraseUser PROVE TypeOK'
  BY <1>20 DEF EraseUser, Message
<1>21. ASSUME TypeOK, FindUser PROVE TypeOK'
  BY <1>21 DEF FindUser, Message
<1>22. ASSUME TypeOK, InitUser PROVE TypeOK'
  BY <1>22 DEF InitUser
<1>23. ASSUME TypeOK, PullDone PROVE TypeOK'
  <2>1. sigRunning' \in BOOLEAN
    BY <1>23, ZenonT(20) DEF PullDone, SignalDone
  <2> QED
    BY <1>23, <2>1, ConstantsAssumption
    DEF PullDone, SignalDone, NoMsg, Message
<1>24. ASSUME TypeOK, RemoveAudioSender PROVE TypeOK'
  <2>1. sendInit' \in BOOLEAN
    BY <1>24, ZenonT(20) DEF RemoveAudioSender
  <2> QED
    BY <1>24, <2>1 DEF RemoveAudioSender
<1>36. ASSUME TypeOK, RemoveVideoSender PROVE TypeOK'
  BY <1>36 DEF RemoveVideoSender
<1>37. ASSUME TypeOK, NewAudioSender PROVE TypeOK'
  <2>1. wsFlag' \in BOOLEAN
    BY <1>37, ZenonT(20) DEF NewAudioSender, FreeContext
  <2> QED
    BY <1>37, <2>1 DEF NewAudioSender, FreeContext
<1>38. ASSUME TypeOK, NewVideoSender PROVE TypeOK'
  <2>1. wsFlag' \in BOOLEAN /\ initialized' \in BOOLEAN
    BY <1>38, ZenonT(20) DEF NewVideoSender, FreeContext
  <2> QED
    BY <1>38, <2>1 DEF NewVideoSender, FreeContext
<1>25. ASSUME TypeOK, ClearUsers PROVE TypeOK'
  BY <1>25 DEF ClearUsers
<1>26. ASSUME TypeOK, ResetIdentity PROVE TypeOK'
  <2>1. sigRunning' \in BOOLEAN /\ myId' \in BOOLEAN
    BY <1>26, ZenonT(20) DEF ResetIdentity, SignalDone
  <2> QED
    BY <1>26, <2>1, ConstantsAssumption DEF ResetIdentity, SignalDone
<1>27. ASSUME TypeOK, EventCallback PROVE TypeOK'
  <2>1. wsMsg' \in Message
    BY <1>27, ZeroSession DEF EventCallback, NoMsg, Message
  <2>2. wsPc' \in {"call", "poll"}
    BY <1>27 DEF EventCallback
  <2>3. call' \in [Threads -> Call]
    <3> DEFINE c == EventCall(wsMsg)
    <3>1. c.us \ {Me} \in SUBSET Peers
      BY <1>27 DEF EventCall, Message, Uuids
    <3>2. c.op \in Ops \union {"none"}
      BY DEF EventCall, Ops, RoomOps
    <3>3. [op |-> c.op, us |-> c.us \ {Me}, age |-> 0] \in Call
      BY <3>1, <3>2, ConstantsAssumption DEF Call
    <3> QED
      BY <1>27, <3>3 DEF EventCallback, Begin
  <2> QED
    BY <1>27, <2>1, <2>2, <2>3 DEF EventCallback
<1>28. ASSUME TypeOK, WsIssue PROVE TypeOK'
  <2>1. TypeSig' /\ TypeNet'
    BY <1>28, IssueType DEF WsIssue, Threads
  <2> QED
    BY <1>28, <2>1 DEF WsIssue
<1>29. ASSUME TypeOK, WsExit PROVE TypeOK'
  BY <1>29 DEF WsExit
<1>30. ASSUME TypeOK, Connect PROVE TypeOK'
  BY <1>30, ConstantsAssumption DEF Connect
<1>31. ASSUME TypeOK, Disconnect PROVE TypeOK'
  <2>1. connected' \in BOOLEAN /\ lost' \in BOOLEAN
    BY <1>31, ZenonT(20) DEF Disconnect, ConnectionGone
  <2> QED
    BY <1>31, <2>1, ConstantsAssumption DEF Disconnect, ConnectionGone
<1>32. ASSUME TypeOK, Tick PROVE TypeOK'
  <2>1. age' \in 0..Limit
    BY <1>32, ConstantsAssumption DEF Tick
  <2>2. call' \in [Threads -> Call]
    <3>1. \A c \in Call : c.age < Limit => Older(c) \in Call
      BY ConstantsAssumption DEF Call, Older
    <3> QED
      BY <1>32, <3>1 DEF Tick
  <2> QED
    BY <1>32, <2>1, <2>2 DEF Tick
<1>33. ASSUME TypeOK, Server PROVE TypeOK'
  <2> DEFINE r == Head(toServer)
  <2>1. r \in Request /\ toServer' \in Seq(Request)
    BY <1>33 DEF Server
  <2>2. TypeSrv' /\ toClient' \in Seq(Message)
    <3>1. CASE Reply(Msg("error", {}, 0)) /\ UNCHANGED srvVars
      BY <1>33, <3>1, MsgType, ReplyType, ZeroSession DEF MsgOps, Server
    <3>2. CASE Answer(r)
      <4>1. lost' = lost
        BY <1>33 DEF Server
      <4>2. CASE r.op \in EnterOps
        <5>1. /\ srv = 0 /\ issued < MaxSession
              /\ issued' = issued + 1 /\ srv' = issued + 1
              /\ srvPeers' \in SUBSET Peers
              /\ Reply(Msg(r.op, {}, issued + 1))
          BY <3>2, <4>2 DEF Answer, EnterOps
        <5>2. Msg(r.op, {}, issued + 1) \in Message
          BY <1>33, <2>1, <5>1, MsgType, ConstantsAssumption
          DEF MsgOps, Request
        <5> QED
          BY <1>33, <4>1, <5>1, <5>2, ReplyType, ConstantsAssumption
      <4>3. CASE r.op \in {"exit", "stop"}
        <5>1. /\ srv' = 0 /\ srvPeers' = {} /\ UNCHANGED issued
              /\ Reply(Msg(r.op, {}, 0))
          BY <3>2, <4>3 DEF Answer, EnterOps
        <5>2. Msg(r.op, {}, 0) \in Message
          BY <2>1, MsgType, ZeroSession DEF MsgOps, Request
        <5> QED
          BY <1>33, <4>1, <5>1, <5>2, ReplyType, ZeroSession
      <4>4. CASE r.op = "pull"
        <5>1. /\ UNCHANGED srvVars
              /\ Reply(Msg(r.op, r.us \intersect srvPeers, 0))
          BY <3>2, <4>4 DEF Answer, EnterOps
        <5>2. Msg(r.op, r.us \intersect srvPeers, 0) \in Message
          BY <1>33, <2>1, MsgType, ZeroSession DEF MsgOps, Request, Uuids
        <5> QED
          BY <1>33, <4>1, <5>1, <5>2, ReplyType
      <4>5. CASE r.op = "online"
        <5>1. PICK us \in {srvPeers, srvPeers \union {Me}} :
                UNCHANGED srvVars /\ Reply(Msg(r.op, us, 0))
          BY <3>2, <4>5 DEF Answer, EnterOps
        <5>2. Msg(r.op, us, 0) \in Message
          BY <1>33, <2>1, MsgType, ZeroSession DEF MsgOps, Request, Uuids
        <5> QED
          BY <1>33, <4>1, <5>1, <5>2, ReplyType
      <4>6. CASE r.op \in {"stop_pull", "heartbeat"}
        <5>1. UNCHANGED srvVars /\ Reply(Msg(r.op, {}, 0))
          BY <3>2, <4>6 DEF Answer, EnterOps
        <5>2. Msg(r.op, {}, 0) \in Message
          BY <2>1, MsgType, ZeroSession DEF MsgOps, Request
        <5> QED
          BY <1>33, <4>1, <5>1, <5>2, ReplyType
      <4> QED
        BY <3>2, <4>2, <4>3, <4>4, <4>5, <4>6 DEF Answer
    <3> QED
      BY <1>33, <3>1, <3>2 DEF Server
  <2> QED
    BY <1>33, <2>1, <2>2 DEF Server
<1>34. ASSUME TypeOK, Notify PROVE TypeOK'
  <2>1. PICK op \in {"new_joined", "gone", "closing"}, us \in SUBSET Peers :
          Reply(Msg(op, us, 0))
    BY <1>34 DEF Notify
  <2>2. toClient' \in Seq(Message)
    BY <1>34, <2>1, MsgType, ReplyType, ZeroSession DEF MsgOps, Uuids
  <2>3. srv' \in 0..MaxSession /\ srvPeers' \in SUBSET Peers
    BY <1>34, ZeroSession DEF Notify
  <2> QED
    BY <1>34, <2>2, <2>3 DEF Notify
<1>35. ASSUME TypeOK, UNCHANGED vars PROVE TypeOK'
  BY <1>35 DEF vars
<1> QED
  BY <1>1, <1>2, <1>3, <1>4, <1>5, <1>6, <1>7, <1>8, <1>9, <1>10, <1>11,
     <1>12, <1>13, <1>14, <1>15, <1>16, <1>17, <1>18, <1>19, <1>20, <1>21,
     <1>22, <1>23, <1>24, <1>25, <1>26, <1>27, <1>28, <1>29, <1>30, <1>31,
     <1>32, <1>33, <1>34, <1>35, <1>36, <1>37, <1>38
  DEF Next, AppNext, RecvNext, WsNext, WsStep, EnvNext

(* Every variable keeps its type, whatever the threads, the server and the *)
(* connection do.                                                          *)
THEOREM TypeCorrect == Spec => []TypeOK
BY TypeInit, TypeNext, PTL DEF Spec

----------------------------------------------------------------------------
(***************************************************************************)
(* The three threads.  The invariants of MeetingRoom about them are not    *)
(* inductive by themselves: they rest on who may run while free_context or *)
(* a leave handler is at which of its steps.                               *)
(***************************************************************************)

(* The receive thread owns the mutex exactly in the body of its loop. *)
LockHeld == recvPc = "body" <=> mutex = "recv"

(* The room has a client, hence perhaps threads and a connection, from the *)
(* start of the ws thread in initialize to the end of free_context.        *)
Live == initialized \/ appPc \in {"audio", "video", "joinWs", "joinRecv"}

(* What free_context has waited for at each of its steps, and that the ws  *)
(* thread runs until free_context tells it to end.                         *)
Phases ==
  /\ initialized => appPc \in {"idle", "joinWs", "joinRecv"}
  /\ appPc = "joinRecv" => wsPc = "off" /\ ~recvFlag
  /\ wsPc # "off" => Live /\ (wsFlag \/ appPc = "joinWs")
  /\ connected => Live

(* The ws thread of an initialised room runs while nobody frees it. *)
Running == initialized /\ appPc = "idle" => wsPc # "off" /\ wsFlag

(* A room without a client owns nothing. *)
Gone ==
  ~Live => recvPc = "off" /\ users = {} /\ audio = "null" /\ video = "null"

(* What initialize has not made yet at each of its steps: nothing can be   *)
(* ready before both senders are there.                                    *)
Making ==
  /\ appPc = "audio" => audio = "null"
  /\ appPc \in {"audio", "video"} =>
       /\ wsPc # "off" /\ wsFlag
       /\ video = "null" /\ audio # "ready" /\ ~sendInit

(* What a leave handler has got rid of at each of its steps. *)
Leaving ==
  /\ wsPc \in {"join", "drop", "clear", "reset"} => ~recvFlag
  /\ wsPc \in {"drop", "clear", "reset"} =>
       recvPc = "off" /\ audio # "ready" /\ ~sendInit
  /\ wsPc \in {"clear", "reset"} => video # "ready"
  /\ wsPc = "reset" => users = {}

(* Only pull_stream keeps a RoomUser pointer. *)
Pulling == wsPc # "init" => target = {}

(* The inductive invariant of the three threads. *)
ThreadInv ==
  /\ LockHeld /\ Phases /\ Running /\ Gone /\ Making /\ Leaving /\ Pulling
  /\ ReceiveThreadTracked /\ ReceiversOnlyForKnownUsers
  /\ SendersInitTogether

threadVars == <<initialized, appPc, wsFlag, wsPc, target, recvVars, mutex, mapVars,
                sendVars, connected>>

(* Before initialize nothing runs. *)
LEMMA ThreadInit == Init => ThreadInv
BY DEF Init, ThreadInv, LockHeld, Live, Phases, Running, Gone, Making,
            Leaving, Pulling,
       ReceiveThreadTracked, ReceiversOnlyForKnownUsers, SendersInitTogether

(* Every step of every thread keeps the thread invariant. *)
LEMMA ThreadNext == TypeOK /\ ThreadInv /\ [Next]_vars => ThreadInv'
<1> USE DEF ThreadInv, LockHeld, Live, Phases, Running, Gone, Making,
            Leaving, Pulling,
            ReceiveThreadTracked, ReceiversOnlyForKnownUsers,
            SendersInitTogether, recvVars, mapVars, sendVars
<1>1. ASSUME ThreadInv, UNCHANGED threadVars PROVE ThreadInv'
  BY <1>1 DEF threadVars
<1>2. CASE AppBegin \/ AppIssue \/ SetCallbacks \/ Tick \/ Server \/ Notify
           \/ OnNothing \/ OnStopPulling \/ UNCHANGED vars
  <2>1. UNCHANGED threadVars
    BY <1>2
    DEF AppBegin, AppIssue, Issue, SetCallbacks, Tick, Server, Notify,
        OnNothing, OnStopPulling, Receive, vars, threadVars, appVars, wsVars,
        netVars
  <2> QED
    BY <1>1, <2>1
<1>3. ASSUME ThreadInv, Initialize PROVE ThreadInv'
  BY <1>3 DEF Initialize, FreeContext, AppIdle, netVars
<1>4. ASSUME ThreadInv, CreateContext PROVE ThreadInv'
  BY <1>4 DEF CreateContext, netVars
<1>5. ASSUME ThreadInv, UnInitialize PROVE ThreadInv'
  BY <1>5 DEF UnInitialize, FreeContext, AppIdle, netVars
<1>6. ASSUME ThreadInv, JoinWs PROVE ThreadInv'
  BY <1>6 DEF JoinWs, wsVars, netVars
<1>7. ASSUME TypeOK, ThreadInv, JoinRecv PROVE ThreadInv'
  BY <1>7 DEF JoinRecv, ConnectionGone, TypeOK, TypeApp, wsVars
<1>8. ASSUME ThreadInv, RecvTest PROVE ThreadInv'
  BY <1>8 DEF RecvTest, appVars, wsVars, netVars
<1>9. ASSUME ThreadInv, RecvLock PROVE ThreadInv'
  BY <1>9 DEF RecvLock, appVars, wsVars, netVars
<1>10. ASSUME ThreadInv, RecvUnlock PROVE ThreadInv'
  BY <1>10 DEF RecvUnlock, appVars, wsVars, netVars
<1>11. ASSUME ThreadInv, OnEnter PROVE ThreadInv'
  BY <1>11
  DEF OnEnter, Receive, Adopt, AddSenderDestination, AudioInit, StartReceive,
      appVars
<1>12. ASSUME ThreadInv, OnUserList PROVE ThreadInv'
  BY <1>12 DEF OnUserList, Receive, appVars
<1>13. ASSUME ThreadInv, OnUserGone PROVE ThreadInv'
  BY <1>13 DEF OnUserGone, Receive, appVars
<1>14. ASSUME ThreadInv, OnPullStream PROVE ThreadInv'
  BY <1>14 DEF OnPullStream, Receive, appVars
<1>15. ASSUME ThreadInv, OnLeave PROVE ThreadInv'
  BY <1>15 DEF OnLeave, Receive, appVars
<1>16. ASSUME ThreadInv, InsertUsers PROVE ThreadInv'
  BY <1>16 DEF InsertUsers, appVars, netVars
<1>17. ASSUME ThreadInv, EraseUser PROVE ThreadInv'
  BY <1>17 DEF EraseUser, appVars, netVars
<1>18. ASSUME ThreadInv, FindUser PROVE ThreadInv'
  BY <1>18 DEF FindUser, appVars, netVars
<1>19. ASSUME ThreadInv, InitUser PROVE ThreadInv'
  BY <1>19 DEF InitUser, appVars, netVars
<1>20. ASSUME ThreadInv, PullDone PROVE ThreadInv'
  BY <1>20 DEF PullDone, appVars, netVars
<1>21. ASSUME ThreadInv, RemoveAudioSender PROVE ThreadInv'
  BY <1>21 DEF RemoveAudioSender, appVars, netVars
<1>29. ASSUME ThreadInv, RemoveVideoSender PROVE ThreadInv'
  BY <1>29 DEF RemoveVideoSender, appVars, netVars
<1>30. ASSUME ThreadInv, NewAudioSender PROVE ThreadInv'
  BY <1>30 DEF NewAudioSender, FreeContext, netVars
<1>31. ASSUME ThreadInv, NewVideoSender PROVE ThreadInv'
  BY <1>31 DEF NewVideoSender, FreeContext, netVars
<1>22. ASSUME ThreadInv, ClearUsers PROVE ThreadInv'
  BY <1>22 DEF ClearUsers, appVars, netVars
<1>23. ASSUME ThreadInv, ResetIdentity PROVE ThreadInv'
  BY <1>23 DEF ResetIdentity, appVars, netVars
<1>24. ASSUME ThreadInv, EventCallback PROVE ThreadInv'
  BY <1>24 DEF EventCallback, appVars, netVars
<1>25. ASSUME ThreadInv, WsIssue PROVE ThreadInv'
  BY <1>25 DEF WsIssue, Issue, appVars
<1>26. ASSUME ThreadInv, WsExit PROVE ThreadInv'
  BY <1>26 DEF WsExit, appVars, netVars
<1>27. ASSUME ThreadInv, Connect PROVE ThreadInv'
  BY <1>27 DEF Connect, appVars, wsVars
<1>28. ASSUME ThreadInv, Disconnect PROVE ThreadInv'
  BY <1>28 DEF Disconnect, ConnectionGone, appVars, wsVars
<1> QED
  BY <1>2, <1>3, <1>4, <1>5, <1>6, <1>7, <1>8, <1>9, <1>10, <1>11, <1>12,
      <1>13, <1>14, <1>15, <1>16, <1>17, <1>18, <1>19, <1>20, <1>21, <1>22,
      <1>23, <1>24, <1>25, <1>26, <1>27, <1>28, <1>29, <1>30, <1>31
  DEF Next, AppNext, RecvNext, WsNext, WsStep, EnvNext

(* The thread invariant holds throughout. *)
LEMMA ThreadAlways == Spec => [](TypeOK /\ ThreadInv)
BY TypeInit, TypeNext, ThreadInit, ThreadNext, PTL DEF Spec

(* m_receive_thread_running tells start_receive the truth: there is never  *)
(* a second receive thread, and stop_receive joins the one there is.       *)
THEOREM OneReceiveThread == Spec => []ReceiveThreadTracked
<1>1. ThreadInv => ReceiveThreadTracked
  BY DEF ThreadInv
<1> QED
  BY <1>1, ThreadAlways, PTL

(* The RoomUser pointer that pull_stream uses without the mutex, and every *)
(* pair of receivers, belongs to an entry of m_other_users_map: only the   *)
(* ws thread erases entries, and not between FindUser and InitUser.        *)
THEOREM KnownUsers == Spec => []ReceiversOnlyForKnownUsers
<1>1. ThreadInv => ReceiversOnlyForKnownUsers
  BY DEF ThreadInv
<1> QED
  BY <1>1, ThreadAlways, PTL

(* un_initialize and a failed initialize leave no thread, no user, no      *)
(* sender, no connection and no locked mutex behind.                       *)
THEOREM TeardownClean == Spec => []TornDown
<1>1. TypeOK /\ ThreadInv => TornDown
  BY DEF ThreadInv, LockHeld, Live, Phases, Gone, TornDown, TypeOK, TypeRecv
<1> QED
  BY <1>1, ThreadAlways, PTL

(* add_sender_destination sets m_rtp_send_initialized only with both       *)
(* senders initialised, and remove_sender takes all three back.            *)
THEOREM SendersTogether == Spec => []SendersInitTogether
<1>1. ThreadInv => SendersInitTogether
  BY DEF ThreadInv
<1> QED
  BY <1>1, ThreadAlways, PTL

(* No thread changes m_other_users_map while receive_loop walks it. *)
THEOREM MapStable == Spec => UsersStableWhileReceiving
<1>1. TypeOK /\ ThreadInv /\ [Next]_vars =>
        [recvPc = "body" => users' = users]_vars
  <2> SUFFICES ASSUME ThreadInv, Next, recvPc = "body"
               PROVE  users' = users
    BY DEF vars
  <2> USE DEF ThreadInv, LockHeld, mapVars
  <2>1. CASE AppNext
    BY <2>1 DEF AppNext, AppBegin, AppIssue, SetCallbacks, Initialize,
       CreateContext, NewAudioSender,
       NewVideoSender, UnInitialize, JoinWs, JoinRecv
  <2>2. CASE RecvNext
    BY <2>2 DEF RecvNext, RecvTest, RecvLock, RecvUnlock
  <2>3. CASE WsStep
    BY <2>3 DEF WsStep, InsertUsers, EraseUser, FindUser, InitUser, PullDone,
       RemoveAudioSender, RemoveVideoSender, ClearUsers, ResetIdentity, EventCallback, WsIssue
  <2>4. CASE WsNext /\ ~WsStep
    BY <2>4 DEF WsNext, OnNothing, OnStopPulling, OnEnter, OnUserList,
       OnUserGone, OnPullStream, OnLeave, WsExit, Connect, Disconnect
  <2>5. CASE EnvNext
    BY <2>5 DEF EnvNext, Tick, Server, Notify
  <2> QED
    BY <2>1, <2>2, <2>3, <2>4, <2>5 DEF Next
<1> QED
  BY <1>1, TypeInit, TypeNext, ThreadInit, ThreadNext, PTL
  DEF Spec, UsersStableWhileReceiving

(* A response that enters a room names a membership. *)
NamedMessage == {m \in Message : m.op \in EnterOps => m.sess # 0}

EnterNamed == toClient \in Seq(NamedMessage)

(* No message is in flight at first. *)
LEMMA EnterNamedInit == Init => EnterNamed
BY DEF Init, EnterNamed

(* All other messages need no membership. *)
LEMMA NamedReply ==
  ASSUME EnterNamed, NEW op \in MsgOps \ EnterOps, NEW us \in SUBSET Uuids,
         Reply(Msg(op, us, 0))
  PROVE  EnterNamed'
<1>1. Msg(op, us, 0) \in NamedMessage
  BY MsgType, ZeroSession DEF NamedMessage, Msg
<1> QED
  BY <1>1 DEF EnterNamed, Reply

(* Only the server adds a message that enters a room, with a new           *)
(* membership; the handlers and a broken connection only take some away.   *)
LEMMA EnterNamedNext == TypeOK /\ EnterNamed /\ [Next]_vars => EnterNamed'
<1> SUFFICES ASSUME TypeOK, EnterNamed, [Next]_vars PROVE EnterNamed'
  OBVIOUS
<1>1. CASE UNCHANGED toClient
  BY <1>1 DEF EnterNamed
<1>2. CASE toClient' = <<>>
  BY <1>2 DEF EnterNamed
<1>3. CASE toClient # <<>> /\ toClient' = Tail(toClient)
  BY <1>3 DEF EnterNamed
<1>4. CASE Server
  <2> DEFINE r == Head(toServer)
  <2>1. r \in Request
    BY <1>4 DEF Server, TypeOK, TypeNet
  <2>2. CASE Reply(Msg("error", {}, 0))
    BY <2>2, NamedReply DEF MsgOps, EnterOps
  <2>3. CASE Answer(r)
    <3>1. CASE r.op \in EnterOps
      <4>1. issued < MaxSession /\ Reply(Msg(r.op, {}, issued + 1))
        BY <2>3, <3>1 DEF Answer, EnterOps
      <4>2. Msg(r.op, {}, issued + 1) \in NamedMessage
        <5>1. issued + 1 \in 0..MaxSession /\ issued + 1 # 0
          BY <4>1, ConstantsAssumption DEF TypeOK, TypeSrv
        <5>2. Msg(r.op, {}, issued + 1) \in Message
          BY <2>1, <5>1, MsgType DEF Request, MsgOps
        <5> QED
          BY <5>1, <5>2 DEF NamedMessage, Msg
      <4> QED
        BY <4>1, <4>2 DEF EnterNamed, Reply
    <3>2. CASE r.op \notin EnterOps
      <4>1. PICK us \in SUBSET Uuids : Reply(Msg(r.op, us, 0))
        BY <2>1, <2>3, <3>2
        DEF Answer, TypeOK, TypeSrv, Request, Uuids
      <4>2. r.op \in MsgOps \ EnterOps
        BY <2>1, <3>2 DEF Request, MsgOps
      <4> QED
        BY <4>1, <4>2, NamedReply
    <3> QED
      BY <3>1, <3>2
  <2> QED
    BY <1>4, <2>2, <2>3 DEF Server
<1>5. CASE Notify
  <2>1. PICK op \in {"new_joined", "gone", "closing"}, us \in SUBSET Peers :
          Reply(Msg(op, us, 0))
    BY <1>5 DEF Notify, TypeOK, TypeSrv
  <2> QED
    BY <2>1, NamedReply DEF MsgOps, EnterOps, Ops, RoomOps, Uuids
<1> USE DEF netVars
<1>6. CASE AppNext
  BY <1>1, <1>2, <1>6
  DEF AppNext, AppBegin, AppIssue, Issue, SetCallbacks, Initialize,
      CreateContext, NewAudioSender,
       NewVideoSender, UnInitialize, JoinWs, JoinRecv, ConnectionGone
<1>7. CASE RecvNext
  BY <1>1, <1>7 DEF RecvNext, RecvTest, RecvLock, RecvUnlock
<1>8. CASE WsStep
  BY <1>1, <1>8
  DEF WsStep, InsertUsers, EraseUser, FindUser, InitUser, PullDone,
      RemoveAudioSender, RemoveVideoSender, ClearUsers, ResetIdentity, EventCallback, WsIssue, Issue
<1>9. CASE WsExit \/ Connect \/ Disconnect
  BY <1>1, <1>2, <1>9 DEF WsExit, Connect, Disconnect, ConnectionGone
<1>10. CASE \/ OnNothing \/ OnStopPulling \/ OnEnter \/ OnUserList
            \/ OnUserGone \/ OnPullStream \/ OnLeave
  BY <1>3, <1>10
  DEF OnNothing, OnStopPulling, OnEnter, OnUserList, OnUserGone,
      OnPullStream, OnLeave, Receive
<1>11. CASE Tick \/ UNCHANGED vars
  BY <1>1, <1>11 DEF Tick, vars
<1> QED
  BY <1>4, <1>5, <1>6, <1>7, <1>8, <1>9, <1>10, <1>11
  DEF Next, WsNext, EnvNext

(* A handler gives up the room identity only when the receive thread has   *)
(* ended, the users of the room are deleted and no sender is initialised   *)
(* for it any more, also while initialize is still making senders.         *)
THEOREM LeavingCleans == Spec => LeaveCleans
<1> DEFINE Clean == /\ users' = {} /\ recvPc' = "off"
                    /\ audio' # "ready" /\ video' # "ready" /\ ~sendInit'
<1>1. TypeOK /\ ThreadInv /\ EnterNamed /\ [Next]_vars =>
        [my # 0 /\ my' = 0 => Clean]_vars
  <2> SUFFICES ASSUME TypeOK, ThreadInv, EnterNamed, Next, my # 0, my' = 0
               PROVE  Clean
    BY DEF vars
  <2>1. CASE ResetIdentity
    BY <2>1 DEF ResetIdentity, ThreadInv, Leaving, recvVars, mapVars, sendVars
  <2>2. CASE OnEnter
    <3>1. Head(toClient) \in NamedMessage /\ Head(toClient).op \in EnterOps
      BY <2>2 DEF OnEnter, Receive, EnterNamed
    <3> QED
      BY <2>2, <3>1 DEF OnEnter, Adopt, NamedMessage, idVars
  <2> USE DEF idVars
  <2>3. CASE AppNext
    BY <2>3 DEF AppNext, AppBegin, AppIssue, Issue, SetCallbacks, Initialize,
       CreateContext, NewAudioSender,
       NewVideoSender, UnInitialize, JoinWs, JoinRecv
  <2>4. CASE RecvNext
    BY <2>4 DEF RecvNext, RecvTest, RecvLock, RecvUnlock
  <2>5. CASE WsStep /\ ~ResetIdentity
    BY <2>5 DEF WsStep, InsertUsers, EraseUser, FindUser, InitUser, PullDone,
       RemoveAudioSender, RemoveVideoSender, ClearUsers, EventCallback, WsIssue, Issue
  <2>6. CASE WsNext /\ ~WsStep /\ ~OnEnter
    BY <2>6 DEF WsNext, OnNothing, OnStopPulling, OnUserList,
       OnUserGone, OnPullStream, OnLeave, WsExit, Connect, Disconnect
  <2>7. CASE EnvNext
    BY <2>7 DEF EnvNext, Tick, Server, Notify
  <2> QED
    BY <2>1, <2>2, <2>3, <2>4, <2>5, <2>6, <2>7 DEF Next
<1> QED
  BY <1>1, TypeInit, TypeNext, ThreadInit, ThreadNext, EnterNamedInit,
     EnterNamedNext, PTL
  DEF Spec, LeaveCleans

----------------------------------------------------------------------------
(***************************************************************************)
(* The client's idea of its membership and the server's.                   *)
(***************************************************************************)
IsLeave(m) == m.op \in LeaveOps

(* A membership that a response on its way grants is the one the server    *)
(* keeps, or a message that ends it follows the response.                  *)
EntersCurrent ==
  \A i \in 1..Len(toClient) :
    toClient[i].op \in EnterOps =>
      \/ toClient[i].sess = srv
      \/ \E j \in (i + 1)..Len(toClient) : IsLeave(toClient[j])

(* A handler that leaves is at one of its own steps, and has given up the  *)
(* identity when it comes to the callback.                                 *)
LeaveSteps ==
  wsMsg.op \in LeaveOps =>
    \/ wsPc \in {"join", "drop", "clear", "reset"}
    \/ wsPc = "event" /\ my = 0

MemberInv == EntersCurrent /\ LeaveSteps /\ MembershipSound

(* No message and no identity at first. *)
LEMMA MemberInit == Init => MemberInv
BY DEF Init, MemberInv, EntersCurrent, LeaveSteps, MembershipSound, NoMsg, LeaveOps

(* Taking the first message off the connection spoils no promise of the    *)
(* messages behind it.                                                     *)
LEMMA EntersAfterReceive ==
  ASSUME EnterNamed, EntersCurrent, toClient # <<>>,
         toClient' = Tail(toClient), srv' = srv
  PROVE  EntersCurrent'
<1> SUFFICES ASSUME NEW i \in 1..Len(toClient'),
                    toClient'[i].op \in EnterOps, toClient'[i].sess # srv
             PROVE  \E j \in (i + 1)..Len(toClient') : IsLeave(toClient'[j])
  BY DEF EntersCurrent, IsLeave
<1>1. /\ Len(toClient') = Len(toClient) - 1
      /\ \A k \in 1..Len(toClient') : toClient'[k] = toClient[k + 1]
  BY DEF EnterNamed
<1>2. PICK j \in (i + 2)..Len(toClient) : IsLeave(toClient[j])
  <2>1. i + 1 \in 1..Len(toClient)
    BY <1>1 DEF EnterNamed
  <2> QED
    BY <1>1, <2>1 DEF EntersCurrent
<1>3. j - 1 \in (i + 1)..Len(toClient') /\ toClient'[j - 1] = toClient[j]
  BY <1>1, <1>2 DEF EnterNamed
<1> QED
  BY <1>2, <1>3

(* A new message keeps the promises too, when it grants the membership the *)
(* server has just recorded, ends the one it has, or does neither.         *)
LEMMA EntersAfterReply ==
  ASSUME EnterNamed, EntersCurrent, NEW m, Reply(m),
         \/ m.op \notin EnterOps /\ srv' = srv
         \/ m.op \notin EnterOps /\ IsLeave(m)
         \/ m.sess = srv' /\ srv = 0
  PROVE  EntersCurrent'
<1> SUFFICES ASSUME NEW i \in 1..Len(toClient'),
                    toClient'[i].op \in EnterOps, toClient'[i].sess # srv'
             PROVE  \E j \in (i + 1)..Len(toClient') : IsLeave(toClient'[j])
  BY DEF EntersCurrent, IsLeave
<1>1. /\ Len(toClient) \in Nat
      /\ Len(toClient') = Len(toClient) + 1
      /\ \A k \in 1..Len(toClient) : toClient'[k] = toClient[k]
      /\ toClient'[Len(toClient) + 1] = m
  BY DEF EnterNamed, Reply
<1>2. i \in 1..Len(toClient)
  BY <1>1
<1>3. CASE toClient[i].sess = srv
  <2>1. toClient[i].sess # 0
    BY <1>1, <1>2 DEF EnterNamed, NamedMessage
  <2>2. IsLeave(toClient'[Len(toClient) + 1])
    BY <1>1, <1>2, <1>3, <2>1
  <2> QED
    BY <1>1, <1>2, <2>2
<1>4. CASE toClient[i].sess # srv
  <2>1. PICK j \in (i + 1)..Len(toClient) : IsLeave(toClient[j])
    BY <1>1, <1>2, <1>4 DEF EntersCurrent
  <2> QED
    BY <1>1, <1>2, <2>1
<1> QED
  BY <1>3, <1>4

(* So is a leave on its way, or one that the reply brings. *)
LEMMA LeaveAfterReply ==
  ASSUME EnterNamed, NEW m, Reply(m), wsMsg' = wsMsg,
         LeavePending \/ IsLeave(m)
  PROVE  LeavePending'
<1>1. /\ Len(toClient) \in Nat
      /\ Len(toClient') = Len(toClient) + 1
      /\ \A k \in 1..Len(toClient) : toClient'[k] = toClient[k]
      /\ toClient'[Len(toClient) + 1] = m
  BY DEF EnterNamed, Reply
<1> QED
  BY <1>1 DEF LeavePending, IsLeave

(* A leave that is not the first message stays behind. *)
LEMMA LeaveAfterReceive ==
  ASSUME EnterNamed, toClient # <<>>, toClient' = Tail(toClient),
         \E i \in 1..Len(toClient) : IsLeave(toClient[i]),
         ~IsLeave(Head(toClient))
  PROVE  LeavePending'
<1>1. /\ Len(toClient') = Len(toClient) - 1
      /\ \A k \in 1..Len(toClient') : toClient'[k] = toClient[k + 1]
      /\ Head(toClient) = toClient[1] /\ Len(toClient) \in Nat
  BY DEF EnterNamed
<1>2. PICK i \in 1..Len(toClient) : IsLeave(toClient[i])
  OBVIOUS
<1>3. i - 1 \in 1..Len(toClient') /\ toClient'[i - 1] = toClient[i]
  BY <1>1, <1>2
<1> QED
  BY <1>2, <1>3 DEF LeavePending, IsLeave
(* Every step keeps both views of the membership together. *)
LEMMA MemberNext ==
  TypeOK /\ ThreadInv /\ EnterNamed /\ MemberInv /\ [Next]_vars => MemberInv'
<1> SUFFICES ASSUME TypeOK, ThreadInv, EnterNamed, MemberInv, [Next]_vars
             PROVE  MemberInv'
  OBVIOUS
<1> USE DEF netVars, wsVars, idVars, srvVars
<1>1. CASE UNCHANGED <<toClient, srv, my, lost, wsMsg, wsPc>>
  BY <1>1 DEF MemberInv, EntersCurrent, LeaveSteps, MembershipSound,
     LeavePending, IsLeave
<1>2. CASE ConnectionGone /\ UNCHANGED <<my, wsMsg, wsPc>>
  BY <1>2 DEF ConnectionGone, MemberInv, EntersCurrent, LeaveSteps,
     MembershipSound
<1>3. CASE WsExit \/ Connect
  <2>1. wsMsg.op \notin LeaveOps
    BY <1>3 DEF WsExit, Connect, MemberInv, LeaveSteps
  <2> QED
    BY <1>3, <2>1 DEF WsExit, Connect, MemberInv, EntersCurrent, LeaveSteps,
       MembershipSound, LeavePending, IsLeave
<1>4. CASE CreateContext
  <2>1. wsMsg.op \notin LeaveOps
    BY <1>4 DEF CreateContext, ThreadInv, Live, Phases, MemberInv, LeaveSteps
  <2> QED
    BY <1>4, <2>1 DEF CreateContext, MemberInv, EntersCurrent, LeaveSteps,
       MembershipSound, LeavePending, IsLeave
<1>5. CASE AppNext
  BY <1>1, <1>2, <1>4, <1>5
  DEF AppNext, AppBegin, AppIssue, Issue, SetCallbacks, Initialize,
      NewAudioSender, NewVideoSender, UnInitialize, JoinWs, JoinRecv
<1>6. CASE RecvNext
  BY <1>1, <1>6 DEF RecvNext, RecvTest, RecvLock, RecvUnlock
<1>7. CASE Disconnect
  BY <1>2, <1>7 DEF Disconnect
<1>8. CASE Tick \/ UNCHANGED vars
  BY <1>1, <1>8 DEF Tick, vars
<1>9. CASE WsStep
  <2> USE DEF MemberInv, EntersCurrent, LeaveSteps, MembershipSound,
              LeavePending, IsLeave
  <2>1. CASE InsertUsers \/ EraseUser \/ FindUser \/ InitUser \/ WsIssue
    <3>1. wsMsg.op \notin LeaveOps /\ wsMsg'.op = wsMsg.op
      BY <2>1 DEF InsertUsers, EraseUser, FindUser, InitUser, WsIssue, TypeOK,
         TypeWs, Message
    <3>2. UNCHANGED <<toClient, srv, my, lost>>
      BY <2>1 DEF InsertUsers, EraseUser, FindUser, InitUser, WsIssue, Issue
    <3> QED
      BY <3>1, <3>2
  <2>2. CASE RemoveAudioSender \/ RemoveVideoSender \/ ClearUsers
    BY <2>2 DEF RemoveAudioSender, RemoveVideoSender, ClearUsers
  <2>3. CASE ResetIdentity
    BY <2>3 DEF ResetIdentity
  <2>4. CASE PullDone
    BY <2>4 DEF PullDone, NoMsg, LeaveOps
  <2>5. CASE EventCallback
    BY <2>5 DEF EventCallback, NoMsg, LeaveOps
  <2> QED
    BY <1>9, <2>1, <2>2, <2>3, <2>4, <2>5 DEF WsStep
<1>10. CASE \/ OnNothing \/ OnStopPulling \/ OnEnter \/ OnUserList
            \/ OnUserGone \/ OnPullStream \/ OnLeave
  <2>1. /\ wsPc = "poll" /\ wsMsg.op \notin LeaveOps
        /\ toClient # <<>> /\ toClient' = Tail(toClient) /\ UNCHANGED srv
    BY <1>10
    DEF OnNothing, OnStopPulling, OnEnter, OnUserList, OnUserGone,
        OnPullStream, OnLeave, Receive, MemberInv, LeaveSteps
  <2>2. EntersCurrent'
    BY <2>1, EntersAfterReceive DEF MemberInv
  <2>3. CASE OnLeave
    BY <2>2, <2>3 DEF OnLeave, Receive, MemberInv, LeaveSteps,
       MembershipSound, LeavePending
  <2>4. CASE OnEnter
    <3>1. wsMsg'.op \notin LeaveOps
      BY <2>4 DEF OnEnter, Receive, EnterOps, LeaveOps
    <3>2. Head(toClient) = toClient[1] /\ Len(toClient) \in Nat \ {0}
      BY <2>1 DEF EnterNamed
    <3>4. ~IsLeave(Head(toClient))
      BY <2>4 DEF OnEnter, Receive, EnterOps, LeaveOps, IsLeave
    <3>5. ASSUME UNCHANGED <<my, lost>> PROVE MembershipSound'
      BY <2>1, <3>4, <3>5, LeaveAfterReceive
      DEF MemberInv, MembershipSound, LeavePending, IsLeave
    <3>6. ASSUME my' = Head(toClient).sess PROVE MembershipSound'
      <4>1. \/ my' = srv
            \/ \E j \in 2..Len(toClient) : IsLeave(toClient[j])
        BY <2>4, <3>2, <3>6 DEF MemberInv, EntersCurrent, OnEnter, Receive
      <4> QED
        BY <2>1, <3>2, <3>4, <4>1, LeaveAfterReceive DEF MembershipSound
    <3>7. MembershipSound'
      BY <2>4, <3>5, <3>6 DEF OnEnter, Adopt
    <3> QED
      BY <2>2, <3>1, <3>7 DEF MemberInv, LeaveSteps
  <2>5. CASE \/ OnNothing \/ OnStopPulling \/ OnUserList \/ OnUserGone
             \/ OnPullStream
    <3>1. ~IsLeave(Head(toClient)) /\ wsMsg'.op \notin LeaveOps
      BY <2>1, <2>5 DEF OnNothing, OnStopPulling, OnUserList, OnUserGone,
         OnPullStream, Receive, LeaveOps, IsLeave
    <3>2. UNCHANGED <<my, lost>>
      BY <2>5 DEF OnNothing, OnStopPulling, OnUserList, OnUserGone,
         OnPullStream
    <3>3. MembershipSound'
      BY <2>1, <3>1, <3>2, LeaveAfterReceive
      DEF MemberInv, MembershipSound, LeavePending, IsLeave
    <3> QED
      BY <2>2, <3>1, <3>3 DEF MemberInv, LeaveSteps
  <2> QED
    BY <2>3, <2>4, <2>5, <1>10
<1>11. ASSUME NEW m, Reply(m), UNCHANGED <<my, lost, wsMsg, wsPc>>,
              \/ m.op \notin EnterOps /\ srv' = srv
              \/ m.op \notin EnterOps /\ IsLeave(m)
              \/ m.sess = srv' /\ srv = 0
       PROVE  MemberInv'
  <2>1. EntersCurrent'
    BY <1>11, EntersAfterReply DEF MemberInv
  <2>2. MembershipSound'
    BY <1>11, LeaveAfterReply DEF MemberInv, MembershipSound
  <2> QED
    BY <1>11, <2>1, <2>2 DEF MemberInv, LeaveSteps
<1>12. CASE Server
  <2> DEFINE r == Head(toServer)
  <2>1. UNCHANGED <<my, lost, wsMsg, wsPc>>
    BY <1>12 DEF Server
  <2>2. CASE Reply(Msg("error", {}, 0)) /\ UNCHANGED srv
    BY <1>11, <2>1, <2>2 DEF Msg, EnterOps
  <2>3. CASE Answer(r)
    <3>1. CASE r.op \in EnterOps
      <4>1. /\ srv = 0 /\ srv' = issued + 1
            /\ Reply(Msg(r.op, {}, issued + 1))
        BY <2>3, <3>1 DEF Answer, EnterOps
      <4> QED
        BY <1>11, <2>1, <4>1 DEF Msg
    <3>2. CASE r.op \in {"exit", "stop"}
      <4>1. Reply(Msg(r.op, {}, 0))
        BY <2>3, <3>2 DEF Answer, EnterOps
      <4> QED
        BY <1>11, <2>1, <3>2, <4>1 DEF Msg, EnterOps, IsLeave, LeaveOps
    <3>3. CASE r.op \notin EnterOps \union {"exit", "stop"}
      <4>1. PICK us : Reply(Msg(r.op, us, 0)) /\ UNCHANGED srv
        BY <2>3, <3>3 DEF Answer
      <4> QED
        BY <1>11, <2>1, <3>3, <4>1 DEF Msg
    <3> QED
      BY <3>1, <3>2, <3>3
  <2> QED
    BY <1>12, <2>2, <2>3 DEF Server
<1>13. CASE Notify
  <2>1. UNCHANGED <<my, lost, wsMsg, wsPc>>
    BY <1>13 DEF Notify
  <2>2. PICK op \in {"new_joined", "gone", "closing"} : \E us :
          /\ Reply(Msg(op, us, 0))
          /\ op # "closing" => UNCHANGED srv
    BY <1>13 DEF Notify
  <2> QED
    BY <1>11, <2>1, <2>2 DEF Msg, EnterOps, IsLeave, LeaveOps
<1> QED
  BY <1>3, <1>5, <1>6, <1>7, <1>8, <1>9, <1>10, <1>12, <1>13
  DEF Next, WsNext, EnvNext

(* While its connection lasts, a client with a room identity is a member   *)
(* under that identity, or the message that ends the membership is on its  *)
(* way or being handled: for any retries, late answers and notifications.  *)
THEOREM MembershipHolds == Spec => []MembershipSound
<1>1. MemberInv => MembershipSound
  BY DEF MemberInv
<1> QED
  BY <1>1, ThreadAlways, EnterNamedInit, EnterNamedNext, MemberInit,
     MemberNext, PTL
  DEF Spec

----------------------------------------------------------------------------
(***************************************************************************)
(* The session of RoomSession.                                             *)
(***************************************************************************)

(* Message i on its way to the client enters a room. *)
Entering(i) == i \in 1..Len(toClient) /\ toClient[i].op \in EnterOps

(* The rooms that the messages on their way enter are newer than the one   *)
(* held, each newer than the one before.                                   *)
EntersFresh ==
  /\ my <= issued
  /\ \A i \in 1..Len(toClient) :
       Entering(i) => my < toClient[i].sess /\ toClient[i].sess <= issued
  /\ \A i, j \in 1..Len(toClient) :
       Entering(i) /\ Entering(j) /\ i < j => toClient[i].sess < toClient[j].sess

(* No message and no identity at first. *)
LEMMA FreshInit == Init => EntersFresh
BY DEF Init, EntersFresh, Entering

(* Identities are numbers. *)
LEMMA SessionNumbers ==
  TypeOK => /\ my \in Nat /\ issued \in Nat
            /\ \A k \in 1..Len(toClient) : toClient[k].sess \in Nat
<1> SUFFICES ASSUME TypeOK
             PROVE  /\ my \in Nat /\ issued \in Nat
                    /\ \A k \in 1..Len(toClient) : toClient[k].sess \in Nat
  OBVIOUS
<1>1. my \in Nat /\ issued \in Nat
  BY ConstantsAssumption DEF TypeOK, TypeSig, TypeSrv
<1>2. ASSUME NEW k \in 1..Len(toClient) PROVE toClient[k].sess \in Nat
  <2>1. toClient[k] \in Message
    BY DEF TypeOK, TypeNet
  <2> QED
    BY <2>1, ConstantsAssumption DEF Message
<1> QED
  BY <1>1, <1>2

(* Taking the first message keeps the order of the others; the identity    *)
(* stays, is given up or becomes the one of that message.                  *)
LEMMA FreshAfterReceive ==
  ASSUME TypeOK, EntersFresh, toClient # <<>>, toClient' = Tail(toClient),
         issued' = issued,
         \/ my' = my
         \/ Entering(1) /\ my' = toClient[1].sess
  PROVE  EntersFresh'
<1>1. /\ Len(toClient) \in Nat \ {0} /\ Len(toClient') = Len(toClient) - 1
      /\ \A k \in 1..Len(toClient') : toClient'[k] = toClient[k + 1]
  BY DEF TypeOK, TypeNet
<1>2. my \in Nat /\ issued \in Nat
      /\ \A k \in 1..Len(toClient) : toClient[k].sess \in Nat
  BY SessionNumbers
<1>3. 1 \in 1..Len(toClient)
  BY <1>1
<1>4. \A k \in 1..Len(toClient') :
        /\ k + 1 \in 1..Len(toClient) /\ 1 < k + 1
        /\ Entering(k)' => Entering(k + 1)
  BY <1>1 DEF Entering
<1>5. my' \in Nat /\ my' <= issued'
  BY <1>2, <1>3 DEF EntersFresh
<1>6. ASSUME NEW k \in 1..Len(toClient'), Entering(k)'
      PROVE  my' < toClient'[k].sess /\ toClient'[k].sess <= issued'
  <2>1. k + 1 \in 1..Len(toClient) /\ 1 < k + 1 /\ Entering(k + 1)
        /\ toClient'[k] = toClient[k + 1]
    BY <1>1, <1>4, <1>6
  <2> QED
    BY <1>2, <1>3, <2>1 DEF EntersFresh
<1>7. ASSUME NEW k \in 1..Len(toClient'), NEW l \in 1..Len(toClient'),
             Entering(k)', Entering(l)', k < l
      PROVE  toClient'[k].sess < toClient'[l].sess
  <2>1. /\ k + 1 \in 1..Len(toClient) /\ Entering(k + 1)
        /\ l + 1 \in 1..Len(toClient) /\ Entering(l + 1)
        /\ toClient'[k] = toClient[k + 1] /\ toClient'[l] = toClient[l + 1]
        /\ k + 1 < l + 1
    BY <1>1, <1>4, <1>7
  <2> QED
    BY <2>1 DEF EntersFresh
<1> QED
  BY <1>5, <1>6, <1>7 DEF EntersFresh

(* A new message enters no room, or one that was never handed out before.  *)
LEMMA FreshAfterReply ==
  ASSUME TypeOK, EntersFresh, NEW m, Reply(m), my' = my,
         \/ m.op \notin EnterOps /\ issued' = issued
         \/ m.sess = issued + 1 /\ issued' = issued + 1
  PROVE  EntersFresh'
<1>1. /\ Len(toClient) \in Nat /\ Len(toClient') = Len(toClient) + 1
      /\ \A k \in 1..Len(toClient) : toClient'[k] = toClient[k]
      /\ toClient'[Len(toClient) + 1] = m
  BY DEF TypeOK, TypeNet, Reply
<1>2. my \in Nat /\ issued \in Nat /\ my <= issued
      /\ \A k \in 1..Len(toClient) : toClient[k].sess \in Nat
  BY SessionNumbers DEF EntersFresh
<1>3. issued' \in Nat /\ issued <= issued'
  BY <1>2
<1>4. ASSUME NEW k \in 1..Len(toClient'), Entering(k)'
      PROVE  \/ k \in 1..Len(toClient) /\ Entering(k)
                  /\ toClient'[k] = toClient[k]
             \/ k = Len(toClient) + 1 /\ toClient'[k].sess = issued + 1
                  /\ issued' = issued + 1
  BY <1>1, <1>4 DEF Entering
<1>5. ASSUME NEW k \in 1..Len(toClient'), Entering(k)'
      PROVE  my' < toClient'[k].sess /\ toClient'[k].sess <= issued'
  BY <1>2, <1>3, <1>4, <1>5 DEF EntersFresh
<1>6. ASSUME NEW k \in 1..Len(toClient'), NEW l \in 1..Len(toClient'),
             Entering(k)', Entering(l)', k < l
      PROVE  toClient'[k].sess < toClient'[l].sess
  <2>1. k \in 1..Len(toClient) /\ Entering(k) /\ toClient'[k] = toClient[k]
    BY <1>1, <1>4, <1>6
  <2>2. CASE l \in 1..Len(toClient) /\ Entering(l) /\ toClient'[l] = toClient[l]
    BY <1>6, <2>1, <2>2 DEF EntersFresh
  <2>3. CASE toClient'[l].sess = issued + 1
    BY <1>2, <2>1, <2>3 DEF EntersFresh
  <2> QED
    BY <1>4, <1>6, <2>2, <2>3
<1> QED
  BY <1>2, <1>3, <1>5, <1>6 DEF EntersFresh

(* Every step keeps the messages on their way in order. *)
LEMMA FreshNext == TypeOK /\ EntersFresh /\ [Next]_vars => EntersFresh'
<1> SUFFICES ASSUME TypeOK, EntersFresh, [Next]_vars PROVE EntersFresh'
  OBVIOUS
<1> USE DEF netVars, idVars, srvVars
<1>1. CASE UNCHANGED <<toClient, my, issued>>
  BY <1>1 DEF EntersFresh, Entering
<1>2. CASE toClient' = <<>> /\ UNCHANGED <<my, issued>>
  BY <1>2 DEF EntersFresh, Entering
<1>3. CASE ResetIdentity
  <2>1. my' = 0 /\ my \in Nat /\ issued \in Nat /\ UNCHANGED <<toClient, issued>>
        /\ \A k \in 1..Len(toClient) : toClient[k].sess \in Nat
    BY <1>3, SessionNumbers DEF ResetIdentity
  <2> QED
    BY <2>1 DEF EntersFresh, Entering
<1>4. CASE Server
  <2> DEFINE r == Head(toServer)
  <2>1. my' = my
    BY <1>4 DEF Server
  <2>2. CASE Reply(Msg("error", {}, 0)) /\ UNCHANGED issued
    BY <2>1, <2>2, FreshAfterReply DEF Msg, EnterOps
  <2>3. CASE Answer(r)
    <3>1. CASE r.op \in EnterOps
      <4>1. issued' = issued + 1 /\ Reply(Msg(r.op, {}, issued + 1))
        BY <2>3, <3>1 DEF Answer, EnterOps
      <4> QED
        BY <2>1, <4>1, FreshAfterReply DEF Msg
    <3>2. CASE r.op \notin EnterOps
      <4>1. PICK us : Reply(Msg(r.op, us, 0)) /\ UNCHANGED issued
        BY <2>3, <3>2 DEF Answer
      <4> QED
        BY <2>1, <3>2, <4>1, FreshAfterReply DEF Msg
    <3> QED
      BY <3>1, <3>2
  <2> QED
    BY <1>4, <2>2, <2>3 DEF Server
<1>5. CASE Notify
  <2>1. PICK op \in {"new_joined", "gone", "closing"} : \E us :
          Reply(Msg(op, us, 0)) /\ UNCHANGED <<my, issued>>
    BY <1>5 DEF Notify
  <2> QED
    BY <2>1, FreshAfterReply DEF Msg, EnterOps
<1>6. CASE AppNext
  BY <1>1, <1>2, <1>6
  DEF AppNext, AppBegin, AppIssue, Issue, SetCallbacks, Initialize,
      CreateContext, NewAudioSender,
       NewVideoSender, UnInitialize, JoinWs, JoinRecv, ConnectionGone
<1>7. CASE RecvNext
  BY <1>1, <1>7 DEF RecvNext, RecvTest, RecvLock, RecvUnlock
<1>8. CASE WsStep
  BY <1>1, <1>3, <1>8
  DEF WsStep, InsertUsers, EraseUser, FindUser, InitUser, PullDone,
      RemoveAudioSender, RemoveVideoSender, ClearUsers, EventCallback, WsIssue, Issue
<1>9. CASE WsExit \/ Connect \/ Disconnect
  BY <1>1, <1>2, <1>9 DEF WsExit, Connect, Disconnect, ConnectionGone
<1>10. CASE \/ OnNothing \/ OnStopPulling \/ OnEnter \/ OnUserList
            \/ OnUserGone \/ OnPullStream \/ OnLeave
  <2>1. toClient # <<>> /\ toClient' = Tail(toClient) /\ issued' = issued
    BY <1>10 DEF OnNothing, OnStopPulling, OnEnter, OnUserList, OnUserGone,
       OnPullStream, OnLeave, Receive
  <2>2. CASE my' = my
    BY <2>1, <2>2, FreshAfterReceive
  <2>3. CASE my' # my
    <3>1. OnEnter /\ Head(toClient).op \in EnterOps
          /\ my' = Head(toClient).sess
      BY <1>10, <2>3 DEF OnNothing, OnStopPulling, OnEnter, OnUserList,
         OnUserGone, OnPullStream, OnLeave, Receive, Adopt
    <3>2. Head(toClient) = toClient[1] /\ 1 \in 1..Len(toClient)
      BY <2>1 DEF TypeOK, TypeNet
    <3> QED
      BY <2>1, <3>1, <3>2, FreshAfterReceive DEF Entering
  <2> QED
    BY <2>2, <2>3
<1>11. CASE Tick \/ UNCHANGED vars
  BY <1>1, <1>11 DEF Tick, vars
<1> QED
  BY <1>4, <1>5, <1>6, <1>7, <1>8, <1>9, <1>10, <1>11
  DEF Next, WsNext, EnvNext

(* A step of the room that the session does not show. *)
LEMMA SessionStutter ==
  ASSUME UNCHANGED <<SessionPhase, appPc \in {"audio", "video"}, my,
                     recvPc # "off", SessionSend>>
  PROVE  [Session!SessionNext]_(Session!sessionVars)
BY DEF Session!sessionVars

(* Every step of every thread is a step of the session, or none. *)
LEMMA SessionStep ==
  TypeOK /\ ThreadInv /\ EnterNamed /\ EntersFresh /\ [Next]_vars =>
    [Session!SessionNext]_(Session!sessionVars)
<1> SUFFICES ASSUME TypeOK, ThreadInv, EnterNamed, EntersFresh, [Next]_vars
             PROVE  [Session!SessionNext]_(Session!sessionVars)
  OBVIOUS
<1> USE DEF appVars, wsVars, recvVars, sendVars, idVars, SessionPhase,
            SessionSend
<1>1. CASE UNCHANGED <<appPc, wsPc, my, recvPc, sendVars>>
  BY <1>1, SessionStutter
<1>2. CASE AppBegin \/ AppIssue \/ SetCallbacks \/ Tick \/ Server \/ Notify
           \/ OnNothing \/ OnStopPulling \/ Connect \/ Disconnect
           \/ UNCHANGED vars
  BY <1>1, <1>2
  DEF AppBegin, AppIssue, Issue, SetCallbacks, Tick, Server, Notify,
      OnNothing, OnStopPulling, Connect, Disconnect, vars
<1>3. CASE Initialize \/ UnInitialize
  <2>1. /\ UNCHANGED <<wsPc, my, recvPc, sendVars>>
        /\ appPc = "idle" /\ appPc' \in {"joinWs", "create"}
        /\ appPc' = "joinWs" => initialized
    BY <1>3 DEF Initialize, UnInitialize, FreeContext, AppIdle
  <2>2. initialized => wsPc # "off"
    BY <2>1 DEF ThreadInv, Running
  <2> QED
    BY <2>1, <2>2, SessionStutter
<1>4. CASE CreateContext
  <2>1. wsPc = "off" /\ recvPc = "off" /\ appPc = "create"
    BY <1>4 DEF CreateContext, ThreadInv, Live, Phases, Gone
  <2>2. CASE appPc' = "audio"
    <3>1. Session!Start
      BY <1>4, <2>1, <2>2 DEF CreateContext, Session!Start
    <3> QED
      BY <3>1 DEF Session!SessionNext
  <2>3. CASE appPc' # "audio"
    <3>1. UNCHANGED <<wsPc, my, recvPc, sendVars>> /\ appPc' = "idle"
      BY <1>4, <2>1, <2>3 DEF CreateContext
    <3> QED
      BY <2>1, <3>1, SessionStutter
  <2> QED
    BY <2>2, <2>3
<1>16. CASE NewAudioSender /\ appPc' = "video"
  <2>1. video = "null" /\ ~sendInit /\ appPc = "audio" /\ wsPc # "off"
    BY <1>16 DEF NewAudioSender, ThreadInv, Making
  <2> QED
    BY <1>16, <2>1, SessionStutter DEF NewAudioSender
<1>17. CASE NewVideoSender \/ (NewAudioSender /\ appPc' # "video")
  <2>1. /\ video = "null" /\ ~sendInit /\ wsPc # "off"
        /\ appPc \in {"audio", "video"}
    BY <1>17 DEF NewVideoSender, NewAudioSender, ThreadInv, Making
  <2>2. /\ UNCHANGED <<wsPc, my, recvPc, sendInit>>
        /\ appPc' \in {"idle", "joinWs"}
    BY <1>17 DEF NewVideoSender, NewAudioSender, FreeContext
  <2>3. Session!MakeSenders
    BY <2>1, <2>2 DEF Session!MakeSenders
  <2> QED
    BY <2>3 DEF Session!SessionNext
<1>5. CASE JoinWs
  <2>1. UNCHANGED <<wsPc, my, recvPc, sendVars>>
        /\ appPc = "joinWs" /\ appPc' = "joinRecv"
    BY <1>5 DEF JoinWs
  <2> QED
    BY <2>1, SessionStutter
<1>6. CASE JoinRecv
  <2>1. wsPc = "off" /\ recvPc = "off" /\ appPc' \in {"idle", "create"}
    BY <1>6 DEF JoinRecv, ThreadInv, Phases, TypeOK, TypeApp
  <2>2. Session!EndStop
    BY <1>6, <2>1 DEF JoinRecv, Session!EndStop
  <2> QED
    BY <2>2 DEF Session!SessionNext
<1>7. CASE RecvTest
  <2>1. CASE recvFlag
    BY <1>7, <2>1, SessionStutter DEF RecvTest
  <2>2. CASE ~recvFlag
    <3>1. wsPc = "join" \/ (appPc = "joinRecv" /\ wsPc = "off")
      BY <1>7, <2>2 DEF RecvTest, ThreadInv, Phases, ReceiveThreadTracked
    <3>2. Session!EndMedia
      BY <1>7, <2>2, <3>1 DEF RecvTest, Session!EndMedia
    <3> QED
      BY <3>2 DEF Session!SessionNext
  <2> QED
    BY <2>1, <2>2
<1>8. CASE RecvLock \/ RecvUnlock
  BY <1>8, SessionStutter DEF RecvLock, RecvUnlock
<1>9. CASE OnEnter
  <2> DEFINE m == Head(toClient)
  <2>1. wsPc = "poll" /\ wsPc' = "event" /\ UNCHANGED appPc
    BY <1>9 DEF OnEnter, Receive
  <2>3. CASE UNCHANGED <<idVars, sendVars, recvVars>>
    BY <2>1, <2>3, SessionStutter
  <2>4. CASE Adopt(m.sess)
    <3>1. m = toClient[1] /\ Entering(1) /\ 1 \in 1..Len(toClient)
      BY <1>9 DEF OnEnter, Receive, TypeOK, TypeNet, Entering
    <3>2. my' \in Nat /\ my' > my
      BY <2>4, <3>1, SessionNumbers DEF Adopt, EntersFresh
    <3>3. (recvPc # "off") => (recvPc' # "off")
      BY <2>4 DEF Adopt, StartReceive
    <3>4. SessionSend' = SessionSend
          \/ (SessionSend = "idle" /\ SessionSend' = "ready")
      BY <2>4 DEF Adopt, AddSenderDestination, AudioInit
    <3>5. Session!Enter
      BY <2>1, <3>2, <3>3, <3>4 DEF Session!Enter
    <3> QED
      BY <3>5 DEF Session!SessionNext
  <2> QED
    BY <1>9, <2>3, <2>4 DEF OnEnter
<1>10. CASE OnUserList \/ OnUserGone \/ OnPullStream
  BY <1>10, SessionStutter DEF OnUserList, OnUserGone, OnPullStream, Receive
<1>11. CASE OnLeave
  <2>1. Session!BeginLeave
    BY <1>11 DEF OnLeave, Receive, Session!BeginLeave
  <2> QED
    BY <2>1 DEF Session!SessionNext
<1>12. CASE InsertUsers \/ EraseUser \/ FindUser \/ InitUser \/ PullDone
            \/ EventCallback \/ WsIssue
  <2>1. /\ wsPc \notin {"join", "drop", "clear", "reset", "off"}
        /\ wsPc' \notin {"join", "drop", "clear", "reset", "off"}
        /\ UNCHANGED <<appPc, my, recvPc, sendVars>>
    BY <1>12 DEF InsertUsers, EraseUser, FindUser, InitUser, PullDone,
       EventCallback, WsIssue, Issue
  <2> QED
    BY <2>1, SessionStutter
<1>18. CASE WsExit
  <2>1. appPc = "joinWs"
    BY <1>18 DEF WsExit, ThreadInv, Phases
  <2>2. Session!BeginStop
    BY <1>18, <2>1 DEF WsExit, Session!BeginStop
  <2> QED
    BY <2>2 DEF Session!SessionNext
<1>13. CASE RemoveAudioSender \/ RemoveVideoSender
  <2>1. recvPc = "off"
    BY <1>13 DEF RemoveAudioSender, RemoveVideoSender, ThreadInv, Leaving
  <2>2. wsPc = "drop" => ~sendInit
    BY DEF ThreadInv, Leaving
  <2>3. Session!DropSenders
    BY <1>13, <2>1, <2>2
    DEF RemoveAudioSender, RemoveVideoSender, Session!DropSenders
  <2> QED
    BY <2>3 DEF Session!SessionNext
<1>14. CASE ClearUsers
  <2>1. UNCHANGED <<SessionPhase, appPc, my, recvPc, SessionSend>>
    BY <1>14 DEF ClearUsers
  <2> QED
    BY <2>1, SessionStutter
<1>15. CASE ResetIdentity
  <2>1. recvPc = "off" /\ ~sendInit
    BY <1>15 DEF ResetIdentity, ThreadInv, Leaving
  <2>2. Session!EndLeave
    BY <1>15, <2>1 DEF ResetIdentity, Session!EndLeave
  <2> QED
    BY <2>2 DEF Session!SessionNext
<1> QED
  BY <1>2, <1>3, <1>4, <1>5, <1>6, <1>7, <1>8, <1>9, <1>10, <1>11, <1>12,
     <1>13, <1>14, <1>15, <1>16, <1>17, <1>18
  DEF Next, AppNext, RecvNext, WsNext, WsStep, EnvNext

(* LiveMeetingRoom implements the session: with any threads, handlers,     *)
(* retries, late answers and broken connections behind it, also while it   *)
(* starts: media ends before the senders, the senders of a room go before  *)
(* its identity and come again only with a start, a room that is entered   *)
(* is newer than the one held, and a stop keeps the identity.              *)
THEOREM SessionImplemented == Spec => ImplementsSession
<1>1. Init => Session!SessionInit
  BY DEF Init, Session!SessionInit, SessionPhase, SessionSend
<1> QED
  BY <1>1, SessionStep, ThreadAlways, EnterNamedInit, EnterNamedNext,
     FreshInit, FreshNext, PTL
  DEF Spec, ImplementsSession, Session!SessionSpec

----------------------------------------------------------------------------
(***************************************************************************)
(* What LeaveCompletes and TeardownCompletes rest on besides fairness:     *)
(* whoever waits, waits for a thread that can go on, and the joins of      *)
(* receive_loop wait for a number of steps that only goes down.            *)
(***************************************************************************)

(* What a thread that waits is waiting for will come: the mutex is held by *)
(* receive_loop in its body; a thread that is joined has been told to end  *)
(* and no lock keeps it from the test of its flag; the call of a callback  *)
(* is there to be sent.                                                    *)
WaitsSound ==
  /\ mutex # "free" => recvPc = "body"
  /\ recvPc = "lock" => mutex = "free"
  /\ wsPc = "join" => ~recvFlag
  /\ wsPc = "clear" => mutex = "free"
  /\ wsPc = "call" => call["ws"].op # "none"
  /\ appPc = "joinWs" => ~wsFlag
  /\ appPc = "joinRecv" => wsPc = "off" /\ ~recvFlag

(* The part of it that is about the call and the flag of the ws thread. *)
CallInv ==
  /\ wsPc = "call" => call["ws"].op # "none"
  /\ appPc = "joinWs" => ~wsFlag

(* Nobody waits at first. *)
LEMMA CallInit == Init => CallInv
BY DEF Init, CallInv

(* The ws thread has a call between the gate and the send of a callback;   *)
(* free_context clears the flag before it waits, and only initialize sets  *)
(* it again.                                                               *)
LEMMA CallNext == TypeOK /\ CallInv /\ [Next]_vars => CallInv'
<1> SUFFICES ASSUME TypeOK, CallInv, [Next]_vars PROVE CallInv'
  OBVIOUS
<1> USE DEF CallInv, appVars, wsVars, sigVars
<1>0. "ws" # "app" /\ call \in [Threads -> Call] /\ "ws" \in Threads
      /\ "app" \in Threads
  BY DEF TypeOK, TypeSig, Threads
<1>1. CASE UNCHANGED <<wsPc, wsFlag, appPc>> /\ call'["ws"].op = call["ws"].op
  BY <1>1
<1>2. CASE AppBegin
  <2>1. call'["ws"] = call["ws"]
    BY <1>0, <1>2 DEF AppBegin, Begin
  <2> QED
    BY <1>1, <1>2, <2>1 DEF AppBegin
<1>3. CASE AppIssue
  <2>1. call'["ws"] = call["ws"]
    BY <1>0, <1>3 DEF AppIssue, Issue
  <2> QED
    BY <1>1, <1>3, <2>1 DEF AppIssue
<1>4. CASE Tick
  <2>1. call'["ws"].op = call["ws"].op
    BY <1>0, <1>4 DEF Tick, Older
  <2> QED
    BY <1>1, <1>4, <2>1 DEF Tick
<1>5. CASE Initialize \/ UnInitialize \/ CreateContext \/ NewAudioSender
           \/ NewVideoSender \/ JoinWs
  BY <1>5 DEF Initialize, UnInitialize, CreateContext, NewAudioSender,
     NewVideoSender, FreeContext, JoinWs, AppIdle
<1>6. CASE JoinRecv
  BY <1>6 DEF JoinRecv, TypeOK, TypeApp
<1>7. CASE EventCallback
  <2> DEFINE c == EventCall(wsMsg)
  <2>1. UNCHANGED <<wsFlag, appPc>>
    BY <1>7 DEF EventCallback
  <2>2. ASSUME wsPc' = "call" PROVE call'["ws"].op # "none"
    <3>1. c.op # "none" /\ Begin("ws", c.op, c.us)
      BY <1>7, <2>2 DEF EventCallback
    <3> QED
      BY <1>0, <3>1 DEF Begin
  <2> QED
    BY <2>1, <2>2
<1>8. CASE WsIssue
  BY <1>8 DEF WsIssue
<1>9. CASE SetCallbacks \/ Server \/ Notify \/ RecvNext \/ Connect
           \/ Disconnect \/ OnNothing \/ OnStopPulling \/ UNCHANGED vars
  BY <1>9 DEF SetCallbacks, Server, Notify, RecvNext, RecvTest, RecvLock,
     RecvUnlock, Connect, Disconnect, OnNothing, OnStopPulling, SignalDone,
     vars
<1>10. CASE OnEnter \/ OnUserList \/ OnUserGone \/ OnPullStream \/ OnLeave
            \/ WsExit
  BY <1>10 DEF OnEnter, OnUserList, OnUserGone, OnPullStream, OnLeave, WsExit
<1>11. CASE WsStep /\ ~EventCallback /\ ~WsIssue
  BY <1>11 DEF WsStep, InsertUsers, EraseUser, FindUser, InitUser, PullDone,
     RemoveAudioSender, RemoveVideoSender, ClearUsers, ResetIdentity
<1> QED
  BY <1>2, <1>3, <1>4, <1>5, <1>6, <1>7, <1>8, <1>9, <1>10, <1>11
  DEF Next, AppNext, WsNext, EnvNext

(* No handler and no free_context waits for a thread that waits for it:    *)
(* stop_receive is called without the mutex, and free_context joins the ws *)
(* thread before it stops the receive thread.                              *)
THEOREM WaitsAnswered == Spec => []WaitsSound
<1>1. TypeOK /\ ThreadInv /\ CallInv => WaitsSound
  BY DEF TypeOK, TypeRecv, ThreadInv, LockHeld, Phases, Leaving, CallInv,
     WaitsSound
<1> QED
  BY <1>1, ThreadAlways, CallInit, CallNext, PTL DEF Spec

(* The steps that receive_loop has left when its flag is clear. *)
RecvLeft == [off |-> 0, top |-> 1, body |-> 2, lock |-> 3][recvPc]

(* Who joins the receive thread waits for three steps of it at most: each  *)
(* of its own steps takes it closer to its end, and no step of anybody     *)
(* takes it back.                                                          *)
JoinsProgress ==
  [][(wsPc = "join" \/ appPc = "joinRecv") /\ recvPc # "off" =>
       /\ RecvLeft' <= RecvLeft
       /\ RecvNext => RecvLeft' < RecvLeft]_vars

(* stop_receive and free_context never join a receive thread that could go *)
(* round once more.                                                        *)
THEOREM JoinsEnd == Spec => JoinsProgress
<1> DEFINE Ending == (wsPc = "join" \/ appPc = "joinRecv") /\ recvPc # "off"
           Closer == /\ RecvLeft' <= RecvLeft
                     /\ RecvNext => RecvLeft' < RecvLeft
<1>1. TypeOK /\ ThreadInv /\ [Next]_vars => [Ending => Closer]_vars
  <2> SUFFICES ASSUME TypeOK, ThreadInv, Next, Ending PROVE Closer
    BY DEF vars
  <2>1. ~recvFlag /\ recvPc \in {"top", "lock", "body"}
    BY DEF ThreadInv, Leaving, Phases, TypeOK, TypeRecv
  <2>2. CASE RecvNext
    BY <2>1, <2>2 DEF RecvNext, RecvTest, RecvLock, RecvUnlock, RecvLeft
  <2>3. CASE UNCHANGED recvPc /\ ~RecvNext
    BY <2>1, <2>3 DEF RecvLeft
  <2>4. wsPc # "poll"
    BY DEF ThreadInv, Phases
  <2> USE DEF recvVars
  <2>5. CASE AppNext
    BY <2>2, <2>3, <2>5 DEF AppNext, AppBegin, AppIssue, SetCallbacks,
       Initialize, CreateContext, NewAudioSender,
       NewVideoSender, UnInitialize, JoinWs, JoinRecv
  <2>6. CASE WsStep
    BY <2>2, <2>3, <2>6 DEF WsStep, InsertUsers, EraseUser, FindUser,
       InitUser, PullDone, RemoveAudioSender, RemoveVideoSender, ClearUsers, ResetIdentity,
       EventCallback, WsIssue
  <2>7. CASE WsNext /\ ~WsStep
    BY <2>4, <2>7 DEF WsNext, OnNothing, OnStopPulling, OnEnter, OnUserList,
       OnUserGone, OnPullStream, OnLeave, Receive, WsExit, Connect, Disconnect
  <2>8. CASE EnvNext
    BY <2>2, <2>3, <2>8 DEF EnvNext, Tick, Server, Notify
  <2> QED
    BY <2>2, <2>5, <2>6, <2>7, <2>8 DEF Next
<1> QED
  BY <1>1, TypeInit, TypeNext, ThreadInit, ThreadNext, PTL
  DEF Spec, JoinsProgress
=============================================================================
