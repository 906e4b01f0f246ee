------------------------------ MODULE RoomUser ------------------------------
(***************************************************************************)
(* A RoomUser and its two receivers, on the ports of PortManager.          *)
(*                                                                         *)
(* initialize runs on the ws thread, for pull_stream, without              *)
(* m_receive_mutex; receive_loop on the recv thread holds it and tests the *)
(* same pointers.  A step ends where the other thread can see the          *)
(* difference.  The user leaves and joins again (EraseUser), the senders   *)
(* of the room take ports from the same pool, other processes and the      *)
(* network are external.  The first step with undefined behaviour ends the *)
(* model.                                                                  *)
(***************************************************************************)
EXTENDS PortManager

CONSTANTS
  Video, Audio,  \* the two receivers of the user
  ReorderLen     \* the first argument of receive_rtp_packet

ASSUME UserAssumption ==
  /\ Receivers = {Video, Audio} /\ Video # Audio
  /\ ReorderLen \in Nat \ {0}
  /\ {"idle", "erase"} \intersect Sockets = {}

VARIABLES
  busy,       \* what the ws thread is at: a socket, erase or idle
  rx,         \* m_major_receiver, m_audio_receiver and what they point to
  done,       \* m_video_initialize, m_audio_initialize
  assembler,  \* m_h264_frame_assembler: none, new or ready
  buffer,     \* is there an m_h264_rtp_buffer?
  list,       \* length of the receiver's m_reorder_list
  mutex,      \* m_receive_mutex: free, ws or recv
  recv,       \* where the recv thread is, and at which receiver
  undef       \* a null or dangling pointer has been used

videoVars == <<assembler, buffer>>
rxVars    == <<rx, done, videoVars, list>>
recvVars  == <<mutex, recv>>
userVars  == <<busy, rxVars, recvVars, undef>>
allVars   == <<vars, userVars>>

(* A receiver in the order of its life: not there, constructed, told to    *)
(* reorder, with a transmitter, with a socket, initialised; without its    *)
(* transmitter after a failure, deleted.                                   *)
Stages == {"none", "new", "reorder", "transmitter", "bound", "ready",
           "failed", "deleted"}

Phases == {"test", "receive", "push", "pinhole", "send"}
Idle   == <<"idle", Video>>

UserTypeOK ==
  /\ TypeOK
  /\ busy \in Sockets \union {"idle", "erase"}
  /\ rx \in [Receivers -> Stages] /\ done \in [Receivers -> BOOLEAN]
  /\ assembler \in {"none", "new", "ready"} /\ buffer \in BOOLEAN
  /\ list \in [Receivers -> 0..ReorderLen]
  /\ mutex \in {"free", "ws", "recv"}
  /\ recv \in Phases \X Receivers \union {Idle}
  /\ undef \in BOOLEAN

UserInit ==
  /\ Init
  /\ busy = "idle"
  /\ rx = [h \in Receivers |-> "none"] /\ done = [h \in Receivers |-> FALSE]
  /\ assembler = "none" /\ buffer = FALSE
  /\ list = [h \in Receivers |-> 0]
  /\ mutex = "free" /\ recv = Idle /\ undef = FALSE

----------------------------------------------------------------------------
(* The ws thread.  A receiver that is initialised already is left alone.   *)
Begin(h) ==
  /\ busy = "idle" /\ initialized
  /\ h \in Receivers => ~done[h]
  /\ GetPort(h)
  /\ busy' = h
  /\ UNCHANGED <<rxVars, recvVars, undef>>

(* get_available_port: no port is an error for a RoomUser. *)
Search ==
  /\ TryPort \/ GetFails
  /\ busy' = IF pc' = "idle" THEN "idle" ELSE busy
  /\ UNCHANGED <<rxVars, recvVars, undef>>

SenderBind ==
  /\ busy \in Senders /\ Bind
  /\ busy' = "idle"
  /\ UNCHANGED <<rxVars, recvVars, undef>>

(* The steps of initialize on the receiver. *)
At(h, stage) == busy = h /\ h \in Receivers /\ pc # "try" /\ rx[h] = stage

Move(h, stage) == rx' = [rx EXCEPT ![h] = stage]

Receiver == UNCHANGED <<done, videoVars, list, recvVars, undef>>

(* Mutant of NewReceiver: the flag is set before the work is done. *)
NewReceiverDone(h) ==
  /\ At(h, "none") /\ pc = "bind"
  /\ \/ Move(h, "new") /\ done' = [done EXCEPT ![h] = TRUE]
          /\ UNCHANGED <<vars, busy>>
     \/ Bind /\ sock' = sock /\ busy' = "idle" /\ UNCHANGED <<rx, done>>
  /\ UNCHANGED <<videoVars, list, recvVars, undef>>

(* new (std::nothrow) RTPSessionReceiver: the pointer is set from now on,  *)
(* or there is no memory.                                                  *)
NewReceiver(h) ==
  /\ At(h, "none") /\ pc = "bind"
  /\ \/ Move(h, "new") /\ UNCHANGED <<vars, busy>>
     \/ Bind /\ sock' = sock /\ busy' = "idle" /\ UNCHANGED rx
  /\ Receiver

SetReorder(h) ==
  /\ At(h, "new") /\ Move(h, "reorder")
  /\ UNCHANGED <<vars, busy>> /\ Receiver

NewTransmitter(h) ==
  /\ At(h, "reorder") /\ Move(h, "transmitter")
  /\ UNCHANGED <<vars, busy>> /\ Receiver

(* The recv thread has tested the pointer and goes on to use it, without a *)
(* lock that the ws thread takes: what it finds is undefined when the ws   *)
(* thread deletes meanwhile, or sets the pointer to NULL.                  *)
Held(h) == recv[2] = h /\ recv[1] \in {"receive", "push", "send"}

(* RTPTransmitterV4::init; when it fails RTPSessionReceiver::init deletes  *)
(* the transmitter.                                                        *)
BindReceiver(h) ==
  /\ At(h, "transmitter") /\ Bind
  /\ IF sock'[h] # NoPort
     THEN Move(h, "bound") /\ UNCHANGED undef
     ELSE Move(h, "failed") /\ undef' = Held(h)
  /\ UNCHANGED <<busy, done, videoVars, list, recvVars>>

(* The packet, the receive buffer and m_initialize of the receiver. *)
Ready(h) ==
  /\ At(h, "bound") /\ Move(h, "ready")
  /\ UNCHANGED <<vars, busy>> /\ Receiver

(* What initialize_video does once the receiver works. *)
NewAssembler ==
  /\ At(Video, "ready") /\ assembler = "none"
  /\ \/ assembler' = "new" /\ UNCHANGED rx
     \/ Move(Video, "failed") /\ UNCHANGED assembler
  /\ UNCHANGED <<vars, busy, done, buffer, list, recvVars, undef>>

InitAssembler ==
  /\ At(Video, "ready") /\ assembler = "new"
  /\ assembler' = "ready"
  /\ UNCHANGED <<vars, busy, rx, done, buffer, list, recvVars, undef>>

NewBuffer ==
  /\ At(Video, "ready") /\ assembler = "ready" /\ ~buffer
  /\ buffer' = TRUE
  /\ UNCHANGED <<vars, busy, rx, done, assembler, list, recvVars, undef>>

Initialized(h) ==
  /\ At(h, "ready")
  /\ h = Video => buffer
  /\ done' = [done EXCEPT ![h] = TRUE]
  /\ busy' = "idle"
  /\ UNCHANGED <<vars, rx, videoVars, list, recvVars, undef>>

CloseSocket(h) == IF sock[h] # NoPort THEN Close(h) ELSE UNCHANGED vars

(* exitFlag deletes the receiver ... *)
DeleteReceiver(h) ==
  /\ At(h, "failed")
  /\ CloseSocket(h)
  /\ Move(h, "deleted") /\ undef' = Held(h)
  /\ list' = [list EXCEPT ![h] = 0]
  /\ UNCHANGED <<busy, done, videoVars, recvVars>>

(* Mutant of ExitFlag: the pointer is left as it is. *)
ExitFlagDangling(h) ==
  /\ At(h, "deleted")
  /\ busy' = "idle"
  /\ UNCHANGED <<vars, rxVars, recvVars, undef>>

(* ... then sets the pointer to NULL and deletes the rest ... *)
ExitFlag(h) ==
  /\ At(h, "deleted") /\ Move(h, "none")
  /\ assembler' = IF h = Video THEN "none" ELSE assembler
  /\ buffer' = IF h = Video THEN FALSE ELSE buffer
  /\ undef' = Held(h)
  /\ UNCHANGED <<vars, busy, done, list, recvVars>>

(* ... and returns false. *)
Failed(h) ==
  /\ At(h, "none") /\ pc = "idle"
  /\ busy' = "idle"
  /\ UNCHANGED <<vars, rxVars, recvVars, undef>>

(* user_gone: the user is deleted under the mutex.  Another one may join   *)
(* in its place.                                                           *)
EraseUser ==
  /\ busy = "idle" /\ pc = "idle" /\ mutex = "free"
  /\ \E h \in Receivers : rx[h] # "none"
  /\ busy' = "erase" /\ mutex' = "ws"
  /\ UNCHANGED <<vars, rxVars, recv, undef>>

Destroy(h) ==
  /\ busy = "erase" /\ rx[h] # "none"
  /\ CloseSocket(h)
  /\ Move(h, "none") /\ done' = [done EXCEPT ![h] = FALSE]
  /\ list' = [list EXCEPT ![h] = 0]
  /\ assembler' = IF h = Video THEN "none" ELSE assembler
  /\ buffer' = IF h = Video THEN FALSE ELSE buffer
  /\ UNCHANGED <<busy, recvVars, undef>>

Erased ==
  /\ busy = "erase" /\ \A h \in Receivers : rx[h] = "none"
  /\ busy' = "idle" /\ mutex' = "free"
  /\ UNCHANGED <<vars, rxVars, recv, undef>>

----------------------------------------------------------------------------
(* The recv thread: receive_audio, receive_video and, every 2000 rounds,   *)
(* nat_pinhole.                                                            *)
Go(phase, h) == recv' = <<phase, h>> /\ UNCHANGED mutex

Unlock == recv' = Idle /\ mutex' = "free"

AfterReceive(h) ==
  IF h = Audio THEN Go("test", Video) ELSE Go("pinhole", Video) \/ Unlock

AfterSend(h) == IF h = Video THEN Go("pinhole", Audio) ELSE Unlock

RecvLock ==
  /\ recv = Idle /\ mutex = "free"
  /\ mutex' = "recv" /\ recv' = <<"test", Audio>>
  /\ UNCHANGED <<vars, busy, rxVars, undef>>

Test(h) ==
  /\ recv = <<"test", h>>
  /\ IF rx[h] = "none" THEN AfterReceive(h) ELSE Go("receive", h)
  /\ UNCHANGED <<vars, busy, rxVars, undef>>

(* receive_rtp_packet: the plain one until m_reorder is set.  The first    *)
(* call puts a packet into the list, datagrams follow once there is a      *)
(* buffer for them, and packets come out when the list is full.            *)
Receive(h) ==
  /\ recv = <<"receive", h>>
  /\ undef' = (rx[h] \in {"reorder", "failed", "deleted"})
  /\ \/ /\ rx[h] \in {"transmitter", "bound", "ready"} /\ list[h] = 0
        /\ list' = [list EXCEPT ![h] = 1] /\ AfterReceive(h)
     \/ /\ rx[h] = "ready" /\ list[h] \in 1..(ReorderLen - 1)
        /\ list' = [list EXCEPT ![h] = @ + 1] /\ AfterReceive(h)
     \/ /\ rx[h] = "ready" /\ list[h] = ReorderLen
        /\ IF h = Video THEN Go("push", h) ELSE AfterReceive(h)
        /\ UNCHANGED list
     \/ /\ ~(rx[h] \in {"transmitter", "bound", "ready"} /\ list[h] = 0)
        /\ AfterReceive(h) /\ UNCHANGED list
  /\ UNCHANGED <<vars, busy, rx, done, videoVars>>

(* push_packet of an assembler that is not initialised returns false; a    *)
(* packet that completes a unit needs the buffer.                          *)
Push(h) ==
  /\ recv = <<"push", h>>
  /\ \E unit \in BOOLEAN :
       undef' = \/ rx[h] = "deleted" \/ assembler = "none"
                \/ unit /\ assembler = "ready" /\ ~buffer
  /\ AfterReceive(h)
  /\ UNCHANGED <<vars, busy, rxVars>>

Pinhole(h) ==
  /\ recv = <<"pinhole", h>>
  /\ IF rx[h] = "none" THEN AfterSend(h) ELSE Go("send", h)
  /\ UNCHANGED <<vars, busy, rxVars, undef>>

SendPinhole(h) ==
  /\ recv = <<"send", h>>
  /\ undef' = (rx[h] \in {"new", "reorder", "failed", "deleted"})
  /\ AfterSend(h)
  /\ UNCHANGED <<vars, busy, rxVars>>

----------------------------------------------------------------------------
(* The rest of the pool's life: see PortManager. *)
Others ==
  /\ \/ Initialize
     \/ busy = "idle" /\ \E h \in Senders : Close(h)
     \/ busy = "idle" /\ \E p \in Ports : ReleasePort(p)
     \/ \E p \in Ports : OtherBind(p) \/ OtherClose(p)
  /\ UNCHANGED userVars

WsNext ==
  \/ Search \/ SenderBind \/ NewAssembler \/ InitAssembler \/ NewBuffer
  \/ EraseUser \/ Erased
  \/ \E h \in Sockets : Begin(h)
  \/ \E h \in Receivers :
       \/ NewReceiver(h) \/ SetReorder(h) \/ NewTransmitter(h)
       \/ BindReceiver(h) \/ Ready(h) \/ Initialized(h) \/ DeleteReceiver(h)
       \/ ExitFlag(h) \/ Failed(h) \/ Destroy(h)

RecvNext ==
  \/ RecvLock
  \/ \E h \in Receivers :
       Test(h) \/ Receive(h) \/ Push(h) \/ Pinhole(h) \/ SendPinhole(h)

Halt == undef /\ UNCHANGED allVars

UserNext == \/ Halt
            \/ ~undef /\ (WsNext \/ RecvNext \/ Others)

UserSpec == UserInit /\ [][UserNext]_allVars

(* The ws thread does not stop in the middle of its work. *)
FairUserSpec == UserSpec /\ WF_allVars(~undef /\ busy # "idle" /\ WsNext)

----------------------------------------------------------------------------
(* Whenever initialize has returned, however many of its steps failed, a   *)
(* receiver is there with everything the receive functions use, its socket *)
(* and its flag, or nothing of it is; no socket is left without an owner.  *)
AllOrNothing ==
  \A h \in Receivers : busy \notin {h, "erase"} =>
    /\ rx[h] \in {"none", "ready"}
    /\ done[h] <=> rx[h] = "ready"
    /\ (sock[h] # NoPort) <=> rx[h] = "ready"
    /\ h = Video => /\ buffer <=> rx[h] = "ready"
                    /\ assembler = IF rx[h] = "ready" THEN "ready" ELSE "none"

(* initialize does not take m_receive_mutex, and the recv thread may find  *)
(* a receiver half built or deleted: but only the very one that the ws     *)
(* thread is initialising at that moment, not the other receiver of the    *)
(* user, not after initialize has returned and not while a user leaves.    *)
RaceOnlyInInitialize ==
  [][undef' /\ ~undef => recv[2] = busy /\ ~done[busy]]_allVars

(* A call of initialize, with the loop of get_udp_port in it, comes to its *)
(* end however other processes take ports and give them back, and so does  *)
(* the removal of a user, unless the threads have met.                     *)
InitializeReturns == busy # "idle" ~> busy = "idle" \/ undef
=============================================================================
