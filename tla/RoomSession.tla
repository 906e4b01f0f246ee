----------------------------- MODULE RoomSession -----------------------------
(***************************************************************************)
(* A session of LiveMeetingRoom as the embedding program is promised it:   *)
(* the room is started, rooms of the server are entered and left, and it   *)
(* is stopped.  Media is received only in between, it has ended before     *)
(* anything is given up, and senders that are given up are not there again *)
(* before the next start.  A start is not one step: messages are handled   *)
(* before it has made the senders.                                         *)
(***************************************************************************)
EXTENDS Naturals

VARIABLES
  phase,     \* off, on, leaving a room (left: its media and its senders are
             \* gone), or stopping
  starting,  \* is a start still to make the senders?
  room,      \* the identity held (numbered by the server), 0 for none
  media,     \* is media being received?
  send       \* the senders: none, idle or ready

sessionVars == <<phase, starting, room, media, send>>

SessionInit ==
  /\ phase = "off" /\ starting = FALSE
  /\ room = 0 /\ media = FALSE /\ send = "none"

(* A start finds the identity that the stop before it has left. *)
Start ==
  /\ phase = "off" /\ phase' = "on"
  /\ starting' = TRUE
  /\ UNCHANGED <<room, media, send>>

(* A start makes the senders once, whatever the session has come to. They  *)
(* stay unusable when that fails, or when a leave has deleted one of them. *)
MakeSenders ==
  /\ starting /\ starting' = FALSE
  /\ send = "none" /\ send' \in {"none", "idle"}
  /\ UNCHANGED <<phase, room, media>>

(* A room that is entered is newer than the one that is held, so that a    *)
(* late answer never brings an older one back.  Entering starts the media  *)
(* and readies the senders, unless that fails or there are none.           *)
Enter ==
  /\ phase = "on"
  /\ room' \in Nat /\ room' > room
  /\ media' \in BOOLEAN /\ (media => media')
  /\ send' = send \/ (send = "idle" /\ send' = "ready")
  /\ UNCHANGED <<phase, starting>>

BeginLeave ==
  phase = "on" /\ phase' = "leaving" /\ UNCHANGED <<starting, room, media, send>>

BeginStop ==
  /\ phase = "on" /\ phase' = "stopping" /\ ~starting
  /\ UNCHANGED <<starting, room, media, send>>

EndMedia ==
  /\ phase \in {"leaving", "stopping"}
  /\ media /\ media' = FALSE
  /\ UNCHANGED <<phase, starting, room, send>>

DropSenders ==
  /\ phase = "leaving" /\ ~media
  /\ phase' \in {"leaving", "left"}
  /\ send' = "none"
  /\ UNCHANGED <<starting, room, media>>

EndLeave ==
  /\ phase = "left" /\ ~media /\ send # "ready"
  /\ phase' = "on" /\ room' = 0
  /\ UNCHANGED <<starting, media, send>>

(* A stop keeps the identity. *)
EndStop ==
  /\ phase = "stopping" /\ ~media
  /\ phase' = "off" /\ send' = "none"
  /\ UNCHANGED <<starting, room, media>>

SessionNext == \/ Start \/ MakeSenders \/ Enter \/ BeginLeave \/ BeginStop
               \/ EndMedia \/ DropSenders \/ EndLeave \/ EndStop

SessionSpec == SessionInit /\ [][SessionNext]_sessionVars
=============================================================================
