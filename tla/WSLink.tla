------------------------------- MODULE WSLink -------------------------------
(***************************************************************************)
(* The connection to the signalling server as LiveMeetingRoom is promised  *)
(* it by WSClient: it opens, brings the texts of the server one by one and *)
(* closes, and a new opening starts afresh.                                *)
(***************************************************************************)
EXTENDS Naturals, Sequences

VARIABLES
  up,    \* between MG_EV_WS_OPEN and MG_EV_CLOSE
  heard  \* the texts received since the last opening, numbered by the server

linkVars == <<up, heard>>

LinkInit == up = FALSE /\ heard = <<>>

Open    == ~up /\ up' = TRUE /\ heard' = <<>>
Deliver == up /\ heard' = Append(heard, Len(heard) + 1) /\ UNCHANGED up
Close   == up /\ up' = FALSE /\ UNCHANGED heard

LinkNext == Open \/ Deliver \/ Close

LinkSpec == LinkInit /\ [][LinkNext]_linkVars
=============================================================================
