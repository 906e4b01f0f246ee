------------------------------ MODULE H264Stream ------------------------------
(***************************************************************************)
(* One H.264 video stream from the application that sends a frame to the   *)
(* callback that gets it: RTPH264PacketBuilder cuts the NAL units of a     *)
(* frame into RTP packets, RTPSessionVideo::send_h264_data marks the last  *)
(* one and sends them, the network loses some, and RoomUser::receive_video *)
(* puts the rest together again with RTPH264FrameAssembler.                *)
(*                                                                         *)
(* The packets reach receive_video in the order they were sent: that is    *)
(* what RTPSessionReceiver is for, see ReorderReceiver.  The packet which  *)
(* its first call drops is one of the lost ones here.                      *)
(*                                                                         *)
(* A byte of a NAL unit is known by where it comes from, <<frame, unit,    *)
(* position>>; position 1 is the NAL header.  A start code, of three or    *)
(* four bytes, is one symbol.                                              *)
(***************************************************************************)
EXTENDS Naturals, Sequences, SequencesExt

CONSTANTS
  RtpPayloadSize,     \* RTP_PAYLOAD_SIZE
  PacketsBufferSize,  \* RTP_PACKETS_BUFFER_SIZE, of the builder
  HeaderSize,         \* sizeof(RTPHeader) + sizeof(RTPExtensionHeader)
  RtpRecvBufferSize,  \* RTP_RECV_BUFFER_SIZE, of RTPSessionReceiver
  RecvBufferSize,     \* RTP_H264_RECV_BUFFER_SIZE, of RoomUser
  NaluLens,           \* the lengths of NAL units that are tried
  MaxNalus,           \* bound: NAL units in a frame
  MaxFrames,          \* bound: frames that are sent
  MaxOnWire           \* bound: packets on their way when a frame is sent

\* A fragment holds at least a byte besides the two of its FU header, and a
\* packet of RTP_PAYLOAD_SIZE bytes fits into the receiver's buffer.
ASSUME SizeAssumption ==
  /\ RtpPayloadSize \in Nat /\ RtpPayloadSize > 2
  /\ PacketsBufferSize \in Nat /\ HeaderSize \in Nat /\ RecvBufferSize \in Nat
  /\ RtpRecvBufferSize \in Nat /\ HeaderSize + RtpPayloadSize <= RtpRecvBufferSize
  /\ NaluLens \subseteq Nat \ {0}
  /\ MaxNalus \in Nat /\ MaxFrames \in Nat /\ MaxOnWire \in Nat

VARIABLES
  sent,       \* every frame given to send_h264_data: its units and the number
              \* of its packets, none when they do not fit
  wire,       \* the packets on their way
  arrived,    \* <<frame, index>> of the packets that receive_video was given
  frame,      \* m_buffer of the assembler, up to m_buffer_used_len
  rtpBuffer,  \* m_h264_rtp_buffer, up to m_h264_rtp_buffer_used_len
  delivered   \* what m_h264_callback was called with

vars == <<sent, wire, arrived, frame, rtpBuffer, delivered>>

StartCode == <<0, 0, 0>>

Init ==
  /\ sent = <<>> /\ wire = <<>> /\ arrived = {}
  /\ frame = <<>> /\ rtpBuffer = <<>> /\ delivered = <<>>

-------------------------------------------------------------------------------
(* The packet builder.  What is built so far: the units that wait for a    *)
(* packet (tmp, totalLen), the packets, the bytes of m_rtp_buffer they     *)
(* take, and whether all of them fitted.                                   *)

\* The bytes of a packet behind its RTP headers; an aggregation has one byte
\* of its own and two for the size of each unit, a fragment has two.
PayloadSize(p) ==
  LET bytes == Len(FlattenSeq(p.units)) IN
  CASE p.kind = "single" -> bytes
    [] p.kind = "stapa"  -> bytes + 1 + 2 * Len(p.units)
    [] OTHER             -> bytes + 2

\* The end of the data the builder reckons with before it writes a packet:
\* for the last unit of an aggregation it leaves its two size bytes out.
ReckonedSize(p) == IF p.kind = "stapa" THEN PayloadSize(p) - 2 ELSE PayloadSize(p)

AddPacket(b, p) ==
  IF b.ok /\ b.used + HeaderSize + ReckonedSize(p) < PacketsBufferSize
  THEN [b EXCEPT !.packets = Append(@, p), !.used = @ + HeaderSize + PayloadSize(p)]
  ELSE [b EXCEPT !.ok = FALSE]

\* build_packet: one unit as it is, several as a STAP-A.
BuildPacket(b) ==
  LET kind == IF Len(b.tmp) = 1 THEN "single" ELSE "stapa"
      p    == [kind |-> kind, units |-> b.tmp, nal |-> Head(Head(b.tmp))]
  IN  IF b.tmp = <<>> THEN b
      ELSE [AddPacket(b, p) EXCEPT !.tmp = <<>>, !.totalLen = 0]

\* The fragments of a unit: its header goes into every FU header, the bytes
\* behind it are cut up.
Fragments(nalu) ==
  LET size  == RtpPayloadSize - 2
      data  == Tail(nalu)
      count == (Len(data) + size - 1) \div size
      End(i) == IF i * size < Len(data) THEN i * size ELSE Len(data)
  IN  [i \in 1 .. count |->
         [kind  |-> IF i = 1 THEN "start" ELSE IF i = count THEN "end" ELSE "middle",
          units |-> <<SubSeq(data, (i - 1) * size + 1, End(i))>>,
          nal   |-> Head(nalu)]]

BuildFuaPacket(b, nalu) == FoldLeft(AddPacket, b, Fragments(nalu))

\* Mutant of AddNalu: the sum is compared with <= .
AddNaluOneMore(b, nalu) ==
  LET len == Len(nalu) IN
  IF len > RtpPayloadSize
  THEN BuildFuaPacket(BuildPacket(b), nalu)
  ELSE IF b.totalLen < RtpPayloadSize /\ RtpPayloadSize + 1 < b.totalLen + len
  THEN [BuildPacket(b) EXCEPT !.tmp = <<nalu>>, !.totalLen = len]
  ELSE [b EXCEPT !.tmp = Append(@, nalu), !.totalLen = @ + len]

\* A round of the loop of receive_rtp_packets.
AddNalu(b, nalu) ==
  LET len == Len(nalu) IN
  IF len > RtpPayloadSize
  THEN BuildFuaPacket(BuildPacket(b), nalu)
  ELSE IF b.totalLen < RtpPayloadSize /\ RtpPayloadSize < b.totalLen + len
  THEN [BuildPacket(b) EXCEPT !.tmp = <<nalu>>, !.totalLen = len]
  ELSE [b EXCEPT !.tmp = Append(@, nalu), !.totalLen = @ + len]

\* receive_rtp_packets: every packet of a frame, or ok is FALSE.
ReceiveRtpPackets(nalus) ==
  BuildPacket(FoldLeft(AddNalu,
    [tmp |-> <<>>, totalLen |-> 0, packets |-> <<>>, used |-> 0, ok |-> TRUE],
    nalus))

-------------------------------------------------------------------------------
(* The sender.                                                             *)

\* What send_data finds between the start codes of the frame it is given.
Nalus(f, lens) == [n \in DOMAIN lens |-> [k \in 1 .. lens[n] |-> <<f, n, k>>]]

\* The packets as send_h264_data sends them, the last one with the marker.
Marked(f, packets) ==
  [i \in DOMAIN packets |->
     [kind  |-> packets[i].kind,  units |-> packets[i].units,
      nal   |-> packets[i].nal,   id    |-> <<f, i>>,
      marker |-> i = Len(packets)]]

\* send_h264_data: nothing is sent when the packets do not fit into the
\* buffer of the builder; otherwise n of them go out, all unless sending
\* failed after the n-th.
SendH264Data ==
  LET f == Len(sent) + 1 IN
  /\ f <= MaxFrames /\ Len(wire) <= MaxOnWire
  /\ \E k \in 1 .. MaxNalus : \E lens \in [1 .. k -> NaluLens] :
       LET nalus == Nalus(f, lens)
           built == ReceiveRtpPackets(nalus)
           count == Len(built.packets)
       IN  IF built.ok
           THEN /\ sent' = Append(sent, [nalus |-> nalus, count |-> count])
                /\ \E n \in 0 .. count :
                     wire' = wire \o SubSeq(Marked(f, built.packets), 1, n)
           ELSE /\ sent' = Append(sent, [nalus |-> <<>>, count |-> 0])
                /\ wire' = wire
  /\ UNCHANGED <<arrived, frame, rtpBuffer, delivered>>

\* The network loses a packet.
Lose ==
  /\ wire # <<>>
  /\ wire' = Tail(wire)
  /\ UNCHANGED <<sent, arrived, frame, rtpBuffer, delivered>>

-------------------------------------------------------------------------------
(* The receiver.  recvfrom leaves out what does not fit into the buffer of *)
(* RTPSessionReceiver; only an aggregation can be that large.  (On Windows *)
(* recvfrom then fails, and the packet is one of the lost ones.)           *)

Whole(p) == HeaderSize + PayloadSize(p) <= RtpRecvBufferSize

\* The room for an aggregation, and what it takes up to its n-th unit.
Room == RtpRecvBufferSize - HeaderSize
UpTo(p, n) == 1 + 2 * n + Len(FlattenSeq(SubSeq(p.units, 1, n)))

\* get_stapa_frame meets the size of a unit which the datagram ends within:
\* "invalid format".
Refused(p) ==
  /\ p.kind = "stapa" /\ ~Whole(p)
  /\ \E n \in DOMAIN p.units : UpTo(p, n - 1) + 2 < Room /\ Room < UpTo(p, n)

\* The units that get_stapa_frame finds.
UnitsRead(p) ==
  IF Whole(p) THEN p.units
  ELSE FlattenSeq([n \in DOMAIN p.units |->
                     IF UpTo(p, n) <= Room THEN <<p.units[n]>> ELSE <<>>])

AnnexB(units) == FlattenSeq([n \in DOMAIN units |-> <<StartCode>> \o units[n]])

\* Mutant of PushPacket: the first fragment is appended as well.
PushPacketAppends(p) ==
  CASE p.kind = "single" -> AnnexB(p.units)
    [] p.kind = "stapa"  -> IF Refused(p) THEN <<>> ELSE AnnexB(UnitsRead(p))
    [] p.kind = "start"  -> frame \o <<StartCode, p.nal>> \o p.units[1]
    [] OTHER             -> frame \o p.units[1]

\* m_buffer after push_packet: a fragment that is not the first one goes
\* behind whatever the buffer holds, an aggregation that is refused leaves
\* it empty.
PushPacket(p) ==
  CASE p.kind = "single" -> AnnexB(p.units)
    [] p.kind = "stapa"  -> IF Refused(p) THEN <<>> ELSE AnnexB(UnitsRead(p))
    [] p.kind = "start"  -> <<StartCode, p.nal>> \o p.units[1]
    [] OTHER             -> frame \o p.units[1]

\* The packet ends a unit or holds whole ones.
Ends(p) == p.kind \notin {"start", "middle"}

\* Mutant of Pushed: get_stapa_frame goes on after an invalid format.
PushedRefused(p) == Ends(p)

\* push_packet returns true.
Pushed(p) == Ends(p) /\ ~Refused(p)

\* receive_video with a packet for which push_packet returns true.
ReceiveUnits ==
  /\ wire # <<>> /\ Pushed(Head(wire))
  /\ LET p    == Head(wire)
         data == PushPacket(p)
         kept == IF Len(rtpBuffer) + Len(data) >= RecvBufferSize THEN <<>> ELSE rtpBuffer
     IN  /\ frame' = data
         /\ IF p.marker
            THEN /\ delivered' = Append(delivered, [frame |-> p.id[1], data |-> kept \o data])
                 /\ rtpBuffer' = <<>>
            ELSE /\ rtpBuffer' = kept \o data
                 /\ UNCHANGED delivered
         /\ arrived' = arrived \union {p.id}
  /\ wire' = Tail(wire)
  /\ UNCHANGED sent

\* receive_video with a packet for which push_packet returns false, a fragment
\* that does not end its unit or an aggregation that is refused: the marker is
\* not looked at and m_h264_rtp_buffer stays as it is.
ReceiveNothing ==
  /\ wire # <<>> /\ ~Pushed(Head(wire))
  /\ frame' = PushPacket(Head(wire))
  /\ arrived' = arrived \union {Head(wire).id}
  /\ wire' = Tail(wire)
  /\ UNCHANGED <<sent, rtpBuffer, delivered>>

Done == Len(sent) = MaxFrames /\ wire = <<>> /\ UNCHANGED vars

Next == SendH264Data \/ Lose \/ ReceiveUnits \/ ReceiveNothing \/ Done

Spec == Init /\ [][Next]_vars

-------------------------------------------------------------------------------
(* Properties.                                                             *)

LastPacket(f) == <<f, sent[f].count>>

\* The packets of a frame as the builder made them.
Packets(s) == ReceiveRtpPackets(s.nalus).packets

Reached(f) == \E a \in arrived : a[1] = f

\* The packet with the frame's marker arrived, and push_packet took it.
MarkerTaken(f) ==
  LastPacket(f) \in arrived /\ ~Refused(Packets(sent[f])[sent[f].count])

\* All of the frame reached receive_video, no packet of it was cut, and the
\* frame before it of which anything did was brought to its end.
CleanlyReceived(f) ==
  /\ sent[f].count > 0
  /\ \A i \in 1 .. sent[f].count : <<f, i>> \in arrived /\ Whole(Packets(sent[f])[i])
  /\ \A g \in 1 .. f - 1 :
       Reached(g) /\ (\A h \in g + 1 .. f - 1 : ~Reached(h)) => MarkerTaken(g)

\* Whatever was lost, cut or refused before, a frame whose packets all arrive
\* and fit into the receiver's buffer is handed to the callback unit by unit
\* and byte by byte as it was sent, once the previous marker has been taken: no
\* fragment of a damaged unit, no remainder of either buffer and no boundary
\* of the packets gets into it.
IntactAfterMarker ==
  \A f \in DOMAIN sent :
    CleanlyReceived(f) /\ Len(AnnexB(sent[f].nalus)) < RecvBufferSize
    => [frame |-> f, data |-> AnnexB(sent[f].nalus)] \in ToSet(delivered)

\* The callback is called once for each frame whose last packet arrives, in
\* the order of the frames, and for no other: the packet with the marker
\* completes a unit, however the sizes fall.  The one exception is an
\* aggregation that the builder made larger than the receiver's buffer and
\* recvfrom cut within a unit: its marker is ignored, and the frame's
\* remains go into the next delivery.
OneDeliveryPerMarker ==
  /\ \A i, j \in DOMAIN delivered : i < j => delivered[i].frame < delivered[j].frame
  /\ {delivered[i].frame : i \in DOMAIN delivered} = {f \in DOMAIN sent : MarkerTaken(f)}

\* A packet carries more of a frame than RTP_PAYLOAD_SIZE bytes (what STAP-A
\* and FU-A add left out of account) only when its first units fill it
\* exactly: receive_rtp_packets then goes on collecting, without a limit.
OverfullAfterExactFill ==
  \A i \in DOMAIN wire :
    LET units == wire[i].units IN
    Len(FlattenSeq(units)) > RtpPayloadSize =>
      \E n \in 1 .. Len(units) - 1 :
        Len(FlattenSeq(SubSeq(units, 1, n))) = RtpPayloadSize
===============================================================================
