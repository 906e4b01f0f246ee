\* Packets of three bytes: units that fit, that together fill a packet exactly
\* and that take three fragments; three frames, so that a damaged one, a merged
\* one and an intact one can follow each other.  Of the aggregations the
\* receiver's buffer takes one whole, cuts one at the end of a unit and another
\* within one.  m_h264_rtp_buffer does not hold the larger frames, the builder's
\* buffer does not take the largest.
SPECIFICATION Spec
CONSTANTS
  RtpPayloadSize = 3
  PacketsBufferSize = 19
  HeaderSize = 2
  RtpRecvBufferSize = 9
  RecvBufferSize = 9
  NaluLens = {1, 2, 4}
  MaxNalus = 3
  MaxFrames = 3
  MaxOnWire = 0
INVARIANTS IntactAfterMarker OneDeliveryPerMarker OverfullAfterExactFill
