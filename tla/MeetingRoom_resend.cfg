SPECIFICATION Spec
CONSTANTS
  Peers = {p1}
  Me = me
  MaxSession = 2
  Limit = 1
  MaxChan = 2
  MaxConn = 1
  AppOps = {"join", "exit"}
  MayFail = FALSE
INVARIANTS InRoomCanSend
