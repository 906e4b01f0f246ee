SPECIFICATION FairSpec
CONSTANTS
  Peers = {p1}
  Me = me
  MaxSession = 2
  Limit = 1
  MaxChan = 1
  MaxConn = 1
  AppOps = {"join", "exit", "stop"}
  MayFail = FALSE
INVARIANTS TypeOK MembershipSound
PROPERTIES LeaveCompletes TeardownCompletes
