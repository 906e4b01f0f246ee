SPECIFICATION Spec
CONSTANTS
  Peers = {p1}
  Me = me
  MaxSession = 2
  Limit = 1
  MaxChan = 1
  MaxConn = 2
  AppOps = {"create", "pull", "stop_pull", "exit", "heartbeat"}
  MayFail = TRUE
INVARIANTS ReceiveThreadTracked ReceiversOnlyForKnownUsers TornDown SendersInitTogether
PROPERTIES UsersStableWhileReceiving LeaveCleans ImplementsSession
