SPECIFICATION FairSpec
CONSTANTS
  Requests = {r1, r2}
  Watches = {{}, {"in"}, {"out"}, {"in", "out"}}
  Outcomes = {"array", "other", "none"}
  RequestFails = TRUE
INVARIANTS TypeOK TransferHasWakeup NothingLeftUnread SocketEventMatches
PROPERTY EveryRequestReported
CHECK_DEADLOCK FALSE
