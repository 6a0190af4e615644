SPECIFICATION FairSpec
CONSTANTS
  MSG_ID_INVALID = 3
  BATCH_ID_INVALID = 1
  GrowBy = 2
  Channels = {c1}
  Calls = {"subscribe"}
  ClientIds = {k1}
  NULL = NULL
  Advices = {"retry"}
  HandshakeOutcomes = {"success"}
  StrayIds = FALSE
  ObjectsApart = FALSE
  MaxCalled = 1
  MaxQueued = 3
  MaxOpen = 2
  MaxIds = 20
  MaxBatches = 20
  Requests = {r1, r2}
  Watches = {{}, {"in"}}
  Outcomes = {"array", "none"}
  RequestFails = TRUE
  MaxLost = 1
INVARIANT OutboxDriven
PROPERTIES QueuedIsSent HandshakeCompletes
CHECK_DEADLOCK FALSE
