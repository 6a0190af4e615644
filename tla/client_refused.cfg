SPECIFICATION Spec
CONSTANTS
  MSG_ID_INVALID = 30
  BATCH_ID_INVALID = 31
  GrowBy = 2
  Channels = {c1}
  Calls = {"publish", "subscribe", "unsubscribe"}
  ClientIds = {k1}
  NULL = NULL
  Advices = {"retry"}
  HandshakeOutcomes = {"success", "failure"}
  StrayIds = FALSE
  ObjectsApart = FALSE
  MaxCalled = 2
  MaxQueued = 3
  MaxOpen = 2
  MaxIds = 4
  MaxBatches = 4
INVARIANT ClientIdAdded
CHECK_DEADLOCK FALSE
