SPECIFICATION Spec
CONSTANTS
  MSG_ID_INVALID = 30
  BATCH_ID_INVALID = 31
  GrowBy = 2
  Channels = {c1}
  Calls = {"publish", "subscribe", "unsubscribe"}
  ClientIds = {k1}
  NULL = NULL
  Advices = {"retry", "handshake"}
  HandshakeOutcomes = {"success"}
  StrayIds = FALSE
  ObjectsApart = FALSE
  MaxCalled = 2
  MaxQueued = 3
  MaxOpen = 2
  MaxIds = 5
  MaxBatches = 5
INVARIANT InFlightMarked
CHECK_DEADLOCK FALSE
