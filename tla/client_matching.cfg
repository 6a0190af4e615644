SPECIFICATION Spec
CONSTANTS
  MSG_ID_INVALID = 30
  BATCH_ID_INVALID = 31
  GrowBy = 2
  Channels = {c1}
  Calls = {"publish", "subscribe", "unsubscribe"}
  ClientIds = {k1}
  NULL = NULL
  Advices = {"retry", "handshake", "none"}
  HandshakeOutcomes = {"success", "failure", "malformed"}
  StrayIds = FALSE
  ObjectsApart = TRUE
  MaxCalled = 2
  MaxQueued = 3
  MaxOpen = 2
  MaxIds = 4
  MaxBatches = 4
INVARIANTS TypeOK SingleConnect ParallelArrays UniqueIds RepliesRouted MarkedIsOnWire FlushedIsHeld NoLostWakeup OutboxDriven
PROPERTY RetryKept
CHECK_DEADLOCK FALSE
