SPECIFICATION AnsweredSpec
CONSTANTS
  MSG_ID_INVALID = 4
  BATCH_ID_INVALID = 1
  GrowBy = 2
  Channels = {c1}
  Calls = {"subscribe"}
  ClientIds = {k1}
  NULL = NULL
  Advices = {"retry"}
  HandshakeOutcomes = {"success"}
  StrayIds = FALSE
  ObjectsApart = FALSE
  MaxCalled = 2
  MaxQueued = 3
  MaxOpen = 2
  MaxIds = 20
  MaxBatches = 20
INVARIANTS ClientIdAdded InFlightMarked HandshakeIndexLive
PROPERTIES ConnectRenewed WaitingIsSent
CHECK_DEADLOCK FALSE
