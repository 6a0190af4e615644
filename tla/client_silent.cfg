SPECIFICATION FairSpec
CONSTANTS
  MSG_ID_INVALID = 4
  BATCH_ID_INVALID = 1
  GrowBy = 2
  Channels = {c1}
  Calls = {"publish"}
  ClientIds = {k1}
  NULL = NULL
  Advices = {"retry"}
  HandshakeOutcomes = {"success"}
  StrayIds = FALSE
  ObjectsApart = FALSE
  MaxCalled = 2
  MaxQueued = 3
  MaxOpen = 2
  MaxIds = 20
  MaxBatches = 20
PROPERTY SilenceEndsConnect
CHECK_DEADLOCK FALSE
