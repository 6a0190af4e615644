SPECIFICATION MCSpec
CONSTANTS
  MSG_ID_INVALID = 3
  BATCH_ID_INVALID = 4
  GrowBy = 2
  SendErrors = TRUE
  StrayIds = TRUE
  MaxQueued = 3
  MaxPushed = 4
  MaxIssued = 5
  Base = 4
  Digits = 2
  ULong = 256
  Missing = Missing
  UIntModulus = 1048576
  Lengths = {0, 63, 1023, 2047, 4093}
  MaxLength = 9000
  NIL = NIL
  Names = {n1, n2}
  Callbacks = {f, g}
  NULL = NULL
  ChannelGrowBy = 1
  FirstCapacity = 1
  Alignment = 4
  MaxPerChannel = 3
INVARIANTS InOrder SlotsFit IdsDistinct TextFits ResponseFits IdRoundTrip ListsFit
PROPERTIES MailSpec RequestIsBatch BusSpec
CHECK_DEADLOCK FALSE
