SPECIFICATION ChannelsSpec
CONSTANTS
  Names = {n1}
  Callbacks = {f}
  NULL = NULL
  ChannelGrowBy = 64
  FirstCapacity = 4
  Alignment = 16
  MaxPerChannel = 17
INVARIANT ListsFit
CHECK_DEADLOCK FALSE
