SPECIFICATION ChannelsSpec
CONSTANTS
  Names = {n1, n2}
  Callbacks = {f, g}
  NULL = NULL
  ChannelGrowBy = 1
  FirstCapacity = 1
  Alignment = 4
  MaxPerChannel = 3
PROPERTY PromisedSpec
CHECK_DEADLOCK FALSE
