SPECIFICATION FairSpec
CONSTANTS
  UsPerMs = 2
  MsPerS = 2
  Strings = {"handshake", "none", "retry", "other"}
  Intervals <- ServerIntervals
  Interval = 3
  Timeout = 2
  Steps = {1, 3}
  NULL = NULL
INVARIANT TypeOK
PROPERTIES NoneStopsLoop ConnectTimerRunsOut StartsOver
