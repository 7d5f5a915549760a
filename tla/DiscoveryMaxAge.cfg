CONSTANTS
  root = root
  service = service
  other = other
  None = None
  Targets = {root, service}
  ALL <- MCAll
  Configs <- MCConfigs
  Searches <- MCSearches
  Interval = 2
  TicksPerSecond = 1
  MaxU32 = 100
  MAX_DATAGRAM_LEN = 2
  Delay = 1
  Late = 1
  Wait = 3
  MaxTime = 8
  MaxStarts = 2
  MaxSearches = 1
  MaxLost = 1
  MaxUpsets = 2
SPECIFICATION Spec
INVARIANT OneLossTolerated
CHECK_DEADLOCK FALSE
