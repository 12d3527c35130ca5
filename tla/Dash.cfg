CONSTANTS
  QueueMax <- const_QueueMax
  Hotplug = TRUE
  MaxAvail <- const_MaxAvail
  Ids = 2
SPECIFICATION FairSpec
INVARIANTS DashTypeOK QueueIsNewest StatusCatchesUp SampleShown
PROPERTIES ReaderStops Reconnects
