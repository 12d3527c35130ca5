CONSTANTS
  QueueMax <- const_QueueMax
  Hotplug = FALSE
  MaxAvail <- const_MaxAvail
  Ids = 2
SPECIFICATION FairSpec
PROPERTY StatusTruthful
