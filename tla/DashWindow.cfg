CONSTANTS
  TIMING_HISTORY <- const_TIMING_HISTORY
  CIRC_HISTORY <- const_CIRC_HISTORY
  Ids <- const_Ids
  None = None
  Pulses = {p1, p2}
  Settings <- const_Settings
SPECIFICATION FairSpec
INVARIANTS WindowTypeOK IntervalsOfConnection ResetHolds MotorsHaveHolder
PROPERTY PulseReported
CHECK_DEADLOCK FALSE
