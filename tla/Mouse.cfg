CONSTANTS
  Buttons = {LS}
  Pixel <- const_Pixel
  Deflections <- const_Deflections
  NULL = NULL
  MaxUnread <- const_MaxUnread
SPECIFICATION FairSpec
CHECK_DEADLOCK FALSE
INVARIANTS MouseTypeOK NothingHeldAtExit
PROPERTIES MovesWithStick ButtonsReleased MapperEnds
