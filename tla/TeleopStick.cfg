CONSTANTS
  Haptics = {}
  Shared = FALSE
  MaxUnread <- const_MaxUnread
SPECIFICATION FairSpec
PROPERTY RobotFollowsStick
