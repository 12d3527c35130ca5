CONSTANTS
  Haptics = {h1, h2}
  Shared = TRUE
  MaxUnread <- const_MaxUnread
SPECIFICATION FairSpec
INVARIANTS TeleopTypeOK ShutdownStopsRobot DisconnectedRobotStands MotorsHaveOwner
PROPERTIES UnplugStopsRobot Reconnects PulseIsTimed
