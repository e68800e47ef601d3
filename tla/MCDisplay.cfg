SPECIFICATION FairSpec
CONSTANTS
  Planes = {1, 2}
  NoPlane = 0
  Capacity = 2
  Snapshots <- MCSnapshots
  LastTime = 0
  DISPLAY_INTERVAL_S = 2
  LOG_INTERVAL_S = 4
INVARIANTS
  UndisturbedView
  LogMatchesView
  LogNotOverdue
PROPERTIES
  StandingPictureShown
CHECK_DEADLOCK FALSE
