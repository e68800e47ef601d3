SPECIFICATION FairSpec
CONSTANTS
  Planes = {1, 2}
  NoPlane = 0
  Capacity = 2
  Snapshots <- MCTwoSnapshots
  LastTime = 0
  Constraint <- MCConstraint
  PairsPerMessage = 2
  TimeConstraint = 4
PROPERTIES
  ReadingEnds
  StandingConflictShown
CHECK_DEADLOCK FALSE
