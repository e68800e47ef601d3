SPECIFICATION Spec
CONSTANTS
  Planes = {1, 2, 3}
  NoPlane = 0
  Capacity = 3
  Snapshots <- MCSnapshots
  LastTime = 0
  Constraint <- MCConstraint
  PairsPerMessage = 2
  TimeConstraint = 4
INVARIANTS
  TypeOK
  ReadsInBounds
  UndisturbedRead
  AlertNamesEachPairOnce
PROPERTIES
  WaitEndsWithPlanes
  StopsOnEmptyRound
  TerminatedWithCause
  ReadingProgresses
CHECK_DEADLOCK FALSE
