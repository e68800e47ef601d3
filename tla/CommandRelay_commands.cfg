SPECIFICATION FairSpec
CONSTANTS
  Planes = {p1}
  NoPlane = none
  Kinds = {"command", "time_constraint", "bad", "exit"}
  MaxLines = 3
  AttachMayFail = TRUE
INVARIANTS
  ExecutedInOrder
  OneLateMessage
  EndsOnlyUnused
PROPERTIES
  ImplementsLossyFifo
  CommandsSettle
CHECK_DEADLOCK FALSE
