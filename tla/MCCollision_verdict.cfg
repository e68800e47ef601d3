SPECIFICATION Spec
CONSTANTS
  Planes = {1}
  NoPlane = 0
  Constraint <- MCConstraint
  PairsPerMessage = 1
  Tested <- MCTested
  TimeConstraints <- MCTimeConstraints
  MaxChanges = 1
INVARIANTS
  UndisturbedVerdict
  OnlyPassingMisjudged
CHECK_DEADLOCK FALSE
