SPECIFICATION Spec
CONSTANTS
  Planes = {1, 2}
  NoPlane = 0
  Capacity = 2
  ArrivalTime <- MCNow
  InitialPosition <- MCPosition
  InitialSpeed <- MCSpeed
  LowerBoundary <- MCLower
  UpperBoundary <- MCUpper
  AttachMayFail = FALSE
  HeaderBits = {TRUE, FALSE}
  Commands <- NoCommands
  MaxCommands = 0
  MaxTick = 0
INVARIANTS
  OnlyAircraftListed
