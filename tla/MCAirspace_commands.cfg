SPECIFICATION FairSpec
CONSTANTS
  Planes = {1}
  NoPlane = 0
  Capacity = 2
  ArrivalTime <- MCArrival
  InitialPosition <- MCPosition
  InitialSpeed <- MCSpeed
  LowerBoundary <- MCLower
  UpperBoundary <- MCUpper
  AttachMayFail = TRUE
  HeaderBits = {TRUE, FALSE}
  Commands <- MCCommands
  MaxCommands = 2
  MaxTick = 0
INVARIANTS
  NobodyAbandoned
  PositionsInAirspace
PROPERTIES
  SendersReturn
  ShutdownCompletes
