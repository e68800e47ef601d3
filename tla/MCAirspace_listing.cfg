SPECIFICATION FairSpec
CONSTANTS
  Planes = {1, 2}
  NoPlane = 0
  Capacity = 2
  ArrivalTime <- MCNow
  InitialPosition <- MCPosition
  InitialSpeed <- MCHover
  LowerBoundary <- MCLower
  UpperBoundary <- MCSmallUpper
  AttachMayFail = FALSE
  HeaderBits = {FALSE}
  Commands <- NoCommands
  MaxCommands = 0
  MaxTick = 0
PROPERTIES
  FlyingIsListed
  DepartedDisappears
