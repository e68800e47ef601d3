SPECIFICATION Spec
CONSTANTS
  Planes = {1, 2}
  NoPlane = 0
  Capacity = 2
  ArrivalTime <- MCArrival
  InitialPosition <- MCPosition
  InitialSpeed <- MCSpeed
  LowerBoundary <- MCLower
  UpperBoundary <- MCUpper
  AttachMayFail = TRUE
  HeaderBits = {TRUE, FALSE}
  Commands <- NoCommands
  MaxCommands = 0
  MaxTick = 1
INVARIANTS
  TypeOK
  RadarView
  RadarOutlivesAircraft
  PictureOfLastRound
  PictureFits
  EmptinessPublished
  ClearedForGood
PROPERTIES
  ImplementsWriter
