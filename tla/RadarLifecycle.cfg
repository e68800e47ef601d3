SPECIFICATION Spec
CONSTANTS
  Timers = {"Radar"}
  Planes = {1, 2, 3}
  MaxPulses = 2
INVARIANTS
  CrashHasCause
  ChannelClosed
PROPERTIES
  OnlyEarlyTurnedAway
  SenderReleased
  ShutdownEnds
CHECK_DEADLOCK FALSE
