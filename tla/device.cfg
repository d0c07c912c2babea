SPECIFICATION DeviceSpec
CONSTANTS
  Settings = {s1}
  Workers = {w1}
  NULL = NULL
  Mixed = Mixed
  MaxDrift = 1
INVARIANTS
  DeviceTypeOK
  FailedProbeHoldsNothing
  ExitReturnsEverything
  
  InterruptFindsChannels
  HandlerGetsOwnData
PROPERTIES
  QueuedForAnOwner
  InterruptReachesHandler
  RemovalReturns
CHECK_DEADLOCK FALSE
