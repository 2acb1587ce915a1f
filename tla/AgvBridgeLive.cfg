SPECIFICATION Spec
CONSTANTS
  Topics <- MCTopics
  Publishes <- MCPublishes
  Mortal <- MCTopics
  ModeRequests <- MCToNav
  InitialMode = "teleop"
  LinearDeadband = 1
  AngularDeadband = 2
  CommandTimeout = 1
  ReconnectInterval = 1
  QDepth = 1
  MaxFaults = 2
  MaxStops = 0
  AcksMayBeLost = TRUE
PROPERTY WatchdogStops
PROPERTY SendReturns
PROPERTY ModeAdopted
