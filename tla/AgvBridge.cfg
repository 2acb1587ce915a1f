SPECIFICATION Spec
CONSTANTS
  Topics <- MCTopics
  Publishes <- MCPublishes
  Mortal <- MCNone
  ModeRequests <- MCModeRequests
  InitialMode = "teleop"
  LinearDeadband = 1
  AngularDeadband = 2
  CommandTimeout = 1
  ReconnectInterval = 1
  QDepth = 1
  MaxFaults = 2
  MaxStops = 1
  AcksMayBeLost = TRUE
INVARIANT TypeOK
INVARIANT BelievedIsReal
INVARIANT RetryGuardIsDead
PROPERTY SwitchOnlyStopped
