SPECIFICATION SysSpec
CONSTANTS
  Topics <- MCTopics
  Publishes <- MCPublishes
  Mortal <- MCNone
  ModeRequests <- MCNone
  InitialMode = "teleop"
  LinearDeadband = 1
  AngularDeadband = 2
  CommandTimeout = 0
  ReconnectInterval = 0
  QDepth = 1
  MaxFaults = 0
  MaxStops = 1
  AcksMayBeLost = TRUE
  MaxOdomStarts = 1
PROPERTY OdometryRestsWithVehicle
