SPECIFICATION Spec
CONSTANTS
  HeartbeatLen = 9
  Filler = 17
  UnitId = 1
  ControlAddr = 4
  Values <- MCValues
  FirstTid = 65535
  MaxWrites = 2
  MaxBeats = 2
  MaxFaults = 1
  MaxAbandons = 1
INVARIANT TypeOK
INVARIANT StaysInStep
INVARIANT ReplyIsFound
INVARIANT SuccessIsDone
PROPERTY WriteGetsThrough
CHECK_DEADLOCK FALSE
