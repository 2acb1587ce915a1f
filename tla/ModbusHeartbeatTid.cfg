SPECIFICATION Spec
CONSTANTS
  HeartbeatLen = 34
  Filler = 17
  UnitId = 1
  ControlAddr = 4
  Values <- MCOnlyStop
  FirstTid = 47871
  MaxWrites = 2
  MaxBeats = 1
  MaxFaults = 0
  MaxAbandons = 0
PROPERTY WriteGetsThrough
CHECK_DEADLOCK FALSE
