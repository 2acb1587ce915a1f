SPECIFICATION Spec
CONSTANTS
  HEAD1 = 9
  HEAD2 = 2
  RX_MAX_LEN = 8
  BYTES = 10
  Needed <- MCNeeded
  Reports <- MCReports
  Stray <- MCStray
  MaxSent = 3
  MaxDamage = 2
  MaxLine = 1
CHECK_DEADLOCK FALSE
INVARIANTS TypeOK FrameEnds BackInStep
PROPERTY ImplementsFrameLink
