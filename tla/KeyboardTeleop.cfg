SPECIFICATION Spec
CONSTANTS
  Keys <- MCKeys
  DeadmanTimeout = 2
  MaxPresses = 4
INVARIANT TypeOK
INVARIANT KeysInOrder
INVARIANT MotionIsWatched
PROPERTY DeadmanStops
PROPERTY StopKeyStops
