SPECIFICATION Spec
CONSTANTS
  Keys <- MCKeys
  DeadmanTimeout = 2
  MaxPresses = 4
PROPERTY StopKeyIsRead
