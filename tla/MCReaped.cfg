SPECIFICATION Spec
CONSTANTS
  MAX_PROC = 2
  MaxPid = 3
  AutoStarted = 1
PROPERTIES ReapsImmediateChild
