SPECIFICATION FairSpec
CONSTANTS
  MAX_PROC = 2
  NumRes = 1
  Total <- MCAmple
  MaxPid = 2
  Apps <- MCAppsLight
  Managers = {}
  AutoStart <- NoAutoStart
PROPERTIES LowLevelServed
