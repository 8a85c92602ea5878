SPECIFICATION FairSpec
CONSTANTS
  MAX_PROC = 2
  NumRes = 1
  Total <- MCAmple
  MaxPid = 2
  Apps <- MCAppsLight
  Managers = {m1}
  AutoStart <- MCAutoStart
PROPERTIES HighLevelServed NormalLevelServed
