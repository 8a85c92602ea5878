SPECIFICATION Spec
CONSTANTS
  MAX_PROC = 2
  NumRes = 1
  Total <- MCTotal
  MaxPid = 3
  Apps <- MCApps
  Managers = {m1}
  AutoStart <- NoAutoStart
INVARIANTS RoundRobinKept
