SPECIFICATION Spec
CONSTANTS
  MAX_PROC = 1
  NumRes = 2
  Total <- MCTotalManagers
  MaxPid = 3
  Apps <- MCAppsManagers
  m1 = m1
  m2 = m2
  Managers = {m1, m2}
  AutoStart <- NoAutoStart
SYMMETRY ManagerSymmetry
PROPERTIES AtomicTable
