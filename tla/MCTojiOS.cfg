SPECIFICATION Spec
CONSTANTS
  MAX_PROC = 2
  NumRes = 1
  Total <- MCTotal
  MaxPid = 3
  Apps <- MCApps
  Managers = {m1}
  AutoStart <- MCAutoStart
INVARIANTS TypeOK Accounting NoOverdraft NoLostWakeup ScheduledOnce RunningIsCurrent
           ShutdownComesThrough
PROPERTIES WrittenAsRead
