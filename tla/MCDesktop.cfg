SPECIFICATION FairSpec
CONSTANTS
  MAX_PROC = 2
  MaxPid = 3
  AutoStarted = 1
INVARIANTS TypeOK ProgramsAdmitted KernelModeByButton ButtonTellsMode
PROPERTIES GrantBeforeFork DesktopReturns
