---------------------------- MODULE TaskScheduler ----------------------------
(***************************************************************************)
(* The Task Scheduler (apps/taskscheduler.c): a timer calls check_tasks,   *)
(* which runs a modal dialog for each task that is due inside its loop, so *)
(* that the loop may go on many minutes after it read the time.            *)
(***************************************************************************)
EXTENDS Integers, Sequences

CONSTANTS
  MAX_TASKS,  \* entries of tasks
  MINUTES     \* minutes of a day

ASSUME TaskSchedulerAssumption == MAX_TASKS \in Nat /\ MINUTES \in Nat \ {0}

MinuteOfDay == 0 .. MINUTES - 1
SchedTask == [due : MinuteOfDay, active : BOOLEAN]

VARIABLES
  minute,  \* what time() would return
  tasks,   \* the first task_cnt entries
  tm,      \* the minute that the last check_tasks read
  at,      \* i, while the dialog of tasks[i] is open; 0 between two checks
  seen     \* history: task_cnt when that check began

taskVars == <<minute, tasks, tm, at, seen>>

TasksTypeOK ==
  /\ minute \in MinuteOfDay
  /\ tasks \in Seq(SchedTask) /\ Len(tasks) <= MAX_TASKS
  /\ tm \in MinuteOfDay
  /\ at \in {0} \cup DOMAIN tasks
  /\ seen \in 0 .. Len(tasks)

TasksInit ==
  /\ minute \in MinuteOfDay
  /\ tasks = << >>
  /\ tm = minute
  /\ at = 0
  /\ seen = 0

-----------------------------------------------------------------------------
NextMinute ==
  /\ minute' = (minute + 1) % MINUTES
  /\ UNCHANGED <<tasks, tm, at, seen>>

\* The loop from task first on, in minute m, up to its next dialog or its end.
Announce(first, m) ==
  LET due == {j \in first .. Len(tasks) : tasks[j].active /\ tasks[j].due = m}
  IN  \/ due = {} /\ at' = 0 /\ UNCHANGED tasks
      \/ \E i \in due :
           /\ \A j \in due : i <= j
           /\ at' = i
           /\ tasks' = [tasks EXCEPT ![i].active = FALSE]

CheckTasks ==
  /\ at = 0
  /\ tm' = minute
  /\ seen' = Len(tasks)
  /\ Announce(1, minute)
  /\ UNCHANGED minute

TimeReadAgain == minute
TimeOfLoop == tm

CloseTaskDialog ==
  /\ at > 0
  /\ Announce(at + 1, TimeOfLoop)
  /\ UNCHANGED <<minute, tm, seen>>

AddTask(m) ==
  /\ at = 0 /\ Len(tasks) < MAX_TASKS
  /\ tasks' = Append(tasks, [due |-> m, active |-> TRUE])
  /\ UNCHANGED <<minute, tm, at, seen>>

TasksNext ==
  \/ NextMinute \/ CheckTasks \/ CloseTaskDialog
  \/ \E m \in MinuteOfDay : AddTask(m)

-----------------------------------------------------------------------------
\* A check, however long its dialogs stay open, announces all the tasks of the
\* minute it began in, not of those it ended in.  (taskscheduler.c:8-21)
DueTasksAnnounced ==
  at = 0 => \A i \in 1 .. seen : tasks[i].due = tm => ~tasks[i].active
=============================================================================
