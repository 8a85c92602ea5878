------------------------------- MODULE TojiOS -------------------------------
(***************************************************************************)
(* The running system (main.c): the kernel's main thread starts the two    *)
(* system processes and then one program per click; the dispatcher thread  *)
(* runs beside it; the manager programs, once launched, kill processes in  *)
(* the shared table.  Nothing but the private mutexes orders them.         *)
(***************************************************************************)
EXTENDS Process, Functions

CONSTANT AutoStart   \* the processes main() creates before the desktop

ASSUME TojiOSAssumption ==
  /\ AutoStart \in Seq(Apps)
  /\ \A i \in DOMAIN AutoStart : ~AutoStart[i].manages

VARIABLES
  boot,      \* what main() still has to create
  overlap,   \* history: two programs were once inside their locked sections
  killed,    \* history: terminate_process once removed a PCB
  crossed    \* history: two managers were once inside terminate_process

historyVars == <<overlap, killed, crossed>>
vars == <<sharedVars, schedVars, kernelVars, managerVars, boot, historyVars>>

Init ==
  /\ SharedInit
  /\ SchedInit
  /\ ProcessInit
  /\ boot = AutoStart
  /\ overlap = FALSE
  /\ killed = FALSE
  /\ crossed = FALSE

TypeOK ==
  /\ ProcessTypeOK
  /\ SchedTypeOK
  /\ boot \in Seq(Apps)
  /\ overlap \in BOOLEAN
  /\ killed \in BOOLEAN
  /\ crossed \in BOOLEAN

-----------------------------------------------------------------------------
(* main()                                                                  *)

AutoStartNext ==
  /\ boot # << >>
  /\ CreateProcess(Head(boot))
  /\ UNCHANGED boot

\* main() ignores what create_process returned.
AutoStartReturn ==
  /\ boot # << >>
  /\ kpc \in {"created", "denied"}
  /\ kpc' = "idle"
  /\ boot' = Tail(boot)
  /\ ForgetCall
  /\ UNCHANGED <<sharedVars, schedVars, managerVars>>

OnAppClick(a) ==
  /\ boot = << >>
  /\ CreateProcess(a)
  /\ UNCHANGED boot

DeniedDialog ==
  /\ boot = << >>
  /\ kpc = "denied"
  /\ kpc' = "idle"
  /\ ForgetCall
  /\ UNCHANGED <<boot, sharedVars, schedVars, managerVars>>

\* The second fork, and exec: the program comes up some time later.  fork
\* can fail and execl can fail; nobody looks, and the PCB stays.
LaunchApp ==
  /\ boot = << >>
  /\ kpc = "created"
  /\ kpc' = "idle"
  /\ \/ UNCHANGED mpc
     \/ /\ kapp.manages
        /\ \E m \in Managers :
             mpc[m] = "off" /\ mpc' = [mpc EXCEPT ![m] = "idle"]
  /\ ForgetCall
  /\ UNCHANGED <<boot, sharedVars, schedVars, mpid, mslot, mres, mreg>>

-----------------------------------------------------------------------------
KernelSteps == AutoStartReturn \/ DeniedDialog \/ LaunchApp
                 \/ (CreateSteps /\ UNCHANGED boot)

Clicks ==
  \/ AutoStartNext
  \/ \E a \in Apps : OnAppClick(a)
  \/ \E m \in Managers, pid \in 1 .. MaxPid :
       KillSelected(m, pid) /\ UNCHANGED boot

\* The dispatcher is a thread of the kernel process and ends with it.
DispatcherSteps ==
  kpc # "crashed" /\ Dispatcher /\ UNCHANGED <<kernelVars, managerVars, boot>>

ManagerSteps(m) == TerminateSteps(m) /\ UNCHANGED boot

\* Who holds its own res_mutex and is about to change the table.
KernelInside == kpc \in {"bump", "fill", "load", "store"}
ManagerInside(m) == mpc[m] \notin {"off", "idle", "crashed"}
ManagersCross ==
  \E m, n \in Managers : m # n /\ ManagerInside(m) /\ ManagerInside(n)
Overlapping ==
  \/ KernelInside /\ \E m \in Managers : ManagerInside(m)
  \/ ManagersCross

History ==
  /\ overlap' = (overlap \/ Overlapping')
  /\ killed' = (killed \/ \E m \in Managers : mpc'[m] = "copy")
  /\ crossed' = (crossed \/ ManagersCross')

Step ==
  \/ Clicks
  \/ KernelSteps
  \/ DispatcherSteps
  \/ \E m \in Managers : ManagerSteps(m)

Next == Step /\ History

Spec == Init /\ [][Next]_vars

\* Linux runs every thread that is ready to run.  Users need not click, and
\* a wakeup nobody asked for need not come.
Fairness ==
  /\ WF_vars(KernelSteps /\ History)
  /\ WF_vars(DispatcherSteps /\ ~(disp = "wait") /\ History)
  /\ \A m \in Managers : WF_vars(ManagerSteps(m) /\ History)

FairSpec == Spec /\ Fairness

-----------------------------------------------------------------------------
(* The resource table.                                                     *)

\* The slots whose processes hold resources, as the table's promise counts
\* them: a creation counts from its last store, a termination from the move
\* of the last PCB.
HoldingSlots ==
  {i \in Slots :
     /\ \/ i < proc_count
        \/ \E m \in Managers : mpc[m] = "copy" /\ mreg[m] = i
     /\ ~(kpc \in {"fill", "load", "store"} /\ i = kslot)}

Charged(r) == IF kpc \in {"load", "store"} /\ r < kres THEN kapp.req[r] ELSE 0

Returning(m, r) ==
  \/ mpc[m] \in {"load", "store"} /\ r < mres[m]
  \/ mpc[m] \in {"drop", "newcount", "copy"}

Returned(r) ==
  IF \E m \in Managers : Returning(m, r)
  THEN LET m == CHOOSE m \in Managers : Returning(m, r)
       IN  procs[mslot[m]].req[r]
  ELSE 0

Free == [r \in Res |-> avail[r] + Charged(r) - Returned(r)]

Held == {<<procs[i].pid, procs[i].req>> : i \in HoldingSlots}

\* The pid is taken in the middle of a creation.
Issued == IF kpc \in {"load", "store"} THEN next_pid - 2 ELSE next_pid - 1

Promise == INSTANCE ResourceTable WITH
  free <- Free, held <- Held, issued <- Issued, broken <- overlap

\* create_process and terminate_process, step by step, are an admission and
\* a release done at once, as long as no two programs were ever inside their
\* res_mutex sections together.  (process.c:12-58, 95-114)
AtomicTable == Promise!Spec

\* What the programs that list the table see of it.
SeenChange ==
  IF kpc = "fill" THEN [kind |-> "fill", slot |-> kslot]
  ELSE IF \E m \in Managers : mpc[m] = "copy"
  THEN [kind |-> "move",
        slot |-> mslot[CHOOSE m \in Managers : mpc[m] = "copy"]]
  ELSE [kind |-> "none", slot |-> 0]

Seen == INSTANCE Readers WITH
  MAX_ROWS <- MAX_PROC, MAX_PIDS <- MaxPid,
  pids <- [i \in Slots |-> procs[i].pid], count <- proc_count,
  issued <- IF kpc = "fill" THEN next_pid ELSE next_pid - 1,
  change <- SeenChange,
  walk <- "off", list <- << >>, before <- << >>, crossed <- {}

\* What create_process and terminate_process store in the table, in the order
\* in which they store it, is what Readers lets its two writers do, one row at
\* a time, as long as no two programs were inside their sections together.
\* (process.c:42-46, 109-110)
WrittenAsRead ==
  /\ Seen!ReadersInit
  /\ [][overlap' \/ Seen!WritersNext]_(Seen!tableVars)

\* When nobody is inside, what is available and what the listed processes
\* were given add up to the machine.
Balanced ==
  \A r \in Res :
    avail[r] + SumFunctionOnSet([i \in Slots |-> procs[i].req[r]],
                                0 .. (proc_count - 1)) = Total[r]

AtRest == ~KernelInside /\ \A m \in Managers : ~ManagerInside(m)

\* No overlap ever happened, so no unit of any resource was lost or given
\* out twice.  (process.c:42-56, 102-110)
Accounting == AtRest /\ ~overlap => Balanced

\* What the README says of the same table: the proviso is gone.
SharedSafely == AtRest => Balanced

\* banker_check drops res_mutex before the resources are taken, and the kernel
\* and a manager may undo each other's updates, yet what is available does not
\* go below zero until two managers are inside terminate_process together.
\* Then it can: one loads 0, the other adds 2, the check passes, the first one
\* stores 1, and the kernel takes 2.  (process.c:14, 29, 54-56, 104-106)
NoOverdraft == ~crossed => \A r \in Res : avail[r] >= 0

-----------------------------------------------------------------------------
(* The scheduler.                                                          *)

\* The dispatcher never sleeps on sched_cond while a queue has an entry.
\* (scheduler.c:29, 38-39)
NoLostWakeup == disp = "wait" => \A l \in Level : queue[l] = << >>

Dispatched(i) == disp \in {"start", "run", "requeue", "putback"} /\ cur = i

\* Where the pointers to slot i are: positions in the queues, and 0 for the
\* dispatcher.
Pointers(i) ==
  {p \in Level \X (1 .. MAX_PROC) :
     p[2] \in DOMAIN queue[p[1]] /\ queue[p[1]][p[2]] = i}
    \cup {p \in {<<0, 0>>} : Dispatched(i)}

\* The slot the kernel is still creating a process in.
Unfinished(i) ==
  i = kslot /\ kpc \in {"fill", "load", "store", "ready", "enqueue"}

\* Until the first termination, every admitted process of a round-robin level
\* has one pointer, on its own level or with the dispatcher, and one of the
\* high level at most one.  (scheduler.c:26-28, 83-89)
ScheduledOnce ==
  ~killed => \A i \in 0 .. (proc_count - 1) : ~Unfinished(i) =>
    /\ Cardinality(Pointers(i)) <= 1
    /\ procs[i].priority \in {2, 3} => Pointers(i) # {}
    /\ \A p \in Pointers(i) : p[1] \in {0, procs[i].priority}

Running(i) == procs[i].state = "RUNNING"

\* Until the first termination, the process shown as RUNNING is the one the
\* dispatcher runs.  (scheduler.c:71, 83-84)
RunningIsCurrent ==
  ~killed => \A i \in 0 .. (proc_count - 1) :
               Running(i) <=> (disp \in {"run", "requeue"} /\ cur = i)

\* The shutdown button comes through: pthread_cond_destroy waits for a
\* dispatcher that is asleep on sched_cond, but as long as there is a process
\* of a round-robin level and none was terminated, it never is.
\* (main.c:102, sync.c:13, scheduler.c:38-39, 86-87)
ShutdownComesThrough ==
  /\ ~killed
  /\ \E i \in 0 .. (proc_count - 1) :
       procs[i].priority \in {2, 3} /\ ~Unfinished(i)
  => disp # "wait"

InQueue(i, l) == \E n \in DOMAIN queue[l] : queue[l][n] = i

\* The first-come-first-served level: every entry is dispatched, whatever the
\* users and the other levels do.  (scheduler.c:43-47)
HighLevelServed == \A i \in Slots : InQueue(i, 1) ~> Dispatched(i)

\* Once the high level stays empty, every entry of the normal level gets its
\* quantum: the tail it goes back to is behind all the others.
\* (scheduler.c:48-52, 86)
NormalLevelServed ==
  <>[](queue[1] = << >>) =>
    \A i \in Slots : InQueue(i, 2) ~> Dispatched(i)

\* README.md:38: "always services the highest non-empty level first,
\* preventing starvation".
LowLevelServed == \A i \in Slots : InQueue(i, 3) ~> Dispatched(i)

\* scheduler.c:81: "re-enqueue if still alive".  A PCB the dispatcher decides
\* to put back is one of the table, nobody being about to change the table.
ReenqueuedAlive ==
  [][AtRest /\ disp = "run" /\ disp' = "requeue" => cur < proc_count]_vars

\* scheduler.c:85: "Round Robin levels re-enter the queue at the tail".  A
\* process of such a level always has an entry, or the dispatcher has it.
RoundRobinKept ==
  kpc = "idle" /\ AtRest /\ ~overlap =>
    \A i \in 0 .. (proc_count - 1) :
      procs[i].priority \in {2, 3} => Pointers(i) # {}
=============================================================================
