---------------------------- MODULE TojiOSProofs ----------------------------
(***************************************************************************)
(* Theorems about TojiOS.                                                  *)
(***************************************************************************)
EXTENDS TojiOS, FiniteSetTheorems, TLAPS

\* Where terminate_process has found the PCB it was asked for.
FoundPC == {"load", "store", "drop", "newcount", "copy"}

\* TypeOK is not inductive: the stores of terminate_process also need their
\* index and their new count to be those of a slot.
SlotsFound ==
  \A m \in Managers :
    /\ mpc[m] \in FoundPC => mslot[m] \in Slots
    /\ mpc[m] \in {"newcount", "copy"} => mreg[m] < MAX_PROC

TypeInv == TypeOK /\ SlotsFound

LEMMA NoCallType == NoCall \in Apps
  BY ProcessAssumption DEF NoCall

\* Push keeps the queues what they are.
LEMMA PushType ==
  ASSUME SchedTypeOK, NEW l \in Level, NEW i \in Slots
  PROVE  /\ Push(l, i) \in [Level -> Seq(Slots)]
         /\ \A k \in Level : Len(Push(l, i)[k]) <= MAX_PROC
  BY MiniOSAssumption DEF Push, SchedTypeOK

\* Setting the state of a PCB leaves a PCB.
LEMMA StateType ==
  ASSUME procs \in [Slots -> Process], NEW i \in Slots, NEW s \in PState
  PROVE  [procs EXCEPT ![i].state = s] \in [Slots -> Process]
  BY DEF Process

LEMMA TypeInit == Init => TypeInv
<1> SUFFICES ASSUME Init PROVE TypeInv
  OBVIOUS
<1>1. procs \in [Slots -> Process]
  <2>1. ZeroProcess \in Process
    BY DEF ZeroProcess, Process, Demand, PState
  <2>2. QED
    BY <2>1 DEF Init, SharedInit
<1>2. avail \in [Res -> Int]
  BY MiniOSAssumption DEF Init, SharedInit
<1>3. /\ proc_count \in Int /\ proc_count <= MAX_PROC
      /\ next_pid \in Nat \ {0}
  BY MiniOSAssumption DEF Init, SharedInit
<1>4. kpc \in KernelPC /\ kapp \in Apps /\ kslot \in Slots /\ kres \in Res
        /\ kreg \in Int
  BY MiniOSAssumption, NoCallType DEF Init, ProcessInit, KernelPC, Slots, Res
<1>5. /\ mpc \in [Managers -> ManagerPC] /\ mpid \in [Managers -> Nat]
      /\ mslot \in [Managers -> 0 .. MAX_PROC] /\ mres \in [Managers -> Res]
      /\ mreg \in [Managers -> Int]
  BY MiniOSAssumption DEF Init, ProcessInit, ManagerPC, Res
<1>6. SchedTypeOK
  BY MiniOSAssumption DEF Init, SchedInit, SchedTypeOK, DispState, Slots
<1>7. SlotsFound
  BY DEF Init, ProcessInit, SlotsFound, FoundPC
<1>8. QED
  BY <1>1, <1>2, <1>3, <1>4, <1>5, <1>6, <1>7, TojiOSAssumption
  DEF Init, TypeInv, TypeOK, ProcessTypeOK

-----------------------------------------------------------------------------
(* Every action keeps the types.                                           *)

KernelTypes == ProcessTypeOK /\ SchedTypeOK /\ SlotsFound

LEMMA CallType ==
  ASSUME KernelTypes, NEW a \in Apps, CreateProcess(a)
  PROVE  KernelTypes'
  BY DEF KernelTypes, ProcessTypeOK, SchedTypeOK, SlotsFound, CreateProcess,
         KernelPC, sharedVars, schedVars, managerVars

LEMMA CreateType ==
  ASSUME KernelTypes, CreateSteps
  PROVE  KernelTypes'
<1> USE MiniOSAssumption DEF KernelTypes, ProcessTypeOK, SchedTypeOK,
      SlotsFound, KernelPC, sharedVars, schedVars, managerVars
<1>1. CASE ClaimSlot
  BY <1>1 DEF ClaimSlot
<1>2. CASE StoreCount
  BY <1>2 DEF StoreCount, Slots
<1>3. CASE FillSlot
  <2>1. [pid |-> next_pid, req |-> kapp.req, priority |-> kapp.priority,
         state |-> "NEW"] \in Process
    BY ProcessAssumption DEF Process, AppInfo, PState
  <2>2. QED
    BY <1>3, <2>1 DEF FillSlot
<1>4. CASE LoadAvail
  BY <1>4 DEF LoadAvail
<1>5. CASE StoreAvail
  <2>1. kapp.req \in [Res -> Nat]
    BY ProcessAssumption DEF AppInfo, Demand
  <2>2. avail' \in [Res -> Int]
    BY <1>5, <2>1 DEF StoreAvail, Taken
  <2>3. kres' \in Res
    BY <1>5 DEF StoreAvail, Taken, Res
  <2>4. QED
    BY <1>5, <2>2, <2>3 DEF StoreAvail, Taken
<1>6. CASE MarkReady
  BY <1>6, StateType DEF MarkReady, PState
<1>7. CASE Enqueue
  <2>1. QueueLevel(procs[kslot].priority) \in Level
    BY DEF QueueLevel, Level
  <2>2. QED
    BY <1>7, <2>1, PushType DEF Enqueue, AddToQueue, Signalled, DispState
<1>8. QED
  BY <1>1, <1>2, <1>3, <1>4, <1>5, <1>6, <1>7 DEF CreateSteps

LEMMA DispatcherType ==
  ASSUME KernelTypes, Dispatcher, UNCHANGED <<kernelVars, managerVars>>
  PROVE  KernelTypes'
<1> USE DEF KernelTypes, ProcessTypeOK, SchedTypeOK, SlotsFound, DispState,
      sharedVars, kernelVars, managerVars
<1>1. CASE WaitForWork
  BY <1>1 DEF WaitForWork
<1>2. CASE SpuriousWakeup
  BY <1>2 DEF SpuriousWakeup
<1>3. CASE GetNextProcess
  <2>1. PICK l \in Level : /\ queue[l] # << >>
                           /\ cur' = Head(queue[l])
                           /\ queue' = [queue EXCEPT ![l] = Tail(@)]
    BY <1>3 DEF GetNextProcess, LevelsAbove
  <2>2. queue[l] \in Seq(Slots) /\ Len(queue[l]) <= MAX_PROC
    OBVIOUS
  <2>3. cur' \in Slots /\ Tail(queue[l]) \in Seq(Slots)
          /\ Len(Tail(queue[l])) <= MAX_PROC
    BY <2>1, <2>2, MiniOSAssumption
  <2>4. QED
    BY <1>3, <2>1, <2>3 DEF GetNextProcess, LevelsAbove
<1>4. CASE StartQuantum
  BY <1>4, StateType DEF StartQuantum, PState
<1>5. CASE EndQuantum
  BY <1>5, MiniOSAssumption DEF EndQuantum, Slots
<1>6. CASE Preempt
  BY <1>6, StateType DEF Preempt, Preempted, PState
<1>7. CASE Requeue
  <2>2. cur' \in Slots
    BY <1>7, MiniOSAssumption DEF Requeue, Slots
  <2>3. queue' \in [Level -> Seq(Slots)] /\ \A l \in Level : Len(queue'[l]) <= MAX_PROC
    <3>1. CASE procs[cur].priority \in {2, 3}
      <4>1. procs[cur].priority \in Level /\ queue' = Push(procs[cur].priority, cur)
        BY <1>7, <3>1 DEF Requeue, Requeued, Level
      <4>2. QED
        BY <4>1, PushType
    <3>2. CASE procs[cur].priority \notin {2, 3}
      BY <1>7, <3>2 DEF Requeue, Requeued
    <3>3. QED
      BY <3>1, <3>2
  <2>4. QED
    BY <1>7, <2>2, <2>3 DEF Requeue
<1>8. QED
  BY <1>1, <1>2, <1>3, <1>4, <1>5, <1>6, <1>7 DEF Dispatcher

LEMMA KillType ==
  ASSUME KernelTypes, NEW m \in Managers, NEW pid \in 1 .. MaxPid,
         KillSelected(m, pid)
  PROVE  KernelTypes'
  BY MiniOSAssumption
  DEF KernelTypes, ProcessTypeOK, SchedTypeOK, SlotsFound, KillSelected,
      ManagerPC, FoundPC, sharedVars, schedVars, kernelVars

\* Not the last resource: there is a next one.
LEMMA NextRes ==
  ASSUME NEW r \in Res, r < NumRes
  PROVE  r + 1 \in Res
  BY MiniOSAssumption DEF Res

LEMMA TerminateType ==
  ASSUME KernelTypes, NEW m \in Managers, TerminateSteps(m)
  PROVE  KernelTypes'
<1> USE MiniOSAssumption DEF KernelTypes, ProcessTypeOK, SchedTypeOK,
      SlotsFound, ManagerPC, FoundPC, sharedVars, schedVars, kernelVars
<1>1. CASE ScanSlot(m)
  <2>1. CASE mslot[m] >= proc_count /\ Return(m)
    BY <1>1, <2>1 DEF ScanSlot, Return
  <2>2. CASE /\ mslot[m] < proc_count
             /\ mpc' = [mpc EXCEPT ![m] = "load"]
             /\ UNCHANGED <<mpid, mslot, mres, mreg>>
    BY <1>1, <2>2 DEF ScanSlot, Slots
  <2>3. CASE /\ mslot[m] < proc_count
             /\ mslot' = [mslot EXCEPT ![m] = @ + 1]
             /\ UNCHANGED <<mpc, mpid, mres, mreg>>
    BY <1>1, <2>3 DEF ScanSlot
  <2>4. QED
    BY <1>1, <2>1, <2>2, <2>3 DEF ScanSlot
<1>2. CASE LoadFreed(m)
  BY <1>2 DEF LoadFreed
<1>3. CASE StoreFreed(m)
  <2>1. procs[mslot[m]].req \in [Res -> Nat]
    BY <1>3 DEF StoreFreed, Process, Demand
  <2>2. avail' \in [Res -> Int]
    <3> DEFINE d == procs[mslot[m]].req
    <3>1. mreg[m] + d[mres[m]] \in Int
      <4>1. mres[m] \in Res /\ mreg[m] \in Int
        OBVIOUS
      <4>2. d[mres[m]] \in Nat
        BY <2>1, <4>1
      <4> HIDE DEF d
      <4>3. QED
        BY <4>1, <4>2
    <3>2. avail' = [avail EXCEPT ![mres[m]] = mreg[m] + d[mres[m]]]
      BY <1>3 DEF StoreFreed
    <3>3. QED
      BY <3>1, <3>2
  <2>3. mres' \in [Managers -> Res]
    <3>1. CASE mres[m] < NumRes /\ mres' = [mres EXCEPT ![m] = @ + 1]
      <4>1. mres[m] + 1 \in Res
        BY <3>1, NextRes
      <4>2. QED
        BY <3>1, <4>1
    <3>2. CASE mres' = [mres EXCEPT ![m] = 1]
      BY <3>2 DEF Res
    <3>3. QED
      BY <1>3, <3>1, <3>2 DEF StoreFreed
  <2>4. mpc' \in [Managers -> ManagerPC] /\ mreg' \in [Managers -> Int]
    <3>1. PICK s \in {"load", "drop"} : mpc' = [mpc EXCEPT ![m] = s]
      BY <1>3 DEF StoreFreed
    <3>2. mreg' = [mreg EXCEPT ![m] = 0]
      BY <1>3 DEF StoreFreed
    <3>3. QED
      BY <3>1, <3>2
  <2>5. SlotsFound'
    BY <1>3 DEF StoreFreed
  <2>6. UNCHANGED <<procs, proc_count, next_pid, mpid, mslot, schedVars,
                    kernelVars>>
    BY <1>3 DEF StoreFreed
  <2>7. QED
    BY <2>2, <2>3, <2>4, <2>5, <2>6
<1>4. CASE LoadCount(m)
  BY <1>4 DEF LoadCount
<1>5. CASE DropCount(m)
  BY <1>5 DEF DropCount
<1>6. CASE MoveLast(m)
  <2>1. procs' \in [Slots -> Process]
    BY <1>6 DEF MoveLast, Moved
  <2>2. CASE Return(m)
    BY <1>6, <2>1, <2>2 DEF MoveLast, Moved, Return
  <2>3. CASE /\ mpc' = [mpc EXCEPT ![m] = "crashed"]
             /\ UNCHANGED <<procs, mpid, mslot, mres, mreg>>
    BY <1>6, <2>3 DEF MoveLast, Moved
  <2>4. QED
    BY <1>6, <2>2, <2>3 DEF MoveLast, Moved
<1>7. QED
  BY <1>1, <1>2, <1>3, <1>4, <1>5, <1>6 DEF TerminateSteps

LEMMA ReturnType ==
  ASSUME KernelTypes, AutoStartReturn \/ DeniedDialog \/ LaunchApp
  PROVE  KernelTypes'
<1> USE MiniOSAssumption, NoCallType DEF KernelTypes, ProcessTypeOK,
      SchedTypeOK, SlotsFound, ForgetCall, KernelPC, ManagerPC, FoundPC, Slots,
      sharedVars, schedVars, managerVars
<1>1. CASE AutoStartReturn
  BY <1>1 DEF AutoStartReturn
<1>2. CASE DeniedDialog
  BY <1>2 DEF DeniedDialog
<1>3. CASE LaunchApp
  <2>1. mpc' \in [Managers -> ManagerPC] /\ SlotsFound'
    BY <1>3 DEF LaunchApp
  <2>2. QED
    BY <1>3, <2>1 DEF LaunchApp
<1>4. QED
  BY <1>1, <1>2, <1>3

LEMMA StepType == ASSUME KernelTypes, boot \in Seq(Apps), Step
                  PROVE  KernelTypes' /\ boot' \in Seq(Apps)
<1>1. CASE Clicks
  <2>1. CASE AutoStartNext
    <3>1. Head(boot) \in Apps
      BY <2>1 DEF AutoStartNext
    <3>2. QED
      BY <2>1, <3>1, CallType DEF AutoStartNext
  <2>2. ASSUME NEW a \in Apps, OnAppClick(a)
        PROVE  KernelTypes' /\ boot' \in Seq(Apps)
    BY <2>2, CallType DEF OnAppClick
  <2>3. ASSUME NEW m \in Managers, NEW pid \in 1 .. MaxPid,
               KillSelected(m, pid) /\ UNCHANGED boot
        PROVE  KernelTypes' /\ boot' \in Seq(Apps)
    BY <2>3, KillType
  <2>4. QED
    BY <1>1, <2>1, <2>2, <2>3 DEF Clicks
<1>2. CASE KernelSteps
  <2>1. KernelTypes'
    BY <1>2, ReturnType, CreateType DEF KernelSteps
  <2>2. boot' \in Seq(Apps)
    BY <1>2 DEF KernelSteps, AutoStartReturn, DeniedDialog, LaunchApp
  <2>3. QED
    BY <2>1, <2>2
<1>3. CASE DispatcherSteps
  BY <1>3, DispatcherType DEF DispatcherSteps
<1>4. CASE \E m \in Managers : ManagerSteps(m)
  BY <1>4, TerminateType DEF ManagerSteps
<1>5. QED
  BY <1>1, <1>2, <1>3, <1>4 DEF Step

LEMMA TypeNext == TypeInv /\ [Next]_vars => TypeInv'
<1> SUFFICES ASSUME TypeInv, [Next]_vars PROVE TypeInv'
  OBVIOUS
<1>1. CASE Next
  <2>1. KernelTypes' /\ boot' \in Seq(Apps)
    BY <1>1, StepType DEF Next, TypeInv, TypeOK, KernelTypes
  <2>2. overlap' \in BOOLEAN /\ killed' \in BOOLEAN /\ crossed' \in BOOLEAN
    BY <1>1 DEF Next, History
  <2>3. QED
    BY <2>1, <2>2 DEF TypeInv, TypeOK, KernelTypes
<1>2. CASE UNCHANGED vars
  BY <1>2 DEF TypeInv, TypeOK, ProcessTypeOK, SchedTypeOK, SlotsFound, vars,
    sharedVars, schedVars, kernelVars, managerVars, historyVars
<1>3. QED
  BY <1>1, <1>2

\* Every variable keeps to its domain; in particular no counter of the table
\* passes MAX_PROC and no queue gets longer than its array.  (process.c:36,
\* scheduler.c:26-28, 86-87)
THEOREM TypeCorrect == Spec => []TypeOK
<1>1. TypeInv => TypeOK
  BY DEF TypeInv
<1>2. QED
  BY <1>1, TypeInit, TypeNext, PTL DEF Spec

-----------------------------------------------------------------------------
(* The dispatcher's sleep.                                                 *)

\* signal is sent with every enqueue, under the mutex of the wait: the
\* dispatcher never sleeps beside an entry.  (scheduler.c:29, 38-39)
THEOREM NeverSleepsBesideWork == Spec => []NoLostWakeup
<1>1. Init => NoLostWakeup
  BY DEF Init, SchedInit, NoLostWakeup
<1>2. NoLostWakeup /\ [Next]_vars => NoLostWakeup'
  <2> SUFFICES ASSUME NoLostWakeup, [Next]_vars PROVE NoLostWakeup'
    OBVIOUS
  <2>1. CASE UNCHANGED schedVars
    BY <2>1 DEF NoLostWakeup, schedVars
  <2>2. CASE Enqueue
    BY <2>2 DEF NoLostWakeup, Enqueue, AddToQueue, Signalled
  <2>3. CASE Dispatcher
    BY <2>3 DEF NoLostWakeup, Dispatcher, WaitForWork, SpuriousWakeup,
      GetNextProcess, LevelsAbove, StartQuantum, EndQuantum, Preempt, Requeue
  <2>4. ASSUME Next PROVE UNCHANGED schedVars \/ Enqueue \/ Dispatcher
    <3>1. CASE Clicks
      BY <3>1 DEF Clicks, AutoStartNext, OnAppClick, CreateProcess, KillSelected
    <3>2. CASE KernelSteps
      BY <3>2 DEF KernelSteps, AutoStartReturn, DeniedDialog, LaunchApp,
        CreateSteps, ClaimSlot, StoreCount, FillSlot, LoadAvail, StoreAvail, Taken,
        MarkReady
    <3>3. CASE DispatcherSteps
      BY <3>3 DEF DispatcherSteps
    <3>4. CASE \E m \in Managers : ManagerSteps(m)
      BY <3>4 DEF ManagerSteps, TerminateSteps, ScanSlot, LoadFreed,
        StoreFreed, LoadCount, DropCount, MoveLast, Moved
    <3>5. QED
      BY <2>4, <3>1, <3>2, <3>3, <3>4 DEF Next, Step
  <2>5. CASE UNCHANGED vars
    BY <2>1, <2>5 DEF vars
  <2>6. QED
    BY <2>1, <2>2, <2>3, <2>4, <2>5
<1>3. QED
  BY <1>1, <1>2, PTL DEF Spec

-----------------------------------------------------------------------------
(* The Banker's check.                                                     *)

NoneNegative == \A r \in Res : avail[r] >= 0

\* Between banker_check and the last of the three subtractions the main
\* thread of the kernel is covered: nobody else takes away, and managers that
\* call terminate_process one at a time never write back less than there is.
Covered ==
  /\ NoneNegative
  /\ kpc \in {"claim", "bump", "fill"} => BankerCheck(kapp.req)
  /\ kpc \in {"load", "store"} =>
       \A r \in Res : r >= kres => avail[r] >= kapp.req[r]
  /\ kpc = "store" => kapp.req[kres] <= kreg /\ kreg <= avail[kres]
  /\ \A m \in Managers : mpc[m] = "store" => avail[mres[m]] <= mreg[m]

LEMMA CoveredCreate ==
  ASSUME TypeInv, Covered, CreateSteps
  PROVE  Covered'
<1> USE DEF Covered, NoneNegative, BankerCheck
<1>1. kapp.req \in [Res -> Nat] /\ kres \in Res /\ kreg \in Int
        /\ avail \in [Res -> Int]
  BY ProcessAssumption DEF TypeInv, TypeOK, ProcessTypeOK, AppInfo, Demand
<1>2. CASE ClaimSlot
  BY <1>2 DEF ClaimSlot, sharedVars, managerVars
<1>3. CASE StoreCount
  BY <1>3 DEF StoreCount, managerVars
<1>4. CASE FillSlot
  BY <1>4 DEF FillSlot, managerVars
<1>5. CASE LoadAvail
  BY <1>1, <1>5 DEF LoadAvail, sharedVars, managerVars, Res
<1>6. CASE StoreAvail
  <2>1. avail' = [avail EXCEPT ![kres] = kreg - kapp.req[kres]]
    BY <1>6 DEF StoreAvail, Taken
  <2>2. \A r \in Res : /\ avail'[r] \in Int
                       /\ avail'[r] >= 0
                       /\ avail'[r] <= avail[r]
                       /\ r # kres => avail'[r] = avail[r]
    BY <1>1, <1>6, <2>1 DEF StoreAvail, Taken
  <2>3. kpc' = "load" => \A r \in Res : r >= kres' => avail'[r] >= kapp'.req[r]
    BY <1>1, <1>6, <2>2 DEF StoreAvail, Taken, Res
  <2>4. \A m \in Managers : mpc'[m] = "store" => avail'[mres'[m]] <= mreg'[m]
    <3>1. mres \in [Managers -> Res] /\ mreg \in [Managers -> Int]
      BY DEF TypeInv, TypeOK, ProcessTypeOK
    <3>2. UNCHANGED <<mpc, mres, mreg>>
      BY <1>6 DEF StoreAvail, Taken, managerVars
    <3>3. SUFFICES ASSUME NEW m \in Managers, mpc'[m] = "store"
                   PROVE  avail'[mres'[m]] <= mreg'[m]
      OBVIOUS
    <3>4. avail[mres[m]] <= mreg[m] /\ mres[m] \in Res /\ mreg[m] \in Int
      BY <3>1, <3>2, <3>3
    <3>5. avail'[mres[m]] <= avail[mres[m]] /\ avail'[mres[m]] \in Int
            /\ avail[mres[m]] \in Int
      BY <1>1, <2>2, <3>4
    <3>6. QED
      BY <3>2, <3>4, <3>5
  <2>5. kpc' \in {"load", "ready"}
    BY <1>6 DEF StoreAvail, Taken
  <2>6. NoneNegative'
    BY <2>2
  <2>7. QED
    BY <2>3, <2>4, <2>5, <2>6
<1>7. CASE MarkReady
  BY <1>7 DEF MarkReady, managerVars
<1>8. CASE Enqueue
  BY <1>8 DEF Enqueue, sharedVars, managerVars
<1>9. QED
  BY <1>2, <1>3, <1>4, <1>5, <1>6, <1>7, <1>8 DEF CreateSteps

LEMMA CoveredTerminate ==
  ASSUME TypeInv, Covered, ~ManagersCross',
         NEW m \in Managers, TerminateSteps(m)
  PROVE  Covered'
<1> USE DEF Covered, NoneNegative, BankerCheck
<1>1. /\ avail \in [Res -> Int] /\ mpc \in [Managers -> ManagerPC]
      /\ mres \in [Managers -> Res] /\ mreg \in [Managers -> Int]
      /\ kapp.req \in [Res -> Nat] /\ kres \in Res /\ kreg \in Int
  BY ProcessAssumption DEF TypeInv, TypeOK, ProcessTypeOK, AppInfo, Demand
<1>2. \A n \in Managers : n # m => /\ mpc'[n] = mpc[n] /\ mres'[n] = mres[n]
                                   /\ mreg'[n] = mreg[n]
  BY <1>1 DEF TerminateSteps, ScanSlot, LoadFreed, StoreFreed, LoadCount, DropCount,
     MoveLast, Return
<1>3. CASE UNCHANGED <<avail, kernelVars>> /\ mpc'[m] # "store"
  <2>1. \A n \in Managers : mpc'[n] = "store" => avail'[mres'[n]] <= mreg'[n]
    BY <1>2, <1>3
  <2>2. QED
    BY <1>3, <2>1 DEF kernelVars
<1>4. CASE LoadFreed(m)
  <2>1. \A n \in Managers : mpc'[n] = "store" => avail'[mres'[n]] <= mreg'[n]
    BY <1>1, <1>2, <1>4 DEF LoadFreed, sharedVars
  <2>2. QED
    BY <1>4, <2>1 DEF LoadFreed, sharedVars, kernelVars
<1>5. CASE StoreFreed(m)
  <2>1. mpc[m] = "store" /\ mslot[m] \in Slots
    BY <1>5 DEF StoreFreed, TypeInv, SlotsFound, FoundPC
  <2>2. procs[mslot[m]].req \in [Res -> Nat]
    BY <2>1 DEF TypeInv, TypeOK, ProcessTypeOK, Process, Demand
  <2>3. \A r \in Res : avail'[r] >= avail[r] /\ avail'[r] \in Int
    BY <1>1, <1>5, <2>1, <2>2 DEF StoreFreed
  <2>4. mpc'[m] \in {"load", "drop"} /\ UNCHANGED kernelVars
    BY <1>1, <1>5 DEF StoreFreed
  <2>5. \A n \in Managers : mpc'[n] # "store"
    BY <2>4 DEF ManagersCross, ManagerInside
  <2>6. QED
    BY <1>1, <2>3, <2>4, <2>5 DEF kernelVars
<1>6. QED
  <2>1. CASE ScanSlot(m)
    BY <1>1, <1>3, <2>1 DEF ScanSlot, Return, sharedVars
  <2>2. CASE LoadCount(m)
    BY <1>1, <1>3, <2>2 DEF LoadCount, sharedVars
  <2>3. CASE DropCount(m)
    BY <1>1, <1>3, <2>3 DEF DropCount
  <2>4. CASE MoveLast(m)
    BY <1>1, <1>3, <2>4 DEF MoveLast, Moved, Return
  <2>5. QED
    BY <1>4, <1>5, <2>1, <2>2, <2>3, <2>4 DEF TerminateSteps

\* It holds as long as no two managers were inside together.
CoveredRule == ~crossed => Covered

\* Whatever the kernel and the managers do to the counters, none goes below
\* zero before two managers are inside terminate_process together, although
\* banker_check lets go of res_mutex long before the resources are taken.
\* (process.c:14, 29, 54-56, 104-106)
THEOREM BankerCovers == Spec => []NoOverdraft
<1>1. Init => CoveredRule
  BY MiniOSAssumption DEF Init, SharedInit, ProcessInit, CoveredRule, Covered,
     NoneNegative
<1>2. TypeInv /\ CoveredRule /\ [Next]_vars => CoveredRule'
  <2> SUFFICES ASSUME TypeInv, CoveredRule, [Next]_vars, ~crossed' PROVE Covered'
    BY DEF CoveredRule
  <2>0. Covered /\ (Next => ~ManagersCross')
    BY DEF CoveredRule, Next, History, vars, historyVars
  <2>1. CASE UNCHANGED <<avail, kernelVars, managerVars>>
    BY <2>0, <2>1 DEF Covered, NoneNegative, BankerCheck, kernelVars, managerVars
  <2>2. ASSUME NEW a \in Apps, CreateProcess(a) PROVE Covered'
    BY <2>0, <2>2 DEF CreateProcess, Covered, NoneNegative, BankerCheck, sharedVars,
      managerVars
  <2>3. CASE AutoStartNext
    <3>1. Head(boot) \in Apps
      BY <2>3 DEF AutoStartNext, TypeInv, TypeOK
    <3>2. QED
      BY <2>2, <2>3, <3>1 DEF AutoStartNext
  <2>4. ASSUME NEW m \in Managers, NEW pid \in 1 .. MaxPid, KillSelected(m, pid)
        PROVE  Covered'
    BY <2>0, <2>4 DEF KillSelected, Covered, NoneNegative, BankerCheck, sharedVars,
      kernelVars, TypeInv, TypeOK, ProcessTypeOK
  <2>5. CASE AutoStartReturn \/ DeniedDialog \/ LaunchApp
    BY <2>0, <2>5 DEF AutoStartReturn, DeniedDialog, LaunchApp, Covered, NoneNegative,
      BankerCheck, sharedVars, managerVars, TypeInv, TypeOK, ProcessTypeOK
  <2>6. CASE DispatcherSteps
    <3>1. UNCHANGED avail
      BY <2>6 DEF DispatcherSteps, Dispatcher, WaitForWork, SpuriousWakeup,
        GetNextProcess, LevelsAbove, StartQuantum, EndQuantum, Preempt, Requeue,
        sharedVars
    <3>2. QED
      BY <2>1, <2>6, <3>1 DEF DispatcherSteps
  <2>7. CASE UNCHANGED vars
    BY <2>1, <2>7 DEF vars, sharedVars
  <2>8. QED
    BY <2>0, <2>2, <2>3, <2>4, <2>5, <2>6, <2>7, CoveredCreate, CoveredTerminate
    DEF Next, Step, Clicks, OnAppClick, KernelSteps, ManagerSteps
<1>3. CoveredRule => NoOverdraft
  BY DEF CoveredRule, Covered, NoneNegative, NoOverdraft
<1>4. QED
  BY <1>1, <1>2, <1>3, TypeInit, TypeNext, PTL DEF Spec

-----------------------------------------------------------------------------
(* The scheduler, until the first termination.                             *)

\* The slots whose processes are the scheduler's business.
Listed(i) == i \in 0 .. (proc_count - 1) /\ ~Unfinished(i)

Queued(i) == \E l \in Level : InQueue(i, l)

\* The kernel fills the first slot that is free, and nobody takes one away.
FillsInOrder ==
  /\ proc_count \in 0 .. MAX_PROC
  /\ kpc = "bump" => kslot = proc_count
  /\ kpc \in {"fill", "load", "store", "ready", "enqueue"} => kslot = proc_count - 1
  /\ kpc \in {"load", "store", "ready", "enqueue"} => procs[kslot].priority \in Level
  /\ \A i : Listed(i) => procs[i].priority \in Level
  /\ \A m \in Managers : mpc[m] # "copy"

\* An entry is the only one of its slot, is on the level of the process there,
\* and is not with the dispatcher; and it is missing only where that one has it.
EntriesOnce ==
  /\ \A l \in Level : \A n \in DOMAIN queue[l] :
       Listed(queue[l][n]) /\ procs[queue[l][n]].priority = l
  /\ \A l \in Level : \A n, k \in DOMAIN queue[l] :
       queue[l][n] = queue[l][k] => n = k
  /\ disp \in {"start", "run", "requeue", "putback"} => Listed(cur) /\ ~Queued(cur)
  /\ \A i : Listed(i) /\ procs[i].priority \in {2, 3} => Dispatched(i) \/ Queued(i)

RunsOne == \A i \in Slots : Running(i) <=> (disp \in {"run", "requeue"} /\ cur = i)

OnceInv == FillsInOrder /\ EntriesOnce /\ RunsOne

\* A queue that misses a slot has room for it.
LEMMA RoomForOneMore ==
  ASSUME NEW q \in Seq(Slots), NEW i \in Slots,
         \A n \in DOMAIN q : q[n] # i,
         \A n, k \in DOMAIN q : q[n] = q[k] => n = k
  PROVE  Len(q) < MAX_PROC
<1> SUFFICES ASSUME Len(q) >= MAX_PROC PROVE FALSE
  BY MiniOSAssumption
<1> DEFINE S == 1 .. Len(q)
<1> DEFINE T == Slots \ {i}
<1>1. IsFiniteSet(S) /\ Cardinality(S) = Len(q)
  BY FS_Interval, MiniOSAssumption
<1>2. IsFiniteSet(Slots) /\ Cardinality(Slots) = MAX_PROC
  <2>1. 0 \in Int /\ MAX_PROC - 1 \in Int /\ ~(0 > MAX_PROC - 1)
    BY MiniOSAssumption
  <2>2. /\ IsFiniteSet(0 .. (MAX_PROC - 1))
        /\ Cardinality(0 .. (MAX_PROC - 1)) = (MAX_PROC - 1) - 0 + 1
    BY <2>1, FS_Interval
  <2> QED
    BY <2>2, MiniOSAssumption DEF Slots
<1>3. IsFiniteSet(T) /\ Cardinality(T) = MAX_PROC - 1
  BY <1>2, FS_RemoveElement
<1>4. q \in [S -> T] /\ Cardinality(T) < Cardinality(S)
  BY <1>1, <1>3, MiniOSAssumption
<1> HIDE DEF S, T
<1>5. \E x, y \in S : x # y /\ q[x] = q[y]
  BY <1>1, <1>3, <1>4, FS_PigeonHole
<1> QED
  BY <1>5 DEF S

\* Putting a listed slot that is nowhere on its level keeps the entries right.
LEMMA PushOnce ==
  ASSUME TypeInv, NEW i \in Slots, NEW l \in Level,
         \A k \in Level : \A n \in DOMAIN queue[k] : queue[k][n] # i,
         \A n, k \in DOMAIN queue[l] : queue[l][n] = queue[l][k] => n = k,
         queue' = Push(l, i)
  PROVE  /\ \A k \in Level \ {l} : queue'[k] = queue[k]
         /\ DOMAIN queue'[l] = DOMAIN queue[l] \cup {Len(queue[l]) + 1}
         /\ Len(queue[l]) + 1 \notin DOMAIN queue[l]
         /\ \A n \in DOMAIN queue[l] : queue'[l][n] = queue[l][n]
         /\ queue'[l][Len(queue[l]) + 1] = i
         /\ \A n, k \in DOMAIN queue'[l] : queue'[l][n] = queue'[l][k] => n = k
<1>1. queue \in [Level -> Seq(Slots)] /\ queue[l] \in Seq(Slots)
  BY DEF TypeInv, TypeOK, SchedTypeOK
<1>2. Len(queue[l]) < MAX_PROC
  BY <1>1, RoomForOneMore
<1>3. queue' = [queue EXCEPT ![l] = Append(queue[l], i)]
  BY <1>1, <1>2 DEF Push
<1>4. /\ queue'[l] = Append(queue[l], i)
      /\ \A k \in Level \ {l} : queue'[k] = queue[k]
  BY <1>1, <1>3
<1>5. /\ DOMAIN queue'[l] = DOMAIN queue[l] \cup {Len(queue[l]) + 1}
      /\ Len(queue[l]) + 1 \notin DOMAIN queue[l]
      /\ \A n \in DOMAIN queue[l] : queue'[l][n] = queue[l][n]
      /\ queue'[l][Len(queue[l]) + 1] = i
  BY <1>1, <1>4
<1> QED
  BY <1>4, <1>5

\* Steps that leave the entries, the dispatcher and the listed PCBs alone.
LEMMA OnceFrame ==
  ASSUME OnceInv, UNCHANGED <<queue, disp, cur>>, FillsInOrder',
         \A i : Listed(i)' <=> Listed(i),
         \A i : Listed(i) => procs'[i].priority = procs[i].priority,
         \A i \in Slots : Running(i)' <=> Running(i)
  PROVE  OnceInv'
<1>1. RunsOne'
  BY DEF OnceInv, RunsOne
<1>2. EntriesOnce'
  BY DEF OnceInv, EntriesOnce, Queued, InQueue, Dispatched
<1> QED
  BY <1>1, <1>2 DEF OnceInv

LEMMA CreateOnce ==
  ASSUME TypeInv, OnceInv, CreateSteps, \A m \in Managers : mpc'[m] # "copy"
  PROVE  OnceInv'
<1>0. /\ procs \in [Slots -> Process] /\ kslot \in Slots /\ kapp.priority \in Level
      /\ FillsInOrder /\ proc_count \in 0 .. MAX_PROC /\ MAX_PROC \in Nat
  BY ProcessAssumption, MiniOSAssumption
     DEF TypeInv, TypeOK, ProcessTypeOK, OnceInv, FillsInOrder, AppInfo, Level
<1>1. CASE ClaimSlot
  <2>0. UNCHANGED sharedVars
    BY <1>0, <1>1 DEF ClaimSlot, sharedVars
  <2>1. \A i : Listed(i)' <=> Listed(i)
    BY <1>1, <2>0 DEF ClaimSlot, Listed, Unfinished, sharedVars
  <2>2. FillsInOrder'
    BY <1>0, <1>1, <2>0, <2>1 DEF ClaimSlot, FillsInOrder, sharedVars
  <2> QED
    BY <1>1, <2>0, <2>1, <2>2, OnceFrame DEF ClaimSlot, sharedVars, schedVars, Running
<1>2. CASE StoreCount
  <2>1. \A i : Listed(i)' <=> Listed(i)
    BY <1>0, <1>2 DEF StoreCount, Listed, Unfinished, FillsInOrder
  <2>2. FillsInOrder'
    BY <1>0, <1>2, <2>1 DEF StoreCount, FillsInOrder, Slots
  <2> QED
    BY <1>2, <2>1, <2>2, OnceFrame DEF StoreCount, schedVars, Running
<1>3. CASE FillSlot
  <2>1. \A i : Listed(i)' <=> Listed(i)
    BY <1>3 DEF FillSlot, Listed, Unfinished
  <2>2. procs' = [procs EXCEPT ![kslot] = procs'[kslot]]
        /\ procs'[kslot].priority = kapp.priority /\ procs'[kslot].state = "NEW"
    BY <1>0, <1>3 DEF FillSlot
  <2>3. \A i : Listed(i) => i # kslot /\ i \in Slots
    BY <1>0, <1>3 DEF FillSlot, Listed, Unfinished, Slots
  <2>4. \A i : Listed(i) => procs'[i] = procs[i]
    BY <1>0, <2>2, <2>3
  <2>5. FillsInOrder'
    BY <1>0, <1>3, <2>1, <2>2, <2>4 DEF FillSlot, FillsInOrder
  <2>6. ~Running(kslot) /\ ~Running(kslot)'
    BY <1>0, <1>3, <2>2, <2>3 DEF OnceInv, RunsOne, EntriesOnce, Running, FillSlot
  <2>7. \A i \in Slots : Running(i)' <=> Running(i)
    BY <1>0, <1>3, <2>2, <2>6 DEF Running, FillSlot
  <2> QED
    BY <1>3, <2>1, <2>4, <2>5, <2>7, OnceFrame DEF FillSlot, schedVars
<1>4. CASE LoadAvail \/ StoreAvail
  <2>1. /\ kpc \in {"load", "store"} /\ kpc' \in {"load", "store", "ready"}
        /\ UNCHANGED <<procs, proc_count, kslot, queue, disp, cur>>
    BY <1>4 DEF LoadAvail, StoreAvail, sharedVars, schedVars
  <2>2. \A i : Listed(i)' <=> Listed(i)
    BY <2>1 DEF Listed, Unfinished
  <2>3. FillsInOrder'
    BY <1>0, <2>1, <2>2 DEF FillsInOrder
  <2> QED
    BY <2>1, <2>2, <2>3, OnceFrame DEF Running
<1>5. CASE MarkReady
  <2>1. \A i : Listed(i)' <=> Listed(i)
    BY <1>5 DEF MarkReady, Listed, Unfinished
  <2>2. /\ procs' = [procs EXCEPT ![kslot] = procs'[kslot]]
        /\ procs'[kslot].priority = procs[kslot].priority /\ procs'[kslot].state = "READY"
    BY <1>0, <1>5 DEF MarkReady, Process
  <2>3. \A i : Listed(i) => i # kslot /\ i \in Slots
    BY <1>0, <1>5 DEF MarkReady, Listed, Unfinished, Slots
  <2>4. \A i : Listed(i) => procs'[i] = procs[i]
    BY <1>0, <2>2, <2>3
  <2>5. FillsInOrder'
    BY <1>0, <1>5, <2>1, <2>2, <2>4 DEF MarkReady, FillsInOrder
  <2>6. ~Running(kslot) /\ ~Running(kslot)'
    BY <1>0, <1>5, <2>2, <2>3 DEF OnceInv, RunsOne, EntriesOnce, Running, MarkReady
  <2>7. \A i \in Slots : Running(i)' <=> Running(i)
    BY <1>0, <1>5, <2>2, <2>6 DEF Running, MarkReady
  <2> QED
    BY <1>5, <2>1, <2>4, <2>5, <2>7, OnceFrame DEF MarkReady, schedVars
<1>6. CASE Enqueue
  <2> DEFINE l == procs[kslot].priority
  <2>1. /\ kpc = "enqueue" /\ kpc' = "created" /\ disp \notin {"requeue", "putback"} /\ l \in Level
        /\ UNCHANGED <<procs, proc_count, kslot, cur>>
        /\ disp' = IF disp = "wait" THEN "get" ELSE disp
        /\ queue' = Push(QueueLevel(l), kslot)
    BY <1>0, <1>6 DEF Enqueue, AddToQueue, Signalled, FillsInOrder, sharedVars
  <2>2. ~Listed(kslot) /\ Listed(kslot)' /\ \A i : i # kslot => (Listed(i)' <=> Listed(i))
    BY <1>0, <2>1 DEF Listed, Unfinished, FillsInOrder, Slots
  <2>3. \A k \in Level : \A n \in DOMAIN queue[k] : queue[k][n] # kslot
    BY <2>2 DEF OnceInv, EntriesOnce
  <2>4. \A k \in Level : \A n, m \in DOMAIN queue[k] : queue[k][n] = queue[k][m] => n = m
    BY DEF OnceInv, EntriesOnce
  <2> HIDE DEF l
  <2>5. QueueLevel(l) = l
    <3>1. queue[l] \in Seq(Slots)
      BY <2>1 DEF TypeInv, TypeOK, SchedTypeOK
    <3>2. Len(queue[l]) < MAX_PROC
      BY <1>0, <2>1, <2>3, <2>4, <3>1, RoomForOneMore
    <3> QED
      BY <2>1, <3>2 DEF QueueLevel, Level
  <2>6. FillsInOrder'
    <3>1. \A i : Listed(i)' => procs'[i].priority \in Level
      BY <1>0, <2>1, <2>2 DEF FillsInOrder, l
    <3> QED
      BY <1>0, <2>1, <3>1 DEF FillsInOrder
  <2>7. RunsOne'
    BY <2>1 DEF OnceInv, RunsOne, Running
  <2>8. EntriesOnce'
    <3>1. /\ \A k \in Level \ {l} : queue'[k] = queue[k]
          /\ DOMAIN queue'[l] = DOMAIN queue[l] \cup {Len(queue[l]) + 1}
          /\ Len(queue[l]) + 1 \notin DOMAIN queue[l]
          /\ \A n \in DOMAIN queue[l] : queue'[l][n] = queue[l][n]
          /\ queue'[l][Len(queue[l]) + 1] = kslot
          /\ \A n, k \in DOMAIN queue'[l] : queue'[l][n] = queue'[l][k] => n = k
      BY <1>0, <2>1, <2>3, <2>4, <2>5, PushOnce
    <3>2. ASSUME NEW k \in Level, NEW n \in DOMAIN queue'[k], NEW i, i = queue'[k][n]
          PROVE  Listed(i)' /\ procs'[i].priority = k
      <4>1. CASE k = l /\ i = kslot
        BY <2>1, <2>2, <4>1 DEF l
      <4>2. CASE n \in DOMAIN queue[k] /\ i = queue[k][n]
        <5>1. Listed(i) /\ procs[i].priority = k /\ i # kslot
          BY <2>3, <4>2 DEF OnceInv, EntriesOnce
        <5> QED
          BY <2>1, <2>2, <5>1
      <4> QED
        BY <3>1, <3>2, <4>1, <4>2
    <3>3. \A k \in Level : \A n, m \in DOMAIN queue'[k] :
            queue'[k][n] = queue'[k][m] => n = m
      BY <2>4, <3>1
    <3>4. \A i : Queued(i)' <=> Queued(i) \/ i = kslot
      <4>1. \A i, k : k \in Level => (InQueue(i, k)' <=> InQueue(i, k) \/ (i = kslot /\ k = l))
        BY <3>1 DEF InQueue
      <4> QED
        BY <2>1, <4>1 DEF Queued
    <3>5. disp' \in {"start", "run", "requeue", "putback"} => Listed(cur)' /\ ~Queued(cur)'
      BY <2>1, <2>2, <3>4 DEF OnceInv, EntriesOnce
    <3>6. \A i : Listed(i)' /\ procs'[i].priority \in {2, 3} => Dispatched(i)' \/ Queued(i)'
      <4> SUFFICES ASSUME NEW i, Listed(i)', procs'[i].priority \in {2, 3}
                   PROVE  Dispatched(i)' \/ Queued(i)'
        OBVIOUS
      <4>1. Dispatched(i) => Dispatched(i)'
        BY <2>1 DEF Dispatched
      <4> QED
        BY <2>1, <2>2, <3>4, <4>1 DEF OnceInv, EntriesOnce
    <3> QED
      BY <3>2, <3>3, <3>5, <3>6 DEF EntriesOnce, Listed, Unfinished
  <2> QED
    BY <2>6, <2>7, <2>8 DEF OnceInv
<1> QED
  BY <1>1, <1>2, <1>3, <1>4, <1>5, <1>6 DEF CreateSteps

LEMMA TailFacts ==
  ASSUME NEW S, NEW s \in Seq(S), s # << >>, NEW t, t = Tail(s)
  PROVE  /\ 1 \in DOMAIN s /\ s[1] = Head(s)
         /\ \A n \in DOMAIN t : n + 1 \in DOMAIN s /\ t[n] = s[n + 1] /\ n + 1 # 1
         /\ \A n \in DOMAIN s : n = 1 \/ n - 1 \in DOMAIN t
         /\ DOMAIN t \subseteq Nat
<1>1. /\ Len(s) \in Nat \ {0} /\ DOMAIN s = 1 .. Len(s) /\ DOMAIN t = 1 .. (Len(s) - 1)
      /\ \A n \in 1 .. (Len(s) - 1) : t[n] = s[n + 1]
  OBVIOUS
<1> QED
  BY <1>1

LEMMA DispatchOnce ==
  ASSUME TypeInv, OnceInv, Dispatcher, UNCHANGED <<kernelVars, managerVars>>
  PROVE  OnceInv'
<1>0. /\ procs \in [Slots -> Process] /\ cur \in Slots
      /\ queue \in [Level -> Seq(Slots)] /\ FillsInOrder
  BY DEF TypeInv, TypeOK, ProcessTypeOK, SchedTypeOK, OnceInv
<1>1. /\ UNCHANGED <<proc_count, kpc, kslot, mpc>>
      /\ \A i : Listed(i)' <=> Listed(i)
  <2>1. UNCHANGED <<proc_count, kpc, kslot, mpc>>
    BY DEF Dispatcher, WaitForWork, SpuriousWakeup, GetNextProcess, StartQuantum,
       EndQuantum, Preempt, Requeue, sharedVars, kernelVars, managerVars
  <2> QED
    BY <2>1 DEF Listed, Unfinished
<1>2. ASSUME \A i \in Slots : procs'[i].priority = procs[i].priority
      PROVE  FillsInOrder'
  <2>1. \A i : Listed(i) => i \in Slots
    BY <1>0, MiniOSAssumption DEF Listed, FillsInOrder, Slots
  <2>2. kslot \in Slots
    BY DEF TypeInv, TypeOK, ProcessTypeOK
  <2> QED
    BY <1>0, <1>1, <1>2, <2>1, <2>2 DEF FillsInOrder
<1>3. CASE WaitForWork \/ SpuriousWakeup
  <2>1. /\ disp \in {"get", "wait"} /\ disp' \in {"get", "wait"}
        /\ UNCHANGED <<queue, cur, procs>>
    BY <1>3 DEF WaitForWork, SpuriousWakeup, sharedVars
  <2>2. EntriesOnce'
    BY <1>1, <2>1 DEF OnceInv, EntriesOnce, Queued, InQueue, Dispatched
  <2>3. RunsOne'
    BY <2>1 DEF OnceInv, RunsOne, Running
  <2> QED
    BY <1>2, <2>1, <2>2, <2>3 DEF OnceInv
<1>4. CASE GetNextProcess
  <2>1. PICK l \in Level : /\ queue[l] # << >> /\ cur' = Head(queue[l])
                           /\ queue' = [queue EXCEPT ![l] = Tail(@)]
    BY <1>4 DEF GetNextProcess
  <2>2. disp = "get" /\ disp' = "start" /\ UNCHANGED procs
    BY <1>4 DEF GetNextProcess, sharedVars
  <2>3. /\ \A k \in Level \ {l} : queue'[k] = queue[k]
        /\ 1 \in DOMAIN queue[l] /\ queue[l][1] = cur'
        /\ \A n \in DOMAIN queue'[l] :
             n + 1 \in DOMAIN queue[l] /\ queue'[l][n] = queue[l][n + 1] /\ n + 1 # 1
        /\ \A n \in DOMAIN queue[l] : n = 1 \/ n - 1 \in DOMAIN queue'[l]
        /\ DOMAIN queue'[l] \subseteq Nat
    <3>1. queue'[l] = Tail(queue[l]) /\ \A k \in Level \ {l} : queue'[k] = queue[k]
      BY <1>0, <2>1
    <3>2. queue[l] \in Seq(Slots) /\ queue[l] # << >>
      BY <1>0, <2>1
    <3> DEFINE s == queue[l]
               t == queue'[l]
    <3>3. s \in Seq(Slots) /\ s # << >> /\ t = Tail(s) /\ Head(s) = cur'
      BY <2>1, <3>1, <3>2
    <3> HIDE DEF s, t
    <3>4. /\ 1 \in DOMAIN s /\ s[1] = Head(s)
          /\ \A n \in DOMAIN t : n + 1 \in DOMAIN s /\ t[n] = s[n + 1] /\ n + 1 # 1
          /\ \A n \in DOMAIN s : n = 1 \/ n - 1 \in DOMAIN t
          /\ DOMAIN t \subseteq Nat
      BY <3>3, TailFacts
    <3> QED
      BY <3>1, <3>3, <3>4 DEF s, t
  <2>4. \A k \in Level : \A n, m \in DOMAIN queue[k] : queue[k][n] = queue[k][m] => n = m
    BY DEF OnceInv, EntriesOnce
  <2>5. \A k \in Level : \A n \in DOMAIN queue[k] :
          Listed(queue[k][n]) /\ procs[queue[k][n]].priority = k
    BY DEF OnceInv, EntriesOnce
  <2>6. ASSUME NEW k \in Level, NEW n \in DOMAIN queue'[k]
        PROVE  \E m \in DOMAIN queue[k] : queue'[k][n] = queue[k][m] /\ (k = l => m = n + 1)
    BY <2>3, <2>6
  <2>7. \A i : Queued(i)' => Queued(i) /\ i # cur'
    <3> SUFFICES ASSUME NEW i, NEW k \in Level, NEW n \in DOMAIN queue'[k], queue'[k][n] = i
                 PROVE  Queued(i) /\ i # cur'
      BY DEF Queued, InQueue
    <3>1. PICK m \in DOMAIN queue[k] : i = queue[k][m] /\ (k = l => m = n + 1)
      BY <2>6
    <3>2. CASE k = l
      BY <2>3, <2>4, <3>1, <3>2 DEF Queued, InQueue
    <3>3. CASE k # l
      BY <2>3, <2>5, <3>1, <3>3 DEF Queued, InQueue
    <3> QED
      BY <3>2, <3>3
  <2>8. \A i : Queued(i) => Queued(i)' \/ i = cur'
    <3> SUFFICES ASSUME NEW i, NEW k \in Level, NEW n \in DOMAIN queue[k], queue[k][n] = i,
                        i # cur'
                 PROVE  Queued(i)'
      BY DEF Queued, InQueue
    <3>1. CASE k = l
      <4>1. n - 1 \in DOMAIN queue'[l] /\ n \in Int
        BY <2>3, <3>1, <1>0
      <4>2. queue'[l][n - 1] = queue[l][(n - 1) + 1] /\ (n - 1) + 1 = n
        BY <2>3, <4>1
      <4> QED
        BY <3>1, <4>1, <4>2 DEF Queued, InQueue
    <3>2. CASE k # l
      BY <2>3, <3>2 DEF Queued, InQueue
    <3> QED
      BY <3>1, <3>2
  <2>9. ASSUME NEW k \in Level, NEW n \in DOMAIN queue'[k], NEW i, i = queue'[k][n]
        PROVE  Listed(i)' /\ procs'[i].priority = k
    BY <1>1, <2>2, <2>5, <2>6, <2>9
  <2>10. \A k \in Level : \A n, m \in DOMAIN queue'[k] : queue'[k][n] = queue'[k][m] => n = m
    <3> TAKE k \in Level
    <3> TAKE n, m \in DOMAIN queue'[k]
    <3>1. CASE k = l
      <4>1. n \in Nat /\ m \in Nat
        BY <2>3, <3>1
      <4> QED
        BY <2>3, <2>4, <3>1, <4>1
    <3>2. CASE k # l
      BY <2>3, <2>4, <3>2
    <3> QED
      BY <3>1, <3>2
  <2>11. ASSUME NEW c, c = cur' PROVE Listed(c)'
    BY <1>1, <2>3, <2>5, <2>11
  <2>12. ~Queued(cur)'
    BY <2>7
  <2>13. \A i : Listed(i)' /\ procs'[i].priority \in {2, 3} => Dispatched(i)' \/ Queued(i)'
    BY <1>1, <2>2, <2>8 DEF OnceInv, EntriesOnce, Dispatched
  <2>14. EntriesOnce'
    BY <2>9, <2>10, <2>11, <2>12, <2>13 DEF EntriesOnce, Listed, Unfinished
  <2>15. RunsOne'
    BY <2>2 DEF OnceInv, RunsOne, Running
  <2> QED
    BY <1>2, <2>2, <2>14, <2>15 DEF OnceInv
<1>5. CASE StartQuantum
  <2>1. /\ disp = "start" /\ disp' = "run" /\ UNCHANGED <<queue, cur>>
        /\ procs' = [procs EXCEPT ![cur].state = "RUNNING"]
    BY <1>5 DEF StartQuantum
  <2>2. \A i \in Slots : /\ procs'[i].priority = procs[i].priority
                         /\ procs'[i].state = IF i = cur THEN "RUNNING" ELSE procs[i].state
    BY <1>0, <2>1 DEF Process
  <2>3. \A i : Listed(i) => i \in Slots
    BY <1>0, MiniOSAssumption DEF Listed, FillsInOrder, Slots
  <2>4. EntriesOnce'
    <3>1. ASSUME NEW k \in Level, NEW n \in DOMAIN queue'[k], NEW i, i = queue'[k][n]
          PROVE  Listed(i)' /\ procs'[i].priority = k
      BY <1>1, <2>1, <2>2, <2>3, <3>1 DEF OnceInv, EntriesOnce
    <3>2. Listed(cur)' /\ ~Queued(cur)'
      BY <1>1, <2>1 DEF OnceInv, EntriesOnce, Queued, InQueue, Listed, Unfinished
    <3>3. \A i : Listed(i)' /\ procs'[i].priority \in {2, 3} => Dispatched(i)' \/ Queued(i)'
      BY <1>1, <2>1, <2>2, <2>3 DEF OnceInv, EntriesOnce, Dispatched, Queued, InQueue
    <3>4. \A k \in Level : \A n, m \in DOMAIN queue'[k] : queue'[k][n] = queue'[k][m] => n = m
      BY <2>1 DEF OnceInv, EntriesOnce
    <3> QED
      BY <3>1, <3>2, <3>3, <3>4 DEF EntriesOnce, Listed, Unfinished
  <2>5. RunsOne'
    BY <2>1, <2>2 DEF OnceInv, RunsOne, Running
  <2> QED
    BY <1>2, <2>2, <2>4, <2>5 DEF OnceInv
<1>6. CASE EndQuantum
  <2>1. disp = "run" /\ Running(cur)
    BY <1>0, <1>6 DEF EndQuantum, OnceInv, RunsOne
  <2>2. disp' = "requeue" /\ UNCHANGED <<queue, cur, procs>>
    BY <1>6, <2>1 DEF EndQuantum, Running, sharedVars
  <2>3. EntriesOnce'
    BY <1>1, <2>1, <2>2
       DEF OnceInv, EntriesOnce, Queued, InQueue, Dispatched, Listed, Unfinished
  <2>4. RunsOne'
    BY <2>1, <2>2 DEF OnceInv, RunsOne, Running
  <2> QED
    BY <1>2, <2>2, <2>3, <2>4 DEF OnceInv
<1>7. CASE Preempt
  <2>1. /\ disp = "requeue" /\ disp' = "putback" /\ UNCHANGED <<queue, cur>>
        /\ procs' = [procs EXCEPT ![cur].state = "READY"]
    BY <1>7 DEF Preempt, Preempted
  <2>2. \A i \in Slots : /\ procs'[i].priority = procs[i].priority
                         /\ procs'[i].state = IF i = cur THEN "READY" ELSE procs[i].state
    BY <1>0, <2>1 DEF Process
  <2>3. \A i : Listed(i) => i \in Slots
    BY <1>0, MiniOSAssumption DEF Listed, FillsInOrder, Slots
  <2>4. EntriesOnce'
    <3>1. ASSUME NEW k \in Level, NEW n \in DOMAIN queue'[k], NEW i, i = queue'[k][n]
          PROVE  Listed(i)' /\ procs'[i].priority = k
      BY <1>1, <2>1, <2>2, <2>3, <3>1 DEF OnceInv, EntriesOnce
    <3>2. Listed(cur)' /\ ~Queued(cur)'
      BY <1>1, <2>1 DEF OnceInv, EntriesOnce, Queued, InQueue, Listed, Unfinished
    <3>3. \A i : Listed(i)' /\ procs'[i].priority \in {2, 3} => Dispatched(i)' \/ Queued(i)'
      BY <1>1, <2>1, <2>2, <2>3 DEF OnceInv, EntriesOnce, Dispatched, Queued, InQueue
    <3>4. \A k \in Level : \A n, m \in DOMAIN queue'[k] : queue'[k][n] = queue'[k][m] => n = m
      BY <2>1 DEF OnceInv, EntriesOnce
    <3> QED
      BY <3>1, <3>2, <3>3, <3>4 DEF EntriesOnce, Listed, Unfinished
  <2>5. RunsOne'
    BY <2>1, <2>2 DEF OnceInv, RunsOne, Running
  <2> QED
    BY <1>2, <2>2, <2>4, <2>5 DEF OnceInv
<1>8. CASE Requeue
  <2>1. /\ disp = "putback" /\ disp' = "get" /\ queue' = Requeued(cur)
        /\ UNCHANGED procs
    BY <1>8 DEF Requeue, sharedVars
  <2>2. \A i \in Slots : procs'[i].priority = procs[i].priority
    BY <2>1
  <2>3. \A i : Listed(i) => i \in Slots
    BY <1>0, MiniOSAssumption DEF Listed, FillsInOrder, Slots
  <2>4. Listed(cur) /\ ~Queued(cur) /\ procs[cur].priority \in Level
    BY <1>0, <2>1 DEF OnceInv, EntriesOnce, FillsInOrder
  <2>5. RunsOne'
    BY <2>1, <2>2 DEF OnceInv, RunsOne, Running
  <2>6. \A k \in Level : \A n \in DOMAIN queue[k] :
          Listed(queue[k][n]) /\ procs[queue[k][n]].priority = k
    BY DEF OnceInv, EntriesOnce
  <2>7. \A k \in Level : \A n, m \in DOMAIN queue[k] : queue[k][n] = queue[k][m] => n = m
    BY DEF OnceInv, EntriesOnce
  <2>8. CASE procs[cur].priority \notin {2, 3}
    <3>1. queue' = queue
      BY <2>1, <2>8 DEF Requeued
    <3>2. ASSUME NEW k \in Level, NEW n \in DOMAIN queue'[k], NEW i, i = queue'[k][n]
          PROVE  Listed(i)' /\ procs'[i].priority = k
      BY <1>1, <2>2, <2>3, <2>6, <3>1, <3>2
    <3>3. \A i : Listed(i)' /\ procs'[i].priority \in {2, 3} => Queued(i)'
      BY <1>0, <1>1, <2>1, <2>2, <2>3, <2>8, <3>1
         DEF OnceInv, EntriesOnce, Dispatched, Queued, InQueue
    <3>4. EntriesOnce'
      BY <2>1, <2>7, <3>1, <3>2, <3>3 DEF EntriesOnce, Listed, Unfinished
    <3> QED
      BY <1>2, <2>2, <2>5, <3>4 DEF OnceInv
  <2>9. CASE procs[cur].priority \in {2, 3}
    <3> DEFINE l == procs[cur].priority
    <3>1. l \in Level /\ queue' = Push(l, cur)
      BY <2>1, <2>4, <2>9 DEF Requeued
    <3>2. \A k \in Level : \A n \in DOMAIN queue[k] : queue[k][n] # cur
      BY <2>4 DEF Queued, InQueue
    <3> HIDE DEF l
    <3>3. /\ \A k \in Level \ {l} : queue'[k] = queue[k]
          /\ DOMAIN queue'[l] = DOMAIN queue[l] \cup {Len(queue[l]) + 1}
          /\ \A n \in DOMAIN queue[l] : queue'[l][n] = queue[l][n]
          /\ queue'[l][Len(queue[l]) + 1] = cur
          /\ \A n, k \in DOMAIN queue'[l] : queue'[l][n] = queue'[l][k] => n = k
      BY <1>0, <2>7, <3>1, <3>2, PushOnce
    <3>4. ASSUME NEW k \in Level, NEW n \in DOMAIN queue'[k], NEW i, i = queue'[k][n]
          PROVE  Listed(i)' /\ procs'[i].priority = k
      <4>1. CASE k = l /\ i = cur
        BY <1>0, <1>1, <2>2, <2>4, <4>1 DEF l
      <4>2. CASE n \in DOMAIN queue[k] /\ i = queue[k][n]
        BY <1>1, <2>2, <2>3, <2>6, <4>2
      <4> QED
        BY <3>1, <3>3, <3>4, <4>1, <4>2
    <3>5. \A i : Queued(i)' <=> Queued(i) \/ i = cur
      <4>1. \A i, k : k \in Level => (InQueue(i, k)' <=> InQueue(i, k) \/ (i = cur /\ k = l))
        BY <3>1, <3>3 DEF InQueue
      <4> QED
        BY <3>1, <4>1 DEF Queued
    <3>6. \A i : Listed(i)' /\ procs'[i].priority \in {2, 3} => Queued(i)'
      BY <1>1, <2>2, <2>3, <3>5 DEF OnceInv, EntriesOnce, Dispatched
    <3>7. \A k \in Level : \A n, m \in DOMAIN queue'[k] :
            queue'[k][n] = queue'[k][m] => n = m
      BY <2>7, <3>3
    <3>8. EntriesOnce'
      BY <2>1, <3>4, <3>6, <3>7 DEF EntriesOnce, Listed, Unfinished
    <3> QED
      BY <1>2, <2>2, <2>5, <3>8 DEF OnceInv
  <2> QED
    BY <2>8, <2>9
<1> QED
  BY <1>3, <1>4, <1>5, <1>6, <1>7, <1>8 DEF Dispatcher

\* What holds until terminate_process removes a PCB.
OnceRule == ~killed => OnceInv

LEMMA OnceInit == Init => OnceRule
<1> SUFFICES ASSUME Init PROVE OnceInv
  BY DEF OnceRule
<1>1. /\ queue = [l \in Level |-> << >>] /\ disp = "get" /\ proc_count = 0 /\ kpc = "idle"
      /\ procs = [i \in Slots |-> ZeroProcess] /\ mpc = [m \in Managers |-> "off"]
  BY DEF Init, SharedInit, SchedInit, ProcessInit
<1>2. \A i : ~Listed(i)
  BY <1>1 DEF Listed
<1>3. FillsInOrder
  BY <1>1, <1>2, MiniOSAssumption DEF FillsInOrder
<1>4. EntriesOnce
  BY <1>1, <1>2 DEF EntriesOnce
<1>5. RunsOne
  BY <1>1 DEF RunsOne, Running, ZeroProcess
<1> QED
  BY <1>3, <1>4, <1>5 DEF OnceInv

LEMMA OnceNext == TypeInv /\ OnceRule /\ [Next]_vars => OnceRule'
<1> SUFFICES ASSUME TypeInv, OnceRule, [Next]_vars, ~killed' PROVE OnceInv'
  BY DEF OnceRule
<1>1. OnceInv /\ (Next => \A m \in Managers : mpc'[m] # "copy")
  BY DEF OnceRule, Next, History, vars, historyVars
<1>2. ASSUME UNCHANGED <<procs, proc_count, schedVars>>, \A m \in Managers : mpc'[m] # "copy",
             \/ UNCHANGED <<kpc, kslot>>
             \/ kpc \in {"idle", "denied", "created"} /\ kpc' \in {"idle", "claim", "denied"}
      PROVE  OnceInv'
  <2>1. \A i : Listed(i)' <=> Listed(i)
    BY <1>2 DEF Listed, Unfinished
  <2>2. FillsInOrder'
    BY <1>1, <1>2, <2>1 DEF OnceInv, FillsInOrder
  <2> QED
    BY <1>1, <1>2, <2>1, <2>2, OnceFrame DEF schedVars, Running
<1>3. ASSUME Next, NEW a \in Apps, CreateProcess(a) PROVE OnceInv'
  BY <1>1, <1>2, <1>3 DEF CreateProcess, sharedVars
<1>4. CASE Next /\ AutoStartNext
  <2>1. Head(boot) \in Apps
    BY <1>4 DEF AutoStartNext, TypeInv, TypeOK
  <2> QED
    BY <1>3, <1>4, <2>1 DEF AutoStartNext
<1>5. ASSUME Next, NEW m \in Managers, NEW pid \in 1 .. MaxPid, KillSelected(m, pid)
      PROVE  OnceInv'
  BY <1>1, <1>2, <1>5 DEF KillSelected, sharedVars, kernelVars
<1>6. CASE Next /\ (AutoStartReturn \/ DeniedDialog \/ LaunchApp)
  <2>1. kpc \in {"denied", "created"} /\ kpc' = "idle" /\ UNCHANGED <<procs, proc_count, schedVars>>
    BY <1>6 DEF AutoStartReturn, DeniedDialog, LaunchApp, sharedVars
  <2> QED
    BY <1>1, <1>2, <1>6, <2>1
<1>7. CASE Next /\ CreateSteps
  BY <1>1, <1>7, CreateOnce
<1>8. CASE Next /\ DispatcherSteps
  BY <1>1, <1>8, DispatchOnce DEF DispatcherSteps
<1>9. ASSUME Next, NEW m \in Managers, TerminateSteps(m) PROVE OnceInv'
  <2>1. mpc \in [Managers -> ManagerPC] /\ mpc[m] # "copy" /\ mpc'[m] # "copy"
    BY <1>1, <1>9 DEF TypeInv, TypeOK, ProcessTypeOK, OnceInv, FillsInOrder
  <2>2. ~DropCount(m) /\ ~MoveLast(m)
    BY <2>1 DEF DropCount, MoveLast
  <2>3. UNCHANGED <<procs, proc_count, schedVars, kpc, kslot>>
    BY <1>9, <2>2 DEF TerminateSteps, ScanSlot, LoadFreed, StoreFreed, LoadCount,
       sharedVars, kernelVars
  <2> QED
    BY <1>1, <1>2, <1>9, <2>3
<1>10. CASE UNCHANGED vars
  <2>1. UNCHANGED <<procs, proc_count, schedVars, kpc, kslot, mpc>>
    BY <1>10 DEF vars, sharedVars, kernelVars, managerVars
  <2>2. \A m \in Managers : mpc'[m] # "copy"
    BY <1>1, <2>1 DEF OnceInv, FillsInOrder
  <2> QED
    BY <1>2, <2>1, <2>2
<1> QED
  BY <1>3, <1>4, <1>5, <1>6, <1>7, <1>8, <1>9, <1>10
     DEF Next, Step, Clicks, OnAppClick, KernelSteps, ManagerSteps

LEMMA OnceAlways == Spec => [](TypeInv /\ OnceRule)
  BY TypeInit, TypeNext, OnceInit, OnceNext, PTL DEF Spec

\* Until the first termination a process is queued once, on its own level, or
\* is with the dispatcher, for every number of slots, processes and programs.
\* (scheduler.c:26-28, 83-89)
THEOREM QueuedOnce == Spec => []ScheduledOnce
<1>1. TypeInv /\ OnceRule => ScheduledOnce
  <2> SUFFICES ASSUME TypeInv, OnceInv, NEW i \in 0 .. (proc_count - 1), ~Unfinished(i)
               PROVE  /\ Cardinality(Pointers(i)) <= 1
                      /\ procs[i].priority \in {2, 3} => Pointers(i) # {}
                      /\ \A p \in Pointers(i) : p[1] \in {0, procs[i].priority}
    BY DEF OnceRule, ScheduledOnce
  <2>1. Listed(i) /\ queue \in [Level -> Seq(Slots)]
        /\ \A l \in Level : Len(queue[l]) <= MAX_PROC
    BY DEF Listed, TypeInv, TypeOK, SchedTypeOK
  <2>2. ASSUME NEW p \in Pointers(i)
        PROVE  \/ p = <<0, 0>> /\ Dispatched(i) /\ p[1] = 0
               \/ /\ p = <<procs[i].priority, p[2]>> /\ p[1] = procs[i].priority
                  /\ p[1] \in Level
                  /\ p[2] \in DOMAIN queue[p[1]] /\ queue[p[1]][p[2]] = i /\ ~Dispatched(i)
    BY <2>2 DEF Pointers, OnceInv, EntriesOnce, Dispatched, Queued, InQueue
  <2>3. \A p, q \in Pointers(i) : p = q
    <3> TAKE p, q \in Pointers(i)
    <3>1. CASE Dispatched(i)
      BY <2>2, <3>1
    <3>2. CASE ~Dispatched(i)
      <4>1. p[2] = q[2]
        BY <2>2, <3>2 DEF OnceInv, EntriesOnce
      <4> QED
        BY <2>2, <3>2, <4>1
    <3> QED
      BY <3>1, <3>2
  <2>4. Cardinality(Pointers(i)) <= 1
    <3>1. CASE Pointers(i) = {}
      BY <3>1, FS_EmptySet
    <3>2. ASSUME NEW p \in Pointers(i) PROVE Cardinality(Pointers(i)) = 1
      <4>1. Pointers(i) = {p}
        BY <2>3
      <4> QED
        BY <4>1, FS_Singleton
    <3> QED
      BY <3>1, <3>2
  <2>5. ASSUME procs[i].priority \in {2, 3} PROVE Pointers(i) # {}
    <3>1. CASE Dispatched(i)
      BY <3>1 DEF Pointers
    <3>2. CASE Queued(i)
      <4>0. PICK l \in Level : InQueue(i, l)
        BY <3>2 DEF Queued
      <4>1. PICK n \in DOMAIN queue[l] : queue[l][n] = i
        BY <4>0 DEF InQueue
      <4>2. n \in 1 .. MAX_PROC
        BY <2>1, <4>1, MiniOSAssumption
      <4>3. <<l, n>> \in Pointers(i)
        BY <4>1, <4>2 DEF Pointers
      <4> QED
        BY <4>3
    <3> QED
      BY <2>1, <2>5, <3>1, <3>2 DEF OnceInv, EntriesOnce
  <2> QED
    BY <2>2, <2>4, <2>5
<1> QED
  BY <1>1, OnceAlways, PTL

\* Until then the process shown as RUNNING is the one the dispatcher runs.
\* (scheduler.c:71, 83-84)
THEOREM RunningIsDispatched == Spec => []RunningIsCurrent
<1>1. TypeInv /\ OnceRule => RunningIsCurrent
  BY MiniOSAssumption
     DEF OnceRule, OnceInv, FillsInOrder, RunsOne, RunningIsCurrent, Slots
<1> QED
  BY <1>1, OnceAlways, PTL

\* And as long as a round-robin process is there the dispatcher does not sleep,
\* so that the shutdown button comes through.  (main.c:102, sync.c:13)
THEOREM ShutdownIsNotHeldUp == Spec => []ShutdownComesThrough
<1>1. TypeInv /\ OnceRule /\ NoLostWakeup => ShutdownComesThrough
  BY DEF OnceRule, OnceInv, EntriesOnce, Listed, NoLostWakeup, ShutdownComesThrough,
     Dispatched, Queued, InQueue
<1> QED
  BY <1>1, OnceAlways, NeverSleepsBesideWork, PTL
=============================================================================
