------------------------------ MODULE Process -------------------------------
(***************************************************************************)
(* create_process and terminate_process (kernel/process.c).                *)
(*                                                                         *)
(* create_process runs on the main thread of the kernel process.           *)
(* terminate_process is called by the programs that manage processes       *)
(* (Process Manager, Kernel Console); each runs in an OS process of its    *)
(* own, attached to the shared segment.  res_mutex is a static variable of *)
(* lib/sync.c, initialised in every process image and not process-shared:  *)
(* the kernel and each manager lock a mutex nobody else ever locks.  It    *)
(* therefore constrains nothing here, and no variable stands for it.       *)
(*                                                                         *)
(* A read-modify-write of a shared counter is a load step and a store      *)
(* step, with the value in between in a register.  A PCB is read, written  *)
(* or copied as a whole, and two accesses make one step where no other     *)
(* process writes what the first one read (next_pid), or where nobody can  *)
(* tell (the two consecutive reads of proc_count in create_process).       *)
(* Locals that are dead go back to their initial values.                   *)
(***************************************************************************)
EXTENDS Scheduler

CONSTANTS
  Apps,       \* rows of the app registry
  Managers    \* the manager processes that may be started, a bound

ASSUME ProcessAssumption == Apps \subseteq AppInfo /\ Apps # {}

VARIABLES
  kpc,    \* main thread of the kernel: where it is in create_process
  kapp,   \* the arguments of the call
  kslot,  \* the index of p, once proc_count has been read
  kres,   \* the kind of resource being allocated
  kreg,   \* the value last loaded
  mpc,    \* per manager: where it is in terminate_process
  mpid,   \* the pid it was asked to kill
  mslot,  \* i, the loop variable
  mres,   \* the kind of resource being freed
  mreg    \* the value last loaded

kernelVars == <<kpc, kapp, kslot, kres, kreg>>
managerVars == <<mpc, mpid, mslot, mres, mreg>>

\* "idle": in the GTK main loop; "denied" and "created" are the returns of
\* create_process; the rest are the steps in between.  "crashed" stands for
\* the access to plist[-1], which is outside the mapped segment.
KernelPC == {"idle", "claim", "bump", "fill", "load", "store", "ready",
             "enqueue", "created", "denied", "crashed"}
ManagerPC == {"off", "idle", "scan", "load", "store", "drop", "newcount",
              "copy", "crashed"}

\* What kapp holds between two calls.
NoCall == CHOOSE a \in Apps : TRUE

ProcessInit ==
  /\ kpc = "idle"
  /\ kapp = NoCall
  /\ kslot = 0
  /\ kres = 1
  /\ kreg = 0
  /\ mpc = [m \in Managers |-> "off"]
  /\ mpid = [m \in Managers |-> 0]
  /\ mslot = [m \in Managers |-> 0]
  /\ mres = [m \in Managers |-> 1]
  /\ mreg = [m \in Managers |-> 0]

ProcessTypeOK ==
  /\ procs \in [Slots -> Process]
  /\ proc_count \in Int /\ proc_count <= MAX_PROC
  /\ next_pid \in Nat \ {0}
  /\ avail \in [Res -> Int]
  /\ kpc \in KernelPC
  /\ kapp \in Apps
  /\ kslot \in Slots
  /\ kres \in Res
  /\ kreg \in Int
  /\ mpc \in [Managers -> ManagerPC]
  /\ mpid \in [Managers -> Nat]
  /\ mslot \in [Managers -> 0 .. MAX_PROC]
  /\ mres \in [Managers -> Res]
  /\ mreg \in [Managers -> Int]

-----------------------------------------------------------------------------
(* create_process, on the kernel's main thread.                            *)

ForgetCall ==
  /\ kapp' = NoCall
  /\ kslot' = 0
  /\ UNCHANGED <<kres, kreg>>

\* The Banker's check, then pipe(), which can fail.
CreateProcess(a) ==
  /\ kpc = "idle"
  /\ next_pid <= MaxPid
  /\ kapp' = a
  /\ \/ kpc' = "claim" /\ BankerCheck(a.req)
     \/ kpc' = "denied"
  /\ UNCHANGED <<kslot, kres, kreg, sharedVars, schedVars, managerVars>>

\* proc_count is compared with MAX_PROC and read for the increment.  (When it
\* is negative, the write to the slot before the table comes after its store.)
ClaimSlot ==
  /\ kpc = "claim"
  /\ \/ /\ proc_count >= MAX_PROC
        /\ kpc' = "denied"
        /\ UNCHANGED <<kslot, proc_count>>
     \/ /\ proc_count \in Slots
        /\ kpc' = "bump"
        /\ kslot' = proc_count
        /\ UNCHANGED proc_count
     \/ /\ proc_count < 0
        /\ kpc' = "crashed"
        /\ proc_count' = proc_count + 1
        /\ UNCHANGED kslot
  /\ UNCHANGED <<kapp, kres, kreg, procs, next_pid, avail, schedVars, managerVars>>

StoreCount ==
  /\ kpc = "bump"
  /\ proc_count' = kslot + 1
  /\ kpc' = "fill"
  /\ UNCHANGED <<procs, next_pid, avail, kapp, kslot, kres, kreg,
                 schedVars, managerVars>>

FillSlot ==
  /\ kpc = "fill"
  /\ procs' = [procs EXCEPT ![kslot] =
                 [pid |-> next_pid, req |-> kapp.req,
                  priority |-> kapp.priority, state |-> "NEW"]]
  /\ next_pid' = next_pid + 1
  /\ kpc' = "load"
  /\ UNCHANGED <<proc_count, avail, kapp, kslot, kres, kreg, schedVars,
                 managerVars>>

LoadAvail ==
  /\ kpc = "load"
  /\ kreg' = avail[kres]
  /\ kpc' = "store"
  /\ UNCHANGED <<kapp, kslot, kres, sharedVars, schedVars, managerVars>>

TakenFirstOnly(r) == IF r = 1 THEN kapp.req[1] ELSE 0
Taken(r) == kapp.req[r]

\* avail_ram -= mem, then the disk, then the cores.
StoreAvail ==
  /\ kpc = "store"
  /\ avail' = [avail EXCEPT ![kres] = kreg - Taken(kres)]
  /\ kreg' = 0
  /\ \/ kres < NumRes /\ kres' = kres + 1 /\ kpc' = "load"
     \/ kres = NumRes /\ kres' = 1 /\ kpc' = "ready"
  /\ UNCHANGED <<procs, proc_count, next_pid, kapp, kslot,
                 schedVars, managerVars>>

\* After the handshake with the forked child: p->state = READY, through the
\* pointer taken before the fork.
MarkReady ==
  /\ kpc = "ready"
  /\ procs' = [procs EXCEPT ![kslot].state = "READY"]
  /\ kpc' = "enqueue"
  /\ UNCHANGED <<proc_count, next_pid, avail, kapp, kslot, kres, kreg,
                 schedVars, managerVars>>

Enqueue ==
  /\ kpc = "enqueue"
  /\ AddToQueue(kslot)
  /\ kpc' = "created"
  /\ UNCHANGED <<kapp, kslot, kres, kreg, sharedVars, managerVars>>

CreateSteps ==
  ClaimSlot \/ StoreCount \/ FillSlot \/ LoadAvail \/ StoreAvail
    \/ MarkReady \/ Enqueue

-----------------------------------------------------------------------------
(* terminate_process, in manager m.                                        *)

\* The call returns.
Return(m) ==
  /\ mpc' = [mpc EXCEPT ![m] = "idle"]
  /\ mpid' = [mpid EXCEPT ![m] = 0]
  /\ mslot' = [mslot EXCEPT ![m] = 0]
  /\ mreg' = [mreg EXCEPT ![m] = 0]
  /\ UNCHANGED mres

\* The user of m picks a process the table once showed: kill_selected, or
\* force_kill in kernel mode after get_process found the pid.
KillSelected(m, pid) ==
  /\ mpc[m] = "idle"
  /\ pid < next_pid
  /\ mpid' = [mpid EXCEPT ![m] = pid]
  /\ mpc' = [mpc EXCEPT ![m] = "scan"]
  /\ UNCHANGED <<mslot, mres, mreg, sharedVars, schedVars, kernelVars>>

\* One turn of the loop over the table.
ScanSlot(m) ==
  /\ mpc[m] = "scan"
  /\ \/ /\ mslot[m] >= proc_count
        /\ Return(m)
     \/ /\ mslot[m] < proc_count
        /\ procs[mslot[m]].pid = mpid[m]
        /\ mpc' = [mpc EXCEPT ![m] = "load"]
        /\ UNCHANGED <<mpid, mslot, mres, mreg>>
     \/ /\ mslot[m] < proc_count
        /\ procs[mslot[m]].pid # mpid[m]
        /\ mslot' = [mslot EXCEPT ![m] = @ + 1]
        /\ UNCHANGED <<mpc, mpid, mres, mreg>>
  /\ UNCHANGED <<sharedVars, schedVars, kernelVars>>

LoadFreed(m) ==
  /\ mpc[m] = "load"
  /\ mreg' = [mreg EXCEPT ![m] = avail[mres[m]]]
  /\ mpc' = [mpc EXCEPT ![m] = "store"]
  /\ UNCHANGED <<mpid, mslot, mres, sharedVars, schedVars, kernelVars>>

\* avail_ram += pl[i].mem_req, then the disk, then the cores.
StoreFreed(m) ==
  /\ mpc[m] = "store"
  /\ avail' = [avail EXCEPT ![mres[m]] = mreg[m] + procs[mslot[m]].req[mres[m]]]
  /\ mreg' = [mreg EXCEPT ![m] = 0]
  /\ \/ /\ mres[m] < NumRes
        /\ mres' = [mres EXCEPT ![m] = @ + 1]
        /\ mpc' = [mpc EXCEPT ![m] = "load"]
     \/ /\ mres[m] = NumRes
        /\ mres' = [mres EXCEPT ![m] = 1]
        /\ mpc' = [mpc EXCEPT ![m] = "drop"]
  /\ UNCHANGED <<procs, proc_count, next_pid, mpid, mslot,
                 schedVars, kernelVars>>

LoadCount(m) ==
  /\ mpc[m] = "drop"
  /\ mreg' = [mreg EXCEPT ![m] = proc_count - 1]
  /\ mpc' = [mpc EXCEPT ![m] = "newcount"]
  /\ UNCHANGED <<mpid, mslot, mres, sharedVars, schedVars, kernelVars>>

DropCount(m) ==
  /\ mpc[m] = "newcount"
  /\ proc_count' = mreg[m]
  /\ mpc' = [mpc EXCEPT ![m] = "copy"]
  /\ UNCHANGED <<procs, next_pid, avail, mpid, mslot, mres, mreg,
                 schedVars, kernelVars>>

NotMoved(m) == procs[mslot[m]]
Moved(m) == procs[mreg[m]]

\* pl[i] = pl[--(*pcount)]: the last PCB moves into the freed slot.
MoveLast(m) ==
  /\ mpc[m] = "copy"
  /\ \/ /\ mreg[m] \in Slots
        /\ procs' = [procs EXCEPT ![mslot[m]] = Moved(m)]
        /\ Return(m)
     \/ /\ mreg[m] < 0
        /\ mpc' = [mpc EXCEPT ![m] = "crashed"]
        /\ UNCHANGED <<procs, mpid, mslot, mres, mreg>>
  /\ UNCHANGED <<proc_count, next_pid, avail, schedVars, kernelVars>>

TerminateSteps(m) ==
  ScanSlot(m) \/ LoadFreed(m) \/ StoreFreed(m) \/ LoadCount(m)
    \/ DropCount(m) \/ MoveLast(m)
=============================================================================
