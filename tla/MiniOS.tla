------------------------------- MODULE MiniOS -------------------------------
(***************************************************************************)
(* The data that Toji OS keeps in the shared segment (include/minios.h,    *)
(* struct SharedData) and the values it starts from (kernel/memory.c,      *)
(* kernel/boot.c).  Every other module of the kernel extends this one.     *)
(*                                                                         *)
(* A PCB is reduced to the fields the kernel branches on or adds up: pid,  *)
(* the three demands (mem_req, hdd_req, cores_req, as one function), the   *)
(* priority and the state.  name and created_at are only displayed, and    *)
(* time_slice only sets how long the dispatcher sleeps.                    *)
(***************************************************************************)
EXTENDS Integers, Sequences, FiniteSets

CONSTANTS
  MAX_PROC,   \* number of PCB slots, and of entries of each ready queue
  NumRes,     \* kinds of resources; 1 is RAM, 2 the disk, 3 the cores
  Total,      \* what the user gave the machine at boot, by kind
  MaxPid      \* bound of the model: no process is created after pid MaxPid

Res == 1 .. NumRes
Slots == 0 .. (MAX_PROC - 1)
Demand == [Res -> Nat]

ASSUME MiniOSAssumption ==
  /\ MAX_PROC \in Nat \ {0}
  /\ NumRes \in Nat \ {0}
  /\ Total \in [Res -> Nat \ {0}]
  /\ MaxPid \in Nat

PState == {"NEW", "READY", "RUNNING", "BLOCKED", "TERMINATED"}

\* priority 0 is that of a slot never filled
Process == [pid : Nat, req : Demand, priority : 0 .. 3, state : PState]

\* One row of the app registry: what create_process is called with, and
\* whether the program, once running, lets its user kill processes.
AppInfo == [req : Demand, priority : 1 .. 3, manages : BOOLEAN]

\* What memset leaves in a slot; NEW is the enumeration's 0.
ZeroProcess ==
  [pid |-> 0, req |-> [r \in Res |-> 0], priority |-> 0, state |-> "NEW"]

VARIABLES
  procs,        \* the PCB table, indexed by slot
  proc_count,   \* slots 0 .. proc_count-1 are in use
  next_pid,
  avail         \* avail_ram, avail_hdd and avail_cores, by kind

sharedVars == <<procs, proc_count, next_pid, avail>>

SharedInit ==
  /\ procs = [i \in Slots |-> ZeroProcess]
  /\ proc_count = 0
  /\ next_pid = 1
  /\ avail = Total

BankerUnchecked(d) == TRUE

\* banker_check compares the demands with what is available at this moment.
BankerCheck(d) == \A r \in Res : avail[r] >= d[r]
=============================================================================
