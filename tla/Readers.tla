------------------------------ MODULE Readers -------------------------------
(***************************************************************************)
(* The programs that list the shared table: update_monitor of the System   *)
(* Monitor, refresh_list of the Process Manager and refresh_procs of the   *)
(* Kernel Console.  They walk it row by row, reading proc_count again      *)
(* before each, while the kernel and the managers change it.  The          *)
(* console's reader_lock is of its own process, and no writer takes it.    *)
(*                                                                         *)
(* The writers are those of Process as long as no two of them cross        *)
(* (TojiOS!WrittenAsRead), one store a step, and the table is reduced to   *)
(* the pids.                                                               *)
(***************************************************************************)
EXTENDS Integers, SequencesExt

CONSTANTS
  MAX_ROWS,  \* slots of the table, MAX_PROC
  MAX_PIDS   \* bound of the model: pids that are issued

ASSUME ReadersAssumption == MAX_ROWS \in Nat \ {0} /\ MAX_PIDS \in Nat

Row == 0 .. MAX_ROWS - 1
Pid == 0 .. MAX_PIDS

VARIABLES
  pids,     \* procs[i].pid
  count,    \* proc_count
  issued,   \* next_pid - 1
  change,   \* a writer's: proc_count is stored and the slot is not yet
  walk,     \* "off", or the reader's next read: "count" or "row"
  list,     \* the pids listed so far
  before,   \* history: those in the table when the walk began
  crossed   \* history: the kinds of changes that the walk has crossed

tableVars == <<pids, count, issued, change>>
readerVars == <<tableVars, walk, list, before, crossed>>

NoChange == [kind |-> "none", slot |-> 0]

ReadersTypeOK ==
  /\ pids \in [Row -> Pid] /\ count \in 0 .. MAX_ROWS /\ issued \in Pid
  /\ change \in [kind : {"none", "fill", "move"}, slot : Row]
  /\ walk \in {"off", "count", "row"}
  /\ list \in Seq(Pid) /\ before \in Seq(Pid)
  /\ crossed \subseteq {"fill", "move"}

ReadersInit ==
  /\ pids = [i \in Row |-> 0] /\ count = 0 /\ issued = 0 /\ change = NoChange
  /\ walk = "off" /\ list = << >> /\ before = << >> /\ crossed = {}

-----------------------------------------------------------------------------
(* create_process and terminate_process.                                   *)

Begin(kind, slot) ==
  /\ change = NoChange
  /\ change' = [kind |-> kind, slot |-> slot]
  /\ crossed' = IF walk = "off" THEN {} ELSE crossed \cup {kind}
  /\ UNCHANGED <<pids, walk, list, before>>

CountOneMore ==
  /\ count < MAX_ROWS /\ issued < MAX_PIDS
  /\ count' = count + 1 /\ issued' = issued + 1
  /\ Begin("fill", count)

CountOneLess(i) ==
  /\ i < count
  /\ count' = count - 1
  /\ Begin("move", i)
  /\ UNCHANGED issued

NewPid(kind) == IF kind = "fill" THEN issued ELSE pids[count]

StoreRow ==
  /\ change # NoChange
  /\ pids' = [pids EXCEPT ![change.slot] = NewPid(change.kind)]
  /\ change' = NoChange
  /\ UNCHANGED <<count, issued, walk, list, before, crossed>>

WritersNext == CountOneMore \/ StoreRow \/ \E i \in Row : CountOneLess(i)

-----------------------------------------------------------------------------
(* The reader.                                                             *)

Refresh ==
  /\ walk = "off"
  /\ walk' = "count"
  /\ before' = [k \in 1 .. (IF change.kind = "fill" THEN count - 1 ELSE count)
                  |-> pids[k - 1]]
  /\ crossed' = {change.kind} \ {"none"}
  /\ UNCHANGED <<tableVars, list>>

IsRowOrNext(i) == i <= count /\ i \in Row
IsRow(i) == i < count

NextRow ==
  /\ walk = "count" /\ IsRow(Len(list))
  /\ walk' = "row"
  /\ UNCHANGED <<tableVars, list, before, crossed>>

ReadRow ==
  /\ walk = "row"
  /\ walk' = "count"
  /\ list' = Append(list, pids[Len(list)])
  /\ UNCHANGED <<tableVars, before, crossed>>

RefreshEnds ==
  /\ walk = "count" /\ ~IsRow(Len(list))
  /\ walk' = "off"
  /\ list' = << >> /\ before' = << >> /\ crossed' = {}
  /\ UNCHANGED tableVars

ReadersNext ==
  \/ WritersNext
  \/ Refresh \/ NextRow \/ ReadRow \/ RefreshEnds

-----------------------------------------------------------------------------
\* A list shows every process that was in the table when it began, in the
\* order of the table, unless it crossed a removal; just those, unless it
\* crossed a creation; and, unless it did that, no process twice, the one that
\* a removal moves included.
\* (procmanager.c:10-13, sysmonitor.c:34-36, kernelconsole.c:40-48)
ListingFaithful ==
  [][walk = "count" /\ walk' = "off" =>
       /\ "move" \notin crossed => IsPrefix(before, list)
       /\ crossed = {} => list = before
       /\ "fill" \notin crossed => IsInjective(list)]_readerVars
=============================================================================
