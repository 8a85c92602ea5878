------------------------------ MODULE Segment -------------------------------
(***************************************************************************)
(* The life of the shared segment (kernel/memory.c): main() of a kernel    *)
(* gives SHM_NAME to a segment of its own, programs attach to whatever     *)
(* SHM_NAME names when they come up, and the way out takes the name away.  *)
(* Kernels may crash and be started again, while programs of theirs are    *)
(* still coming up or running; a second one may also run beside the first. *)
(*                                                                         *)
(* A segment is named after the kernel whose shm_open created it, and its  *)
(* contents are reduced to how far they are initialised.                   *)
(***************************************************************************)
CONSTANTS
  Kernel,   \* the runs of the program without --app, each at most once
  App,      \* the runs with --app
  NoSeg     \* no segment, or shared_data == NULL

ASSUME SegmentAssumption == NoSeg \notin Kernel

VARIABLES
  name,      \* the segment that SHM_NAME names
  kernel,    \* where main() is, see KernelPC
  seg,       \* the segment each kernel's shm_fd is open on
  mapped,    \* each kernel's shared_data
  contents,  \* of each segment, see Contents
  app,       \* each program, see AppState
  at,        \* the segment behind each program's shared_data
  parent,    \* the kernel that forked it
  died,      \* history: kernels that ended without cleaning up
  beside     \* history: kernels that ran while another one did

kernelVars == <<kernel, seg, mapped, died, beside>>
appVars == <<app, at, parent>>
vars == <<name, contents, kernelVars, appVars>>

KernelPC == {"off", "unlinked", "created", "sized", "boot", "up", "quitting",
             "unmapped", "closed", "stuck", "gone"}

\* "none": of length 0, an access is a SIGBUS; "zero": after ftruncate;
\* "default": memset and the first values; "configured": by the user.
Contents == {"none", "zero", "default", "configured"}

AppState == {"none", "launched", "opened", "running", "gone"}

Segment == Kernel \cup {NoSeg}

TypeOK ==
  /\ name \in Segment
  /\ kernel \in [Kernel -> KernelPC]
  /\ seg \in [Kernel -> Segment]
  /\ mapped \in [Kernel -> Segment]
  /\ contents \in [Kernel -> Contents]
  /\ app \in [App -> AppState]
  /\ at \in [App -> Segment]
  /\ parent \in [App -> Segment]
  /\ died \subseteq Kernel
  /\ beside \subseteq Kernel

Init ==
  /\ name = NoSeg
  /\ kernel = [k \in Kernel |-> "off"]
  /\ seg = [k \in Kernel |-> NoSeg]
  /\ mapped = [k \in Kernel |-> NoSeg]
  /\ contents = [k \in Kernel |-> "none"]
  /\ app = [a \in App |-> "none"]
  /\ at = [a \in App |-> NoSeg]
  /\ parent = [a \in App |-> NoSeg]
  /\ died = {}
  /\ beside = {}

-----------------------------------------------------------------------------
(* The kernel comes up.                                                    *)

Running == {k \in Kernel : kernel[k] \notin {"off", "gone"}}

At(k, pc) == kernel[k] = pc
Goto(k, pc) == kernel' = [kernel EXCEPT ![k] = pc]

StartBeside(k) ==
  beside' = IF Running = {} THEN beside ELSE beside \cup Running \cup {k}

NotUnlinked == name
Unlinked == NoSeg

\* The name that a kernel which crashed may have left goes first.
Unlink(k) ==
  /\ At(k, "off")
  /\ name' = Unlinked
  /\ Goto(k, "unlinked")
  /\ StartBeside(k)
  /\ UNCHANGED <<contents, seg, mapped, died, appVars>>

\* shm_open without O_EXCL: it creates a segment only if there is none.
Create(k) ==
  /\ At(k, "unlinked")
  /\ seg' = [seg EXCEPT ![k] = IF name = NoSeg THEN k ELSE name]
  /\ name' = seg'[k]
  /\ Goto(k, "created")
  /\ UNCHANGED <<contents, mapped, died, beside, appVars>>

Resize(k) ==
  /\ At(k, "created")
  /\ contents' = [contents EXCEPT ![seg[k]] = IF @ = "none" THEN "zero" ELSE @]
  /\ Goto(k, "sized")
  /\ UNCHANGED <<name, seg, mapped, died, beside, appVars>>

\* mmap, memset and the default values.
Initialise(k) ==
  /\ At(k, "sized")
  /\ mapped' = [mapped EXCEPT ![k] = seg[k]]
  /\ contents' = [contents EXCEPT ![seg[k]] = "default"]
  /\ Goto(k, "boot")
  /\ UNCHANGED <<name, seg, died, beside, appVars>>

\* shm_open, ftruncate or mmap fails: main() does not look at the result and
\* goes on without shared_data, on the variables of its own process.
InitFails(k) ==
  /\ kernel[k] \in {"unlinked", "created", "sized"}
  /\ Goto(k, "boot")
  /\ UNCHANGED <<name, contents, seg, mapped, died, beside, appVars>>

\* boot_sequence, in which the user gives the sizes, and the rest of main().
Boot(k) ==
  /\ At(k, "boot")
  /\ contents' = IF mapped[k] = NoSeg THEN contents
                 ELSE [contents EXCEPT ![mapped[k]] = "configured"]
  /\ Goto(k, "up")
  /\ UNCHANGED <<name, seg, mapped, died, beside, appVars>>

-----------------------------------------------------------------------------
(* The kernel goes down.                                                   *)

\* pthread_cond_destroy in cleanup_sync waits for the dispatcher, if that is
\* asleep, for ever.
OnShutdown(k) ==
  /\ At(k, "up")
  /\ Goto(k, "quitting") \/ Goto(k, "stuck")
  /\ UNCHANGED <<name, contents, seg, mapped, died, beside, appVars>>

GoneAtOnce == "gone"
AfterMainLoop == "quitting"

\* The window manager's button leads to gtk_main_quit only.
CloseWindow(k) ==
  /\ At(k, "up")
  /\ Goto(k, AfterMainLoop)
  /\ UNCHANGED <<name, contents, seg, mapped, died, beside, appVars>>

Unmap(k) ==
  /\ At(k, "quitting")
  /\ mapped' = [mapped EXCEPT ![k] = NoSeg]
  /\ Goto(k, "unmapped")
  /\ UNCHANGED <<name, contents, seg, died, beside, appVars>>

\* Whatever SHM_NAME names by now.
UnlinkAtEnd(k) ==
  /\ At(k, "unmapped")
  /\ name' = NoSeg
  /\ Goto(k, "closed")
  /\ UNCHANGED <<contents, seg, mapped, died, beside, appVars>>

Exit(k) ==
  /\ At(k, "closed")
  /\ Goto(k, "gone")
  /\ UNCHANGED <<name, contents, seg, mapped, died, beside, appVars>>

Die(k) ==
  /\ Goto(k, "gone")
  /\ mapped' = [mapped EXCEPT ![k] = NoSeg]
  /\ died' = died \cup {k}
  /\ UNCHANGED <<name, contents, seg, beside, appVars>>

\* The detached dispatcher still runs, and its queues point into the segment
\* that is no longer mapped.
DispatcherFaults(k) ==
  /\ kernel[k] \in {"unmapped", "closed"}
  /\ Die(k)

Crash(k) == k \in Running /\ Die(k)

-----------------------------------------------------------------------------
(* The programs.                                                           *)

\* on_app_click, after create_process.
Launch(k, a) ==
  /\ At(k, "up")
  /\ app[a] = "none"
  /\ app' = [app EXCEPT ![a] = "launched"]
  /\ parent' = [parent EXCEPT ![a] = k]
  /\ UNCHANGED <<name, contents, at, kernelVars>>

OpensNothing == NoSeg
Opens == name

\* init_shared_data(0): a name that is gone leaves shared_data NULL, and the
\* program works on variables of its own.
AppOpen(a) ==
  /\ app[a] = "launched"
  /\ at' = [at EXCEPT ![a] = Opens]
  /\ app' = [app EXCEPT ![a] = "opened"]
  /\ UNCHANGED <<name, contents, parent, kernelVars>>

AppMap(a) ==
  /\ app[a] = "opened"
  /\ app' = [app EXCEPT ![a] = "running"]
  /\ UNCHANGED <<name, contents, at, parent, kernelVars>>

\* shm_open or mmap fails for another reason: the program works on variables of
\* its own as well.
AppNotAttached(a) ==
  /\ app[a] \in {"launched", "opened"}
  /\ app' = [app EXCEPT ![a] = "running"]
  /\ at' = [at EXCEPT ![a] = NoSeg]
  /\ UNCHANGED <<name, contents, parent, kernelVars>>

\* The first look at the table: there may be nothing behind the mapping.
AppFaults(a) ==
  /\ app[a] = "running"
  /\ at[a] # NoSeg /\ contents[at[a]] = "none"
  /\ app' = [app EXCEPT ![a] = "gone"]
  /\ UNCHANGED <<name, contents, at, parent, kernelVars>>

AppEnds(a) ==
  /\ app[a] \in {"launched", "opened", "running"}
  /\ app' = [app EXCEPT ![a] = "gone"]
  /\ UNCHANGED <<name, contents, at, parent, kernelVars>>

-----------------------------------------------------------------------------
KernelSteps(k) ==
  \/ Unlink(k) \/ Create(k) \/ Resize(k) \/ Initialise(k) \/ InitFails(k)
  \/ Boot(k)
  \/ OnShutdown(k) \/ CloseWindow(k)
  \/ Unmap(k) \/ UnlinkAtEnd(k) \/ Exit(k)
  \/ DispatcherFaults(k) \/ Crash(k)

AppSteps(a) ==
  \/ \E k \in Kernel : Launch(k, a)
  \/ AppOpen(a) \/ AppMap(a) \/ AppNotAttached(a)
  \/ AppFaults(a) \/ AppEnds(a)

Next ==
  \/ \E k \in Kernel : KernelSteps(k)
  \/ \E a \in App : AppSteps(a)

Spec == Init /\ [][Next]_vars

-----------------------------------------------------------------------------
\* A kernel that boots with no other beside it opens a segment that nobody
\* has open, so that the programs which outlived an earlier kernel, crashed
\* or not, are not on its table.  (memory.c:12)
FreshSegment ==
  [][\A k \in Kernel \ beside :
       seg'[k] # seg[k] =>
         /\ \A j \in Kernel : seg[j] # seg'[k]
         /\ \A a \in App : at[a] # seg'[k]]_vars

\* A program whose shm_open succeeds, or finds no name, while its kernel is up
\* and no other ever ran beside it, gets the kernel's table, also when an
\* earlier kernel left by a crash.  (memory.c:12-15, main.c:161)
AppsShareTheTable ==
  [][\A a \in App :
       LET k == parent[a]
       IN  app[a] = "launched" /\ app'[a] = "opened" /\ k \notin beside
             /\ kernel[k] = "up" /\ mapped[k] # NoSeg
           => at'[a] = mapped[k]]_vars

\* What was configured in the table of a kernel that no other ever ran beside
\* stays so: a restart after a crash or on the way out does not initialise the
\* table that programs of the earlier kernel still use.  (A kernel started
\* beside another may do just that.)  (memory.c:12-13, 25, boot.c:63-68)
ConfiguredStays ==
  [][\A k \in Kernel \ beside' :
       contents[k] = "configured" => contents'[k] = "configured"]_vars

\* SHM_NAME names a segment that was created by a kernel which is up, or by one
\* that ended without cleaning up: a kernel that came to its end leaves none.
\* (main.c:199, memory.c:42)
NamedByItsKernel ==
  name # NoSeg => name \in Running \cup died
=============================================================================
