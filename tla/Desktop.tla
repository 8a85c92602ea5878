------------------------------ MODULE Desktop -------------------------------
(***************************************************************************)
(* The desktop (main.c) and the OS processes behind it: the pipe handshake *)
(* with a forked helper in create_process, the second fork that becomes    *)
(* the program, the programs that come up, close or fail, and the mode     *)
(* switch that the desktop shares with the Kernel Console.                 *)
(*                                                                         *)
(* The table of PCBs is here what Process makes of it until two of its     *)
(* locked sections overlap: an admission or a removal is one step, and an  *)
(* admission may be denied.  A toggle of the mode is a read, a write and,  *)
(* on the desktop, a label, in two processes that do not exclude each      *)
(* other, and so are the check and the kill of the console.                *)
(***************************************************************************)
EXTENDS Integers, Sequences, FiniteSets

CONSTANTS
  MAX_PROC,    \* number of PCB slots
  MaxPid,      \* bound of the model: no process is created after pid MaxPid
  AutoStarted  \* how many system processes main() creates

ASSUME DesktopAssumption ==
  /\ MAX_PROC \in Nat \ {0}
  /\ MaxPid \in Nat
  /\ AutoStarted \in Nat

Mode == {"USER", "KERNEL"}

\* The programs differ in what they may do to the others: the Kernel Console,
\* the Process Manager, and the fifteen remaining.
App == {"console", "procmanager", "plain"}

VARIABLES
  listed,    \* pids of the PCBs in the table
  next_pid,
  boot,      \* system processes main() still has to create
  pc,        \* the main thread, see DesktopPC
  app,       \* the app that was clicked
  pid,       \* what create_process will return; -1 is a denial
  pipe,      \* the handshake's pipe, see PipeState
  helper,    \* the child that reads the grant, see HelperState
  progs,     \* the programs forked so far, in order
  mode,      \* shared_data->mode
  button,    \* the mode that the label of the desktop's button tells
  todo,      \* what the console progs[i] has read the mode for, see Intent
  toggled,   \* history: the desktop's mode button once entered kernel mode
  strayed    \* history: a console stored the mode after the desktop last did

tableVars == <<listed, next_pid, boot>>
callVars == <<pc, app, pid, pipe, helper>>
modeVars == <<mode, button, todo, toggled, strayed>>
vars == <<tableVars, callVars, progs, modeVars>>

\* "loop": in the GTK main loop; "create": entering create_process; "grant":
\* admitted, pipe open; "fork": token sent; "reap": waitpid(real_pid);
\* "reapany": waitpid(-1), because fork failed; "return": create_process is
\* about to return; a mode: on_mode_toggle is about to store it; showing it:
\* on_mode_toggle has stored it and is about to set the label.
Showing(m) == IF m = "USER" THEN "showuser" ELSE "showkernel"
Labelling == {"showuser", "showkernel"}

DesktopPC == {"loop", "create", "grant", "fork", "reap", "reapany", "return"}
               \cup Mode \cup Labelling

\* "open": somebody holds the write end, nothing written; "sent": the token is
\* in it and the write end is closed.
PipeState == {"none", "open", "sent"}

HelperState == {"none", "reading", "exited"}

\* "forked": not yet exec'ed; "up": its window is open; "zombie": ended and
\* not waited for; "reaped": waited for.
Program == [app : App, pid : Int, state : {"forked", "up", "zombie", "reaped"}]

\* A console is about to store a mode, or has found that it may kill.
Intent == {"none", "kill"} \cup Mode

TypeOK ==
  /\ listed \subseteq 1 .. (next_pid - 1)
  /\ Cardinality(listed) <= MAX_PROC
  /\ next_pid \in Nat \ {0}
  /\ boot \in 0 .. AutoStarted
  /\ pc \in DesktopPC /\ app \in App /\ pid \in Int
  /\ pipe \in PipeState /\ helper \in HelperState
  /\ progs \in Seq(Program)
  /\ mode \in Mode /\ button \in Mode
  /\ todo \in [1 .. MaxPid -> Intent]
  /\ toggled \in BOOLEAN /\ strayed \in BOOLEAN

Init ==
  /\ listed = {} /\ next_pid = 1 /\ boot = AutoStarted
  /\ pc = "loop" /\ app = "plain" /\ pid = -1
  /\ pipe = "none" /\ helper = "none"
  /\ progs = << >>
  /\ mode = "USER" /\ button = "USER"
  /\ todo = [i \in 1 .. MaxPid |-> "none"]
  /\ toggled = FALSE /\ strayed = FALSE

-----------------------------------------------------------------------------
(* The main thread.                                                        *)

AutoStart ==
  /\ pc = "loop" /\ boot > 0
  /\ pc' = "create"
  /\ UNCHANGED <<tableVars, app, pid, pipe, helper, progs, modeVars>>

NeverRefused(a) == FALSE
\* In user mode a click on the console only opens a dialog.
Refused(a) == mode = "USER" /\ a = "console"

OnAppClick(a) ==
  /\ pc = "loop" /\ boot = 0
  /\ ~Refused(a)
  /\ app' = a
  /\ pc' = "create"
  /\ UNCHANGED <<tableVars, pid, pipe, helper, progs, modeVars>>

HasSlotOneMore == Cardinality(listed) <= MAX_PROC
HasSlot == Cardinality(listed) < MAX_PROC

\* banker_check, pipe, and the PCB.
Admit ==
  /\ pc = "create"
  /\ HasSlot /\ next_pid <= MaxPid
  /\ pid' = next_pid
  /\ next_pid' = next_pid + 1
  /\ listed' = listed \cup {next_pid}
  /\ pipe' = "open"
  /\ pc' = "grant"
  /\ UNCHANGED <<boot, app, helper, progs, modeVars>>

\* Too few resources, no slot left, or no pipe.
Deny ==
  /\ pc = "create"
  /\ pid' = -1
  /\ pc' = "return"
  /\ UNCHANGED <<tableVars, app, pipe, helper, progs, modeVars>>

NotSent == "open"
Sent == "sent"

\* The token is written, and the write end closed, before the fork: the child
\* inherits the read end only.
SendGrant ==
  /\ pc = "grant"
  /\ pipe' = Sent
  /\ pc' = "fork"
  /\ UNCHANGED <<tableVars, app, pid, helper, progs, modeVars>>

AfterForkAtOnce == "return"
AfterFork == "reap"

\* Nobody checks whether fork failed; waitpid is then given -1.
ForkHelper ==
  /\ pc = "fork"
  /\ \/ helper' = "reading" /\ pc' = AfterFork /\ UNCHANGED pipe
     \/ pc' = "reapany" /\ pipe' = "none" /\ UNCHANGED helper
  /\ UNCHANGED <<tableVars, app, pid, progs, modeVars>>

ReapHelper ==
  /\ pc = "reap" /\ helper = "exited"
  /\ helper' = "none"
  /\ pc' = "return"
  /\ UNCHANGED <<tableVars, app, pid, pipe, progs, modeVars>>

InState(s) == {i \in DOMAIN progs : progs[i].state = s}
Alive == InState("forked") \cup InState("up")

\* waitpid(-1) takes any child that has ended, and fails when there is none
\* at all; while programs are running and none has ended, it blocks.
ReapAny ==
  /\ pc = "reapany"
  /\ \/ \E i \in InState("zombie") :
          progs' = [progs EXCEPT ![i].state = "reaped"]
     \/ InState("zombie") \cup Alive = {} /\ UNCHANGED progs
  /\ pc' = "return"
  /\ UNCHANGED <<tableVars, app, pid, pipe, helper, modeVars>>

\* Back in the main loop; the call's locals are gone.
BackInLoop == pc' = "loop" /\ app' = "plain" /\ pid' = -1

\* main() creates a PCB only and does not look at the result.
ReturnToMain ==
  /\ pc = "return" /\ boot > 0
  /\ boot' = boot - 1
  /\ BackInLoop
  /\ UNCHANGED <<listed, next_pid, pipe, helper, progs, modeVars>>

GrantedOrNot == TRUE
Granted == pid # -1

DeniedDialog ==
  /\ pc = "return" /\ boot = 0 /\ ~Granted
  /\ BackInLoop
  /\ UNCHANGED <<tableVars, pipe, helper, progs, modeVars>>

\* The second fork; it may fail, and nobody looks.
LaunchApp ==
  /\ pc = "return" /\ boot = 0 /\ Granted
  /\ \/ progs' = Append(progs, [app |-> app, pid |-> pid, state |-> "forked"])
     \/ UNCHANGED progs
  /\ BackInLoop
  /\ UNCHANGED <<tableVars, pipe, helper, modeVars>>

Other(m) == IF m = "USER" THEN "KERNEL" ELSE "USER"

\* The button is pressed, and the mode is read.
OnModeToggle ==
  /\ pc = "loop" /\ boot = 0
  /\ pc' = Other(mode)
  /\ UNCHANGED <<tableVars, app, pid, pipe, helper, progs, modeVars>>

StoredAgain(m) == Other(mode)
Stored(m) == m

\* The branch that was taken says what is stored, whatever the mode is by now.
StoreToggled ==
  /\ pc \in Mode
  /\ mode' = Stored(pc)
  /\ pc' = Showing(pc)
  /\ toggled' = (toggled \/ pc = "KERNEL")
  /\ strayed' = FALSE
  /\ UNCHANGED <<tableVars, app, pid, pipe, helper, progs, button, todo>>

\* And so is the label the constant of that branch.
SetLabel ==
  /\ \E m \in Mode : pc = Showing(m) /\ button' = m
  /\ pc' = "loop"
  /\ UNCHANGED <<tableVars, app, pid, pipe, helper, progs, mode, todo, toggled,
                 strayed>>

-----------------------------------------------------------------------------
(* The helper and the programs, each an OS process.                        *)

\* read() returns the token and exit(0) follows; with the write end open and
\* nothing written it blocks.
HelperReads ==
  /\ helper = "reading" /\ pipe = "sent"
  /\ helper' = "exited"
  /\ pipe' = "none"
  /\ UNCHANGED <<tableVars, pc, app, pid, progs, modeVars>>

SetState(i, s) == progs' = [progs EXCEPT ![i].state = s]

\* execl, and the program's launch function: the console enters kernel mode.
ComesUp(i) ==
  /\ progs[i].state = "forked"
  /\ SetState(i, "up")
  /\ \/ progs[i].app = "console" /\ mode' = "KERNEL" /\ strayed' = TRUE
     \/ progs[i].app # "console" /\ UNCHANGED <<mode, strayed>>
  /\ UNCHANGED <<tableVars, callVars, button, todo, toggled>>

\* The window is closed; or execl or gtk_init failed.
Ends(i) ==
  /\ progs[i].state \in {"forked", "up"}
  /\ SetState(i, "zombie")
  /\ todo' = [todo EXCEPT ![i] = "none"]
  /\ UNCHANGED <<tableVars, callVars, mode, button, toggled, strayed>>

Console(i) == progs[i].app = "console" /\ progs[i].state = "up"

\* toggle_mode and force_kill begin with a look at the mode.
ConsoleLooks(i, intent) ==
  /\ Console(i) /\ todo[i] = "none"
  /\ (intent = Other(mode) \/ (intent = "kill" /\ mode = "KERNEL"))
  /\ todo' = [todo EXCEPT ![i] = intent]
  /\ UNCHANGED <<tableVars, callVars, progs, mode, button, toggled, strayed>>

ConsoleStores(i) ==
  /\ Console(i) /\ todo[i] \in Mode
  /\ mode' = todo[i]
  /\ strayed' = TRUE
  /\ todo' = [todo EXCEPT ![i] = "none"]
  /\ UNCHANGED <<tableVars, callVars, progs, button, toggled>>

\* get_process and terminate_process; a pid that is not listed is not found.
ForceKill(i, p) ==
  /\ Console(i) /\ todo[i] = "kill"
  /\ listed' = listed \ {p}
  /\ todo' = [todo EXCEPT ![i] = "none"]
  /\ UNCHANGED <<next_pid, boot, callVars, progs, mode, button, toggled, strayed>>

KillSelected(i, p) ==
  /\ progs[i].app = "procmanager" /\ progs[i].state = "up"
  /\ p \in listed
  /\ listed' = listed \ {p}
  /\ UNCHANGED <<next_pid, boot, callVars, progs, modeVars>>

-----------------------------------------------------------------------------
MainSteps ==
  \/ AutoStart
  \/ Admit \/ Deny \/ SendGrant \/ ForkHelper \/ ReapHelper \/ ReapAny
  \/ ReturnToMain \/ DeniedDialog \/ LaunchApp \/ StoreToggled \/ SetLabel

User ==
  \/ \E a \in App : OnAppClick(a)
  \/ OnModeToggle
  \/ \E i \in DOMAIN progs :
       \/ Ends(i)
       \/ \E intent \in Intent : ConsoleLooks(i, intent)
       \/ \E p \in 1 .. MaxPid : KillSelected(i, p)

ProgramSteps(i) ==
  ComesUp(i) \/ ConsoleStores(i) \/ \E p \in 1 .. MaxPid : ForceKill(i, p)

Next ==
  \/ MainSteps
  \/ HelperReads
  \/ User
  \/ \E i \in DOMAIN progs : ProgramSteps(i)

Spec == Init /\ [][Next]_vars

\* The kernel's main thread, the helper and the programs run when they can;
\* users do what they like.
Fairness ==
  /\ WF_vars(MainSteps)
  /\ WF_vars(HelperReads)
  /\ \A i \in 1 .. MaxPid : WF_vars(i \in DOMAIN progs /\ ProgramSteps(i))

FairSpec == Spec /\ Fairness

-----------------------------------------------------------------------------
\* Every program was admitted, as a process of its own.  (main.c:57-71)
ProgramsAdmitted ==
  \A i \in DOMAIN progs :
    /\ progs[i].pid \in 1 .. (next_pid - 1)
    /\ \A j \in DOMAIN progs : progs[i].pid = progs[j].pid => i = j

\* A program is forked only when the handshake of its own creation is over:
\* the grant read, the helper reaped, no pipe left.  (process.c:60-82)
GrantBeforeFork ==
  [][progs' # progs /\ Len(progs') > Len(progs)
       => helper = "none" /\ pipe = "none"]_vars

\* Kernel mode, and whatever a console is about to do with it, begins with the
\* desktop's button: without it no console is ever started, which would enter
\* it by itself.  (main.c:45-54, 85-91, kernelconsole.c:54, 76-87, 143-146)
KernelModeByButton ==
  ~toggled =>
    /\ mode = "USER"
    /\ \A i \in DOMAIN progs : progs[i].app # "console"
    /\ \A i \in DOMAIN todo : todo[i] = "none"

\* However the stores of the desktop and of the consoles fall between each
\* other's reads, stores and labels, the button tells the mode whenever the
\* desktop was the last to store it.  After a console's store it may be wrong,
\* until the button is used.  (main.c:85-96, 147, kernelconsole.c:76-87, 154)
ButtonTellsMode == ~strayed /\ pc \notin Labelling => button = mode

\* The desktop comes back to its main loop after every click, except that it
\* may sit in waitpid(-1), after a fork that failed, for as long as some
\* program is running.  (process.c:60-82)
DesktopReturns ==
  pc # "loop" ~> pc = "loop" \/ (pc = "reapany" /\ Alive # {})

\* process.c:81, at waitpid(real_pid): "reap immediate child".
ReapsImmediateChild == [][InState("reaped")' = InState("reaped")]_vars

\* kernelconsole.c:5: "Only accessible when shared_data->mode == KERNEL_MODE".
\* A console comes up in kernel mode only.
ConsoleInKernelMode ==
  [][\A i \in DOMAIN progs :
       progs[i].app = "console" /\ progs[i].state = "forked"
         /\ progs'[i].state = "up" => mode = "KERNEL"]_vars
=============================================================================
