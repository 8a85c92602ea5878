--------------------------- MODULE DesktopProofs ----------------------------
(***************************************************************************)
(* The admission of every program, the order of the handshake, the guard   *)
(* of kernel mode and the label of the button, for every size of the table *)
(* and any number of processes.                                            *)
(***************************************************************************)
EXTENDS Desktop, FiniteSetTheorems, TLAPS

\* What the main thread is doing says where the pipe and the helper are.
HandshakeInv ==
  /\ pc \in {"loop", "create", "return", "reapany"} \cup Mode \cup Labelling =>
       helper = "none" /\ pipe = "none"
  /\ pc = "grant" => helper = "none" /\ pipe = "open"
  /\ pc = "fork" => helper = "none" /\ pipe = "sent"
  /\ pc = "reap" => \/ helper = "reading" /\ pipe = "sent"
                    \/ helper = "exited" /\ pipe = "none"

Creating == pc \in {"grant", "fork", "reap", "reapany", "return"} /\ pid # -1

\* The pid being created is the last one issued, and no program has it yet.
PidInv ==
  /\ next_pid \in Nat \ {0}
  /\ pc \in DesktopPC
  /\ pc \in {"grant", "fork", "reap", "reapany"} => pid # -1
  /\ Creating => pid = next_pid - 1 /\ pid >= 1
  /\ progs \in Seq(Program)
  /\ \A i \in DOMAIN progs :
       progs[i].pid \in 1 .. (next_pid - 1) /\ (Creating => progs[i].pid < pid)
  /\ \A i, j \in DOMAIN progs : progs[i].pid = progs[j].pid => i = j

\* A console is clicked in kernel mode only, so after the button; and between
\* the desktop's store and its label only a console stores the mode.
ModeInv ==
  /\ app \in App /\ mode \in Mode /\ todo \in [1 .. MaxPid -> Intent]
  /\ app = "console" => toggled
  /\ KernelModeByButton
  /\ ButtonTellsMode
  /\ \A m \in Mode : ~strayed /\ pc = Showing(m) => mode = m

LEMMA InitHolds == Init => HandshakeInv /\ PidInv /\ ModeInv
  BY DEF Init, HandshakeInv, PidInv, ModeInv, Creating, DesktopPC, Program,
         App, Mode, Labelling, Showing, KernelModeByButton, ButtonTellsMode, Intent

\* The handshake follows the main thread.
LEMMA HandshakeStep == HandshakeInv /\ [Next]_vars => HandshakeInv'
<1> SUFFICES ASSUME HandshakeInv, [Next]_vars PROVE HandshakeInv'
  OBVIOUS
<1> USE DEF tableVars, callVars, modeVars, Mode, Labelling, Showing, HandshakeInv
<1>1. CASE UNCHANGED vars
  BY <1>1 DEF vars
<1>2. CASE MainSteps
  BY <1>2 DEF MainSteps, AutoStart, Admit, Deny, SendGrant, ForkHelper,
     ReapHelper, ReapAny, ReturnToMain, DeniedDialog, LaunchApp, StoreToggled,
     SetLabel, BackInLoop, Sent, AfterFork
<1>3. CASE HelperReads
  BY <1>3 DEF HelperReads
<1>4. CASE User
  BY <1>4 DEF User, OnAppClick, OnModeToggle, Other, Ends, ConsoleLooks,
     KillSelected
<1>5. CASE \E i \in DOMAIN progs : ProgramSteps(i)
  BY <1>5 DEF ProgramSteps, ComesUp, ConsoleStores, ForceKill
<1> QED
  BY <1>1, <1>2, <1>3, <1>4, <1>5 DEF Next

\* Changing the state of a program leaves its identity alone.
LEMMA StateChange ==
  ASSUME progs \in Seq(Program), NEW i \in DOMAIN progs,
         NEW s \in {"forked", "up", "zombie", "reaped"},
         progs' = [progs EXCEPT ![i].state = s]
  PROVE  /\ progs' \in Seq(Program)
         /\ DOMAIN progs' = DOMAIN progs
         /\ \A j \in DOMAIN progs :
              /\ progs'[j].pid = progs[j].pid /\ progs'[j].app = progs[j].app
              /\ progs'[j].state = IF j = i THEN s ELSE progs[j].state
<1> DEFINE q == [progs[i] EXCEPT !.state = s]
<1>1. progs[i] \in Program
  OBVIOUS
<1>2. /\ q \in Program /\ q.state = s
      /\ q.pid = progs[i].pid /\ q.app = progs[i].app
  BY <1>1 DEF Program
<1>3. progs' = [progs EXCEPT ![i] = q]
  OBVIOUS
<1> HIDE DEF q
<1>4. progs' \in Seq(Program) /\ DOMAIN progs' = DOMAIN progs
  BY <1>2, <1>3
<1>5. \A j \in DOMAIN progs : progs'[j] = IF j = i THEN q ELSE progs[j]
  BY <1>3
<1> QED
  BY <1>2, <1>4, <1>5

\* A new program is the last of progs.
LEMMA Appended ==
  ASSUME progs \in Seq(Program), NEW p \in Program, progs' = Append(progs, p)
  PROVE  /\ progs' \in Seq(Program)
         /\ DOMAIN progs' = DOMAIN progs \cup {Len(progs) + 1}
         /\ \A j \in DOMAIN progs : progs'[j] = progs[j]
         /\ progs'[Len(progs) + 1] = p
         /\ Len(progs) + 1 \notin DOMAIN progs
  OBVIOUS

\* Pids go up, and a program takes the pid just issued.
LEMMA PidStep == PidInv /\ app \in App /\ [Next]_vars => PidInv'
<1> SUFFICES ASSUME PidInv, app \in App, [Next]_vars PROVE PidInv'
  OBVIOUS
<1> USE DEF PidInv, Creating, DesktopPC, Mode, Labelling, Showing, tableVars, callVars, modeVars
<1>1. CASE UNCHANGED vars
  BY <1>1 DEF vars
<1>2. CASE MainSteps
  <2>1. CASE AutoStart
    BY <2>1 DEF AutoStart
  <2>2. CASE Admit
    BY <2>2 DEF Admit, HasSlot
  <2>3. CASE Deny
    BY <2>3 DEF Deny
  <2>4. CASE SendGrant \/ ForkHelper \/ ReapHelper
    BY <2>4 DEF SendGrant, ForkHelper, ReapHelper, AfterFork
  <2>5. CASE ReapAny
    <3>1. CASE UNCHANGED progs
      BY <2>5, <3>1 DEF ReapAny
    <3>2. ASSUME NEW i \in InState("zombie"),
                 progs' = [progs EXCEPT ![i].state = "reaped"]
          PROVE  PidInv'
      <4>1. i \in DOMAIN progs
        BY <3>2 DEF InState
      <4>2. /\ progs' \in Seq(Program)
            /\ DOMAIN progs' = DOMAIN progs
            /\ \A j \in DOMAIN progs : progs'[j].pid = progs[j].pid
        BY <3>2, <4>1, StateChange
      <4>3. /\ pc = "reapany" /\ pc' = "return"
            /\ UNCHANGED <<next_pid, pid>>
        BY <2>5 DEF ReapAny
      <4> QED
        BY <4>2, <4>3
    <3> QED
      BY <2>5, <3>1, <3>2 DEF ReapAny
  <2>6. CASE ReturnToMain \/ DeniedDialog
    BY <2>6 DEF ReturnToMain, DeniedDialog, BackInLoop
  <2>7. CASE LaunchApp
    <3> DEFINE p == [app |-> app, pid |-> pid, state |-> "forked"]
    <3>1. pid \in Int /\ p \in Program
      BY <2>7 DEF LaunchApp, Granted, Program
    <3>2. CASE UNCHANGED progs
      BY <2>7, <3>2 DEF LaunchApp, BackInLoop
    <3>3. CASE progs' = Append(progs, p)
      BY <2>7, <3>1, <3>3, Appended DEF LaunchApp, Granted, BackInLoop
    <3> QED
      BY <2>7, <3>2, <3>3 DEF LaunchApp
  <2>8. CASE StoreToggled \/ SetLabel
    BY <2>8 DEF StoreToggled, SetLabel
  <2> QED
    BY <1>2, <2>1, <2>2, <2>3, <2>4, <2>5, <2>6, <2>7, <2>8 DEF MainSteps
<1>3. CASE HelperReads
  BY <1>3 DEF HelperReads
<1>4. CASE \E a \in App : OnAppClick(a)
  BY <1>4 DEF OnAppClick
<1>5. CASE OnModeToggle
  BY <1>5 DEF OnModeToggle, Other
<1>6. ASSUME NEW i \in DOMAIN progs, Ends(i) \/ ComesUp(i) PROVE PidInv'
  <2>1. PICK s \in {"up", "zombie"} : progs' = [progs EXCEPT ![i].state = s]
    BY <1>6 DEF Ends, ComesUp, SetState
  <2>2. /\ progs' \in Seq(Program) /\ DOMAIN progs' = DOMAIN progs
        /\ \A j \in DOMAIN progs : progs'[j].pid = progs[j].pid
    BY <2>1, StateChange
  <2>3. UNCHANGED <<next_pid, pc, pid>>
    BY <1>6 DEF Ends, ComesUp
  <2> QED
    BY <2>2, <2>3
<1>7. ASSUME NEW i \in DOMAIN progs,
             \/ \E intent \in Intent : ConsoleLooks(i, intent)
             \/ ConsoleStores(i)
             \/ \E q \in 1 .. MaxPid : ForceKill(i, q) \/ KillSelected(i, q)
      PROVE  PidInv'
  <2>1. UNCHANGED <<next_pid, callVars, progs>>
    BY <1>7 DEF ConsoleLooks, ConsoleStores, ForceKill, KillSelected
  <2> QED
    BY <2>1
<1> HIDE DEF PidInv
<1> QED
  BY <1>1, <1>2, <1>3, <1>4, <1>5, <1>6, <1>7 DEF Next, User, ProgramSteps

\* Kernel mode and consoles come after the button, and the button is wrong
\* only after a console's store.
LEMMA ModeStep == PidInv /\ ModeInv /\ [Next]_vars => ModeInv'
<1> SUFFICES ASSUME PidInv, ModeInv, [Next]_vars PROVE ModeInv'
  OBVIOUS
<1> USE DEF ModeInv, KernelModeByButton, ButtonTellsMode, App, Mode, Intent,
        Labelling, Showing, tableVars, callVars, modeVars
<1>1. CASE UNCHANGED vars
  BY <1>1 DEF vars
<1>2. CASE MainSteps
  <2>1. CASE AutoStart \/ Admit \/ Deny \/ SendGrant \/ ForkHelper \/ ReapHelper
               \/ ReturnToMain \/ DeniedDialog
    <3>1. /\ pc \notin Labelling /\ pc' \notin Labelling
          /\ UNCHANGED <<modeVars, progs>> /\ app' \in {app, "plain"}
      BY <2>1 DEF AutoStart, Admit, Deny, SendGrant, ForkHelper, AfterFork,
         ReapHelper, ReturnToMain, DeniedDialog, BackInLoop
    <3> QED
      BY <3>1
  <2>2. CASE ReapAny
    <3>1. CASE UNCHANGED progs
      BY <2>2, <3>1 DEF ReapAny
    <3>2. ASSUME NEW i \in InState("zombie"),
                 progs' = [progs EXCEPT ![i].state = "reaped"]
          PROVE  ModeInv'
      BY <2>2, <3>2, StateChange DEF ReapAny, InState, PidInv
    <3> QED
      BY <2>2, <3>1, <3>2 DEF ReapAny
  <2>3. CASE LaunchApp
    <3> DEFINE p == [app |-> app, pid |-> pid, state |-> "forked"]
    <3>1. p \in Program
      BY <2>3 DEF LaunchApp, Granted, Program, PidInv, Creating
    <3>2. CASE UNCHANGED progs
      BY <2>3, <3>2 DEF LaunchApp, BackInLoop
    <3>3. CASE progs' = Append(progs, p)
      BY <2>3, <3>1, <3>3, Appended DEF LaunchApp, BackInLoop, PidInv
    <3> QED
      BY <2>3, <3>2, <3>3 DEF LaunchApp
  <2>4. CASE StoreToggled
    BY <2>4 DEF StoreToggled, Stored
  <2>5. CASE SetLabel
    BY <2>5 DEF SetLabel
  <2> QED
    BY <1>2, <2>1, <2>2, <2>3, <2>4, <2>5 DEF MainSteps
<1>3. CASE HelperReads
  BY <1>3 DEF HelperReads
<1>4. CASE \E a \in App : OnAppClick(a)
  BY <1>4 DEF OnAppClick, Refused
<1>5. CASE OnModeToggle
  BY <1>5 DEF OnModeToggle, Other
<1>6. ASSUME NEW i \in DOMAIN progs, Ends(i) \/ ComesUp(i) PROVE ModeInv'
  <2>1. CASE Ends(i)
    <3>1. /\ DOMAIN progs' = DOMAIN progs
          /\ \A j \in DOMAIN progs :
               /\ progs'[j].app = progs[j].app
               /\ progs[j].state # "forked" => progs'[j].state # "forked"
      BY <2>1, StateChange DEF Ends, SetState, PidInv
    <3> QED
      BY <2>1, <3>1 DEF Ends
  <2>2. CASE ComesUp(i)
    <3> HIDE DEF ModeInv
    <3>1. progs \in Seq(Program) /\ progs' = [progs EXCEPT ![i].state = "up"]
      BY <2>2 DEF ComesUp, SetState, PidInv
    <3>2. /\ DOMAIN progs' = DOMAIN progs
          /\ \A j \in DOMAIN progs :
               /\ progs'[j].app = progs[j].app
               /\ progs'[j].state = IF j = i THEN "up" ELSE progs[j].state
      BY <3>1, StateChange
    <3> QED
      BY <2>2, <3>2 DEF ComesUp, ModeInv
  <2> QED
    BY <1>6, <2>1, <2>2
<1>7. ASSUME NEW i \in DOMAIN progs,
             \/ \E intent \in Intent : ConsoleLooks(i, intent)
             \/ ConsoleStores(i)
             \/ \E q \in 1 .. MaxPid : ForceKill(i, q)
      PROVE  ModeInv'
  BY <1>7 DEF ConsoleLooks, ConsoleStores, ForceKill, Console
<1>8. ASSUME NEW i \in DOMAIN progs, NEW q \in 1 .. MaxPid, KillSelected(i, q)
      PROVE  ModeInv'
  BY <1>8 DEF KillSelected
<1> HIDE DEF ModeInv
<1> QED
  BY <1>1, <1>2, <1>3, <1>4, <1>5, <1>6, <1>7, <1>8 DEF Next, User, ProgramSteps

\* All three together.
LEMMA Invariants == Spec => [](HandshakeInv /\ PidInv /\ ModeInv)
<1>1. HandshakeInv /\ PidInv /\ ModeInv /\ [Next]_vars
        => (HandshakeInv /\ PidInv /\ ModeInv)'
  BY HandshakeStep, PidStep, ModeStep DEF ModeInv
<1> QED
  BY InitHolds, <1>1, PTL DEF Spec

\* The types that no invariant above holds.
TableTypes ==
  /\ listed \subseteq 1 .. (next_pid - 1) /\ Cardinality(listed) <= MAX_PROC
  /\ boot \in 0 .. AutoStarted
  /\ pid \in Int /\ pipe \in PipeState /\ helper \in HelperState
  /\ button \in Mode /\ toggled \in BOOLEAN /\ strayed \in BOOLEAN

LEMMA ListedFinite ==
  ASSUME PidInv, TableTypes
  PROVE  IsFiniteSet(listed)
<1>1. 1 \in Int /\ next_pid - 1 \in Int
  BY DEF PidInv
<1>2. IsFiniteSet(1 .. (next_pid - 1))
  BY <1>1, FS_Interval
<1> QED
  BY <1>2, FS_Subset DEF TableTypes

\* Taking a pid off the table.
LEMMA Unlisted ==
  ASSUME PidInv, TableTypes, NEW p, listed' = listed \ {p},
         UNCHANGED <<next_pid, boot, callVars, button, toggled, strayed>>
  PROVE  TableTypes'
<1>1. IsFiniteSet(listed)
  BY ListedFinite
<1>2. Cardinality(listed) \in Nat
  BY <1>1, FS_CardinalityType
<1>3. Cardinality(listed \ {p}) <= Cardinality(listed)
      /\ Cardinality(listed \ {p}) \in Nat
  <2>1. listed \ {p} \in SUBSET listed
    OBVIOUS
  <2> QED
    BY <1>1, <2>1, FS_Subset, FS_CardinalityType
<1>4. Cardinality(listed') <= MAX_PROC
  <2>1. Cardinality(listed') = Cardinality(listed \ {p})
    OBVIOUS
  <2>2. MAX_PROC \in Nat /\ Cardinality(listed) <= MAX_PROC
    BY DesktopAssumption DEF TableTypes
  <2> QED
    BY <1>2, <1>3, <2>1, <2>2
<1> QED
  BY <1>4 DEF TableTypes, callVars

LEMMA TypesStep ==
  PidInv /\ ModeInv /\ TableTypes /\ [Next]_vars => TableTypes'
<1> SUFFICES ASSUME PidInv, ModeInv, TableTypes, [Next]_vars PROVE TableTypes'
  OBVIOUS
<1>0. next_pid \in Nat \ {0} /\ AutoStarted \in Nat /\ MAX_PROC \in Nat
  BY DesktopAssumption DEF PidInv
<1>1. CASE UNCHANGED vars
  BY <1>1 DEF vars, tableVars, callVars, modeVars, TableTypes
<1>2. CASE Admit
  <2>1. next_pid \notin listed
    BY <1>0 DEF TableTypes
  <2>2. Cardinality(listed \cup {next_pid}) = Cardinality(listed) + 1
        /\ Cardinality(listed) \in Nat
    BY <2>1, ListedFinite, FS_AddElement, FS_CardinalityType
  <2>3. Cardinality(listed') <= MAX_PROC
    <3>1. Cardinality(listed') = Cardinality(listed \cup {next_pid})
      BY <1>2 DEF Admit
    <3>2. Cardinality(listed) < MAX_PROC
      BY <1>2 DEF Admit, HasSlot
    <3> QED
      BY <1>0, <2>2, <3>1, <3>2
  <2>4. listed' \subseteq 1 .. (next_pid' - 1)
    BY <1>0, <1>2 DEF Admit, TableTypes
  <2>5. pid' \in Int /\ pipe' \in PipeState
    BY <1>0, <1>2 DEF Admit, PipeState
  <2>6. UNCHANGED <<boot, helper, button, toggled, strayed>>
    BY <1>2 DEF Admit, modeVars
  <2> QED
    BY <2>3, <2>4, <2>5, <2>6 DEF TableTypes
<1>3. ASSUME NEW i \in DOMAIN progs, NEW p \in 1 .. MaxPid,
             ForceKill(i, p) \/ KillSelected(i, p)
      PROVE  TableTypes'
  BY <1>3, Unlisted DEF ForceKill, KillSelected, modeVars
<1>4. ASSUME UNCHANGED <<listed, next_pid>>,
             boot' \in {boot, boot - 1} /\ (boot' # boot => boot > 0),
             pid' \in {pid, -1}, pipe' \in PipeState, helper' \in HelperState,
             button' \in Mode, toggled' \in BOOLEAN, strayed' \in BOOLEAN
      PROVE  TableTypes'
  <2>1. boot' \in 0 .. AutoStarted
    BY <1>0, <1>4 DEF TableTypes
  <2>2. pid' \in Int
    BY <1>4 DEF TableTypes
  <2>3. Cardinality(listed') <= MAX_PROC
    BY <1>4 DEF TableTypes
  <2> QED
    BY <1>4, <2>1, <2>2, <2>3 DEF TableTypes
<1>5. CASE \/ AutoStart \/ Deny \/ SendGrant \/ ForkHelper \/ ReapHelper \/ ReapAny
           \/ ReturnToMain \/ DeniedDialog \/ LaunchApp \/ StoreToggled \/ SetLabel
  BY <1>5, <1>4 DEF AutoStart, Deny, SendGrant, ForkHelper, ReapHelper, ReapAny,
     ReturnToMain, DeniedDialog, LaunchApp, StoreToggled, SetLabel, BackInLoop,
     Sent, tableVars, modeVars, PipeState, HelperState, TableTypes
<1>6. CASE HelperReads \/ OnModeToggle \/ \E a \in App : OnAppClick(a)
  BY <1>6, <1>4 DEF HelperReads, OnModeToggle, OnAppClick, tableVars, callVars,
     modeVars, PipeState, HelperState, TableTypes
<1>7. ASSUME NEW i \in DOMAIN progs,
             \/ Ends(i) \/ ComesUp(i) \/ ConsoleStores(i)
             \/ \E intent \in Intent : ConsoleLooks(i, intent)
      PROVE  TableTypes'
  BY <1>7, <1>4 DEF Ends, ComesUp, ConsoleStores, ConsoleLooks, tableVars,
     callVars, TableTypes
<1> QED
  BY <1>1, <1>2, <1>3, <1>5, <1>6, <1>7 DEF Next, MainSteps, User, ProgramSteps

LEMMA TypesAlways == Spec => []TableTypes
<1>1. Init => TableTypes
  <2>1. Cardinality({}) = 0
    BY FS_EmptySet
  <2>2. MAX_PROC \in Nat \ {0} /\ AutoStarted \in Nat
    BY DesktopAssumption
  <2> SUFFICES ASSUME Init PROVE TableTypes
    OBVIOUS
  <2>4. Cardinality(listed) <= MAX_PROC
    BY <2>1, <2>2 DEF Init
  <2>5. listed \subseteq 1 .. (next_pid - 1) /\ boot \in 0 .. AutoStarted
    BY <2>2 DEF Init
  <2>6. pid \in Int
    BY DEF Init
  <2>7. pipe \in PipeState /\ helper \in HelperState /\ button \in Mode
    BY DEF Init, PipeState, HelperState, Mode
  <2>8. toggled \in BOOLEAN /\ strayed \in BOOLEAN
    BY DEF Init
  <2> QED
    BY <2>4, <2>5, <2>6, <2>7, <2>8 DEF TableTypes
<1> QED
  BY Invariants, TypesStep, <1>1, PTL DEF Spec

\* Types; in particular the table has no more entries than slots, whatever is
\* killed from consoles and managers while programs are created.
THEOREM DesktopTypeCorrect == Spec => []TypeOK
<1>1. PidInv /\ ModeInv /\ TableTypes => TypeOK
  BY DEF PidInv, ModeInv, TableTypes, TypeOK
<1> QED
  BY Invariants, TypesAlways, <1>1, PTL

\* Every program was admitted, and no two under the same pid.
THEOREM EveryProgramAdmitted == Spec => []ProgramsAdmitted
<1>1. PidInv => ProgramsAdmitted
  BY DEF PidInv, ProgramsAdmitted
<1> QED
  BY Invariants, <1>1, PTL

\* Kernel mode, and any console, come after the desktop's button was used.
THEOREM ButtonGuardsKernelMode == Spec => []KernelModeByButton
<1>1. ModeInv => KernelModeByButton
  BY DEF ModeInv
<1> QED
  BY Invariants, <1>1, PTL

\* The desktop's button tells the mode whenever the desktop was the last to
\* store it.
THEOREM ButtonIsRight == Spec => []ButtonTellsMode
<1>1. ModeInv => ButtonTellsMode
  BY DEF ModeInv
<1> QED
  BY Invariants, <1>1, PTL

\* No program is forked while the handshake of its creation is going on.
THEOREM HandshakeFirst == Spec => GrantBeforeFork
<1>1. HandshakeInv /\ PidInv /\ [Next]_vars
        => [progs' # progs /\ Len(progs') > Len(progs)
              => helper = "none" /\ pipe = "none"]_vars
  <2> SUFFICES ASSUME HandshakeInv, PidInv, Next, Len(progs') > Len(progs)
               PROVE  helper = "none" /\ pipe = "none"
    BY DEF vars
  <2>1. progs \in Seq(Program)
    BY DEF PidInv
  <2>2. ~UNCHANGED progs
    BY <2>1
  <2>3. ASSUME NEW i \in DOMAIN progs,
               NEW s \in {"forked", "up", "zombie", "reaped"},
               progs' = [progs EXCEPT ![i].state = s]
        PROVE  FALSE
    BY <2>1, <2>3 DEF Program
  <2>4. LaunchApp
    BY <2>2, <2>3 DEF Next, MainSteps, User, AutoStart, Admit, Deny, SendGrant,
       ForkHelper, ReapHelper, ReapAny, ReturnToMain, DeniedDialog, HelperReads,
       OnAppClick, OnModeToggle, Ends, ConsoleLooks, KillSelected, StoreToggled,
       SetLabel, ProgramSteps, ComesUp, ConsoleStores, ForceKill, SetState, InState
  <2> QED
    BY <2>4 DEF LaunchApp, HandshakeInv
<1> QED
  BY Invariants, <1>1, PTL DEF Spec, GrantBeforeFork
=============================================================================
