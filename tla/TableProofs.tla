----------------------------- MODULE TableProofs ----------------------------
(***************************************************************************)
(* create_process and terminate_process implement ResourceTable, and write *)
(* the table as Readers has it: proofs of AtomicTable, of what follows for *)
(* the books, and of WrittenAsRead, for every number of slots, resources,  *)
(* apps and managers.                                                      *)
(***************************************************************************)
EXTENDS TojiOSProofs, Sums

\* What the main thread of the kernel knows of the table.
KernelSound ==
  /\ kpc \notin {"load", "store"} => kres = 1
  /\ kpc = "bump" => kslot = proc_count
  /\ kpc \in {"fill", "load", "store"} => proc_count = kslot + 1
  /\ kpc \in {"load", "store"} => /\ procs[kslot].pid = next_pid - 1
                                 /\ procs[kslot].req = kapp.req
  /\ kpc = "store" => kreg = avail[kres]
  /\ kpc \in {"claim", "bump", "fill"} => BankerCheck(kapp.req)
  /\ kpc \in {"load", "store"} =>
       \A r \in Res : r >= kres => avail[r] >= kapp.req[r]

\* What a manager knows of it.
ManagerSound(m) ==
  /\ mpc[m] \notin {"load", "store"} => mres[m] = 1
  /\ mpc[m] \in {"load", "store", "drop", "newcount"} => mslot[m] < proc_count
  /\ mpc[m] = "store" => mreg[m] = avail[mres[m]]
  /\ mpc[m] = "newcount" => mreg[m] = proc_count - 1
  /\ mpc[m] = "copy" => mslot[m] <= proc_count /\ mreg[m] = proc_count

\* The pids of the processes that hold resources are pairwise different, and
\* were all given away.
PidsSound ==
  /\ \A i \in HoldingSlots : procs[i].pid <= Issued
  /\ \A i, j \in HoldingSlots : procs[i].pid = procs[j].pid => i = j

Sound ==
  /\ ~Overlapping
  /\ proc_count >= 0
  /\ NoneNegative
  /\ KernelSound
  /\ \A m \in Managers : ManagerSound(m)
  /\ PidsSound

\* It holds as long as no two programs were inside their sections together.
SoundInv == ~overlap => Sound

-----------------------------------------------------------------------------
(* What is being returned is what the one manager inside holds.            *)

LEMMA ReturnedOne ==
  ASSUME ~Overlapping, NEW r \in Res, NEW m \in Managers, Returning(m, r)
  PROVE  Returned(r) = procs[mslot[m]].req[r]
<1>1. \A n \in Managers : Returning(n, r) => n = m
  BY DEF Overlapping, ManagersCross, ManagerInside, Returning
<1>2. m = CHOOSE n \in Managers : Returning(n, r)
  BY <1>1
<1>3. QED
  BY <1>2 DEF Returned

LEMMA ReturnedNone ==
  ASSUME NEW r \in Res, \A m \in Managers : ~Returning(m, r)
  PROVE  Returned(r) = 0
  BY DEF Returned

LEMMA ReturnedOneNext ==
  ASSUME ~Overlapping', NEW r \in Res, NEW m \in Managers, Returning(m, r)'
  PROVE  Returned(r)' = procs'[mslot'[m]].req[r]
<1>1. \A n \in Managers : Returning(n, r)' => n = m
  BY DEF Overlapping, ManagersCross, ManagerInside, Returning
<1>2. m = CHOOSE n \in Managers : Returning(n, r)'
  BY <1>1
<1>3. QED
  BY <1>2 DEF Returned

LEMMA ReturnedNoneNext ==
  ASSUME NEW r \in Res, \A m \in Managers : ~Returning(m, r)'
  PROVE  Returned(r)' = 0
  BY DEF Returned

LEMMA ReturnedKept ==
  ASSUME ~Overlapping, ~Overlapping', NEW r \in Res,
         \A m \in Managers : Returning(m, r)' <=> Returning(m, r),
         \A m \in Managers : Returning(m, r) =>
           procs'[mslot'[m]].req[r] = procs[mslot[m]].req[r]
  PROVE  Returned(r)' = Returned(r)
<1>1. CASE \E m \in Managers : Returning(m, r)
  <2>1. PICK m \in Managers : Returning(m, r)
    BY <1>1
  <2>2. QED
    BY <2>1, ReturnedOne, ReturnedOneNext
<1>2. CASE \A m \in Managers : ~Returning(m, r)
  BY <1>2, ReturnedNone, ReturnedNoneNext
<1>3. QED
  BY <1>1, <1>2

-----------------------------------------------------------------------------
(* Steps that touch no counter and stay out of the sections, or are the    *)
(* dispatcher's: they can change only the states of PCBs.                  *)

LEMMA QuietStep ==
  ASSUME TypeInv, Sound,
         UNCHANGED <<proc_count, next_pid, avail, kres, mpid, mslot, mres, mreg>>,
         \A i \in Slots : /\ procs'[i].pid = procs[i].pid
                          /\ procs'[i].req = procs[i].req,
         \A m \in Managers :
           mpc'[m] = mpc[m] \/ {mpc[m], mpc'[m]} \subseteq {"off", "idle"},
         UNCHANGED kernelVars \/ (~KernelInside /\ ~KernelInside'),
         kpc' = "claim" => BankerCheck(kapp.req)'
  PROVE  Sound' /\ UNCHANGED <<Free, Held, Issued>>
<1>1. KernelInside' <=> KernelInside
  BY DEF kernelVars, KernelInside
<1>2. \A m \in Managers : ManagerInside(m)' <=> ManagerInside(m)
  BY DEF ManagerInside
<1>3. ~Overlapping'
  BY <1>1, <1>2 DEF Sound, Overlapping, ManagersCross
<1>4. HoldingSlots' = HoldingSlots
  BY DEF HoldingSlots, kernelVars, KernelInside
<1>5. UNCHANGED Issued
  BY DEF Issued, kernelVars, KernelInside
<1>6. UNCHANGED Held
  BY <1>4 DEF Held, HoldingSlots
<1>7. UNCHANGED Free
  <2>1. ASSUME NEW r \in Res PROVE Charged(r)' = Charged(r)
    BY DEF Charged, kernelVars, KernelInside
  <2>2. ASSUME NEW r \in Res PROVE Returned(r)' = Returned(r)
    <3>1. \A m \in Managers : Returning(m, r)' <=> Returning(m, r)
      BY DEF Returning
    <3>2. \A m \in Managers : Returning(m, r) => mslot[m] \in Slots
      BY DEF Returning, TypeInv, SlotsFound, FoundPC
    <3>3. QED
      BY <1>3, <3>1, <3>2, ReturnedKept DEF Sound
  <2>3. QED
    BY <2>1, <2>2 DEF Free
<1>8. KernelSound'
  <2>1. kslot \in Slots
    BY DEF TypeInv, TypeOK, ProcessTypeOK
  <2>2. CASE UNCHANGED kernelVars
    BY <2>1, <2>2 DEF Sound, KernelSound, BankerCheck, kernelVars
  <2>3. CASE ~KernelInside'
    BY <1>1, <2>3 DEF Sound, KernelSound, KernelInside
  <2>4. QED
    BY <1>1, <2>2, <2>3
<1>9. \A m \in Managers : ManagerSound(m)'
  BY DEF Sound, ManagerSound
<1>10. PidsSound'
  BY <1>4, <1>5 DEF Sound, PidsSound, HoldingSlots
<1>11. QED
  BY <1>3, <1>5, <1>6, <1>7, <1>8, <1>9, <1>10 DEF Sound, NoneNegative

-----------------------------------------------------------------------------
(* create_process, alone inside.                                           *)

LEMMA KernelAlone ==
  ASSUME TypeInv, Sound, ~Overlapping', KernelInside', UNCHANGED managerVars
  PROVE  /\ \A m \in Managers : ~ManagerInside(m) /\ ~ManagerInside(m)'
         /\ \A r \in Res : Returned(r) = 0 /\ Returned(r)' = 0
<1>1. \A m \in Managers : ~ManagerInside(m) /\ ~ManagerInside(m)'
  BY DEF Overlapping, ManagerInside, managerVars
<1>2. \A m \in Managers, r \in Res : ~Returning(m, r) /\ ~Returning(m, r)'
  BY <1>1 DEF Returning, ManagerInside
<1>3. QED
  BY <1>1, <1>2, ReturnedNone, ReturnedNoneNext

LEMMA OutsideSound ==
  ASSUME Sound, NEW m \in Managers, ~ManagerInside(m), UNCHANGED managerVars
  PROVE  ManagerSound(m)'
  BY DEF Sound, ManagerInside, ManagerSound, managerVars

LEMMA ClaimStep ==
  ASSUME TypeInv, Sound, ~Overlapping', ClaimSlot
  PROVE  Sound' /\ UNCHANGED <<Free, Held, Issued>>
<1>1. CASE kpc' = "denied"
  BY <1>1, QuietStep DEF ClaimSlot, KernelInside, sharedVars, managerVars
<1>2. CASE kpc' = "bump" /\ kslot' = proc_count
  <2>1. KernelInside' /\ UNCHANGED <<sharedVars, managerVars>>
    BY <1>2 DEF ClaimSlot, KernelInside, sharedVars
  <2>2. /\ \A m \in Managers : ~ManagerInside(m) /\ ~ManagerInside(m)'
        /\ \A r \in Res : Returned(r) = 0 /\ Returned(r)' = 0
    BY <2>1, KernelAlone
  <2>3. HoldingSlots' = HoldingSlots
    BY <1>2, <2>1 DEF ClaimSlot, HoldingSlots, sharedVars, managerVars
  <2>4. UNCHANGED <<Held, Issued>>
    BY <1>2, <2>1, <2>3 DEF ClaimSlot, Held, Issued, sharedVars
  <2>5. UNCHANGED Free
    BY <1>2, <2>1, <2>2 DEF ClaimSlot, Free, Charged, sharedVars
  <2>6. KernelSound'
    BY <1>2, <2>1 DEF ClaimSlot, Sound, KernelSound, BankerCheck, sharedVars
  <2>7. \A m \in Managers : ManagerSound(m)'
    BY <2>1, <2>2, OutsideSound
  <2>8. PidsSound'
    BY <2>1, <2>3, <2>4 DEF Sound, PidsSound, sharedVars
  <2>9. QED
    BY <2>1, <2>4, <2>5, <2>6, <2>7, <2>8 DEF Sound, NoneNegative, sharedVars
<1>3. ~(proc_count < 0)
  BY DEF Sound, TypeInv, TypeOK, ProcessTypeOK
<1>4. QED
  BY <1>1, <1>2, <1>3 DEF ClaimSlot

LEMMA CountStep ==
  ASSUME TypeInv, Sound, ~Overlapping', StoreCount
  PROVE  Sound' /\ UNCHANGED <<Free, Held, Issued>>
<1>1. KernelInside' /\ UNCHANGED managerVars
  BY DEF StoreCount, KernelInside
<1>2. /\ \A m \in Managers : ~ManagerInside(m) /\ ~ManagerInside(m)'
      /\ \A r \in Res : Returned(r) = 0 /\ Returned(r)' = 0
  BY <1>1, KernelAlone
<1>3. kslot = proc_count /\ proc_count \in Nat
  BY DEF StoreCount, Sound, KernelSound, TypeInv, TypeOK, ProcessTypeOK
<1>4. HoldingSlots' = HoldingSlots
  BY <1>2, <1>3 DEF StoreCount, HoldingSlots, ManagerInside, Slots
<1>5. UNCHANGED <<Held, Issued>>
  BY <1>4 DEF StoreCount, Held, Issued
<1>6. UNCHANGED Free
  BY <1>2 DEF StoreCount, Free, Charged
<1>7. KernelSound'
  BY DEF StoreCount, Sound, KernelSound, BankerCheck
<1>8. \A m \in Managers : ManagerSound(m)'
  BY <1>1, <1>2, OutsideSound
<1>9. PidsSound'
  BY <1>4, <1>5 DEF StoreCount, Sound, PidsSound
<1>10. QED
  BY <1>3, <1>5, <1>6, <1>7, <1>8, <1>9 DEF StoreCount, Sound, NoneNegative

LEMMA FillStep ==
  ASSUME TypeInv, Sound, ~Overlapping', FillSlot
  PROVE  Sound' /\ UNCHANGED <<Free, Held, Issued>>
<1>1. KernelInside' /\ UNCHANGED managerVars
  BY DEF FillSlot, KernelInside
<1>2. /\ \A m \in Managers : ~ManagerInside(m) /\ ~ManagerInside(m)'
      /\ \A r \in Res : Returned(r) = 0 /\ Returned(r)' = 0
  BY <1>1, KernelAlone
<1>3. /\ kslot \in Slots /\ next_pid \in Nat /\ kres \in Res
      /\ procs \in [Slots -> Process] /\ proc_count \in Int
  BY DEF TypeInv, TypeOK, ProcessTypeOK
<1>4. HoldingSlots' = HoldingSlots /\ kslot \notin HoldingSlots
  BY <1>2, <1>3 DEF FillSlot, HoldingSlots, ManagerInside
<1>5. \A i \in HoldingSlots : procs'[i] = procs[i]
  BY <1>3, <1>4 DEF FillSlot, HoldingSlots
<1>6. UNCHANGED Issued
  BY <1>3 DEF FillSlot, Issued
<1>7. UNCHANGED Held
  BY <1>4, <1>5 DEF Held
<1>8. UNCHANGED Free
  BY <1>2, <1>3 DEF FillSlot, Free, Charged, Sound, KernelSound, Res
<1>9. KernelSound'
  <2>1. procs'[kslot].pid = next_pid' - 1 /\ procs'[kslot].req = kapp'.req
    BY <1>3 DEF FillSlot
  <2>2. QED
    BY <2>1 DEF FillSlot, Sound, KernelSound, BankerCheck
<1>10. \A m \in Managers : ManagerSound(m)'
  BY <1>1, <1>2, OutsideSound
<1>11. PidsSound'
  BY <1>4, <1>5, <1>6 DEF Sound, PidsSound
<1>12. QED
  BY <1>6, <1>7, <1>8, <1>9, <1>10, <1>11 DEF FillSlot, Sound, NoneNegative

LEMMA LoadAvailStep ==
  ASSUME TypeInv, Sound, ~Overlapping', LoadAvail
  PROVE  Sound' /\ UNCHANGED <<Free, Held, Issued>>
<1>1. KernelInside' /\ UNCHANGED <<sharedVars, managerVars>>
  BY DEF LoadAvail, KernelInside
<1>2. /\ \A m \in Managers : ~ManagerInside(m) /\ ~ManagerInside(m)'
      /\ \A r \in Res : Returned(r) = 0 /\ Returned(r)' = 0
  BY <1>1, KernelAlone
<1>3. HoldingSlots' = HoldingSlots
  BY <1>1 DEF LoadAvail, HoldingSlots, sharedVars, managerVars
<1>4. UNCHANGED <<Held, Issued>>
  BY <1>1, <1>3 DEF LoadAvail, Held, Issued, sharedVars
<1>5. UNCHANGED Free
  BY <1>1, <1>2 DEF LoadAvail, Free, Charged, sharedVars
<1>6. KernelSound'
  BY <1>1 DEF LoadAvail, Sound, KernelSound, sharedVars
<1>7. \A m \in Managers : ManagerSound(m)'
  BY <1>1, <1>2, OutsideSound
<1>8. PidsSound'
  BY <1>1, <1>3, <1>4 DEF Sound, PidsSound, sharedVars
<1>9. NoneNegative' /\ proc_count' >= 0
  BY <1>1 DEF Sound, NoneNegative, sharedVars
<1>10. QED
  BY <1>4, <1>5, <1>6, <1>7, <1>8, <1>9 DEF Sound

\* The last store of a creation is the admission.
Admission(d) ==
  /\ \A r \in Res : d[r] <= Free[r]
  /\ Free' = [r \in Res |-> Free[r] - d[r]]
  /\ Issued' = Issued + 1
  /\ Held' = Held \cup {<<Issued + 1, d>>}

LEMMA StoreAvailStep ==
  ASSUME TypeInv, Sound, ~Overlapping', StoreAvail
  PROVE  Sound' /\ (UNCHANGED <<Free, Held, Issued>> \/ Admission(kapp.req))
<1>1. /\ kslot \in Slots /\ kres \in Res /\ next_pid \in Nat
      /\ proc_count \in Int /\ avail \in [Res -> Int]
      /\ kapp.req \in [Res -> Nat]
  BY ProcessAssumption DEF TypeInv, TypeOK, ProcessTypeOK, AppInfo, Demand
<1>2. \A m \in Managers : ~ManagerInside(m)
  BY DEF Sound, Overlapping, StoreAvail, Taken, KernelInside
<1>3. UNCHANGED <<managerVars, procs, proc_count, next_pid, kapp, kslot>>
  BY DEF StoreAvail, Taken
<1>4. \A r \in Res : Returned(r) = 0 /\ Returned(r)' = 0
  <2>1. \A m \in Managers, r \in Res : ~Returning(m, r) /\ ~Returning(m, r)'
    BY <1>2, <1>3 DEF Returning, ManagerInside, managerVars
  <2>2. QED
    BY <2>1, ReturnedNone, ReturnedNoneNext
<1>5. \A m \in Managers : ManagerSound(m)'
  BY <1>2, <1>3, OutsideSound
<1>6. /\ avail' = [avail EXCEPT ![kres] = avail[kres] - kapp.req[kres]]
      /\ avail[kres] >= kapp.req[kres]
  BY <1>1 DEF StoreAvail, Taken, Sound, KernelSound, Res
<1>7. NoneNegative'
  BY <1>1, <1>6 DEF Sound, NoneNegative
<1>8. \A r \in Res : r # kres => avail'[r] = avail[r]
  BY <1>1, <1>6
<1>9. CASE kres < NumRes /\ kres' = kres + 1 /\ kpc' = "load"
  <2>1. HoldingSlots' = HoldingSlots
    BY <1>3, <1>9 DEF StoreAvail, Taken, HoldingSlots, managerVars
  <2>2. UNCHANGED <<Held, Issued>>
    BY <1>3, <1>9, <2>1 DEF StoreAvail, Taken, Held, Issued
  <2>3. UNCHANGED Free
    <3>1. ASSUME NEW r \in Res
          PROVE  avail'[r] + Charged(r)' - Returned(r)'
                   = avail[r] + Charged(r) - Returned(r)
      <4>1. CASE r = kres
        <5>1. Charged(r) = 0 /\ Charged(r)' = kapp.req[r]
          BY <1>1, <1>3, <1>9, <4>1 DEF StoreAvail, Taken, Charged, Res
        <5>2. avail'[r] = avail[r] - kapp.req[r]
          BY <1>1, <1>6, <4>1
        <5>3. avail[r] \in Int /\ kapp.req[r] \in Nat
          BY <1>1
        <5>4. QED
          BY <1>4, <5>1, <5>2, <5>3
      <4>2. CASE r # kres
        BY <1>1, <1>3, <1>4, <1>8, <1>9, <4>2 DEF StoreAvail, Taken, Charged, Res
      <4>3. QED
        BY <4>1, <4>2
    <3>2. QED
      BY <3>1 DEF Free
  <2>4. KernelSound'
    BY <1>1, <1>3, <1>8, <1>9 DEF StoreAvail, Taken, Sound, KernelSound, Res
  <2>5. PidsSound'
    BY <1>3, <2>1, <2>2 DEF Sound, PidsSound
  <2>6. QED
    BY <1>3, <1>5, <1>7, <2>2, <2>3, <2>4, <2>5 DEF Sound
<1>10. CASE kres = NumRes /\ kres' = 1 /\ kpc' = "ready"
  <2>1. /\ proc_count = kslot + 1 /\ procs[kslot].pid = next_pid - 1
        /\ procs[kslot].req = kapp.req /\ kpc = "store"
    BY DEF StoreAvail, Taken, Sound, KernelSound
  <2>2. HoldingSlots' = HoldingSlots \cup {kslot} /\ kslot \notin HoldingSlots
    BY <1>1, <1>2, <1>3, <1>10, <2>1
    DEF HoldingSlots, managerVars, ManagerInside, Slots
  <2>3. Issued = next_pid - 2 /\ Issued' = next_pid - 1 /\ Issued' = Issued + 1
    BY <1>1, <1>3, <1>10, <2>1 DEF Issued
  <2>4. Held' = Held \cup {<<Issued + 1, kapp.req>>}
    BY <1>3, <2>1, <2>2, <2>3 DEF Held
  <2>5. ASSUME NEW r \in Res
        PROVE  Free'[r] = Free[r] - kapp.req[r] /\ kapp.req[r] <= Free[r]
    <3> /\ Free[r] = avail[r] + Charged(r) - Returned(r)
        /\ Free'[r] = avail'[r] + Charged(r)' - Returned(r)'
      BY DEF Free
    <3>1. Charged(r)' = 0
      BY <1>10 DEF Charged
    <3>2. CASE r = kres
      <4>1. Charged(r) = 0
        BY <1>1, <3>2 DEF Charged, Res
      <4>2. avail'[r] = avail[r] - kapp.req[r] /\ avail[r] >= kapp.req[r]
        BY <1>1, <1>6, <3>2
      <4>3. avail[r] \in Int /\ kapp.req[r] \in Nat
        BY <1>1
      <4>4. QED
        BY <1>4, <3>1, <4>1, <4>2, <4>3
    <3>3. CASE r # kres
      <4>1. Charged(r) = kapp.req[r]
        BY <1>1, <1>10, <2>1, <3>3 DEF Charged, Res
      <4>2. avail[r] >= 0 /\ avail[r] \in Int /\ kapp.req[r] \in Nat
        BY <1>1 DEF Sound, NoneNegative
      <4>3. QED
        BY <1>4, <1>8, <3>1, <3>3, <4>1, <4>2
    <3>4. QED
      BY <3>2, <3>3
  <2>6. Admission(kapp.req)
    <3>1. Free' = [r \in Res |-> Free'[r]]
      BY DEF Free
    <3>2. Free' = [r \in Res |-> Free[r] - kapp.req[r]]
      BY <2>5, <3>1, Zenon
    <3>3. QED
      BY <2>3, <2>4, <2>5, <3>2 DEF Admission
  <2>7. KernelSound'
    BY <1>10 DEF KernelSound
  <2>8. PidsSound'
    <3>1. HoldingSlots \subseteq Slots
      BY DEF HoldingSlots
    <3>2. \A i \in Slots : procs[i].pid \in Nat
      BY DEF TypeInv, TypeOK, ProcessTypeOK, Process
    <3>3. \A i \in HoldingSlots : procs[i].pid <= next_pid - 2
      BY <2>3 DEF Sound, PidsSound
    <3>4. \A i \in HoldingSlots' : procs'[i].pid <= Issued'
      BY <1>1, <1>3, <2>1, <2>2, <2>3, <3>1, <3>2, <3>3
    <3>5. \A i, j \in HoldingSlots' : procs'[i].pid = procs'[j].pid => i = j
      <4>1. \A i \in HoldingSlots : procs[i].pid # procs[kslot].pid
        BY <1>1, <2>1, <3>1, <3>2, <3>3
      <4>2. QED
        BY <1>3, <2>2, <4>1 DEF Sound, PidsSound
    <3>6. QED
      BY <3>4, <3>5 DEF PidsSound
  <2>9. QED
    BY <1>3, <1>5, <1>7, <2>6, <2>7, <2>8 DEF Sound
<1>11. QED
  BY <1>9, <1>10 DEF StoreAvail, Taken

-----------------------------------------------------------------------------
(* terminate_process, alone inside.                                        *)

\* What every step of manager m leaves alone.
OthersKept(m) ==
  /\ UNCHANGED <<next_pid, kernelVars>>
  /\ \A n \in Managers : n # m => mpc'[n] = mpc[n] /\ mres'[n] = mres[n]

LEMMA StepKeepsOthers ==
  ASSUME TypeInv, NEW m \in Managers,
         TerminateSteps(m) \/ \E pid \in 1 .. MaxPid : KillSelected(m, pid)
  PROVE  OthersKept(m)
<1>1. mpc \in [Managers -> ManagerPC] /\ mres \in [Managers -> Res]
  BY DEF TypeInv, TypeOK, ProcessTypeOK
<1>2. QED
  BY <1>1 DEF OthersKept, TerminateSteps, KillSelected, ScanSlot, LoadFreed,
    StoreFreed, LoadCount, DropCount, MoveLast, Moved, Return, sharedVars

LEMMA ManagerAlone ==
  ASSUME Sound, NEW m \in Managers, ManagerInside(m), OthersKept(m)
  PROVE  /\ ~KernelInside /\ ~KernelInside' /\ ~Overlapping'
         /\ \A n \in Managers : n # m => ~ManagerInside(n) /\ ~ManagerInside(n)'
  BY DEF Sound, Overlapping, ManagersCross, OthersKept, KernelInside, ManagerInside, kernelVars

\* What is left to show of a step of the manager that is inside.
LEMMA ManagerFrame ==
  ASSUME TypeInv, Sound, NEW m \in Managers, ManagerInside(m), OthersKept(m),
         \A r \in Res : avail'[r] \in Int /\ avail'[r] >= avail[r],
         proc_count' >= 0, ManagerSound(m)', PidsSound'
  PROVE  Sound'
<1>1. /\ ~KernelInside /\ ~KernelInside' /\ ~Overlapping'
      /\ \A n \in Managers : n # m => ~ManagerInside(n) /\ ~ManagerInside(n)'
  BY ManagerAlone
<1>2. \A n \in Managers : ManagerSound(n)'
  BY <1>1 DEF Sound, ManagerSound, ManagerInside, OthersKept
<1>3. avail \in [Res -> Int] /\ kapp.req \in [Res -> Nat]
  BY ProcessAssumption DEF TypeInv, TypeOK, ProcessTypeOK, AppInfo, Demand
<1>4. NoneNegative'
  BY <1>3 DEF Sound, NoneNegative
<1>5. KernelSound'
  BY <1>1, <1>3 DEF Sound, KernelSound, KernelInside, BankerCheck, OthersKept,
    kernelVars
<1>6. QED
  BY <1>1, <1>2, <1>4, <1>5 DEF Sound

\* Steps that leave the table alone: what is returned does not change either.
LEMMA ManagerQuiet ==
  ASSUME TypeInv, Sound, NEW m \in Managers, ManagerInside(m), OthersKept(m),
         UNCHANGED sharedVars, ManagerSound(m)',
         mpc[m] # "copy" /\ mpc'[m] # "copy",
         \A r \in Res : Returning(m, r)' <=> Returning(m, r),
         \A r \in Res : Returning(m, r) => mslot'[m] = mslot[m]
  PROVE  Sound' /\ UNCHANGED <<Free, Held, Issued>>
<1>1. /\ ~KernelInside /\ ~KernelInside' /\ ~Overlapping'
      /\ \A n \in Managers : n # m => ~ManagerInside(n) /\ ~ManagerInside(n)'
  BY ManagerAlone
<1>2. HoldingSlots' = HoldingSlots
  BY <1>1 DEF HoldingSlots, OthersKept, ManagerInside, sharedVars, kernelVars
<1>3. UNCHANGED <<Held, Issued>>
  BY <1>2 DEF Held, Issued, OthersKept, sharedVars, kernelVars
<1>4. ASSUME NEW r \in Res PROVE UNCHANGED <<Charged(r), Returned(r)>>
  <2>1. \A n \in Managers : n # m => ~Returning(n, r) /\ ~Returning(n, r)'
    BY <1>1 DEF ManagerInside, Returning
  <2>2. UNCHANGED Returned(r)
    BY <1>1, <2>1, ReturnedKept DEF Sound, sharedVars
  <2>3. QED
    BY <2>2 DEF Charged, OthersKept, kernelVars
<1>5. UNCHANGED Free
  BY <1>4 DEF Free, sharedVars
<1>6. PidsSound'
  BY <1>2, <1>3 DEF Sound, PidsSound, sharedVars
<1>7. avail \in [Res -> Int]
  BY DEF TypeInv, TypeOK, ProcessTypeOK
<1>8. \A r \in Res : avail'[r] \in Int /\ avail'[r] >= avail[r]
  BY <1>7 DEF sharedVars
<1>9. QED
  BY <1>3, <1>5, <1>6, <1>8, ManagerFrame DEF Sound, sharedVars

LEMMA ScanStep ==
  ASSUME TypeInv, Sound, NEW m \in Managers, ScanSlot(m)
  PROVE  Sound' /\ UNCHANGED <<Free, Held, Issued>>
<1>1. OthersKept(m)
  BY StepKeepsOthers DEF TerminateSteps
<1>2. /\ mpc \in [Managers -> ManagerPC] /\ mres \in [Managers -> Res]
      /\ mpc[m] = "scan" /\ mres[m] = 1 /\ UNCHANGED <<mres, sharedVars>>
  BY DEF TypeInv, TypeOK, ProcessTypeOK, ScanSlot, Return, Sound, ManagerSound
<1>3. mpc'[m] \in {"idle", "load", "scan"}
  BY <1>2 DEF ScanSlot, Return
<1>4. \A r \in Res : ~Returning(m, r) /\ ~Returning(m, r)'
  BY <1>2, <1>3 DEF Returning, Res
<1>5. ManagerSound(m)'
  BY <1>2, <1>3 DEF ManagerSound, ScanSlot, Return, sharedVars
<1>6. QED
  BY <1>1, <1>2, <1>3, <1>4, <1>5, ManagerQuiet DEF ManagerInside

LEMMA LoadFreedStep ==
  ASSUME TypeInv, Sound, NEW m \in Managers, LoadFreed(m)
  PROVE  Sound' /\ UNCHANGED <<Free, Held, Issued>>
<1>1. OthersKept(m)
  BY StepKeepsOthers DEF TerminateSteps
<1>2. /\ mpc \in [Managers -> ManagerPC] /\ mreg \in [Managers -> Int]
      /\ mpc[m] = "load" /\ UNCHANGED <<mslot, mres, sharedVars>>
  BY DEF TypeInv, TypeOK, ProcessTypeOK, LoadFreed
<1>3. mpc'[m] = "store" /\ mreg'[m] = avail[mres[m]]
  BY <1>2 DEF LoadFreed
<1>4. \A r \in Res : Returning(m, r)' <=> Returning(m, r)
  BY <1>2, <1>3 DEF Returning
<1>5. ManagerSound(m)'
  BY <1>2, <1>3 DEF Sound, ManagerSound, sharedVars
<1>6. QED
  BY <1>1, <1>2, <1>3, <1>4, <1>5, ManagerQuiet DEF ManagerInside

LEMMA LoadCountStep ==
  ASSUME TypeInv, Sound, NEW m \in Managers, LoadCount(m)
  PROVE  Sound' /\ UNCHANGED <<Free, Held, Issued>>
<1>1. OthersKept(m)
  BY StepKeepsOthers DEF TerminateSteps
<1>2. /\ mpc \in [Managers -> ManagerPC] /\ mreg \in [Managers -> Int]
      /\ mpc[m] = "drop" /\ UNCHANGED <<mslot, mres, sharedVars>>
  BY DEF TypeInv, TypeOK, ProcessTypeOK, LoadCount
<1>3. mpc'[m] = "newcount" /\ mreg'[m] = proc_count - 1
  BY <1>2 DEF LoadCount
<1>4. \A r \in Res : Returning(m, r)' <=> Returning(m, r)
  BY <1>2, <1>3 DEF Returning
<1>5. ManagerSound(m)'
  BY <1>2, <1>3 DEF Sound, ManagerSound, sharedVars
<1>6. QED
  BY <1>1, <1>2, <1>3, <1>4, <1>5, ManagerQuiet DEF ManagerInside

LEMMA StoreFreedStep ==
  ASSUME TypeInv, Sound, NEW m \in Managers, StoreFreed(m)
  PROVE  Sound' /\ UNCHANGED <<Free, Held, Issued>>
<1>1. OthersKept(m)
  BY StepKeepsOthers DEF TerminateSteps
<1>2. /\ mpc \in [Managers -> ManagerPC] /\ mreg \in [Managers -> Int]
      /\ mres \in [Managers -> Res] /\ mres[m] \in Res
      /\ avail \in [Res -> Int]
      /\ mpc[m] = "store" /\ ManagerInside(m)
      /\ mslot[m] \in Slots /\ UNCHANGED <<mslot, procs, proc_count>>
  BY DEF TypeInv, TypeOK, ProcessTypeOK, SlotsFound, FoundPC, StoreFreed,
    ManagerInside
<1>3. procs[mslot[m]].req \in [Res -> Nat]
  BY <1>2 DEF TypeInv, TypeOK, ProcessTypeOK, Process, Demand
<1>4. mreg[m] = avail[mres[m]] /\ mslot[m] < proc_count
  BY <1>2 DEF Sound, ManagerSound
<1>5. avail' = [avail EXCEPT ![mres[m]] =
                  avail[mres[m]] + procs[mslot[m]].req[mres[m]]]
  BY <1>4 DEF StoreFreed
<1>6. \A r \in Res : avail'[r] \in Int /\ avail'[r] >= avail[r]
  BY <1>2, <1>3, <1>5
<1>7. \/ mres[m] < NumRes /\ mres'[m] = mres[m] + 1 /\ mpc'[m] = "load"
      \/ mres[m] = NumRes /\ mres'[m] = 1 /\ mpc'[m] = "drop"
  BY <1>2 DEF StoreFreed
<1>8. /\ ~KernelInside /\ ~KernelInside' /\ ~Overlapping'
      /\ \A n \in Managers : n # m => ~ManagerInside(n) /\ ~ManagerInside(n)'
  BY <1>1, <1>2, ManagerAlone
<1>9. ManagerSound(m)'
  BY <1>2, <1>4, <1>7 DEF ManagerSound
<1>10. HoldingSlots' = HoldingSlots
  BY <1>2, <1>7, <1>8 DEF HoldingSlots, KernelInside, ManagerInside
<1>11. UNCHANGED <<Held, Issued>>
  BY <1>1, <1>2, <1>10 DEF Held, Issued, OthersKept, kernelVars
<1>12. PidsSound'
  BY <1>2, <1>10, <1>11 DEF Sound, PidsSound
<1>13. UNCHANGED Free
  <2>1. ASSUME NEW r \in Res PROVE Free'[r] = Free[r]
    <3>1. Charged(r) = 0 /\ Charged(r)' = 0
      BY <1>8 DEF Charged, KernelInside
    <3>2. /\ Free[r] = avail[r] + 0 - Returned(r)
          /\ Free'[r] = avail'[r] + 0 - Returned(r)'
      BY <3>1 DEF Free
    <3>3. \A n \in Managers : n # m => ~Returning(n, r) /\ ~Returning(n, r)'
      BY <1>8 DEF ManagerInside, Returning
    <3>4. /\ procs[mslot[m]].req[r] \in Nat /\ avail[r] \in Int
          /\ procs'[mslot'[m]].req[r] = procs[mslot[m]].req[r]
      BY <1>2, <1>3
    <3>5. CASE r < mres[m]
      <4>1. Returning(m, r) /\ Returning(m, r)'
        BY <1>2, <1>7, <3>5 DEF Returning, Res
      <4>2. Returned(r)' = Returned(r)
        BY <1>8, <3>4, <4>1, ReturnedOne, ReturnedOneNext DEF Sound
      <4>3. avail'[r] = avail[r]
        BY <1>2, <1>5, <3>5 DEF Res
      <4>4. QED
        BY <3>2, <4>2, <4>3
    <3>6. CASE r = mres[m]
      <4>1. ~Returning(m, r) /\ Returning(m, r)'
        BY <1>2, <1>7, <3>6 DEF Returning, Res
      <4>2. Returned(r) = 0
        BY <3>3, <4>1, ReturnedNone
      <4>3. Returned(r)' = procs[mslot[m]].req[r]
        BY <1>8, <3>4, <4>1, ReturnedOneNext
      <4>4. avail'[r] = avail[r] + procs[mslot[m]].req[r]
        BY <1>2, <1>5, <3>6
      <4>5. QED
        BY <3>2, <3>4, <4>2, <4>3, <4>4
    <3>7. CASE r > mres[m]
      <4>1. ~Returning(m, r) /\ ~Returning(m, r)'
        BY <1>2, <1>7, <3>7 DEF Returning, Res
      <4>2. Returned(r) = 0 /\ Returned(r)' = 0
        BY <3>3, <4>1, ReturnedNone, ReturnedNoneNext
      <4>3. avail'[r] = avail[r]
        BY <1>2, <1>5, <3>7 DEF Res
      <4>4. QED
        BY <3>2, <4>2, <4>3
    <3>8. QED
      BY <1>2, <3>5, <3>6, <3>7 DEF Res
  <2>2. QED
    BY <2>1 DEF Free
<1>14. QED
  BY <1>1, <1>2, <1>6, <1>9, <1>11, <1>12, <1>13, ManagerFrame DEF Sound

LEMMA DropStep ==
  ASSUME TypeInv, Sound, NEW m \in Managers, DropCount(m)
  PROVE  Sound' /\ UNCHANGED <<Free, Held, Issued>>
<1>1. OthersKept(m)
  BY StepKeepsOthers DEF TerminateSteps
<1>2. /\ mpc \in [Managers -> ManagerPC] /\ mreg[m] \in Int
      /\ proc_count \in Int /\ avail \in [Res -> Int]
      /\ mpc[m] = "newcount" /\ ManagerInside(m) /\ mslot[m] \in Slots
      /\ UNCHANGED <<mslot, mres, mreg, procs, avail>>
  BY DEF TypeInv, TypeOK, ProcessTypeOK, SlotsFound, FoundPC, DropCount,
    ManagerInside
<1>3. /\ mreg[m] = proc_count - 1 /\ mslot[m] < proc_count
      /\ proc_count' = mreg[m] /\ mpc'[m] = "copy" /\ mres[m] = 1
  BY <1>2 DEF Sound, ManagerSound, DropCount
<1>4. /\ ~KernelInside /\ ~KernelInside' /\ ~Overlapping'
      /\ \A n \in Managers : n # m => ~ManagerInside(n) /\ ~ManagerInside(n)'
  BY <1>1, <1>2, ManagerAlone
<1>5. ManagerSound(m)'
  BY <1>2, <1>3 DEF ManagerSound, Slots
<1>6. HoldingSlots' = HoldingSlots
  BY <1>2, <1>3, <1>4 DEF HoldingSlots, KernelInside, ManagerInside, Slots
<1>7. UNCHANGED <<Held, Issued>>
  BY <1>1, <1>2, <1>6 DEF Held, Issued, OthersKept, kernelVars
<1>8. PidsSound'
  BY <1>2, <1>6, <1>7 DEF Sound, PidsSound
<1>9. ASSUME NEW r \in Res PROVE UNCHANGED <<Charged(r), Returned(r)>>
  <2>1. \A n \in Managers : Returning(n, r)' <=> Returning(n, r)
    BY <1>2, <1>3, <1>4 DEF ManagerInside, Returning
  <2>2. UNCHANGED Returned(r)
    BY <1>2, <1>4, <2>1, ReturnedKept DEF Sound
  <2>3. QED
    BY <1>4, <2>2 DEF Charged, KernelInside
<1>10. UNCHANGED Free
  BY <1>2, <1>9 DEF Free
<1>11. proc_count' >= 0
  BY <1>2, <1>3 DEF Slots
<1>12. QED
  BY <1>1, <1>2, <1>5, <1>7, <1>8, <1>10, <1>11, ManagerFrame

\* The move of the last PCB is the release.
Releasing(h) ==
  /\ h \in Held
  /\ Held' = Held \ {h}
  /\ Free' = [r \in Res |-> Free[r] + h[2][r]]
  /\ Issued' = Issued

LEMMA MoveStep ==
  ASSUME TypeInv, Sound, NEW m \in Managers, MoveLast(m)
  PROVE  Sound' /\ \E h \in Held : Releasing(h)
<1> DEFINE i == mslot[m]
           c == proc_count
           h == <<procs[i].pid, procs[i].req>>
<1>1. OthersKept(m)
  BY StepKeepsOthers DEF TerminateSteps
<1>2. /\ mpc \in [Managers -> ManagerPC] /\ mres \in [Managers -> Res]
      /\ procs \in [Slots -> Process]
      /\ avail \in [Res -> Int] /\ c \in Int /\ i \in Slots
      /\ mpc[m] = "copy" /\ ManagerInside(m) /\ mreg[m] < MAX_PROC
  BY DEF TypeInv, TypeOK, ProcessTypeOK, SlotsFound, FoundPC, MoveLast, Moved,
    ManagerInside
<1>3. mreg[m] = c /\ i <= c /\ c >= 0 /\ c \in Slots /\ mres[m] = 1
  <2>1. mreg[m] = c /\ i <= c /\ c >= 0 /\ mres[m] = 1
    BY <1>2 DEF Sound, ManagerSound
  <2>2. c \in Slots
    BY <1>2, <2>1, MiniOSAssumption DEF Slots
  <2>3. QED
    BY <2>1, <2>2
<1>4. /\ procs' = [procs EXCEPT ![i] = procs[c]]
      /\ UNCHANGED <<proc_count, next_pid, avail, mres>> /\ mpc'[m] = "idle"
  BY <1>2, <1>3 DEF MoveLast, Moved, Return
<1>5. /\ ~KernelInside /\ ~KernelInside' /\ ~Overlapping'
      /\ \A n \in Managers : n # m => ~ManagerInside(n) /\ ~ManagerInside(n)'
  BY <1>1, <1>2, ManagerAlone
<1>6. HoldingSlots = 0 .. c /\ HoldingSlots' = 0 .. (c - 1)
  <2>1. \A n \in Managers : (mpc[n] = "copy" => n = m) /\ mpc'[n] # "copy"
    BY <1>4, <1>5 DEF ManagerInside
  <2>2. kpc \notin {"fill", "load", "store"} /\ kpc' = kpc
    BY <1>1, <1>5 DEF KernelInside, OthersKept, kernelVars
  <2>3. HoldingSlots = {j \in Slots : j < c \/ j = c}
    BY <1>2, <1>3, <2>1, <2>2 DEF HoldingSlots
  <2>4. HoldingSlots' = {j \in Slots : j < c}
    BY <1>4, <2>1, <2>2 DEF HoldingSlots
  <2>5. QED
    BY <1>2, <1>3, <2>3, <2>4, MiniOSAssumption DEF Slots
<1>7. \A j, k \in 0 .. c : procs[j].pid = procs[k].pid => j = k
  BY <1>6 DEF Sound, PidsSound
<1>8. \A j \in 0 .. (c - 1) : procs'[j] = IF j = i THEN procs[c] ELSE procs[j]
  BY <1>2, <1>3, <1>4 DEF Slots
<1>9. h \in Held
  <2>1. i \in HoldingSlots
    BY <1>2, <1>3, <1>6 DEF Slots
  <2>2. QED
    BY <2>1 DEF Held
<1>10. Held' = Held \ {h}
  <2>1. ASSUME NEW x \in Held' PROVE x \in Held \ {h}
    <3>1. PICK j \in 0 .. (c - 1) : x = <<procs'[j].pid, procs'[j].req>>
      BY <1>6 DEF Held
    <3>2. PICK k \in 0 .. c : k # i /\ procs'[j] = procs[k]
      <4>1. CASE j = i
        <5>1. c \in 0 .. c /\ c # i /\ procs'[j] = procs[c]
          BY <1>2, <1>3, <1>8, <4>1
        <5>2. QED
          BY <5>1
      <4>2. CASE j # i
        <5>1. j \in 0 .. c /\ procs'[j] = procs[j]
          BY <1>2, <1>3, <1>8, <4>2
        <5>2. QED
          BY <4>2, <5>1
      <4>3. QED
        BY <4>1, <4>2
    <3>3. procs[k].pid # procs[i].pid
      BY <1>2, <1>3, <1>7, <3>2 DEF Slots
    <3>4. QED
      BY <1>6, <3>1, <3>2, <3>3 DEF Held
  <2>2. ASSUME NEW x \in Held, x # h PROVE x \in Held'
    <3>1. PICK j \in 0 .. c : x = <<procs[j].pid, procs[j].req>>
      BY <1>6 DEF Held
    <3>2. j # i
      BY <2>2, <3>1
    <3>3. PICK k \in 0 .. (c - 1) : procs'[k] = procs[j]
      <4>1. CASE j = c
        <5>1. i \in 0 .. (c - 1)
          BY <1>2, <1>3, <3>2, <4>1 DEF Slots
        <5>2. procs'[i] = procs[j]
          BY <1>8, <4>1, <5>1
        <5>3. QED
          BY <5>1, <5>2
      <4>2. CASE j # c
        <5>1. j \in 0 .. (c - 1)
          BY <1>2, <4>2
        <5>2. QED
          BY <1>8, <3>2, <5>1
      <4>3. QED
        BY <4>1, <4>2
    <3>4. QED
      BY <1>6, <3>1, <3>3 DEF Held
  <2>3. QED
    BY <2>1, <2>2
<1>11. Issued' = Issued
  BY <1>1, <1>4 DEF Issued, OthersKept, kernelVars
<1>12. Free' = [r \in Res |-> Free[r] + h[2][r]]
  <2>1. ASSUME NEW r \in Res PROVE Free'[r] = Free[r] + procs[i].req[r]
    <3>1. Charged(r) = 0 /\ Charged(r)' = 0
      BY <1>5 DEF Charged, KernelInside
    <3>2. Returned(r) = procs[i].req[r]
      BY <1>2, ReturnedOne DEF Sound, Returning
    <3>3. Returned(r)' = 0
      <4>1. \A n \in Managers : ~Returning(n, r)'
        BY <1>4, <1>5 DEF ManagerInside, Returning
      <4>2. QED
        BY <4>1, ReturnedNoneNext
    <3>4. /\ Free[r] = avail[r] + 0 - procs[i].req[r]
          /\ Free'[r] = avail[r] + 0 - 0
      BY <1>4, <3>1, <3>2, <3>3 DEF Free
    <3>5. avail[r] \in Int /\ procs[i].req[r] \in Nat
      BY <1>2 DEF Process, Demand
    <3>6. QED
      BY <3>4, <3>5
  <2>2. Free' = [r \in Res |-> Free'[r]]
    BY DEF Free
  <2>3. h[2] = procs[i].req
    OBVIOUS
  <2>4. QED
    BY <2>1, <2>2, <2>3, Zenon
<1>13. PidsSound'
  <2>1. \A j \in 0 .. (c - 1) : \E k \in 0 .. c : procs'[j] = procs[k]
    BY <1>2, <1>3, <1>8 DEF Slots
  <2>2. \A j \in HoldingSlots' : procs'[j].pid <= Issued'
    BY <1>6, <1>11, <2>1 DEF Sound, PidsSound
  <2>3. \A j, k \in 0 .. (c - 1) : procs'[j].pid = procs'[k].pid => j = k
    <3>1. \A j \in 0 .. (c - 1) : j \in 0 .. c /\ j # c /\ c \in 0 .. c
      BY <1>2, <1>3
    <3>2. SUFFICES ASSUME NEW j \in 0 .. (c - 1), NEW k \in 0 .. (c - 1),
                          procs'[j].pid = procs'[k].pid
                   PROVE  j = k
      OBVIOUS
    <3>3. CASE j = i
      BY <1>7, <1>8, <3>1, <3>2, <3>3
    <3>4. CASE j # i
      BY <1>7, <1>8, <3>1, <3>2, <3>4
    <3>5. QED
      BY <3>3, <3>4
  <2>4. QED
    BY <1>6, <2>2, <2>3 DEF PidsSound
<1>14. ManagerSound(m)'
  BY <1>3, <1>4 DEF ManagerSound
<1>15. Sound'
  BY <1>1, <1>2, <1>3, <1>4, <1>13, <1>14, ManagerFrame
<1>16. QED
  BY <1>9, <1>10, <1>11, <1>12, <1>15 DEF Releasing

LEMMA KillStep ==
  ASSUME TypeInv, Sound, ~Overlapping', NEW m \in Managers,
         NEW pid \in 1 .. MaxPid, KillSelected(m, pid)
  PROVE  Sound' /\ UNCHANGED <<Free, Held, Issued>>
<1>1. OthersKept(m)
  BY StepKeepsOthers
<1>2. /\ mpc \in [Managers -> ManagerPC] /\ mpc[m] = "idle"
      /\ UNCHANGED <<mslot, mres, mreg, sharedVars, kernelVars>>
  BY DEF KillSelected, TypeInv, TypeOK, ProcessTypeOK
<1>3. mpc'[m] = "scan"
  BY <1>2 DEF KillSelected
<1>4. HoldingSlots' = HoldingSlots
  BY <1>1, <1>2, <1>3 DEF HoldingSlots, OthersKept, sharedVars, kernelVars
<1>5. UNCHANGED <<Held, Issued>>
  BY <1>2, <1>4 DEF Held, Issued, sharedVars, kernelVars
<1>6. ASSUME NEW r \in Res PROVE UNCHANGED <<Charged(r), Returned(r)>>
  <2>1. \A n \in Managers : Returning(n, r)' <=> Returning(n, r)
    BY <1>1, <1>2, <1>3 DEF Returning, OthersKept
  <2>2. UNCHANGED Returned(r)
    BY <1>2, <2>1, ReturnedKept DEF Sound, sharedVars
  <2>3. QED
    BY <1>2, <2>2 DEF Charged, kernelVars
<1>7. UNCHANGED Free
  BY <1>2, <1>6 DEF Free, sharedVars
<1>8. PidsSound'
  BY <1>2, <1>4, <1>5 DEF Sound, PidsSound, sharedVars
<1>9. KernelSound'
  BY <1>2 DEF Sound, KernelSound, BankerCheck, sharedVars, kernelVars
<1>10. \A n \in Managers : ManagerSound(n)'
  BY <1>1, <1>2, <1>3 DEF Sound, ManagerSound, OthersKept, sharedVars
<1>11. NoneNegative' /\ proc_count' >= 0
  BY <1>2 DEF Sound, NoneNegative, sharedVars
<1>12. QED
  BY <1>5, <1>7, <1>8, <1>9, <1>10, <1>11 DEF Sound

-----------------------------------------------------------------------------
(* The rest of the system only takes quiet steps.                          *)

LEMMA SoundInit == Init => Sound /\ Promise!Init
<1> SUFFICES ASSUME Init PROVE Sound /\ Promise!Init
  OBVIOUS
<1>1. \A m \in Managers : mpc[m] = "off" /\ mres[m] = 1
  BY DEF Init, ProcessInit
<1>2. ~Overlapping /\ \A m \in Managers : ManagerSound(m)
  BY <1>1 DEF Init, ProcessInit, Overlapping, ManagersCross, KernelInside, ManagerInside,
    ManagerSound
<1>3. KernelSound /\ NoneNegative /\ proc_count = 0
  BY MiniOSAssumption
  DEF Init, ProcessInit, SharedInit, KernelSound, NoneNegative
<1>4. HoldingSlots = {}
  BY <1>1, <1>3 DEF HoldingSlots, Slots
<1>5. Sound
  BY <1>2, <1>3, <1>4 DEF Sound, PidsSound
<1>6. Free = Total
  <2>1. ASSUME NEW r \in Res PROVE avail[r] + Charged(r) - Returned(r) = Total[r]
    <3>1. Charged(r) = 0
      BY DEF Init, ProcessInit, Charged
    <3>2. Returned(r) = 0
      BY <1>1, ReturnedNone DEF Returning
    <3>3. avail[r] = Total[r] /\ Total[r] \in Nat
      BY MiniOSAssumption DEF Init, SharedInit
    <3>4. QED
      BY <3>1, <3>2, <3>3
  <2>2. Free = [r \in Res |-> Total[r]]
    BY <2>1 DEF Free
  <2>3. QED
    BY <2>2, MiniOSAssumption
<1>7. Held = {} /\ Issued = 0 /\ overlap = FALSE
  BY <1>4 DEF Init, SharedInit, ProcessInit, Held, Issued
<1>8. QED
  BY <1>5, <1>6, <1>7 DEF Promise!Init

LEMMA DispatcherQuiet ==
  ASSUME TypeInv, Dispatcher
  PROVE  /\ UNCHANGED <<proc_count, next_pid, avail>>
         /\ \A i \in Slots : procs'[i].pid = procs[i].pid /\ procs'[i].req = procs[i].req
<1>1. procs \in [Slots -> Process]
  BY DEF TypeInv, TypeOK, ProcessTypeOK
<1>2. PICK s \in PState :
        procs' = procs \/ procs' = [procs EXCEPT ![cur].state = s]
  BY DEF Dispatcher, WaitForWork, SpuriousWakeup, GetNextProcess, StartQuantum,
    EndQuantum, Preempt, Requeue, Preempted, sharedVars,
    PState
<1>3. \A i \in Slots : procs'[i].pid = procs[i].pid /\ procs'[i].req = procs[i].req
  BY <1>1, <1>2 DEF Process
<1>4. QED
  BY <1>3 DEF Dispatcher, WaitForWork, SpuriousWakeup, GetNextProcess,
    StartQuantum, EndQuantum, Preempt, Requeue, sharedVars

LEMMA MarkReadyStep ==
  ASSUME TypeInv, Sound, MarkReady
  PROVE  Sound' /\ UNCHANGED <<Free, Held, Issued>>
<1>1. procs \in [Slots -> Process]
  BY DEF TypeInv, TypeOK, ProcessTypeOK
<1>2. \A i \in Slots : procs'[i].pid = procs[i].pid /\ procs'[i].req = procs[i].req
  BY <1>1 DEF MarkReady, Process
<1>3. QED
  BY <1>2, QuietStep DEF MarkReady, KernelInside, managerVars

LEMMA OtherSteps ==
  ASSUME TypeInv, Sound,
         \/ \E a \in Apps : CreateProcess(a)
         \/ AutoStartReturn \/ DeniedDialog \/ LaunchApp \/ Enqueue
         \/ DispatcherSteps
  PROVE  Sound' /\ UNCHANGED <<Free, Held, Issued>>
<1>1. ASSUME NEW a \in Apps, CreateProcess(a)
      PROVE  Sound' /\ UNCHANGED <<Free, Held, Issued>>
  <2>1. kpc' = "claim" => BankerCheck(kapp.req)'
    BY <1>1 DEF CreateProcess, BankerCheck, sharedVars
  <2>2. QED
    BY <1>1, <2>1, QuietStep
    DEF CreateProcess, KernelInside, sharedVars, managerVars
<1>2. CASE AutoStartReturn
  BY <1>2, QuietStep
  DEF AutoStartReturn, ForgetCall, KernelInside, sharedVars, managerVars
<1>3. CASE DeniedDialog
  BY <1>3, QuietStep
  DEF DeniedDialog, ForgetCall, KernelInside, sharedVars, managerVars
<1>4. CASE LaunchApp
  <2>1. \A m \in Managers :
          mpc'[m] = mpc[m] \/ {mpc[m], mpc'[m]} \subseteq {"off", "idle"}
    BY <1>4 DEF LaunchApp, TypeInv, TypeOK, ProcessTypeOK
  <2>2. QED
    BY <1>4, <2>1, QuietStep DEF LaunchApp, ForgetCall, KernelInside, sharedVars
<1>5. CASE Enqueue
  BY <1>5, QuietStep DEF Enqueue, KernelInside, sharedVars, managerVars
<1>6. CASE DispatcherSteps
  BY <1>6, DispatcherQuiet, QuietStep
  DEF DispatcherSteps, kernelVars, managerVars, Sound, KernelSound, BankerCheck
<1>7. QED
  BY <1>1, <1>2, <1>3, <1>4, <1>5, <1>6

LEMMA SoundStep ==
  ASSUME TypeInv, Sound, Step, ~Overlapping'
  PROVE  /\ Sound'
         /\ \/ UNCHANGED <<Free, Held, Issued>>
            \/ Admission(kapp.req)
            \/ \E h \in Held : Releasing(h)
<1>1. CASE Clicks
  <2>1. Head(boot) \in Apps \/ boot = << >>
    BY DEF TypeInv, TypeOK
  <2>2. QED
    BY <1>1, <2>1, OtherSteps, KillStep DEF Clicks, AutoStartNext, OnAppClick
<1>2. CASE KernelSteps
  BY <1>2, OtherSteps, ClaimStep, CountStep, FillStep, LoadAvailStep,
    StoreAvailStep, MarkReadyStep
  DEF KernelSteps, CreateSteps
<1>3. CASE DispatcherSteps
  BY <1>3, OtherSteps
<1>4. ASSUME NEW m \in Managers, ManagerSteps(m)
      PROVE  /\ Sound'
             /\ \/ UNCHANGED <<Free, Held, Issued>>
                \/ \E h \in Held : Releasing(h)
  BY <1>4, ScanStep, LoadFreedStep, StoreFreedStep, LoadCountStep, DropStep,
    MoveStep
  DEF ManagerSteps, TerminateSteps
<1>5. QED
  BY <1>1, <1>2, <1>3, <1>4 DEF Step

LEMMA SoundNext == TypeInv /\ SoundInv /\ [Next]_vars => SoundInv'
<1> SUFFICES ASSUME TypeInv, SoundInv, [Next]_vars, ~overlap' PROVE Sound'
  BY DEF SoundInv
<1>1. CASE Next
  <2>1. ~overlap /\ ~Overlapping'
    BY <1>1 DEF Next, History
  <2>2. QED
    BY <1>1, <2>1, SoundStep DEF Next, SoundInv
<1>2. CASE UNCHANGED vars
  <2>1. Sound
    BY <1>2 DEF SoundInv, vars, historyVars
  <2>2. QED
    BY <1>2, <2>1 DEF vars, sharedVars, schedVars, kernelVars, managerVars,
      historyVars, Sound, NoneNegative, KernelSound, ManagerSound, PidsSound,
      BankerCheck, HoldingSlots, Issued, Overlapping, ManagersCross, KernelInside, ManagerInside
<1>3. QED
  BY <1>1, <1>2

\* A step of the system is an admission, a release, nothing, or the end of
\* the promise.
LEMMA StepRefines ==
  TypeInv /\ SoundInv /\ [Next]_vars => [Promise!Next]_Promise!vars
<1> SUFFICES ASSUME TypeInv, SoundInv, [Next]_vars
             PROVE  Promise!Next \/ UNCHANGED Promise!vars
  BY DEF Promise!vars
<1>1. CASE overlap'
  BY <1>1 DEF Promise!Next
<1>2. CASE Next /\ ~overlap'
  <2>1. ~overlap /\ ~Overlapping'
    BY <1>2 DEF Next, History
  <2>2. CASE UNCHANGED <<Free, Held, Issued>>
    <3>1. UNCHANGED overlap
      BY <1>2, <2>1 DEF Next, History, TypeInv, TypeOK
    <3>2. QED
      BY <2>2, <3>1 DEF Promise!vars
  <2>3. CASE Admission(kapp.req)
    <3>1. Promise!Admit(kapp.req)
      BY <2>3 DEF Admission, Promise!Admit, Promise!Res, Res
    <3>2. kapp.req \in {h[2] : h \in Held'}
      <4>1. <<Issued + 1, kapp.req>> \in Held'
        BY <2>3 DEF Admission
      <4>2. QED
        BY <4>1
    <3>3. UNCHANGED overlap
      BY <1>2, <2>1 DEF Next, History, TypeInv, TypeOK
    <3>4. QED
      BY <1>2, <3>1, <3>2, <3>3 DEF Promise!Next
  <2>4. CASE \E h \in Held : Releasing(h)
    <3>1. \E h \in Held : Promise!Release(h)
      BY <2>4 DEF Releasing, Promise!Release, Promise!Res, Res
    <3>2. UNCHANGED overlap
      BY <1>2, <2>1 DEF Next, History, TypeInv, TypeOK
    <3>3. QED
      BY <1>2, <3>1, <3>2 DEF Promise!Next
  <2>5. QED
    BY <1>2, <2>1, <2>2, <2>3, <2>4, SoundStep DEF Next, SoundInv
<1>3. CASE UNCHANGED vars
  BY <1>3 DEF vars, sharedVars, schedVars, kernelVars, managerVars, historyVars,
    Promise!vars, Free, Held, Issued, Charged, Returned, Returning, HoldingSlots
<1>4. QED
  BY <1>1, <1>2, <1>3

\* As long as no two programs were inside their res_mutex sections together,
\* create_process is an atomic admission and terminate_process an atomic
\* release of one process, in whatever steps they are done and whatever the
\* dispatcher does meanwhile.  (process.c:12-58, 95-114)
THEOREM TableRefines == Spec => AtomicTable
<1>1. Init => TypeInv /\ SoundInv /\ Promise!Init
  BY TypeInit, SoundInit DEF SoundInv
<1>2. TypeInv /\ SoundInv /\ [Next]_vars =>
        TypeInv' /\ SoundInv' /\ [Promise!Next]_Promise!vars
  BY TypeNext, SoundNext, StepRefines
<1>3. QED
  BY <1>1, <1>2, PTL DEF Spec, AtomicTable, Promise!Spec

-----------------------------------------------------------------------------
(* The books: what is free and what is held add up to the machine.         *)

Amount(r) == [h \in Nat \X Demand |-> h[2][r]]

HeldSum(r) == SumFunctionOnSet(Amount(r), Held)

Books ==
  /\ Free \in [Res -> Int]
  /\ \A r \in Res : Free[r] + HeldSum(r) = Total[r]

BooksInv == ~overlap => Books

LEMMA HeldFinite ==
  ASSUME TypeInv
  PROVE  IsFiniteSet(Held) /\ Held \subseteq Nat \X Demand
<1>1. procs \in [Slots -> Process] /\ HoldingSlots \subseteq Slots
  BY DEF TypeInv, TypeOK, ProcessTypeOK, HoldingSlots
<1>2. IsFiniteSet(HoldingSlots)
  <2>1. 0 \in Int /\ MAX_PROC - 1 \in Int
    BY MiniOSAssumption
  <2>2. IsFiniteSet(Slots)
    BY <2>1, FS_Interval DEF Slots
  <2>3. QED
    BY <1>1, <2>2, FS_Subset
<1>3. [i \in HoldingSlots |-> <<procs[i].pid, procs[i].req>>]
        \in Surjection(HoldingSlots, Held)
  BY DEF Held, Surjection
<1>4. IsFiniteSet(Held)
  BY <1>2, <1>3, FS_Surjection
<1>5. Held \subseteq Nat \X Demand
  BY <1>1 DEF Held, Process
<1>6. QED
  BY <1>4, <1>5

LEMMA AmountsHeld ==
  ASSUME TypeInv, NEW r \in Res
  PROVE  \A h \in Held : Amount(r)[h] = h[2][r] /\ Amount(r)[h] \in Int
<1>1. ASSUME NEW h \in Held PROVE Amount(r)[h] = h[2][r] /\ Amount(r)[h] \in Int
  <2>1. h \in Nat \X Demand
    BY HeldFinite
  <2>2. QED
    BY <2>1 DEF Amount, Demand
<1>2. QED
  BY <1>1

\* An admission takes from what is free what it adds to what is held: its
\* pid is new, so it is added to no pair that is there.
LEMMA AdmissionBooks ==
  ASSUME TypeInv, Sound, Books, Admission(kapp.req)
  PROVE  Books'
<1> DEFINE d == kapp.req
           e == <<Issued + 1, d>>
<1>1. d \in Demand /\ Issued + 1 \in Nat /\ Issued \in Int
  BY ProcessAssumption DEF TypeInv, TypeOK, ProcessTypeOK, AppInfo, Issued
<1>2. e \in Nat \X Demand
  BY <1>1
<1>3. e \notin Held
  <2>1. \A h \in Held : h[1] <= Issued
    BY DEF Held, Sound, PidsSound
  <2>2. QED
    BY <1>1, <2>1
<1>4. Held' = Held \cup {e} /\ Free' = [r \in Res |-> Free[r] - d[r]]
  BY DEF Admission
<1>5. Free' \in [Res -> Int]
  BY <1>1, <1>4 DEF Books, Demand
<1>6. ASSUME NEW r \in Res PROVE Free'[r] + HeldSum(r)' = Total[r]
  <2>1. Amount(r)[e] = d[r] /\ d[r] \in Int
    BY <1>1, <1>2 DEF Amount, Demand
  <2>2. SumFunctionOnSet(Amount(r), Held \cup {e}) = d[r] + HeldSum(r)
    <3> HIDE DEF e, d
    <3>1. \A x \in Held \cup {e} : Amount(r)[x] \in Int
      BY <2>1, AmountsHeld
    <3>2. QED
      BY <1>3, <2>1, <3>1, HeldFinite, SumOfOneMore DEF HeldSum
  <2>3. HeldSum(r)' = SumFunctionOnSet(Amount(r), Held \cup {e})
    BY <1>4 DEF HeldSum
  <2>4. HeldSum(r) \in Int
    BY AmountsHeld, HeldFinite, SumIsInt DEF HeldSum
  <2>5. Free'[r] = Free[r] - d[r] /\ Free[r] \in Int
    BY <1>4 DEF Books
  <2>6. Free[r] + HeldSum(r) = Total[r]
    BY DEF Books
  <2> HIDE DEF d
  <2>7. QED
    BY <2>1, <2>2, <2>3, <2>4, <2>5, <2>6
<1>7. QED
  BY <1>5, <1>6 DEF Books

\* A release moves it back.
LEMMA ReleaseBooks ==
  ASSUME TypeInv, Books, NEW h \in Held, Releasing(h)
  PROVE  Books'
<1>1. Held' = Held \ {h} /\ Free' = [r \in Res |-> Free[r] + h[2][r]]
  BY DEF Releasing
<1>2. h \in Nat \X Demand
  BY HeldFinite
<1>3. Free' \in [Res -> Int]
  BY <1>1, <1>2 DEF Books, Demand
<1>4. ASSUME NEW r \in Res PROVE Free'[r] + HeldSum(r)' = Total[r]
  <2>1. Amount(r)[h] = h[2][r] /\ h[2][r] \in Int
    BY AmountsHeld
  <2>2. HeldSum(r) = h[2][r] + SumFunctionOnSet(Amount(r), Held \ {h})
    BY <2>1, AmountsHeld, HeldFinite, SumWithout DEF HeldSum
  <2>3. HeldSum(r)' = SumFunctionOnSet(Amount(r), Held \ {h})
    BY <1>1 DEF HeldSum
  <2>4. SumFunctionOnSet(Amount(r), Held \ {h}) \in Int
    <3>1. IsFiniteSet(Held \ {h})
      BY HeldFinite, FS_Subset
    <3>2. QED
      BY <3>1, AmountsHeld, SumIsInt
  <2>5. Free'[r] = Free[r] + h[2][r] /\ Free[r] \in Int
    BY <1>1 DEF Books
  <2>6. Free[r] + HeldSum(r) = Total[r]
    BY DEF Books
  <2>7. QED
    BY <2>1, <2>2, <2>3, <2>4, <2>5, <2>6
<1>5. QED
  BY <1>3, <1>4 DEF Books

LEMMA BooksInit == Init => Books
<1> SUFFICES ASSUME Init PROVE Books
  OBVIOUS
<1>1. Held = {} /\ Free = Total
  BY SoundInit DEF Promise!Init
<1>2. \A r \in Res : HeldSum(r) = 0
  BY <1>1, SumOfEmpty DEF HeldSum
<1>3. QED
  BY <1>1, <1>2, MiniOSAssumption DEF Books

LEMMA BooksKept ==
  ASSUME Books, UNCHANGED <<Free, Held>>
  PROVE  Books'
<1>1. \A r \in Res : HeldSum(r)' = HeldSum(r)
  BY DEF HeldSum
<1>2. QED
  BY <1>1 DEF Books

LEMMA BooksNext ==
  TypeInv /\ SoundInv /\ BooksInv /\ [Next]_vars => BooksInv'
<1> SUFFICES ASSUME TypeInv, SoundInv, BooksInv, [Next]_vars, ~overlap'
             PROVE  Books'
  BY DEF BooksInv
<1>1. CASE Next
  <2>1. ~overlap /\ ~Overlapping'
    BY <1>1 DEF Next, History
  <2>2. Sound /\ Books
    BY <2>1 DEF SoundInv, BooksInv
  <2>3. \/ UNCHANGED <<Free, Held, Issued>>
        \/ Admission(kapp.req)
        \/ \E h \in Held : Releasing(h)
    BY <1>1, <2>1, <2>2, SoundStep DEF Next
  <2>4. QED
    BY <2>2, <2>3, AdmissionBooks, ReleaseBooks, BooksKept
<1>2. CASE UNCHANGED vars
  <2>1. UNCHANGED <<Free, Held>> /\ ~overlap
    BY <1>2 DEF vars, sharedVars, schedVars, kernelVars, managerVars,
      historyVars, Free, Held, Charged, Returned, Returning, HoldingSlots
  <2>2. QED
    BY <2>1, BooksKept DEF BooksInv
<1>3. QED
  BY <1>1, <1>2

\* With nobody inside, the listed slots are the ones that hold resources, and
\* what is available is what is free.
LEMMA AtRestBalanced ==
  ASSUME TypeInv, Sound, Books, AtRest
  PROVE  Balanced
<1> DEFINE listed == 0 .. (proc_count - 1)
           row == [i \in Slots |-> <<procs[i].pid, procs[i].req>>]
<1>1. /\ procs \in [Slots -> Process] /\ proc_count \in Int
      /\ proc_count <= MAX_PROC /\ proc_count >= 0
  BY DEF TypeInv, TypeOK, ProcessTypeOK, Sound
<1>2. listed \subseteq Slots
  BY <1>1, MiniOSAssumption DEF Slots
<1>3. HoldingSlots = listed
  BY <1>1, <1>2 DEF AtRest, KernelInside, ManagerInside, HoldingSlots, Slots
<1>4. \A i \in listed : row[i] = <<procs[i].pid, procs[i].req>>
  BY <1>2
<1>5. Held = {row[i] : i \in listed}
  <2> HIDE DEF listed, row
  <2>1. QED
    BY <1>3, <1>4 DEF Held
<1>6. IsFiniteSet(listed)
  BY <1>1, FS_Interval
<1>7. \A i, j \in listed : row[i] = row[j] => i = j
  <2> HIDE DEF listed, row
  <2>1. QED
    BY <1>3, <1>4 DEF Sound, PidsSound
<1>8. SUFFICES ASSUME NEW r \in Res
      PROVE  avail[r] + SumFunctionOnSet([i \in Slots |-> procs[i].req[r]], listed)
               = Total[r]
  BY DEF Balanced
<1>9. Free[r] = avail[r]
  <2>1. Charged(r) = 0
    BY DEF AtRest, KernelInside, Charged
  <2>2. Returned(r) = 0
    BY ReturnedNone DEF AtRest, ManagerInside, Returning
  <2>3. avail[r] \in Int
    BY DEF TypeInv, TypeOK, ProcessTypeOK
  <2>4. QED
    BY <2>1, <2>2, <2>3 DEF Free
<1>10. SumFunctionOnSet([i \in Slots |-> procs[i].req[r]], listed) = HeldSum(r)
  <2> DEFINE req == [i \in Slots |-> procs[i].req[r]]
  <2>1. \A i \in listed : req[i] = Amount(r)[row[i]] /\ req[i] \in Int
    <3>1. ASSUME NEW i \in listed
          PROVE  req[i] = Amount(r)[row[i]] /\ req[i] \in Int
      <4>1. procs[i] \in Process /\ i \in Slots
        BY <1>1, <1>2
      <4>2. procs[i].req \in Demand /\ row[i] \in Nat \X Demand
        BY <4>1 DEF Process
      <4>3. QED
        BY <4>1, <4>2 DEF Amount, Demand
    <3>2. QED
      BY <3>1
  <2> HIDE DEF listed, row, req
  <2>2. SumFunctionOnSet(req, listed)
          = SumFunctionOnSet(Amount(r), {row[i] : i \in listed})
    BY <1>6, <1>7, <2>1, SumRenamed
  <2>3. QED
    BY <1>5, <2>2 DEF HeldSum, req
<1>11. QED
  BY <1>9, <1>10 DEF Books

\* As long as no two programs were inside their res_mutex sections together,
\* no unit of RAM, disk or cores is lost or given out twice: whenever no call
\* is half done, what is available and what the listed processes were given
\* add up to the machine.  (process.c:42-56, 102-110)
THEOREM BooksBalance == Spec => []Accounting
<1>1. Init => TypeInv /\ SoundInv /\ BooksInv
  BY TypeInit, SoundInit, BooksInit DEF SoundInv, BooksInv
<1>2. TypeInv /\ SoundInv /\ BooksInv /\ [Next]_vars =>
        TypeInv' /\ SoundInv' /\ BooksInv'
  BY TypeNext, SoundNext, BooksNext
<1>3. TypeInv /\ SoundInv /\ BooksInv => Accounting
  BY AtRestBalanced DEF SoundInv, BooksInv, Accounting
<1>4. QED
  BY <1>1, <1>2, <1>3, PTL DEF Spec

-----------------------------------------------------------------------------
(* The stores into the table are those of the writers of Readers.          *)

SeenPids == [i \in Slots |-> procs[i].pid]
SeenIssued == IF kpc = "fill" THEN next_pid ELSE next_pid - 1
Nothing == [kind |-> "none", slot |-> 0]

\* A creation under way has a pid left for it.
PidLeft == kpc \in {"claim", "bump", "fill"} => next_pid <= MaxPid

LEMMA PidLeftNext == TypeInv /\ PidLeft /\ [Next]_vars => PidLeft'
<1> SUFFICES ASSUME TypeInv, PidLeft, [Next]_vars PROVE PidLeft'
  OBVIOUS
<1>1. CASE UNCHANGED vars
  BY <1>1 DEF PidLeft, vars, sharedVars, kernelVars
<1>2. CASE Clicks
  BY <1>2 DEF Clicks, AutoStartNext, OnAppClick, CreateProcess, KillSelected,
    PidLeft, sharedVars, kernelVars
<1>3. CASE AutoStartReturn \/ DeniedDialog \/ LaunchApp
  BY <1>3 DEF AutoStartReturn, DeniedDialog, LaunchApp, PidLeft
<1>4. CASE CreateSteps
  BY <1>4 DEF CreateSteps, ClaimSlot, StoreCount, FillSlot, LoadAvail,
    StoreAvail, MarkReady, Enqueue, PidLeft, sharedVars
<1>5. CASE DispatcherSteps
  BY <1>5, DispatcherQuiet DEF DispatcherSteps, PidLeft, kernelVars
<1>6. ASSUME NEW m \in Managers, ManagerSteps(m) PROVE PidLeft'
  BY <1>6 DEF ManagerSteps, TerminateSteps, ScanSlot, LoadFreed, StoreFreed,
    LoadCount, DropCount, MoveLast, PidLeft, sharedVars, kernelVars
<1>7. QED
  BY <1>1, <1>2, <1>3, <1>4, <1>5, <1>6 DEF Next, Step, KernelSteps

LEMMA SeenMoving ==
  ASSUME ~Overlapping, NEW m \in Managers, mpc[m] = "copy"
  PROVE  kpc # "fill" /\ SeenChange = [kind |-> "move", slot |-> mslot[m]]
<1>1. kpc # "fill" /\ \A n \in Managers : mpc[n] = "copy" => n = m
  BY DEF Overlapping, ManagersCross, KernelInside, ManagerInside
<1>2. m = CHOOSE n \in Managers : mpc[n] = "copy"
  BY <1>1
<1>3. QED
  BY <1>1, <1>2 DEF SeenChange

LEMMA SeenMovingNext ==
  ASSUME ~Overlapping', NEW m \in Managers, mpc'[m] = "copy"
  PROVE  kpc' # "fill" /\ SeenChange' = [kind |-> "move", slot |-> mslot'[m]]
<1>1. kpc' # "fill" /\ \A n \in Managers : mpc'[n] = "copy" => n = m
  BY DEF Overlapping, ManagersCross, KernelInside, ManagerInside
<1>2. m = CHOOSE n \in Managers : mpc'[n] = "copy"
  BY <1>1
<1>3. QED
  BY <1>1, <1>2 DEF SeenChange

LEMMA SeenNothing ==
  ASSUME kpc # "fill", \A m \in Managers : mpc[m] # "copy"
  PROVE  SeenChange = Nothing
  BY DEF SeenChange, Nothing

LEMMA SeenNothingNext ==
  ASSUME kpc' # "fill", \A m \in Managers : mpc'[m] # "copy"
  PROVE  SeenChange' = Nothing
  BY DEF SeenChange, Nothing

SeenSame == UNCHANGED <<SeenPids, proc_count, SeenIssued, SeenChange>>

LEMMA SeenQuiet ==
  ASSUME ~Overlapping, ~Overlapping', UNCHANGED <<proc_count, next_pid>>,
         \A i \in Slots : procs'[i].pid = procs[i].pid,
         kpc' = "fill" <=> kpc = "fill", kpc = "fill" => kslot' = kslot,
         \A m \in Managers : mpc'[m] = "copy" <=> mpc[m] = "copy",
         \A m \in Managers : mpc[m] = "copy" => mslot'[m] = mslot[m]
  PROVE  SeenSame
<1>1. UNCHANGED SeenChange
  <2>1. CASE kpc = "fill"
    BY <2>1 DEF SeenChange
  <2>2. ASSUME NEW m \in Managers, mpc[m] = "copy" PROVE UNCHANGED SeenChange
    BY <2>2, SeenMoving, SeenMovingNext
  <2>3. CASE kpc # "fill" /\ \A m \in Managers : mpc[m] # "copy"
    BY <2>3, SeenNothing, SeenNothingNext
  <2>4. QED
    BY <2>1, <2>2, <2>3
<1>2. UNCHANGED <<SeenPids, SeenIssued>>
  BY DEF SeenPids, SeenIssued
<1>3. QED
  BY <1>1, <1>2 DEF SeenSame

LEMMA CountSeen ==
  ASSUME TypeInv, Sound, PidLeft, ~Overlapping', StoreCount
  PROVE  Seen!CountOneMore
<1>1. KernelInside' /\ UNCHANGED managerVars
  BY DEF StoreCount, KernelInside
<1>2. \A m \in Managers : mpc[m] # "copy"
  BY <1>1, KernelAlone DEF ManagerInside
<1>3. /\ kslot = proc_count /\ proc_count \in Slots
      /\ next_pid \in Nat /\ next_pid <= MaxPid
  BY DEF StoreCount, Sound, KernelSound, TypeInv, TypeOK, ProcessTypeOK, PidLeft
<1>4. SeenChange = Nothing
  BY <1>2, SeenNothing DEF StoreCount
<1>5. SeenChange' = [kind |-> "fill", slot |-> proc_count]
  BY <1>3 DEF StoreCount, SeenChange
<1>6. proc_count < MAX_PROC /\ next_pid - 1 < MaxPid /\ next_pid = (next_pid - 1) + 1
  BY <1>3, MiniOSAssumption DEF Slots
<1>7. /\ kpc # "fill" /\ kpc' = "fill" /\ next_pid' = next_pid /\ procs' = procs
      /\ proc_count' = proc_count + 1
  BY <1>3 DEF StoreCount
<1>8. Seen!Begin("fill", proc_count)
  BY <1>4, <1>5, <1>7 DEF Seen!Begin, Seen!NoChange, Nothing
<1>9. QED
  BY <1>6, <1>7, <1>8 DEF Seen!CountOneMore

LEMMA FillSeen ==
  ASSUME TypeInv, Sound, ~Overlapping', FillSlot
  PROVE  Seen!StoreRow
<1>1. KernelInside' /\ UNCHANGED managerVars
  BY DEF FillSlot, KernelInside
<1>2. \A m \in Managers : mpc[m] # "copy" /\ mpc'[m] # "copy"
  BY <1>1, KernelAlone DEF ManagerInside
<1>3. /\ kslot \in Slots /\ next_pid \in Nat /\ procs \in [Slots -> Process]
  BY DEF TypeInv, TypeOK, ProcessTypeOK
<1>4. SeenChange = [kind |-> "fill", slot |-> kslot]
  BY DEF FillSlot, SeenChange
<1>5. SeenChange' = Nothing
  BY <1>2, SeenNothingNext DEF FillSlot
<1>6. SeenPids' = [SeenPids EXCEPT ![kslot] = next_pid]
  <2>1. procs'[kslot].pid = next_pid
    BY <1>3 DEF FillSlot
  <2>2. \A i \in Slots : i # kslot => procs'[i] = procs[i]
    BY <1>3 DEF FillSlot
  <2>3. QED
    BY <1>3, <2>1, <2>2 DEF SeenPids
<1>7. /\ kpc = "fill" /\ kpc' # "fill" /\ next_pid' - 1 = next_pid
      /\ proc_count' = proc_count
  BY <1>3 DEF FillSlot
<1>8. SeenChange # Nothing
  BY <1>4 DEF Nothing
<1>9. SeenPids' = [SeenPids EXCEPT ![SeenChange.slot] = Seen!NewPid(SeenChange.kind)]
  BY <1>4, <1>6, <1>7 DEF Seen!NewPid
<1>10. QED
  BY <1>5, <1>7, <1>8, <1>9 DEF Seen!StoreRow, Seen!NoChange, Nothing, SeenPids

LEMMA DropSeen ==
  ASSUME TypeInv, Sound, NEW m \in Managers, DropCount(m)
  PROVE  \E i \in Seen!Row : Seen!CountOneLess(i)
<1>1. OthersKept(m)
  BY StepKeepsOthers DEF TerminateSteps
<1>2. /\ mpc \in [Managers -> ManagerPC] /\ proc_count \in Int
      /\ mpc[m] = "newcount" /\ ManagerInside(m) /\ mslot[m] \in Slots
      /\ UNCHANGED <<mslot, procs, next_pid, kpc>> /\ mpc'[m] = "copy"
  BY DEF TypeInv, TypeOK, ProcessTypeOK, SlotsFound, FoundPC, DropCount,
    ManagerInside, kernelVars
<1>3. mslot[m] < proc_count /\ proc_count' = proc_count - 1
  BY <1>2 DEF Sound, ManagerSound, DropCount
<1>4. /\ ~KernelInside /\ ~KernelInside' /\ ~Overlapping'
      /\ \A n \in Managers : n # m => ~ManagerInside(n) /\ ~ManagerInside(n)'
  BY <1>1, <1>2, ManagerAlone
<1>5. SeenChange = Nothing
  BY <1>2, <1>4, SeenNothing DEF KernelInside, ManagerInside
<1>6. SeenChange' = [kind |-> "move", slot |-> mslot[m]]
  BY <1>2, <1>4, SeenMovingNext
<1>7. Seen!Begin("move", mslot[m])
  BY <1>2, <1>5, <1>6 DEF Seen!Begin, Seen!NoChange, Nothing
<1>8. Seen!CountOneLess(mslot[m])
  BY <1>2, <1>3, <1>7 DEF Seen!CountOneLess
<1>9. QED
  BY <1>2, <1>8 DEF Seen!Row, Slots

LEMMA MoveSeen ==
  ASSUME TypeInv, Sound, NEW m \in Managers, MoveLast(m)
  PROVE  Seen!StoreRow
<1>1. OthersKept(m)
  BY StepKeepsOthers DEF TerminateSteps
<1>2. /\ mpc \in [Managers -> ManagerPC] /\ procs \in [Slots -> Process]
      /\ proc_count \in Int /\ mslot[m] \in Slots
      /\ mpc[m] = "copy" /\ ManagerInside(m) /\ mreg[m] < MAX_PROC
      /\ UNCHANGED <<proc_count, next_pid, kpc>>
  BY DEF TypeInv, TypeOK, ProcessTypeOK, SlotsFound, FoundPC, MoveLast, Moved,
    ManagerInside, kernelVars
<1>3. mreg[m] = proc_count /\ proc_count \in Slots
  <2>1. mreg[m] = proc_count /\ proc_count >= 0
    BY <1>2 DEF Sound, ManagerSound
  <2>2. QED
    BY <1>2, <2>1, MiniOSAssumption DEF Slots
<1>4. procs' = [procs EXCEPT ![mslot[m]] = procs[proc_count]] /\ mpc'[m] = "idle"
  BY <1>2, <1>3 DEF MoveLast, Moved, Return, Slots
<1>5. /\ ~KernelInside /\ ~KernelInside' /\ ~Overlapping'
      /\ \A n \in Managers : n # m => ~ManagerInside(n) /\ ~ManagerInside(n)'
  BY <1>1, <1>2, ManagerAlone
<1>6. kpc # "fill" /\ SeenChange = [kind |-> "move", slot |-> mslot[m]]
  BY <1>2, SeenMoving DEF Sound
<1>7. SeenChange' = Nothing
  BY <1>4, <1>5, SeenNothingNext DEF KernelInside, ManagerInside
<1>8. SeenPids' = [SeenPids EXCEPT ![mslot[m]] = SeenPids[proc_count]]
  BY <1>2, <1>3, <1>4 DEF SeenPids
<1>9. SeenPids' = [SeenPids EXCEPT ![SeenChange.slot] = Seen!NewPid(SeenChange.kind)]
  BY <1>6, <1>8 DEF Seen!NewPid, SeenPids
<1>10. SeenChange # Nothing
  BY <1>6 DEF Nothing
<1>11. QED
  BY <1>2, <1>6, <1>7, <1>9, <1>10 DEF Seen!StoreRow, Seen!NoChange, Nothing, SeenPids

LEMMA KernelSeen ==
  ASSUME TypeInv, Sound, PidLeft, ~Overlapping', KernelSteps
  PROVE  Seen!WritersNext \/ SeenSame
<1>1. CASE StoreCount
  BY <1>1, CountSeen DEF Seen!WritersNext
<1>2. CASE FillSlot
  BY <1>2, FillSeen DEF Seen!WritersNext
<1>3. CASE AutoStartReturn \/ DeniedDialog \/ ClaimSlot \/ LoadAvail \/ Enqueue
  <2>1. CASE ClaimSlot
    <3>1. UNCHANGED proc_count
      BY <2>1 DEF ClaimSlot, Sound, TypeInv, TypeOK, ProcessTypeOK
    <3> QED
      BY <2>1, <3>1, SeenQuiet DEF ClaimSlot, managerVars, Sound
  <2>2. CASE ~ClaimSlot
    BY <1>3, <2>2, SeenQuiet
    DEF AutoStartReturn, DeniedDialog, ForgetCall, LoadAvail, Enqueue,
      sharedVars, managerVars, Sound
  <2> QED
    BY <2>1, <2>2
<1>4. CASE LaunchApp
  <2>1. \A m \in Managers : mpc'[m] = "copy" <=> mpc[m] = "copy"
    BY <1>4 DEF LaunchApp, TypeInv, TypeOK, ProcessTypeOK
  <2>2. QED
    BY <1>4, <2>1, SeenQuiet DEF LaunchApp, sharedVars, Sound
<1>5. CASE StoreAvail
  BY <1>5, SeenQuiet DEF StoreAvail, managerVars, Sound
<1>6. CASE MarkReady
  <2>1. \A i \in Slots : procs'[i].pid = procs[i].pid
    BY <1>6 DEF MarkReady, TypeInv, TypeOK, ProcessTypeOK, Process
  <2>2. QED
    BY <1>6, <2>1, SeenQuiet DEF MarkReady, managerVars, Sound
<1>7. QED
  BY <1>1, <1>2, <1>3, <1>4, <1>5, <1>6 DEF KernelSteps, CreateSteps

LEMMA ManagerSeen ==
  ASSUME TypeInv, Sound, ~Overlapping', NEW m \in Managers, ManagerSteps(m)
  PROVE  Seen!WritersNext \/ SeenSame
<1>1. CASE DropCount(m)
  BY <1>1, DropSeen DEF Seen!WritersNext
<1>2. CASE MoveLast(m)
  BY <1>2, MoveSeen DEF Seen!WritersNext
<1>3. CASE ScanSlot(m) \/ LoadFreed(m) \/ StoreFreed(m) \/ LoadCount(m)
  <2>1. OthersKept(m) /\ mpc \in [Managers -> ManagerPC]
    BY <1>3, StepKeepsOthers DEF TerminateSteps, TypeInv, TypeOK, ProcessTypeOK
  <2>2. /\ mpc[m] # "copy" /\ mpc'[m] # "copy"
        /\ UNCHANGED <<procs, proc_count, next_pid, kpc, kslot>>
    BY <1>3, <2>1 DEF ScanSlot, LoadFreed, StoreFreed, LoadCount, Return,
      sharedVars, kernelVars
  <2>3. \A n \in Managers : mpc'[n] = "copy" <=> mpc[n] = "copy"
    BY <2>1, <2>2 DEF OthersKept
  <2>4. \A n \in Managers : mpc[n] # "copy"
    <3>1. ManagerInside(m)
      BY <1>3 DEF ScanSlot, LoadFreed, StoreFreed, LoadCount, ManagerInside
    <3>2. QED
      BY <2>1, <2>2, <3>1, ManagerAlone DEF ManagerInside
  <2>5. QED
    BY <2>2, <2>3, <2>4, SeenQuiet DEF Sound
<1>4. QED
  BY <1>1, <1>2, <1>3 DEF ManagerSteps, TerminateSteps

LEMMA StepSeen ==
  ASSUME TypeInv, Sound, PidLeft, ~Overlapping', Step
  PROVE  Seen!WritersNext \/ SeenSame
<1>1. CASE Clicks
  <2>1. ASSUME NEW a, CreateProcess(a) PROVE SeenSame
    BY <2>1, SeenQuiet DEF CreateProcess, sharedVars, managerVars, Sound
  <2>2. ASSUME NEW m \in Managers, NEW pid \in 1 .. MaxPid, KillSelected(m, pid)
        PROVE  SeenSame
    <3>1. mpc \in [Managers -> ManagerPC]
      BY DEF TypeInv, TypeOK, ProcessTypeOK
    <3>2. \A n \in Managers : mpc'[n] = "copy" <=> mpc[n] = "copy"
      BY <2>2, <3>1 DEF KillSelected
    <3>3. QED
      BY <2>2, <3>2, SeenQuiet DEF KillSelected, sharedVars, kernelVars, Sound
  <2>3. QED
    BY <1>1, <2>1, <2>2 DEF Clicks, AutoStartNext, OnAppClick
<1>2. CASE KernelSteps
  BY <1>2, KernelSeen
<1>3. CASE DispatcherSteps
  BY <1>3, DispatcherQuiet, SeenQuiet
  DEF DispatcherSteps, kernelVars, managerVars, Sound
<1>4. ASSUME NEW m \in Managers, ManagerSteps(m)
      PROVE  Seen!WritersNext \/ SeenSame
  BY <1>4, ManagerSeen
<1>5. QED
  BY <1>1, <1>2, <1>3, <1>4 DEF Step

LEMMA SeenInit == Init => PidLeft /\ Seen!ReadersInit
<1> SUFFICES ASSUME Init PROVE PidLeft /\ Seen!ReadersInit
  OBVIOUS
<1>1. SeenChange = Nothing
  BY SeenNothing DEF Init, ProcessInit
<1>2. SeenPids = [i \in Seen!Row |-> 0]
  BY DEF SeenPids, Seen!Row, Slots, Init, SharedInit, ZeroProcess
<1>3. PidLeft /\ proc_count = 0 /\ next_pid - 1 = 0 /\ kpc # "fill"
  BY DEF PidLeft, Init, SharedInit, ProcessInit
<1>4. QED
  BY <1>1, <1>2, <1>3 DEF Seen!ReadersInit, Seen!NoChange, Nothing, SeenPids

\* Until two programs were inside their sections together, the kernel and the
\* managers write the table as Readers has it: what ReadersProofs shows of the
\* lists is about this table.  (process.c:42-46, 109-110)
THEOREM TableIsAsRead == Spec => WrittenAsRead
<1> DEFINE Inv == TypeInv /\ SoundInv /\ PidLeft
<1>1. Init => Inv /\ Seen!ReadersInit
  BY TypeInit, SoundInit, SeenInit DEF SoundInv
<1>2. Inv /\ [Next]_vars => Inv'
  BY TypeNext, SoundNext, PidLeftNext
<1>3. Inv /\ [Next]_vars => [overlap' \/ Seen!WritersNext]_(Seen!tableVars)
  <2> SUFFICES ASSUME Inv, [Next]_vars, ~overlap'
               PROVE  Seen!WritersNext \/ UNCHANGED Seen!tableVars
    OBVIOUS
  <2>1. CASE Next
    <3>1. ~overlap /\ ~Overlapping'
      BY <2>1 DEF Next, History
    <3>2. Seen!WritersNext \/ SeenSame
      BY <2>1, <3>1, StepSeen DEF Next, SoundInv
    <3>3. QED
      BY <3>2 DEF SeenSame, SeenPids, SeenIssued, Seen!tableVars
  <2>2. CASE UNCHANGED vars
    BY <2>2 DEF vars, sharedVars, kernelVars, managerVars, Seen!tableVars,
      SeenChange
  <2>3. QED
    BY <2>1, <2>2
<1>4. QED
  BY <1>1, <1>2, <1>3, PTL DEF Spec, WrittenAsRead
=============================================================================
