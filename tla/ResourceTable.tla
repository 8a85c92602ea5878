---------------------------- MODULE ResourceTable ---------------------------
(***************************************************************************)
(* What the resource table promises, without its implementation: a process *)
(* is admitted in one step, with a fresh pid and only if what it demands   *)
(* is available, and released in one step, which gives back exactly what   *)
(* it holds.                                                               *)
(*                                                                         *)
(* The promise lasts until two programs update the table at the same time  *)
(* (broken); from then on nothing is promised.                             *)
(***************************************************************************)
EXTENDS Integers

CONSTANTS NumRes, Total

Res == 1 .. NumRes
Demand == [Res -> Nat]

VARIABLES
  free,     \* what may still be given away, by kind
  held,     \* pairs of a pid and what that process holds
  issued,   \* the last pid given away
  broken

vars == <<free, held, issued, broken>>

Init ==
  /\ free = Total
  /\ held = {}
  /\ issued = 0
  /\ broken = FALSE

Admit(d) ==
  /\ \A r \in Res : d[r] <= free[r]
  /\ free' = [r \in Res |-> free[r] - d[r]]
  /\ issued' = issued + 1
  /\ held' = held \cup {<<issued + 1, d>>}

Release(h) ==
  /\ held' = held \ {h}
  /\ free' = [r \in Res |-> free[r] + h[2][r]]
  /\ UNCHANGED issued

Next ==
  \/ broken'
  \/ /\ ~broken'
     /\ UNCHANGED broken
     /\ \/ \E d \in {h[2] : h \in held'} : Admit(d)
        \/ \E h \in held : Release(h)

Spec == Init /\ [][Next]_vars
=============================================================================
