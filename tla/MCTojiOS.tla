------------------------------ MODULE MCTojiOS ------------------------------
(***************************************************************************)
(* Small instances of TojiOS: one or two slots, one kind of resource or    *)
(* two, and the three sorts of app the registry of main.c has: a manager   *)
(* at the high level, a normal app and a low one.                          *)
(***************************************************************************)
EXTENDS TojiOS, TLC

Manager(d) == [req |-> d, priority |-> 1, manages |-> TRUE]
Normal(d) == [req |-> d, priority |-> 2, manages |-> FALSE]
Low(d) == [req |-> d, priority |-> 3, manages |-> FALSE]

\* Three apps of four units, of which any two fit but not all three.
MCTotal == <<3>>
MCApps == {Manager(<<1>>), Normal(<<2>>), Low(<<1>>)}

\* One of the two processes that main() creates.
MCAutoStart == <<Low(<<1>>)>>
NoAutoStart == << >>

\* Enough of the one resource for every slot.
MCAmple == <<3>>
MCAppsLight == {Manager(<<1>>), Normal(<<1>>), Low(<<1>>)}

\* Only managers, which may kill each other; RAM and a disk that one uses up.
MCTotalManagers == <<3, 1>>
MCAppsManagers == {Manager(<<1, 1>>)}
ManagerSymmetry == Permutations(Managers)
=============================================================================
