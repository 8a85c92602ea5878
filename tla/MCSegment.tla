----------------------------- MODULE MCSegment ------------------------------
(***************************************************************************)
(* Two kernels one after the other or beside each other, two programs.     *)
(* TLC's symmetry is sound here: no property distinguishes the members of  *)
(* either set, and none is a liveness property.                            *)
(***************************************************************************)
EXTENDS Segment, TLC

Symmetry == Permutations(Kernel) \cup Permutations(App)
=============================================================================
