----------------------------- MODULE MCPrograms -----------------------------
(***************************************************************************)
(* Small boards with every placement of the mines, a short playlist and    *)
(* more players than one song after the other needs, days of a few         *)
(* seconds, and two of everything that two threads can quarrel about.      *)
(***************************************************************************)
EXTENDS Programs

\* A short file, a longer one, and a path that names nothing.
MCFirstDir == [p \in Path |-> CASE p = "short" -> 1 [] p = "long" -> 2 [] OTHER -> 0]
MCFirstLen == [i \in Inode |-> IF i \in {1, 2} THEN i ELSE 0]
=============================================================================
