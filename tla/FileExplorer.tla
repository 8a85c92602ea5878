---------------------------- MODULE FileExplorer ----------------------------
(***************************************************************************)
(* The File Explorer (apps/fileexplorer.c): cur_path is cut and extended   *)
(* in place as the user goes up and down, and listed again each time.      *)
(*                                                                         *)
(* A path is the sequence of what stands after each of its slashes: "/" is *)
(* <<"">>, "//a" is <<"", "a">>, and << >> is the empty string.            *)
(***************************************************************************)
EXTENDS Integers, SequencesExt

CONSTANTS
  DirName,  \* names of directories; each may be found in every directory
  Home,     \* where the explorer starts
  MaxDepth  \* bound of the model: cur_path keeps within its 512 bytes

\* What stands between two slashes in a row.
NoName == ""

ASSUME FileExplorerAssumption ==
  Home \in DirName /\ NoName \notin DirName /\ MaxDepth \in Nat \ {0}

VARIABLES
  cur_path,
  rows,      \* the directory that was listed last
  listed,    \* its entries are shown; FALSE is an empty list
  inside     \* history: the directory that the user has gone to

explorerVars == <<cur_path, rows, listed, inside>>

ExplorerTypeOK ==
  /\ cur_path \in Seq(DirName \cup {NoName})
  /\ rows \in Seq(DirName) /\ inside \in Seq(DirName)
  /\ listed \in BOOLEAN

\* Where a name leads from a directory: "//" is like "/".
Into(dir, n) == IF n = NoName THEN dir ELSE Append(dir, n)

\* The directory that a path names; << >> is the root.
Resolved(path) ==
  LET upTo[k \in 0 .. Len(path)] ==
        IF k = 0 THEN << >> ELSE Into(upTo[k - 1], path[k])
  IN  upTo[Len(path)]

\* load_dir: it clears the list, and the directory may not open.  The path
\* that stays then is the one the caller left.
LoadDir(path, left) ==
  \/ /\ path # << >>
     /\ listed' = TRUE
     /\ rows' = Resolved(path)
     /\ cur_path' = path
  \/ /\ listed' = FALSE
     /\ UNCHANGED rows
     /\ cur_path' = left

ExplorerInit ==
  /\ cur_path = <<Home>>
  /\ rows = <<Home>> /\ listed \in BOOLEAN
  /\ inside = <<Home>>

-----------------------------------------------------------------------------
CutToNothing(path) == Front(path)
\* The last slash goes with what follows it, unless it is the first.
Cut(path) == IF Len(path) > 1 THEN Front(path) ELSE <<NoName>>

ActivateParent ==
  /\ listed
  /\ LoadDir(Cut(cur_path), Cut(cur_path))
  /\ inside' = IF inside = << >> THEN inside ELSE Front(inside)

ActivateDir(n) ==
  /\ listed
  /\ Len(inside) < MaxDepth
  /\ LoadDir(Append(cur_path, n), cur_path)
  /\ inside' = IF listed' THEN Append(inside, n) ELSE inside

ExplorerNext == ActivateParent \/ \E n \in DirName : ActivateDir(n)

-----------------------------------------------------------------------------
\* However the slashes pile up, cur_path is a path of the directory that the
\* user has gone to, and what is listed are its entries.
\* (fileexplorer.c:8-19, 30-38)
PathFollowsUser ==
  /\ cur_path # << >> /\ Resolved(cur_path) = inside
  /\ listed => rows = inside
=============================================================================
