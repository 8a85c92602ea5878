------------------------------ MODULE FileOps -------------------------------
(***************************************************************************)
(* File Operations (apps/fileops.c): every copy runs in a thread of its    *)
(* own, beside other copies and the Delete button.  A path names an inode, *)
(* which an open file keeps when the path is removed or used again.  The   *)
(* disk is never full.                                                     *)
(***************************************************************************)
EXTENDS Integers, Sequences

CONSTANTS
  Path,
  Copier,    \* the threads that Copy may start, a bound
  Inode,     \* the inodes there may be, a bound
  FirstDir,  \* the inode of each path at first; 0 is none
  FirstLen   \* the blocks of each inode at first

ASSUME FileOpsAssumption ==
  /\ Path # {} /\ Inode \subseteq Nat \ {0}
  /\ FirstDir \in [Path -> Inode \cup {0}]
  /\ FirstLen \in [Inode -> Nat]

VARIABLES
  dirent,    \* the inode of each path
  data,      \* the blocks of each inode
  copy,      \* each copy_thread, see Copying
  disturbed  \* history: threads one of whose files was truncated or written
             \* by somebody else while they used it, or is both of theirs

fileVars == <<dirent, data, copy, disturbed>>

\* A block is known by the inode and the place that it comes from.
Hole == <<0, 0>>
Block == (Inode \X Nat) \cup {Hole}

\* src and dst are the paths, in and out the open files (0 is NULL), pos the
\* blocks done, and buf what was read and is to be written.
NullInode == Inode \cup {0}
Copying == [pc : {"off", "opensrc", "opendst", "read", "write", "done"},
            src : Path, dst : Path, in : NullInode, out : NullInode,
            pos : Nat, buf : Block]

FilesTypeOK ==
  /\ dirent \in [Path -> NullInode]
  /\ data \in [Inode -> Seq(Block)]
  /\ copy \in [Copier -> Copying]
  /\ disturbed \subseteq Copier

AnyPath == CHOOSE p \in Path : TRUE

FilesInit ==
  /\ dirent = FirstDir
  /\ data = [i \in Inode |-> [k \in 1 .. FirstLen[i] |-> <<i, k>>]]
  /\ copy = [t \in Copier |->
               [pc |-> "off", src |-> AnyPath, dst |-> AnyPath, in |-> 0,
                out |-> 0, pos |-> 0, buf |-> Hole]]
  /\ disturbed = {}

-----------------------------------------------------------------------------
DoCopy(t, p, q) ==
  /\ copy[t].pc = "off"
  /\ copy' = [copy EXCEPT ![t].pc = "opensrc", ![t].src = p, ![t].dst = q]
  /\ UNCHANGED <<dirent, data, disturbed>>

\* The path may name nothing, or not be readable.
OpenSource(t) ==
  /\ copy[t].pc = "opensrc"
  /\ \E i \in {dirent[copy[t].src], 0} :
       copy' = [copy EXCEPT ![t].pc = "opendst", ![t].in = i]
  /\ UNCHANGED <<dirent, data, disturbed>>

Users(i) ==
  {t \in Copier : /\ copy[t].pc \in {"opendst", "read", "write"}
                  /\ i \in {copy[t].in, copy[t].out}}

Unused == {i \in Inode : Users(i) = {} /\ \A p \in Path : dirent[p] # i}

AsItWas(s) == s
Truncated(s) == << >>

\* fopen "wb", the source being there or not: it truncates the file that the
\* path names, or creates one.
OpenDestination(t) ==
  /\ copy[t].pc = "opendst"
  /\ LET q == copy[t].dst
         Opened(i) ==
           copy' = [copy EXCEPT ![t].out = i,
                      ![t].pc = IF i # 0 /\ copy[t].in # 0 THEN "read" ELSE "done"]
     IN  \/ /\ dirent[q] # 0
            /\ Opened(dirent[q])
            /\ data' = [data EXCEPT ![dirent[q]] = Truncated(@)]
            /\ disturbed' = disturbed \cup Users(dirent[q])
            /\ UNCHANGED dirent
         \/ /\ dirent[q] = 0 /\ Unused # {}
            /\ dirent' = [dirent EXCEPT ![q] = CHOOSE i \in Unused : TRUE]
            /\ Opened(dirent'[q])
            /\ data' = [data EXCEPT ![dirent'[q]] = << >>]
            /\ UNCHANGED disturbed
         \/ Opened(0) /\ UNCHANGED <<dirent, data, disturbed>>

ReadBlock(t) ==
  LET c == copy[t]
  IN  /\ c.pc = "read"
      /\ IF c.pos < Len(data[c.in])
         THEN copy' = [copy EXCEPT ![t].pc = "write",
                                   ![t].buf = data[c.in][c.pos + 1]]
         ELSE copy' = [copy EXCEPT ![t].pc = "done"]
      /\ UNCHANGED <<dirent, data, disturbed>>

\* A write past the end, after somebody else's truncation, leaves a hole.
Overwritten(s, n, b) ==
  [k \in 1 .. (IF n > Len(s) THEN n ELSE Len(s)) |->
     IF k = n THEN b ELSE IF k \in DOMAIN s THEN s[k] ELSE Hole]

WriteBlock(t) ==
  LET c == copy[t]
  IN  /\ c.pc = "write"
      /\ data' = [data EXCEPT ![c.out] = Overwritten(@, c.pos + 1, c.buf)]
      /\ copy' = [copy EXCEPT ![t].pc = "read", ![t].pos = @ + 1,
                              ![t].buf = Hole]
      /\ disturbed' = disturbed \cup (Users(c.out) \ {t})
      /\ UNCHANGED dirent

\* remove() takes the name away; whoever has the file open keeps it.
DoDelete(p) ==
  /\ dirent[p] # 0
  /\ dirent' = [dirent EXCEPT ![p] = 0]
  /\ UNCHANGED <<data, copy, disturbed>>

FilesNext ==
  \/ \E t \in Copier :
       \/ \E p, q \in Path : DoCopy(t, p, q)
       \/ OpenSource(t) \/ OpenDestination(t) \/ ReadBlock(t) \/ WriteBlock(t)
  \/ \E p \in Path : DoDelete(p)

-----------------------------------------------------------------------------
\* A copy that nobody else's copy crossed ends with the blocks of its source
\* in its destination and nothing of what was there, whatever was deleted, or
\* copied elsewhere, meanwhile.  (fileops.c:5-29, 40-42)
CopyFaithful ==
  [][\A t \in Copier \ disturbed :
       copy[t].pc = "read" /\ copy'[t].pc = "done"
         => data[copy[t].out] = data[copy[t].in]]_fileVars
=============================================================================
