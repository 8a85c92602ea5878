---------------------------- MODULE ReadersProofs ----------------------------
(***************************************************************************)
(* A walk over a table that changes, for any number of rows and pids.      *)
(***************************************************************************)
EXTENDS Readers, SequenceTheorems, TLAPS

\* The rows that hold a process: the last one too, while its move to another
\* row is to come, but not the one that is still to be filled.
Live ==
  {j \in Row : \/ j < count /\ ~(change.kind = "fill" /\ j = change.slot)
               \/ change.kind = "move" /\ j = count}

\* No process is in two rows, and the next to come has a pid of its own.
TableInv ==
  /\ pids \in [Row -> Pid] /\ count \in 0 .. MAX_ROWS /\ issued \in Pid
  /\ change \in [kind : {"none", "fill", "move"}, slot : Row]
  /\ change.kind = "none" => change = NoChange
  /\ change.kind = "fill" => change.slot = count - 1
  /\ change.kind = "move" => change.slot <= count /\ count < MAX_ROWS
  /\ \A j \in Live : pids[j] <= issued /\ (change.kind = "fill" => pids[j] < issued)
  /\ \A j, k \in Live : pids[j] = pids[k] => j = k

\* The rows that the walk may still list.
Ahead ==
  {j \in Row : j >= Len(list) /\ (j \in Live \/ (walk = "row" /\ j = Len(list)))}

\* How many rows are filled for sure.
Filled == IF change.kind = "fill" THEN count - 1 ELSE count

\* What is listed, and what is still ahead, by what the walk has crossed.
WalkInv ==
  /\ walk \in {"off", "count", "row"} /\ list \in Seq(Pid) /\ before \in Seq(Pid)
  /\ walk = "off" => list = << >>
  /\ walk = "row" => Len(list) \in Row
  /\ walk # "off" /\ change.kind # "none" => change.kind \in crossed
  /\ walk # "off" /\ "move" \notin crossed =>
       /\ Len(before) <= Filled
       /\ \A k \in 1 .. Len(before) :
            pids[k - 1] = before[k] /\ (k <= Len(list) => list[k] = before[k])
  /\ walk # "off" /\ crossed = {} =>
       Len(before) = count /\ Len(list) <= count /\ (walk = "row" => Len(list) < count)
  /\ walk # "off" /\ "fill" \notin crossed =>
       /\ \A k, l \in 1 .. Len(list) : list[k] = list[l] => k = l
       /\ \A j \in Ahead : \A k \in 1 .. Len(list) : list[k] # pids[j]

ReadersInv == TableInv /\ WalkInv

LEMMA ReadersStart == ReadersInit => ReadersInv
<1> SUFFICES ASSUME ReadersInit PROVE ReadersInv
  OBVIOUS
<1>1. 0 \in Row /\ 0 \in Pid /\ 0 \in 0 .. MAX_ROWS /\ Live = {}
  BY ReadersAssumption DEF ReadersInit, Row, Pid, Live, NoChange
<1> QED
  BY <1>1 DEF ReadersInit, ReadersInv, TableInv, WalkInv, NoChange

\* The rows that are live, change by change.
LEMMA LiveFacts ==
  ASSUME TableInv
  PROVE  /\ count \in Int /\ issued \in Int /\ Row \subseteq Int
         /\ change.kind = "none" => Live = {j \in Row : j < count}
         /\ change.kind = "fill" => Live = {j \in Row : j < count - 1}
         /\ change.kind = "move" => Live = {j \in Row : j <= count} /\ count \in Row
  BY ReadersAssumption DEF TableInv, Live, Row, Pid

LEMMA CreationBegins ==
  ASSUME TableInv, CountOneMore
  PROVE  /\ TableInv' /\ Live' = Live /\ pids' = pids /\ Filled' = Filled
         /\ change'.kind = "fill" /\ change.kind = "none"
<1>1. /\ change = NoChange /\ count < MAX_ROWS /\ issued < MAX_PIDS
      /\ count' = count + 1 /\ issued' = issued + 1 /\ pids' = pids
      /\ change' = [kind |-> "fill", slot |-> count]
  BY DEF CountOneMore, Begin
<1>2. count \in Row /\ count' \in 0 .. MAX_ROWS /\ issued' \in Pid
  BY <1>1, ReadersAssumption DEF TableInv, Row, Pid
<1>3. change' \in [kind : {"none", "fill", "move"}, slot : Row]
  BY <1>1, <1>2
<1>4. Live' = Live /\ Filled' = Filled
  BY <1>1, <1>2 DEF Live, Filled, TableInv, Row, NoChange
<1>5. \A j \in Live : pids[j] < issued'
  BY <1>1, <1>2, LiveFacts DEF TableInv, Live, Pid
<1>6. change'.kind = "fill" /\ change'.slot = count' - 1 /\ change.kind = "none"
  BY <1>1, <1>2 DEF NoChange, Row
<1>7. \A j \in Live' : pids'[j] <= issued' /\ pids'[j] < issued'
  BY <1>1, <1>2, <1>4, <1>5, LiveFacts DEF TableInv, Live, Pid
<1>8. \A j, k \in Live' : pids'[j] = pids'[k] => j = k
  BY <1>1, <1>4 DEF TableInv
<1> QED
  BY <1>1, <1>2, <1>3, <1>4, <1>6, <1>7, <1>8 DEF TableInv

LEMMA RemovalBegins ==
  ASSUME TableInv, NEW i \in Row, CountOneLess(i)
  PROVE  /\ TableInv' /\ Live' = Live /\ pids' = pids
         /\ change'.kind = "move" /\ change.kind = "none"
<1>1. /\ change = NoChange /\ i < count /\ count' = count - 1 /\ issued' = issued
      /\ pids' = pids /\ change' = [kind |-> "move", slot |-> i]
  BY DEF CountOneLess, Begin
<1>2. i \in Int /\ count \in Int /\ i >= 0 /\ count <= MAX_ROWS /\ MAX_ROWS \in Int
  BY ReadersAssumption DEF TableInv, Row
<1>3. count' \in 0 .. MAX_ROWS /\ i <= count' /\ count' < MAX_ROWS /\ count' \in Row
  BY <1>1, <1>2 DEF Row
<1>4. Live' = Live
  BY <1>1, <1>2, <1>3 DEF Live, Row, NoChange
<1> QED
  BY <1>1, <1>3, <1>4 DEF TableInv, NoChange

LEMMA RowStored ==
  ASSUME TableInv, StoreRow
  PROVE  TableInv'
<1>1. /\ change # NoChange /\ change' = NoChange /\ count' = count /\ issued' = issued
      /\ pids' = [pids EXCEPT ![change.slot] = NewPid(change.kind)]
      /\ change.slot \in Row /\ 0 \in Row
  BY ReadersAssumption DEF StoreRow, TableInv, Row
<1>2. Live' = {j \in Row : j < count}
  BY <1>1 DEF Live, NoChange
<1>3. change.kind \in {"fill", "move"}
  BY <1>1 DEF TableInv
<1>4. CASE change.kind = "fill"
  <2>1. pids' = [pids EXCEPT ![change.slot] = issued] /\ change.slot = count - 1
    BY <1>1, <1>4 DEF NewPid, TableInv
  <2>2. pids' \in [Row -> Pid]
    BY <1>1, <2>1 DEF TableInv
  <2>3. Live' = Live \cup {change.slot} /\ change.slot \notin Live /\ pids'[change.slot] = issued
    BY <1>1, <1>2, <1>4, <2>1, LiveFacts DEF TableInv
  <2>4. \A j \in Live : pids'[j] = pids[j] /\ pids[j] < issued
    BY <1>4, <2>1, <2>3 DEF TableInv, Live
  <2>5. \A j \in Live' : pids'[j] <= issued
    BY <2>3, <2>4, LiveFacts, <2>2 DEF Pid, Live
  <2>6. \A j, k \in Live' : pids'[j] = pids'[k] => j = k
    BY <2>3, <2>4, LiveFacts DEF TableInv
  <2> QED
    BY <1>1, <2>2, <2>5, <2>6 DEF TableInv, NoChange
<1>5. CASE change.kind = "move"
  <2>1. pids' = [pids EXCEPT ![change.slot] = pids[count]] /\ count \in Row
    BY <1>1, <1>5, LiveFacts DEF NewPid, TableInv
  <2>2. pids' \in [Row -> Pid]
    BY <1>1, <2>1 DEF TableInv
  <2>3. Live' \subseteq Live /\ count \in Live /\ count \notin Live'
    BY <1>2, <1>5, <2>1, LiveFacts
  <2>4. \A j \in Live' : pids'[j] = IF j = change.slot THEN pids[count] ELSE pids[j]
    BY <1>1, <1>2, <2>1 DEF TableInv
  <2>5. \A j \in Live' : pids'[j] <= issued
    BY <2>3, <2>4 DEF TableInv
  <2>6. \A j, k \in Live' : pids'[j] = pids'[k] => j = k
    BY <2>3, <2>4 DEF TableInv
  <2> QED
    BY <1>1, <2>2, <2>5, <2>6 DEF TableInv, NoChange
<1> QED
  BY <1>3, <1>4, <1>5

-----------------------------------------------------------------------------
LEMMA WalkType ==
  ASSUME ReadersInv
  PROVE  /\ TableInv /\ list \in Seq(Pid) /\ Len(list) \in Nat
         /\ before \in Seq(Pid) /\ Len(before) \in Nat
         /\ DOMAIN list = 1 .. Len(list) /\ Ahead \subseteq Row
  BY DEF ReadersInv, WalkInv, Ahead

LEMMA WalkCreation ==
  ASSUME ReadersInv, CountOneMore
  PROVE  WalkInv'
<1>1. /\ Live' = Live /\ pids' = pids /\ Filled' = Filled
      /\ change'.kind = "fill"
      /\ walk' = walk /\ list' = list /\ before' = before
      /\ walk # "off" => crossed' = crossed \cup {"fill"}
  BY CreationBegins, WalkType DEF CountOneMore, Begin
<1> QED
  BY <1>1 DEF ReadersInv, WalkInv

LEMMA WalkRemoval ==
  ASSUME ReadersInv, NEW i \in Row, CountOneLess(i)
  PROVE  WalkInv'
<1>1. /\ Live' = Live /\ pids' = pids
      /\ change'.kind = "move"
      /\ walk' = walk /\ list' = list /\ before' = before
      /\ walk # "off" => crossed' = crossed \cup {"move"}
  BY RemovalBegins, WalkType DEF CountOneLess, Begin
<1>2. Ahead' = Ahead
  BY <1>1 DEF Ahead
<1> QED
  BY <1>1, <1>2 DEF ReadersInv, WalkInv

\* A row that is filled was not there when the walk began; one that is moved
\* to comes with a process that was ahead, if it is ahead itself.
LEMMA WalkStore ==
  ASSUME ReadersInv, StoreRow
  PROVE  WalkInv'
<1>1. /\ walk' = walk /\ list' = list /\ before' = before /\ crossed' = crossed
      /\ count' = count /\ change' = NoChange /\ change # NoChange
      /\ change.kind \in {"fill", "move"}
      /\ pids' = [pids EXCEPT ![change.slot] = NewPid(change.kind)]
      /\ pids \in [Row -> Pid] /\ change.slot \in Row
  BY WalkType DEF StoreRow, TableInv
<1>2. Live' = {j \in Row : j < count}
  BY <1>1 DEF Live, NoChange
<1>3. walk # "off" => crossed # {} /\ change.kind \in crossed
  BY <1>1 DEF ReadersInv, WalkInv
<1>4. ASSUME walk # "off", "move" \notin crossed
      PROVE  /\ Len(before) <= Filled'
             /\ \A k \in 1 .. Len(before) : pids'[k - 1] = pids[k - 1]
  <2>1. change.kind = "fill" /\ change.slot = count - 1 /\ Len(before) <= count - 1
    BY <1>1, <1>3, <1>4, WalkType DEF ReadersInv, WalkInv, Filled, TableInv
  <2>2. Filled' = count
    BY <1>1 DEF Filled, NoChange
  <2>3. \A k \in 1 .. Len(before) : k - 1 # change.slot
    BY <2>1, WalkType, LiveFacts
  <2>4. \A k \in 1 .. Len(before) : k - 1 \in Row
    BY <1>1, <2>1, WalkType, LiveFacts, ReadersAssumption DEF Row, TableInv
  <2> QED
    BY <1>1, <2>1, <2>2, <2>3, <2>4, WalkType, LiveFacts
<1>5. ASSUME walk # "off", "fill" \notin crossed,
             NEW j \in Ahead', NEW k \in 1 .. Len(list)
      PROVE  list[k] # pids'[j]
  <2>1. change.kind = "move" /\ change.slot <= count /\ count \in Row
        /\ Live = {r \in Row : r <= count}
    BY <1>1, <1>3, <1>5, WalkType, LiveFacts DEF TableInv
  <2>2. j \in Ahead /\ j \in Row /\ j >= Len(list)
    BY <1>1, <1>2, <1>5, <2>1, LiveFacts, WalkType DEF Ahead
  <2>3. CASE j # change.slot
    BY <1>1, <1>5, <2>2, <2>3 DEF ReadersInv, WalkInv
  <2>4. CASE j = change.slot
    <3>1. count \in Ahead
      BY <2>1, <2>2, <2>4, LiveFacts, WalkType DEF Ahead
    <3>2. pids'[j] = pids[count]
      BY <1>1, <2>1, <2>4 DEF NewPid
    <3> QED
      BY <1>5, <3>1, <3>2 DEF ReadersInv, WalkInv
  <2> QED
    BY <2>3, <2>4
<1>6. change'.kind = "none"
  BY <1>1 DEF NoChange
<1> QED
  BY <1>1, <1>3, <1>4, <1>5, <1>6 DEF ReadersInv, WalkInv

LEMMA WalkBegins ==
  ASSUME ReadersInv, Refresh
  PROVE  WalkInv'
<1>1. /\ walk = "off" /\ walk' = "count" /\ list' = list /\ list = << >>
      /\ before' = [k \in 1 .. Filled |-> pids[k - 1]]
      /\ crossed' = {change.kind} \ {"none"}
      /\ pids' = pids /\ count' = count /\ change' = change
  BY DEF Refresh, tableVars, Filled, ReadersInv, WalkInv
<1>2. /\ Filled \in Nat /\ Filled <= MAX_ROWS /\ Filled <= count /\ MAX_ROWS \in Nat
      /\ change.kind \in {"none", "fill", "move"}
      /\ pids \in [Row -> Pid]
  BY WalkType, LiveFacts, ReadersAssumption DEF Filled, TableInv, Row
<1>3. \A k \in 1 .. Filled : k - 1 \in Row
  BY <1>2 DEF Row
<1>4. before' \in Seq(Pid) /\ Len(before') = Filled
  <2>1. \A k \in 1 .. Filled : pids[k - 1] \in Pid
    BY <1>2, <1>3
  <2> QED
    BY <1>1, <1>2, <2>1
<1>5. \A k \in 1 .. Len(before') : pids[k - 1] = before'[k]
  BY <1>1, <1>4
<1>6. Filled' = Filled /\ Len(list') = 0
  BY <1>1 DEF Filled
<1>7. crossed' = {} => Filled = count
  BY <1>1, <1>2 DEF Filled
<1> QED
  BY <1>1, <1>2, <1>4, <1>5, <1>6, <1>7, LiveFacts, WalkType DEF WalkInv, ReadersInv

LEMMA WalkGoesOn ==
  ASSUME ReadersInv, NextRow
  PROVE  WalkInv'
<1>1. /\ walk = "count" /\ walk' = "row" /\ list' = list /\ before' = before
      /\ crossed' = crossed /\ pids' = pids /\ count' = count /\ change' = change
      /\ Len(list) < count
  BY DEF NextRow, IsRow, tableVars
<1>2. Len(list) \in Row
  BY <1>1, WalkType, ReadersAssumption DEF Row, TableInv
<1>3. Live' = Live /\ Filled' = Filled
  BY <1>1 DEF Live, Filled
<1>4. "fill" \notin crossed => Len(list) \in Live /\ Ahead' = Ahead
  <2>1. "fill" \notin crossed => change.kind # "fill"
    BY <1>1 DEF ReadersInv, WalkInv
  <2>2. change.kind # "fill" => Len(list) \in Live
    BY <1>1, <1>2 DEF Live
  <2> QED
    BY <1>1, <1>2, <1>3, <2>1, <2>2 DEF Ahead
<1> QED
  BY <1>1, <1>2, <1>3, <1>4 DEF ReadersInv, WalkInv

LEMMA WalkReads ==
  ASSUME ReadersInv, ReadRow
  PROVE  WalkInv'
<1> DEFINE n == Len(list)
<1>1. /\ walk = "row" /\ walk' = "count" /\ list' = Append(list, pids[n])
      /\ before' = before
      /\ crossed' = crossed /\ pids' = pids /\ count' = count /\ change' = change
  BY DEF ReadRow, tableVars
<1>2. /\ n \in Row /\ n \in Nat /\ pids[n] \in Pid /\ pids \in [Row -> Pid]
      /\ list \in Seq(Pid)
  BY <1>1, WalkType DEF ReadersInv, WalkInv, TableInv
<1>3. /\ list' \in Seq(Pid) /\ Len(list') = n + 1 /\ list'[n + 1] = pids[n]
      /\ \A k \in 1 .. n : list'[k] = list[k]
  BY <1>1, <1>2
<1>4. Live' = Live /\ Filled' = Filled
  BY <1>1 DEF Live, Filled
<1>5. ASSUME "move" \notin crossed, NEW k \in 1 .. Len(before), k <= Len(list')
      PROVE  list'[k] = before[k]
  <2>1. pids[k - 1] = before[k] /\ (k <= n => list[k] = before[k])
    BY <1>1, <1>5 DEF ReadersInv, WalkInv
  <2> QED
    BY <1>2, <1>3, <1>5, <2>1, WalkType
<1>6. ASSUME crossed = {} PROVE Len(before) = count /\ Len(list') <= count
  BY <1>1, <1>2, <1>3, <1>6, WalkType, LiveFacts DEF ReadersInv, WalkInv
<1>7. ASSUME "fill" \notin crossed
      PROVE  /\ \A k, l \in 1 .. Len(list') : list'[k] = list'[l] => k = l
             /\ \A j \in Ahead' : \A k \in 1 .. Len(list') : list'[k] # pids'[j]
  <2>1. /\ \A k, l \in 1 .. n : list[k] = list[l] => k = l
        /\ \A j \in Ahead : \A k \in 1 .. n : list[k] # pids[j]
        /\ change.kind # "fill"
    BY <1>1, <1>7 DEF ReadersInv, WalkInv
  <2>2. n \in Ahead
    BY <1>1, <1>2 DEF Ahead
  <2>3. Ahead' = {j \in Row : j >= n + 1 /\ j \in Live}
    BY <1>1, <1>3, <1>4 DEF Ahead
  <2>4. \A j \in Ahead' : j \in Ahead /\ j # n
    BY <1>2, <2>3, LiveFacts, WalkType DEF Ahead
  <2>5. \A j \in Ahead' : n \in Live /\ j \in Live
    BY <1>2, <2>1, <2>3, LiveFacts, WalkType DEF TableInv
  <2>6. \A j \in Ahead' : pids[j] # pids[n]
    BY <2>4, <2>5, WalkType DEF TableInv
  <2>7. \A k \in 1 .. Len(list') : k \in 1 .. n \/ k = n + 1
    BY <1>2, <1>3
  <2> QED
    BY <1>1, <1>3, <2>1, <2>2, <2>4, <2>6, <2>7
<1> HIDE DEF n
<1> QED
  BY <1>1, <1>3, <1>4, <1>5, <1>6, <1>7 DEF ReadersInv, WalkInv

LEMMA ReadersStep ==
  ASSUME ReadersInv, [ReadersNext]_readerVars
  PROVE  ReadersInv'
<1>1. CASE CountOneMore
  BY <1>1, CreationBegins, WalkCreation, WalkType DEF ReadersInv
<1>2. CASE StoreRow
  BY <1>2, RowStored, WalkStore, WalkType DEF ReadersInv
<1>3. ASSUME NEW i \in Row, CountOneLess(i) PROVE ReadersInv'
  BY <1>3, RemovalBegins, WalkRemoval, WalkType DEF ReadersInv
<1>4. CASE UNCHANGED tableVars
  <2>1. TableInv'
    BY <1>4, WalkType DEF tableVars, TableInv, Live
  <2>2. CASE Refresh
    BY <2>1, <2>2, WalkBegins DEF ReadersInv
  <2>3. CASE NextRow
    BY <2>1, <2>3, WalkGoesOn DEF ReadersInv
  <2>4. CASE ReadRow
    BY <2>1, <2>4, WalkReads DEF ReadersInv
  <2>5. CASE RefreshEnds
    BY <2>1, <2>5 DEF RefreshEnds, ReadersInv, WalkInv
  <2>6. CASE UNCHANGED readerVars
    BY <2>1, <2>6 DEF readerVars, tableVars, ReadersInv, WalkInv, Ahead, Live, Filled
  <2>7. CASE CountOneMore \/ StoreRow \/ \E i \in Row : CountOneLess(i)
    BY <2>7, <1>1, <1>2, <1>3
  <2> QED
    BY <2>2, <2>3, <2>4, <2>5, <2>6, <2>7 DEF ReadersNext, WritersNext
<1>5. CASE UNCHANGED readerVars
  BY <1>4, <1>5 DEF readerVars
<1> QED
  BY <1>1, <1>2, <1>3, <1>4, <1>5
     DEF ReadersNext, WritersNext, Refresh, NextRow, ReadRow, RefreshEnds

\* Where a walk ends, the rules of WalkInv are those of ListingFaithful.
LEMMA WalkEnds ==
  ASSUME ReadersInv, [ReadersNext]_readerVars, walk = "count", walk' = "off"
  PROVE  /\ "move" \notin crossed => IsPrefix(before, list)
         /\ crossed = {} => list = before
         /\ "fill" \notin crossed => IsInjective(list)
<1>1. Len(list) >= count
  <2>1. RefreshEnds
    BY DEF ReadersNext, WritersNext, CountOneMore, StoreRow, CountOneLess, Begin, Refresh,
       NextRow, ReadRow, readerVars
  <2> QED
    BY <2>1, WalkType, LiveFacts DEF RefreshEnds, IsRow
<1>2. ASSUME "move" \notin crossed
      PROVE  /\ Len(before) <= Len(list)
             /\ \A k \in 1 .. Len(before) : list[k] = before[k]
  <2>1. Filled <= count /\ Filled \in Int
    BY WalkType, LiveFacts DEF Filled
  <2>2. Len(before) <= Len(list)
    BY <1>1, <1>2, <2>1, WalkType, LiveFacts DEF ReadersInv, WalkInv
  <2> QED
    BY <1>2, <2>2, WalkType DEF ReadersInv, WalkInv
<1>3. ASSUME "move" \notin crossed PROVE IsPrefix(before, list)
  BY <1>2, <1>3, WalkType DEF IsPrefix
<1>4. ASSUME crossed = {} PROVE list = before
  <2>1. Len(before) = Len(list)
    BY <1>1, <1>4, WalkType, LiveFacts DEF ReadersInv, WalkInv
  <2> QED
    BY <1>2, <1>4, <2>1, WalkType, SeqEqual
<1>5. ASSUME "fill" \notin crossed PROVE IsInjective(list)
  BY <1>5, WalkType DEF ReadersInv, WalkInv, IsInjective
<1> QED
  BY <1>3, <1>4, <1>5
=============================================================================
