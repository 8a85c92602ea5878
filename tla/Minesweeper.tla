---------------------------- MODULE Minesweeper -----------------------------
(***************************************************************************)
(* The Minesweeper game (apps/minesweeper.c).  reveal() calls itself for   *)
(* the neighbours of an empty cell; calls is what that recursion still has *)
(* to call, in its order, and one step is the body of one call.            *)
(***************************************************************************)
EXTENDS Integers, Sequences, FiniteSets, Functions

CONSTANTS MINES_ROWS, MINES_COLS, MINES

ASSUME MinesweeperAssumption ==
  /\ MINES_ROWS \in Nat \ {0} /\ MINES_COLS \in Nat \ {0}
  /\ MINES \in Nat /\ MINES <= MINES_ROWS * MINES_COLS

MinesCell == (0 .. MINES_ROWS - 1) \X (0 .. MINES_COLS - 1)

VARIABLES
  mines,      \* the cells where grid is -1
  revealed,
  calls,
  game_over,
  clicks      \* history: the cells the user clicked

minesVars == <<mines, revealed, calls, game_over, clicks>>

Offset == -1 .. 1
Near(c) == {<<c[1] + dr, c[2] + dc>> : dr \in Offset, dc \in Offset}

\* grid[r][c] as init_game counts it, for a cell without a mine.
MinesNear(c) == mines \cap Near(c)
Empty(c) == c \notin mines /\ MinesNear(c) = {}

MinesTypeOK ==
  /\ mines \subseteq MinesCell
  /\ revealed \subseteq MinesCell
  /\ calls \in Seq(Int \X Int)
  /\ game_over \in BOOLEAN
  /\ clicks \subseteq MinesCell

\* init_game draws cells until it has MINES of them.
MinesInit ==
  /\ mines \in {m \in SUBSET MinesCell : Cardinality(m) = MINES}
  /\ revealed = {}
  /\ calls = << >>
  /\ game_over = FALSE
  /\ clicks = {}

OnClick(c) ==
  /\ calls = << >>
  /\ ~game_over
  /\ calls' = <<c>>
  /\ clicks' = clicks \cup {c}
  /\ UNCHANGED <<mines, revealed, game_over>>

RecursiveCallsButBelow(c) ==
  [k \in 1 .. 6 |-> <<c[1] - 1 + ((k - 1) \div 3), c[2] - 1 + ((k - 1) % 3)>>]

\* The two nested loops, the cell itself included.
RecursiveCalls(c) ==
  [k \in 1 .. 9 |-> <<c[1] - 1 + ((k - 1) \div 3), c[2] - 1 + ((k - 1) % 3)>>]

ReturnsAtOnceUnmarked(c) == c \notin MinesCell

\* Off the board, or done before.
ReturnsAtOnce(c) == c \notin MinesCell \/ c \in revealed

Skip ==
  /\ calls # << >>
  /\ ReturnsAtOnce(Head(calls))
  /\ calls' = Tail(calls)
  /\ UNCHANGED <<mines, revealed, game_over, clicks>>

SpreadsUnlessMine(c) == c \notin mines
Spreads(c) == Empty(c)

Reveal(c) ==
  /\ revealed' = revealed \cup {c}
  /\ game_over' = (game_over \/ c \in mines)
  /\ calls' = IF Spreads(c) THEN RecursiveCalls(c) \o Tail(calls)
                            ELSE Tail(calls)
  /\ UNCHANGED <<mines, clicks>>

RevealStep ==
  /\ calls # << >>
  /\ ~ReturnsAtOnce(Head(calls))
  /\ Reveal(Head(calls))

MinesNext ==
  \/ \E c \in MinesCell : OnClick(c)
  \/ Skip
  \/ RevealStep

MinesSpec == MinesInit /\ [][MinesNext]_minesVars

-----------------------------------------------------------------------------
\* Once the click is over, an empty cell that shows has all its neighbours
\* showing, also where two clicks' regions meet.  (minesweeper.c:34-44)
FloodComplete ==
  calls = << >> =>
    \A c \in revealed : Empty(c) => Near(c) \cap MinesCell \subseteq revealed

\* Nothing shows without a reason: a click, or another cell beside it that is
\* empty and shows, also where a click's region meets an earlier one.
\* (minesweeper.c:34-44)
FloodJustified ==
  \A c \in revealed :
    c \in clicks \/ \E b \in revealed \ {c} : Empty(b) /\ c \in Near(b)

\* The flood never sets off a mine: only a click does, and it ends the game.
\* (minesweeper.c:38, 47)
MinesOnlyByClick ==
  /\ revealed \cap mines \subseteq clicks
  /\ revealed \cap mines # {} <=> game_over

\* The recursion is bounded: no cell makes its nine calls twice.
\* (minesweeper.c:35)
CallsBounded == Len(calls) <= 1 + 8 * Cardinality(revealed)
=============================================================================
