---------------------------- MODULE GamesProofs -----------------------------
(***************************************************************************)
(* The rules of Snake on a board of any size, and the flood of Minesweeper *)
(* on every board and every placement of mines.                            *)
(***************************************************************************)
EXTENDS Snake, Minesweeper, FiniteSetTheorems, TLAPS

-----------------------------------------------------------------------------
(* Snake.                                                                  *)

\* The segments without the last: what a tick moves on.
LEMMA BodyHoldsFront ==
  ASSUME SnakeTypeOK
  PROVE  1 .. (Len(snake) - 1) \subseteq Body /\ Body \subseteq 1 .. Len(snake)
  BY DEF SnakeTypeOK, Body

\* What one tick makes of the array.
LEMMA MovedFacts ==
  ASSUME SnakeTypeOK
  PROVE  /\ Moved \in Seq(Point) /\ Len(Moved) = Len(snake)
         /\ DOMAIN Moved = 1 .. Len(snake)
         /\ Moved[1] = Plus(snake[1], dir)
         /\ \A i \in 2 .. Len(snake) : Moved[i] = snake[i - 1]
<1>1. snake[1] \in Point /\ dir \in Point
  BY DEF SnakeTypeOK, Direction, Up, Down, Left, Right, Point
<1>2. Plus(snake[1], dir) \in Point
  BY <1>1 DEF Plus, Point
<1>3. \A i \in 1 .. Len(snake) : Moved[i] \in Point
  BY <1>2 DEF SnakeTypeOK, Moved, Follows
<1> QED
  BY <1>3 DEF SnakeTypeOK, Moved, Follows

\* Growing adds the cell (0, 0) at the end, or nothing.
LEMMA GrownFacts ==
  ASSUME SnakeTypeOK, NEW s \in Seq(Point), Len(s) = Len(snake)
  PROVE  /\ Grown(s) \in Seq(Point)
         /\ Len(Grown(s)) \in 3 .. MAX_SNAKE
         /\ \A i \in 1 .. Len(s) : Grown(s)[i] = s[i]
         /\ \/ Grown(s) = s
            \/ Len(Grown(s)) = Len(s) + 1 /\ Grown(s)[Len(s) + 1] = <<0, 0>>
<1>1. <<0, 0>> \in Point
  BY DEF Point
<1> QED
  BY <1>1, SnakeAssumption DEF SnakeTypeOK, Grown

\* The board has the corner (0, 0) and the three cells the snake starts on.
LEMMA StartOnBoard ==
  /\ <<0, 0>> \in SnakeCell
  /\ \A i \in 1 .. 3 :
       <<SNAKE_ROWS \div 2, SNAKE_COLS \div 2 - i + 1>> \in SnakeCell
<1>1. SNAKE_ROWS \div 2 \in 0 .. SNAKE_ROWS - 1
  BY SnakeAssumption
<1>2. \A i \in 1 .. 3 : SNAKE_COLS \div 2 - i + 1 \in 0 .. SNAKE_COLS - 1
  BY SnakeAssumption
<1> QED
  BY <1>1, <1>2, SnakeAssumption DEF SnakeCell

\* Types, from the start on and through every step.
THEOREM SnakeTypeCorrect == SnakeSpec => []SnakeTypeOK
<1>1. SnakeInit => SnakeTypeOK
  <2> SUFFICES ASSUME SnakeInit PROVE SnakeTypeOK
    OBVIOUS
  <2>1. SnakeCell \subseteq Point
    BY SnakeAssumption DEF SnakeCell, Point
  <2>2. snake \in [1 .. 3 -> Point]
    BY <2>1, StartOnBoard DEF SnakeInit
  <2>3. snake \in Seq(Point) /\ Len(snake) = 3
    BY <2>2
  <2>4. food \in SnakeCell /\ dir \in Direction
    BY DEF SnakeInit, Direction
  <2>5. running \in BOOLEAN /\ score = 0 /\ hung \in BOOLEAN /\ turns = 0
    BY DEF SnakeInit
  <2> QED
    BY <2>3, <2>4, <2>5, SnakeAssumption DEF SnakeTypeOK
<1>2. SnakeTypeOK /\ [SnakeNext]_snakeVars => SnakeTypeOK'
  <2> SUFFICES ASSUME SnakeTypeOK, [SnakeNext]_snakeVars PROVE SnakeTypeOK'
    OBVIOUS
  <2>1. CASE UNCHANGED snakeVars
    BY <2>1 DEF snakeVars, SnakeTypeOK
  <2>2. CASE GameTick /\ (GameOver \/ Slither)
    <3>1. snake' = Moved /\ running' \in BOOLEAN /\ turns' = 0
          /\ UNCHANGED <<food, score, hung, dir>>
      BY <2>2 DEF GameTick, GameOver, Slither, SnakeTypeOK
    <3>2. snake' \in Seq(Point) /\ Len(snake') = Len(snake)
      BY <3>1, MovedFacts
    <3> QED
      BY <3>1, <3>2 DEF SnakeTypeOK
  <2>3. CASE GameTick /\ Eat
    <3>1. snake' \in Seq(Point) /\ Len(snake') \in 3 .. MAX_SNAKE
      BY <2>3, MovedFacts, GrownFacts DEF Eat
    <3>2. food' \in SnakeCell /\ hung' \in BOOLEAN
      BY <2>3 DEF Eat, PlaceFood, OffSnake, SnakeTypeOK
    <3> QED
      BY <2>3, <3>1, <3>2 DEF GameTick, Eat, SnakeTypeOK
  <2>4. ASSUME NEW d \in Direction, OnKey(d) PROVE SnakeTypeOK'
    BY <2>4 DEF OnKey, Turns, SnakeTypeOK
  <2> QED
    BY <2>1, <2>2, <2>3, <2>4 DEF SnakeNext, GameTick
<1> QED
  BY <1>1, <1>2, PTL DEF SnakeSpec

\* The food stays off the snake: a tick only uncovers cells, except the one
\* the head enters, and entering the food's cell is eating it.
THEOREM FoodStaysOff == SnakeSpec => []FoodOffSnake
<1>1. SnakeInit => FoodOffSnake
  BY DEF SnakeInit, FoodOffSnake
<1>2. SnakeTypeOK /\ FoodOffSnake /\ [SnakeNext]_snakeVars => FoodOffSnake'
  <2> SUFFICES ASSUME SnakeTypeOK, FoodOffSnake, [SnakeNext]_snakeVars, ~hung'
               PROVE  food' \notin Range(snake')
    BY DEF FoodOffSnake
  <2>1. CASE UNCHANGED snakeVars
    BY <2>1 DEF snakeVars, FoodOffSnake
  <2>2. ASSUME ~hung, food \notin Range(snake), Moved[1] # food
        PROVE  food \notin Range(Moved)
    <3>1. \A i \in 2 .. Len(snake) : Moved[i] # food
      BY <2>2, MovedFacts DEF SnakeTypeOK, Range
    <3> QED
      BY <2>2, <3>1, MovedFacts DEF SnakeTypeOK, Range
  <2>3. CASE GameTick /\ GameOver
    <3>1. Moved[1] # food
      <4>1. CASE HitsWall(Moved)
        BY <4>1 DEF HitsWall, SnakeTypeOK
      <4>2. CASE HitsItself(Moved)
        <5>1. PICK i \in 2 .. Len(snake) : Moved[i] = Moved[1]
          BY <4>2, MovedFacts DEF HitsItself
        <5>2. Moved[1] = snake[i - 1] /\ i - 1 \in DOMAIN snake
          BY <5>1, MovedFacts DEF SnakeTypeOK
        <5> QED
          BY <2>3, <5>2 DEF GameTick, FoodOffSnake, Range
      <4> QED
        BY <2>3, <4>1, <4>2 DEF GameOver
    <3> QED
      BY <2>2, <2>3, <3>1 DEF GameTick, GameOver, FoodOffSnake
  <2>4. CASE GameTick /\ Slither
    BY <2>2, <2>4 DEF GameTick, Slither, FoodOffSnake
  <2>5. CASE GameTick /\ Eat
    BY <2>5 DEF Eat, PlaceFood, OffSnake
  <2>6. ASSUME NEW d \in Direction, OnKey(d)
        PROVE  food' \notin Range(snake')
    BY <2>6 DEF OnKey, Turns, FoodOffSnake
  <2> QED
    BY <2>1, <2>3, <2>4, <2>5, <2>6 DEF SnakeNext, GameTick
<1> QED
  BY SnakeTypeCorrect, <1>1, <1>2, PTL DEF SnakeSpec

\* The snake stays on the board and off itself while the game runs.
THEOREM BodyStaysOnBoard == SnakeSpec => []BodyOnBoard
<1>1. SnakeInit => BodyOnBoard
  <2> SUFFICES ASSUME SnakeInit PROVE BodyOnBoard
    OBVIOUS
  <2>1. Body = 1 .. 3 /\ DOMAIN snake = 1 .. 3
    BY DEF SnakeInit, Body
  <2> QED
    BY <2>1, StartOnBoard, SnakeAssumption DEF SnakeInit, BodyOnBoard
<1>2. SnakeTypeOK /\ BodyOnBoard /\ [SnakeNext]_snakeVars => BodyOnBoard'
  <2> SUFFICES ASSUME SnakeTypeOK, BodyOnBoard, [SnakeNext]_snakeVars, running'
               PROVE  /\ \A i \in DOMAIN snake' : snake'[i] \in SnakeCell
                      /\ \A i, j \in Body' : snake'[i] = snake'[j] => i = j
    BY DEF BodyOnBoard
  <2>1. CASE UNCHANGED snakeVars
    BY <2>1 DEF snakeVars, BodyOnBoard, Body
  <2>2. ASSUME running, ~HitsWall(Moved), ~HitsItself(Moved)
        PROVE  /\ \A i \in DOMAIN Moved : Moved[i] \in SnakeCell
               /\ \A i, j \in DOMAIN Moved : Moved[i] = Moved[j] => i = j
    <3>1. \A i \in 2 .. Len(snake) : Moved[i] # Moved[1]
      BY <2>2, MovedFacts DEF HitsItself
    <3>2. \A i, j \in 2 .. Len(snake) : Moved[i] = Moved[j] => i = j
      <4> SUFFICES ASSUME NEW i \in 2 .. Len(snake), NEW j \in 2 .. Len(snake),
                          Moved[i] = Moved[j]
                   PROVE  i = j
        OBVIOUS
      <4>1. snake[i - 1] = snake[j - 1]
        BY MovedFacts
      <4>2. i - 1 \in Body /\ j - 1 \in Body
        BY BodyHoldsFront DEF SnakeTypeOK
      <4>3. i - 1 = j - 1
        BY <2>2, <4>1, <4>2 DEF BodyOnBoard
      <4> QED
        BY <4>3
    <3>3. \A i \in 2 .. Len(snake) : Moved[i] \in SnakeCell
      BY <2>2, MovedFacts DEF BodyOnBoard, SnakeTypeOK
    <3>4. \A i \in DOMAIN Moved : i = 1 \/ i \in 2 .. Len(snake)
      <4>1. Len(snake) \in Nat
        BY DEF SnakeTypeOK
      <4> QED
        BY <4>1, MovedFacts
    <3> QED
      BY <2>2, <3>1, <3>2, <3>3, <3>4 DEF HitsWall
  <2>3. CASE GameTick /\ GameOver
    BY <2>3 DEF GameTick, GameOver
  <2>4. CASE GameTick /\ Slither
    <3>1. Body' \subseteq DOMAIN Moved
      BY <2>4, MovedFacts DEF GameTick, Slither, Body, SnakeTypeOK
    <3> QED
      BY <2>2, <2>4, <3>1 DEF GameTick, Slither
  <2>5. CASE GameTick /\ Eat
    <3>1. snake' = Grown(Moved)
      BY <2>5 DEF Eat
    <3>2. Body' \subseteq DOMAIN Moved
      BY <3>1, MovedFacts, GrownFacts DEF Body, SnakeTypeOK
    <3>3. \A i \in DOMAIN Moved : snake'[i] = Moved[i]
      BY <3>1, MovedFacts, GrownFacts
    <3>4. \A i \in DOMAIN snake' :
             i \in DOMAIN Moved \/ snake'[i] = <<0, 0>>
      <4>1. Len(snake) \in Nat
        BY DEF SnakeTypeOK
      <4>2. CASE snake' = Moved
        BY <4>2
      <4>3. CASE /\ Len(snake') = Len(Moved) + 1
                 /\ snake'[Len(Moved) + 1] = <<0, 0>>
        <5>1. DOMAIN snake' = 1 .. (Len(snake) + 1)
          BY <3>1, <4>3, MovedFacts, GrownFacts
        <5> QED
          BY <4>1, <4>3, <5>1, MovedFacts
      <4> QED
        BY <3>1, <4>2, <4>3, MovedFacts, GrownFacts
    <3> QED
      BY <2>2, <2>5, <3>2, <3>3, <3>4, StartOnBoard DEF GameTick, Eat
  <2>6. ASSUME NEW d \in Direction, OnKey(d)
        PROVE  /\ \A i \in DOMAIN snake' : snake'[i] \in SnakeCell
               /\ \A i, j \in Body' : snake'[i] = snake'[j] => i = j
    BY <2>6 DEF OnKey, Turns, BodyOnBoard, Body
  <2> QED
    BY <2>1, <2>3, <2>4, <2>5, <2>6 DEF SnakeNext, GameTick
<1> QED
  BY SnakeTypeCorrect, <1>1, <1>2, PTL DEF SnakeSpec

\* Right after a tick the head is one step, in the direction set, from the
\* second segment.
NeckBehind == running /\ turns = 0 => snake[1] = Plus(snake[2], dir)

\* A direction leads away from where one came from unless it is the opposite.
LEMMA NoWayBack ==
  ASSUME NEW p \in Point, NEW d \in Direction, NEW e \in Direction,
         d # Opposite(e)
  PROVE  Plus(Plus(p, d), e) # p
  BY DEF Point, Plus, Opposite, Direction, Up, Down, Left, Right

\* One turn between two ticks is never a turn back.
THEOREM OneTurnIsSafe == SnakeSpec => []NoTurningBack
<1>1. SnakeInit => NeckBehind /\ NoTurningBack
  <2> SUFFICES ASSUME SnakeInit PROVE NeckBehind /\ NoTurningBack
    OBVIOUS
  <2>1. SNAKE_ROWS \div 2 \in Int /\ SNAKE_COLS \div 2 \in Int
    BY SnakeAssumption
  <2>2. /\ snake[1] = <<SNAKE_ROWS \div 2, SNAKE_COLS \div 2>>
        /\ snake[2] = <<SNAKE_ROWS \div 2, SNAKE_COLS \div 2 - 1>>
        /\ dir = <<0, 1>>
    BY <2>1 DEF SnakeInit, Right
  <2> QED
    BY <2>1, <2>2 DEF NeckBehind, NoTurningBack, Plus
<1>2. SnakeTypeOK /\ NeckBehind /\ NoTurningBack /\ [SnakeNext]_snakeVars
        => (NeckBehind /\ NoTurningBack)'
  <2> SUFFICES ASSUME SnakeTypeOK, NeckBehind, NoTurningBack, [SnakeNext]_snakeVars
               PROVE  (NeckBehind /\ NoTurningBack)'
    OBVIOUS
  <2>1. CASE UNCHANGED snakeVars
    BY <2>1 DEF snakeVars, NeckBehind, NoTurningBack
  <2>2. CASE GameTick
    <3>1. CASE GameOver
      BY <2>2, <3>1 DEF GameTick, GameOver, NeckBehind, NoTurningBack
    <3>2. ASSUME Slither \/ Eat
          PROVE  /\ snake'[1] = Plus(snake[1], dir)
                 /\ snake'[2] = snake[1]
      <4>1. Moved[1] = Plus(snake[1], dir) /\ Moved[2] = snake[1]
        BY MovedFacts DEF SnakeTypeOK
      <4>2. snake'[1] = Moved[1] /\ snake'[2] = Moved[2]
        <5>1. CASE Slither
          BY <5>1 DEF Slither
        <5>2. CASE Eat
          <6>1. /\ Moved \in Seq(Point) /\ Len(Moved) = Len(snake)
                /\ {1, 2} \subseteq 1 .. Len(Moved)
            BY MovedFacts DEF SnakeTypeOK
          <6>2. \A i \in 1 .. Len(Moved) : Grown(Moved)[i] = Moved[i]
            BY <6>1, GrownFacts
          <6> QED
            BY <5>2, <6>1, <6>2 DEF Eat
        <5> QED
          BY <3>2, <5>1, <5>2
      <4> QED
        BY <4>1, <4>2
    <3>3. snake[1] \in Point /\ dir # Opposite(dir)
      BY DEF SnakeTypeOK, Direction, Up, Down, Left, Right, Opposite
    <3>4. Plus(Plus(snake[1], dir), dir) # snake[1]
      BY <3>3, NoWayBack DEF SnakeTypeOK
    <3> QED
      BY <2>2, <3>1, <3>2, <3>4 DEF GameTick, NeckBehind, NoTurningBack
  <2>3. ASSUME NEW d \in Direction, OnKey(d)
        PROVE  (NeckBehind /\ NoTurningBack)'
    <3>1. snake[2] \in Point
      BY DEF SnakeTypeOK
    <3>2. Plus(Plus(snake[2], dir), d) # snake[2]
      BY <2>3, <3>1, NoWayBack DEF OnKey, Turns, SnakeTypeOK
    <3> QED
      BY <2>3, <3>2 DEF OnKey, Turns, NeckBehind, NoTurningBack, SnakeTypeOK
  <2> QED
    BY <2>1, <2>2, <2>3 DEF SnakeNext
<1> QED
  BY SnakeTypeCorrect, <1>1, <1>2, PTL DEF SnakeSpec

\* A step in a direction is also one from where it led to.
LEMMA BothWays ==
  ASSUME NEW p \in Point, NEW d \in Direction
  PROVE  Adjacent(p, Plus(p, d))
<1>1. Opposite(d) \in Direction /\ p = Plus(Plus(p, d), Opposite(d))
  BY DEF Point, Plus, Opposite, Direction, Up, Down, Left, Right
<1> QED
  BY <1>1 DEF Adjacent

\* However it turns and grows, the snake is one chain.
THEOREM BodyHoldsTogether == SnakeSpec => []BodyInOnePiece
<1>1. SnakeInit => BodyInOnePiece
  <2> SUFFICES ASSUME SnakeInit PROVE BodyInOnePiece
    OBVIOUS
  <2>0. \A i \in Body : i > 1 => i \in 2 .. 3
    BY DEF SnakeInit, Body
  <2> SUFFICES ASSUME NEW i \in 2 .. 3 PROVE Adjacent(snake[i], snake[i - 1])
    BY <2>0 DEF BodyInOnePiece
  <2>1. SNAKE_ROWS \div 2 \in Int /\ SNAKE_COLS \div 2 \in Int
    BY SnakeAssumption
  <2>2. /\ snake[i] = <<SNAKE_ROWS \div 2, SNAKE_COLS \div 2 - i + 1>>
        /\ snake[i - 1] = <<SNAKE_ROWS \div 2, SNAKE_COLS \div 2 - (i - 1) + 1>>
    BY DEF SnakeInit
  <2>3. snake[i] = Plus(snake[i - 1], Left)
    BY <2>1, <2>2 DEF Plus, Left
  <2> QED
    BY <2>3 DEF Adjacent, Direction
<1>2. SnakeTypeOK /\ BodyInOnePiece /\ [SnakeNext]_snakeVars => BodyInOnePiece'
  <2> SUFFICES ASSUME SnakeTypeOK, BodyInOnePiece, [SnakeNext]_snakeVars
               PROVE  BodyInOnePiece'
    OBVIOUS
  <2>1. CASE UNCHANGED snakeVars
    BY <2>1 DEF snakeVars, BodyInOnePiece, Body
  <2>2. \A i \in 2 .. Len(snake) : Adjacent(Moved[i], Moved[i - 1])
    <3> TAKE i \in 2 .. Len(snake)
    <3>1. snake[1] \in Point /\ dir \in Direction /\ Len(snake) \in Nat
      BY DEF SnakeTypeOK
    <3>2. CASE i = 2
      BY <3>1, <3>2, BothWays, MovedFacts
    <3>3. CASE i # 2
      <4>1. Moved[i] = snake[i - 1] /\ Moved[i - 1] = snake[(i - 1) - 1]
        BY <3>1, <3>3, MovedFacts
      <4>2. i - 1 \in Body /\ i - 1 > 1
        BY <3>1, <3>3, BodyHoldsFront
      <4> QED
        BY <4>1, <4>2 DEF BodyInOnePiece
    <3> QED
      BY <3>2, <3>3
  <2>3. CASE GameTick /\ (GameOver \/ Slither)
    <3>1. snake' = Moved
      BY <2>3 DEF GameOver, Slither
    <3>2. \A i \in Body' : i > 1 => i \in 2 .. Len(snake)
      BY <3>1, MovedFacts DEF Body, SnakeTypeOK
    <3> QED
      BY <2>2, <3>1, <3>2 DEF BodyInOnePiece
  <2>4. CASE GameTick /\ Eat
    <3>1. snake' = Grown(Moved)
      BY <2>4 DEF Eat
    <3>2. Len(snake) \in Nat /\ \A i \in Body' : i \in 1 .. Len(snake)
      BY <3>1, MovedFacts, GrownFacts DEF Body, SnakeTypeOK
    <3>3. \A i \in 1 .. Len(snake) : snake'[i] = Moved[i]
      BY <3>1, MovedFacts, GrownFacts
    <3>4. \A i \in Body' : i > 1 => /\ i \in 2 .. Len(snake)
                                   /\ snake'[i] = Moved[i] /\ snake'[i - 1] = Moved[i - 1]
      BY <3>2, <3>3
    <3> QED
      BY <2>2, <3>4 DEF BodyInOnePiece
  <2>5. ASSUME NEW d \in Direction, OnKey(d) PROVE BodyInOnePiece'
    BY <2>5 DEF OnKey, BodyInOnePiece, Body
  <2> QED
    BY <2>1, <2>3, <2>4, <2>5 DEF SnakeNext, GameTick
<1> QED
  BY SnakeTypeCorrect, <1>1, <1>2, PTL DEF SnakeSpec

-----------------------------------------------------------------------------
(* Minesweeper.                                                            *)

IntPair == Int \X Int

LEMMA CellsAreIntPairs == MinesCell \subseteq IntPair
  BY MinesweeperAssumption DEF MinesCell, IntPair

LEMMA FunctionIsSeq ==
  ASSUME NEW S, NEW n \in Nat, NEW g \in [1 .. n -> S]
  PROVE  g \in Seq(S)
  OBVIOUS

\* The loops of reveal() call it for the nine cells around, and no other.
LEMMA CallsAround ==
  ASSUME NEW c \in IntPair
  PROVE  /\ RecursiveCalls(c) \in Seq(IntPair)
         /\ Range(RecursiveCalls(c)) = Near(c)
<1> DEFINE f == RecursiveCalls(c)
<1>1. PICK x \in Int, y \in Int : c = <<x, y>>
  BY DEF IntPair
<1>2. c[1] = x /\ c[2] = y
  BY <1>1
<1>3. \A k \in 1 .. 9 :
        ((k - 1) \div 3) - 1 \in Offset /\ ((k - 1) % 3) - 1 \in Offset
  BY DEF Offset
<1>4. \A k \in 1 .. 9 :
        f[k] = <<x + (((k - 1) \div 3) - 1), y + (((k - 1) % 3) - 1)>>
  BY <1>2 DEF RecursiveCalls
<1>5. f \in Seq(IntPair) /\ DOMAIN f = 1 .. 9
  <2>1. \A k \in 1 .. 9 : f[k] \in IntPair
    BY <1>3, <1>4 DEF IntPair, Offset
  <2>2. f \in [1 .. 9 -> IntPair]
    BY <2>1 DEF RecursiveCalls
  <2> HIDE DEF f
  <2>3. DOMAIN f = 1 .. 9
    BY <2>2
  <2>4. f \in Seq(IntPair)
    BY <2>2, FunctionIsSeq
  <2> QED
    BY <2>3, <2>4
<1>6. ASSUME NEW k \in 1 .. 9 PROVE f[k] \in Near(c)
  <2> DEFINE dr == ((k - 1) \div 3) - 1
             dc == ((k - 1) % 3) - 1
  <2>1. dr \in Offset /\ dc \in Offset /\ f[k] = <<x + dr, y + dc>>
    BY <1>3, <1>4
  <2> HIDE DEF dr, dc
  <2> QED
    BY <1>2, <2>1 DEF Near
<1>7. ASSUME NEW dr \in Offset, NEW dc \in Offset
      PROVE  <<x + dr, y + dc>> \in Range(f)
  <2> DEFINE k == 3 * (dr + 1) + (dc + 1) + 1
  <2>1. k \in 1 .. 9 /\ ((k - 1) \div 3) - 1 = dr /\ ((k - 1) % 3) - 1 = dc
    BY DEF Offset
  <2>2. f[k] = <<x + dr, y + dc>>
    BY <1>4, <2>1
  <2> QED
    BY <1>5, <2>1, <2>2 DEF Range
<1>8. Near(c) \subseteq Range(f)
  BY <1>2, <1>7 DEF Near
<1>9. Range(f) \subseteq Near(c)
  BY <1>5, <1>6 DEF Range
<1> QED
  BY <1>5, <1>8, <1>9

LEMMA RangeOfTail ==
  ASSUME NEW S, NEW s \in Seq(S), s # << >>
  PROVE  /\ Tail(s) \in Seq(S) /\ Head(s) \in S
         /\ Range(s) = {Head(s)} \cup Range(Tail(s))
<1>1. /\ Len(s) \in Nat /\ Len(s) >= 1 /\ DOMAIN s = 1 .. Len(s)
      /\ Tail(s) \in Seq(S) /\ DOMAIN Tail(s) = 1 .. (Len(s) - 1)
      /\ \A i \in 1 .. (Len(s) - 1) : Tail(s)[i] = s[i + 1]
      /\ Head(s) = s[1]
  OBVIOUS
<1>2. \A i \in DOMAIN s : i = 1 \/ (i - 1 \in DOMAIN Tail(s) /\ s[i] = Tail(s)[i - 1])
  BY <1>1
<1>3. Range(s) \subseteq {Head(s)} \cup Range(Tail(s))
  <2> SUFFICES ASSUME NEW i \in DOMAIN s
               PROVE  s[i] \in {Head(s)} \cup Range(Tail(s))
    BY DEF Range
  <2> QED
    BY <1>1, <1>2 DEF Range
<1>4. Head(s) \in S /\ Head(s) \in Range(s)
  BY <1>1 DEF Range
<1>5. \A i \in DOMAIN Tail(s) : i + 1 \in DOMAIN s /\ Tail(s)[i] = s[i + 1]
  BY <1>1
<1>6. Range(Tail(s)) \subseteq Range(s)
  BY <1>5 DEF Range
<1> QED
  BY <1>1, <1>3, <1>4, <1>6

LEMMA RangeOfConcat ==
  ASSUME NEW S, NEW s \in Seq(S), NEW t \in Seq(S)
  PROVE  s \o t \in Seq(S) /\ Range(s \o t) = Range(s) \cup Range(t)
<1>1. /\ s \o t \in Seq(S) /\ Len(s) \in Nat /\ Len(t) \in Nat
      /\ DOMAIN (s \o t) = 1 .. (Len(s) + Len(t))
      /\ DOMAIN s = 1 .. Len(s) /\ DOMAIN t = 1 .. Len(t)
      /\ \A i \in 1 .. Len(s) : (s \o t)[i] = s[i]
      /\ \A i \in 1 .. Len(t) : (s \o t)[Len(s) + i] = t[i]
  OBVIOUS
<1>2. \A i \in DOMAIN (s \o t) :
        \/ i \in DOMAIN s /\ (s \o t)[i] = s[i]
        \/ i - Len(s) \in DOMAIN t /\ (s \o t)[i] = t[i - Len(s)]
  BY <1>1
<1>3. Range(s \o t) \subseteq Range(s) \cup Range(t)
  BY <1>2 DEF Range
<1>4. Range(s) \subseteq Range(s \o t)
  BY <1>1 DEF Range
<1>5. Range(t) \subseteq Range(s \o t)
  <2> SUFFICES ASSUME NEW i \in DOMAIN t PROVE t[i] \in Range(s \o t)
    BY DEF Range
  <2>1. Len(s) + i \in DOMAIN (s \o t) /\ (s \o t)[Len(s) + i] = t[i]
    BY <1>1
  <2> QED
    BY <2>1 DEF Range
<1> QED
  BY <1>1, <1>3, <1>4, <1>5

\* What RevealStep leaves to be called.
LEMMA StillToCall ==
  ASSUME MinesTypeOK, RevealStep
  PROVE  LET c == Head(calls) IN
         /\ c \in MinesCell /\ c \notin revealed
         /\ revealed' = revealed \cup {c}
         /\ calls' \in Seq(IntPair)
         /\ Range(calls) \subseteq Range(calls') \cup {c}
         /\ Empty(c) => Range(calls') = Near(c) \cup Range(Tail(calls))
         /\ ~Empty(c) => Range(calls') = Range(Tail(calls))
         /\ Range(Tail(calls)) \subseteq Range(calls)
<1> DEFINE c == Head(calls)
<1>1. calls \in Seq(IntPair) /\ calls # << >>
  BY DEF MinesTypeOK, RevealStep, IntPair
<1>2. /\ Tail(calls) \in Seq(IntPair) /\ c \in IntPair
      /\ Range(calls) = {c} \cup Range(Tail(calls))
  BY <1>1, RangeOfTail
<1>3. /\ c \in MinesCell /\ c \notin revealed /\ revealed' = revealed \cup {c}
      /\ calls' = IF Empty(c) THEN RecursiveCalls(c) \o Tail(calls)
                              ELSE Tail(calls)
  BY DEF RevealStep, Reveal, Spreads, ReturnsAtOnce
<1>4. /\ RecursiveCalls(c) \o Tail(calls) \in Seq(IntPair)
      /\ Range(RecursiveCalls(c) \o Tail(calls))
           = Near(c) \cup Range(Tail(calls))
  <2>1. /\ RecursiveCalls(c) \in Seq(IntPair)
        /\ Range(RecursiveCalls(c)) = Near(c)
    BY <1>2, CallsAround
  <2>2. ASSUME NEW s \in Seq(IntPair), NEW t \in Seq(IntPair)
        PROVE  s \o t \in Seq(IntPair) /\ Range(s \o t) = Range(s) \cup Range(t)
    BY RangeOfConcat
  <2> HIDE DEF c
  <2> QED
    BY <1>2, <2>1, <2>2
<1> HIDE DEF c
<1> QED
  BY <1>2, <1>3, <1>4 DEF c

LEMMA MinesTypeInit == MinesInit => MinesTypeOK
<1> SUFFICES ASSUME MinesInit PROVE MinesTypeOK
  OBVIOUS
<1>1. mines \subseteq MinesCell
  BY DEF MinesInit
<1>2. calls = << >> /\ calls \in Seq(Int \X Int)
  BY DEF MinesInit
<1> QED
  BY <1>1, <1>2 DEF MinesInit, MinesTypeOK

LEMMA MinesTypeStep == MinesTypeOK /\ [MinesNext]_minesVars => MinesTypeOK'
<1> SUFFICES ASSUME MinesTypeOK, [MinesNext]_minesVars PROVE MinesTypeOK'
  OBVIOUS
<1>1. CASE UNCHANGED minesVars
  BY <1>1 DEF minesVars, MinesTypeOK
<1>2. ASSUME NEW c \in MinesCell, OnClick(c) PROVE MinesTypeOK'
  <2>1. calls' \in Seq(Int \X Int)
    BY <1>2, CellsAreIntPairs DEF OnClick, IntPair
  <2> QED
    BY <1>2, <2>1 DEF OnClick, MinesTypeOK
<1>3. CASE Skip
  BY <1>3 DEF Skip, MinesTypeOK
<1>4. CASE RevealStep
  <2>1. calls' \in Seq(Int \X Int) /\ revealed' \subseteq MinesCell
    BY <1>4, StillToCall DEF MinesTypeOK, IntPair
  <2> QED
    BY <1>4, <2>1 DEF RevealStep, Reveal, Spreads, MinesTypeOK
<1> QED
  BY <1>1, <1>2, <1>3, <1>4 DEF MinesNext

\* In the middle of a flood a neighbour of an empty cell that shows is
\* showing too, or is still to be called.
FloodInv ==
  \A c \in revealed : Empty(c) =>
    Near(c) \cap MinesCell \subseteq revealed \cup Range(calls)

LEMMA FloodStep == MinesTypeOK /\ FloodInv /\ [MinesNext]_minesVars => FloodInv'
<1> SUFFICES ASSUME MinesTypeOK, FloodInv, [MinesNext]_minesVars PROVE FloodInv'
  OBVIOUS
<1>0. UNCHANGED mines => \A c : Empty(c)' <=> Empty(c)
  BY DEF Empty, MinesNear
<1>1. CASE UNCHANGED minesVars
  BY <1>1 DEF minesVars, FloodInv, Empty, MinesNear
<1>2. ASSUME NEW c \in MinesCell, OnClick(c) PROVE FloodInv'
  <2>1. Range(calls) = {}
    BY <1>2 DEF OnClick, Range
  <2> QED
    BY <1>2, <2>1 DEF OnClick, FloodInv, Empty, MinesNear
<1>3. CASE Skip
  <2>1. Range(calls) = {Head(calls)} \cup Range(Tail(calls))
    BY <1>3, RangeOfTail DEF Skip, MinesTypeOK
  <2>2. Range(calls) \cap MinesCell \subseteq revealed \cup Range(calls')
    BY <1>3, <2>1 DEF Skip, ReturnsAtOnce
  <2>3. UNCHANGED <<mines, revealed>>
    BY <1>3 DEF Skip
  <2> QED
    BY <2>2, <2>3 DEF FloodInv, Empty, MinesNear
<1>4. CASE RevealStep
  <2> DEFINE c == Head(calls)
  <2>1. /\ revealed' = revealed \cup {c}
        /\ Range(calls) \subseteq Range(calls') \cup {c}
        /\ Empty(c) => Near(c) \subseteq Range(calls')
    BY <1>4, StillToCall
  <2>2. UNCHANGED mines
    BY <1>4 DEF RevealStep, Reveal, Spreads
  <2> HIDE DEF c
  <2> QED
    BY <2>1, <2>2 DEF FloodInv, Empty, MinesNear
<1> QED
  BY <1>1, <1>2, <1>3, <1>4 DEF MinesNext

\* When a click is done the regions it opened are complete.
THEOREM FloodsComplete == MinesSpec => []FloodComplete
<1>1. MinesInit => FloodInv
  BY DEF MinesInit, FloodInv
<1>2. FloodInv => FloodComplete
  BY DEF FloodInv, FloodComplete, Range
<1> QED
  BY MinesTypeInit, MinesTypeStep, FloodStep, <1>1, <1>2, PTL DEF MinesSpec

\* No mine is waiting to be called unless the user clicked it.
MinesInv ==
  /\ Range(calls) \cap mines \subseteq clicks
  /\ MinesOnlyByClick

LEMMA MinesStep == MinesTypeOK /\ MinesInv /\ [MinesNext]_minesVars => MinesInv'
<1> SUFFICES ASSUME MinesTypeOK, MinesInv, [MinesNext]_minesVars PROVE MinesInv'
  OBVIOUS
<1>1. CASE UNCHANGED minesVars
  BY <1>1 DEF minesVars, MinesInv, MinesOnlyByClick
<1>2. ASSUME NEW c \in MinesCell, OnClick(c) PROVE MinesInv'
  <2>1. Range(calls') = {c}
    BY <1>2 DEF OnClick, Range
  <2> QED
    BY <1>2, <2>1 DEF OnClick, MinesInv, MinesOnlyByClick
<1>3. CASE Skip
  <2>1. Range(calls') \subseteq Range(calls)
    BY <1>3, RangeOfTail DEF Skip, MinesTypeOK
  <2> QED
    BY <1>3, <2>1 DEF Skip, MinesInv, MinesOnlyByClick
<1>4. CASE RevealStep
  <2> DEFINE c == Head(calls)
  <2>1. /\ revealed' = revealed \cup {c}
        /\ Empty(c) => Range(calls') = Near(c) \cup Range(Tail(calls))
        /\ ~Empty(c) => Range(calls') = Range(Tail(calls))
        /\ Range(Tail(calls)) \subseteq Range(calls)
    BY <1>4, StillToCall
  <2>2. c \in Range(calls)
    BY <1>4, RangeOfTail DEF RevealStep, MinesTypeOK
  <2>3. /\ UNCHANGED <<mines, clicks>>
        /\ game_over' = (game_over \/ c \in mines)
    BY <1>4 DEF RevealStep, Reveal, Spreads
  <2>4. Empty(c) => Near(c) \cap mines = {}
    BY DEF Empty, MinesNear
  <2> HIDE DEF c
  <2>5. Range(calls') \cap mines \subseteq clicks'
    BY <2>1, <2>3, <2>4 DEF MinesInv
  <2>6. revealed' \cap mines' \subseteq clicks'
    BY <2>1, <2>2, <2>3 DEF MinesInv, MinesOnlyByClick
  <2>7. (revealed' \cap mines' # {}) <=> game_over'
    BY <2>1, <2>3 DEF MinesInv, MinesOnlyByClick, MinesTypeOK
  <2> QED
    BY <2>3, <2>5, <2>6, <2>7 DEF MinesInv, MinesOnlyByClick
<1> QED
  BY <1>1, <1>2, <1>3, <1>4 DEF MinesNext

\* Only a click sets off a mine, and exactly that ends the game.
THEOREM FloodsAreSafe == MinesSpec => []MinesOnlyByClick
<1>1. MinesInit => MinesInv
  BY DEF MinesInit, MinesInv, MinesOnlyByClick, Range
<1>2. MinesInv => MinesOnlyByClick
  BY DEF MinesInv
<1> QED
  BY MinesTypeInit, MinesTypeStep, MinesStep, <1>1, <1>2, PTL DEF MinesSpec

\* A cell shows, or is to be called, by a click or by an empty one beside it.
HasReason(c) == c \in clicks \/ \E b \in revealed \ {c} : Empty(b) /\ c \in Near(b)

ReasonInv ==
  /\ FloodJustified
  /\ \A c \in Range(calls) \ revealed : HasReason(c)

LEMMA ReasonStep == MinesTypeOK /\ ReasonInv /\ [MinesNext]_minesVars => ReasonInv'
<1> SUFFICES ASSUME MinesTypeOK, ReasonInv, [MinesNext]_minesVars PROVE ReasonInv'
  OBVIOUS
<1>1. ASSUME UNCHANGED mines, clicks \subseteq clicks', revealed \subseteq revealed',
             NEW c, HasReason(c)
      PROVE  HasReason(c)'
  BY <1>1 DEF HasReason, Empty, MinesNear
<1>2. \A c \in revealed : HasReason(c)
  BY DEF ReasonInv, FloodJustified, HasReason
<1>3. CASE UNCHANGED minesVars
  BY <1>3 DEF minesVars, ReasonInv, FloodJustified, HasReason, Empty, MinesNear
<1>4. ASSUME NEW c \in MinesCell, OnClick(c) PROVE ReasonInv'
  <2>1. Range(calls') = {c} /\ c \in clicks' /\ revealed' = revealed
    BY <1>4 DEF OnClick, Range
  <2>2. UNCHANGED mines /\ clicks \subseteq clicks'
    BY <1>4 DEF OnClick
  <2>3. \A b \in revealed' : HasReason(b)'
    BY <1>1, <1>2, <2>1, <2>2
  <2> QED
    BY <2>1, <2>3 DEF ReasonInv, FloodJustified, HasReason
<1>5. CASE Skip
  <2>1. Range(calls') \subseteq Range(calls)
    BY <1>5, RangeOfTail DEF Skip, MinesTypeOK
  <2>2. UNCHANGED <<mines, revealed, clicks>>
    BY <1>5 DEF Skip
  <2> QED
    BY <2>1, <2>2 DEF ReasonInv, FloodJustified, HasReason, Empty, MinesNear
<1>6. CASE RevealStep
  <2> DEFINE c == Head(calls)
  <2>1. /\ revealed' = revealed \cup {c} /\ c \notin revealed
        /\ Empty(c) => Range(calls') = Near(c) \cup Range(Tail(calls))
        /\ ~Empty(c) => Range(calls') = Range(Tail(calls))
        /\ Range(Tail(calls)) \subseteq Range(calls)
    BY <1>6, StillToCall
  <2>2. c \in Range(calls)
    BY <1>6, RangeOfTail DEF RevealStep, MinesTypeOK
  <2>3. UNCHANGED <<mines, clicks>>
    BY <1>6 DEF RevealStep, Reveal, Spreads
  <2> HIDE DEF c
  <2>4. \A b \in revealed \cup Range(calls) : HasReason(b)'
    BY <1>1, <1>2, <2>1, <2>3 DEF ReasonInv
  <2>5. ASSUME Empty(c), NEW b \in Near(c) \ revealed' PROVE HasReason(b)'
    BY <2>1, <2>3, <2>5 DEF HasReason, Empty, MinesNear
  <2>6. \A b \in revealed' : HasReason(b)'
    BY <2>1, <2>2, <2>4
  <2>7. \A b \in Range(calls') \ revealed' : HasReason(b)'
    BY <2>1, <2>4, <2>5
  <2> QED
    BY <2>6, <2>7 DEF ReasonInv, FloodJustified, HasReason
<1> QED
  BY <1>3, <1>4, <1>5, <1>6 DEF MinesNext

\* Nothing shows but by a click and by what empty cells open.
THEOREM FloodsStayWithin == MinesSpec => []FloodJustified
<1>1. MinesInit => ReasonInv
  BY DEF MinesInit, ReasonInv, FloodJustified, Range
<1>2. ReasonInv => FloodJustified
  BY DEF ReasonInv
<1> QED
  BY MinesTypeInit, MinesTypeStep, ReasonStep, <1>1, <1>2, PTL DEF MinesSpec

\* Each cell pays once for the nine calls that take the place of its own.
CallsInv == IsFiniteSet(revealed) /\ CallsBounded

LEMMA LengthOfConcat ==
  ASSUME NEW S, NEW s \in Seq(S), NEW t \in Seq(S)
  PROVE  Len(s \o t) = Len(s) + Len(t) /\ Len(t) \in Nat
  OBVIOUS

LEMMA NineForOne ==
  ASSUME NEW n \in Nat, NEW m \in Nat, m = n - 1,
         NEW a, a = 9 + m, NEW x, x = a \/ x = m
  PROVE  x \in Nat /\ x <= n + 8
  OBVIOUS

LEMMA CallsStep == MinesTypeOK /\ CallsInv /\ [MinesNext]_minesVars => CallsInv'
<1> SUFFICES ASSUME MinesTypeOK, CallsInv, [MinesNext]_minesVars PROVE CallsInv'
  OBVIOUS
<1>1. /\ Cardinality(revealed) \in Nat /\ IsFiniteSet(revealed)
      /\ calls \in Seq(IntPair) /\ Len(calls) <= 1 + 8 * Cardinality(revealed)
  BY FS_CardinalityType DEF CallsInv, CallsBounded, MinesTypeOK, IntPair
<1>2. CASE UNCHANGED minesVars
  BY <1>2 DEF minesVars, CallsInv, CallsBounded
<1>3. ASSUME NEW c \in MinesCell, OnClick(c) PROVE CallsInv'
  BY <1>1, <1>3 DEF OnClick, CallsInv, CallsBounded
<1>4. CASE Skip
  <2>1. Len(calls') \in Nat /\ Len(calls') <= Len(calls) /\ Len(calls) \in Nat
    BY <1>1, <1>4 DEF Skip
  <2>2. revealed' = revealed
    BY <1>4 DEF Skip
  <2> QED
    BY <1>1, <2>1, <2>2 DEF CallsInv, CallsBounded
<1>5. CASE RevealStep
  <2> DEFINE c == Head(calls)
  <2>1. c \in IntPair /\ c \notin revealed /\ revealed' = revealed \cup {c}
    BY <1>1, <1>5, StillToCall, RangeOfTail DEF RevealStep
  <2>2. Cardinality(revealed') = Cardinality(revealed) + 1 /\ IsFiniteSet(revealed')
    BY <1>1, <2>1, FS_AddElement
  <2>3. /\ Tail(calls) \in Seq(IntPair) /\ Len(Tail(calls)) = Len(calls) - 1
        /\ Len(calls) \in Nat
    BY <1>1, <1>5 DEF RevealStep
  <2>4. RecursiveCalls(c) \in Seq(IntPair) /\ Len(RecursiveCalls(c)) = 9
    <3>1. RecursiveCalls(c) \in Seq(IntPair)
      BY <2>1, CallsAround
    <3> HIDE DEF c
    <3>2. DOMAIN RecursiveCalls(c) = 1 .. 9
      BY DEF RecursiveCalls
    <3>3. \A r \in Seq(IntPair) : DOMAIN r = 1 .. 9 => Len(r) = 9
      OBVIOUS
    <3> QED
      BY <3>1, <3>2, <3>3
  <2>5. calls' = RecursiveCalls(c) \o Tail(calls) \/ calls' = Tail(calls)
    BY <1>5 DEF RevealStep, Reveal
  <2> HIDE DEF c
  <2>6. Len(calls') \in Nat /\ Len(calls') <= Len(calls) + 8
    <3>1. Len(RecursiveCalls(c) \o Tail(calls)) = 9 + Len(Tail(calls))
      BY <2>3, <2>4, LengthOfConcat
    <3>2. Len(Tail(calls)) \in Nat /\ Len(calls) \in Nat
      BY <2>3
    <3>3. \/ Len(calls') = Len(RecursiveCalls(c) \o Tail(calls))
          \/ Len(calls') = Len(Tail(calls))
      BY <2>5
    <3> QED
      BY Zenon, <2>3, <3>1, <3>2, <3>3, NineForOne
  <2> QED
    BY <1>1, <2>2, <2>3, <2>6 DEF CallsInv, CallsBounded
<1> QED
  BY <1>2, <1>3, <1>4, <1>5 DEF MinesNext

\* The recursion ends: nine calls at most for each cell of the board.
THEOREM FloodsAreBounded == MinesSpec => []CallsBounded
<1>1. MinesInit => CallsInv
  BY FS_EmptySet DEF MinesInit, CallsInv, CallsBounded
<1>2. CallsInv => CallsBounded
  BY DEF CallsInv
<1> QED
  BY MinesTypeInit, MinesTypeStep, CallsStep, <1>1, <1>2, PTL DEF MinesSpec
=============================================================================
