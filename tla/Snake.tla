------------------------------- MODULE Snake --------------------------------
(***************************************************************************)
(* The Snake game (apps/snake.c): a timer calls game_tick, the user's keys *)
(* call on_key, both on the GTK thread, in any order and any number.       *)
(***************************************************************************)
EXTENDS Integers, Sequences, Functions

CONSTANTS SNAKE_ROWS, SNAKE_COLS, MAX_SNAKE

ASSUME SnakeAssumption ==
  /\ SNAKE_ROWS \in Nat /\ SNAKE_ROWS >= 1
  /\ SNAKE_COLS \in Nat /\ SNAKE_COLS >= 4
  /\ MAX_SNAKE \in Nat /\ MAX_SNAKE >= 3

SnakeCell == (0 .. SNAKE_ROWS - 1) \X (0 .. SNAKE_COLS - 1)
Point == Int \X Int

VARIABLES
  snake,    \* the first slen entries of the array, head first
  food,
  dir,      \* <<dr, dc>>
  running,
  score,
  hung,     \* place_food loops for ever
  turns     \* history: key presses since the last tick, 2 standing for more

snakeVars == <<snake, food, dir, running, score, hung, turns>>

Up == <<-1, 0>>
Down == <<1, 0>>
Left == <<0, -1>>
Right == <<0, 1>>
Direction == {Up, Down, Left, Right}

Opposite(d) == <<-d[1], -d[2]>>
Plus(p, d) == <<p[1] + d[1], p[2] + d[2]>>

SnakeTypeOK ==
  /\ snake \in Seq(Point)
  /\ Len(snake) \in 3 .. MAX_SNAKE
  /\ food \in SnakeCell
  /\ dir \in Direction
  /\ running \in BOOLEAN
  /\ score \in Nat
  /\ hung \in BOOLEAN
  /\ turns \in 0 .. 2

SnakeInit ==
  /\ snake = [i \in 1 .. 3 |-> <<SNAKE_ROWS \div 2, SNAKE_COLS \div 2 - i + 1>>]
  /\ food \in SnakeCell \ Range(snake)
  /\ dir = Right
  /\ running = TRUE
  /\ score = 0
  /\ hung = FALSE
  /\ turns = 0

-----------------------------------------------------------------------------
FollowsHead(i) == snake[1]
Follows(i) == snake[i - 1]

\* Every segment takes the place of the one before it.
Moved ==
  [i \in 1 .. Len(snake) |->
     IF i = 1 THEN Plus(snake[1], dir) ELSE Follows(i)]

HitsWall(s) == s[1] \notin SnakeCell
HitsItselfButNeck(s) == \E i \in 3 .. (Len(s) - 1) : s[i] = s[1]
HitsItself(s) == \E i \in 2 .. Len(s) : s[i] = s[1]

GameOver ==
  /\ HitsWall(Moved) \/ HitsItself(Moved)
  /\ running' = FALSE
  /\ UNCHANGED <<food, score, hung>>
  /\ snake' = Moved

Slither ==
  /\ ~HitsWall(Moved) /\ ~HitsItself(Moved)
  /\ Moved[1] # food
  /\ snake' = Moved
  /\ UNCHANGED <<food, running, score, hung>>

GrownUncapped(s) == Append(s, <<0, 0>>)

\* The new last entry of the array was never written: it is (0, 0), until the
\* next tick moves the body.
Grown(s) == IF Len(s) < MAX_SNAKE THEN Append(s, <<0, 0>>) ELSE s

Anywhere(s) == SnakeCell
OffSnake(s) == SnakeCell \ Range(s)

\* place_food draws cells until one is off the snake.
PlaceFood(s) ==
  \/ food' \in OffSnake(s) /\ UNCHANGED hung
  \/ OffSnake(s) = {} /\ hung' = TRUE /\ UNCHANGED food

Eat ==
  /\ ~HitsWall(Moved) /\ ~HitsItself(Moved)
  /\ Moved[1] = food
  /\ snake' = Grown(Moved)
  /\ score' = score + 1
  /\ PlaceFood(Grown(Moved))
  /\ UNCHANGED running

GameTick ==
  /\ running /\ ~hung
  /\ GameOver \/ Slither \/ Eat
  /\ turns' = 0
  /\ UNCHANGED dir

AnyTurn(d) == TRUE
Turns(d) == dir # Opposite(d)

\* An arrow against the direction that is set is ignored.
OnKey(d) ==
  /\ ~hung
  /\ Turns(d)
  /\ dir' = d
  /\ turns' = IF turns = 0 THEN 1 ELSE 2
  /\ UNCHANGED <<snake, food, running, score, hung>>

SnakeNext == GameTick \/ \E d \in Direction : OnKey(d)

SnakeSpec == SnakeInit /\ [][SnakeNext]_snakeVars

-----------------------------------------------------------------------------
\* The food is never under the snake, the entry of the array that growing
\* uncovered included.  (snake.c:22-32, 98-105)
FoodOffSnake == ~hung => food \notin Range(snake)

\* The entry that was just uncovered is not a segment yet.
Body == IF Len(snake) > 3 /\ snake[Len(snake)] = <<0, 0>>
        THEN 1 .. (Len(snake) - 1) ELSE 1 .. Len(snake)

\* While the game runs the snake lies on the board and no two of its segments
\* share a cell, whatever keys were pressed.  (snake.c:72-95)
BodyOnBoard ==
  running => /\ \A i \in DOMAIN snake : snake[i] \in SnakeCell
             /\ \A i, j \in Body : snake[i] = snake[j] => i = j

Adjacent(p, q) == \E d \in Direction : p = Plus(q, d)

\* The segments form one chain.  (snake.c:72-74)
BodyInOnePiece ==
  \A i \in Body : i > 1 => Adjacent(snake[i], snake[i - 1])

\* With at most one turn between two ticks, the snake never turns back into
\* its own neck: on_key compares with the direction that is set, which is
\* the direction it moved in unless a second key comes.  (snake.c:111-119)
NoTurningBack ==
  running /\ turns <= 1 => Plus(snake[1], dir) # snake[2]
=============================================================================
