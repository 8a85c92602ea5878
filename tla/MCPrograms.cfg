SPECIFICATION Spec
CONSTANTS
  SNAKE_ROWS = 3
  SNAKE_COLS = 4
  MAX_SNAKE = 12
  MINES_ROWS = 2
  MINES_COLS = 5
  MINES = 2
  MAX_SONGS = 3
  MaxPlayers = 4
  MINUTE = 3
  DAY = 3
  MAX_TASKS = 3
  MINUTES = 3
  Doc = {"a", "b"}
  NoDoc = "none"
  Path = {"short", "long", "new"}
  Copier = {t1, t2}
  Inode = {1, 2, 3, 4}
  FirstDir <- MCFirstDir
  FirstLen <- MCFirstLen
  DirName = {"home", "d"}
  Home = "home"
  MaxDepth = 3
  Pattern = {"x", "y"}
  Searcher = {s1, s2, s3}
  MAX_ROWS = 3
  MAX_PIDS = 4
INVARIANTS
  TypeOK
  FoodOffSnake BodyOnBoard BodyInOnePiece NoTurningBack
  FloodComplete FloodJustified MinesOnlyByClick CallsBounded
  SignalsOwnPlayers OneVoice LabelledSong
  AlarmWithinADay DueTasksAnnounced UntouchedKept
  PathFollowsUser ShownIsRecent
PROPERTIES CopyFaithful ListingFaithful
CHECK_DEADLOCK FALSE
