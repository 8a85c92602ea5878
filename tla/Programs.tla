------------------------------ MODULE Programs ------------------------------
(***************************************************************************)
(* The programs that change no state but their own: every OS process       *)
(* started with --app runs one launch function (run_app_mode in main.c),   *)
(* and nothing of one program is seen by another.  Checking them is        *)
(* checking each alone, the variables of the others standing still.        *)
(***************************************************************************)
EXTENDS Snake, Minesweeper, MusicPlayer, Clock, TaskScheduler, Notepad,
        FileOps, FileExplorer, Search, Readers

VARIABLE launched   \* the program that this process runs

gameVars == <<snakeVars, minesVars>>
timerVars == <<clockVars, taskVars, readerVars>>
diskVars == <<fileVars, explorerVars, searchVars>>
programsVars == <<launched, gameVars, playerVars, timerVars, noteVars, diskVars>>

Launchable == {"snake", "minesweeper", "musicplayer", "clock", "taskscheduler",
               "notepad", "fileops", "fileexplorer", "search", "sysmonitor"}

TypeOK ==
  /\ launched \in Launchable
  /\ SnakeTypeOK /\ MinesTypeOK /\ PlayerTypeOK /\ ClockTypeOK /\ TasksTypeOK
  /\ NotepadTypeOK /\ FilesTypeOK /\ ExplorerTypeOK /\ SearchTypeOK
  /\ ReadersTypeOK

\* What a program finds or draws when it starts is chosen for the one that runs.
Init ==
  /\ launched \in Launchable
  /\ SnakeInit /\ MinesInit /\ PlayerInit /\ ClockInit /\ TasksInit
  /\ NotepadInit /\ FilesInit /\ ExplorerInit /\ SearchInit /\ ReadersInit
  /\ launched # "snake" => food = CHOOSE c \in SnakeCell \ Range(snake) : TRUE
  /\ launched # "minesweeper" =>
       mines = CHOOSE m \in SUBSET MinesCell : Cardinality(m) = MINES
  /\ launched # "clock" => now = 0
  /\ launched # "taskscheduler" => minute = 0
  /\ launched # "notepad" => file = [d \in Doc |-> d]
  /\ launched # "fileexplorer" => listed

Runs(program) == launched = program /\ UNCHANGED launched

RunSnake ==
  /\ Runs("snake") /\ SnakeNext
  /\ UNCHANGED <<minesVars, playerVars, timerVars, noteVars, diskVars>>

RunMinesweeper ==
  /\ Runs("minesweeper") /\ MinesNext
  /\ UNCHANGED <<snakeVars, playerVars, timerVars, noteVars, diskVars>>

RunMusicPlayer ==
  /\ Runs("musicplayer") /\ PlayerNext
  /\ UNCHANGED <<gameVars, timerVars, noteVars, diskVars>>

RunClock ==
  /\ Runs("clock") /\ ClockNext
  /\ UNCHANGED <<gameVars, playerVars, taskVars, readerVars, noteVars, diskVars>>

RunTaskScheduler ==
  /\ Runs("taskscheduler") /\ TasksNext
  /\ UNCHANGED <<gameVars, playerVars, clockVars, readerVars, noteVars, diskVars>>

RunNotepad ==
  /\ Runs("notepad") /\ NotepadNext
  /\ UNCHANGED <<gameVars, playerVars, timerVars, diskVars>>

RunFileOps ==
  /\ Runs("fileops") /\ FilesNext
  /\ UNCHANGED <<gameVars, playerVars, timerVars, noteVars, explorerVars, searchVars>>

RunFileExplorer ==
  /\ Runs("fileexplorer") /\ ExplorerNext
  /\ UNCHANGED <<gameVars, playerVars, timerVars, noteVars, fileVars, searchVars>>

RunSearch ==
  /\ Runs("search") /\ SearchNext
  /\ UNCHANGED <<gameVars, playerVars, timerVars, noteVars, fileVars, explorerVars>>

RunSysMonitor ==
  /\ Runs("sysmonitor") /\ ReadersNext
  /\ UNCHANGED <<gameVars, playerVars, clockVars, taskVars, noteVars, diskVars>>

Next ==
  \/ RunSnake \/ RunMinesweeper \/ RunMusicPlayer \/ RunClock
  \/ RunTaskScheduler \/ RunNotepad \/ RunFileOps \/ RunFileExplorer
  \/ RunSearch \/ RunSysMonitor

Spec == Init /\ [][Next]_programsVars
=============================================================================
