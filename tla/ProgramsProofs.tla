--------------------------- MODULE ProgramsProofs ---------------------------
(***************************************************************************)
(* The programs that keep to themselves, for every size of their tables    *)
(* and every number of threads.  Each theorem is about the specification   *)
(* of all of them, in which a process runs one.                            *)
(***************************************************************************)
EXTENDS Programs, GamesProofs, ReadersProofs, Sums

\* Whatever runs, the variables of each program move as its own steps say.
LEMMA EachStandsAlone ==
  ASSUME [Next]_programsVars
  PROVE  /\ [ClockNext]_clockVars
         /\ [TasksNext]_taskVars
         /\ [NotepadNext]_noteVars
         /\ [SearchNext]_searchVars
         /\ [PlayerNext]_playerVars
         /\ [FilesNext]_fileVars
         /\ [ReadersNext]_readerVars
         /\ [ExplorerNext]_explorerVars
         /\ [SnakeNext]_snakeVars
         /\ [MinesNext]_minesVars
  BY Zenon DEF Next, programsVars, gameVars, timerVars, diskVars, RunSnake,
     RunMinesweeper, RunMusicPlayer, RunClock, RunTaskScheduler, RunNotepad,
     RunFileOps, RunFileExplorer, RunSearch, RunSysMonitor

-----------------------------------------------------------------------------
(* Clock.                                                                  *)

AlarmSecond == alarm * MINUTE

\* Seconds from second n to the next second a, in a day of S seconds.
Until(S, n, a) == IF n <= a THEN a - n ELSE a - n + S

\* What has been waited and what is still to come make a day at most; and in a
\* second that is due, a tick makes it ring, unless the alarm was set after it.
ClockInv(S) ==
  /\ now \in 0 .. S - 1
  /\ alarm \in -1 .. DAY - 1
  /\ ticked \in BOOLEAN /\ ringing \in BOOLEAN
  /\ waited \in Nat /\ waited <= S
  /\ alarm # -1 /\ ~ringing =>
       /\ waited + Until(S, now, AlarmSecond) <= S
       /\ waited > 0 /\ ticked => now # AlarmSecond

\* The day has seconds, and each minute of it begins at one of them.
LEMMA DayFacts ==
  /\ DAY * MINUTE \in Nat \ {0}
  /\ \A m \in 0 .. DAY - 1 : m * MINUTE \in 0 .. DAY * MINUTE - 1
<1>1. \A m \in 0 .. DAY - 1 :
        m * MINUTE + MINUTE <= DAY * MINUTE /\ m * MINUTE \in Nat
  <2> TAKE m \in 0 .. DAY - 1
  <2> DEFINE k == DAY - 1 - m
  <2>1. k \in Nat /\ DAY = m + 1 + k /\ MINUTE \in Nat
    BY ClockAssumption
  <2>2. k * MINUTE \in Nat /\ m * MINUTE \in Nat
    BY <2>1
  <2>3. DAY * MINUTE = m * MINUTE + MINUTE + k * MINUTE
    BY <2>1
  <2> QED
    BY <2>1, <2>2, <2>3
<1> QED
  BY <1>1, ClockAssumption

\* A second brings the alarm's nearer, or takes the one that is due a day off.
LEMMA UntilFacts ==
  ASSUME NEW S \in Nat \ {0}, NEW n \in 0 .. S - 1, NEW a \in 0 .. S - 1
  PROVE  /\ Until(S, n, a) \in 0 .. S - 1
         /\ n # a => Until(S, (n + 1) % S, a) = Until(S, n, a) - 1
         /\ n = a => Until(S, (n + 1) % S, a) = S - 1
         /\ (n + 1) % S \in 0 .. S - 1
<1>1. (n + 1) % S = IF n + 1 = S THEN 0 ELSE n + 1
  OBVIOUS
<1> QED
  BY <1>1 DEF Until

LEMMA ClockStep ==
  ASSUME NEW S, S = DAY * MINUTE, ClockInv(S), [ClockNext]_clockVars
  PROVE  ClockInv(S)'
<1> USE DEF ClockInv
<1>1. S \in Nat \ {0} /\ DAY \in Nat
  BY DayFacts, ClockAssumption
<1>2. alarm # -1 => AlarmSecond \in 0 .. S - 1
  BY <1>1, DayFacts DEF AlarmSecond
<1>3. alarm' = alarm => AlarmSecond' = AlarmSecond
  BY DEF AlarmSecond
<1>4. CASE Second
  <2>1. now' = (now + 1) % S /\ now' \in 0 .. S - 1
    BY <1>1, <1>4, UntilFacts DEF Second
  <2>2. ticked' = FALSE /\ ringing' = ringing /\ alarm' = alarm
    BY <1>4 DEF Second
  <2>3. CASE alarm # -1 /\ ~ringing
    <3>1. /\ Until(S, now, AlarmSecond) \in 0 .. S - 1
          /\ Until(S, now', AlarmSecond) \in 0 .. S - 1
          /\ now # AlarmSecond =>
               Until(S, now', AlarmSecond) = Until(S, now, AlarmSecond) - 1
      BY <1>1, <1>2, <2>1, <2>3, UntilFacts
    <3>2. /\ waited + Until(S, now, AlarmSecond) <= S
          /\ waited > 0 /\ ticked => now # AlarmSecond
      BY <2>3
    <3>3. waited' = 1 \/ (waited' = waited + 1 /\ now # AlarmSecond)
      <4>1. waited = 0 \/ waited > 0
        OBVIOUS
      <4> QED
        BY <1>4, <2>3, <3>2, <4>1 DEF Second, Missed, AlarmSecond
    <3>4. waited' \in Nat /\ waited' + Until(S, now', AlarmSecond) <= S
      BY <1>1, <3>1, <3>2, <3>3
    <3>5. waited' <= S
      BY <1>1, <3>1, <3>4
    <3> QED
      BY <1>3, <2>1, <2>2, <3>4, <3>5
  <2>4. CASE alarm = -1 \/ ringing
    <3>1. waited' = 0
      BY <1>4, <2>4 DEF Second
    <3>2. waited' \in Nat /\ waited' <= S
      BY <1>1, <3>1
    <3> QED
      BY <2>1, <2>2, <2>4, <3>2
  <2> QED
    BY <2>3, <2>4
<1>5. CASE UpdateClocks
  <2>1. ticked' \in BOOLEAN /\ ringing' \in BOOLEAN
    BY <1>5 DEF UpdateClocks, IsDue
  <2> QED
    BY <1>1, <1>3, <1>5, <2>1 DEF UpdateClocks, IsDue, AlarmSecond
<1>6. CASE CloseAlarm
  <2>1. now' = now /\ waited' = 0 /\ alarm' = -1 /\ ticked' = ticked /\ ringing' = FALSE
    BY <1>6 DEF CloseAlarm
  <2>2. alarm' \in -1 .. DAY - 1 /\ waited' \in Nat /\ waited' <= S
    BY <1>1, <2>1
  <2> QED
    BY <2>1, <2>2
<1>7. ASSUME NEW m \in 0 .. DAY - 1, SetAlarm(m) PROVE ClockInv(S)'
  <2>1. AlarmSecond' \in 0 .. S - 1
    BY <1>7, DayFacts DEF AlarmSecond, SetAlarm
  <2>2. Until(S, now, AlarmSecond') \in 0 .. S - 1
    BY <1>1, <2>1, UntilFacts
  <2>3. now' = now /\ waited' = 0 /\ alarm' = m /\ ticked' = ticked /\ ringing' = ringing
    BY <1>7 DEF SetAlarm
  <2>4. waited' + Until(S, now', AlarmSecond') <= S /\ ~(waited' > 0)
    BY <1>1, <2>2, <2>3
  <2>5. alarm' \in -1 .. DAY - 1 /\ waited' \in Nat /\ waited' <= S
    BY <1>1, <2>3
  <2> QED
    BY <2>3, <2>4, <2>5
<1>8. CASE UNCHANGED clockVars
  <2>1. /\ now' = now /\ alarm' = alarm /\ waited' = waited
        /\ ticked' = ticked /\ ringing' = ringing /\ AlarmSecond' = AlarmSecond
    BY <1>3, <1>8 DEF clockVars
  <2> QED
    BY <2>1
<1> QED
  BY <1>4, <1>5, <1>6, <1>7, <1>8 DEF ClockNext

LEMMA ClockRules == Spec => []ClockInv(DAY * MINUTE)
<1> DEFINE S == DAY * MINUTE
<1>1. Init => ClockInv(S)
  <2>1. -1 \in -1 .. DAY - 1 /\ 0 <= S
    BY DayFacts, ClockAssumption
  <2> HIDE DEF S
  <2>2. Init => now \in 0 .. S - 1 /\ ticked = FALSE /\ alarm = -1
                  /\ ringing = FALSE /\ waited = 0
    BY DEF Init, ClockInit, S
  <2>3. 0 \in Nat
    OBVIOUS
  <2> QED
    BY Zenon, <2>1, <2>2, <2>3 DEF ClockInv
<1>2. ClockInv(S) /\ [Next]_programsVars => ClockInv(S)'
  BY ClockStep, EachStandsAlone
<1> QED
  BY <1>1, <1>2, PTL DEF Spec

\* An alarm rings within a day of being set, or of the last time that the timer
\* jumped over its own second, however long the day and the minute are.
THEOREM AlarmsRing == Spec => []AlarmWithinADay
<1>1. ClockInv(DAY * MINUTE) => AlarmWithinADay
  BY DEF ClockInv, AlarmWithinADay
<1> QED
  BY ClockRules, <1>1, PTL

-----------------------------------------------------------------------------
(* Task Scheduler.                                                         *)

\* Between two checks, and up to the task whose dialog is open, no task of the
\* minute that was read is still to be announced.
TasksInv ==
  /\ TasksTypeOK
  /\ at > 0 => seen = Len(tasks)
  /\ \A i \in 1 .. (IF at = 0 THEN seen ELSE at) :
       tasks[i].due = tm => ~tasks[i].active

\* The loop goes on from behind tasks that are announced already.
LEMMA AnnounceFacts ==
  ASSUME TasksTypeOK, NEW m \in MinuteOfDay, NEW first \in Nat \ {0},
         \A i \in 1 .. Len(tasks) : i < first /\ tasks[i].due = m => ~tasks[i].active,
         Announce(first, m)
  PROVE  /\ tasks' \in Seq(SchedTask) /\ Len(tasks') = Len(tasks)
         /\ at' \in {0} \cup 1 .. Len(tasks)
         /\ \A i \in 1 .. (IF at' = 0 THEN Len(tasks) ELSE at') :
              tasks'[i].due = m => ~tasks'[i].active
<1> DEFINE due == {j \in first .. Len(tasks) : tasks[j].active /\ tasks[j].due = m}
<1>1. tasks \in Seq(SchedTask) /\ Len(tasks) \in Nat
  BY DEF TasksTypeOK
<1>2. CASE due = {} /\ at' = 0 /\ UNCHANGED tasks
  <2>1. ASSUME NEW i \in 1 .. Len(tasks), tasks[i].due = m, tasks[i].active
        PROVE  FALSE
    <3>1. i \in first .. Len(tasks)
      BY <1>1, <2>1
    <3> QED
      BY <1>2, <2>1, <3>1
  <2> QED
    BY <1>1, <1>2, <2>1
<1>3. ASSUME NEW k \in due, \A j \in due : k <= j, at' = k,
             tasks' = [tasks EXCEPT ![k].active = FALSE]
      PROVE  /\ tasks' \in Seq(SchedTask) /\ Len(tasks') = Len(tasks)
             /\ at' \in 1 .. Len(tasks)
             /\ \A i \in 1 .. at' : tasks'[i].due = m => ~tasks'[i].active
  <2>1. k \in 1 .. Len(tasks)
    BY <1>1
  <2>2. tasks' \in Seq(SchedTask) /\ Len(tasks') = Len(tasks)
    <3>1. tasks[k] \in SchedTask
      BY <1>1, <2>1
    <3>2. [tasks[k] EXCEPT !.active = FALSE] \in SchedTask
      BY <3>1 DEF SchedTask
    <3> QED
      BY <1>1, <1>3, <2>1, <3>2
  <2>3. ~tasks'[k].active
    BY <1>1, <1>3, <2>1 DEF SchedTask
  <2>4. ASSUME NEW i \in 1 .. k, i # k, tasks'[i].due = m, tasks'[i].active PROVE FALSE
    <3>1. tasks'[i] = tasks[i] /\ i \in 1 .. Len(tasks)
      BY <1>1, <1>3, <2>1, <2>4
    <3>2. i \in due
      BY <1>1, <2>4, <3>1
    <3> QED
      BY <1>1, <1>3, <2>1, <2>4, <3>2
  <2> QED
    BY <1>3, <2>1, <2>2, <2>3, <2>4
<1> HIDE DEF due
<1>4. \/ due = {} /\ at' = 0 /\ UNCHANGED tasks
      \/ \E k \in due : /\ \A j \in due : k <= j
                        /\ at' = k
                        /\ tasks' = [tasks EXCEPT ![k].active = FALSE]
  BY DEF Announce, due
<1>5. CASE \E k \in due : /\ \A j \in due : k <= j
                          /\ at' = k
                          /\ tasks' = [tasks EXCEPT ![k].active = FALSE]
  <2>1. /\ tasks' \in Seq(SchedTask) /\ Len(tasks') = Len(tasks)
        /\ at' \in 1 .. Len(tasks)
        /\ \A i \in 1 .. at' : tasks'[i].due = m => ~tasks'[i].active
    BY <1>3, <1>5
  <2>2. at' # 0
    BY <1>1, <2>1
  <2> QED
    BY <2>1, <2>2
<1> QED
  BY <1>2, <1>4, <1>5

LEMMA TasksStep ==
  ASSUME TasksInv, [TasksNext]_taskVars
  PROVE  TasksInv'
<1>1. /\ TasksTypeOK /\ tasks \in Seq(SchedTask) /\ Len(tasks) \in Nat
      /\ at \in {0} \cup 1 .. Len(tasks) /\ MAX_TASKS \in Nat
  BY TaskSchedulerAssumption DEF TasksInv, TasksTypeOK
<1>2. CASE NextMinute
  <2>1. minute' \in MinuteOfDay
    BY <1>1, <1>2, TaskSchedulerAssumption DEF NextMinute, TasksTypeOK, MinuteOfDay
  <2> QED
    BY <1>2, <2>1 DEF NextMinute, TasksInv, TasksTypeOK
<1>3. CASE CheckTasks
  <2>1. minute \in MinuteOfDay /\ Announce(1, minute) /\ tm' = minute /\ minute' = minute
    BY <1>1, <1>3 DEF CheckTasks, TasksTypeOK
  <2>2. /\ tasks' \in Seq(SchedTask) /\ Len(tasks') = Len(tasks)
        /\ at' \in {0} \cup 1 .. Len(tasks)
        /\ \A i \in 1 .. (IF at' = 0 THEN Len(tasks) ELSE at') :
             tasks'[i].due = minute => ~tasks'[i].active
    BY <1>1, <2>1, AnnounceFacts
  <2>3. seen' = Len(tasks)
    BY <1>3 DEF CheckTasks
  <2> QED
    BY <1>1, <2>1, <2>2, <2>3 DEF TasksInv, TasksTypeOK
<1>4. CASE CloseTaskDialog
  <2>1. /\ at \in 1 .. Len(tasks) /\ seen = Len(tasks) /\ tm \in MinuteOfDay
        /\ Announce(at + 1, tm) /\ tm' = tm /\ minute' = minute /\ seen' = seen
    BY <1>1, <1>4 DEF CloseTaskDialog, TimeOfLoop, TasksInv, TasksTypeOK
  <2>2. \A i \in 1 .. Len(tasks) : i < at + 1 /\ tasks[i].due = tm => ~tasks[i].active
    BY <1>1, <2>1 DEF TasksInv
  <2>3. /\ tasks' \in Seq(SchedTask) /\ Len(tasks') = Len(tasks)
        /\ at' \in {0} \cup 1 .. Len(tasks)
        /\ \A i \in 1 .. (IF at' = 0 THEN Len(tasks) ELSE at') :
             tasks'[i].due = tm => ~tasks'[i].active
    BY <1>1, <2>1, <2>2, AnnounceFacts
  <2> QED
    BY <1>1, <2>1, <2>3 DEF TasksInv, TasksTypeOK
<1>5. ASSUME NEW m \in MinuteOfDay, AddTask(m) PROVE TasksInv'
  <2> DEFINE t == [due |-> m, active |-> TRUE]
  <2>1. t \in SchedTask
    BY DEF SchedTask
  <2>2. /\ at = 0 /\ Len(tasks) < MAX_TASKS /\ tasks' = Append(tasks, t)
        /\ minute' = minute /\ tm' = tm /\ at' = at /\ seen' = seen
    BY <1>5 DEF AddTask
  <2> HIDE DEF t
  <2>3. /\ tasks' \in Seq(SchedTask) /\ Len(tasks') = Len(tasks) + 1
        /\ \A i \in 1 .. Len(tasks) : tasks'[i] = tasks[i]
    BY <1>1, <2>1, <2>2
  <2>4. \A i \in 1 .. seen : i \in 1 .. Len(tasks)
    BY <1>1 DEF TasksTypeOK
  <2> QED
    BY <1>1, <2>2, <2>3, <2>4 DEF TasksInv, TasksTypeOK
<1>6. CASE UNCHANGED taskVars
  BY <1>6 DEF taskVars, TasksInv, TasksTypeOK
<1> QED
  BY <1>2, <1>3, <1>4, <1>5, <1>6 DEF TasksNext

LEMMA TaskRules == Spec => []TasksInv
<1>1. Init => TasksInv
  BY TaskSchedulerAssumption DEF Init, TasksInit, TasksInv, TasksTypeOK
<1>2. TasksInv /\ [Next]_programsVars => TasksInv'
  BY TasksStep, EachStandsAlone
<1> QED
  BY <1>1, <1>2, PTL DEF Spec

\* A check announces all the tasks of the minute it began in.
THEOREM TasksAnnounced == Spec => []DueTasksAnnounced
<1>1. TasksInv => DueTasksAnnounced
  BY DEF TasksInv, DueTasksAnnounced
<1> QED
  BY TaskRules, <1>1, PTL

-----------------------------------------------------------------------------
(* Notepad+.                                                               *)

\* A save in progress is to the path of the window, and unless its document
\* was edited, the text is one that this document may hold.
NotepadInv ==
  /\ NotepadTypeOK
  /\ UntouchedKept
  /\ saving # NoDoc => saving = file_path
  /\ file_path \notin touched \cup {NoDoc} =>
       text \in {file_path} \cup unread[file_path]
                 \cup IF file_path \in unwritten THEN {"empty"} ELSE {}

LEMMA NotepadStep ==
  ASSUME NotepadInv, [NotepadNext]_noteVars
  PROVE  NotepadInv'
<1> USE NotepadAssumption DEF NotepadInv, NotepadTypeOK, UntouchedKept, Own, Text, InLoop
<1>1. CASE Type
  BY <1>1 DEF Type
<1>2. CASE AutoSave
  BY <1>2 DEF AutoSave, Truncate
<1>3. CASE WriteText
  <2>1. saving \in Doc /\ saving' = NoDoc
    BY <1>3 DEF WriteText
  <2>2. NotepadTypeOK'
    BY <1>3, <2>1 DEF WriteText
  <2>3. ASSUME NEW d \in Doc \ touched PROVE file'[d] \in Own(d)'
    <3>1. file[d] \in Own(d)
      OBVIOUS
    <3>2. d = saving => text \in {d} \cup unread[d]
                               \cup IF d \in unwritten THEN {"empty"} ELSE {}
      BY <2>1
    <3> QED
      BY <1>3, <2>1, <3>1, <3>2 DEF WriteText
  <2> QED
    BY <1>3, <2>2, <2>3 DEF WriteText
<1>4. CASE NotepadKilled
  BY <1>4 DEF NotepadKilled
<1>5. ASSUME NEW kind \in {"open", "save"}, OpenChooser(kind) PROVE NotepadInv'
  BY <1>5 DEF OpenChooser
<1>6. CASE CancelChooser
  BY <1>6 DEF CancelChooser
<1>7. ASSUME NEW d \in Doc, OpenFile(d) PROVE NotepadInv'
  <2>1. CASE text' = Read(d) /\ file[d] # "binary" /\ UNCHANGED unread
    BY <1>7, <2>1 DEF OpenFile, Read
  <2>2. CASE text' = Read(d) /\ file[d] = "binary" /\ Unread(d, "empty")
    BY <1>7, <2>2 DEF OpenFile, Read, Unread
  <2>3. CASE UNCHANGED text /\ Unread(d, text)
    BY <1>7, <2>3 DEF OpenFile, Unread
  <2> QED
    BY <1>7, <2>1, <2>2, <2>3 DEF OpenFile
<1>8. ASSUME NEW d \in Doc, SaveFile(d) PROVE NotepadInv'
  BY <1>8 DEF SaveFile, Truncate
<1>9. CASE UNCHANGED noteVars
  BY <1>9 DEF noteVars
<1> QED
  BY <1>1, <1>2, <1>3, <1>4, <1>5, <1>6, <1>7, <1>8, <1>9 DEF NotepadNext

LEMMA NotepadRules == Spec => []NotepadInv
<1>1. Init => NotepadInv
  BY NotepadAssumption
     DEF Init, NotepadInit, NotepadInv, NotepadTypeOK, UntouchedKept, Own, Text
<1>2. NotepadInv /\ [Next]_programsVars => NotepadInv'
  BY NotepadStep, EachStandsAlone
<1> QED
  BY <1>1, <1>2, PTL DEF Spec

\* A document that is neither edited nor chosen in Save keeps its text, or gets
\* the one that the window held when it was opened and could not be read, or is
\* empty after a save that did not come to its end.
THEOREM OpeningKeeps == Spec => []UntouchedKept
<1>1. NotepadInv => UntouchedKept
  BY DEF NotepadInv
<1> QED
  BY NotepadRules, <1>1, PTL

-----------------------------------------------------------------------------
(* Search.                                                                 *)

\* The threads that run, and the view once they have ended, are about what
\* threads were given lately.
SearchInv ==
  /\ ShownIsRecent
  /\ \A t \in Under : pattern[t] \in recent
  /\ SearchTypeOK

LEMMA SearchStep ==
  ASSUME SearchInv, [SearchNext]_searchVars
  PROVE  SearchInv'
<1> USE DEF SearchInv, ShownIsRecent, SearchTypeOK, Under
<1>1. ASSUME NEW p \in Pattern, TypePattern(p) PROVE SearchInv'
  BY <1>1 DEF TypePattern
<1>2. ASSUME NEW t \in Searcher, DoSearch(t) PROVE SearchInv'
  BY <1>2 DEF DoSearch, Started
<1>3. ASSUME NEW t \in Searcher, FindEnds(t) PROVE SearchInv'
  BY <1>3 DEF FindEnds
<1>4. ASSUME NEW t \in Searcher, SetText(t) PROVE SearchInv'
  BY <1>4 DEF SetText, OwnPattern
<1>5. CASE SearchNotStarted \/ SearchCrashes
  BY <1>5 DEF SearchNotStarted, SearchCrashes
<1>6. CASE UNCHANGED searchVars
  BY <1>6 DEF searchVars
<1> QED
  BY <1>1, <1>2, <1>3, <1>4, <1>5, <1>6 DEF SearchNext

LEMMA SearchRules == Spec => []SearchInv
<1>1. Init => SearchInv
  BY SearchAssumption
  DEF Init, SearchInit, SearchInv, ShownIsRecent, SearchTypeOK, Under
<1>2. SearchInv /\ [Next]_programsVars => SearchInv'
  BY SearchStep, EachStandsAlone
<1> QED
  BY <1>1, <1>2, PTL DEF Spec

\* What is shown in the end was given to a thread lately, for any number of
\* threads.
THEOREM SearchIsCurrent == Spec => []ShownIsRecent
<1>1. SearchInv => ShownIsRecent
  BY DEF SearchInv
<1> QED
  BY SearchRules, <1>1, PTL

-----------------------------------------------------------------------------
(* Music Player.                                                           *)

\* The rules of the player hold together, not one by one.
PlayerInv ==
  /\ PlayerTypeOK /\ SignalsOwnPlayers /\ OneVoice /\ LabelledSong
  /\ player_pid <= forked
  /\ playing => pl_cnt > 0

\* When the last player has been stopped, nobody is to be heard.
LEMMA StopSilences ==
  ASSUME PlayerInv
  PROVE  /\ live \ Stopped = {}
         /\ Stopped \subseteq 1 .. forked /\ Stopped \subseteq Int
<1>1. /\ live \ signalled \subseteq {player_pid} /\ live \subseteq 1 .. forked
      /\ signalled \subseteq 1 .. forked /\ playing \in BOOLEAN
      /\ ~playing => live \ signalled = {}
      /\ forked \in 0 .. MaxPlayers /\ player_pid \in Int
  BY MusicPlayerAssumption
     DEF Player, PlayerInv, PlayerTypeOK, SignalsOwnPlayers, OneVoice, Audible
<1>2. CASE player_pid > 0
  <2>1. player_pid \in 1 .. forked
    BY <1>1, <1>2 DEF PlayerInv, PlayerTypeOK, Player
  <2>2. Stopped = signalled \cup {player_pid}
    BY <1>2 DEF Stopped
  <2> QED
    BY <1>1, <2>1, <2>2
<1>3. CASE ~(player_pid > 0)
  BY <1>1, <1>3 DEF Stopped
<1> QED
  BY <1>2, <1>3

LEMMA StopStep ==
  ASSUME PlayerInv, StopPlayback
  PROVE  /\ Audible' = {} /\ signalled' \subseteq 1 .. forked' /\ signalled' \subseteq Int
         /\ player_pid' \in Player \cup {0, -1} /\ playing' = FALSE
         /\ player_pid' <= forked'
  BY StopSilences DEF StopPlayback, PlayerInv, PlayerTypeOK, Audible

\* The new player is the only one to be heard.
LEMMA StartStep ==
  ASSUME PlayerInv, NEW c \in 0 .. MAX_SONGS - 1, StartPlayback(c)
  PROVE  /\ playing' = TRUE
         /\ Audible' \subseteq {player_pid'} /\ \A p \in Audible' : song'[p] = c
         /\ signalled' \subseteq 1 .. forked' /\ signalled' \subseteq Int
         /\ forked' \in 0 .. MaxPlayers /\ live' \subseteq 1 .. forked'
         /\ player_pid' \in Player \cup {0, -1} /\ player_pid' <= forked'
         /\ song' \in [Player -> 0 .. MAX_SONGS - 1]
<1>1. /\ live \ Stopped = {} /\ Stopped \subseteq 1 .. forked /\ Stopped \subseteq Int
      /\ signalled' = Stopped /\ playing' = TRUE
      /\ forked \in 0 .. MaxPlayers /\ live \subseteq 1 .. forked
      /\ song \in [Player -> 0 .. MAX_SONGS - 1]
  BY StopSilences DEF StartPlayback, PlayerInv, PlayerTypeOK
<1>2. CASE /\ forked < MaxPlayers /\ forked' = forked + 1 /\ player_pid' = forked'
           /\ song' = [song EXCEPT ![forked'] = c] /\ live' = live \cup {forked'}
  <2>1. forked + 1 \in Player /\ forked + 1 \in 0 .. MaxPlayers
    BY <1>1, <1>2, MusicPlayerAssumption DEF Player
  <2>2. 1 .. forked \subseteq 1 .. (forked + 1) /\ forked + 1 \in 1 .. (forked + 1)
    BY <1>1
  <2>3. Audible' \subseteq {forked'}
    BY <1>1, <1>2 DEF Audible
  <2>4. song' \in [Player -> 0 .. MAX_SONGS - 1] /\ song'[forked'] = c
    BY <1>1, <1>2, <2>1
  <2> QED
    BY <1>1, <1>2, <2>1, <2>2, <2>3, <2>4
<1>3. CASE player_pid' = -1 /\ UNCHANGED <<forked, song, live>>
  BY <1>1, <1>3 DEF Audible
<1> QED
  BY <1>2, <1>3 DEF StartPlayback

LEMMA PlayerStep ==
  ASSUME PlayerInv, [PlayerNext]_playerVars
  PROVE  PlayerInv'
<1> USE DEF PlayerInv, PlayerTypeOK, SignalsOwnPlayers, OneVoice, LabelledSong
<1>1. CASE TogglePlay
  <2>1. CASE StopPlayback
    BY <1>1, <2>1, StopStep DEF TogglePlay, StopPlayback
  <2>2. CASE StartPlayback(cur_song)
    BY <1>1, <2>2, StartStep DEF TogglePlay
  <2> QED
    BY <1>1, <2>1, <2>2 DEF TogglePlay
<1>2. ASSUME NEW step \in {1, pl_cnt - 1}, SkipSong(step) PROVE PlayerInv'
  <2>1. /\ cur_song' = (cur_song + step) % pl_cnt /\ pl_cnt > 0 /\ window = "open"
        /\ pl_cnt' = pl_cnt /\ window' = window
    BY <1>2 DEF SkipSong
  <2>2. cur_song' \in 0 .. pl_cnt - 1 /\ cur_song' \in 0 .. MAX_SONGS - 1
    <3> DEFINE c == (cur_song + step) % pl_cnt
    <3>1. cur_song + step \in Int /\ pl_cnt \in Nat \ {0} /\ pl_cnt <= MAX_SONGS
      BY <1>2, <2>1, MusicPlayerAssumption
    <3>2. c \in 0 .. pl_cnt - 1
      BY <3>1
    <3> HIDE DEF c
    <3>3. c \in 0 .. MAX_SONGS - 1
      BY <3>1, <3>2, MusicPlayerAssumption
    <3> QED
      BY <2>1, <3>2, <3>3 DEF c
  <2>3. cur_song' < pl_cnt'
    BY <2>1, <2>2
  <2>4. CASE playing /\ StartPlayback(cur_song')
    BY <2>1, <2>2, <2>3, <2>4, StartStep
  <2>5. CASE ~playing /\ NoPlayback
    <3>1. Audible' = {}
      BY <2>5 DEF NoPlayback, Audible
    <3> QED
      BY <2>1, <2>2, <2>3, <2>5, <3>1 DEF NoPlayback
  <2> QED
    BY <1>2, <2>4, <2>5 DEF SkipSong, Restarts
<1>3. CASE SkipNothing
  <2>1. Audible = {}
    BY <1>3 DEF SkipNothing, Audible
  <2> QED
    BY <1>3, <2>1 DEF SkipNothing, NoPlayback, Audible
<1>4. CASE AddSong
  BY <1>4, MusicPlayerAssumption DEF AddSong, NoPlayback, Audible
<1>5. CASE OnDestroy
  BY <1>5, StopStep DEF OnDestroy, StopPlayback
<1>6. ASSUME NEW p \in Player, PlayerEnds(p) PROVE PlayerInv'
  BY <1>6 DEF PlayerEnds, Audible
<1>7. CASE UNCHANGED playerVars
  BY <1>7 DEF playerVars, Audible
<1> QED
  BY <1>1, <1>2, <1>3, <1>4, <1>5, <1>6, <1>7 DEF PlayerNext

LEMMA PlayerRules == Spec => []PlayerInv
<1>1. Init => PlayerInv
  <2> SUFFICES ASSUME PlayerInit PROVE PlayerInv
    BY DEF Init
  <2>1. 0 \in 0 .. MAX_SONGS /\ 0 \in 0 .. MAX_SONGS - 1 /\ 0 \in 0 .. MaxPlayers
    BY MusicPlayerAssumption
  <2>2. PlayerTypeOK
    BY <2>1 DEF PlayerInit, PlayerTypeOK
  <2> QED
    BY <2>2 DEF PlayerInit, PlayerInv, SignalsOwnPlayers, OneVoice, LabelledSong, Audible
<1>2. PlayerInv /\ [Next]_programsVars => PlayerInv'
  BY PlayerStep, EachStandsAlone
<1> QED
  BY <1>1, <1>2, PTL DEF Spec

\* However many players there have been, kill is called with the pid of one.
THEOREM SignalsReachPlayers == Spec => []SignalsOwnPlayers
  BY PlayerRules, PTL DEF PlayerInv

\* At most one of them is to be heard, and none after a stop.
THEOREM OneIsHeard == Spec => []OneVoice
  BY PlayerRules, PTL DEF PlayerInv

\* What is to be heard is the song on the label.
THEOREM SongIsLabelled == Spec => []LabelledSong
  BY PlayerRules, PTL DEF PlayerInv

-----------------------------------------------------------------------------
(* File Operations.                                                        *)

\* What a copy that nobody disturbed has done so far.
SoFar(t) ==
  LET c == copy[t] IN
  /\ c.in # c.out
  /\ Len(data[c.out]) = c.pos /\ c.pos <= Len(data[c.in])
  /\ \A k \in 1 .. c.pos : data[c.out][k] = data[c.in][k]
  /\ c.pc = "write" => c.pos < Len(data[c.in]) /\ c.buf = data[c.in][c.pos + 1]

CopyInv(t) ==
  /\ copy[t] \in Copying
  /\ copy[t].pc \in {"off", "opensrc", "opendst"} => copy[t].pos = 0 /\ copy[t].out = 0
  /\ copy[t].pc \in {"read", "write"} =>
       /\ copy[t].in \in Inode /\ copy[t].out \in Inode
       /\ t \notin disturbed => SoFar(t)

FilesInv ==
  /\ dirent \in [Path -> NullInode] /\ data \in [Inode -> Seq(Block)]
  /\ disturbed \subseteq Copier
  /\ copy \in [Copier -> Copying]
  /\ \A t \in Copier : CopyInv(t)

\* A copy goes on undisturbed where others work on other files.
LEMMA Elsewhere ==
  ASSUME NEW u \in Copier, CopyInv(u), copy'[u] = copy[u], disturbed \subseteq disturbed',
         copy[u].pc \in {"read", "write"} /\ u \notin disturbed' =>
           data'[copy[u].in] = data[copy[u].in] /\ data'[copy[u].out] = data[copy[u].out]
  PROVE  CopyInv(u)'
  BY DEF CopyInv, SoFar

\* Truncating or writing an inode disturbs whoever uses it, and nobody else.
LEMMA OthersKeep ==
  ASSUME FilesInv, NEW i \in Inode, NEW s, NEW t \in Copier,
         data' = [data EXCEPT ![i] = s],
         Users(i) \ {t} \subseteq disturbed', disturbed \subseteq disturbed',
         \A u \in Copier \ {t} : copy'[u] = copy[u]
  PROVE  \A u \in Copier \ {t} : CopyInv(u)'
<1> TAKE u \in Copier \ {t}
<1>1. ASSUME copy[u].pc \in {"read", "write"}, u \notin disturbed'
      PROVE  i \notin {copy[u].in, copy[u].out}
    BY <1>1 DEF Users
<1>2. copy[u].pc \in {"read", "write"} /\ u \notin disturbed' =>
        data'[copy[u].in] = data[copy[u].in] /\ data'[copy[u].out] = data[copy[u].out]
  BY <1>1 DEF FilesInv, CopyInv
<1> QED
  BY <1>2, Elsewhere DEF FilesInv

\* Steps of one thread that touch no file.
LEMMA OwnStep ==
  ASSUME FilesInv, NEW t \in Copier, NEW c \in Copying,
         copy' = [copy EXCEPT ![t] = c], UNCHANGED <<dirent, data, disturbed>>,
         CopyInv(t)'
  PROVE  FilesInv'
<1>1. \A u \in Copier \ {t} : copy'[u] = copy[u]
  BY DEF FilesInv
<1>2. \A u \in Copier \ {t} : CopyInv(u)'
  BY <1>1, Elsewhere DEF FilesInv
<1> QED
  BY <1>2 DEF FilesInv

LEMMA OverwrittenFacts ==
  ASSUME NEW s \in Seq(Block), NEW n \in Nat \ {0}, NEW b \in Block
  PROVE  /\ Overwritten(s, n, b) \in Seq(Block)
         /\ n = Len(s) + 1 =>
              /\ Len(Overwritten(s, n, b)) = n /\ Overwritten(s, n, b)[n] = b
              /\ \A k \in 1 .. Len(s) : Overwritten(s, n, b)[k] = s[k]
<1> DEFINE m == IF n > Len(s) THEN n ELSE Len(s)
<1> DEFINE f(k) == IF k = n THEN b ELSE IF k \in DOMAIN s THEN s[k] ELSE Hole
<1>1. m \in Nat /\ Len(s) \in Nat
  OBVIOUS
<1>2. \A k \in 1 .. m : f(k) \in Block
  BY DEF Hole, Block
<1>3. Overwritten(s, n, b) = [k \in 1 .. m |-> f(k)]
  BY DEF Overwritten
<1>4. Overwritten(s, n, b) \in Seq(Block) /\ Len(Overwritten(s, n, b)) = m
  BY <1>1, <1>2, <1>3
<1>5. ASSUME n = Len(s) + 1
      PROVE  /\ m = n /\ f(n) = b /\ n \in 1 .. m
             /\ \A k \in 1 .. Len(s) : f(k) = s[k] /\ k \in 1 .. m
  BY <1>1, <1>5
<1> HIDE DEF m, f
<1> QED
  BY <1>3, <1>4, <1>5

LEMMA FilesStep ==
  ASSUME FilesInv, [FilesNext]_fileVars
  PROVE  FilesInv'
<1>1. ASSUME NEW t \in Copier, NEW p \in Path, NEW q \in Path, DoCopy(t, p, q)
      PROVE  FilesInv'
  <2> DEFINE c == [copy[t] EXCEPT !.pc = "opensrc", !.src = p, !.dst = q]
  <2>1. copy[t] \in Copying /\ CopyInv(t) /\ copy \in [Copier -> Copying]
    BY DEF FilesInv
  <2>2. c \in Copying
    BY <2>1 DEF Copying
  <2>3. copy' = [copy EXCEPT ![t] = c] /\ copy[t].pc = "off"
    BY <1>1, <2>1 DEF DoCopy, Copying
  <2>4. CopyInv(t)'
    BY <2>1, <2>2, <2>3 DEF CopyInv, Copying
  <2> QED
    BY <1>1, <2>2, <2>3, <2>4, OwnStep DEF DoCopy
<1>2. ASSUME NEW t \in Copier, OpenSource(t) PROVE FilesInv'
  <2>1. copy[t] \in Copying /\ CopyInv(t) /\ copy \in [Copier -> Copying]
    BY DEF FilesInv
  <2>2. PICK i \in {dirent[copy[t].src], 0} :
          copy' = [copy EXCEPT ![t].pc = "opendst", ![t].in = i]
    BY <1>2 DEF OpenSource
  <2> DEFINE c == [copy[t] EXCEPT !.pc = "opendst", !.in = i]
  <2>3. i \in NullInode
    BY <2>1 DEF FilesInv, NullInode, Copying
  <2>4. c \in Copying
    BY <2>1, <2>3 DEF Copying
  <2>5. copy' = [copy EXCEPT ![t] = c] /\ copy[t].pc = "opensrc"
    BY <1>2, <2>1, <2>2 DEF OpenSource, Copying
  <2>6. CopyInv(t)'
    BY <2>1, <2>4, <2>5 DEF CopyInv, Copying
  <2> QED
    BY <1>2, <2>4, <2>5, <2>6, OwnStep DEF OpenSource
<1>3. ASSUME NEW t \in Copier, OpenDestination(t) PROVE FilesInv'
  <2>1. /\ copy[t] \in Copying /\ CopyInv(t) /\ copy \in [Copier -> Copying]
        /\ copy[t].pc = "opendst" /\ copy[t].pos = 0 /\ copy[t].out = 0
        /\ copy[t].dst \in Path /\ copy[t].in \in NullInode
    BY <1>3 DEF FilesInv, CopyInv, OpenDestination, Copying
  <2> DEFINE q == copy[t].dst
  <2> DEFINE c(i) == [copy[t] EXCEPT !.out = i,
                        !.pc = IF i # 0 /\ copy[t].in # 0 THEN "read" ELSE "done"]
  <2>2. \A i \in NullInode : c(i) \in Copying
    BY <2>1 DEF Copying
  <2>3. ASSUME NEW i \in Inode, copy' = [copy EXCEPT ![t] = c(i)],
               data' = [data EXCEPT ![i] = << >>], dirent' \in [Path -> NullInode],
               disturbed' = disturbed \cup Users(i)
        PROVE  FilesInv'
    <3>1. \A u \in Copier \ {t} : copy'[u] = copy[u]
      BY <2>1, <2>3
    <3>2. \A u \in Copier \ {t} : CopyInv(u)'
      BY <2>3, <3>1, OthersKeep
    <3>3. /\ data' \in [Inode -> Seq(Block)] /\ disturbed' \subseteq Copier
          /\ copy' \in [Copier -> Copying] /\ copy'[t] = c(i) /\ c(i) \in Copying
      <4>1. c(i) \in Copying
        BY <2>2 DEF NullInode
      <4>2. disturbed \subseteq Copier /\ data \in [Inode -> Seq(Block)]
        BY DEF FilesInv
      <4>3. Users(i) \subseteq Copier
        BY DEF Users
      <4>4. << >> \in Seq(Block)
        OBVIOUS
      <4> HIDE DEF c
      <4> QED
        BY <2>1, <2>3, <4>1, <4>2, <4>3, <4>4
    <3>4. c(i).out = i /\ c(i).in = copy[t].in /\ c(i).pos = 0
          /\ c(i).pc = IF i # 0 /\ copy[t].in # 0 THEN "read" ELSE "done"
      BY <2>1 DEF Copying
    <3>5. CASE copy[t].in # 0
      <4>1. copy[t].in \in Inode /\ i # 0
        BY <2>1, <3>5, FileOpsAssumption DEF NullInode
      <4>2. t \notin disturbed' => copy[t].in # i
        BY <2>1, <2>3 DEF Users
      <4>3. data'[i] = << >> /\ (copy[t].in # i => data'[copy[t].in] = data[copy[t].in])
        BY <2>3, <4>1 DEF FilesInv
      <4>4. copy[t].in # i => Len(data'[copy[t].in]) >= 0
        BY <3>3, <4>1
      <4>5. t \notin disturbed' => SoFar(t)'
        BY <3>3, <3>4, <4>1, <4>2, <4>3, <4>4 DEF SoFar
      <4> QED
        BY <2>3, <3>2, <3>3, <3>4, <4>1, <4>5 DEF FilesInv, CopyInv
    <3>6. CASE copy[t].in = 0
      BY <2>3, <3>2, <3>3, <3>4, <3>6 DEF FilesInv, CopyInv
    <3> QED
      BY <3>5, <3>6
  <2>4. \A i : copy' = [copy EXCEPT ![t].out = i,
                 ![t].pc = IF i # 0 /\ copy[t].in # 0 THEN "read" ELSE "done"]
               => copy' = [copy EXCEPT ![t] = c(i)]
    BY <2>1 DEF Copying
  <2>5. CASE /\ dirent[q] # 0
             /\ copy' = [copy EXCEPT ![t] = c(dirent[q])]
             /\ data' = [data EXCEPT ![dirent[q]] = << >>]
             /\ disturbed' = disturbed \cup Users(dirent[q]) /\ dirent' = dirent
    BY <2>1, <2>3, <2>5 DEF FilesInv, NullInode
  <2>6. CASE /\ Unused # {} /\ dirent' = [dirent EXCEPT ![q] = CHOOSE i \in Unused : TRUE]
             /\ copy' = [copy EXCEPT ![t] = c(dirent'[q])]
             /\ data' = [data EXCEPT ![dirent'[q]] = << >>] /\ disturbed' = disturbed
    <3>1. dirent'[q] \in Unused
      BY <2>1, <2>6 DEF FilesInv
    <3>2. dirent'[q] \in Inode /\ Users(dirent'[q]) = {}
      BY <3>1 DEF Unused
    <3>3. dirent' \in [Path -> NullInode]
      BY <2>1, <2>6, <3>1, <3>2 DEF FilesInv, NullInode
    <3> QED
      BY <2>3, <2>6, <3>2, <3>3
  <2>7. CASE copy' = [copy EXCEPT ![t] = c(0)] /\ UNCHANGED <<dirent, data, disturbed>>
    <3>1. c(0) \in Copying /\ c(0).pc = "done"
      BY <2>1, <2>2 DEF NullInode, Copying
    <3>2. CopyInv(t)'
      BY <2>1, <2>7, <3>1 DEF CopyInv
    <3> QED
      BY <2>7, <3>1, <3>2, OwnStep
  <2> QED
    BY <1>3, <2>4, <2>5, <2>6, <2>7 DEF OpenDestination, Truncated
<1>4. ASSUME NEW t \in Copier, ReadBlock(t) PROVE FilesInv'
  <2> DEFINE s == data[copy[t].in]
  <2>1. /\ copy[t] \in Copying /\ CopyInv(t) /\ copy \in [Copier -> Copying]
        /\ copy[t].pc = "read" /\ copy[t].in \in Inode /\ copy[t].pos \in Nat
        /\ s \in Seq(Block)
    BY <1>4 DEF FilesInv, CopyInv, ReadBlock, Copying
  <2>2. CASE copy[t].pos < Len(s)
    <3> DEFINE c == [copy[t] EXCEPT !.pc = "write", !.buf = s[copy[t].pos + 1]]
    <3>1. s[copy[t].pos + 1] \in Block
      BY <2>1, <2>2
    <3>2. c \in Copying
      BY <2>1, <3>1 DEF Copying
    <3>3. copy' = [copy EXCEPT ![t] = c]
      BY <1>4, <2>1, <2>2 DEF ReadBlock, Copying
    <3>4. /\ copy'[t] = c /\ c.pc = "write" /\ c.buf = s[copy[t].pos + 1]
          /\ c.in = copy[t].in /\ c.out = copy[t].out /\ c.pos = copy[t].pos
      BY <2>1, <3>3 DEF Copying
    <3>5. data' = data /\ disturbed' = disturbed
      BY <1>4 DEF ReadBlock
    <3>6. CopyInv(t)'
      BY <2>1, <2>2, <3>2, <3>4, <3>5 DEF CopyInv, SoFar
    <3> QED
      BY <1>4, <3>2, <3>3, <3>6, OwnStep DEF ReadBlock
  <2>3. CASE ~(copy[t].pos < Len(s))
    <3> DEFINE c == [copy[t] EXCEPT !.pc = "done"]
    <3>1. c \in Copying
      BY <2>1 DEF Copying
    <3>2. copy' = [copy EXCEPT ![t] = c]
      BY <1>4, <2>1, <2>3 DEF ReadBlock, Copying
    <3>3. CopyInv(t)'
      BY <2>1, <3>1, <3>2 DEF CopyInv, Copying
    <3> QED
      BY <1>4, <3>1, <3>2, <3>3, OwnStep DEF ReadBlock
  <2> QED
    BY <2>2, <2>3
<1>5. ASSUME NEW t \in Copier, WriteBlock(t) PROVE FilesInv'
  <2> DEFINE o == copy[t].out
  <2> DEFINE n == copy[t].pos + 1
  <2> DEFINE w == Overwritten(data[o], n, copy[t].buf)
  <2> DEFINE c == [copy[t] EXCEPT !.pc = "read", !.pos = @ + 1, !.buf = Hole]
  <2>1. /\ copy[t] \in Copying /\ CopyInv(t) /\ copy \in [Copier -> Copying]
        /\ copy[t].pc = "write" /\ copy[t].in \in Inode /\ o \in Inode
        /\ copy[t].pos \in Nat /\ copy[t].buf \in Block /\ data[o] \in Seq(Block)
        /\ n \in Nat \ {0}
    BY <1>5 DEF FilesInv, CopyInv, WriteBlock, Copying
  <2>2. w \in Seq(Block)
    BY <2>1, OverwrittenFacts
  <2>3. c \in Copying
    BY <2>1 DEF Copying, Block
  <2>4. /\ copy' = [copy EXCEPT ![t] = c]
        /\ data' = [data EXCEPT ![o] = w]
        /\ disturbed' = disturbed \cup (Users(o) \ {t}) /\ dirent' = dirent
    BY <1>5, <2>1 DEF WriteBlock, Copying
  <2>5. /\ copy'[t] = c /\ c.pc = "read" /\ c.in = copy[t].in /\ c.out = o /\ c.pos = n
    BY <2>1, <2>4 DEF Copying
  <2>6. \A u \in Copier \ {t} : CopyInv(u)'
    <3> HIDE DEF w, o, c
    <3>1. \A u \in Copier \ {t} : copy'[u] = copy[u]
      BY <2>1, <2>4
    <3> QED
      BY <2>1, <2>4, <3>1, OthersKeep
  <2>7. ASSUME t \notin disturbed' PROVE SoFar(t)'
    <3>1. SoFar(t) /\ copy[t].pc = "write"
      BY <2>1, <2>4, <2>7 DEF CopyInv
    <3>2. /\ copy[t].in # o /\ Len(data[o]) = copy[t].pos
          /\ copy[t].pos < Len(data[copy[t].in])
          /\ copy[t].buf = data[copy[t].in][n]
          /\ \A k \in 1 .. copy[t].pos : data[o][k] = data[copy[t].in][k]
      BY <3>1 DEF SoFar
    <3>3. Len(w) = n /\ w[n] = copy[t].buf /\ \A k \in 1 .. copy[t].pos : w[k] = data[o][k]
      <4>1. n = Len(data[o]) + 1
        BY <3>2
      <4>2. data[o] \in Seq(Block) /\ n \in Nat \ {0} /\ copy[t].buf \in Block
        BY <2>1
      <4> HIDE DEF n, o
      <4>3. /\ Len(w) = n /\ w[n] = copy[t].buf
            /\ \A k \in 1 .. Len(data[o]) : w[k] = data[o][k]
        BY <4>1, <4>2, OverwrittenFacts
      <4> QED
        BY <3>2, <4>3
    <3>4. data'[o] = w /\ data'[copy[t].in] = data[copy[t].in]
      BY <2>1, <2>4, <3>2 DEF FilesInv
    <3>5. \A k \in 1 .. n : k \in 1 .. copy[t].pos \/ k = n
      BY <2>1
    <3>6. n <= Len(data[copy[t].in])
      BY <2>1, <3>2 DEF FilesInv
    <3> HIDE DEF n, w, o, c
    <3> QED
      BY <2>5, <3>2, <3>3, <3>4, <3>5, <3>6 DEF SoFar
  <2>8. CopyInv(t)'
    BY <2>1, <2>3, <2>5, <2>7 DEF CopyInv
  <2> QED
    BY <2>1, <2>2, <2>3, <2>4, <2>6, <2>8 DEF FilesInv, Users
<1>6. ASSUME NEW p \in Path, DoDelete(p) PROVE FilesInv'
  <2>1. dirent' \in [Path -> NullInode]
    BY <1>6 DEF DoDelete, FilesInv, NullInode
  <2> QED
    BY <1>6, <2>1, Elsewhere DEF DoDelete, FilesInv
<1>7. CASE UNCHANGED fileVars
  BY <1>7, Elsewhere DEF fileVars, FilesInv
<1> QED
  BY <1>1, <1>2, <1>3, <1>4, <1>5, <1>6, <1>7 DEF FilesNext

\* A copy ends where its source does.
LEMMA CopyEnds ==
  ASSUME FilesInv, [FilesNext]_fileVars, NEW t \in Copier \ disturbed,
         copy[t].pc = "read", copy'[t].pc = "done"
  PROVE  data[copy[t].out] = data[copy[t].in]
<1>1. /\ SoFar(t) /\ copy[t].in \in Inode /\ copy[t].out \in Inode
      /\ data[copy[t].in] \in Seq(Block) /\ data[copy[t].out] \in Seq(Block)
      /\ copy[t].pos \in Nat /\ copy \in [Copier -> Copying]
  BY DEF FilesInv, CopyInv, Copying
<1>2. copy[t].pos >= Len(data[copy[t].in])
  <2>1. ReadBlock(t)
    <3>2. ASSUME NEW u \in Copier, NEW p \in Path, NEW q \in Path, DoCopy(u, p, q)
          PROVE  FALSE
      BY <1>1, <3>2 DEF DoCopy
    <3>3. ASSUME NEW u \in Copier, OpenSource(u) PROVE FALSE
      BY <1>1, <3>3 DEF OpenSource
    <3>4. ASSUME NEW u \in Copier, OpenDestination(u) PROVE FALSE
      BY <1>1, <3>4 DEF OpenDestination
    <3>5. ASSUME NEW u \in Copier, WriteBlock(u) PROVE FALSE
      BY <1>1, <3>5 DEF WriteBlock, Copying
    <3>6. ASSUME NEW u \in Copier, ReadBlock(u) PROVE u = t
      BY <1>1, <3>6 DEF ReadBlock
    <3>7. ~UNCHANGED copy
      OBVIOUS
    <3> QED
      BY <3>2, <3>3, <3>4, <3>5, <3>6, <3>7 DEF FilesNext, DoDelete, fileVars
  <2>2. CASE copy' = [copy EXCEPT ![t].pc = "write",
                         ![t].buf = data[copy[t].in][copy[t].pos + 1]]
    <3>1. copy'[t].pc = "write"
      BY <1>1, <2>2 DEF Copying
    <3> QED
      BY <3>1
  <2>3. Len(data[copy[t].in]) \in Nat
    BY <1>1
  <2> QED
    BY <1>1, <2>1, <2>2, <2>3 DEF ReadBlock
<1>3. Len(data[copy[t].out]) = Len(data[copy[t].in])
  BY <1>1, <1>2 DEF SoFar
<1> QED
  BY <1>1, <1>2, <1>3, SeqEqual DEF SoFar

LEMMA CopyRules == Spec => []FilesInv
<1>1. Init => FilesInv
  <2> SUFFICES ASSUME FilesInit, FirstDir \in [Path -> NullInode] PROVE FilesInv
    BY FileOpsAssumption DEF Init, NullInode
  <2>1. \A i \in Inode : [k \in 1 .. FirstLen[i] |-> <<i, k>>] \in Seq(Block)
    BY FileOpsAssumption DEF Block
  <2>2. data \in [Inode -> Seq(Block)]
    BY <2>1 DEF FilesInit
  <2>3. ASSUME NEW t \in Copier PROVE copy[t] \in Copying /\ copy[t].pc = "off"
                                     /\ copy[t].pos = 0 /\ copy[t].out = 0
    <3>1. AnyPath \in Path
      BY FileOpsAssumption DEF AnyPath
    <3> QED
      BY <3>1 DEF FilesInit, Copying, NullInode, Block
  <2>4. copy \in [Copier -> Copying]
    BY <2>3 DEF FilesInit
  <2> QED
    BY <2>2, <2>3, <2>4 DEF FilesInit, FilesInv, CopyInv
<1>2. FilesInv /\ [Next]_programsVars => FilesInv'
  BY FilesStep, EachStandsAlone
<1> QED
  BY <1>1, <1>2, PTL DEF Spec

\* A copy that nobody else's copy crossed is one, however many copies run and
\* whatever is deleted meanwhile.
THEOREM CopiesAreFaithful == Spec => CopyFaithful
<1>1. FilesInv /\ [Next]_programsVars
        => [\A t \in Copier \ disturbed :
              copy[t].pc = "read" /\ copy'[t].pc = "done"
                => data[copy[t].out] = data[copy[t].in]]_fileVars
  BY CopyEnds, EachStandsAlone
<1> QED
  BY <1>1, CopyRules, PTL DEF Spec, CopyFaithful

-----------------------------------------------------------------------------
(* The lists of the System Monitor, Process Manager and Kernel Console.    *)

LEMMA ReadersRules == Spec => []ReadersInv
<1>1. Init => ReadersInv
  BY ReadersStart DEF Init
<1>2. ReadersInv /\ [Next]_programsVars => ReadersInv'
  BY ReadersStep, EachStandsAlone
<1> QED
  BY <1>1, <1>2, PTL DEF Spec

\* What a list shows of a table that changed meanwhile, for every size of the
\* table and number of pids.
THEOREM ListingsAreFaithful == Spec => ListingFaithful
<1>1. ReadersInv /\ [Next]_programsVars
        => [walk = "count" /\ walk' = "off" =>
              /\ "move" \notin crossed => IsPrefix(before, list)
              /\ crossed = {} => list = before
              /\ "fill" \notin crossed => IsInjective(list)]_readerVars
  BY WalkEnds, EachStandsAlone
<1> QED
  BY ReadersRules, <1>1, PTL DEF Spec, ListingFaithful

-----------------------------------------------------------------------------
(* File Explorer.                                                          *)

NameStep(path, g, k) == IF k = 0 THEN << >> ELSE Into(g[k - 1], path[k])

IsNames(g, path, n) == g = [k \in 0 .. n |-> NameStep(path, g, k)]

Names(path) == CHOOSE g : IsNames(g, path, Len(path))

LEMMA ResolvedIsNames ==
  ASSUME NEW path
  PROVE  Resolved(path) = Names(path)[Len(path)]
  BY DEF Resolved, Names, IsNames, NameStep

LEMMA NamesRule ==
  ASSUME NEW g, NEW path, NEW n \in Nat, IsNames(g, path, n), NEW k \in 0 .. n
  PROVE  g[k] = NameStep(path, g, k)
  BY DEF IsNames

LEMMA NamesExist ==
  ASSUME NEW path
  PROVE  \A n \in Nat : \E g : IsNames(g, path, n)
<1> DEFINE G == {n \in Nat : \E g : IsNames(g, path, n)}
<1>1. 0 \in G
  <2>1. IsNames([k \in 0 .. 0 |-> << >>], path, 0)
    BY DEF IsNames, NameStep
  <2> QED
    BY <2>1
<1>2. ASSUME NEW n \in Nat, n \in G PROVE n + 1 \in G
  <2>1. PICK g : IsNames(g, path, n)
    BY <1>2
  <2> DEFINE h == [k \in 0 .. n + 1 |-> NameStep(path, g, k)]
  <2>2. ASSUME NEW k \in 0 .. n PROVE h[k] = g[k]
    BY <2>1, NamesRule
  <2>3. ASSUME NEW k \in 0 .. n + 1 PROVE NameStep(path, g, k) = NameStep(path, h, k)
    <3>1. k # 0 => k - 1 \in 0 .. n
      OBVIOUS
    <3>2. k # 0 => h[k - 1] = g[k - 1]
      BY <2>2, <3>1
    <3> HIDE DEF h
    <3> QED
      BY <3>2 DEF NameStep
  <2>4. h = [k \in 0 .. n + 1 |-> NameStep(path, h, k)]
    BY <2>3
  <2> HIDE DEF h
  <2> QED
    BY <2>4 DEF IsNames
<1>3. Nat \subseteq G
  <2> HIDE DEF G
  <2> QED
    BY <1>1, <1>2, Induct
<1> QED
  BY <1>3

\* What the first names of two paths resolve to, when they are the same.
LEMMA NamesAgree ==
  ASSUME NEW n \in Nat, NEW m \in Nat, n <= m, NEW p, NEW q,
         NEW g, IsNames(g, p, n), NEW h, IsNames(h, q, m),
         \A k \in 1 .. n : p[k] = q[k]
  PROVE  g[n] = h[n]
<1> DEFINE G == {k \in Nat : k <= n => g[k] = h[k]}
<1>1. 0 \in G
  BY NamesRule DEF NameStep
<1>2. ASSUME NEW k \in Nat, k \in G PROVE k + 1 \in G
  <2> SUFFICES ASSUME k + 1 <= n PROVE g[k + 1] = h[k + 1]
    OBVIOUS
  <2>1. g[k + 1] = NameStep(p, g, k + 1)
    BY NamesRule
  <2>2. h[k + 1] = NameStep(q, h, k + 1)
    BY NamesRule
  <2>3. p[k + 1] = q[k + 1] /\ g[k] = h[k] /\ (k + 1) - 1 = k /\ k + 1 # 0
    BY <1>2
  <2> QED
    BY <2>1, <2>2, <2>3 DEF NameStep
<1>3. Nat \subseteq G
  <2> HIDE DEF G
  <2> QED
    BY <1>1, <1>2, Induct
<1> QED
  BY <1>3

\* A name at the end of a path leads one level down, and a slash nowhere.
LEMMA ResolvedAppend ==
  ASSUME NEW S, NEW path \in Seq(S), NEW n \in S
  PROVE  Resolved(Append(path, n)) = Into(Resolved(path), n)
<1> DEFINE long == Append(path, n)
           g == Names(path)
           h == Names(long)
           len == Len(path)
<1>1. len \in Nat /\ Len(long) = len + 1 /\ long[len + 1] = n
  OBVIOUS
<1>2. \A k \in 1 .. len : path[k] = long[k]
  OBVIOUS
<1>3. IsNames(g, path, len)
  <2>1. \E f : IsNames(f, path, len)
    BY <1>1, NamesExist
  <2> QED
    BY <2>1 DEF Names
<1>4. IsNames(h, long, len + 1)
  <2> HIDE DEF long
  <2>0. Len(long) \in Nat
    BY <1>1
  <2>1. \E f : IsNames(f, long, Len(long))
    BY <2>0, NamesExist
  <2> QED
    BY <1>1, <2>1 DEF Names
<1>5. Resolved(path) = g[len] /\ Resolved(long) = h[len + 1]
  BY <1>1, ResolvedIsNames
<1> HIDE DEF g, h, long, len
<1>6. g[len] = h[len]
  BY <1>1, <1>2, <1>3, <1>4, NamesAgree
<1>7. h[len + 1] = NameStep(long, h, len + 1)
  BY <1>1, <1>4, NamesRule
<1>8. (len + 1) - 1 = len /\ len + 1 # 0
  BY <1>1
<1>9. QED
  BY <1>1, <1>5, <1>6, <1>7, <1>8 DEF NameStep, long

LEMMA ResolvedEmpty == Resolved(<< >>) = << >>
<1>1. \E g : IsNames(g, << >>, 0)
  BY NamesExist
<1>2. IsNames(Names(<< >>), << >>, 0)
  BY <1>1 DEF Names
<1>3. Names(<< >>)[0] = NameStep(<< >>, Names(<< >>), 0)
  BY <1>2, NamesRule
<1> QED
  BY <1>3, ResolvedIsNames DEF NameStep

PathName == DirName \cup {NoName}

\* Only the first slash may have nothing after it.
SlashFirst(path) == \A k \in 2 .. Len(path) : path[k] # NoName

ExplorerInv ==
  /\ ExplorerTypeOK
  /\ PathFollowsUser
  /\ SlashFirst(cur_path)

LEMMA ResolvedOne ==
  ASSUME NEW n \in PathName
  PROVE  Resolved(<<n>>) = IF n = NoName THEN << >> ELSE <<n>>
<1>1. Append(<< >>, n) = <<n>> /\ << >> \in Seq(PathName)
  OBVIOUS
<1>2. Resolved(Append(<< >>, n)) = Into(<< >>, n)
  BY <1>1, ResolvedAppend, ResolvedEmpty
<1>3. Into(<< >>, n) = IF n = NoName THEN << >> ELSE <<n>>
  BY <1>1 DEF Into
<1> QED
  BY <1>1, <1>2, <1>3, Zenon

\* A path leads to a directory.
LEMMA ResolvedType ==
  ASSUME NEW path \in Seq(PathName)
  PROVE  Resolved(path) \in Seq(PathName)
<1> DEFINE g == Names(path)
           len == Len(path)
           G == {k \in Nat : k <= len => g[k] \in Seq(PathName)}
<1>1. len \in Nat
  OBVIOUS
<1>2. IsNames(g, path, len)
  <2>1. \E f : IsNames(f, path, len)
    BY <1>1, NamesExist
  <2> QED
    BY <2>1 DEF Names
<1> HIDE DEF g
<1>3. g[0] = << >>
  BY <1>1, <1>2, NamesRule DEF NameStep
<1>4. ASSUME NEW k \in Nat, k \in G PROVE k + 1 \in G
  <2> SUFFICES ASSUME k + 1 <= len PROVE g[k + 1] \in Seq(PathName)
    OBVIOUS
  <2>1. g[k + 1] = NameStep(path, g, k + 1)
    BY <1>1, <1>2, NamesRule
  <2>2. (k + 1) - 1 = k /\ k + 1 # 0
    OBVIOUS
  <2>3. g[k + 1] = Into(g[k], path[k + 1])
    BY <2>1, <2>2 DEF NameStep
  <2>4. g[k] \in Seq(PathName) /\ path[k + 1] \in PathName
    BY <1>1, <1>4
  <2> QED
    BY <2>3, <2>4 DEF Into
<1>5. Nat \subseteq G
  <2>0. << >> \in Seq(PathName)
    OBVIOUS
  <2>1. 0 \in G
    <3>1. g[0] \in Seq(PathName)
      BY <1>3, <2>0, Zenon
    <3> QED
      BY <3>1
  <2> HIDE DEF G
  <2> QED
    BY <1>4, <2>1, Induct
<1>6. g[len] \in Seq(PathName)
  BY <1>1, <1>5
<1> QED
  BY <1>6, ResolvedIsNames DEF g

LEMMA FrontOf ==
  ASSUME NEW S, NEW s \in Seq(S), Len(s) # 0
  PROVE  Front(s) \in Seq(S) /\ Len(Front(s)) = Len(s) - 1
<1> DEFINE n == Len(s) - 1
<1>1. Front(s) = SubSeq(s, 1, n)
  BY DEF Front
<1>2. n \in Nat /\ 1 \in Int /\ n \in Int /\ \A i \in 1 .. n : s[i] \in S
  OBVIOUS
<1> HIDE DEF n
<1>3. SubSeq(s, 1, n) \in Seq(S) /\ Len(SubSeq(s, 1, n)) = IF 1 <= n THEN n - 1 + 1 ELSE 0
  BY <1>2, SubSeqProperties
<1>4. Len(SubSeq(s, 1, n)) = n
  BY <1>2, <1>3
<1> QED
  BY <1>1, <1>3, <1>4 DEF n

LEMMA FrontOfAppend ==
  ASSUME NEW S, NEW s \in Seq(S), NEW x \in S
  PROVE  Front(Append(s, x)) = s /\ Append(s, x) # << >>
<1>1. Len(Append(s, x)) = Len(s) + 1 /\ Append(s, x) \in Seq(S)
  OBVIOUS
<1>2. Front(Append(s, x)) = SubSeq(Append(s, x), 1, Len(s))
  BY <1>1 DEF Front
<1>3. SubSeq(Append(s, x), 1, Len(s)) = s
  OBVIOUS
<1> QED
  BY <1>1, <1>2, <1>3

\* Cutting a path leads one level up; the root is its own parent.
LEMMA ResolvedCut ==
  ASSUME NEW path \in Seq(PathName), path # << >>, SlashFirst(path)
  PROVE  /\ Cut(path) \in Seq(PathName) /\ Cut(path) # << >>
         /\ Resolved(Cut(path))
              = IF Resolved(path) = << >> THEN << >> ELSE Front(Resolved(path))
<1>0. Len(path) \in Nat \ {0}
  OBVIOUS
<1>1. Len(path) \in Nat \ {0} /\ Front(path) \in Seq(PathName)
      /\ Len(Front(path)) = Len(path) - 1
  BY <1>0, FrontOf
<1>2. CASE Len(path) = 1
  <2>1. PICK n \in PathName : path = <<n>>
    BY <1>2
  <2>2. Cut(path) = <<NoName>>
    BY <1>2 DEF Cut
  <2>3. Resolved(<<NoName>>) = << >>
    BY ResolvedOne DEF PathName
  <2>4. Resolved(path) = IF n = NoName THEN << >> ELSE <<n>>
    BY <2>1, ResolvedOne
  <2>5. Front(<<n>>) = << >> /\ <<n>> # << >>
    BY DEF Front
  <2> QED
    BY <2>2, <2>3, <2>4, <2>5 DEF PathName
<1>3. CASE Len(path) > 1
  <2> DEFINE n == path[Len(path)]
             up == Front(path)
  <2>1. path = Append(up, n) /\ n \in PathName /\ n # NoName
    BY <1>1, <1>3 DEF Front, SlashFirst
  <2>2. Cut(path) = up /\ up # << >>
    BY <1>1, <1>3 DEF Cut
  <2>3. Resolved(path) = Append(Resolved(up), n)
    <3> HIDE DEF n, up
    <3>1. Resolved(Append(up, n)) = Into(Resolved(up), n)
      BY <1>1, <2>1, ResolvedAppend DEF up
    <3> QED
      BY <2>1, <3>1 DEF Into
  <2>4. Resolved(up) \in Seq(PathName)
    BY <1>1, ResolvedType
  <2> HIDE DEF n, up
  <2>5. Front(Append(Resolved(up), n)) = Resolved(up)
        /\ Append(Resolved(up), n) # << >>
    BY <2>1, <2>4, FrontOfAppend
  <2> QED
    BY <1>1, <2>2, <2>3, <2>5 DEF up
<1> QED
  BY <1>1, <1>2, <1>3

LEMMA CutEnd ==
  ASSUME NEW path \in Seq(PathName), path # << >>, SlashFirst(path)
  PROVE  SlashFirst(Cut(path))
<1>1. CASE Len(path) > 1
  <2>1. /\ Cut(path) = Front(path) /\ Len(Front(path)) = Len(path) - 1
        /\ Len(path) \in Nat
    BY <1>1, FrontOf DEF Cut
  <2>2. \A k \in 1 .. Len(path) - 1 : Front(path)[k] = path[k]
    BY DEF Front
  <2> QED
    BY <2>1, <2>2 DEF SlashFirst
<1>2. CASE ~(Len(path) > 1)
  BY <1>2 DEF Cut, SlashFirst
<1> QED
  BY <1>1, <1>2

LEMMA ExplorerInvInit == ExplorerInit => ExplorerInv
<1> SUFFICES ASSUME ExplorerInit PROVE ExplorerInv
  OBVIOUS
<1>1. Home \in DirName /\ Home \in PathName /\ Home # NoName
  BY FileExplorerAssumption DEF PathName
<1>2. Resolved(<<Home>>) = <<Home>>
  BY <1>1, ResolvedOne
<1>3. <<Home>> \in Seq(PathName) /\ <<Home>> \in Seq(DirName) /\ <<Home>> # << >>
      /\ Len(<<Home>>) = 1
  BY <1>1
<1> QED
  BY <1>2, <1>3
  DEF ExplorerInit, ExplorerInv, ExplorerTypeOK, PathFollowsUser, PathName,
    SlashFirst

LEMMA ExplorerStep ==
  ASSUME ExplorerInv, [ExplorerNext]_explorerVars
  PROVE  ExplorerInv'
<1>1. /\ cur_path \in Seq(PathName) /\ cur_path # << >>
      /\ rows \in Seq(DirName) /\ inside \in Seq(DirName) /\ listed \in BOOLEAN
      /\ Resolved(cur_path) = inside
      /\ SlashFirst(cur_path)
      /\ listed => rows = inside
  BY DEF ExplorerInv, ExplorerTypeOK, PathFollowsUser, PathName
<1>2. CASE ActivateParent
  <2> DEFINE cut == Cut(cur_path)
             up == IF inside = << >> THEN inside ELSE Front(inside)
  <2>1. /\ cut \in Seq(PathName) /\ cut # << >>
        /\ Resolved(cut) = up
    BY <1>1, ResolvedCut
  <2>2. SlashFirst(cut)
    BY <1>1, CutEnd
  <2>3. up \in Seq(DirName)
    BY <1>1, FrontOf
  <2>4. inside' = up /\ cur_path' = cut
    BY <1>2 DEF ActivateParent, LoadDir
  <2>5. listed' \in BOOLEAN /\ (listed' => rows' = up) /\ rows' \in Seq(DirName)
    BY <1>1, <1>2, <2>1, <2>3 DEF ActivateParent, LoadDir
  <2> HIDE DEF cut, up
  <2>6. Resolved(cur_path)' = up
    BY <2>1, <2>4
  <2> QED
    BY <2>1, <2>2, <2>3, <2>4, <2>5, <2>6
    DEF ExplorerInv, ExplorerTypeOK, PathFollowsUser, PathName
<1>3. ASSUME NEW n \in DirName, ActivateDir(n) PROVE ExplorerInv'
  <2> DEFINE long == Append(cur_path, n)
  <2>1. n \in PathName /\ n # NoName
    BY FileExplorerAssumption DEF PathName
  <2>2. /\ long \in Seq(PathName) /\ long # << >>
        /\ SlashFirst(long)
    BY <1>1, <2>1 DEF SlashFirst
  <2>3. Resolved(long) = Append(inside, n)
    <3>1. Resolved(long) = Into(Resolved(cur_path), n)
      BY <1>1, <2>1, ResolvedAppend
    <3> QED
      BY <1>1, <2>1, <3>1 DEF Into
  <2>4. Append(inside, n) \in Seq(DirName)
    BY <1>1
  <2> HIDE DEF long
  <2>5. CASE listed' = TRUE /\ rows' = Resolved(long) /\ cur_path' = long
    <3>1. inside' = Append(inside, n)
      BY <1>3, <2>5 DEF ActivateDir
    <3>2. Resolved(cur_path)' = inside'
      BY <2>3, <2>5, <3>1
    <3> QED
      BY <2>1, <2>2, <2>3, <2>4, <2>5, <3>1, <3>2
      DEF ExplorerInv, ExplorerTypeOK, PathFollowsUser, PathName
  <2>6. CASE listed' = FALSE /\ UNCHANGED rows /\ cur_path' = cur_path
    <3>1. inside' = inside
      BY <1>3, <2>6 DEF ActivateDir
    <3>2. Resolved(cur_path)' = inside'
      BY <1>1, <2>6, <3>1
    <3> QED
      BY <1>1, <2>6, <3>1, <3>2
      DEF ExplorerInv, ExplorerTypeOK, PathFollowsUser, PathName
  <2> QED
    BY <1>3, <2>5, <2>6 DEF ActivateDir, LoadDir, long
<1>4. CASE UNCHANGED explorerVars
  <2>1. Resolved(cur_path)' = Resolved(cur_path)
    BY <1>4 DEF explorerVars
  <2> QED
    BY <1>4, <2>1
    DEF explorerVars, ExplorerInv, ExplorerTypeOK, PathFollowsUser, SlashFirst
<1> QED
  BY <1>2, <1>3, <1>4 DEF ExplorerNext

LEMMA ExplorerRules == Spec => []ExplorerInv
<1>1. Init => ExplorerInv
  BY ExplorerInvInit DEF Init
<1>2. ExplorerInv /\ [Next]_programsVars => ExplorerInv'
  BY EachStandsAlone, ExplorerStep
<1> QED
  BY <1>1, <1>2, PTL DEF Spec

\* However long the user goes up and down, through the root and through
\* directories that do not open, the path that is cut and extended in place
\* names the directory the user is in.  (fileexplorer.c:8-19, 30-38)
THEOREM PathIsRight == Spec => []PathFollowsUser
<1>1. ExplorerInv => PathFollowsUser
  BY DEF ExplorerInv
<1> QED
  BY ExplorerRules, <1>1, PTL

-----------------------------------------------------------------------------
(* All of them.                                                            *)

LEMMA SnakeAlone == Spec => SnakeSpec
<1>1. Init => SnakeInit
  BY DEF Init
<1>2. [Next]_programsVars => [SnakeNext]_snakeVars
  BY EachStandsAlone
<1> QED
  BY <1>1, <1>2, PTL DEF Spec, SnakeSpec

LEMMA MinesAlone == Spec => []MinesTypeOK
<1>1. Init => MinesTypeOK
  BY MinesTypeInit DEF Init
<1>2. MinesTypeOK /\ [Next]_programsVars => MinesTypeOK'
  BY EachStandsAlone, MinesTypeStep
<1> QED
  BY <1>1, <1>2, PTL DEF Spec

LEMMA ClockTypes == ClockInv(DAY * MINUTE) => ClockTypeOK
  BY DEF ClockInv, ClockTypeOK

LEMMA FilesTypes == FilesInv => FilesTypeOK
  BY DEF FilesInv, FilesTypeOK

Kinds == {"fill", "move"}

CrossedOK == crossed \subseteq Kinds

LEMMA CrossedKinds == Spec => []CrossedOK
<1>1. Init => CrossedOK
  BY DEF Init, ReadersInit, CrossedOK
<1>2. ReadersInv /\ CrossedOK /\ [ReadersNext]_readerVars => CrossedOK'
  <2> SUFFICES ASSUME ReadersInv, crossed \subseteq Kinds, [ReadersNext]_readerVars
               PROVE  crossed' \subseteq Kinds
    BY DEF CrossedOK
  <2>1. change.kind \in Kinds \cup {"none"}
    BY DEF ReadersInv, TableInv, Kinds
  <2> QED
    BY <2>1 DEF ReadersNext, WritersNext, readerVars, CountOneMore, CountOneLess, Begin,
       StoreRow, Refresh, NextRow, ReadRow, RefreshEnds, Kinds
<1>3. [Next]_programsVars => [ReadersNext]_readerVars
  BY EachStandsAlone
<1> QED
  BY ReadersRules, <1>1, <1>2, <1>3, PTL DEF Spec

LEMMA ReadersTypes == ReadersInv /\ CrossedOK => ReadersTypeOK
<1> SUFFICES ASSUME ReadersInv, CrossedOK PROVE ReadersTypeOK
  OBVIOUS
<1>1. /\ pids \in [Row -> Pid] /\ count \in 0 .. MAX_ROWS /\ issued \in Pid
      /\ change \in [kind : {"none", "fill", "move"}, slot : Row]
  BY Zenon DEF ReadersInv, TableInv
<1>2. walk \in {"off", "count", "row"} /\ list \in Seq(Pid) /\ before \in Seq(Pid)
  BY Zenon DEF ReadersInv, WalkInv
<1> QED
  BY Zenon, <1>1, <1>2 DEF ReadersTypeOK, CrossedOK, Kinds

\* Types of all ten programs: no index leaves its array, no count its bound,
\* whatever the sizes and the bounds are.
THEOREM ProgramsTypeCorrect == Spec => []TypeOK
<1>1. Init => launched \in Launchable
  BY DEF Init
<1>2. launched \in Launchable /\ [Next]_programsVars => (launched \in Launchable)'
  BY DEF Next, programsVars, Runs, RunSnake, RunMinesweeper, RunMusicPlayer,
     RunClock, RunTaskScheduler, RunNotepad, RunFileOps, RunFileExplorer,
     RunSearch, RunSysMonitor
<1>3. /\ TasksInv => TasksTypeOK
      /\ NotepadInv => NotepadTypeOK
      /\ PlayerInv => PlayerTypeOK
      /\ ExplorerInv => ExplorerTypeOK
      /\ SearchInv => SearchTypeOK
  BY DEF TasksInv, NotepadInv, PlayerInv, ExplorerInv, SearchInv
<1>4. /\ launched \in Launchable
      /\ SnakeTypeOK /\ MinesTypeOK /\ PlayerTypeOK /\ ClockTypeOK /\ TasksTypeOK
      /\ NotepadTypeOK /\ FilesTypeOK /\ ExplorerTypeOK /\ SearchTypeOK
      /\ ReadersTypeOK
    => TypeOK
  BY DEF TypeOK
<1> QED
  BY <1>1, <1>2, <1>3, <1>4, ClockTypes, FilesTypes, ReadersTypes, SnakeAlone,
     SnakeTypeCorrect, MinesAlone, SearchRules, ClockRules, TaskRules,
     NotepadRules, PlayerRules, CopyRules, ExplorerRules, ReadersRules,
     CrossedKinds, PTL
  DEF Spec
=============================================================================
