---------------------------- MODULE MusicPlayer -----------------------------
(***************************************************************************)
(* The Music Player (apps/musicplayer.c): it plays a song by forking a     *)
(* process that becomes paplay, and stops it with a signal.  It never      *)
(* waits for these processes, so that their pids are not used again while  *)
(* it runs, and it learns nothing of their end or of a fork that failed.   *)
(***************************************************************************)
EXTENDS Integers

CONSTANTS
  MAX_SONGS,  \* entries of playlist
  MaxPlayers  \* bound of the model: forks that succeed

ASSUME MusicPlayerAssumption ==
  /\ MAX_SONGS \in Nat \ {0}
  /\ MaxPlayers \in Nat

Player == 1 .. MaxPlayers

VARIABLES
  pl_cnt,
  cur_song,
  playing,
  player_pid,  \* 0: none, -1: fork failed
  window,      \* "open", "closed", or "crashed"
  forked,      \* how many players there have been; their pids are 1 .. forked
  song,        \* what each of them plays
  live,        \* those that have not ended
  signalled    \* the pids that kill was called with

playerVars == <<pl_cnt, cur_song, playing, player_pid, window, forked, song,
                live, signalled>>

PlayerTypeOK ==
  /\ pl_cnt \in 0 .. MAX_SONGS
  /\ cur_song \in 0 .. MAX_SONGS - 1
  /\ playing \in BOOLEAN
  /\ player_pid \in Player \cup {0, -1}
  /\ window \in {"open", "closed", "crashed"}
  /\ forked \in 0 .. MaxPlayers
  /\ song \in [Player -> 0 .. MAX_SONGS - 1]
  /\ live \subseteq 1 .. forked
  /\ signalled \subseteq Int

PlayerInit ==
  /\ pl_cnt = 0
  /\ cur_song = 0
  /\ playing = FALSE
  /\ player_pid = 0
  /\ window = "open"
  /\ forked = 0
  /\ song = [p \in Player |-> 0]
  /\ live = {}
  /\ signalled = {}

-----------------------------------------------------------------------------
StoppedWhateverPid == signalled \cup {player_pid}
NotStopped == signalled

\* The signals after stop_playback: 0 and -1 are not pids of a player.
Stopped == IF player_pid > 0 THEN signalled \cup {player_pid} ELSE signalled

StopPlayback ==
  /\ signalled' = Stopped
  /\ player_pid' = IF player_pid > 0 THEN 0 ELSE player_pid
  /\ playing' = FALSE
  /\ UNCHANGED <<forked, song, live>>

\* The last player is stopped; fork returns a new one, or fails.
StartPlayback(c) ==
  /\ playing' = TRUE
  /\ signalled' = Stopped
  /\ \/ /\ forked < MaxPlayers
        /\ forked' = forked + 1
        /\ player_pid' = forked'
        /\ song' = [song EXCEPT ![forked'] = c]
        /\ live' = live \cup {forked'}
     \/ player_pid' = -1 /\ UNCHANGED <<forked, song, live>>

NoPlayback == UNCHANGED <<playing, player_pid, forked, song, live, signalled>>

TogglePlay ==
  /\ window = "open"
  /\ \/ playing /\ StopPlayback
     \/ ~playing /\ pl_cnt > 0 /\ StartPlayback(cur_song)
  /\ UNCHANGED <<pl_cnt, cur_song, window>>

PlaysOn == FALSE
Restarts == playing

\* next_song and prev_song, with a step of 1 and of pl_cnt - 1.
SkipSong(step) ==
  /\ window = "open" /\ pl_cnt > 0
  /\ cur_song' = (cur_song + step) % pl_cnt
  /\ \/ Restarts /\ StartPlayback(cur_song')
     \/ ~Restarts /\ NoPlayback
  /\ UNCHANGED <<pl_cnt, window>>

\* With an empty list they divide by zero.
SkipNothing ==
  /\ window = "open" /\ pl_cnt = 0
  /\ window' = "crashed"
  /\ NoPlayback
  /\ UNCHANGED <<pl_cnt, cur_song>>

\* The chooser is modal: no other button works until it is answered.
AddSong ==
  /\ window = "open" /\ pl_cnt < MAX_SONGS
  /\ pl_cnt' = pl_cnt + 1
  /\ NoPlayback
  /\ UNCHANGED <<cur_song, window>>

OnDestroy ==
  /\ window = "open"
  /\ window' = "closed"
  /\ StopPlayback
  /\ UNCHANGED <<pl_cnt, cur_song>>

\* The signal arrives, the song is over, or execlp or paplay fails.
PlayerEnds(p) ==
  /\ p \in live
  /\ live' = live \ {p}
  /\ UNCHANGED <<pl_cnt, cur_song, playing, player_pid, window, forked, song,
                 signalled>>

PlayerNext ==
  \/ TogglePlay
  \/ SkipSong(1) \/ SkipSong(pl_cnt - 1) \/ SkipNothing
  \/ AddSong
  \/ OnDestroy
  \/ \E p \in Player : PlayerEnds(p)

PlayerSpec == PlayerInit /\ [][PlayerNext]_playerVars

-----------------------------------------------------------------------------
\* The players that were not told to stop.
Audible == live \ signalled

\* Only processes that the program forked are ever signalled: never pid -1,
\* every process of the user, which is what a failed fork leaves in
\* player_pid.  (musicplayer.c:16, 31)
SignalsOwnPlayers == signalled \subseteq 1 .. forked

\* At most one song is to be heard, that of the player that the next stop will
\* reach, and none when the button says Play or the program is gone.
\* (musicplayer.c:15-42)
OneVoice ==
  /\ Audible \subseteq {player_pid}
  /\ ~playing \/ window # "open" => Audible = {}

\* What is to be heard is the song on the label.  (musicplayer.c:45-55)
LabelledSong ==
  /\ \A p \in Audible : song[p] = cur_song
  /\ cur_song # 0 => cur_song < pl_cnt
=============================================================================
