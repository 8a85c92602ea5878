# Toji OS: specifications, model checking and proofs

Toji OS (`src/`) is an operating system in miniature, written in C with GTK. One
program, started without arguments, is the *kernel*: it keeps a table of
processes with RAM, disk and cores, runs a multi-level dispatcher in a thread,
and shows a desktop. Each click on the desktop forks the same executable with
`--app n`, a *program*, which attaches to the table in shared memory. This
directory models the parts of it that keep state, checks them with TLC, and
proves the most important results with TLAPS for every value of the constants.

Contents: 1 inventory, 2 modules and how they follow the code, 3 runs, bounds
and fairness, 4 proofs, 5 where code and documentation disagree, 6 what is
abstracted and what is not modelled, 7 plan, 8 how to run it.

## 1. Inventory

### Actors

| actor | is | touches |
|---|---|---|
| kernel, main thread | the GTK loop of `main.c` | the table (`create_process`), the ready queues (`add_to_queue`), `mode`, the segment at boot and at the end |
| dispatcher | a detached thread of the kernel (`scheduler_run`) | the ready queues, `state` of PCBs in the table |
| manager programs | Process Manager and Kernel Console, an OS process each | the table (`terminate_process`), `mode` (console) |
| other programs | fifteen, an OS process each | they read the table (System Monitor) or keep to themselves |
| threads of programs | a thread for each copy of File Operations and each search | files of the machine; the one view of Search |
| timers | GTK timeouts in Clock, Task Scheduler, Notepad+, Snake and the lists | the state of their own program, also from inside a modal dialog |
| helper | the child that `create_process` forks for the handshake | one read of a pipe |
| users | clicks, keys, closed windows, Ctrl-C | anything a widget is connected to |

What orders them is less than it looks. `sched_mutex` and `sched_cond` are shared
by the two threads of the kernel and do their work. `res_mutex`, `res_sem` and
the reader lock are static variables of `lib/sync.c`: every OS process has its
own, so that they exclude nobody from the table in shared memory.

### Components

**Process table and admission** (`kernel/process.c`, `kernel/memory.c`).
State: `procs[MAX_PROC]`, `proc_count`, `next_pid`, the three `avail_*`
counters, all in shared memory. Operations: `banker_check`, `create_process`
(check, pipe, claim a slot, fill it, subtract the demands, handshake, READY,
enqueue), `terminate_process` (search, give back, swap-remove). Hard: two
programs in it at once; the check made under a lock that is dropped before its
result is used; pointers to slots that outlive what is in the slot. Correct when:
no resource is given out twice or lost, nothing is overdrawn, a pid is never
reused, and creation and termination look like one step each.

**Scheduler and dispatcher** (`kernel/scheduler.c`). State: three circular
queues of PCB pointers, the condition variable, where the dispatcher is.
Operations: `add_to_queue`, `get_next_process`, one turn of `scheduler_run`.
Hard: sleeping and waking, a level that is served only when the higher ones are
empty, PCBs that move or die while they are queued or running. Correct when: no
wakeup is lost, each process is queued once, RUNNING is what runs, entries of a
level are served in turn.

**Shared segment, boot and shutdown** (`kernel/memory.c`, `kernel/boot.c`,
`main.c`). State: what `SHM_NAME` names, who is mapped where, how far the
contents are initialised. Operations: unlink, `shm_open`, `ftruncate`,
`mmap` and `memset`, the boot dialogs, the two ways out, a program's attach.
Hard: crashes and restarts while programs are still coming up, a second kernel
beside the first, failures that nobody looks at, a dispatcher that runs on while
its memory goes. Correct when: a kernel boots on a fresh segment, its programs
are on its table, and nobody wipes a table in use.

**Desktop, launching, mode switch** (`main.c`, `kernel/process.c`,
`apps/kernelconsole.c`). State: the main thread's place in a click, the pipe, the
helper, the programs forked, `mode` and the label that tells it. Operations: a
click, the handshake, the second fork, a program that comes up or ends, the two
mode buttons, kills. Hard: forks that fail, a `waitpid` for the wrong child, a
mode that is read in one process, changed in another and then written or acted
upon, a label set after the mode it tells. Correct when: no program runs without an
admission of its own, the handshake ends before the fork, kernel mode is entered by
the button, the button tells the mode that the desktop last stored, the desktop
comes back.

**The readers of the table** (`apps/sysmonitor.c`, `apps/procmanager.c`,
`apps/kernelconsole.c`). State: how far a walk is, what it has listed. Operations:
`update_monitor`, `refresh_list`, `refresh_procs`, one read at a time, beside
creations and terminations. Hard: the counter and the rows are read with no lock
that a writer takes, so that a list mixes the table of several moments. Correct
when: what a walk may miss, or show twice, is only what it crossed.

**Snake, Minesweeper, Music Player** (`apps/`). Each is one OS process that
shares nothing. Hard: keys between two ticks, a body that grows by an entry
never written, a recursive flood over regions of earlier clicks, players forked
and signalled but never waited for.

**Clock & Timer, Task Scheduler, Notepad+** (`apps/`). A timer each, and dialogs
that run a main loop of their own inside a handler. Hard: a tick that comes late
or not at all, a loop over the tasks that goes on minutes after it read the time,
a save that runs under a file chooser, a file that was truncated and not written.
Correct when: an alarm rings within a day unless its very second was missed, a check
announces all of its minute, a document that nobody edited is overwritten only by
what the window held when that document could not be read.

**File Operations, Search, File Explorer** (`apps/`). Copies and searches are
threads, of which nothing limits the number. Hard: two copies and the Delete
button on one file, a search that ends after a later one or never starts, two
threads that set one view at once, a path that is cut and extended in place. Correct
when: a copy that nobody crossed ends with its source, the view never goes back to a
search that was over before the last thread was started, the path is where the user
went.

**The rest** is listed in `PROJECT.json` with the reason it is not modelled:
Calculator, Settings, Calendar, Terminal, System Info, the IPC library (its queue
has no user) and the utilities; see section 6.

`PROJECT.json` also lists the hazards, each at its line, with the properties that
would catch it, or with why none does.

## 2. Modules

```
MiniOS <- Scheduler <- Process <- TojiOS <- MCTojiOS
        TojiOS!Promise == INSTANCE ResourceTable, TojiOS!Seen == INSTANCE Readers
                 TojiOS <- TojiOSProofs;  TojiOSProofs, Sums <- TableProofs
Desktop <- MCDesktop, DesktopProofs
Segment <- MCSegment, SegmentProofs
Snake, Minesweeper, MusicPlayer, Clock, TaskScheduler, Notepad,
FileOps, FileExplorer, Search, Readers <- Programs <- MCPrograms
Snake, Minesweeper <- GamesProofs         Readers <- ReadersProofs
Programs, GamesProofs, ReadersProofs, Sums <- ProgramsProofs
```

| module | models | its variables are |
|---|---|---|
| `MiniOS` | the shared data and the Banker's check | `procs`, `proc_count`, `next_pid`, `avail` |
| `Scheduler` | `scheduler.c` | `queue` (slots, as the code queues pointers), `disp` and `cur` (the dispatcher) |
| `Process` | `create_process`, `terminate_process` | `kpc`, `kapp`, `kslot`, `kres`, `kreg`: where the main thread is, and its locals; `mpc`, `mpid`, `mslot`, `mres`, `mreg`: the same for each manager |
| `TojiOS` | the running system | `boot`; histories `overlap`, `crossed`, `killed` |
| `ResourceTable` | abstract: what the table promises | `free`, `held`, `issued`, `broken` |
| `Desktop` | clicks, handshake, programs, mode | `pc`, `app`, `pid`, `pipe`, `helper`, `progs`, `listed`, `mode`; `button` (what the label tells), `todo` (what a console read the mode for and has not done yet); histories `toggled`, `strayed` |
| `Segment` | the life of `SHM_NAME` | `name`, `kernel`, `seg`, `mapped`, `contents`, `app`, `at`, `parent`; histories `died`, `beside` |
| `Snake` | `game_tick`, `on_key`, `place_food` | `snake`, `food`, `dir`, `running`, `score`, `hung`; history `turns` |
| `Minesweeper` | `init_game`, `on_click`, `reveal` | `mines`, `revealed`, `game_over`, `calls` (the recursion's pending calls); history `clicks` |
| `MusicPlayer` | the playlist and the players | `pl_cnt`, `cur_song`, `playing`, `player_pid`, `window`; the players' `song`, `live`, `signalled`, `forked` |
| `Clock` | `update_clocks`, `set_alarm` | `now`, `ticked`, `alarm`, `ringing`; history `waited` |
| `TaskScheduler` | `check_tasks` with its dialogs, `add_task` | `minute`, `tasks`, `tm`, `at` (the task whose dialog is open); history `seen` |
| `Notepad` | typing, opening, saving, autosave | `file`, `file_path`, `text`, `chooser`, `saving`; histories `touched`, `unread`, `unwritten` |
| `FileOps` | `copy_thread`, `do_copy`, `do_delete` | `dirent` (path to inode), `data` (blocks), `copy` (each thread's place, files and buffer); history `disturbed` |
| `FileExplorer` | `load_dir`, `on_row_activated` | `cur_path`, `rows`, `listed`; history `inside` |
| `Search` | `do_search`, `search_thread` | `entry`, `pattern`; `searching`, `setting`, `searched` (where each thread is), `shown`, `searchDied`; histories `recent`, `garbled` |
| `Readers` | the three walks over the table, beside its writers | `pids`, `count`, `issued`, `change` (a writer between two stores), `walk`, `list`; histories `before`, `crossed` |
| `Programs` | `run_app_mode`: one program per process | `launched` |

**The grain of a step.** In `Process` a read-modify-write of a shared counter is
a load and a store, because the other programs are not excluded. That is what
makes lost updates reachable: the compiler may emit one instruction or three,
and even one is not atomic without a lock prefix. `ClaimSlot`, `StoreCount`,
`FillSlot`, then `LoadAvail`/`StoreAvail` once per resource, `MarkReady` and
`Enqueue` follow `process.c:29-90` in order; `ScanSlot`, `LoadFreed`/`StoreFreed`,
`LoadCount`, `DropCount`, `MoveLast` follow `process.c:95-114`. In `Scheduler` a
critical section of `sched_mutex` is one step unless it looks at a PCB more than
once, which the mutex does not protect: `EndQuantum` sees RUNNING, `Preempt` writes
READY and `Requeue` reads the priority and puts the pointer back, with
`add_to_queue` shut out throughout (`disp` is `"requeue"` or `"putback"`).

In `Desktop` a toggle of the mode is a read and a write, in the kernel and in each
console, and so are the console's check and its kill. The desktop's label is one step
more (`SetLabel`): `main.c:89` and `93` set the text of the branch taken, and a
console may have stored the mode since. In `Search` a thread reads, enters
`gtk_text_buffer_set_text` and leaves it, each a step. In `Readers` a creation
counts before it fills the slot and a removal counts before it moves the last row,
as in `process.c:42-43` and `109-110`, and a walk reads `proc_count` again before
each row. In `FileOps` each thread opens, reads and writes in steps of its own, and
an open file keeps its inode when the name is removed or used again.

**History variables** change nothing that the code does. `overlap` is TRUE once two
programs were inside their `res_mutex` sections together, `crossed` once two managers
were, `killed` once a PCB was removed: properties that hold only before that are
stated with them, so that they say exactly how far the code can be trusted. `toggled`,
`strayed`, `turns`, `clicks`, `died`, `beside`, `waited`, `seen`, `touched`, `unread`,
`unwritten`, `disturbed`, `inside`, `recent`, `garbled`, and in `Readers` `before` and
`crossed`, play the same part in their modules. None of them is read by a guard of the
code's actions, except `inside`, which bounds the depth of the path.

**The abstract table.** `ResourceTable` admits a process in one step, with a
fresh pid and only if its demands are free, and releases one in one step. The
refinement mapping in `TojiOS` counts a creation from its last store (`Charged`
undoes the subtractions made so far), and a termination from the move of the
last PCB (`Returned` undoes the additions). The promise ends at the first
overlap (`broken <- overlap`). `Desktop` takes the table in single steps, as this
module promises it, and so is right about the table only that far.

**The table as its readers have it.** `Readers` has writers of its own, which count
and then store one row. `WrittenAsRead` in `TojiOS` says that they are the kernel
and the managers: `SeenChange` is the store that a creation between `StoreCount` and
`FillSlot`, or a termination between `DropCount` and `MoveLast`, has still to make,
and each of those four steps is one of `CountOneMore`, `CountOneLess` and
`StoreRow`, until the first overlap.

Definitions named like a wrong version of another (`PushUnbounded`,
`NotMoved`, `KeptRunning`, ...) are what a plausible bug would make of
it. No action uses them: they stand in for the definition after them when a
property's sensitivity is tried, see `mutants` in `PROJECT.json`.

## 3. Runs

### Properties that hold

**`table_and_queues`** (`MCTojiOS.cfg`; 2 slots, 1 resource of 3 units, 3 pids, one
manager, one auto-started process, apps of all three levels; 3,017,511 states).
- `Accounting`: with nobody inside and no overlap ever, what is available and
  what the listed processes hold add up to the machine.
- `NoOverdraft`: until two managers are inside `terminate_process` together, no
  counter is negative, although `banker_check` drops its lock before the subtraction,
  and even after updates lost between the kernel and a manager: one thread creates,
  and one manager at a time can only add in between. This run has one manager and
  so never comes to the end of the proviso; `BankerCovers` proves the property for
  any number, and section 5 has what two of them do.
- `WrittenAsRead`: the stores into the table are those of the writers of `Readers`,
  until the first overlap.
- `NoLostWakeup`: the dispatcher never sleeps beside a queue with an entry.
- `ScheduledOnce`, `RunningIsCurrent`: until the first kill a process has one
  pointer, on its own level or with the dispatcher, and RUNNING means dispatched.
- `ShutdownComesThrough`: until the first kill, and with a process of a round-robin
  level in the table, the dispatcher is never asleep on the condition variable that
  the shutdown button destroys. Without one it may be, and then the button hangs.

**`two_managers`** (`MCManagers.cfg`; 1 slot, 2 resources, 3 pids, 2 managers,
symmetric; 4,770,870 states). Two managers kill the same process, each
other's and their own. `proc_count` goes negative, and the accesses to
`plist[-1]` this leads to, in the managers and in the kernel, are reached as
`"crashed"`. `AtomicTable` holds with its proviso: the steps implement
`ResourceTable` until the first overlap.

**`levels_served`** (`MCServed.cfg`; 2 slots, 2 pids, one manager, fairness;
54,269 states). `HighLevelServed`: every entry of the high level is dispatched,
kills or not. `NormalLevelServed`: so is every entry of the normal level if the
high one stays empty from some time on.

**`launches_and_mode`** (`MCDesktop.cfg`; 2 slots, 3 pids, one system process,
fairness; 872,662 states). `ProgramsAdmitted`: each program has a pid that was issued,
and no two the same. `GrantBeforeFork`: a program is forked with the handshake over.
`KernelModeByButton`: kernel mode, and every console, come after the button.
`ButtonTellsMode`: but for the moment between a toggle's store and its label, the
label tells the mode unless a console stored it after the desktop last did; the next
toggle of the desktop makes it right again, whatever was read before.
`DesktopReturns`: the main thread comes back, except from the `waitpid(-1)` of a
failed fork while some program runs. TLC also finds no deadlock.

**`segment_lifecycle`** (`MCSegment.cfg`; 2 kernels, 2 programs, symmetric; 192,000
states). `FreshSegment`: a kernel that boots alone opens a segment that nobody has
open. `AppsShareTheTable`: a program whose `shm_open` succeeds or finds no name, while
its kernel is up and none ever ran beside it, gets its table. `ConfiguredStays`: the
table of a kernel that was never beside another is never wiped. `NamedByItsKernel`: a
name that is left belongs to a kernel that runs or that died.

**`private_programs`** (`MCPrograms.cfg`; 1,334,743 states). One process runs one
program, so that the states of the ten add up instead of multiplying.
- Snake, 3 by 4 cells, up to the snake that fills the board:
  `FoodOffSnake`, `BodyOnBoard`, `BodyInOnePiece`; and `NoTurningBack`, which needs
  its proviso of one turn between two ticks.
- Minesweeper, 2 by 5 cells, every placement of 2 mines: `FloodComplete`,
  `FloodJustified`, `MinesOnlyByClick`, `CallsBounded`.
- Music Player, 3 songs, 4 players: `SignalsOwnPlayers` (never pid -1),
  `OneVoice`, `LabelledSong`.
- Clock, days of 3 minutes of 3 seconds: `AlarmWithinADay`. Ticks may be late
  and seconds skipped; only when the alarm's own second is skipped does the day start
  anew, because `update_clocks` compares hour, minute and second, so that one tick
  missed there costs the alarm a whole day.
- Task Scheduler, 3 tasks, days of 3 minutes: `DueTasksAnnounced`, whatever time
  the dialogs take.
- Notepad+, 2 documents, each text or binary: `UntouchedKept`. A document
  that nobody edited can still be overwritten: `open_file` sets the path before it
  reads, and the timer then saves into a document that could not be read. The property
  says with what, namely what the window held at that opening, and that otherwise
  it is its own text, or empty after a save that was cut short.
- File Operations, 3 paths, 2 copies, 4 inodes, files of one and two blocks:
  `CopyFaithful`. A copy onto itself, and two copies to one place, are the
  `disturbed` ones.
- File Explorer, 2 names, 3 levels: `PathFollowsUser`.
- Search, 2 patterns, 3 threads: `ShownIsRecent`. Of the searches whose threads were
  started, the view may in the end hold one that is not the last, but none that was
  over before the last was started. A search whose thread `pthread_create` refuses is
  silently not run and the view stays as it was; a `popen` that fails crashes the
  program; two threads inside `gtk_text_buffer_set_text` together may do either, and
  the property promises nothing then. All of these are steps of the model.
- The readers, 3 rows, 4 pids: `ListingFaithful`.

`table_and_queues`, `launches_and_mode` and `private_programs` also check the type
invariants of their modules, which hold the bounds of the code's arrays.

### Bounds, and why they are enough

- Slots: two let a PCB move when another is removed, a queue fill up and two
  entries wait in turn. One slot is enough for the counter to go negative.
- Pids (`MaxPid`): three creations let a slot be used again while a stale pointer
  to it is queued. Denials cost no pid, so these instances also contain every run
  in which the auto-started process was denied.
- Resources: with three units any two of the apps fit and three do not. Several
  kinds matter for the order of the updates, which `two_managers` has.
- Kernels: the properties of `Segment` relate a kernel to one other that left
  something, or to one beside it.
- Boards: 3 by 4 is the smallest on which the snake can go round itself and fill
  the board; 2 by 5 has floods that meet, and mines between them.
- Players: four forks are a start, a skip, a pause and a start again.
- Clock and tasks: three seconds to a minute tell the second 0, on which the alarm
  rings, from those just after and just before; three minutes to a day tell the
  minute of a check from the next one and from the one that a skip leads to. Three
  tasks are one before, one at and one behind an open dialog.
- Documents: two are the one that is open and the one that is chosen.
- Copies: two threads and three paths are every way to share a source, a
  destination, or one's source with the other's destination; four inodes are the two
  at first and one created for each copy.
- Path: three levels are a directory with a parent and a child, and the root.
- Searches: three are one that is over, one that is slow, one asked last.
- Rows: three let a removal move a row past the walk, and leave one behind it.

The theorems of section 4 do not depend on these bounds.

`CHECK_DEADLOCK FALSE` is set where the thing really ends: a game that is over, a
player that was closed, kernels that are gone.

### Fairness

`Spec` alone for safety. `FairSpec` of `TojiOS` adds weak fairness of the kernel's
own steps in a creation, of the dispatcher unless it is asleep, and of each
manager in a termination: Linux runs a thread that can run, and none of them waits
for a lock that another actor holds for ever. `FairSpec` of `Desktop` does the same
for the main thread, the helper and each forked program coming up. Nothing is
assumed of users, of windows being closed, or of spurious wakeups, and a dispatcher
asleep is woken by a signal or not at all.

## 4. Proofs

TLAPS checks these for every value of the constants. The runs above are where the
invariants were tried first.

| theorem | says | argument |
|---|---|---|
| `TojiOSProofs!TypeCorrect` | `[]TypeOK` | `TypeInv`: `TypeOK` and `SlotsFound`. `TypeOK` alone is not inductive, as the stores of a termination use the index and the count it read before |
| `TojiOSProofs!NeverSleepsBesideWork` | `[]NoLostWakeup` | inductive beside `TypeInv`: going to sleep and finding the queues empty is one step, `Enqueue` wakes, and nothing else fills a queue while the dispatcher sleeps |
| `TojiOSProofs!BankerCovers` | `[]NoOverdraft`, for any number of managers, until two are inside together | `CoveredRule`: until then nothing is negative (`NoneNegative`) and, from the check to the last store, what is available, and what a manager or the kernel holds in a register, covers the demands still to be taken. Stale registers are included, so it holds after lost updates too |
| `TojiOSProofs!QueuedOnce` | `[]ScheduledOnce` | `OnceInv`, as long as nothing was killed: the table fills in order, a slot is on one queue in one place, at its own level, or with the dispatcher, and one process runs. That a queue never passes a process on to another level is `RoomForOneMore`: a queue without repetitions that misses a slot has room for it |
| `TojiOSProofs!RunningIsDispatched` | `[]RunningIsCurrent` | the same `OnceInv` |
| `TojiOSProofs!ShutdownIsNotHeldUp` | `[]ShutdownComesThrough` | a process of a round-robin level has its pointer on a queue or with the dispatcher (`QueuedOnce`), and the dispatcher does not sleep beside a queue that is not empty (`NeverSleepsBesideWork`) |
| `TableProofs!TableRefines` | `Spec => AtomicTable` | `Sound`, as long as nothing overlapped: at most one actor is inside, its registers hold what the table holds, pids in the table differ and are below `next_pid`. Each step maps to an admission, a release or a stutter |
| `TableProofs!BooksBalance` | `[]Accounting` | `Books`: what the abstract table has free and what its processes hold add up to the machine. An admission moves one amount from the one to the other, a release back (`SumOfOneMore`), and at rest `Held` is the rows of the table, one each, as their pids differ (`SumRenamed`) |
| `TableProofs!TableIsAsRead` | `Spec => WrittenAsRead` | `Sound` again: whoever is inside is alone, so that there is one store to come, and its registers say which. `PidLeft` bounds the pids |
| `DesktopProofs!EveryProgramAdmitted` | `[]ProgramsAdmitted` | `PidInv`: the pid about to be returned is one that no program has yet |
| `DesktopProofs!ButtonGuardsKernelMode` | `[]KernelModeByButton` | `ModeInv`, which adds the console that was clicked and is not forked yet, and the mode that a toggle is about to store |
| `DesktopProofs!ButtonIsRight` | `[]ButtonTellsMode` | `ModeInv`: while no console wrote the mode after it, the mode is what the desktop last stored, which between its store and its label is the branch it took and otherwise the label |
| `DesktopProofs!HandshakeFirst` | `GrantBeforeFork` | `HandshakeInv`: what the pipe and the helper are at each `pc` |
| `DesktopProofs!DesktopTypeCorrect` | `[]TypeOK` | `TableTypes`: the pids listed were issued, so that they are finitely many and a new one is one more, and no more than slots |
| `SegmentProofs!BootsOnFresh`, `ProgramsShareTheTable`, `NeverWiped`, `NothingElseLeft` | the four properties of `Segment`, for any number of kernels and programs | `SegInv`: kernels that run together are all in `beside`; a kernel that has not started owns nothing; the name is off while one kernel is between unlink and `shm_open`; a kernel never beside another is on the segment it created, and the name still leads there |
| `GamesProofs!SnakeTypeCorrect`, `FoodStaysOff`, `BodyStaysOnBoard` | on every board | each inductive over the one before |
| `GamesProofs!OneTurnIsSafe` | `[]NoTurningBack` | `NeckBehind`: with no key since the tick the neck is behind the head, and one turn is never to where the direction came from |
| `GamesProofs!BodyHoldsTogether` | `[]BodyInOnePiece` | inductive by itself: a tick shifts the chain, and the new head is beside the old one |
| `GamesProofs!FloodsComplete` | `[]FloodComplete` | `FloodInv`: a neighbour of an empty cell that shows is showing or still to be called |
| `GamesProofs!FloodsAreSafe` | `[]MinesOnlyByClick` | `MinesInv`: a pending call on a mine is the click itself |
| `GamesProofs!FloodsStayWithin` | `[]FloodJustified` | `ReasonInv`: a pending call that will reveal its cell has a reason already |
| `GamesProofs!FloodsAreBounded` | `[]CallsBounded` | `CallsInv`: each cell pays once for the nine calls that replace its own |
| `ProgramsProofs!AlarmsRing` | `[]AlarmWithinADay` | `ClockInv`: the seconds waited, since the setting or the last miss, and those still to go to the alarm's second are at most a day together |
| `ProgramsProofs!TasksAnnounced` | `[]DueTasksAnnounced` | `TasksInv`: up to the task whose dialog is open, nothing of the loop's minute is active |
| `ProgramsProofs!OpeningKeeps` | `[]UntouchedKept` | `NotepadInv`: a save in progress is to the window's path, and unless that document was edited, the text is one that this document may hold: its own, or what the window held when it could not be read |
| `ProgramsProofs!SearchIsCurrent` | `[]ShownIsRecent` | `SearchInv`: what each running thread was given is recent |
| `ProgramsProofs!PathIsRight` | `[]PathFollowsUser` | `Resolved` goes one name further with each name of a path; a path that was cut resolves to the parent |
| `ProgramsProofs!CopiesAreFaithful` | `CopyFaithful` | `FilesInv` with `SoFar`: a thread that is not disturbed has two different files, and in its destination just the blocks of its source up to where it is. Whoever writes disturbs the others that use the file |
| `ProgramsProofs!ListingsAreFaithful` | `ListingFaithful` | `ReadersProofs`: `TableInv`, which pids the table holds while a writer is between two stores, and `WalkInv`, what a walk has listed of them by what it crossed |
| `ProgramsProofs!SignalsReachPlayers`, `OneIsHeard`, `SongIsLabelled` | the three properties of the Music Player | `PlayerInv`: the three hold together, not one by one, with a `player_pid` that was forked and a playlist that is not empty while something plays |

| `ProgramsProofs!ProgramsTypeCorrect` | `[]TypeOK`, of all ten programs | the invariants above, which hold most of the types; `ClockTypes`, `FilesTypes` and `CrossedOK` hold the others |

A program's steps are lifted to those of `Programs` by `EachStandsAlone`: the
variables of the nine others stand still.

They rest on the assumptions named in the modules, which TLC evaluates for each
instance: there is at least one slot and one kind of resource, amounts are
naturals, apps are rows of the registry, auto-started processes are no managers,
`NoSeg` is no kernel, a Snake board has four columns (the snake starts three long)
and there are no more mines than cells; a day has a minute and a minute a second;
the empty path is no document; inodes are numbers from 1 and there is a path; there
is a pattern to search for.

**Induction over data.** The library's induction theorems take an operator as a
parameter, which no installed prover can instantiate. `Sums` gets by without: it
takes the least counterexample in a well-founded order (`WFMin`), and states
induction for a set instead of a predicate (`Induct`, `SetInduct`). From these it
proves that the sums of the community module `Folds` are well defined, do not
depend on the order in which they are taken, and grow by one term with the set.
`Accounting` rests on them, and `PathFollowsUser` on the recursive function that
`Resolved` is (its values, too, have to be shown to exist).

**Only model-checked** is liveness: `HighLevelServed`, `NormalLevelServed` and
`DesktopReturns`. Liveness under fairness is out of the prover's reach. Every
invariant and action property of the runs that pass is proved.

## 5. Where the code and its documentation disagree

Each is a run that TLC ends with a counterexample.

| run | the text | what happens |
|---|---|---|
| `low_level_starves` | README.md:38 "preventing starvation" | one normal process goes back to its queue after each quantum, and the low level is never looked at |
| `table_shared_unsafely` | README.md:41 "shared safely across all processes" | a creation in the kernel and a termination in a manager, each under its own `res_mutex`: an update is lost, and the counters never agree with the table again |
| `dead_pcb_requeued` | scheduler.c:81 "re-enqueue if still alive" | a removed PCB keeps RUNNING in its slot, and the slot is queued again |
| `moved_pcb_forgotten` | scheduler.c:85 "Round Robin levels re-enter the queue at the tail" | the swap-remove moves a PCB to a slot that no queue points to, and the process is never dispatched again |
| `reaps_another_child` | process.c:81 "reap immediate child" | after a fork that failed, `waitpid(-1)` takes another child |
| `console_in_user_mode` | kernelconsole.c:5 "Only accessible when shared_data->mode == KERNEL_MODE" | the mode goes back to user between the click and the console's start, which sets kernel mode itself |

**Two managers can overdraw a resource**, which also contradicts README.md:39,
"resource safety check (RAM, disk, CPU cores) before a process is ever admitted", with
README.md:41 and 42. With two slots, three units and processes of one and two: a
Process Manager in `terminate_process` reads that 0 are available; the Kernel Console
ends the other process and makes it 2; the kernel's check for 2 passes; the Process
Manager stores 0 + 1; the kernel subtracts 2 and leaves -1. TLC finds it in `TojiOS`
within seconds when `NoOverdraft` is stated without `~crossed` and `MCShared.cfg` is
given two managers and these demands. It has the same cause as
`table_shared_unsafely`, of which it is the worse outcome, and no run of its own.

A console also force-kills in user mode, if the button is pressed between its check and
its kill (kernelconsole.c:55, "Must be in Kernel Mode to force-kill"): the divergence
of `console_in_user_mode` once more.

Reached by the models, with nothing written to contradict: two managers can take
`proc_count` below zero; `next` with an empty playlist divides by zero; on a full
board `place_food` never returns; a shutdown hangs in `pthread_cond_destroy` if the
dispatcher is asleep; a kernel that cannot map goes on without a table; a kernel
started beside another may take over and wipe its table; a search whose thread could
not be started is dropped without a word; Notepad+ writes the text of the window over
a document that it could not open; the alarm of the Clock is compared with UTC where
`localtime` and `gmtime` share one buffer, as they do in glibc (clock.c:11, 15, 24);
the mode button's label may be of a mode that a console has changed since; a PCB stays
listed after its program ended, and a program goes on after its PCB was removed.

## 6. Abstractions, and what is not modelled

- A PCB is read, written and copied as a whole; `name`, `created_at` and `time_slice`
  are dropped. A requeue is three steps, in the last of which the priority is read
  once (the code compares it twice, with 2 and with 3).
- A manager may ask to kill any pid that was ever issued (`KillSelected`): its list
  may be stale. For `force_kill`, which first searches the table, that is a superset
  in `Process`; `Desktop` has the search.
- What is at `plist[-1]` or beyond is not modelled: such an access is `"crashed"`, after
  the store of `proc_count` where the code makes one.
- A quantum lasts as long as the dispatcher takes to do `EndQuantum`.
- `Desktop` uses the table in single steps, which the code's table does only until two
  locked sections overlap (`TableRefines`), and leaves the resources out, of which a
  lack is a denial.
- `Segment` names a segment after its creator, and leaves open whether the
  dispatcher is asleep at shutdown, which `TojiOS` answers. The System V segment and
  queue are left out.
- `Readers` reduces the table to its pids, reads the pid of a row at once (a row whose
  fields are of two processes is not told from one that is not), and has one writer
  at a time: what two writers do to the table is the business of `Process`, and that
  they do it as `Readers` says up to the first overlap is `TableIsAsRead`.
- `FileOps` never meets a full disk, a link, or a read that fails half-way. A block is
  a buffer of the copy loop. The progress bar is left out.
- `Notepad` knows a text by where it comes from. A document that cannot be opened for
  writing stays as it is, and a write may fail after the truncation.
- `FileExplorer` keeps within the 512 bytes of `cur_path` (`MaxDepth`), and a name is
  found in every directory or the directory does not open.
- `Search` abstracts what `find` prints to the pattern it was given, and runs a thread
  until `gtk_text_buffer_set_text` returns. A view that two threads set at once holds
  anything, and the effect of a thread on GTK's own state is the view or a crash.
- `Clock` keeps one time of day, the one that the alarm is compared with, and `DAY`
  and `MINUTE` are constants of it.
- `MAX_SNAKE` is ROWS * COLS in the code and a constant of its own in the proofs.
  The boards' constants are named `SNAKE_ROWS`, `MINES_ROWS` and so on, because both
  sources call theirs `ROWS` and `COLS`.
- The players' pids are never reused, as the Music Player never waits for them.
- Drawing, labels, dialogs' texts and log lines are left out everywhere, except the
  label of the mode button.

Bounds that the code does not have, each a constant or a guard: `MaxPid` (creations),
`MAX_PIDS` in `Readers`, `MaxPlayers` (forks of the Music Player), `Copier` and
`Searcher` (threads), `Inode` (files created), `MaxDepth` (the path).

Not modelled:
- the IPC library: a segment and a queue that `main` creates and removes and nobody
  sends to, receives from or attaches;
- the Calculator: an evaluator over doubles whose result goes back through `%.6g`,
  where what could be wrong is decimal rounding;
- Settings: one guarded assignment to variables of its own process that nothing
  reads afterwards;
- Calendar: one bounded append;
- Terminal, System Info, the utilities: input and output without a state.

## 7. Plan

Order: what everybody depends on first. Done: the table, the scheduler, the system
and the table's refinement; desktop and segment; the readers of the table; the nine
programs that keep a state of their own and can be related to something.

Left, extending the model:
1. An abstract scheduler (a bag per level, served in turn) that `Scheduler` implements
   until the first kill, with a bound on how often an entry is passed over.
2. PCBs written field by field, so that a row of a list can mix two processes.
3. `Segment` composed with `Scheduler`, so that the dispatcher follows queues of its
   own into memory that is gone.
4. A disk that fills up in `FileOps`, with the copy that says nothing of it.

Left, proving: the refinement of 1, and what 2 and 3 will state.

## 8. Running it

```
tlc -config MCTojiOS.cfg MCTojiOS        # and so on, one .cfg per run
tlapm TojiOSProofs.tla                   # and the other *Proofs modules
```

The longest runs are `table_and_queues` and `two_managers`, two to three minutes
each with two workers; all proofs together take a few minutes.
