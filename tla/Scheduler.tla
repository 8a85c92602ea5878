----------------------------- MODULE Scheduler ------------------------------
(***************************************************************************)
(* The multi-level queue scheduler (kernel/scheduler.c).                   *)
(*                                                                         *)
(* A ready queue holds pointers into the PCB table, that is slots, and not *)
(* processes: whatever the table later holds at a slot is what the         *)
(* dispatcher runs.  The queues are touched only under sched_mutex, by two *)
(* threads of the kernel process, so a critical section is one step unless *)
(* it also looks twice at a PCB: those are in the shared segment, where    *)
(* sched_mutex protects nothing.                                           *)
(***************************************************************************)
EXTENDS MiniOS

VARIABLES
  queue,   \* queue[1] is q_high, queue[2] q_med, queue[3] q_low
  disp,    \* where the dispatcher thread is
  cur      \* the slot the dispatcher's p points to

schedVars == <<queue, disp, cur>>

Level == 1 .. 3

\* "get": about to take sched_mutex in get_next_process; "wait": asleep on
\* sched_cond; "start": holds p, has not set it RUNNING; "run": sleeps for p;
\* "requeue": holds sched_mutex and has seen p RUNNING; "putback": still holds
\* it and has made p READY.
DispState == {"get", "wait", "start", "run", "requeue", "putback"}

SchedInit ==
  /\ queue = [l \in Level |-> << >>]
  /\ disp = "get"
  /\ cur = 0

SchedTypeOK ==
  /\ queue \in [Level -> Seq(Slots)]
  /\ \A l \in Level : Len(queue[l]) <= MAX_PROC
  /\ disp \in DispState
  /\ cur \in Slots

PushUnbounded(l, i) == [queue EXCEPT ![l] = Append(@, i)]
PushFront(l, i) == [queue EXCEPT ![l] = IF Len(@) < MAX_PROC THEN <<i>> \o @ ELSE @]

\* A queue that is full drops the pointer.
Push(l, i) ==
  [queue EXCEPT ![l] = IF Len(@) < MAX_PROC THEN Append(@, i) ELSE @]

\* Whatever finds its own level full goes to the low one.
QueueLevel(prio) ==
  IF prio \in {1, 2} /\ Len(queue[prio]) < MAX_PROC THEN prio ELSE 3

NotSignalled == disp
Signalled == IF disp = "wait" THEN "get" ELSE disp

\* add_to_queue: take sched_mutex, enqueue, signal sched_cond.
AddToQueue(i) ==
  /\ disp \notin {"requeue", "putback"}
  /\ queue' = Push(QueueLevel(procs[i].priority), i)
  /\ disp' = Signalled
  /\ UNCHANGED cur

-----------------------------------------------------------------------------
(* The dispatcher thread.                                                  *)

\* get_next_process with every queue empty: pthread_cond_wait.
WaitForWork ==
  /\ disp = "get"
  /\ \A l \in Level : queue[l] = << >>
  /\ disp' = "wait"
  /\ UNCHANGED <<queue, cur, sharedVars>>

\* pthread_cond_wait may return unsignalled; the loop then looks again.
SpuriousWakeup ==
  /\ disp = "wait"
  /\ disp' = "get"
  /\ UNCHANGED <<queue, cur, sharedVars>>

LevelsBelow(l) == (l + 1) .. 3
LevelsAbove(l) == 1 .. (l - 1)

\* get_next_process: the head of the highest level that is not empty.
GetNextProcess ==
  /\ disp = "get"
  /\ \E l \in Level :
       /\ queue[l] # << >>
       /\ \A k \in LevelsAbove(l) : queue[k] = << >>
       /\ cur' = Head(queue[l])
       /\ queue' = [queue EXCEPT ![l] = Tail(@)]
  /\ disp' = "start"
  /\ UNCHANGED sharedVars

StartQuantum ==
  /\ disp = "start"
  /\ procs' = [procs EXCEPT ![cur].state = "RUNNING"]
  /\ disp' = "run"
  /\ UNCHANGED <<queue, cur, proc_count, next_pid, avail>>

\* The end of the sleep: is the PCB still RUNNING?
EndQuantum ==
  /\ disp = "run"
  /\ \/ procs[cur].state = "RUNNING" /\ disp' = "requeue" /\ UNCHANGED cur
     \/ procs[cur].state # "RUNNING" /\ disp' = "get" /\ cur' = 0
  /\ UNCHANGED <<queue, sharedVars>>

KeptRunning == "RUNNING"
Preempted == "READY"

Preempt ==
  /\ disp = "requeue"
  /\ procs' = [procs EXCEPT ![cur].state = Preempted]
  /\ disp' = "putback"
  /\ UNCHANGED <<queue, cur, proc_count, next_pid, avail>>

RequeuedNever(i) == queue
Requeued(i) ==
  IF procs[i].priority \in {2, 3} THEN Push(procs[i].priority, i) ELSE queue

\* Back to the tail of its level, unless that is the high one.  The level is
\* that of whatever PCB the slot holds by now.
Requeue ==
  /\ disp = "putback"
  /\ queue' = Requeued(cur)
  /\ disp' = "get"
  /\ cur' = 0
  /\ UNCHANGED sharedVars

Dispatcher ==
  \/ WaitForWork
  \/ SpuriousWakeup
  \/ GetNextProcess
  \/ StartQuantum
  \/ EndQuantum
  \/ Preempt
  \/ Requeue
=============================================================================
