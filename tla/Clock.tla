------------------------------- MODULE Clock --------------------------------
(***************************************************************************)
(* The Clock (apps/clock.c): a timer calls update_clocks about once a      *)
(* second, never while a call of it is still going on, and any time later  *)
(* than it should.  The alarm's dialog is modal and runs inside the call.  *)
(*                                                                         *)
(* The time of day is the one that the alarm is compared with.  Where      *)
(* localtime and gmtime return the same static buffer, as in glibc, that   *)
(* is UTC, gmtime having been called in between.                           *)
(***************************************************************************)
EXTENDS Integers

CONSTANTS
  MINUTE,   \* seconds of a minute
  DAY       \* minutes of a day

ASSUME ClockAssumption == MINUTE \in Nat \ {0} /\ DAY \in Nat \ {0}

VARIABLES
  now,      \* second of the day
  ticked,   \* update_clocks read the time in this second
  alarm,    \* alarm_h and alarm_m as a minute of the day; -1 is no alarm
  ringing,  \* the dialog is open
  waited    \* history: seconds since an alarm was set, or since the last time
            \* that its own second went by without a tick

clockVars == <<now, ticked, alarm, ringing, waited>>

ClockTypeOK ==
  /\ now \in 0 .. DAY * MINUTE - 1
  /\ ticked \in BOOLEAN
  /\ alarm \in -1 .. DAY - 1
  /\ ringing \in BOOLEAN
  /\ waited \in Nat

ClockInit ==
  /\ now \in 0 .. DAY * MINUTE - 1
  /\ ticked = FALSE
  /\ alarm = -1
  /\ ringing = FALSE
  /\ waited = 0

-----------------------------------------------------------------------------
\* The second that ends is the alarm's, and update_clocks was not called in it.
Missed == now = alarm * MINUTE /\ ~ticked

Second ==
  /\ now' = (now + 1) % (DAY * MINUTE)
  /\ ticked' = FALSE
  /\ waited' = IF alarm = -1 \/ ringing THEN 0
               ELSE IF Missed THEN 1 ELSE waited + 1
  /\ UNCHANGED <<alarm, ringing>>

IsDueAMinuteLate == now = (alarm + 1) * MINUTE
IsDue == now = alarm * MINUTE

UpdateClocks ==
  /\ ~ringing
  /\ ticked' = TRUE
  /\ ringing' = IsDue
  /\ UNCHANGED <<now, alarm, waited>>

CloseAlarm ==
  /\ ringing
  /\ ringing' = FALSE
  /\ alarm' = -1
  /\ waited' = 0
  /\ UNCHANGED <<now, ticked>>

SetAlarm(m) ==
  /\ ~ringing
  /\ alarm' = m
  /\ waited' = 0
  /\ UNCHANGED <<now, ticked, ringing>>

ClockNext ==
  \/ Second \/ UpdateClocks \/ CloseAlarm
  \/ \E m \in 0 .. DAY - 1 : SetAlarm(m)

-----------------------------------------------------------------------------
\* An alarm rings within a day of the moment it was set, at whatever second of
\* the day that was, however the timer drifts, unless the drift jumps over the
\* alarm's own second; and then within a day of that second.
\* (clock.c:9-31, 34-39)
AlarmWithinADay == waited <= DAY * MINUTE
=============================================================================
