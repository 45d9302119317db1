------------------------------ MODULE JobTimer ------------------------------
(***************************************************************************)
(* The timer of one job: how nextRunAtMs moves as the daemon polls.        *)
(*                                                                         *)
(* A job is created (JobStore.add), the clock advances, and a tick that    *)
(* finds the job due recomputes nextRunAtMs before the session starts      *)
(* (SchedulerService.tick); enabling a job recomputes it as well           *)
(* (JobStore.setEnabled).  The tick may come at any instant at or after    *)
(* the due one: the poll interval, a full scheduler or a sleeping laptop   *)
(* delay it.                                                               *)
(***************************************************************************)
EXTENDS Schedule

CONSTANTS
  TimerSchedules,  \* the schedules a job of the model may be created with
  MaxClock         \* bound of the clock

ASSUME JobTimerAssumption ==
  /\ TimerSchedules \subseteq Schedule
  /\ MaxClock \in Nat

VARIABLES
  schedule,  \* the job's schedule
  created,   \* createdAtMs
  clock,     \* Date.now()
  next,      \* state.nextRunAtMs
  at         \* the instant next was computed at, for the properties only

timerVars == <<schedule, created, clock, next, at>>

Create(s, t) ==
  /\ schedule = s
  /\ created = t
  /\ clock = t
  /\ next = ComputeNextRunAtMs(s, t)
  /\ at = t

TimerInit == \E s \in TimerSchedules, t \in 0 .. SecondMs : Create(s, t)

ClockTicks ==
  /\ clock < MaxClock
  /\ clock' = clock + 1
  /\ UNCHANGED <<schedule, created, next, at>>

IsDue == next # NoTime /\ next <= clock

(* Faulty variant: the next run is computed from the creation time. *)
RecomputeFromCreation ==
  /\ next' = ComputeNextRunAtMs(schedule, created)
  /\ at' = clock
  /\ UNCHANGED <<schedule, created, clock>>

Recompute ==
  /\ next' = ComputeNextRunAtMs(schedule, clock)
  /\ at' = clock
  /\ UNCHANGED <<schedule, created, clock>>

RunDueJob == IsDue /\ Recompute

Enable == Recompute

TimerNext == ClockTicks \/ RunDueJob \/ Enable

TimerSpec == TimerInit /\ [][TimerNext]_timerVars

-----------------------------------------------------------------------------
(* After a run or an enable the next run of an anchored interval job is the *)
(* first instant of its grid (anchor plus a whole number of intervals)      *)
(* after the moment it was computed, also when several intervals were       *)
(* missed or the anchor is still in the future (schedule.ts, kind "every"). *)
OnGrid(i, origin) == (i - origin) % schedule.everyMs = 0

AnchoredIntervalTakesNextGridInstant ==
  (schedule.kind = "every" /\ schedule.anchorMs # NoTime) =>
     /\ OnGrid(next, schedule.anchorMs)
     /\ at < next
     /\ next <= at + schedule.everyMs

(* A computed time lies in the future of the moment it is computed, so a    *)
(* job that has just been picked up is not due again at once: one due       *)
(* instant, one session (schedule.ts, both kinds).                          *)
ComputedTimeIsInTheFuture == next = NoTime \/ next > at

(* Each run of a due job moves nextRunAtMs forward, never back or onto the  *)
(* same instant, however late the tick comes.                               *)
RunMovesTimeForward ==
  [][IsDue /\ at' # at => (next' = NoTime \/ next' > next)]_timerVars
=============================================================================
