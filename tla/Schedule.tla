------------------------------ MODULE Schedule ------------------------------
(***************************************************************************)
(* The next-run computation of infra/scheduler/src/schedule.ts and the     *)
(* schedule fingerprint of store.ts.                                       *)
(*                                                                         *)
(* Instants are natural numbers of milliseconds.  SecondMs is 1000 in the  *)
(* code; the model keeps it a parameter so that a bounded clock holds      *)
(* several seconds.  The croner library is external: a cron expression in  *)
(* a time zone is given by the set of instants it matches, Occurrences,    *)
(* and Cron.nextRun(prev) is the least of them after prev.                 *)
(***************************************************************************)
EXTENDS Integers

CONSTANTS
  SecondMs,     \* milliseconds in a second
  Occurrences,  \* Occurrences[<<expr, tz>>]: the instants a cron schedule matches
  NoTime        \* the null of nextRunAtMs, and an anchorMs that is not set

ASSUME ScheduleAssumption ==
  /\ SecondMs \in Nat \ {0}
  /\ \A e \in DOMAIN Occurrences : Occurrences[e] \subseteq Nat
  /\ NoTime \notin Int

(* CronSchedule and IntervalSchedule of types.ts. *)
CronSchedules == [kind : {"cron"}, expr : DOMAIN Occurrences]
IntervalSchedules ==
  [kind : {"every"}, everyMs : Nat \ {0}, anchorMs : Nat \cup {NoTime}]
Schedule == CronSchedules \cup IntervalSchedules

(* i is the least element of the set S of integers that is greater than t. *)
IsLeastAfter(i, t, S) ==
  /\ i \in S
  /\ i > t
  /\ \A j \in S : j > t => i <= j

(* croner's Cron.nextRun(prev): strictly after prev, null when there is none. *)
CronNextRun(e, prev) ==
  IF \E i \in Occurrences[e] : i > prev
  THEN CHOOSE i \in Occurrences[e] : IsLeastAfter(i, prev, Occurrences[e])
  ELSE NoTime

(* nowDate.setMilliseconds(0) *)
FloorToSecond(now) == now - (now % SecondMs)

(* Faulty variants: an interval counted from now, so that the grid drifts    *)
(* with every late tick, and one that rounds down onto a past instant.      *)
IntervalFromNow(anchor, everyMs, now) == now + everyMs
IntervalAtOrBefore(anchor, everyMs, now) ==
  anchor + ((now - anchor) \div everyMs) * everyMs

IntervalNextRun(anchor, everyMs, now) ==
  anchor + ((now - anchor) \div everyMs + 1) * everyMs

ComputeNextRunAtMs(schedule, now) ==
  IF schedule.kind = "cron"
  THEN CronNextRun(schedule.expr, FloorToSecond(now) + SecondMs)
  ELSE IntervalNextRun(
         IF schedule.anchorMs = NoTime THEN now ELSE schedule.anchorMs,
         schedule.everyMs, now)

(* The fingerprint keeps the cron expression or the interval only: the time *)
(* zone (second component of expr here) and the anchor are not part of it.  *)
ScheduleFingerprint(schedule) ==
  IF schedule.kind = "cron"
  THEN <<"cron", schedule.expr[1]>>
  ELSE <<"every", schedule.everyMs>>
=============================================================================
