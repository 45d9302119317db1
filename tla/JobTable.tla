------------------------------ MODULE JobTable ------------------------------
(***************************************************************************)
(* What the persistent job list promises a caller that has it to itself:   *)
(* an operation takes effect at once or not at all, an operation that has  *)
(* returned has taken effect exactly once, and a process that dies leaves  *)
(* the list as it was before its last operation or after it.               *)
(*                                                                         *)
(* The abstract specification of JobStore: no files, no intermediate       *)
(* content, no recovery.                                                   *)
(***************************************************************************)
EXTENDS Jobs

CONSTANT FirstJobs

VARIABLES
  jobs,     \* the list a restarted process would find
  op,       \* the operation in progress
  applied,  \* whether it has taken effect
  alive,    \* whether the caller's process is running
  now

vars == <<jobs, op, applied, alive, now>>

Init ==
  /\ jobs = FirstJobs
  /\ op = NoCall
  /\ applied = FALSE
  /\ alive = TRUE
  /\ now = 0

Invoke ==
  /\ alive
  /\ op = NoCall
  /\ op' \in Call
  /\ UNCHANGED <<jobs, applied, alive, now>>

(* The load inside an operation brings the schedules up to date. *)
Heal ==
  /\ op # NoCall
  /\ ~applied
  /\ \E at \in 0 .. now : jobs' = Reconcile(jobs, at)
  /\ UNCHANGED <<op, applied, alive, now>>

TakeEffect ==
  /\ op # NoCall
  /\ ~applied
  /\ ~SavesNothing(op, jobs)
  /\ \E at \in 0 .. now : jobs' = Apply(op, jobs, at)
  /\ applied' = TRUE
  /\ UNCHANGED <<op, alive, now>>

Return ==
  /\ op # NoCall
  /\ applied \/ SavesNothing(op, jobs)
  /\ op' = NoCall
  /\ applied' = FALSE
  /\ UNCHANGED <<jobs, alive, now>>

(* The only way out of an operation that has not taken effect. *)
ProcessDies ==
  /\ alive
  /\ alive' = FALSE
  /\ op' = NoCall
  /\ applied' = FALSE
  /\ UNCHANGED <<jobs, now>>

Restart ==
  /\ ~alive
  /\ alive' = TRUE
  /\ UNCHANGED <<jobs, op, applied, now>>

ClockAdvances ==
  /\ now' = now + 1
  /\ UNCHANGED <<jobs, op, applied, alive>>

EditSchedule(id, s) ==
  /\ op = NoCall
  /\ jobs' = [jobs EXCEPT ![id].schedule = s]
  /\ UNCHANGED <<op, applied, alive, now>>

Next ==
  \/ Invoke \/ Heal \/ TakeEffect \/ Return \/ ProcessDies
  \/ Restart \/ ClockAdvances
  \/ \E id \in DOMAIN jobs, s \in JobSchedules : EditSchedule(id, s)

Spec == Init /\ [][Next]_vars
=============================================================================
