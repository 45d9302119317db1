-------------------------------- MODULE Jobs --------------------------------
(***************************************************************************)
(* Jobs, stores and the operations of the class JobStore as functions from *)
(* a store to a store: what add, remove, setEnabled, updateState and the   *)
(* reconciliation in load make of the list of jobs they find               *)
(* (infra/scheduler/src/store.ts).  `at` is the Date.now() they read.      *)
(*                                                                         *)
(* A store maps job ids to jobs.  The order of the jobs array is not kept: *)
(* only the order in which a tick visits due jobs depends on it.  Payload, *)
(* createdAtMs and the legacy `backend` key are not modelled; runs stands  *)
(* for runCount and the last* fields, which the same assignments write.    *)
(***************************************************************************)
EXTENDS Schedule

CONSTANTS
  JobId,         \* ids generateId() may draw
  JobSchedules,  \* schedules the commands use
  NoFingerprint  \* a job written by a version without fingerprints

Fingerprint == {ScheduleFingerprint(s) : s \in JobSchedules} \cup {NoFingerprint}
Time == Int \cup {NoTime}

Job ==
  [enabled : BOOLEAN, schedule : JobSchedules, next : Time,
   fingerprint : Fingerprint, runs : Nat]
Store == UNION {[S -> Job] : S \in SUBSET JobId}

IsStore(d) ==
  /\ d = [id \in DOMAIN d |-> d[id]]
  /\ DOMAIN d \subseteq JobId /\ \A id \in DOMAIN d : d[id] \in Job

(* The operations.  updateState is called with two patches: the one a tick  *)
(* writes before a session (advance) and the one after it (record).         *)
Call ==
       [op : {"load"}]
  \cup [op : {"add"}, id : JobId, schedule : JobSchedules]
  \cup [op : {"remove"}, id : JobId]
  \cup [op : {"setEnabled"}, id : JobId, enabled : BOOLEAN]
  \cup [op : {"advance"}, id : JobId, next : Time]
  \cup [op : {"record"}, id : JobId, runs : Nat]
NoCall == [op |-> "none"]

-----------------------------------------------------------------------------
(* reconcileSchedules: what an enabled job needs, and becomes. *)
ScheduleEdited(job) ==
  /\ job.fingerprint # NoFingerprint
  /\ job.fingerprint # ScheduleFingerprint(job.schedule)

NeedsReconcile(job) ==
  /\ job.enabled
  /\ \/ job.fingerprint # ScheduleFingerprint(job.schedule)
     \/ job.next = NoTime

(* Faulty variant: only a missing time is computed, an edit goes unnoticed. *)
ReconciledWhenUnset(job, at) ==
  IF ~NeedsReconcile(job) THEN job ELSE
  [job EXCEPT
     !.next = IF @ = NoTime THEN ComputeNextRunAtMs(job.schedule, at) ELSE @,
     !.fingerprint = ScheduleFingerprint(job.schedule)]

Reconciled(job, at) ==
  IF ~NeedsReconcile(job) THEN job ELSE
  [job EXCEPT
     !.next = IF ScheduleEdited(job) \/ job.next = NoTime
              THEN ComputeNextRunAtMs(job.schedule, at) ELSE @,
     !.fingerprint = ScheduleFingerprint(job.schedule)]

Reconcile(d, at) == [id \in DOMAIN d |-> Reconciled(d[id], at)]
IsDirty(d) == \E id \in DOMAIN d : NeedsReconcile(d[id])

NewJob(schedule, at) ==
  [enabled |-> TRUE, schedule |-> schedule,
   next |-> ComputeNextRunAtMs(schedule, at),
   fingerprint |-> ScheduleFingerprint(schedule), runs |-> 0]

Enabling(job, enabled, at) ==
  IF ~enabled THEN [job EXCEPT !.enabled = FALSE] ELSE
  [job EXCEPT !.enabled = TRUE,
              !.next = ComputeNextRunAtMs(job.schedule, at),
              !.fingerprint = ScheduleFingerprint(job.schedule)]

(* Operations that return without a save: load, and an id that is not there. *)
SavesNothing(c, d) ==
  IF c.op \in {"load", "add"} THEN c.op = "load" ELSE c.id \notin DOMAIN d

(* What an operation that saves makes of the store it has loaded. *)
Apply(c, d, at) ==
  CASE c.op = "add" ->
         [id \in DOMAIN d \cup {c.id} |->
            IF id = c.id THEN NewJob(c.schedule, at) ELSE d[id]]
    [] c.op = "remove" -> [id \in DOMAIN d \ {c.id} |-> d[id]]
    [] c.op = "setEnabled" -> [d EXCEPT ![c.id] = Enabling(@, c.enabled, at)]
    [] c.op = "advance" -> [d EXCEPT ![c.id].next = c.next]
    [] c.op = "record" -> [d EXCEPT ![c.id].runs = c.runs]

(* getDueJobs *)
DueJobs(d, at) ==
  {id \in DOMAIN d : d[id].enabled /\ d[id].next # NoTime /\ d[id].next <= at}
=============================================================================
