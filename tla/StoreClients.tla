---------------------------- MODULE StoreClients ----------------------------
(***************************************************************************)
(* Processes that use the persistent job list: every operation of JobStore *)
(* in any order, processes that die between two file-system effects, and a *)
(* user who edits a schedule in jobs.json.                                 *)
(*                                                                         *)
(* With one thread this is the store as a single caller sees it, and it    *)
(* implements JobTable.  With several it is the daemon and the CLI.        *)
(***************************************************************************)
EXTENDS JobStore

CONSTANTS
  Ops,      \* the operations the clients use, a set of names
  MayDie,   \* the processes that may die
  MaxNow,   \* bound of the clock
  MaxRuns   \* bound of the run counts they record

ASSUME StoreClientsAssumption == MaxNow \in Nat /\ MaxRuns \in Nat

VARIABLES
  issued,  \* ids drawn by generateId so far
  kept,    \* ids whose add has returned and no remove has been asked for
  dead     \* the processes that died and have not been started again

vars == <<storeVars, issued, kept, dead>>

FirstJobs == IF FirstMain = NoFile THEN LegacyStore ELSE FirstMain

Init ==
  /\ StoreInit
  /\ issued = DOMAIN FirstJobs
  /\ kept = DOMAIN FirstJobs
  /\ dead = {}

(* A user knows the id of a job once its add has printed it. *)
Known == {id \in issued :
            \A t \in Thread : call[t].op = "add" => call[t].id # id}

(* The calls the CLI and the daemon make; updateState is given a time of    *)
(* some schedule and the run count of a job read earlier.                   *)
Offered ==
       [op : {"load"}]
  \cup [op : {"add"}, id : JobId \ issued, schedule : JobSchedules]
  \cup [op : {"remove"}, id : Known]
  \cup [op : {"setEnabled"}, id : Known, enabled : BOOLEAN]
  \cup [op : {"advance"}, id : issued,
        next : {ComputeNextRunAtMs(s, now) : s \in JobSchedules}]
  \cup [op : {"record"}, id : issued, runs : 1 .. MaxRuns]

Invoke(t) ==
  /\ ProcOf[t] \notin dead
  /\ \E c \in Offered :
       /\ c.op \in Ops
       /\ Begin(t, c)
       /\ issued' = IF c.op = "add" THEN issued \cup {c.id} ELSE issued
       /\ kept' = IF c.op = "remove" THEN kept \ {c.id} ELSE kept
  /\ UNCHANGED dead

Step(t) == StoreStep(t) /\ UNCHANGED <<issued, kept, dead>>

(* A client process exits when its last call has returned. *)
Return(t) ==
  /\ End(t)
  /\ data' = IF \E u \in Thread \ {t} : ProcOf[u] = ProcOf[t] /\ pc[u] # "idle"
             THEN data ELSE [data EXCEPT ![ProcOf[t]] = NoData]
  /\ kept' = IF pc[t] = "done" /\ call[t].op = "add"
             THEN kept \cup {call[t].id} ELSE kept
  /\ UNCHANGED <<issued, dead>>

Crash(p) ==
  /\ p \in MayDie
  /\ \E t \in Thread : ProcOf[t] = p /\ pc[t] # "idle"
  /\ ProcessDies(p)
  /\ dead' = dead \cup {p}
  /\ UNCHANGED <<issued, kept>>

(* The process is started again; it finds the files as they are. *)
Restart(p) ==
  /\ p \in dead
  /\ dead' = dead \ {p}
  /\ UNCHANGED <<storeVars, issued, kept>>

ClockAdvances ==
  /\ now < MaxNow
  /\ now' = now + 1
  /\ UNCHANGED <<main, tmp, data, pc, call, text, fd, saving, issued, kept, dead>>

(* The user's editor replaces jobs.json while no operation is in progress. *)
EditSchedule(id, s) ==
  /\ "edit" \in Ops
  /\ \A t \in Thread : pc[t] = "idle"
  /\ main \notin Unparsable
  /\ id \in DOMAIN main
  /\ main' = [main EXCEPT ![id].schedule = s]
  /\ UNCHANGED <<tmp, data, pc, call, text, fd, saving, now, issued, kept, dead>>

Next ==
  \/ \E t \in Thread : Invoke(t) \/ Step(t) \/ Return(t)
  \/ \E p \in Process : Crash(p) \/ Restart(p)
  \/ ClockAdvances
  \/ \E id \in JobId, s \in JobSchedules : EditSchedule(id, s)

Spec == Init /\ [][Next]_vars

-----------------------------------------------------------------------------
(* One caller at a time, dying wherever it likes, gets the atomic list:     *)
(* store.ts writes a whole new file and renames it, and recovers from .tmp. *)
(* An operation that has not taken effect ends only when its process dies,  *)
(* so the store neither drops a change nor throws.                          *)
Client == CHOOSE t \in Thread : TRUE
Table == INSTANCE JobTable WITH
           jobs <- Durable, op <- call[Client], applied <- Applied(Client),
           alive <- ProcOf[Client] \notin dead
ImplementsJobTable == Table!Spec

(* core.test.ts:54 "persists jobs with repo-local state": when no operation *)
(* is in progress, every job whose add has returned, and that nobody asked  *)
(* to remove, is in the list the next process will find.                    *)
Quiescent == \A t \in Thread : pc[t] = "idle"
AddedJobsPersist == Quiescent => kept \subseteq DOMAIN Durable

(* store.ts:121 "schedule was edited": whatever the file held, the list a   *)
(* load returns has next runs of the present schedules: an enabled cron job *)
(* is due at one of its occurrences, an interval job within one interval.   *)
NextRunFollowsSchedule ==
  \A t \in Thread :
    pc[t] = "done" /\ call[t].op = "load" =>
      \A id \in DOMAIN text[t] :
        LET job == text[t][id] IN
        job.enabled /\ job.next # NoTime =>
          IF job.schedule.kind = "cron"
          THEN job.next \in Occurrences[job.schedule.expr]
          ELSE job.next <= now + job.schedule.everyMs

(* When no operation is in progress jobs.json can be read, or it has never  *)
(* been written: a process that dies leaves no half-written file behind.    *)
QuiescentFileParses == Quiescent => main \notin {Empty, Torn}
=============================================================================
