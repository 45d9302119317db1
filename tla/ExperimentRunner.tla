-------------------------- MODULE ExperimentRunner --------------------------
(***************************************************************************)
(* The experiment runner infra/experiment-runner/run.py: run_experiment,   *)
(* _run_experiment_inner, run_canary, the lock, the signal handler and the *)
(* audit of main, for runner processes started on one experiment           *)
(* directory.  All of them write progress.json through progress.tmp: a     *)
(* write fills the temporary file in one step and renames it in the next,  *)
(* and the signal handler may come between the two.                        *)
(*                                                                         *)
(* `mem` is the dictionary `progress` of a runner; of its fields the model *)
(* keeps status, attempt, the writing process and whether child_pid and    *)
(* finished_at are set.  The temporary file is written whole.  The lock file is an inode,  *)
(* named by the runner that created it.  Artifacts are kept in the         *)
(* experiment directory, and --project-dir is given, as --detach requires. *)
(***************************************************************************)
EXTENDS Naturals

CONSTANTS
  Runner,      \* processes of run.py
  MaxRetries,  \* --max-retries
  MaxFaults,   \* bound on signals and kills
  None

ASSUME MaxRetriesAssumption == MaxRetries \in Nat
ASSUME MaxFaultsAssumption == MaxFaults \in Nat
ASSUME NoneAssumption == None \notin Runner

VARIABLES
  pc,       \* where each runner is
  cont,     \* where it goes on after a rename
  mem,      \* its progress dictionary
  read,     \* what its audit has read
  child,    \* its present child: "none", "running", "zombie" or "reaped"
  exit,     \* how that child ended: "ok", "transient" or "failed"
  handlers, \* SIGTERM and SIGINT handlers are installed
  signalled,\* a signal is pending
  stopped,  \* a signal has been handled while the child ran
  rc,       \* the exit code: "none", "0", "failed", "refused" or "crashed"
  file,     \* progress.json
  tmp,      \* progress.tmp
  path,     \* the inode .experiment.lock names
  fd,       \* the inode a runner has open
  flock,    \* who holds the lock of an inode
  faults

procVars == <<pc, cont, mem, read, child, exit, handlers, signalled, stopped, rc>>
lockVars == <<path, fd, flock>>
runnerVars == <<procVars, file, tmp, lockVars, faults>>

Active == {"running", "stopping", "retrying"}
Final == {"completed", "failed", "interrupted", "canary_failed"}
Progress ==
  [status : Active \cup Final \cup {"canary"}, run : Runner,
   attempt : 0..MaxRetries + 1, child : BOOLEAN, finished : BOOLEAN]

RunnerPc == {"off", "opened", "canary", "canaried", "canary_failed", "start", "spawn",
             "install", "poll", "exited", "delay", "rename", "releasing", "unlinking",
             "audit", "rewrite", "gone"}

RunnerTypeOK ==
  /\ pc \in [Runner -> RunnerPc] /\ cont \in [Runner -> RunnerPc]
  /\ mem \in [Runner -> Progress] /\ read \in [Runner -> Progress]
  /\ child \in [Runner -> {"none", "running", "zombie", "reaped"}]
  /\ exit \in [Runner -> {"ok", "transient", "failed"}]
  /\ handlers \in [Runner -> BOOLEAN] /\ signalled \in [Runner -> BOOLEAN]
  /\ stopped \in [Runner -> BOOLEAN]
  /\ rc \in [Runner -> {"none", "0", "failed", "refused", "crashed"}]
  /\ file \in Progress \cup {None} /\ tmp \in Progress \cup {None}
  /\ path \in Runner \cup {None} /\ fd \in [Runner -> Runner \cup {None}]
  /\ flock \in [Runner -> Runner \cup {None}]
  /\ faults \in 0..MaxFaults

Blank(r) ==
  [status |-> "canary", run |-> r, attempt |-> 0, child |-> FALSE, finished |-> FALSE]

RunnerInit ==
  /\ pc = [r \in Runner |-> "off"] /\ cont = [r \in Runner |-> "off"]
  /\ mem = [r \in Runner |-> Blank(r)] /\ read = [r \in Runner |-> Blank(r)]
  /\ child = [r \in Runner |-> "none"] /\ exit = [r \in Runner |-> "ok"]
  /\ handlers = [r \in Runner |-> FALSE] /\ signalled = [r \in Runner |-> FALSE]
  /\ stopped = [r \in Runner |-> FALSE] /\ rc = [r \in Runner |-> "none"]
  /\ file = None /\ tmp = None
  /\ path = None /\ fd = [r \in Runner |-> None] /\ flock = [r \in Runner |-> None]
  /\ faults = 0

-----------------------------------------------------------------------------
(* write_progress: fill progress.tmp, then rename it. *)
Goto(r, there) == pc' = [pc EXCEPT ![r] = there]

WriteProgress(r, p, there) ==
  /\ tmp' = p
  /\ cont' = [cont EXCEPT ![r] = there]
  /\ Goto(r, "rename")

SaveStatus(r, status, there) ==
  /\ mem' = [mem EXCEPT ![r].status = status]
  /\ WriteProgress(r, mem'[r], there)

(* The last write of a run has finished_at. *)
SaveEnd(r, status) ==
  /\ mem' = [mem EXCEPT ![r].status = status, ![r].finished = TRUE]
  /\ WriteProgress(r, mem'[r], "releasing")

Fails(r, code) == rc' = [rc EXCEPT ![r] = code]

(* The rename throws when a handler or another runner has renamed the file *)
(* meanwhile: main catches that in its audit, elsewhere it ends the run.   *)
Rename(r) ==
  /\ pc[r] = "rename"
  /\ \/ /\ tmp # None
        /\ file' = tmp /\ tmp' = None
        /\ Goto(r, cont[r])
        /\ UNCHANGED rc
     \/ /\ tmp = None
        /\ UNCHANGED <<file, tmp>>
        /\ IF cont[r] = "gone" THEN Goto(r, "gone") /\ UNCHANGED rc
           ELSE Goto(r, "releasing") /\ Fails(r, "crashed")
  /\ cont' = [cont EXCEPT ![r] = "off"]
  /\ UNCHANGED <<mem, read, child, exit, handlers, signalled, stopped, lockVars, faults>>

-----------------------------------------------------------------------------
(* acquire_lock: open or create the file, then flock without waiting.  A   *)
(* refused runner goes straight to the audit of main.                      *)
Open(r) ==
  /\ pc[r] = "off" /\ Goto(r, "opened")
  /\ path' = IF path = None THEN r ELSE path
  /\ fd' = [fd EXCEPT ![r] = path']
  /\ UNCHANGED <<cont, mem, read, child, exit, handlers, signalled, stopped, rc,
                 file, tmp, flock, faults>>

Lock(r) ==
  /\ pc[r] = "opened"
  /\ \/ /\ flock[fd[r]] = None
        /\ flock' = [flock EXCEPT ![fd[r]] = r]
        /\ \E first \in {"canary", "start"} : Goto(r, first)
        /\ UNCHANGED rc
     \/ /\ flock[fd[r]] # None
        /\ Fails(r, "refused") /\ Goto(r, "audit")
        /\ UNCHANGED flock
  /\ UNCHANGED <<cont, mem, read, child, exit, handlers, signalled, stopped,
                 file, tmp, path, fd, faults>>

(* run_canary: its own progress, then success, or a canary_failed that is *)
(* not yet an end: run_experiment writes the end over it.                 *)
Canary(r) ==
  /\ \/ /\ pc[r] = "canary"
        /\ SaveStatus(r, "canary", "canaried") /\ UNCHANGED rc
     \/ /\ pc[r] = "canaried"
        /\ \/ Goto(r, "start") /\ UNCHANGED <<tmp, cont, mem>>
           \/ SaveStatus(r, "canary_failed", "canary_failed")
        /\ UNCHANGED rc
     \/ /\ pc[r] = "canary_failed"
        /\ SaveEnd(r, "canary_failed") /\ Fails(r, "failed")
  /\ UNCHANGED <<read, child, exit, handlers, signalled, stopped, file, lockVars, faults>>

(* _run_experiment_inner, one attempt. *)
StartAttempt(r) ==
  /\ pc[r] = "start"
  /\ mem' = [mem EXCEPT ![r] =
       [Blank(r) EXCEPT !.status = "running", !.attempt = mem[r].attempt + 1]]
  /\ WriteProgress(r, mem'[r], "spawn")
  /\ UNCHANGED <<read, child, exit, handlers, signalled, stopped, rc, file, lockVars, faults>>

Spawn(r) ==
  /\ pc[r] = "spawn"
  /\ \/ /\ SaveEnd(r, "failed") /\ Fails(r, "failed")
        /\ UNCHANGED child
     \/ /\ child' = [child EXCEPT ![r] = "running"]
        /\ mem' = [mem EXCEPT ![r].child = TRUE]
        /\ WriteProgress(r, mem'[r], "install")
        /\ UNCHANGED rc
  /\ UNCHANGED <<read, exit, handlers, signalled, stopped, file, lockVars, faults>>

Install(r) ==
  /\ pc[r] = "install" /\ Goto(r, "poll")
  /\ handlers' = [handlers EXCEPT ![r] = TRUE]
  /\ UNCHANGED <<cont, mem, read, child, exit, signalled, stopped, rc, file, tmp,
                 lockVars, faults>>

Poll(r) ==
  /\ pc[r] = "poll"
  /\ \/ /\ child[r] = "running"
        /\ WriteProgress(r, mem[r], "poll") /\ UNCHANGED child
     \/ /\ child[r] = "zombie"
        /\ child' = [child EXCEPT ![r] = "reaped"]
        /\ Goto(r, "exited") /\ UNCHANGED <<tmp, cont>>
  /\ UNCHANGED <<mem, read, exit, handlers, signalled, stopped, rc, file, lockVars, faults>>

(* Faulty variant: one attempt too many. *)
RetryableInclusive(r) == exit[r] = "transient" /\ mem[r].attempt <= MaxRetries + 1

(* After the child: success (unless the log or the success rate says no), *)
(* interruption, retry (unless rows are wasted or, from the third attempt *)
(* on, none are new), or failure.                                         *)
Retryable(r) == exit[r] = "transient" /\ mem[r].attempt < MaxRetries + 1

Conclude(r, status, code) ==
  SaveEnd(r, status) /\ Fails(r, code)

Retry(r) == SaveStatus(r, "retrying", "delay") /\ UNCHANGED rc

(* Faulty variant: the retry is decided before the stop request is seen. *)
OutcomeRetryFirst(r) ==
  CASE exit[r] = "ok" -> Conclude(r, "completed", "0") \/ Conclude(r, "failed", "failed")
    [] Retryable(r) -> Retry(r) \/ Conclude(r, "failed", "failed")
    [] mem[r].status = "stopping" -> Conclude(r, "interrupted", "failed")
    [] OTHER -> Conclude(r, "failed", "failed")

Outcome(r) ==
  CASE exit[r] = "ok" -> Conclude(r, "completed", "0") \/ Conclude(r, "failed", "failed")
    [] exit[r] # "ok" /\ mem[r].status = "stopping" -> Conclude(r, "interrupted", "failed")
    [] exit[r] # "ok" /\ mem[r].status # "stopping" /\ Retryable(r) ->
         Retry(r) \/ Conclude(r, "failed", "failed")
    [] OTHER -> Conclude(r, "failed", "failed")

ChildExited(r) ==
  /\ pc[r] = "exited" /\ Outcome(r)
  /\ exit' = [exit EXCEPT ![r] = "ok"]
  /\ UNCHANGED <<read, child, handlers, signalled, stopped, file, lockVars, faults>>

RetryDelay(r) ==
  /\ pc[r] = "delay" /\ Goto(r, "start")
  /\ UNCHANGED <<cont, mem, read, child, exit, handlers, signalled, stopped, rc, file,
                 tmp, lockVars, faults>>

-----------------------------------------------------------------------------
(* release_lock unlocks first and unlinks the path afterwards; a run that *)
(* raised ends there.                                                     *)
Unlock(r) ==
  /\ pc[r] = "releasing" /\ Goto(r, "unlinking")
  /\ flock' = [i \in Runner |-> IF flock[i] = r THEN None ELSE flock[i]]
  /\ fd' = [fd EXCEPT ![r] = None]
  /\ UNCHANGED <<cont, mem, read, child, exit, handlers, signalled, stopped, rc, file,
                 tmp, path, faults>>

Unlink(r) ==
  /\ pc[r] = "unlinking"
  /\ Goto(r, IF rc[r] = "crashed" THEN "gone" ELSE "audit")
  /\ path' = None
  /\ UNCHANGED <<cont, mem, read, child, exit, handlers, signalled, stopped, rc, file,
                 tmp, fd, flock, faults>>

(* main reads progress.json, whoever wrote it, and writes it back. *)
Audit(r) ==
  /\ \/ /\ pc[r] = "audit" /\ file = None
        /\ Goto(r, "gone") /\ UNCHANGED <<read, tmp, cont>>
     \/ /\ pc[r] = "audit" /\ file # None
        /\ Goto(r, "rewrite") /\ read' = [read EXCEPT ![r] = file]
        /\ UNCHANGED <<tmp, cont>>
     \/ /\ pc[r] = "rewrite"
        /\ WriteProgress(r, read[r], "gone") /\ read' = [read EXCEPT ![r] = Blank(r)]
  /\ UNCHANGED <<mem, child, exit, handlers, signalled, stopped, rc, file, lockVars, faults>>

-----------------------------------------------------------------------------
(* handle_signal, wherever the interpreter is: the dictionary of the last *)
(* attempt, a whole write, and the signal for the child.                  *)
HandleSignal(r) ==
  /\ signalled[r] /\ pc[r] # "gone"
  /\ signalled' = [signalled EXCEPT ![r] = FALSE]
  /\ mem' = [mem EXCEPT ![r].status = "stopping"]
  /\ file' = mem'[r] /\ tmp' = None
  /\ stopped' = [stopped EXCEPT ![r] = @ \/ child[r] = "running"]
  /\ UNCHANGED <<pc, cont, read, child, exit, handlers, rc, lockVars, faults>>

(* Dies: the kernel drops its lock, its child goes on. *)
Dies(r) ==
  /\ Goto(r, "gone")
  /\ flock' = [i \in Runner |-> IF flock[i] = r THEN None ELSE flock[i]]
  /\ signalled' = [signalled EXCEPT ![r] = FALSE]
  /\ fd' = [fd EXCEPT ![r] = None]
  /\ UNCHANGED <<cont, mem, read, child, exit, handlers, stopped, rc, file, tmp, path>>

Runs(r) == pc[r] \notin {"off", "gone"}

Signal(r) ==
  /\ Runs(r)
  /\ IF handlers[r]
     THEN /\ signalled' = [signalled EXCEPT ![r] = TRUE]
          /\ UNCHANGED <<pc, cont, mem, read, child, exit, handlers, stopped, rc, file,
                         tmp, lockVars>>
     ELSE Dies(r)

Fault ==
  /\ faults < MaxFaults /\ faults' = faults + 1
  /\ \E r \in Runner : Signal(r) \/ (Runs(r) /\ Dies(r))

(* The command ends by itself or is killed. *)
ChildExits(r) ==
  /\ child[r] = "running"
  /\ child' = [child EXCEPT ![r] = "zombie"]
  /\ exit' \in {[exit EXCEPT ![r] = how] : how \in {"ok", "transient", "failed"}}
  /\ UNCHANGED <<pc, cont, mem, read, handlers, signalled, stopped, rc, file, tmp,
                 lockVars, faults>>

RunnerStep(r) ==
  \/ Rename(r) \/ Open(r) \/ Lock(r) \/ Canary(r) \/ StartAttempt(r) \/ Spawn(r)
  \/ Install(r) \/ Poll(r) \/ ChildExited(r) \/ RetryDelay(r)
  \/ Unlock(r) \/ Unlink(r) \/ Audit(r) \/ HandleSignal(r)

RunnerNext == (\E r \in Runner : RunnerStep(r) \/ ChildExits(r)) \/ Fault

RunnerSpec == RunnerInit /\ [][RunnerNext]_runnerVars

-----------------------------------------------------------------------------
(* A stop request handled while the command runs is the end of the run:   *)
(* no further attempt is started, however the command then exits and      *)
(* wherever the handler found the runner.                                 *)
NoAttemptAfterStop ==
  [][\A r \in Runner :
       child'[r] = "running" /\ child[r] # "running" => ~stopped[r]]_runnerVars
=============================================================================
