------------------------- MODULE ExperimentWatcher -------------------------
(***************************************************************************)
(* The watcher of the scheduler process (infra/scheduler/src/              *)
(* experiments.ts) over one experiment directory and the runners of        *)
(* ExperimentRunner: discovery, the poll of a tracked experiment, the      *)
(* closing of a run whose process has died, the report to the callback,    *)
(* and stopExperiment.                                                     *)
(*                                                                         *)
(* A poll reads progress.json in one step and acts on it in a later one.   *)
(* Every DiscoverEvery-th poll begins with a discovery, and so does the    *)
(* watcher.  A discovery reports an end only within seven minutes of its   *)
(* finished_at.  While the scheduler runs, discoveries are at most six     *)
(* polls of at most a minute apart, so an end grows old only while it is   *)
(* down or its first discovery is under way: Age.                          *)
(***************************************************************************)
EXTENDS ExperimentRunner, FiniteSets

CONSTANTS DiscoverEvery   \* DISCOVERY_EVERY_N_POLLS

ASSUME DiscoverAssumption == DiscoverEvery \in Nat \ {0}

VARIABLES
  wpc,      \* where the watcher is, "down" while no scheduler runs
  tracked,  \* the experiment is in trackedExperiments
  emitted,  \* its key is in emittedKeys
  snap,     \* the progress a discovery or a poll has read
  polls,    \* pollCount, up to the next discovery
  launch,   \* who launches a runner: "cli", "api", or "tracked" by the API
  old,      \* finished_at of the file is seven minutes past
  reports   \* what the callback has been called with

watcherVars == <<wpc, tracked, emitted, snap, polls, launch, old, reports>>
vars == <<runnerVars, watcherVars>>

TypeOK ==
  /\ RunnerTypeOK
  /\ wpc \in {"down", "starting", "idle", "discovered", "poll", "read", "write", "marked"}
  /\ tracked \in BOOLEAN /\ emitted \in BOOLEAN /\ old \in BOOLEAN
  /\ snap \in Progress \cup {None}
  /\ polls \in 0..DiscoverEvery - 1
  /\ launch \in [Runner -> {"cli", "api", "tracked"}]
  /\ reports \subseteq [run : Runner, status : Final \cup {"canary"}]

Init ==
  /\ RunnerInit
  /\ wpc = "down" /\ tracked = FALSE /\ emitted = FALSE /\ snap = None
  /\ polls = 0 /\ launch \in [Runner -> {"cli", "api"}] /\ old = FALSE
  /\ reports = {}

Report(p, status) ==
  /\ reports' = reports \cup {[run |-> p.run, status |-> status]}
  /\ emitted' = TRUE

(* isPidAlive(child_pid ?? pid): a zombie still answers signal 0, until its *)
(* runner waits for it or is gone and init does.                           *)
ChildAlive(r) == child[r] = "running" \/ (child[r] = "zombie" /\ Runs(r))

(* Faulty variant: only the child's pid is looked at. *)
PidAliveOfChild(p) ==
  p.child => p.attempt = mem[p.run].attempt /\ ChildAlive(p.run)

PidAlive(p) ==
  IF p.child THEN p.attempt = mem[p.run].attempt /\ ChildAlive(p.run) ELSE Runs(p.run)

-----------------------------------------------------------------------------
(* startExperimentWatcher: nothing of the maps is there, and a discovery    *)
(* reads the file at once.                                                  *)
Start ==
  /\ wpc = "down" /\ wpc' = "starting" /\ snap' = file
  /\ UNCHANGED <<runnerVars, tracked, emitted, polls, launch, old, reports>>

(* pollTrackedExperiments: count, and every so often discover first. *)
BeginPoll ==
  /\ wpc = "idle"
  /\ polls' = (polls + 1) % DiscoverEvery
  /\ IF polls' = 0
     THEN wpc' = "discovered" /\ snap' = file
     ELSE wpc' = "poll" /\ UNCHANGED snap
  /\ UNCHANGED <<runnerVars, tracked, emitted, launch, old, reports>>

Discovers ==
  /\ \/ wpc = "starting" /\ wpc' = "idle"
     \/ wpc = "discovered" /\ wpc' = "poll"
  /\ snap' = None
  /\ UNCHANGED <<runnerVars, polls, launch, old>>

(* Faulty variant: a discovery looks for active runs only. *)
DiscoverActive ==
  /\ Discovers
  /\ tracked' = (tracked \/ (snap # None /\ snap.status \in Active))
  /\ UNCHANGED <<emitted, reports>>

(* discoverRunningExperiments, after listExperiments has read the file. *)
Discover ==
  /\ Discovers
  /\ LET found == ~tracked /\ snap # None
         active == found /\ snap.status \in Active
         missed == found /\ snap.status \in Final /\ snap.finished /\ ~emitted /\ ~old
     IN /\ tracked' = (tracked \/ active)
        /\ IF missed THEN Report(snap, snap.status) ELSE UNCHANGED <<reports, emitted>>

PollRead ==
  /\ wpc = "poll"
  /\ IF tracked THEN wpc' = "read" /\ snap' = file ELSE wpc' = "idle" /\ UNCHANGED snap
  /\ UNCHANGED <<runnerVars, tracked, emitted, polls, launch, old, reports>>

(* A live run goes on; a dead one is marked failed; any other status is   *)
(* reported and the experiment no longer tracked.                         *)
Ends(p, status) ==
  /\ tracked' = FALSE /\ Report(p, status) /\ wpc' = "idle" /\ snap' = None

PollAct ==
  /\ \/ /\ wpc = "read"
        /\ snap # None /\ snap.status \in Active /\ ~PidAlive(snap)
        /\ wpc' = "write" /\ UNCHANGED <<snap, tracked, emitted, reports>>
     \/ /\ wpc = "read"
        /\ snap # None => snap.status \in Active /\ PidAlive(snap)
        /\ wpc' = "idle" /\ snap' = None /\ UNCHANGED <<tracked, emitted, reports>>
     \/ /\ wpc = "read"
        /\ snap # None /\ snap.status \notin Active
        /\ Ends(snap, snap.status)
     \/ /\ wpc = "marked" /\ Ends(snap, "failed")
  /\ UNCHANGED <<runnerVars, polls, launch, old>>

(* Its own temporary file, renamed over progress.json. *)
MarkFailed ==
  /\ wpc = "write" /\ wpc' = "marked"
  /\ file' = [snap EXCEPT !.status = "failed", !.finished = TRUE]
  /\ old' = FALSE
  /\ UNCHANGED <<procVars, tmp, lockVars, faults, tracked, emitted, snap, polls, launch,
                 reports>>

(* trackExperiment, after a launch through the API. *)
Track ==
  /\ wpc # "down"
  /\ \E r \in Runner :
       /\ launch[r] = "api" /\ pc[r] # "off"
       /\ launch' = [launch EXCEPT ![r] = "tracked"]
  /\ tracked' = TRUE
  /\ UNCHANGED <<runnerVars, wpc, emitted, snap, polls, old, reports>>

(* stopExperiment: SIGTERM to the child, or to a runner that has none. *)
StopExperiment ==
  /\ wpc # "down"
  /\ file # None /\ file.status \in {"running", "stopping"} /\ PidAlive(file)
  /\ faults < MaxFaults /\ faults' = faults + 1
  /\ IF file.child
     THEN /\ child[file.run] = "running"
          /\ child' = [child EXCEPT ![file.run] = "zombie"]
          /\ exit' = [exit EXCEPT ![file.run] = "failed"]
          /\ UNCHANGED <<pc, cont, mem, read, handlers, signalled, stopped, rc, file, tmp, lockVars>>
     ELSE Signal(file.run)
  /\ UNCHANGED watcherVars

(* The scheduler process ends, wherever its watcher is: nothing of the maps *)
(* stays, and a launch it has not tracked is tracked by nobody.             *)
Stop ==
  /\ wpc # "down" /\ wpc' = "down"
  /\ faults < MaxFaults /\ faults' = faults + 1
  /\ tracked' = FALSE /\ emitted' = FALSE /\ snap' = None /\ polls' = 0
  /\ launch' = [r \in Runner |->
       IF launch[r] = "api" /\ pc[r] # "off" THEN "tracked" ELSE launch[r]]
  /\ UNCHANGED <<procVars, file, tmp, lockVars, old, reports>>

(* Seven minutes go by, and no watcher has looked. *)
Age ==
  /\ wpc \in {"down", "starting"} /\ file # None /\ file.finished /\ old' = TRUE
  /\ UNCHANGED <<runnerVars, wpc, tracked, emitted, snap, polls, launch, reports>>

(* A runner that writes another progress makes it young; launchExperiment *)
(* has no canary.                                                         *)
Runners ==
  /\ RunnerNext
  /\ \A r \in Runner : launch[r] # "cli" => pc'[r] # "canary"
  /\ old' = (old /\ file' = file)
  /\ UNCHANGED <<wpc, tracked, emitted, snap, polls, launch, reports>>

WatcherStep == BeginPoll \/ Discover \/ PollRead \/ PollAct \/ MarkFailed

Next == Runners \/ Start \/ WatcherStep \/ Track \/ StopExperiment \/ Stop \/ Age

(* A scheduler that is down is started again, its timer polls again and     *)
(* again, a runner that is alive goes on, and a command ends at last.       *)
Fairness ==
  /\ WF_vars(Start) /\ WF_vars(WatcherStep)
  /\ \A r \in Runner : WF_runnerVars(RunnerStep(r)) /\ WF_runnerVars(ChildExits(r))

Spec == Init /\ [][Next]_vars /\ Fairness

-----------------------------------------------------------------------------
(* No run is left open: when every process of a directory has gone, by    *)
(* whatever signal, kill or failed rename, progress.json does not stay at *)
(* running, stopping or retrying.                                         *)
Deserted == \A r \in Runner : ~Runs(r)
Shows(statuses) == file # None /\ file.status \in statuses
OpenRunIsClosed == (Deserted /\ Shows(Active)) ~> (~Deserted \/ ~Shows(Active))

(* What has ended is reported as an end, however often the scheduler stops *)
(* on the way and wherever its watcher then is, unless it stays down until *)
(* the end is seven minutes old, or another run begins in the directory.   *)
Ended == Shows(Final) /\ file.finished
EndIsReported ==
  Ended ~> ((\E report \in reports : report.status \in Final) \/ old \/ ~Ended)
=============================================================================
