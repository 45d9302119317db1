----------------------------- MODULE Scheduler ------------------------------
(***************************************************************************)
(* SchedulerService (infra/scheduler/src/service.ts) over the persistent   *)
(* job list, with the CLI commands that use the same list (cli.ts).        *)
(*                                                                         *)
(* The daemon is one process.  start() loads the list and awaits a first   *)
(* tick; only then is the poll timer set, and from then on a tick starts   *)
(* at every interval whether or not earlier ones still await a session.    *)
(* Each member of Tick is one chain of awaits of such a tick.  A CLI       *)
(* command is a process of its own.                                        *)
(*                                                                         *)
(* A session (executeJob) is an interval between two actions: what the     *)
(* agent does is not modelled.  tick() turns what it throws into a result, *)
(* the run command does not.                                               *)
(***************************************************************************)
EXTENDS JobStore, FiniteSets

CONSTANTS
  Tick,        \* ticks that may be in progress at the same time
  Cli,         \* CLI commands that may run at the same time
  Daemon,      \* the process of the ticks
  Name,        \* job names
  NameOf,      \* the name a job is created with; names need not be unique
  MaxConcurrentSessions,
  HasBeforeRun,  \* whether the service has an onBeforeRun hook
  Commands,    \* CLI commands in use: a set of names
  MaxNow,      \* bound of the clock
  MaxRuns,     \* bound of the sessions of a job
  MaxExits     \* bound of the daemon's exits

ASSUME SchedulerAssumption ==
  /\ Thread = Tick \cup Cli
  /\ Tick \cap Cli = {}
  /\ \A t \in Thread : ProcOf[t] = Daemon <=> t \in Tick
  /\ \A u, v \in Cli : ProcOf[u] = ProcOf[v] => u = v
  /\ Process = {ProcOf[t] : t \in Thread} \cup {Daemon}
  /\ NameOf \in [JobId -> Name]
  /\ MaxConcurrentSessions \in Nat
  /\ HasBeforeRun \in BOOLEAN
  /\ MaxNow \in Nat /\ MaxRuns \in Nat /\ MaxExits \in Nat

VARIABLES
  service,      \* the daemon: down, loading, firstTick, polling, stopping
  runningJobs,  \* names of the jobs that hold a session slot
  tick,         \* where each tick is
  due,          \* the jobs a tick has still to visit, as it loaded them
  cur,          \* the job a tick is at
  cli,          \* where each CLI command is
  target,       \* the job a `run` command executes, as it loaded it
  issued,       \* ids drawn so far
  exits,        \* exits of the daemon so far
  finished,     \* sessions finished, per job (for the properties only)
  servedAt      \* due instants a daemon session was started for (likewise)

svcVars == <<service, runningJobs, tick, due, cur>>
cliVars == <<cli, target, issued>>
ghosts == <<finished, servedAt>>
vars == <<storeVars, svcVars, cliVars, exits, ghosts>>

NoJob == [id |-> 0]
TickPC == {"off", "start", "ready", "load", "loop", "hook", "advance",
           "session", "record"}

TypeOK ==
  /\ StoreTypeOK
  /\ service \in {"down", "loading", "firstTick", "polling", "stopping"}
  /\ runningJobs \subseteq Name
  /\ tick \in [Tick -> TickPC]
  /\ \A t \in Tick : IsStore(due[t])
  /\ \A t \in Tick : cur[t] = NoJob \/ (cur[t].id \in JobId /\ cur[t].job \in Job)
  /\ cli \in [Cli -> {"idle", "command", "runLoad", "runSession", "runRecord"}]
  /\ issued \subseteq JobId
  /\ exits \in Nat
  /\ finished \in [JobId -> Nat]

FirstJobs == IF FirstMain = NoFile THEN LegacyStore ELSE FirstMain
NoJobs == [id \in {} |-> NoJob]

Init ==
  /\ StoreInit
  /\ service = "down"
  /\ runningJobs = {}
  /\ tick = [t \in Tick |-> "off"]
  /\ due = [t \in Tick |-> NoJobs]
  /\ cur = [t \in Tick |-> NoJob]
  /\ cli = [u \in Cli |-> "idle"]
  /\ target = [u \in Cli |-> NoJob]
  /\ issued = DOMAIN FirstJobs
  /\ exits = 0
  /\ finished = [id \in JobId |-> 0]
  /\ servedAt = [id \in JobId |-> {}]

-----------------------------------------------------------------------------
(* The daemon. *)
TickAt(t, label) == tick' = [tick EXCEPT ![t] = label]

(* start(): await this.store.load() *)
Start(t) ==
  /\ service = "down"
  /\ tick[t] = "off"
  /\ service' = "loading"
  /\ TickAt(t, "start")
  /\ Begin(t, [op |-> "load"])
  /\ UNCHANGED <<runningJobs, due, cur, cliVars, exits, ghosts>>

(* this.running = true; await this.tick() *)
Started(t) ==
  /\ tick[t] = "start"
  /\ pc[t] = "done"
  /\ service' = "firstTick"
  /\ TickAt(t, "ready")
  /\ End(t)
  /\ UNCHANGED <<data, runningJobs, due, cur, cliVars, exits, ghosts>>

(* A tick begins: the first one from start(), the others from the timer. *)
TickBegins(t) ==
  /\ \/ service = "firstTick" /\ tick[t] = "ready"
     \/ service = "polling" /\ tick[t] = "off"
  /\ TickAt(t, "load")
  /\ Begin(t, [op |-> "load"])
  /\ UNCHANGED <<service, runningJobs, due, cur, cliVars, exits, ghosts>>

(* Faulty variant: the tick takes every enabled job, due or not. *)
TickLoadedEnabled(t) ==
  /\ tick[t] = "load"
  /\ pc[t] = "done"
  /\ due' = [due EXCEPT ![t] =
               [id \in {j \in DOMAIN text[t] : /\ text[t][j].enabled
                                              /\ finished[j] < MaxRuns}
                  |-> text[t][id]]]
  /\ TickAt(t, "loop")
  /\ End(t)
  /\ UNCHANGED <<data, service, runningJobs, cur, cliVars, exits, ghosts>>

(* getDueJobs(Date.now()) over the list the load has returned; a job that   *)
(* has had MaxRuns sessions is left alone, to bound the model.              *)
TickLoaded(t) ==
  /\ tick[t] = "load"
  /\ pc[t] = "done"
  /\ due' = [due EXCEPT ![t] =
               [id \in {j \in DueJobs(text[t], now) : finished[j] < MaxRuns}
                  |-> text[t][id]]]
  /\ TickAt(t, "loop")
  /\ End(t)
  /\ UNCHANGED <<data, service, runningJobs, cur, cliVars, exits, ghosts>>

IsRunning == service \in {"firstTick", "polling"}

(* Faulty variant: one session too many. *)
SlotFreeInclusive ==
  MaxConcurrentSessions = 0 \/ Cardinality(runningJobs) <= MaxConcurrentSessions

SlotFree ==
  MaxConcurrentSessions = 0 \/ Cardinality(runningJobs) < MaxConcurrentSessions

(* The jobs of the list that the loop would not pass over now. *)
Eligible(t) ==
  IF IsRunning /\ SlotFree
  THEN {id \in DOMAIN due[t] : NameOf[id] \notin runningJobs}
  ELSE {}

(* The loop visits the jobs in array order, which a store does not keep:    *)
(* any eligible job may come first, after some that are passed over.        *)
Visit(t, id) ==
  /\ id \in Eligible(t)
  /\ cur' = [cur EXCEPT ![t] = [id |-> id, job |-> due[t][id]]]
  /\ \E passed \in SUBSET (DOMAIN due[t] \ Eligible(t)) :
       due' = [due EXCEPT ![t] =
                 [i \in DOMAIN due[t] \ (passed \cup {id}) |-> due[t][i]]]

(* Faulty variants: the slot is taken under the id, the next run is not     *)
(* saved before the session, the run is counted before it has happened.     *)
TakeSlotById(t, id, job) ==
  /\ runningJobs' = runningJobs \cup {id}
  /\ TickAt(t, "advance")
  /\ Begin(t, [op |-> "advance", id |-> id,
               next |-> ComputeNextRunAtMs(job.schedule, now)])
TakeSlotUnsaved(t, id, job) ==
  /\ runningJobs' = runningJobs \cup {NameOf[id]}
  /\ TickAt(t, "advance")
  /\ Begin(t, [op |-> "load"])
TakeSlotCounting(t, id, job) ==
  /\ runningJobs' = runningJobs \cup {NameOf[id]}
  /\ TickAt(t, "advance")
  /\ Begin(t, [op |-> "record", id |-> id, runs |-> job.runs + 1])

(* runningJobs.add(name), then updateState with the next run from now on *)
TakeSlot(t, id, job) ==
  /\ runningJobs' = runningJobs \cup {NameOf[id]}
  /\ TickAt(t, "advance")
  /\ Begin(t, [op |-> "advance", id |-> id,
               next |-> ComputeNextRunAtMs(job.schedule, now)])

StartJob(t) ==
  /\ tick[t] = "loop"
  /\ ~HasBeforeRun
  /\ \E id \in DOMAIN due[t] : Visit(t, id) /\ TakeSlot(t, id, due[t][id])
  /\ UNCHANGED <<service, cliVars, exits, ghosts>>

(* await onBeforeRun(job) *)
AskBeforeRun(t) ==
  /\ tick[t] = "loop"
  /\ HasBeforeRun
  /\ \E id \in DOMAIN due[t] : Visit(t, id)
  /\ TickAt(t, "hook")
  /\ UNCHANGED <<storeVars, service, runningJobs, cliVars, exits, ghosts>>

BeforeRunAgrees(t) ==
  /\ tick[t] = "hook"
  /\ TakeSlot(t, cur[t].id, cur[t].job)
  /\ UNCHANGED <<service, due, cur, cliVars, exits, ghosts>>

BeforeRunDeclines(t) ==
  /\ tick[t] = "hook"
  /\ TickAt(t, "loop")
  /\ cur' = [cur EXCEPT ![t] = NoJob]
  /\ UNCHANGED <<storeVars, service, runningJobs, due, cliVars, exits, ghosts>>

(* executeJob is called; the observer notes the due instant it serves. *)
SessionStarts(t) ==
  /\ tick[t] = "advance"
  /\ pc[t] = "done"
  /\ TickAt(t, "session")
  /\ servedAt' = [servedAt EXCEPT ![cur[t].id] = @ \cup {cur[t].job.next}]
  /\ End(t)
  /\ UNCHANGED <<data, service, runningJobs, due, cur, cliVars, exits, finished>>

(* Faulty variant: the slot is not given back. *)
SessionEndsKeepingSlot(t) ==
  /\ tick[t] = "session"
  /\ finished' = [finished EXCEPT ![cur[t].id] = @ + 1]
  /\ TickAt(t, "record")
  /\ Begin(t, [op |-> "record", id |-> cur[t].id, runs |-> cur[t].job.runs + 1])
  /\ UNCHANGED <<service, runningJobs, due, cur, cliVars, exits, servedAt>>

(* finally: runningJobs.delete(name), then updateState with the result *)
SessionEnds(t) ==
  /\ tick[t] = "session"
  /\ runningJobs' = runningJobs \ {NameOf[cur[t].id]}
  /\ finished' = [finished EXCEPT ![cur[t].id] = @ + 1]
  /\ TickAt(t, "record")
  /\ Begin(t, [op |-> "record", id |-> cur[t].id, runs |-> cur[t].job.runs + 1])
  /\ UNCHANGED <<service, due, cur, cliVars, exits, servedAt>>

Recorded(t) ==
  /\ tick[t] = "record"
  /\ pc[t] = "done"
  /\ TickAt(t, "loop")
  /\ cur' = [cur EXCEPT ![t] = NoJob]
  /\ End(t)
  /\ UNCHANGED <<data, service, runningJobs, due, cliVars, exits, ghosts>>

(* The loop is over; after the first tick the timer is set. *)
TickEnds(t) ==
  /\ tick[t] = "loop"
  /\ Eligible(t) = {}
  /\ TickAt(t, "off")
  /\ due' = [due EXCEPT ![t] = NoJobs]
  /\ service' = IF service = "firstTick" THEN "polling" ELSE service
  /\ UNCHANGED <<storeVars, runningJobs, cur, cliVars, exits, ghosts>>

(* A store call inside a tick of the timer throws: "Tick error", the tick   *)
(* is over, and what it has put into runningJobs stays there.               *)
TickFails(t) ==
  /\ service \notin {"loading", "firstTick"}
  /\ tick[t] \in {"load", "advance", "record"}
  /\ pc[t] = "failed"
  /\ TickAt(t, "off")
  /\ due' = [due EXCEPT ![t] = NoJobs]
  /\ cur' = [cur EXCEPT ![t] = NoJob]
  /\ End(t)
  /\ UNCHANGED <<data, service, runningJobs, cliVars, exits, ghosts>>

(* SIGTERM or SIGINT: service.stop() clears the timer and `running`. *)
Stop ==
  /\ service \in {"loading", "firstTick", "polling"}
  /\ exits < MaxExits
  /\ service' = "stopping"
  /\ UNCHANGED <<storeVars, runningJobs, tick, due, cur, cliVars, exits, ghosts>>

DaemonGone ==
  /\ service' = "down"
  /\ runningJobs' = {}
  /\ tick' = [t \in Tick |-> "off"]
  /\ due' = [t \in Tick |-> NoJobs]
  /\ cur' = [t \in Tick |-> NoJob]
  /\ ProcessDies(Daemon)
  /\ UNCHANGED <<cliVars, ghosts>>

(* The end of shutdown(), process.exit(0), or a crash. *)
Exit ==
  /\ service # "down"
  /\ exits < MaxExits
  /\ exits' = exits + 1
  /\ DaemonGone

(* start() throws when its load or its first tick does: the CLI gives up. *)
StartThrows(t) ==
  /\ service \in {"loading", "firstTick"}
  /\ tick[t] # "off"
  /\ pc[t] = "failed"
  /\ UNCHANGED exits
  /\ DaemonGone

-----------------------------------------------------------------------------
(* The CLI.  A command is a process: its store is gone when it returns. *)
CliAt(u, label) == cli' = [cli EXCEPT ![u] = label]

(* add, remove, enable and disable are one call of the store, status a load. *)
OneCall ==
       [op : {"load"}]
  \cup [op : {"add"}, id : JobId \ issued, schedule : JobSchedules]
  \cup [op : {"remove"}, id : issued]
  \cup [op : {"setEnabled"}, id : issued, enabled : BOOLEAN]

Command(u) ==
  /\ cli[u] = "idle"
  /\ \E c \in OneCall :
       /\ c.op \in Commands
       /\ Begin(u, c)
       /\ issued' = IF c.op = "add" THEN issued \cup {c.id} ELSE issued
  /\ CliAt(u, "command")
  /\ UNCHANGED <<svcVars, target, exits, ghosts>>

CliExits(u) ==
  /\ CliAt(u, "idle")
  /\ target' = [target EXCEPT ![u] = NoJob]
  /\ data' = [data EXCEPT ![ProcOf[u]] = NoData]
  /\ UNCHANGED <<svcVars, issued, exits, ghosts>>

CommandEnds(u) ==
  /\ cli[u] \in {"command", "runRecord"}
  /\ End(u)
  /\ CliExits(u)

(* run <id>: load and get, executeJob, updateState *)
Run(u, id) ==
  /\ cli[u] = "idle"
  /\ "run" \in Commands
  /\ finished[id] < MaxRuns
  /\ Begin(u, [op |-> "load"])
  /\ CliAt(u, "runLoad")
  /\ target' = [target EXCEPT ![u] = [id |-> id]]
  /\ UNCHANGED <<svcVars, issued, exits, ghosts>>

RunStarts(u) ==
  /\ cli[u] = "runLoad"
  /\ pc[u] = "done"
  /\ target[u].id \in DOMAIN text[u]
  /\ target' = [target EXCEPT ![u] = [id |-> @.id, job |-> text[u][@.id]]]
  /\ CliAt(u, "runSession")
  /\ End(u)
  /\ UNCHANGED <<data, svcVars, issued, exits, ghosts>>

(* "Job not found", or the load has thrown. *)
RunFails(u) ==
  /\ cli[u] = "runLoad"
  /\ \/ pc[u] = "failed"
     \/ pc[u] = "done" /\ target[u].id \notin DOMAIN text[u]
  /\ End(u)
  /\ CliExits(u)

(* executeJob throws inside its catch, when the error log cannot be written: *)
(* the command dies and records nothing.                                    *)
RunThrows(u) ==
  /\ cli[u] = "runSession"
  /\ CliExits(u)
  /\ UNCHANGED <<main, tmp, pc, call, text, fd, saving, now>>

RunEnds(u) ==
  /\ cli[u] = "runSession"
  /\ finished' = [finished EXCEPT ![target[u].id] = @ + 1]
  /\ Begin(u, [op |-> "record", id |-> target[u].id,
               runs |-> target[u].job.runs + 1])
  /\ CliAt(u, "runRecord")
  /\ UNCHANGED <<svcVars, target, issued, exits, servedAt>>

-----------------------------------------------------------------------------
StoreSteps(t) ==
  /\ StoreStep(t)
  /\ UNCHANGED <<svcVars, cliVars, exits, ghosts>>

ClockAdvances ==
  /\ now < MaxNow
  /\ now' = now + 1
  /\ UNCHANGED <<main, tmp, data, pc, call, text, fd, saving>>
  /\ UNCHANGED <<svcVars, cliVars, exits, ghosts>>

TickStep(t) ==
  \/ Started(t) \/ TickBegins(t) \/ TickLoaded(t) \/ StartJob(t)
  \/ AskBeforeRun(t) \/ BeforeRunAgrees(t) \/ BeforeRunDeclines(t)
  \/ SessionStarts(t) \/ SessionEnds(t) \/ Recorded(t) \/ TickEnds(t)
  \/ TickFails(t) \/ StartThrows(t)

CliStep(u) ==
  Command(u) \/ CommandEnds(u) \/ (\E id \in issued : Run(u, id))
  \/ RunStarts(u) \/ RunFails(u) \/ RunThrows(u) \/ RunEnds(u)

Next ==
  \/ \E t \in Tick : Start(t) \/ TickStep(t)
  \/ \E u \in Cli : CliStep(u)
  \/ \E t \in Thread : StoreSteps(t)
  \/ Stop \/ Exit \/ ClockAdvances

Spec == Init /\ [][Next]_vars

(* A file-system call returns, the timer fires, a session ends: executeJob  *)
(* has a maximum duration.  Starting the daemon, its exits and CLI commands *)
(* are up to the user.                                                      *)
Fairness ==
  /\ \A t \in Thread : WF_vars(StoreSteps(t))
  /\ \A t \in Tick : WF_vars(TickStep(t))

FairSpec == Spec /\ Fairness

-----------------------------------------------------------------------------
InSession == {t \in Tick : tick[t] = "session"}
Holding == {t \in Tick : tick[t] \in {"advance", "session"}}

(* The daemon never runs more sessions than maxConcurrentSessions, whatever *)
(* ticks overlap and whatever store calls throw (service.ts:70).            *)
ConcurrencyLimit ==
  MaxConcurrentSessions > 0 => Cardinality(InSession) <= MaxConcurrentSessions

(* Two overlapping ticks never run the same job, nor two jobs of the same   *)
(* name, at the same time (service.ts:69).                                  *)
OneSessionPerName ==
  \A t, u \in Holding : t # u => NameOf[cur[t].id] # NameOf[cur[u].id]

(* service.ts:71 "Max concurrent sessions reached": every slot counted      *)
(* against the limit is held by a tick that runs, or is about to run, a     *)
(* session of that name.                                                    *)
SlotsBelongToSessions == runningJobs = {NameOf[cur[t].id] : t \in Holding}

(* A due instant is served once: a job picked up for it is not started for  *)
(* it again, also when the daemon dies during the session and is restarted, *)
(* because nextRunAtMs is saved before the session starts (service.ts:82).  *)
ServesNewInstants ==
  \A t \in Tick :
    SessionStarts(t) => cur[t].job.next \notin servedAt[cur[t].id]
NoInstantServedTwice == [][ServesNewInstants]_vars

(* service.ts:1 "checks for due jobs and executes them": when a session     *)
(* starts its job is enabled in the persisted list, and was due when the    *)
(* slot was taken.                                                          *)
TakesSlotWhenDue ==
  \A t \in Tick :
    tick[t] # "advance" /\ tick'[t] = "advance" =>
      /\ main \notin Unparsable
      /\ cur'[t].id \in DueJobs(main, now)
StartsOnlyDueJobs == [][TakesSlotWhenDue]_vars

(* The run count of a job never exceeds the sessions it has had, not even   *)
(* in a file that a crash or a lost update has left behind.                 *)
RunCountNeverOverstates ==
  \A c \in {main, tmp} \ Unparsable :
    \A id \in DOMAIN c : c[id].runs <= finished[id]

(* A job that is due while the daemon polls is eventually served, disabled  *)
(* or removed, unless the daemon is stopped: no tick that gives up and no   *)
(* slot that stays taken keeps it waiting for ever.  A hook may: it is      *)
(* assumed to decline only so many times.                                   *)
IsDue(id) ==
  /\ main \notin Unparsable
  /\ id \in DueJobs(main, now)
  /\ finished[id] < MaxRuns
DueJobsAreServed ==
  LET HookGivesWay == <>[][~\E t \in Tick : BeforeRunDeclines(t)]_vars
  IN  HookGivesWay =>
        \A id \in JobId :
          (service = "polling" /\ IsDue(id)) ~> (service # "polling" \/ ~IsDue(id))
=============================================================================
