# A verification development of a-exp

a-exp is a scheduler for research agents: a daemon that starts codex sessions
for jobs when they are due, a command line that edits the jobs, a runner for
long experiments, a Slack interface, and tools that check and report on what
the sessions did. This directory holds TLA+ specifications of its core, TLC
configurations that check them, and proofs checked by TLAPS. Paths below are
relative to the repository; `store.ts` without a directory is in
`infra/scheduler/src/`.

## The system

| Part | State it keeps | Operations | Talks to |
|---|---|---|---|
| Schedules (`schedule.ts`) | none | `computeNextRunAtMs`, the fingerprint in `store.ts` | croner |
| Job list (`store.ts`) | `jobs.json`, `jobs.json.tmp`, `this.data` per process | `load` (recovers, reconciles), `add`, `remove`, `updateState`, `setEnabled`, `getDueJobs`, `save` | the file system, shared by all processes |
| Scheduler service (`service.ts`) | `running`, the timer, `runningJobs` | `start`, `tick`, `stop` | job list, executor, hooks |
| Commands (`cli.ts`) | none of their own | `add`, `remove`, `enable`, `disable`, `run`, `status`, `start`, `stop` | job list, executor, pid file |
| Instance guard, API (`instance-guard.ts`, `api/server.ts`, `cli.ts`) | the pid file, a TCP port | check, acquire, release, wait for start, stop | signals |
| Experiment runner (`infra/experiment-runner/run.py`) | lock file, `progress.json`, a child process | canary, run, retry, signal handler, budget gate, detach | the child, the watcher |
| Watcher (`experiments.ts`) | tracked and emitted experiments, a timer | launch, track, discover, poll, stop | `progress.json`, pids, Slack callbacks |
| Sessions (`agent.ts`, `backend.ts`, `session.ts`, guards, `executor.ts`) | session registry, timers, the codex process | spawn, message handler, interrupt, timeout, end | codex, metrics, Slack |
| Slack (`slack.ts`, `reference-implementations/slack/`) | threads, living messages, markers, preferences | message handler, update, finalise, persist | Slack, sessions |
| Pure parts (`verify.ts`, `validate.py`, `report/`, `metrics.ts`, `model-tiers.ts`, `security.ts`, `workspace.ts`, `notify.ts`) | files they read or append to | checks, formatting, parsing | - |

What is hard about it:

* **Nothing is locked.** The daemon and every command load, change and save the
  whole job list; all saves go through the one file `jobs.json.tmp`.
* **Ticks overlap.** After the first tick the timer starts one every poll
  interval, while earlier ones still await a session. They share `this.data`
  and `runningJobs`, and each goes on through a list it loaded long ago.
* **Processes die** between truncating, writing and renaming, and between
  saving a job's next run and finishing its session.
* **Store calls throw** (a rename finds its file gone), in the middle of a tick.
* **Time is late.** A tick may come any number of intervals after a due instant.
* **One file, several writers.** Runner, signal handler, refused runners' audits
  and the watcher all write `progress.json`; the approval queue, ledgers and
  task lists are edited by sessions, people and Slack calls at once.
* **Handlers overtake each other.** Lines of a codex stream, their handlers that
  await Slack, three guards, a timer and the exit of the process have no fixed
  order; nor have the answers to the calls that keep a message in Slack up to date.
* **One rule, several readers.** Budgets, approvals, provenance and footers are
  each checked by two or three implementations, in two languages.

What makes each part correct:

* Schedules: a computed time lies after the moment it is computed; an anchored
  interval keeps its grid; running a job moves its time forward.
* Job list: to one caller, an atomic list that survives a crash before or after
  an operation and never in between; next runs follow the schedules in the file.
* Service: the session limit, one session per name, slots that come back, one
  session per due instant, starts only of due jobs, and no due job left waiting.
* Guard: one service per workspace, a pid file that names it, a SIGTERM that ends it.
* Runner and watcher: attempts that end, a stop that is a stop, no run left open
  by a crash, an end that is reported.
* Sessions: each ends and is reported; a guard that fires is in the verdict; the
  stall timer outlives no call.
* Verification: what a session used, blocked or wasted is seen however commits and
  runs interleave with the looks; and the readers of one rule agree.
* Approvals: a decision spares other requests; no write loses a request its call
  has read; a tag that outlives its decision is reported.
* Living messages: none says that a session is over before the session has sent a
  result or ended, and an update that was put off is sent or superseded by the end.

## Modules

| Module | Models | Built on |
|---|---|---|
| `Schedule` | `computeNextRunAtMs`, `scheduleFingerprint` | - |
| `JobTimer` | `nextRunAtMs` of one job over creation, ticks, enables | `Schedule` |
| `Jobs` | jobs, stores, the operations as functions of a store | `Schedule` |
| `JobTable` | what the job list promises one caller: atomic operations, no files | `Jobs` |
| `JobStore` | the class `JobStore`: one action per file-system effect or continuation | `Jobs` |
| `StoreClients` | processes that call the store in any order and may die; an editor | `JobStore`, refines `JobTable` |
| `Scheduler` | the daemon's ticks and the commands on one job list | `JobStore` |
| `Lifecycle` | pid file, API port, daemons, `start` and `stop` commands | - |
| `ExperimentRunner` | runner processes of `run.py` on one experiment directory | - |
| `ExperimentWatcher` | the watcher of `experiments.ts` over that directory | `ExperimentRunner` |
| `AgentSession` | one codex session: process, stream, guards, registry, caller | - |
| `SessionChecks` | the checks of `verify.ts` as operators on a repository's changes | - |
| `ExperimentValidator` | the same rules in `validate.py` | `SessionChecks` |
| `ProjectBudget` | the readers of `budget.yaml` and `ledger.yaml` | - |
| `WorkSession` | a session at work, its runs and the two looks of `verifySession` | the three above |
| `ApprovalQueue` | `APPROVAL_QUEUE.md`, tags, `notify.ts`, verifier and validator | - |
| `LivingMessage` | the message of a chat session in Slack, its updates, its end and its record on disk | - |
| `*_proofs` | lemmas and theorems of the module they are named after; `JobStore_proofs` begins with `Schedule`, `StoreClients_proofs` ends with `JobTimer`, `AgentSession_proofs` with `LivingMessage`, `Experiments_proofs` is about `ExperimentRunner` and `ExperimentWatcher` | each other where cited |
| `MC*` | instances for TLC | |

How they correspond to the code:

* **Schedule.** Instants are naturals of milliseconds. `SecondMs` is 1000 in
  the code and a parameter here. What a cron expression means in a time zone is
  croner's, so `Occurrences` gives it as a set of instants; `CronNextRun` is
  `Cron.nextRun`, strictly after its argument. Time zone and anchor are left
  out of `ScheduleFingerprint`, as in the code.
* **Jobs.** A store maps ids to `enabled`, `schedule`, `next` (`nextRunAtMs`),
  `fingerprint` and `runs` (`runCount`, which stands for the `last*` fields that
  the same assignment writes). `updateState` appears with its two patches:
  `advance` before a session and `record` after it. The order of the array only
  decides which due job a tick visits first: `Scheduler` leaves it open.
* **JobStore.** A thread is a chain of awaits; threads of one process share
  `data`. `pc` names the point of the code a call has reached: `readMain`,
  `parse`, `readTmp`, `promote` (the rename of recovery), `legacy`, `save`
  (mkdir), `open`, `write`, `rename`, `resume` (back in the operation after the
  save of a load). `writeFile` is two steps, truncation and writing: a file in
  between is `Empty`. An open file is followed when it is renamed (`fd`), and
  two writers over each other may leave `Torn` content; neither parses.
* **StoreClients.** The calls a command or a tick may make, ids only after
  `add` has printed them, a process that dies at any point, and a user's editor.
* **Scheduler.** `service` is the daemon between `start()` and its exit. Each
  tick is at one of the awaits of `tick()`: `load`, `hook` (onBeforeRun),
  `advance` and `record` (the two `updateState`s), `session` (`executeJob`); or
  at `loop`, between two jobs. `due` is the list it loaded and still has to
  visit, `cur` the job it is at, both as they were when loaded. A store call
  that throws ends a tick (`TickFails`) or the start (`StartThrows`). A command
  is a process of its own. `finished` and `servedAt` only observe.

* **Lifecycle.** Daemons (begun by a `start` command that spawns one and waits, or
  by hand with `start --foreground`), `start` and `stop` commands are processes;
  every synchronous stretch between two effects on the pid file or the port is one
  step. `port` is the listening socket, which the kernel gives to one process.
  `SIGTERM` before the handlers are installed kills; afterwards it starts
  `Shutdown`, also in the middle of the start. `Shutdown` gives the port up and
  may await the close of the server (`closing`), and the start goes on meanwhile:
  `StartService` may set `running` after the stop, and may throw, as the bind and
  the first tick may (`Catch`). `crowded` only observes: a command began, or gave
  up, while another start or shutdown was under way.
* **ExperimentRunner.** `pc` is a runner's place in `run_experiment`, `mem` its
  dictionary `progress`. `write_progress` is two steps, and `HandleSignal` may
  come between them. The lock file is an inode named by its creator, so that
  unlinking the path and locking the old inode are different things. A fault is
  a signal (handled, or deadly without handlers) or a kill. Success rates, waste
  and new rows decide the outcome of an attempt in the code and are a choice in
  `Outcome`.
* **ExperimentWatcher.** Reading `progress.json` and acting on it are two steps.
  `Stop` ends the scheduler and empties the maps, `Start` begins with a discovery,
  and between the two any time may pass: `Age` makes an end older than the seven
  minutes (`old`) within which a discovery reports it. While the scheduler runs,
  discoveries are at most six polls of a minute apart, so an end grows old only
  while it is down or its first discovery is under way. A failing canary writes
  twice, first without `finished_at`.
* **AgentSession.** The child writes lines, and its calls overlap with one another,
  with messages, turns and errors; `ReadLine` consumes one. Commands are classes by
  what a line shows of them: the sleep of a `late` command lies behind the 80th
  character of its summary, a `script` has several lines. `open` counts the calls
  the stall guard can see, and the others. The handler of a DM awaits Slack before
  the guards see the message (`posting`), the one of a job does not. `Settle` is the
  promise of the codex process, `report` what the
  executor or the DM handler makes of it.
* **SessionChecks, ExperimentValidator, ProjectBudget.** A change is an added line
  of a file, abstracted to what the checks tell apart (a log entry, a task, a
  task with a blocker, a footer with an empty value, ...). A check is an operator
  that returns what it warns about. A record may have its Model line in Config, or
  anywhere else, and may have no Config or Method section at all. `Left` is how far
  a deadline is, in the classes that the three readers of a budget tell apart.
* **WorkSession.** The session edits, launches runs (`Launch`: mandatory flags,
  budget gate) and commits; runs end (`RunnerEnds`, with the audit) and others
  commit at any time, also between `CheckTree` and `CheckCommits`, the two halves
  of `verifySession`.
* **ApprovalQueue.** The Pending section is a sequence of lines. A call of
  `notify.ts` reads the file in one step and writes it in another, with an item
  (`held`) that was parsed at any earlier time. Of a text there are its long words
  in order, and what it is a part of: `Matches` is the verifier's rule (words that
  occur within a title, each as often as the text has it), `TaskMatches` the
  validator's (sets of whole words).
* **LivingMessage.** An object of `living-message.ts` is its number in `lms`, and
  timers and calls keep hold of it after its key has gone to another session of
  the thread. `calls` is the bag of calls of Slack and the file system under way;
  each is answered in an action of its own (`Answer`), in any order, and one that
  fails may have had its effect. The text of a message is its state, `shown`;
  `posts` are the messages posted instead of an update. `lastUpdated` holds the
  keys updated in the last three seconds. Which sessions there are, and how they
  end, is left open but for the order of `agent.ts` (unregistered, then reported).
  Any message of a session may be a result, and others may follow it: codex sends
  one at each `turn.completed` and each error line.

`PROJECT.json` gives the lines of every definition.

## Runs

| Run | Instance | Result |
|---|---|---|
| `job_timer` | 18 schedules (intervals of 1, 3, 4 with anchors before, inside and beyond the horizon or none; three cron schedules), 12 ms, seconds of 2 ms | anchored intervals keep their grid, times lie in the future, runs move time forward |
| `store_single` | one caller, two ids, an interval and a cron schedule, edits, a legacy list without fingerprints, deaths anywhere, clock to 1 | implements `JobTable`; added jobs persist; no half-written `jobs.json`; next runs follow schedules |
| `daemon_serial` | one tick at a time with an onBeforeRun hook, two jobs, limit 1, two exits or crashes, clock to 4, two sessions per job | types; slots are exactly the sessions; no due instant served twice; only due jobs start; due jobs are served (liveness) |
| `daemon_overlap` | two overlapping ticks, two jobs, limit 1, throwing stores | at most one session |
| `daemon_and_cli` | a tick with an onBeforeRun hook and any command but `add`, one job, one crash | run counts in files never exceed the sessions |
| `lifecycle` | two daemons, each begun by a `start` command or by hand, two `stop` commands, a stale pid file, starts that throw, crashes anywhere | one service at most that has not begun to shut down; a pid file that names it when commands come one at a time; SIGTERM ends a daemon (liveness) |
| `experiment_runner` | two runners, one retry, one signal or kill | types with the bound on attempts; no attempt after a stop |
| `experiment_watch` | a runner, one retry, two signals, kills or ends of the daemon, which stays down for any time, a discovery every second poll | a dead run is closed, an end is reported unless it grew old unseen (both liveness) |
| `agent_session` | a job's or a DM's session of three lines, two calls open at once | the timer outlives no call; success means no guard fired; a session is reported (liveness) |
| `session_verdict` | two projects, two edits, two commits, runs with results or without, a budget of 10 and of 0, ledger amounts 1 and 9 | no missed resource use, blockers, agreement of verifier, validator, gate, audit and Slack view; waste is no work |
| `approvals` | two tasks, one with a repeated word that the other's title has, one with parts of its title's words; three calls, one held item, three lines, two entries | no write loses what it has read; stale tags are found by both; decisions spare others |
| `living_messages` | two sessions of one thread, two messages each, results among them, two posts, two calls under way, with and without records | nothing says that a session is over before a result of its own; no deferred update is stranded |

Bounds. An interval of 2 with a clock to 4 lets a job become due, be served,
and become due again, with ticks late by a whole interval; two crashes put one
before a save has been renamed and one after. Two ticks and two jobs give every
order of test, slot, save and session; a third tick adds no new pair, and the
theorems cover any number. In `store_single` one id is taken from the legacy
list and one is added, so every operation meets both. `MaxRuns` stops a job
after that many sessions (`TickLoaded`, `Run`); `MaxExits` bounds exits and
crashes. `JobStore` itself has no bound.

`Lifecycle` has none: each process runs once. `MaxFaults` bounds signals, kills
and ends of the daemon; one is enough for each race of a handler with a write, and the
theorems of `ExperimentRunner` cover any number, and any number of runners.
The watcher's instance has one runner, so the rewriting by a refused runner
(below) is in `experiment_runner` only. `MaxLines` of three lets two calls
start and one end, or a call start, a message or a turn follow, and the call end.
In `session_verdict` the second project may write only a log entry and a blocked
task. The first writes none of sixteen lines that are to every property as another
one that is there (a note, a question and a decision as a log entry with a finding,
a finding with its source as one without), or that only add warnings of their own
(`MCUnwritten`); the theorems about `WorkSession` cover all of them. Two edits and a launch
set up every pair of lines a check relates; `ManyFiles` is 2 instead of 10. In
`approvals` the tasks are such that the two rules differ in both directions; three
calls give every pair of a read and a write, and one more before or after them;
the item of each may be of any age; three lines hold two requests with the blank
line between them. By hand only "modified" is decided there (`ByHand`), since
another decision by hand does what a call does that reads and writes at once; the
theorems cover any. In `living_messages` two sessions share the thread,
which is what gives a key to another object; `MaxMessages` of two let one update
be sent and one be put off, and two calls (`MaxCalls`) give every pair of answers;
`MaxPosts` bounds the messages that are created. The theorems have no such bound.

### Known divergences

The modules, or the reading of the code for them, show where the code does not do
what it says or what one would expect. These are not kept as runs; the properties
above are stated so that they hold beside them.

* An `updateState` that throws before a session keeps its slot
  (`service.ts:81`): the name is added before the call and deleted only after
  `executeJob`, so a rename that finds `jobs.json.tmp` gone (another save has moved
  it) leaves it there, and with the default limit of 1 no job starts again. With
  `SlotsBelongToSessions` as the invariant of `daemon_overlap` TLC shows it, and
  with two ticks `DueJobsAreServed` fails for the same reason.
* A cron occurrence at the start of the next second is skipped, although
  `schedule.ts:12` says "strictly after now".
* Without `anchorMs` the grid of an interval job starts at the present moment,
  not at the creation time as `types.ts:17` says: every late tick moves it.
* Two processes on one job list: the later save drops the job the earlier one
  added (`AddedJobsPersist` with two clients); and a load that meets another
  save's truncated file takes the empty list, and the next save writes it.
* A tick starts a job that an overlapping tick has served meanwhile
  (`StartsOnlyDueJobs` with two ticks), or that was disabled or removed while it
  awaited another job's session.
* `ConcurrencyLimit` fails with `HasBeforeRun = TRUE` and two ticks, since the
  slot is tested before the hook is awaited and taken after it. No caller in
  the repository passes a hook.
* `NextRunFollowsSchedule` fails when an edit changes only the time zone, which
  the fingerprint does not contain; and when a tick saves the time of a
  schedule it loaded before an edit.
* The run count is not exact when the daemon and `run` execute one job at the
  same time, or when the daemon dies in a session.
* `sleep-guard.ts:1` speaks of detecting sleep commands beyond the limit, but the
  guard reads a summary that `backend.ts:145` has cut to 80 characters, and matches
  it on one line: a sleep behind that, or in a script of several lines, goes
  unseen, and the session may succeed. `SuccessMeansUnguarded` is about the sleeps
  that a line shows, and about whole commands only in `tool_use` blocks.
* A diagnosis or a failed experiment is evidence for an external blocker, say the
  comments at `verify.ts:354` and `380`; at 367 the code accepts an abandoned one
  too, and `UnsupportedBlockerIsReported` allows it.
* A result means that the session is completing, says the comment at
  `slack.ts:1165` of the reference implementation, and the message is finalised.
  Codex sends one at every `turn.completed` and error line, and the next message of
  the session posts a second living message that shows it at work.
  `OnlyItsResultEndsIt` therefore speaks of sessions that have sent no result.
* With two `start` or `stop` commands at once the pid file may be removed or may
  name a daemon that gave up, while another one serves.
* A shutdown that finds the start at its load gives the port up and awaits the
  close of the API server, while the start sets `running` and polls
  (`service.ts:34`): until that shutdown exits, a second daemon may bind and serve
  beside it. `OneServiceRuns` counts the services that have not begun to shut down.
* A stop request in the delay between two attempts is lost (`run.py:1162`), one
  between the last write and the end leaves the status at `stopping` until the
  watcher closes the run, and a stop before the handlers are installed kills the
  runner and leaves the command running.
* Three runners can hold the lock two at a time: `release_lock` unlinks the path
  after it has unlocked it. A refused runner's audit writes an old
  `progress.json` back over the running one's.
* The watcher may report a run as failed whose runner then writes `completed`,
  and never closes one that was killed during its canary. A runner killed between
  the two writes of a failing canary leaves `canary_failed` without `finished_at`,
  which no discovery reports.
* An end that a discovery first meets after seven minutes is not reported
  (`experiments.ts:384`; the comment at 361 says two), so a daemon that is down for
  longer loses it.
* `launchExperiment` (`experiments.ts:169`) passes `--detach` and never
  `--artifacts-dir`, which `run.py` demands of every detached run: the runner
  refuses every experiment launched through the API.
* The SIGKILL that should follow SIGTERM after five seconds is never sent, since
  `proc.killed` is set by the first signal (`backend.ts:583`). A pm2 violation
  interrupts the session and does not make its execution fail (`executor.ts:155`).
* One stall timer stands for all calls: a message, a result or the end of another
  call clears it while a call is still open (`agent.ts:218`), and such a call may
  hang until the session's maximum duration.
* `verify.ts` attributes every blocker of a diff to the first project the diff
  names (`verify.ts:343`), and any ledger entry of the day excuses any run.
* The runner's audit, which reads line by line, credits an entry that does not
  begin with its date to the experiment of the entry before.
* With a limit of 0 the budget gate refuses while the Slack report is green; the
  Slack report calls a deadline passed up to half an hour early, since it rounds to
  hours, and warns from 24 hours and a half on where the validator does from 24.
* The validator wants a Model line in Config or Method, and only if one of them has
  text (`validate.py:239`); the verifier is content with one anywhere in the body
  and warns where there is none (`verify.ts:2957`). `ValidatorAgrees` has one
  direction only, and only where Config or Method has text.
* The validator takes a denied request for an approved one, and the verifier does
  not know the decision "modified".
* The verifier takes another task's request for a task's own when a repeated word
  of the task, or parts of words, are in its title (`verify.ts:2189`): a waiting
  task without a request then goes unreported, or is reported as decided.
* A request that an agent appends, or a human moves, between the read and the write
  of a call of `notify.ts` is lost (`notify.ts:140`); so is a decision, whose
  request then stands in the file again.
* "Updates are coalesced to respect rate limits" (`living-message.ts:128`), but
  the interval counts from the answer to the last update: messages of the agent
  that arrive before an answer are each sent at once.
* A flush that is answered after the finalisation leaves the living message at
  "working" for good. Of two sessions in one thread the later takes the key: the
  earlier one's next message posts another living message for it, a timer may show
  its activity in the other's message, and its own is never finalised. The
  finalisation of one may drop the other's waiting patch unsent.
* A record on disk is left behind when it is written after the session was
  finalised. Nothing reads the records when the bot starts
  (`living-message-persistence.ts:3` says they indicate interrupted sessions).
* A scheduled job never has a living message: `notifySessionStarted` adds its
  watcher under the job's id (`executor.ts:143`), and no session has that id.

### Fairness

`DueJobsAreServed` assumes weak fairness of each thread's file-system calls and
of each tick's own steps. The first says that a file-system call returns; the
second that the timer fires, continuations run, and a session ends. The last is
what `maxDurationMs` is for (`agent.ts:246`), as long as the codex process obeys
SIGTERM (see the hazard at `backend.ts:583`). Nothing is assumed of exits,
starts of the daemon, commands or the clock. The property speaks of an id whose
job is due while the daemon polls; it is let off when the daemon stops.
It is checked for one tick at a time: with two, the slot leak refutes it. Of an
onBeforeRun hook it is assumed that it does not go on declining for ever
(`HookGivesWay`), as the property says itself; without a hook that is no assumption.

`TermEndsDaemon` assumes weak fairness of the handler's steps only: a process
handles its signals, and the connections of the API server, which are status
reports, end. No start has to get on. `OpenRunIsClosed` and `EndIsReported` assume
that a daemon which is down is started again at last (its operator's part: the
repository has no supervisor; without it `EndIsReported` would have nothing to
say of such a daemon, and `OpenRunIsClosed` would fail), that the watcher's timer
fires, that a runner which is alive goes on, and that a command ends at last, as
run.py itself assumes. `SessionIsReported` assumes that the
process reads its input and runs its timers, that the duration timer fires, and
that a child which has been sent SIGTERM exits; nothing is assumed of a child
that has not. The last is the condition under which sessions end in `Scheduler`.

## Proofs

| Theorem | For every value of the constants |
|---|---|
| `ComputeNextRunIsInTheFuture` | a computed time is null or later than the moment |
| `NextIsComputed`, `ComputedTimesAreInTheFuture`, `AnchoredIntervalsKeepTheirGrid`, `RunsMoveTimeForward` | the properties of `job_timer` |
| `StoreTypesHold` | types of the job list, for any callers |
| `StoreImplementsTable`, `AddedJobsStay`, `QuiescentFilesParse`, `NextRunsFollowSchedules` | the properties of `store_single`, among them the refinement of `JobTable`, for one caller |
| `SlotInvariance`, `OneSessionPerNameAlways`, `ConcurrencyLimitHolds` | slots of the daemon, for any overlapping ticks |
| `TypeInvariance`, `TypesHold` | types of daemon, commands, memory and files |
| `CopiesAreCounted`, `RunCountsNeverOverstate` | no copy of a job claims more runs than it had |
| `SerialSlotsAreHeld`, `SerialTicksStartDueJobs`, `SerialInstantsServedOnce` | the safety properties of `daemon_serial`, for one tick at a time |
| `PortInvariance`, `ServicesHoldThePort`, `AtMostOneServiceRuns` | however starts race past the pid file, are stopped half-way or throw, one service that has not begun to shut down, which holds the port |
| `SerialInvariance`, `ServingDaemonsAreFindable`, `LifecycleTypesHold` | with commands one at a time, the pid file names the running service |
| `RunnerInvariance`, `RunnerTypesHold`, `NoAttemptFollowsAStop` | at most `MaxRetries + 1` attempts, none after a stop request |
| `WatcherTypesHold`, `NoAttemptFollowsAStopWatched` | the same with the watcher, its stops and its writes |
| `TypesHold`, `SuccessHolds`, `StallTimerHolds` (`AgentSession`) | types and turn counts; success means no guard; the stall timer outlives no call, for any number of calls at once |
| `LivingInvariance`, `OnlyResultsEndMessages`, `DeferredUpdatesHaveTimers` | the properties of `living_messages`, for any sessions, threads, results and calls under way |
| `EvidenceInvariance`, `ResourceUseIsNeverMissed` | no run of a consuming experiment escapes the ledger check |
| `WorkTypesHold`, `BlockersAreReported`, `ValidatorAlwaysAgrees`, `WasteIsNeverWork` | the other properties of the verification |
| `LedgersInvariance`, `BudgetReadersAlwaysAgree` | gate, validator and Slack report agree on every ledger, limit and class of deadline, as far as their roundings allow |
| `AuditInvariance`, `UnbookedRunsAlwaysAgree` | the repository check and the audit of a run agree on what is not booked |
| `QueueInvariance`, `ApprovalTypesHold`, `ReadRequestsAreAlwaysKept`, `StaleTagsAreReportedTwice`, `DecisionsSpareOthers` | the properties of `approvals`, for any texts, titles and words |

Every invariant, action property and refinement that a passing run checks is
stated by one of these; what remains with TLC alone is liveness.

*Schedules.* `IntervalNextRunIsNextGridInstant` is the arithmetic: with the
floored division of the code the result is the one grid instant in
`(now, now + everyMs]`, also for an anchor in the future. For cron,
`LeastAfterExists` finds the least element of a set of naturals after a bound,
so `CHOOSE` in `CronNextRun` has a witness; `FloorToSecondBounds` puts the start
of the next second after now. `TimerInv` then says that `next` is the
computation of one moment not later than now: a due job's next run lies at or
before now, and what is computed now lies after now.

*Slots.* The limit alone is not inductive: a session has to be tied to its
place in `runningJobs`. `SlotInv` says that every tick that holds a slot
(`advance` or `session`) has its name in the set, that no two hold the same
name, and that the set is finite and within the limit. It says nothing of names
no tick stands for, so a slot that leaks does no harm to it: the set may only be
too large. Taking a slot (`SlotTaken`) uses that the tests and the addition run
without an await; every other step (`SlotsOfOthersKept`) takes a tick out of
the holders. The number of sessions is bounded by the injection from sessions
to names (`SessionsFitSlots`). The theorems assume `~HasBeforeRun`, which is how
`cli.ts` starts the service, and nothing about stores, files or the number of
ticks, jobs and commands.

*Types.* `StoreTypeOK` is not inductive either: a step that saves needs to know
that its process has loaded a store. `StoreInv` adds, for every point of a call,
what it may rely on (`ThreadOK`); `JobStore_proofs` shows that every step keeps
it, for any number of threads per process (`StoreStepKeepsInv`), and
`Scheduler_proofs` that every caller respects it (`TypeInv`: which call is in
progress at which point of a tick or a command, so that the result of a load is
used only as the result of a load). The theorem covers memory, files, the list
a tick visits, and the job it executes.

*One caller of the job list.* `SoleInv` is what a single caller may rely on at
each point of a call: while a save is under way the main file still holds the
list from before, the temporary file is absent, empty, or a list that is up to
date, and a load that finds only the temporary file promotes it. From it,
`StoreEffect` says of each step that it leaves the list a restart would find as
it is, brings its next runs up to date, or carries out the operation, once. That
is the refinement: `Durable` is that list, `Applied` says whether the operation
has been carried out, and each of the three cases is a stutter, a `Reconcile` or
an `Apply` of `JobTable` (`StoreImplementsTable`). In the table an operation
returns only when it has taken effect (`Return`), and its caller's death
(`ProcessDies`, which clears `alive` until the process is restarted) is the only
way out of one that has not; `DeadInv` says that a dead process is in no call, so
no return can pass for a death.
`KeptInv` adds that a job whose `add` has returned is in `Durable` until its
`remove` is called. The hypothesis `Thread = {c}` is needed: the divergences
listed above show what happens with two.

`NextRunsFollowSchedules` further assumes `FollowAssumption`: no `advance` (a
tick that saves a time it computed from a schedule it loaded earlier), cron
schedules that differ have different fingerprints (edits of the time zone alone
do not), and a first list that is up to date. `FollowInv` says that
every list in a file carries fingerprints, and that a time stored beside a
fingerprint is a time of every schedule with that fingerprint.

*One tick at a time.* With one thread the daemon is a single caller, so
`SoleInv` holds of it, and `DueListed` ties memory to file: what the tick has
still to visit is what the list holds, since every save in between is of the job
it is at. Slots are then exact (`SlotsExact`): a store call of a single caller
does not throw, which is what loses slots otherwise. `InstantInv` is about
time: every instant a job has been started for is in the past, every next run in
the file, or on its way there, lies behind all of them, and while the advanced
time is being saved the due instant is still unserved. A crash before the rename
leaves the due instant unserved and unstarted; one after it leaves a later time.
The hypotheses are `Tick = {t}` and `Cli = {}`; nothing is assumed of hooks,
limits, jobs, stops, crashes or the clock.

*Run counts.* A session writes the count of a copy that may be old by then, plus
one, and a save may carry any copy back into the file; so
`RunCountNeverOverstates`, which speaks of the files, is inductive only with
every other copy: `CountInv` adds `this.data`, the text on its way to or from a
file, the list and the job of a tick, the job of a `run` command and the call
that is to write a count (`StoreCounted`, `TicksCounted`, `CliCounted`). Sessions
are counted from the start of the behaviour; the theorems therefore assume
`FreshLists`, that the first list claims no runs.

*Lifecycle.* The pid file excludes nobody. `PortInv` therefore speaks of the port
only: a daemon that is bound, in its first tick or up owns it, unless it is closing
its server, and a service runs only there, or in a daemon whose shutdown has been
overtaken by its start and is at its end. That the file names the service needs more (`SerialInv`): while no
command is crowded, a daemon past its check is the only one alive, and the file
is its own from `AcquireLock` on; and what a command has read from the file, or
is waiting for, bounds what it may still remove.

*Runner.* A runner is where it is, or where it goes on after a rename (`Where`).
`RunnerInv` says for each: an attempt may begin only while one is left
(`AttemptLeft`); a child runs only between its spawn and its end, or was left
behind (`ChildKnown`); and who has handled a stop request while its child ran is
done, or is on the way to the test of the status with "stopping" in its
dictionary (`StopKept`). Each step is one runner's (`OneRunnerMoves`), whatever
the others have done to the files: the argument never looks at
`progress.json`, which is why no race on it can break the property.

*Watcher.* Its writes of `progress.json` and its signals are those `RunnerInv`
already allows for, as it says nothing of the file's contents beyond their type;
the types of `snap`, `polls` and `reports` are added.

*Sessions.* `CountInv` counts lines: each turn, message or step of a counter
stands for a line that has been read, and a message whose post is under way has
not been counted yet, which bounds the counters by `written`. `JobInv` follows
what the agent has done from the stream to the guards, and from the guards to
the result, which is their picture at the end: a long sleep that a line shows is on
the guard or still to be read, and an interrupt has left a reason. `StallInv` says
of the start of each call the stall guard can see, read or not, that the call is
under way or the line of an end follows it; so a timer that runs has its call, or
will be cleared when that line is read.

*Living messages.* What Slack shows was said by a call, so both properties need
what the calls may say: `LivingInv` has that a call under way, like an object,
says nothing of a session without a result but "working" (`CallOK`), that an object under
a key is of a session of that thread, and that timers and calls refer to objects
there are (`ObjectsOK`). An end is said of the session that was asked about only,
because `findLivingMessage` goes by the session and not by the key. For the
updates put off it is enough that the timer of a key is cancelled only by a
finalisation, whose answer drops what waits under the key; when several are under
way for one key, the first answer drops it for all.

*Ledger check.* `EvidenceInv` follows the progress file of a run: it is in the
tree from the launch on, dirty or landed, and between the two looks of
`verifySession` it either was dirty at the first, which warns, or has landed,
where the second finds it (`LandedRunIsReported`).

*Verification.* `TreeInv` is the type of the repository with the finiteness that
counting needs. `BlockerInv` uses that nothing moves after the last look, so that
what it warns of is the final tree; `CutInv`, that warnings of a footer come from
`FooterWarnings` only. `ValidatorAgrees` and `WasteIsNoWork` compare operators
field by field and file by file, and need no more than the types.

*Approvals.* The text is argued about as text. `ReplaceShape` says what
`String.replace` does with a string: nothing, or one occurrence gives way;
`ReplaceKeeps` that every other line is still there. `ApprovalInv` says that
whatever is held, or was read by a call under way, is the block of one request
(`IsItem`): so its removal takes one header at most, however old it is
(`DecisionOnText`). For `ReadRequestsAreAlwaysKept`, each step keeps what its call
has read: a write (`FinishRecords`) removes at most its own item's request, and a
decision leaves an entry for that; a request that is gone afterwards was therefore
not there when the call read the file. That both programs report a stale tag is an
argument about the two rules: of two texts of at least three words, half of the
shorter one's are at least two, and each occurs in the title at a place of its own
(`SharedWordsOccur`, `ValidatorsMatchIsTheVerifiers`). It needs
`WordsAreInTheText`, that a word of a text is a part of it, and nothing about
titles: they may share words, repeat them, or contain one another.

*Budget.* Agreement of the readers is arithmetic on any ledger of three totals
(`LedgersInv`); the one point a test would miss is that rounding a share to a
whole percentage never takes it below 90 or 100 once it is there
(`PercentReaches`). `AuditInv` adds that an audit which has credited calls to an
experiment leaves it named in the ledger for good, since entries are only added.

Assumptions of the constants are named in the modules (`ScheduleAssumption`,
`JobTimerAssumption`, `JobStoreAssumption`, `StoreClientsAssumption`,
`SchedulerAssumption`, `ChildOfAssumption`, `CommandAssumption`,
`NobodyAssumption`, `MaxRetriesAssumption`, `MaxFaultsAssumption`,
`NoneAssumption`, `DiscoverAssumption`, `AgentAssumption`, `WorkConstants`,
`WordsAreInTheText`, `DecisionsByHand`, `CallsAreBounded`, `LivingAssumption`) and are evaluated by TLC in
the runs. The
further hypotheses of single theorems (`~HasBeforeRun`, `FreshLists`,
`Thread = {c}`, `FollowAssumption`, `Tick = {t}` and `Cli = {}`) hold on the instances of the runs that check the same property.

Only model-checked: the liveness properties `DueJobsAreServed`, `TermEndsDaemon`,
`OpenRunIsClosed`, `EndIsReported` and `SessionIsReported`, which are beyond the
proof system. `OneSessionPerNameAlways`, `WatcherTypesHold` and
`NoAttemptFollowsAStopWatched` are only proved: no run is kept for them.

## Limits of the models

* The return of a store call and the continuation of its caller are two steps;
  the code runs them together. The models allow a little more interleaving.
* A tick's jobs are values. In the code they are objects that a later call in
  the same process might still change while they are in `this.data`; every
  operation begins with a load that replaces `this.data`.
* `readFile` and the data of one `writeFile` are atomic.
* Ids are never drawn twice: `generateId` is random.
* What a session does, the payload, `normalizeStore`'s removal of a legacy key
  (a further cause for a save in `load`) and all output are left out.
* In `Lifecycle` pids are not reused, and the directory of the pid file exists.
* `ExperimentRunner` keeps artifacts in the experiment directory and gives
  `--project-dir`, as a detached run must. A write of the temporary file is whole.
* The commands of `AgentSession` are classes (quick, a long sleep in sight, one
  behind the 80th character, a script of several lines, pm2). The text of a result
  line is that of the messages, and a session is not resumed with further input.
* `SessionChecks` has one experiment per project, no deletions and no renames;
  regular expressions are represented by the kinds of line they tell apart.
* A decision's text, notes and dates are left out of `ApprovalQueue`; replacement
  patterns (`$`) in a note are expanded by the code, which the model does not show.
  Titles and task texts are in lower case and without punctuation, where the
  validator's words (`\b\w{4,}\b`) are those between blanks.
* `StaleTagIsReportedTwice` has one direction: what the validator reports of texts of
  at least three long words the verifier reports. The verifier may report more.
* Two runners with the watcher are more states than TLC can exhaust, so a refused
  runner's audit that writes back what the watcher has closed is not checked.

## Not modelled

* `verifySession`, `checkRepoStaleness` and the efficiency figures have no caller
  in the running system (the efficiency figures: the reports only); they are modelled for what
  they promise. The quality audit of `verify.ts` (`countQualityAuditMetrics`) and the
  cross-project counts score words of prose and have no state.
* Slack conversations of the reference bot, but for what starts, rewrites and
  ends a living message: most collaborators are stubs in this repository. Of the
  living messages, the turns, cost and activity in the text are left out,
  `removeOrphanedLivingMessage` and `clearPersistedLivingMessages` have no caller,
  and a restart of the bot, which begins with empty maps and reads no record, is
  not modelled.
* Posting, splitting and start of the DM bot, reports other than the efficiency
  figures, metrics, workspace scaffolding, model tiers, chat state helpers, the
  prose checks of the validator, skills: reading, formatting, or a single write.

## Plan

Done: the job list, service and commands; the daemon's life; the runner and its
watcher; agent sessions; verification, budgets and approvals; living
messages.

Next, in this order:

1. Proofs: `RunCountNeverOverstates` and the types hold for any interleaving;
   what a second caller can still rely on (a list it has loaded is a list
   somebody saved) has no property yet.
2. `ExperimentWatcher` with two runners, and an abstract specification of a run
   (one final status) that a runner without signals implements.
3. The resumption of a session with further input.
