------------------------------ MODULE Lifecycle ------------------------------
(***************************************************************************)
(* Starting and stopping the scheduler daemon                              *)
(* (infra/scheduler/src/instance-guard.ts, api/server.ts, and cmdStart,    *)
(* cmdStartForeground and stopScheduler of cli.ts).                        *)
(*                                                                         *)
(* Three kinds of processes share the pid file and the API port: daemons   *)
(* (`start --foreground`, named by their pids), `start` commands that      *)
(* spawn one and wait for the pid file, and `stop` commands.  In a daemon  *)
(* the start and the shutdown of the signal handler are two threads: each  *)
(* goes on while the other awaits something.  Every synchronous stretch    *)
(* between two file-system or network effects is one step.  Pids are not   *)
(* reused, and the directory of the file is there.                         *)
(***************************************************************************)
EXTENDS Naturals

CONSTANTS
  Daemon,    \* pids of daemon processes
  Starter,   \* `start` commands
  Stopper,   \* `stop` commands
  ChildOf,   \* the daemon a `start` command spawns
  Stale,     \* the pid a crashed daemon left in the file
  Nobody     \* no file, no owner

ASSUME ChildOfAssumption == ChildOf \in [Starter -> Daemon]
ASSUME CommandAssumption == Starter \cap Stopper = {}
ASSUME NobodyAssumption == Nobody \notin Daemon /\ Stale \notin Daemon

Command == Starter \cup Stopper

VARIABLES
  file,     \* scheduler.pid: a pid or Nobody
  port,     \* who listens on the API port
  dpc,      \* where each daemon is
  service,  \* [Daemon -> BOOLEAN]: SchedulerService.running
  term,     \* [Daemon -> BOOLEAN]: SIGTERM delivered, not yet handled
  closing,  \* [Daemon -> BOOLEAN]: shutdown awaits the close of the API server
  cpc,      \* where each command is
  seen,     \* [Command -> pid]: what a command has read from the file
  crowded   \* a command began, or gave up, while another start was under way

vars == <<file, port, dpc, service, term, closing, cpc, seen, crowded>>

Pid == Daemon \cup {Stale, Nobody}
DaemonPc == {"off", "checked", "wrote", "bot", "bound", "ticking", "up",
             "caught", "releasing", "unlinking", "gone"}
CommandPc == {"idle", "waiting", "gaveUp", "read", "done"}

(* isPidAlive: a process that has not ended. *)
Alive(p) == p \in Daemon /\ dpc[p] \notin {"off", "gone"}

TypeOK ==
  /\ file \in Pid /\ port \in Pid
  /\ dpc \in [Daemon -> DaemonPc] /\ service \in [Daemon -> BOOLEAN]
  /\ term \in [Daemon -> BOOLEAN] /\ closing \in [Daemon -> BOOLEAN]
  /\ \A d \in Daemon : term[d] \/ closing[d] =>
                         dpc[d] \notin {"off", "checked", "wrote", "gone"}
  /\ cpc \in [Command -> CommandPc] /\ seen \in [Command -> Pid]
  /\ crowded \in BOOLEAN

Init ==
  /\ file \in {Nobody, Stale} /\ port = Nobody
  /\ dpc = [d \in Daemon |-> "off"]
  /\ service = [d \in Daemon |-> FALSE] /\ term = [d \in Daemon |-> FALSE]
  /\ closing = [d \in Daemon |-> FALSE]
  /\ cpc = [c \in Command |-> "idle"] /\ seen = [c \in Command |-> Nobody]
  /\ crowded = FALSE

-----------------------------------------------------------------------------
(* The daemon: cmdStartForeground. *)
At(d, here, there) == dpc[d] = here /\ dpc' = [dpc EXCEPT ![d] = there]

Exits(d) ==
  /\ dpc' = [dpc EXCEPT ![d] = "gone"]
  /\ service' = [service EXCEPT ![d] = FALSE]
  /\ port' = IF port = d THEN Nobody ELSE port
  /\ term' = [term EXCEPT ![d] = FALSE]
  /\ closing' = [closing EXCEPT ![d] = FALSE]

Starting(d) == dpc[d] = "checked"

(* checkForExistingInstance: no file, and a file naming no live process, *)
(* let the daemon go on; otherwise it ends.                              *)
Check(d) ==
  /\ Starting(d)
  /\ IF Alive(file)
     THEN Exits(d)
     ELSE /\ dpc' = [dpc EXCEPT ![d] = "wrote"]
          /\ UNCHANGED <<port, service, term, closing>>
  /\ UNCHANGED <<file, cpc, seen, crowded>>

(* Faulty variant: the file is created, never overwritten. *)
AcquireLockIfAbsent(d) ==
  /\ At(d, "wrote", "bot")
  /\ file' = IF file = Nobody THEN d ELSE file
  /\ UNCHANGED <<port, service, term, closing, cpc, seen, crowded>>

(* acquireLock, then the signal handlers and startSlackBot, whose failure *)
(* is only logged.                                                        *)
AcquireLock(d) ==
  /\ At(d, "wrote", "bot")
  /\ file' = d
  /\ UNCHANGED <<port, service, term, closing, cpc, seen, crowded>>

(* The catch block of the start: service.stop, and stopApiServer, which has *)
(* nothing to wait for when no server listens or shutdown closes it already.*)
Catch(d) ==
  /\ service' = [service EXCEPT ![d] = FALSE]
  /\ dpc' = [dpc EXCEPT ![d] = IF port = d THEN "caught" ELSE "releasing"]
  /\ port' = IF port = d THEN Nobody ELSE port
  /\ UNCHANGED <<term, closing>>

(* Faulty variant: a bind that fails is only logged. *)
StartApiServerLenient(d) ==
  /\ At(d, "bot", "bound")
  /\ port' = IF port = Nobody THEN d ELSE port
  /\ UNCHANGED <<file, service, term, closing, cpc, seen, crowded>>

(* startApiServer: listen, or EADDRINUSE and the catch block. *)
StartApiServer(d) ==
  /\ dpc[d] = "bot"
  /\ \/ /\ port = Nobody
        /\ At(d, "bot", "bound") /\ port' = d
        /\ UNCHANGED <<service, term, closing>>
     \/ port # Nobody /\ Catch(d)
  /\ UNCHANGED <<file, cpc, seen, crowded>>

(* service.start: the load, which throws for a list it cannot read, then    *)
(* running is set, whatever a shutdown has done during the load.            *)
StartService(d) ==
  /\ dpc[d] = "bound"
  /\ \/ /\ At(d, "bound", "ticking")
        /\ service' = [service EXCEPT ![d] = TRUE]
        /\ UNCHANGED <<port, term, closing>>
     \/ Catch(d)
  /\ UNCHANGED <<file, cpc, seen, crowded>>

(* The first tick is awaited, and what it throws reaches the catch block; *)
(* what later ticks throw is logged.                                      *)
FirstTick(d) ==
  /\ dpc[d] = "ticking"
  /\ \/ At(d, "ticking", "up") /\ UNCHANGED <<port, service, term, closing>>
     \/ Catch(d)
  /\ UNCHANGED <<file, cpc, seen, crowded>>

(* shutdown, on SIGTERM and wherever the start is: service.stop, then      *)
(* stopApiServer.  The port is given up at once; while connections are     *)
(* still open the close is awaited, and the start goes on.                 *)
Shutdown(d) ==
  /\ term[d] /\ dpc[d] \notin {"releasing", "unlinking"}
  /\ term' = [term EXCEPT ![d] = FALSE]
  /\ service' = [service EXCEPT ![d] = FALSE]
  /\ closing' = [closing EXCEPT ![d] = port = d \/ @]
  /\ dpc' = [dpc EXCEPT ![d] = IF port = d THEN @ ELSE "releasing"]
  /\ port' = IF port = d THEN Nobody ELSE port
  /\ UNCHANGED <<file, cpc, seen, crowded>>

(* The server has closed: in shutdown, or in the catch block. *)
ServerClosed(d) ==
  /\ closing[d] \/ dpc[d] = "caught"
  /\ dpc[d] \notin {"releasing", "unlinking"}
  /\ dpc' = [dpc EXCEPT ![d] = "releasing"]
  /\ UNCHANGED <<file, port, service, term, closing, cpc, seen, crowded>>

(* Faulty variant: a process whose pid the file does not name stays. *)
ReleaseLockAndExit(d) ==
  \/ /\ At(d, "releasing", "unlinking") /\ file = d
     /\ UNCHANGED <<file, port, service, term, closing, cpc, seen, crowded>>
  \/ /\ dpc[d] = "unlinking"
     /\ Exits(d) /\ file' = Nobody /\ UNCHANGED <<cpc, seen, crowded>>

(* releaseLock reads the file and unlinks it when it names this process; *)
(* both ways out end the process afterwards, without another await.      *)
ReleaseLock(d) ==
  \/ /\ dpc[d] = "releasing" /\ file # d
     /\ Exits(d) /\ UNCHANGED <<file, cpc, seen, crowded>>
  \/ /\ At(d, "releasing", "unlinking") /\ file = d
     /\ UNCHANGED <<file, port, service, term, closing, cpc, seen, crowded>>
  \/ /\ dpc[d] = "unlinking"
     /\ Exits(d) /\ file' = Nobody /\ UNCHANGED <<cpc, seen, crowded>>

(* Killed, or SIGTERM before there is a handler. *)
Crash(d) ==
  /\ dpc[d] \notin {"off", "gone"}
  /\ Exits(d)
  /\ UNCHANGED <<file, cpc, seen, crowded>>

Starts(d) ==
  \/ Check(d) \/ AcquireLock(d)
  \/ StartApiServer(d) \/ StartService(d) \/ FirstTick(d)

Ends(d) == Shutdown(d) \/ ServerClosed(d) \/ ReleaseLock(d)

-----------------------------------------------------------------------------
(* The commands. *)
Busy ==
  \/ \E c \in Command : cpc[c] \notin {"idle", "done"}
  \/ \E d \in Daemon : dpc[d] \notin {"off", "ticking", "up", "gone"} \/ closing[d]

Goes(c, here, there) == cpc[c] = here /\ cpc' = [cpc EXCEPT ![c] = there]
Begins(c) == cpc[c] = "idle" /\ crowded' = (crowded \/ Busy)

(* `start --foreground` typed by hand: a daemon without a waiting command. *)
StartForeground(d) ==
  /\ At(d, "off", "checked")
  /\ crowded' = (crowded \/ Busy)
  /\ UNCHANGED <<file, port, service, term, closing, cpc, seen>>

(* cmdStart: the same look at the file, then the detached child. *)
Start(c) ==
  /\ Begins(c)
  /\ \/ Alive(file) /\ Goes(c, "idle", "done") /\ UNCHANGED dpc
     \/ /\ ~Alive(file)
        /\ Goes(c, "idle", "waiting") /\ At(ChildOf[c], "off", "checked")
  /\ UNCHANGED <<file, port, service, term, closing, seen>>

(* waitForDaemonStart: any live pid in the file ends the wait; an exited  *)
(* child, or five seconds, give it up.                                    *)
WaitForDaemonStart(c) ==
  /\ IF Alive(file) THEN Goes(c, "waiting", "done") ELSE Goes(c, "waiting", "gaveUp")
  /\ UNCHANGED <<file, port, dpc, service, term, closing, seen, crowded>>

(* After the wait: getDaemonState once more, then removeLockfileBestEffort. *)
GiveUp(c) ==
  /\ Goes(c, "gaveUp", IF Alive(file) THEN "done" ELSE "read")
  /\ crowded' = (crowded \/ Alive(ChildOf[c]))
  /\ UNCHANGED <<file, port, dpc, service, term, closing, seen>>

RemoveLockfile(c) ==
  /\ Goes(c, "read", "done")
  /\ file' = Nobody
  /\ UNCHANGED <<port, dpc, service, term, closing, seen, crowded>>

(* stopScheduler: no file, a dead pid (removed), or SIGTERM. *)
Stop(c) ==
  /\ Begins(c)
  /\ seen' = [seen EXCEPT ![c] = file]
  /\ \/ file = Nobody /\ Goes(c, "idle", "done")
     \/ file # Nobody /\ ~Alive(file) /\ Goes(c, "idle", "read")
     \/ Alive(file) /\ Goes(c, "idle", "waiting")
  /\ UNCHANGED <<file, port, dpc, service, term, closing>>

(* Faulty variant: the signal is sent to the pid that was read. *)
SendTermBlindly(c) ==
  /\ Goes(c, "waiting", "done")
  /\ term' = [term EXCEPT ![seen[c]] = TRUE]
  /\ UNCHANGED <<file, port, dpc, service, closing, seen, crowded>>

(* Before cmdStartForeground has installed its handlers SIGTERM kills. *)
SendTerm(c) ==
  /\ Goes(c, "waiting", "done")
  /\ LET d == seen[c] IN
     \/ ~Alive(d) /\ UNCHANGED <<port, dpc, service, term, closing>>
     \/ Alive(d) /\ dpc[d] \in {"checked", "wrote"} /\ Exits(d)
     \/ /\ Alive(d) /\ dpc[d] \notin {"checked", "wrote"}
        /\ term' = [term EXCEPT ![d] = TRUE]
        /\ UNCHANGED <<port, dpc, service, closing>>
  /\ UNCHANGED <<file, seen, crowded>>

Next ==
  \/ \E d \in Daemon : StartForeground(d) \/ Starts(d) \/ Ends(d) \/ Crash(d)
  \/ \E c \in Starter : Start(c) \/ WaitForDaemonStart(c) \/ GiveUp(c) \/ RemoveLockfile(c)
  \/ \E c \in Stopper : Stop(c) \/ SendTerm(c) \/ RemoveLockfile(c)

(* A process handles its signals, and the connections of the API server, a  *)
(* status report each, end.  No start has to get on: the Slack connection   *)
(* and the sessions of the first tick may take for ever.                    *)
Fairness == \A d \in Daemon : WF_vars(Ends(d))

Spec == Init /\ [][Next]_vars /\ Fairness

-----------------------------------------------------------------------------
(* A daemon serves from service.start to the beginning of its shutdown. A   *)
(* shutdown that overtakes the load of service.start leaves running set     *)
(* while it awaits the close of the server: such a daemon does not count.   *)
Serves(d) == service[d] /\ ~closing[d]

(* However starts race past the pid file, are stopped half-way or fail, at  *)
(* most one daemon serves: it holds the API port.                           *)
ServiceHoldsPort == \A d \in Daemon : Serves(d) => port = d
OneServiceRuns == \A d, e \in Daemon : Serves(d) /\ Serves(e) => d = e

(* When commands come one at a time, a running service is the one the pid *)
(* file names, so that stop and start find it, whatever file earlier      *)
(* crashes, stops and failed starts have left.                            *)
ServingDaemonIsFindable ==
  \A d \in Daemon : ~crowded /\ service[d] => file = d

(* A daemon that has been sent SIGTERM ends, wherever in its start or its *)
(* shutdown the signal finds it, and whatever the start does meanwhile.   *)
TermEndsDaemon == \A d \in Daemon : term[d] ~> dpc[d] = "gone"
=============================================================================
