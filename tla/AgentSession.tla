---------------------------- MODULE AgentSession ----------------------------
(***************************************************************************)
(* One agent session of the scheduler process: spawnAgent and its guards   *)
(* (agent.ts, sleep-guard.ts, stall-guard.ts, security.ts), the codex      *)
(* child process behind it (backend.ts), its entry in the registry         *)
(* (session.ts), and whoever waits for the result: executeJob for a job    *)
(* (executor.ts) or the DM handler, which also posts every assistant       *)
(* message while the session runs (slack.ts).                              *)
(*                                                                         *)
(* The child writes JSON lines.  The line handler consumes a line and      *)
(* calls onMessage without waiting for the handlers of earlier lines, so   *)
(* an assistant message whose post to Slack is under way is seen by the    *)
(* guards only when the post returns, later lines notwithstanding.         *)
(*                                                                         *)
(* interrupt() sends SIGTERM; its later SIGKILL is never sent, because     *)
(* proc.killed is set as soon as a signal has been sent.                   *)
(*                                                                         *)
(* Commands are classes, by what a line shows of them: codex reports a     *)
(* shell call as a summary, which is cut to 80 characters and matched on   *)
(* one line, so that the sleep of a "late" command is cut off and the      *)
(* guards see nothing of a "script" of several lines; both hold a long     *)
(* sleep.  In a tool_use block the command is whole.  The text a result    *)
(* line reports is taken to be that of the messages.                       *)
(***************************************************************************)
EXTENDS Naturals, Sequences

CONSTANTS
  None,
  Clients,      \* who the session may work for: "job", "dm"
  MaxShells,    \* bound on shell calls the agent has open at once
  MaxLines      \* bound on the lines the child writes

ASSUME AgentAssumption ==
  /\ Clients \subseteq {"job", "dm"} /\ None \notin Nat
  /\ MaxShells \in Nat \ {0} /\ MaxLines \in Nat \ {0}

VARIABLES
  client,   \* who waits for the result
  draining, \* the drain flag
  proc,     \* the child: "none", "running", "done" (code 0) or "dead"
  written,  \* lines it has written
  open,     \* its calls under way, those the stall guard sees and the others
  slept,    \* it has started a long sleep within 80 characters of one line
  lines,    \* its stdout, not yet read
  posting,  \* assistant messages in the caller's handler
  posted,   \* lastPostedText is set
  stream,   \* CodexExecJsonState
  sess,     \* turns counted by the registry entry, None without one
  guard,    \* the stall timer and the violations found
  killed,   \* SIGTERM has been sent
  result,   \* status "pending", "rejected" or "resolved" with an AgentResult
  report    \* ExecutionResult, or None

fixedVars == <<client, draining>>
childVars == <<proc, written, open, slept>>
streamVars == <<lines, posting, posted, stream>>
agentVars == <<sess, guard, killed>>
vars == <<fixedVars, childVars, streamVars, agentVars, result, report>>

Command == {"quick", "sleep", "late", "script", "pm2"}
Line == [kind : {"say", "done", "begin", "turn", "fail", "tool"}]
          \cup [kind : {"result"}, turns : {0, MaxLines}]
          \cup [kind : {"shell", "blocks"}, cmd : Command]

ChildOK ==
  /\ proc \in {"none", "running", "done", "dead"}
  /\ written \in 0..MaxLines /\ slept \in BOOLEAN
  /\ open \in [seen : 0..MaxShells, hidden : 0..MaxShells]
StreamOK ==
  /\ lines \in Seq(Line)
  /\ posting \subseteq (Line \X (1..MaxLines)) /\ posted \in BOOLEAN
  /\ stream \in [error : BOOLEAN, output : BOOLEAN, begun : 0..MaxLines,
                 turns : 0..MaxLines, messages : 0..MaxLines, reported : 0..MaxLines]
AgentOK ==
  /\ sess \in 0..2 * MaxLines \cup {None}
  /\ guard \in [armed : BOOLEAN, stall : BOOLEAN, sleep : BOOLEAN,
                pm2 : BOOLEAN, timedOut : BOOLEAN]
  /\ killed \in BOOLEAN
ResultOK ==
  /\ result.status \in {"pending", "rejected", "resolved"}
  /\ result.status = "resolved" =>
       result.ok \in BOOLEAN /\ result.turns \in 0..2 * MaxLines
ReportOK ==
  report \in [ok : BOOLEAN, exitCode : {0, 1, 124}]
             \cup [reply : {"error", "timed out", "text", "none"}]
             \cup {None}
TypeOK ==
  /\ client \in Clients /\ draining \in BOOLEAN
  /\ ChildOK /\ StreamOK /\ AgentOK /\ ResultOK /\ ReportOK

(* createCodexExecJsonState. *)
NewStream == [error |-> FALSE, output |-> FALSE, begun |-> 0, turns |-> 0,
              messages |-> 0, reported |-> 0]
Quiet == [armed |-> FALSE, stall |-> FALSE, sleep |-> FALSE, pm2 |-> FALSE,
          timedOut |-> FALSE]
Init ==
  /\ client \in Clients /\ draining \in BOOLEAN
  /\ proc = "none" /\ written = 0 /\ open = [seen |-> 0, hidden |-> 0]
  /\ slept = FALSE /\ lines = <<>> /\ posting = {} /\ posted = FALSE
  /\ stream = NewStream
  /\ sess = None /\ guard = Quiet /\ killed = FALSE
  /\ result = [status |-> "pending"] /\ report = None

-----------------------------------------------------------------------------
(* spawnAgent: refused while draining; otherwise the child is spawned, the  *)
(* session registered and the duration timer set in one turn of the loop.   *)
Spawn ==
  /\ proc = "none" /\ report = None /\ ~draining
  /\ proc' = "running" /\ sess' = 0
  /\ UNCHANGED <<fixedVars, written, open, slept, streamVars, guard, killed,
                 result, report>>

(* executeJob and the DM handler catch the refusal and report a failure. *)
SpawnRefused ==
  /\ proc = "none" /\ report = None /\ draining
  /\ report' = IF client = "job" THEN [ok |-> FALSE, exitCode |-> 1]
               ELSE [reply |-> "error"]
  /\ UNCHANGED <<fixedVars, childVars, streamVars, agentVars, result>>

(* extractShellCommands: both forms of a shell call, a summary of one line; *)
(* a tool_use line has no backticks.                                        *)
ShellCommand(l) == l.kind = "blocks" \/ (l.kind = "shell" /\ l.cmd # "script")

(* The agent: it writes a line for what it does.  Calls overlap with one    *)
(* another and with messages, turns and errors.                             *)
Starts(l) ==
  /\ open.seen + open.hidden < MaxShells
  /\ open' = IF ShellCommand(l) THEN [open EXCEPT !.seen = @ + 1]
             ELSE [open EXCEPT !.hidden = @ + 1]
Completes ==
  \/ open.seen > 0 /\ open' = [open EXCEPT !.seen = @ - 1]
  \/ open.hidden > 0 /\ open' = [open EXCEPT !.hidden = @ - 1]

ChildWrites(l) ==
  /\ proc = "running" /\ written < MaxLines
  /\ \/ l.kind \in {"shell", "blocks", "tool"} /\ Starts(l)
     \/ l.kind = "done" /\ Completes
     \/ l.kind \in {"say", "begin", "turn", "fail", "result"} /\ UNCHANGED open
  /\ slept' = (slept \/ (l.kind \in {"shell", "blocks"} /\ l.cmd = "sleep"))
  /\ written' = written + 1 /\ lines' = Append(lines, l)
  /\ UNCHANGED <<fixedVars, proc, posting, posted, stream, agentVars, result,
                 report>>

(* It may exit at any time, by itself or by SIGTERM. *)
ChildExits ==
  /\ proc = "running" /\ proc' \in {"done", "dead"}
  /\ UNCHANGED <<fixedVars, written, open, slept, streamVars, agentVars, result,
                 report>>

-----------------------------------------------------------------------------
(* consumeCodexExecJsonMessage. *)
Consumed(s, l) ==
  LET OneMore(kind) == IF l.kind = kind THEN 1 ELSE 0
  IN [error |-> s.error \/ l.kind = "fail", output |-> s.output \/ l.kind = "done",
      begun |-> s.begun + OneMore("begin"), turns |-> s.turns + OneMore("turn"),
      messages |-> s.messages + OneMore("say"),
      reported |-> IF l.kind = "result" /\ l.turns > 0 THEN l.turns ELSE s.reported]

(* finalizeCodexExecJsonState: the turns reported, else completed, else     *)
(* begun, else the assistant messages; whether there is a text, of the      *)
(* messages, an error or else of the commands' output.                      *)
FinalTurns(s) ==
  IF s.reported > 0 THEN s.reported
  ELSE IF s.turns > 0 THEN s.turns ELSE IF s.begun > 0 THEN s.begun ELSE s.messages
HasText(s) == s.messages > 0 \/ s.error \/ s.output

(* parseCodexMessageObject: the type of the message a line becomes.  A      *)
(* turn.completed becomes the progress result the handler makes of it.      *)
MessageTypeOf ==
  [say |-> "assistant", blocks |-> "assistant", shell |-> "tool_use_summary",
   tool |-> "tool_use_summary", done |-> "tool_call_completed", begin |-> "none",
   turn |-> "result", fail |-> "result", result |-> "result"]
MessageType(l) == MessageTypeOf[l.kind]

(* checkMessageForSleepViolation reads the cut summary or the whole block;  *)
(* checkMessageForPm2Violation tool_use blocks only.                        *)
SleepViolation(l) ==
  \/ l.kind = "shell" /\ l.cmd = "sleep"
  \/ l.kind = "blocks" /\ l.cmd \in {"sleep", "late", "script"}
Pm2Violation(l) == l.kind = "blocks" /\ l.cmd = "pm2"

(* Faulty variant: the end of a call does not clear the timer. *)
StallArmedUntilMessage(g, l) ==
  IF g.stall THEN g.armed
  ELSE \/ ShellCommand(l)
       \/ g.armed /\ MessageType(l) \notin {"assistant", "result"}

(* StallGuard: a shell call arms the timer afresh, a completed call, an     *)
(* assistant message or a result clears it.  A guard that has found its     *)
(* violation looks at nothing any more.                                     *)
StallArmed(g, l) ==
  IF g.stall THEN g.armed
  ELSE \/ ShellCommand(l)
       \/ g.armed /\ MessageType(l) \in {"tool_use_summary", "none"}

(* Faulty variant: the turns of a progress result are added. *)
TurnsAfterAdding(l) ==
  IF MessageType(l) = "assistant" THEN sess + 1
  ELSE IF l.kind = "turn" THEN sess + FinalTurns(stream')
  ELSE IF l.kind = "result" /\ l.turns > 0 THEN l.turns ELSE sess

(* incrementSessionTurns, updateSessionStats: 0 turns are not reported. *)
TurnsAfter(l) ==
  IF MessageType(l) = "assistant" THEN sess + 1
  ELSE IF l.kind = "turn" THEN FinalTurns(stream')
  ELSE IF l.kind = "result" /\ l.turns > 0 THEN l.turns ELSE sess

(* interrupt of a handle, whose process may have gone. *)
Interrupt == killed' = (killed \/ proc = "running")

(* The rest of onMessage after the caller's handler: turns, guards, stats.  *)
(* updateSessionStats takes the stream's completed turns when a turn ends.  *)
Observe(l) ==
  /\ guard' = [armed |-> StallArmed(guard, l), stall |-> guard.stall,
                sleep |-> guard.sleep \/ SleepViolation(l),
                pm2 |-> guard.pm2 \/ Pm2Violation(l), timedOut |-> guard.timedOut]
  /\ IF guard'.sleep # guard.sleep \/ guard'.pm2 # guard.pm2
     THEN Interrupt ELSE UNCHANGED killed
  /\ sess' = IF sess = None THEN None ELSE TurnsAfter(l)

(* rl.on("line"). *)
ReadLine ==
  /\ lines # <<>> /\ lines' = Tail(lines)
  /\ stream' = Consumed(stream, Head(lines))
  /\ IF client = "dm" /\ Head(lines).kind = "say"
     THEN /\ posting' = posting \cup {<<Head(lines), written - Len(lines) + 1>>}
          /\ UNCHANGED <<sess, guard, killed>>
     ELSE Observe(Head(lines)) /\ UNCHANGED posting
  /\ UNCHANGED <<fixedVars, childVars, posted, result, report>>

(* The DM handler's post of an assistant message returns, or has failed. *)
PostReturns ==
  /\ \E p \in posting : posting' = posting \ {p} /\ Observe(p[1])
  /\ posted' \in {posted, TRUE}
  /\ UNCHANGED <<fixedVars, childVars, lines, stream, result, report>>

-----------------------------------------------------------------------------
(* The stall timer elapses. *)
StallFires ==
  /\ guard.armed
  /\ guard' = [guard EXCEPT !.armed = FALSE, !.stall = TRUE]
  /\ Interrupt
  /\ UNCHANGED <<fixedVars, childVars, streamVars, sess, result, report>>

(* maxDurationMs elapses; the timer is cleared with the result. *)
DurationFires ==
  /\ proc # "none" /\ result.status = "pending" /\ ~guard.timedOut
  /\ guard' = [guard EXCEPT !.timedOut = TRUE]
  /\ Interrupt
  /\ UNCHANGED <<fixedVars, childVars, streamVars, sess, result, report>>

Settled ==
  /\ result' = IF proc = "dead" THEN [status |-> "rejected"]
               ELSE [status |-> "resolved", ok |-> ~stream.error,
                     turns |-> IF FinalTurns(stream) > 0
                               THEN FinalTurns(stream) ELSE sess,
                     guard |-> guard]
  /\ sess' = None /\ guard' = [guard EXCEPT !.armed = FALSE]
  /\ UNCHANGED <<fixedVars, childVars, streamVars, killed, report>>

(* Faulty variant: a child ended by a signal settles nothing. *)
SettleWithoutSignals ==
  proc = "done" /\ lines = <<>> /\ result.status = "pending" /\ Settled

(* proc.on("close") and the then or catch of spawnAgent: an exit code other *)
(* than 0, a signal's null included, rejects.                               *)
Settle ==
  /\ proc \in {"done", "dead"} /\ lines = <<>> /\ result.status = "pending"
  /\ Settled

(* Faulty variant: the agent's own verdict stands. *)
ExecutionOkAsReported(r) == r.ok

ExecutionOk(r) == r.ok /\ ~r.guard.timedOut /\ ~r.guard.sleep /\ ~r.guard.stall

(* executeJob after the await: the log is written, or its write throws and  *)
(* the catch reports a failure in its place.                                *)
Report ==
  /\ client = "job" /\ result.status # "pending" /\ report = None
  /\ \/ /\ result.status # "rejected"
        /\ report' = [ok |-> ExecutionOk(result),
                      exitCode |-> IF result.guard.timedOut THEN 124
                                   ELSE IF ExecutionOk(result) THEN 0 ELSE 1]
     \/ report' = [ok |-> FALSE, exitCode |-> 1]
  /\ UNCHANGED <<fixedVars, childVars, streamVars, agentVars, result>>

(* The DM handler: an error, or the text unless the last post that          *)
(* succeeded was just that, or a note on the timeout.  What the child wrote *)
(* to stderr counts as text when there is no other.                         *)
Reply ==
  /\ client = "dm" /\ result.status # "pending" /\ report = None
  /\ \E reply \in {"error", "timed out", "text", "none"} :
       /\ \/ result.status = "rejected" /\ reply = "error"
          \/ /\ result.status = "resolved" /\ ~HasText(stream)
             /\ reply \in {"text", IF result.guard.timedOut THEN "timed out" ELSE "none"}
          \/ /\ result.status = "resolved" /\ HasText(stream)
             /\ reply = (IF stream.messages = 1 /\ posted THEN "none" ELSE "text")
       /\ report' = [reply |-> reply]
  /\ UNCHANGED <<fixedVars, childVars, streamVars, agentVars, result>>

SchedulerNext ==
  \/ Spawn \/ SpawnRefused \/ ReadLine \/ PostReturns
  \/ StallFires \/ DurationFires \/ Settle \/ Report \/ Reply
Next == SchedulerNext \/ ChildExits \/ (\E l \in Line : ChildWrites(l))

(* Lines are read, timers fire and callbacks run; a child that got SIGTERM  *)
(* exits.  Nothing is assumed of one that was not told to.                  *)
Fairness == WF_vars(SchedulerNext) /\ WF_vars(DurationFires)
              /\ WF_vars(killed /\ ChildExits)
Spec == Init /\ [][Next]_vars /\ Fairness

-----------------------------------------------------------------------------
(* stall-guard.ts: the stall timer never outlives its call: an agent is    *)
(* not ended for thinking after a command.  While the timer runs a shell   *)
(* call is under way, or the line of its end has not been read, whatever   *)
(* other calls, messages and late posts come between.                      *)
StallTimerMeansOpenCall ==
  guard.armed => open.seen > 0 \/ \E i \in DOMAIN lines : lines[i].kind = "done"

(* executor.ts: an execution reported as a success was interrupted by no   *)
(* guard but pm2's, and its agent started no long sleep that its line      *)
(* shows, whichever of guards, timers, lines and exit came first.          *)
SuccessMeansUnguarded ==
  client = "job" /\ report # None /\ report.ok =>
    ~slept /\ (killed => guard.pm2) /\ ~guard.stall /\ ~guard.timedOut

(* Every session ends and is reported, however its agent hangs. *)
SessionIsReported == proc # "none" ~> report # None
=============================================================================
