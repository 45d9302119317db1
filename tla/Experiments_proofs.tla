-------------------------- MODULE Experiments_proofs --------------------------
(***************************************************************************)
(* The retry loop of run.py, for any number of runners on one directory    *)
(* and any signals, kills and failed renames: at most MaxRetries + 1       *)
(* attempts, and none after a stop request.  Then the same beside the      *)
(* watcher of experiments.ts, which writes the same progress.json, signals *)
(* the same processes and may be restarted at any time.                    *)
(***************************************************************************)
EXTENDS ExperimentWatcher, TLAPS

(* Where a runner is, or goes on when its rename is done. *)
Where(r) == IF pc[r] = "rename" THEN cont[r] ELSE pc[r]

Before == {"off", "opened", "canary", "canaried", "canary_failed", "start", "delay"}
Over == {"releasing", "unlinking", "audit", "rewrite", "gone"}

(* What the places of the loop know of the attempt, the child and a stop    *)
(* request: an attempt may begin only while one is left; a child runs       *)
(* between its spawn and its end, or was left behind; and who has handled a *)
(* stop request is done, or on the way there with the status "stopping",    *)
(* which the test after the child's end finds.                              *)
AttemptLeft(r) == Where(r) \in Before => mem[r].attempt <= MaxRetries
ChildKnown(r) == child[r] = "running" => Where(r) \in {"install", "poll"} \cup Over
StopKept(r) ==
  stopped[r] =>
    \/ Where(r) \in Over
    \/ Where(r) \in {"install", "poll", "exited"} /\ mem[r].status = "stopping"
LoopOK(r) ==
  AttemptLeft(r) /\ ChildKnown(r) /\ StopKept(r) /\ cont[r] # "rename"
RunnerInv == RunnerTypeOK /\ \A r \in Runner : LoopOK(r)

(* A step of one runner leaves the places of the others alone. *)
Others(r) ==
  \A x \in Runner \ {r} :
    /\ pc'[x] = pc[x] /\ cont'[x] = cont[x] /\ mem'[x] = mem[x]
    /\ child'[x] = child[x] /\ stopped'[x] = stopped[x]

LEMMA OneRunnerMoves ==
  ASSUME RunnerInv, RunnerTypeOK', NEW r \in Runner, Others(r), LoopOK(r)'
  PROVE  RunnerInv'
BY DEF RunnerInv, Others, LoopOK, AttemptLeft, ChildKnown, StopKept, Where

(* What a write leaves behind, given the dictionary that is written. *)
WriteTyped ==
  /\ pc' \in [Runner -> RunnerPc] /\ cont' \in [Runner -> RunnerPc]
  /\ mem' \in [Runner -> Progress] /\ tmp' \in Progress \cup {None}

Status == Active \cup Final \cup {"canary"}

LEMMA FieldsTyped ==
  ASSUME NEW p \in Progress
  PROVE  /\ \A status \in Status : [p EXCEPT !.status = status] \in Progress
         /\ \A status \in Status : [p EXCEPT !.status = status, !.finished = TRUE] \in Progress
         /\ [p EXCEPT !.child = TRUE] \in Progress
BY Zenon DEF Progress, Status

LEMMA SaveStatusTyped ==
  ASSUME RunnerTypeOK, NEW r \in Runner, NEW status \in Status, NEW there \in RunnerPc,
         SaveStatus(r, status, there)
  PROVE  WriteTyped
<1>1. mem' = [mem EXCEPT ![r].status = status] /\ tmp' = mem'[r]
  BY DEF SaveStatus, WriteProgress
<1>2. [mem[r] EXCEPT !.status = status] \in Progress
  BY FieldsTyped DEF RunnerTypeOK
<1>3. mem' \in [Runner -> Progress] /\ mem'[r] \in Progress
  BY <1>1, <1>2 DEF RunnerTypeOK
<1>4. pc' \in [Runner -> RunnerPc] /\ cont' \in [Runner -> RunnerPc]
  BY DEF RunnerTypeOK, SaveStatus, WriteProgress, Goto, RunnerPc
<1> QED BY <1>1, <1>3, <1>4 DEF WriteTyped

LEMMA SaveEndTyped ==
  ASSUME RunnerTypeOK, NEW r \in Runner, NEW status \in Status, SaveEnd(r, status)
  PROVE  WriteTyped
<1>1. mem' = [mem EXCEPT ![r] = [@ EXCEPT !.status = status, !.finished = TRUE]]
      /\ tmp' = mem'[r]
  BY DEF SaveEnd, WriteProgress
<1>2. [mem[r] EXCEPT !.status = status, !.finished = TRUE] \in Progress
  BY FieldsTyped DEF RunnerTypeOK
<1>3. mem' \in [Runner -> Progress] /\ mem'[r] \in Progress
  BY <1>1, <1>2 DEF RunnerTypeOK
<1>4. pc' \in [Runner -> RunnerPc] /\ cont' \in [Runner -> RunnerPc]
  BY DEF RunnerTypeOK, SaveEnd, WriteProgress, Goto, RunnerPc
<1> QED BY <1>1, <1>3, <1>4 DEF WriteTyped

LEMMA RenameKeepsInv ==
  ASSUME RunnerInv, NEW r \in Runner, Rename(r) PROVE RunnerInv'
<1>1. RunnerTypeOK'
  BY DEF RunnerInv, RunnerTypeOK, Rename, Goto, Fails, RunnerPc, lockVars
<1>2. Others(r)
  BY DEF RunnerInv, RunnerTypeOK, Others, Rename, Goto
<1>3. LoopOK(r)'
  BY DEF RunnerInv, RunnerTypeOK, Rename, Goto, LoopOK, AttemptLeft, ChildKnown,
         StopKept, Where, Before, Over
<1> QED BY <1>1, <1>2, <1>3, OneRunnerMoves

LEMMA OpenAndLockKeepInv ==
  ASSUME RunnerInv, NEW r \in Runner, Open(r) \/ Lock(r) PROVE RunnerInv'
<1> USE DEF RunnerInv, RunnerTypeOK, Open, Lock, Goto
<1>1. RunnerTypeOK'
  BY DEF Fails, RunnerPc
<1>2. Others(r)
  BY DEF Others
<1>3. LoopOK(r)'
  BY DEF LoopOK, AttemptLeft, ChildKnown, StopKept, Where, Before, Over
<1> QED BY <1>1, <1>2, <1>3, OneRunnerMoves

LEMMA CanaryKeepsInv ==
  ASSUME RunnerInv, NEW r \in Runner, Canary(r) PROVE RunnerInv'
<1>1. RunnerTypeOK'
  <2>1. WriteTyped
    <3>1. CASE SaveStatus(r, "canary", "canaried") \/ SaveStatus(r, "canary_failed", "canary_failed")
      BY <3>1, SaveStatusTyped DEF RunnerInv, Status, Active, Final, RunnerPc
    <3>2. CASE Goto(r, "start") /\ UNCHANGED <<tmp, cont, mem>>
      BY <3>2 DEF RunnerInv, RunnerTypeOK, Goto, WriteTyped, RunnerPc
    <3>3. CASE SaveEnd(r, "canary_failed")
      BY <3>3, SaveEndTyped DEF RunnerInv, Status, Final
    <3> QED BY <3>1, <3>2, <3>3 DEF Canary
  <2> QED BY <2>1 DEF RunnerInv, RunnerTypeOK, WriteTyped, Canary, Fails, lockVars
<1> USE DEF RunnerInv, RunnerTypeOK, Canary, SaveStatus, SaveEnd, WriteProgress, Goto, Progress,
            Active, Final
<1>2. Others(r)
  BY DEF Others
<1>3. LoopOK(r)'
  <2>1. pc[r] \in {"canary", "canaried", "canary_failed"} /\ child' = child /\ stopped' = stopped
    OBVIOUS
  <2>2. mem'[r].attempt = mem[r].attempt /\ cont'[r] # "rename"
    BY DEF LoopOK
  <2>3. Where(r)' \in {"canaried", "canary_failed", "start", "releasing"}
    BY DEF Where
  <2>4. mem[r].attempt <= MaxRetries /\ child[r] # "running" /\ ~stopped[r]
    BY <2>1 DEF LoopOK, AttemptLeft, ChildKnown, StopKept, Where, Before, Over
  <2> HIDE DEF Canary, SaveStatus, SaveEnd, WriteProgress
  <2> QED BY <2>1, <2>2, <2>3, <2>4 DEF LoopOK, AttemptLeft, ChildKnown, StopKept
<1> QED BY <1>1, <1>2, <1>3, OneRunnerMoves

(* The attempt that begins is one of those that were left. *)
LEMMA StartAttemptKeepsInv ==
  ASSUME RunnerInv, NEW r \in Runner, StartAttempt(r) PROVE RunnerInv'
<1> USE MaxRetriesAssumption DEF RunnerInv, RunnerTypeOK, StartAttempt, Blank, WriteProgress,
            Goto, Progress, Active, Final
<1>1. mem[r].attempt <= MaxRetries
  BY DEF LoopOK, AttemptLeft, Where, Before
<1>2. mem'[r] \in Progress
  <2>1. mem[r].attempt + 1 \in 0..MaxRetries + 1
    BY <1>1
  <2>2. mem'[r] = [status |-> "running", run |-> r, attempt |-> mem[r].attempt + 1,
                   child |-> FALSE, finished |-> FALSE]
    OBVIOUS
  <2> QED BY <2>1, <2>2
<1>3. RunnerTypeOK'
  BY <1>2 DEF RunnerPc, lockVars
<1>4. Others(r)
  BY DEF Others
<1>5. LoopOK(r)'
  BY DEF LoopOK, AttemptLeft, ChildKnown, StopKept, Where, Before, Over
<1> QED BY <1>3, <1>4, <1>5, OneRunnerMoves

LEMMA SpawnKeepsInv ==
  ASSUME RunnerInv, NEW r \in Runner, Spawn(r) PROVE RunnerInv'
<1>1. RunnerTypeOK'
  <2>1. WriteTyped
    <3>1. CASE SaveEnd(r, "failed")
      BY <3>1, SaveEndTyped DEF RunnerInv, Status, Final
    <3>2. CASE /\ mem' = [mem EXCEPT ![r].child = TRUE]
               /\ WriteProgress(r, mem'[r], "install")
      <4>1. mem[r] \in Progress
        BY DEF RunnerInv, RunnerTypeOK
      <4>2. [mem[r] EXCEPT !.child = TRUE] \in Progress
        BY <4>1, FieldsTyped
      <4>3. mem' \in [Runner -> Progress] /\ mem'[r] \in Progress
        BY <3>2, <4>2 DEF RunnerInv, RunnerTypeOK
      <4> QED
        BY <3>2, <4>3 DEF RunnerInv, RunnerTypeOK, WriteProgress, Goto, WriteTyped, RunnerPc
    <3> QED BY <3>1, <3>2 DEF Spawn
  <2> QED BY <2>1 DEF RunnerInv, RunnerTypeOK, WriteTyped, Spawn, Fails, lockVars
<1> USE DEF RunnerInv, RunnerTypeOK, Spawn, SaveStatus, SaveEnd, WriteProgress, Goto, Progress,
            Active, Final
<1>2. Others(r)
  BY DEF Others
<1>3. LoopOK(r)'
  BY DEF LoopOK, AttemptLeft, ChildKnown, StopKept, Where, Before, Over
<1> QED BY <1>1, <1>2, <1>3, OneRunnerMoves

LEMMA InstallAndPollKeepInv ==
  ASSUME RunnerInv, NEW r \in Runner, Install(r) \/ Poll(r) \/ RetryDelay(r)
  PROVE  RunnerInv'
<1> USE DEF RunnerInv, RunnerTypeOK, Install, Poll, RetryDelay, WriteProgress, Goto
<1>1. RunnerTypeOK'
  <2>1. mem[r] \in Progress
    OBVIOUS
  <2>2. CASE Install(r)
    BY <2>2 DEF RunnerPc, lockVars
  <2>3. CASE Poll(r)
    BY <2>1, <2>3 DEF RunnerPc, lockVars
  <2>4. CASE RetryDelay(r)
    BY <2>4 DEF RunnerPc, lockVars
  <2> QED BY <2>2, <2>3, <2>4
<1>2. Others(r)
  BY DEF Others
<1>3. LoopOK(r)'
  BY DEF LoopOK, AttemptLeft, ChildKnown, StopKept, Where, Before, Over
<1> QED BY <1>1, <1>2, <1>3, OneRunnerMoves

(* After a stop request the outcome is an end, whatever the child said. *)
LEMMA ChildExitedKeepsInv ==
  ASSUME RunnerInv, NEW r \in Runner, ChildExited(r) PROVE RunnerInv'
<1> USE DEF RunnerInv, RunnerTypeOK, ChildExited, SaveStatus, SaveEnd, WriteProgress, Goto,
            Progress, Active, Final
<1>1. \/ \E status \in Final, code \in {"0", "failed"} : Conclude(r, status, code)
      \/ Retry(r) /\ Retryable(r) /\ mem[r].status # "stopping"
  BY DEF Outcome
<1>2. RunnerTypeOK'
  <2>1. \/ \E status \in Status : SaveEnd(r, status)
        \/ SaveStatus(r, "retrying", "delay")
    BY <1>1 DEF Conclude, Retry, Status
  <2>2. WriteTyped
    BY <2>1, SaveStatusTyped, SaveEndTyped DEF Status, RunnerPc
  <2>3. rc' \in [Runner -> {"none", "0", "failed", "refused", "crashed"}]
    BY <1>1 DEF Conclude, Retry, Fails
  <2> QED BY <2>2, <2>3 DEF WriteTyped, lockVars
<1>3. Others(r)
  BY <1>1 DEF Others, Conclude, Retry
<1>4. LoopOK(r)'
  <2>1. CASE \E status \in Final, code \in {"0", "failed"} : Conclude(r, status, code)
    BY <2>1 DEF Conclude, LoopOK, AttemptLeft, ChildKnown, StopKept, Where, Before, Over
  <2>2. CASE Retry(r) /\ Retryable(r) /\ mem[r].status # "stopping"
    BY <2>2, MaxRetriesAssumption DEF Retry, Retryable, LoopOK, AttemptLeft, ChildKnown,
       StopKept, Where, Before, Over
  <2> QED BY <1>1, <2>1, <2>2
<1> QED BY <1>2, <1>3, <1>4, OneRunnerMoves

LEMMA EndKeepsInv ==
  ASSUME RunnerInv, NEW r \in Runner, Unlock(r) \/ Unlink(r) \/ Audit(r)
  PROVE  RunnerInv'
<1> USE MaxRetriesAssumption DEF RunnerInv, RunnerTypeOK, Unlock, Unlink, Audit,
            WriteProgress, Goto
<1>1. Blank(r) \in Progress
  BY DEF Blank, Progress
<1>2. RunnerTypeOK'
  BY <1>1 DEF RunnerPc, lockVars
<1>3. Others(r)
  BY DEF Others
<1>4. LoopOK(r)'
  BY DEF LoopOK, AttemptLeft, ChildKnown, StopKept, Where, Before, Over
<1> QED BY <1>2, <1>3, <1>4, OneRunnerMoves

(* The handler finds the child running only where the request is kept. *)
LEMMA HandlerKeepsInv ==
  ASSUME RunnerInv, NEW r \in Runner, HandleSignal(r) PROVE RunnerInv'
<1>1. RunnerTypeOK'
  <2>1. [mem[r] EXCEPT !.status = "stopping"] \in Progress
    BY FieldsTyped DEF RunnerInv, RunnerTypeOK, Status, Active
  <2>2. mem' \in [Runner -> Progress] /\ file' \in Progress
    BY <2>1 DEF RunnerInv, RunnerTypeOK, HandleSignal
  <2> QED BY <2>2 DEF RunnerInv, RunnerTypeOK, HandleSignal, lockVars
<1> USE DEF RunnerInv, RunnerTypeOK, HandleSignal, Progress, Active, Final
<1>2. Others(r)
  BY DEF Others
<1>3. LoopOK(r)'
  BY DEF LoopOK, AttemptLeft, ChildKnown, StopKept, Where, Before, Over
<1> QED BY <1>1, <1>2, <1>3, OneRunnerMoves

LEMMA FaultsKeepInv ==
  ASSUME RunnerInv, Fault PROVE RunnerInv'
<1> USE DEF RunnerInv, RunnerTypeOK
<1>1. faults' \in 0..MaxFaults
  BY MaxFaultsAssumption DEF Fault
<1>2. PICK r \in Runner : Signal(r) \/ (Runs(r) /\ Dies(r))
  BY DEF Fault
<1>3. CASE Dies(r)
  <2>1. RunnerTypeOK'
    BY <1>1, <1>3 DEF Dies, Goto, RunnerPc
  <2>2. Others(r)
    BY <1>3 DEF Others, Dies, Goto
  <2>3. LoopOK(r)'
    BY <1>3 DEF Dies, Goto, LoopOK, AttemptLeft, ChildKnown, StopKept, Where, Before, Over
  <2> QED BY <2>1, <2>2, <2>3, OneRunnerMoves
<1>4. CASE Signal(r) /\ handlers[r]
  BY <1>1, <1>4 DEF Signal, lockVars, LoopOK, AttemptLeft, ChildKnown, StopKept, Where
<1> QED BY <1>2, <1>3, <1>4 DEF Signal

LEMMA ChildExitsKeepsInv ==
  ASSUME RunnerInv, NEW r \in Runner, ChildExits(r) PROVE RunnerInv'
<1> USE DEF RunnerInv, RunnerTypeOK, ChildExits
<1>1. RunnerTypeOK'
  BY DEF lockVars
<1>2. Others(r)
  BY DEF Others
<1>3. LoopOK(r)'
  BY DEF LoopOK, AttemptLeft, ChildKnown, StopKept, Where
<1> QED BY <1>1, <1>2, <1>3, OneRunnerMoves

LEMMA NextKeepsInv == RunnerInv /\ [RunnerNext]_runnerVars => RunnerInv'
<1> SUFFICES ASSUME RunnerInv, [RunnerNext]_runnerVars PROVE RunnerInv'
  OBVIOUS
<1>1. CASE \E r \in Runner : RunnerStep(r)
  BY <1>1, RenameKeepsInv, OpenAndLockKeepInv, CanaryKeepsInv, StartAttemptKeepsInv,
     SpawnKeepsInv, InstallAndPollKeepInv, ChildExitedKeepsInv, EndKeepsInv,
     HandlerKeepsInv DEF RunnerStep
<1>2. CASE \E r \in Runner : ChildExits(r)
  BY <1>2, ChildExitsKeepsInv
<1>3. CASE Fault
  BY <1>3, FaultsKeepInv
<1>4. CASE UNCHANGED runnerVars
  BY <1>4 DEF runnerVars, procVars, lockVars, RunnerInv, RunnerTypeOK, LoopOK,
     AttemptLeft, ChildKnown, StopKept, Where
<1> QED BY <1>1, <1>2, <1>3, <1>4 DEF RunnerNext

LEMMA RunnerInitOK == RunnerInit => RunnerInv
BY MaxRetriesAssumption, MaxFaultsAssumption DEF RunnerInit, RunnerInv, RunnerTypeOK,
   Blank, Progress, RunnerPc, LoopOK, AttemptLeft, ChildKnown, StopKept, Where,
   Before, Over

THEOREM RunnerInvariance == RunnerSpec => []RunnerInv
BY RunnerInitOK, NextKeepsInv, PTL DEF RunnerSpec

(* Types, and with them the bound on the attempts: no progress file ever    *)
(* counts more than --max-retries + 1 (run.py, the while loop).             *)
THEOREM RunnerTypesHold == RunnerSpec => []RunnerTypeOK
<1>1. RunnerInv => RunnerTypeOK
  BY DEF RunnerInv
<1> QED BY <1>1, RunnerInvariance, PTL

(* Only a spawn starts a child, and the runner is then where no stop        *)
(* request is kept.                                                         *)
ChildStarts(r) == child'[r] = "running" /\ child[r] # "running"

LEMMA RunnerStartsUnstopped ==
  ASSUME RunnerInv, [RunnerNext]_runnerVars, NEW r \in Runner, ChildStarts(r)
  PROVE  ~stopped[r]
<1> USE DEF ChildStarts
<1>1. PICK x \in Runner : RunnerStep(x) \/ ChildExits(x) \/ Dies(x) \/ Signal(x)
  BY DEF RunnerNext, Fault, runnerVars, procVars
<1>2. x = r /\ pc[r] = "spawn"
  <2> USE DEF RunnerInv, RunnerTypeOK
  <2>1. CASE Spawn(x)
    BY <2>1 DEF Spawn
  <2>2. CASE Poll(x) \/ ChildExits(x)
    BY <2>2 DEF Poll, ChildExits
  <2>3. CASE child' = child
    BY <2>3
  <2>4. Spawn(x) \/ Poll(x) \/ ChildExits(x) \/ child' = child
    BY <1>1 DEF RunnerStep, Rename, Open, Lock, Canary, StartAttempt, Install,
       ChildExited, RetryDelay, Unlock, Unlink, Audit, HandleSignal, Dies, Signal
  <2> QED BY <2>1, <2>2, <2>3, <2>4
<1> QED BY <1>2 DEF RunnerInv, LoopOK, StopKept, Where, Over

(* A stop request handled while the command runs is the end of the run, for *)
(* any number of runners and retries, and wherever signals find them        *)
(* (handle_signal and the test of the status after the child's end).        *)
THEOREM NoAttemptFollowsAStop == RunnerSpec => NoAttemptAfterStop
<1>1. RunnerInv /\ [RunnerNext]_runnerVars =>
        [\A r \in Runner : ChildStarts(r) => ~stopped[r]]_runnerVars
  BY RunnerStartsUnstopped
<1> QED
  BY <1>1, RunnerInvariance, PTL DEF RunnerSpec, NoAttemptAfterStop, ChildStarts

-----------------------------------------------------------------------------
(* The watcher beside the runners: what it writes and reports it has read.  *)
WatchInv == TypeOK /\ RunnerInv /\ (wpc \in {"write", "marked"} => snap # None)

WatcherTypes ==
  /\ wpc \in {"down", "starting", "idle", "discovered", "poll", "read", "write", "marked"}
  /\ tracked \in BOOLEAN /\ emitted \in BOOLEAN /\ old \in BOOLEAN
  /\ snap \in Progress \cup {None}
  /\ polls \in 0..DiscoverEvery - 1
  /\ launch \in [Runner -> {"cli", "api", "tracked"}]
  /\ reports \subseteq [run : Runner, status : Final \cup {"canary"}]

LEMMA WatchInvParts ==
  /\ WatchInv <=> WatcherTypes /\ RunnerInv /\ (wpc \in {"write", "marked"} => snap # None)
  /\ WatchInv' <=> WatcherTypes' /\ RunnerInv' /\ (wpc' \in {"write", "marked"} => snap' # None)
BY DEF WatchInv, TypeOK, RunnerInv, WatcherTypes

LEMMA FirstPoll == 0 \in 0..DiscoverEvery - 1
BY DiscoverAssumption

(* The runners as they were, but for the count of faults. *)
LEMMA RunnersUntouched ==
  ASSUME RunnerInv, UNCHANGED <<procVars, tmp, lockVars>>,
         file' \in Progress \cup {None}, faults' \in 0..MaxFaults
  PROVE  RunnerInv'
BY DEF RunnerInv, RunnerTypeOK, procVars, lockVars, LoopOK, AttemptLeft, ChildKnown,
       StopKept, Where

LEMMA ReportTyped ==
  ASSUME WatcherTypes, NEW p \in Progress, NEW status \in Final \cup {"canary"},
         Report(p, status)
  PROVE  /\ reports' \subseteq [run : Runner, status : Final \cup {"canary"}]
         /\ emitted' \in BOOLEAN
<1>1. [run |-> p.run, status |-> status] \in [run : Runner, status : Final \cup {"canary"}]
  BY DEF Progress
<1> QED BY <1>1 DEF Report, WatcherTypes

LEMMA PollsKeepInv ==
  ASSUME WatchInv, Start \/ BeginPoll \/ Discover \/ PollRead \/ PollAct PROVE WatchInv'
<1>1. WatcherTypes /\ RunnerInv
  BY WatchInvParts
<1>2. UNCHANGED runnerVars
  BY DEF Start, BeginPoll, Discover, Discovers, PollRead, PollAct
<1>3. RunnerInv'
  BY <1>1, <1>2, RunnersUntouched DEF runnerVars, RunnerInv, RunnerTypeOK
<1>4. file \in Progress \cup {None}
  BY <1>1 DEF RunnerInv, RunnerTypeOK
<1>9. CASE Start
  BY <1>1, <1>3, <1>4, <1>9, WatchInvParts DEF Start, WatcherTypes
<1>5. CASE BeginPoll
  <2>1. polls' \in 0..DiscoverEvery - 1
    BY <1>1, <1>5, DiscoverAssumption DEF BeginPoll, WatcherTypes
  <2> QED BY <1>1, <1>3, <1>4, <1>5, <2>1, WatchInvParts DEF BeginPoll, WatcherTypes
<1>6. CASE Discover
  <2>1. /\ reports' \subseteq [run : Runner, status : Final \cup {"canary"}]
        /\ emitted' \in BOOLEAN
    <3>1. CASE snap # None /\ snap.status \in Final /\ Report(snap, snap.status)
      BY <1>1, <3>1, ReportTyped DEF WatcherTypes
    <3>2. CASE UNCHANGED <<reports, emitted>>
      BY <1>1, <3>2 DEF WatcherTypes
    <3> QED BY <1>6, <3>1, <3>2 DEF Discover
  <2> QED BY <1>1, <1>3, <1>6, <2>1, WatchInvParts DEF Discover, Discovers, WatcherTypes
<1>7. CASE PollRead
  BY <1>1, <1>3, <1>4, <1>7, WatchInvParts DEF PollRead, WatcherTypes
<1>8. CASE PollAct
  <2>1. CASE snap # None /\ snap.status \notin Active /\ Ends(snap, snap.status)
    <3>1. snap \in Progress /\ snap.status \in Final \cup {"canary"}
      BY <1>1, <2>1 DEF WatcherTypes, Progress
    <3>2. /\ reports' \subseteq [run : Runner, status : Final \cup {"canary"}]
          /\ emitted' \in BOOLEAN
      BY <1>1, <2>1, <3>1, ReportTyped DEF Ends
    <3> QED BY <1>1, <1>3, <1>8, <2>1, <3>2, WatchInvParts DEF PollAct, Ends, WatcherTypes
  <2>3. CASE wpc = "marked" /\ Ends(snap, "failed")
    <3>1. snap \in Progress
      BY <1>1, <2>3, WatchInvParts DEF WatcherTypes
    <3>2. /\ reports' \subseteq [run : Runner, status : Final \cup {"canary"}]
          /\ emitted' \in BOOLEAN
      BY <1>1, <2>3, <3>1, ReportTyped DEF Ends, Final
    <3> QED BY <1>1, <1>3, <1>8, <2>3, <3>2, WatchInvParts DEF PollAct, Ends, WatcherTypes
  <2>2. CASE UNCHANGED <<tracked, emitted, reports, polls, launch, old>>
             /\ (\/ snap # None /\ wpc' = "write" /\ snap' = snap
                 \/ wpc' = "idle" /\ snap' = None)
    BY <1>1, <1>3, <2>2, WatchInvParts DEF WatcherTypes
  <2> QED BY <1>8, <2>1, <2>2, <2>3 DEF PollAct
<1> QED BY <1>5, <1>6, <1>7, <1>8, <1>9

LEMMA MarkFailedKeepsInv ==
  ASSUME WatchInv, MarkFailed PROVE WatchInv'
<1>1. WatcherTypes /\ RunnerInv /\ snap \in Progress
  BY WatchInvParts DEF MarkFailed, WatcherTypes
<1>2. file' \in Progress
  BY <1>1, FieldsTyped DEF MarkFailed, Status, Final
<1>3. RunnerInv'
  BY <1>1, <1>2, RunnersUntouched DEF MarkFailed, RunnerInv, RunnerTypeOK
<1> QED BY <1>1, <1>3, WatchInvParts DEF MarkFailed, WatcherTypes

(* A stop request is one more signal for a runner, or the end of its child. *)
LEMMA StopExperimentKeepsRunners ==
  ASSUME RunnerInv, StopExperiment PROVE RunnerInv'
<1>1. file.run \in Runner /\ faults' \in 0..MaxFaults
  BY MaxFaultsAssumption DEF StopExperiment, RunnerInv, RunnerTypeOK, Progress
<1>2. CASE ~file.child
  <2>1. Fault
    BY <1>1, <1>2 DEF StopExperiment, Fault
  <2> QED BY <2>1, FaultsKeepInv
<1>3. CASE file.child
  <2>0. PICK r \in Runner : r = file.run
    BY <1>1
  <2> USE <1>1, <1>3, <2>0 DEF RunnerInv, RunnerTypeOK, StopExperiment
  <2>1. RunnerTypeOK'
    BY DEF lockVars
  <2>2. Others(r)
    BY DEF Others
  <2>3. LoopOK(r)'
    BY DEF LoopOK, AttemptLeft, ChildKnown, StopKept, Where
  <2> QED BY <2>1, <2>2, <2>3, OneRunnerMoves
<1> QED BY <1>2, <1>3

LEMMA WatchedNextKeepsInv == WatchInv /\ [Next]_vars => WatchInv'
<1> SUFFICES ASSUME WatchInv, [Next]_vars PROVE WatchInv'
  OBVIOUS
<1>1. WatcherTypes /\ RunnerInv
  BY WatchInvParts
<1>2. CASE Runners
  <2>1. old' \in BOOLEAN
    BY <1>1, <1>2 DEF Runners, WatcherTypes
  <2>2. RunnerInv'
    BY <1>1, <1>2, NextKeepsInv DEF Runners
  <2> QED BY <1>1, <1>2, <2>1, <2>2, WatchInvParts DEF Runners, WatcherTypes
<1>3. CASE WatcherStep \/ Start
  BY <1>3, PollsKeepInv, MarkFailedKeepsInv DEF WatcherStep
<1>4. CASE Track \/ Age
  <2>1. RunnerInv'
    BY <1>1, <1>4, RunnersUntouched DEF Track, Age, runnerVars, RunnerInv, RunnerTypeOK
  <2>2. WatcherTypes'
    BY <1>1, <1>4 DEF Track, Age, WatcherTypes
  <2> QED BY <1>1, <1>4, <2>1, <2>2, WatchInvParts DEF Track, Age
<1>5. CASE StopExperiment
  <2>1. WatcherTypes' /\ (wpc' \in {"write", "marked"} => snap' # None)
    BY <1>1, <1>5, WatchInvParts DEF StopExperiment, watcherVars, WatcherTypes
  <2> QED BY <1>1, <1>5, <2>1, StopExperimentKeepsRunners, WatchInvParts
<1>6. CASE Stop
  <2>1. faults' \in 0..MaxFaults
    BY <1>1, <1>6, MaxFaultsAssumption DEF Stop, RunnerInv, RunnerTypeOK
  <2>2. RunnerInv'
    BY <1>1, <1>6, <2>1, RunnersUntouched DEF Stop, RunnerInv, RunnerTypeOK
  <2>3. launch' \in [Runner -> {"cli", "api", "tracked"}]
    BY <1>1, <1>6 DEF Stop, WatcherTypes
  <2>4. WatcherTypes' /\ wpc' = "down"
    BY <1>1, <1>6, <2>3, FirstPoll DEF Stop, WatcherTypes
  <2> QED BY <2>2, <2>4, WatchInvParts
<1>7. CASE UNCHANGED vars
  <2>1. RunnerInv'
    BY <1>1, <1>7, NextKeepsInv DEF vars
  <2> QED BY <1>7, <2>1, WatchInvParts DEF vars, watcherVars, WatcherTypes
<1> QED BY <1>2, <1>3, <1>4, <1>5, <1>6, <1>7 DEF Next

LEMMA WatchInvariance == Spec => []WatchInv
<1>1. ASSUME Init PROVE WatchInv
  <2>1. WatcherTypes /\ wpc = "down"
    BY <1>1, FirstPoll DEF Init, WatcherTypes
  <2> QED BY <1>1, <2>1, RunnerInitOK, WatchInvParts DEF Init
<1> QED BY <1>1, WatchedNextKeepsInv, PTL DEF Spec

(* Types of the composition, whatever runners and watcher write over each   *)
(* other: the watcher marks a run failed only from a file it has read, and  *)
(* never reports an experiment as running, stopping or retrying             *)
(* (experiments.ts, pollTrackedExperiments).                                *)
THEOREM WatcherTypesHold == Spec => []TypeOK
<1>1. WatchInv => TypeOK
  BY DEF WatchInv
<1> QED BY <1>1, WatchInvariance, PTL

(* No attempt after a stop request, with the watcher closing and stopping   *)
(* runs beside the runners (experiments.ts, stopExperiment).                *)
THEOREM NoAttemptFollowsAStopWatched == Spec => NoAttemptAfterStop
<1>1. ASSUME WatchInv, [Next]_vars, NEW r \in Runner, ChildStarts(r)
      PROVE  ~stopped[r]
  <2>1. RunnerInv /\ child \in [Runner -> {"none", "running", "zombie", "reaped"}]
    BY <1>1 DEF WatchInv, RunnerInv, RunnerTypeOK
  <2>2. CASE [RunnerNext]_runnerVars
    BY <1>1, <2>1, <2>2, RunnerStartsUnstopped
  <2>3. CASE child' = child
    BY <1>1, <2>3 DEF ChildStarts
  <2>4. CASE StopExperiment
    BY <1>1, <2>1, <2>4 DEF StopExperiment, Signal, Dies, ChildStarts, RunnerInv,
       RunnerTypeOK, Progress
  <2> QED
    BY <1>1, <2>2, <2>3, <2>4 DEF Next, vars, runnerVars, procVars, WatcherStep, Runners,
       Start, BeginPoll, Discover, Discovers, PollRead, PollAct, MarkFailed, Track, Stop, Age
<1>2. WatchInv /\ [Next]_vars =>
        [\A r \in Runner : ChildStarts(r) => ~stopped[r]]_runnerVars
  BY <1>1
<1> QED
  BY <1>2, WatchInvariance, PTL DEF Spec, NoAttemptAfterStop, ChildStarts
=============================================================================
