---------------------------- MODULE MCScheduler -----------------------------
EXTENDS Scheduler, TLC

CONSTANTS t1, t2, u1, u2, daemon, a, b

Every(n) == [kind |-> "every", everyMs |-> n, anchorMs |-> NoTime]
MCOccurrences == <<>>
MCOneEvery == {Every(2)}

MCJob(next) ==
  [enabled |-> TRUE, schedule |-> Every(2), next |-> next,
   fingerprint |-> ScheduleFingerprint(Every(2)), runs |-> 0]
MCEmpty == <<>>
MCOneJob == (1 :> MCJob(1))
MCTwoJobs == (1 :> MCJob(1) @@ 2 :> MCJob(1))
MCTwoNames == [id \in JobId |-> IF id = 1 THEN a ELSE b]

(* Every CLI command a process of its own. *)
MCProcOf == [t \in Thread |-> IF t \in Tick THEN daemon ELSE t]
MCProcess == {daemon} \cup Cli
MCThread == Tick \cup Cli
=============================================================================
