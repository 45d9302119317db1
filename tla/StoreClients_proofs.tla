------------------------ MODULE StoreClients_proofs ------------------------
(***************************************************************************)
(* What the persistent job list keeps for its clients, and the timer of    *)
(* one of its jobs.                                                        *)
(*                                                                         *)
(* Type correctness holds for any number of threads and processes.  The    *)
(* other theorems about the list are about one caller (Thread = {c}) that  *)
(* may die between any two file-system effects: with two, the list has the *)
(* lost updates and the failed renames that the runs of Scheduler show.    *)
(***************************************************************************)
EXTENDS StoreClients, JobTimer, JobStore_proofs

-----------------------------------------------------------------------------
(* Type correctness, for any clients. *)
ClientsInv == StoreInv /\ issued \subseteq JobId

LEMMA OfferedCalls == ClientsInv => Offered \subseteq Call
PROOF
  <1> SUFFICES ASSUME ClientsInv PROVE Offered \subseteq Call
    OBVIOUS
  <1>1. issued \subseteq JobId /\ Known \subseteq JobId /\ now \in Nat
    BY DEF ClientsInv, Known, StoreInv, FilesOK
  <1>2. {ComputeNextRunAtMs(s, now) : s \in JobSchedules} \subseteq Time
    BY <1>1, NextRunIsTime
  <1>3. 1 .. MaxRuns \subseteq Nat
    BY StoreClientsAssumption
  <1> QED BY <1>1, <1>2, <1>3 DEF Offered, Call

LEMMA EditedStore ==
  ASSUME NEW d, IsStore(d), NEW id \in DOMAIN d, NEW s \in JobSchedules
  PROVE  /\ IsStore([d EXCEPT ![id].schedule = s])
         /\ DOMAIN [d EXCEPT ![id].schedule = s] = DOMAIN d
PROOF
  <1>1. d[id] \in Job
    BY DEF IsStore
  <1>2. PICK job : job = [d[id] EXCEPT !.schedule = s]
    OBVIOUS
  <1>3. job \in Job
    BY <1>1, <1>2 DEF Job
  <1>4. [d EXCEPT ![id].schedule = s] = [d EXCEPT ![id] = job]
    BY <1>2
  <1> QED BY <1>3, <1>4 DEF IsStore

LEMMA EditKeepsInv ==
  ASSUME StoreInv, NEW id \in JobId, NEW s \in JobSchedules, EditSchedule(id, s)
  PROVE  StoreInv' /\ IsStore(main) /\ IsStore(main')
PROOF
  <1>1. IsStore(main) /\ id \in DOMAIN main
    BY DEF EditSchedule, StoreInv, FilesOK
  <1>2. PICK d : d = main
    OBVIOUS
  <1>3. IsStore(main')
    BY <1>1, <1>2, EditedStore DEF EditSchedule
  <1>4. FilesOK' /\ \A t \in Thread : ThreadOK(t)'
    BY <1>3 DEF EditSchedule, StoreInv, FilesOK, ThreadOK
  <1> QED BY <1>1, <1>3, <1>4 DEF EditSchedule, StoreInv

LEMMA ReturnKeepsInv ==
  ASSUME StoreInv, NEW t \in Thread, Return(t) PROVE StoreInv'
PROOF
  <1>1. CASE \E u \in Thread \ {t} : ProcOf[u] = ProcOf[t] /\ pc[u] # "idle"
    BY <1>1, EndKeepsInv DEF Return
  <1>2. CASE ~ \E u \in Thread \ {t} : ProcOf[u] = ProcOf[t] /\ pc[u] # "idle"
    BY <1>2, EndKeepsInv DEF Return
  <1> QED BY <1>1, <1>2

LEMMA ClientsInvariance == Spec => []ClientsInv
PROOF
  <1>1. Init => ClientsInv
    <2> SUFFICES ASSUME Init PROVE ClientsInv
      OBVIOUS
    <2>1. IsStore(FirstJobs)
      BY JobStoreAssumption DEF FirstJobs
    <2> QED BY <2>1, StoreInvInit DEF Init, ClientsInv, IsStore
  <1>2. ClientsInv /\ [Next]_vars => ClientsInv'
    <2> SUFFICES ASSUME ClientsInv, [Next]_vars PROVE ClientsInv'
      OBVIOUS
    <2>1. ASSUME NEW t \in Thread, Invoke(t) PROVE ClientsInv'
      <3>1. PICK c \in Offered :
              /\ Begin(t, c)
              /\ issued' = IF c.op = "add" THEN issued \cup {c.id} ELSE issued
        BY <2>1 DEF Invoke
      <3>2. c \in Call
        BY <3>1, OfferedCalls
      <3>3. c.op = "add" => c.id \in JobId
        BY <3>2 DEF Call
      <3>4. StoreInv'
        BY <3>1, <3>2, BeginKeepsInv DEF ClientsInv
      <3> QED BY <3>1, <3>3, <3>4 DEF ClientsInv
    <2>2. ASSUME NEW t \in Thread, Step(t) PROVE ClientsInv'
      BY <2>2, StoreStepKeepsInv DEF Step, ClientsInv
    <2>3. ASSUME NEW t \in Thread, Return(t) PROVE ClientsInv'
      BY <2>3, ReturnKeepsInv DEF Return, ClientsInv
    <2>4. ASSUME NEW p \in Process, Crash(p) PROVE ClientsInv'
      BY <2>4, ProcessDiesKeepsInv DEF Crash, ClientsInv
    <2>5. CASE ClockAdvances
      BY <2>5, StoreInvUnchanged DEF ClockAdvances, ClientsInv
    <2>6. ASSUME NEW id \in JobId, NEW s \in JobSchedules, EditSchedule(id, s)
          PROVE  ClientsInv'
      <3>1. issued' = issued
        BY <2>6 DEF EditSchedule
      <3> QED BY <2>6, <3>1, EditKeepsInv DEF ClientsInv
    <2>7. CASE (\E p \in Process : Restart(p)) \/ UNCHANGED vars
      BY <2>7, StoreInvUnchanged DEF Restart, vars, storeVars, ClientsInv
    <2> QED BY <2>1, <2>2, <2>3, <2>4, <2>5, <2>6, <2>7 DEF Next
  <1> QED BY <1>1, <1>2, PTL DEF Spec

(* Whatever the daemon and the commands do to the list at the same time,    *)
(* and wherever they die, what parses is a list of well-formed jobs.        *)
THEOREM StoreTypesHold == Spec => []StoreTypeOK
PROOF
  <1>1. ClientsInv => StoreTypeOK
    BY StoreInvImpliesTypeOK DEF ClientsInv
  <1> QED BY <1>1, ClientsInvariance, PTL

-----------------------------------------------------------------------------
(* One caller, which may die anywhere. *)
KeptInv(c) ==
  /\ kept \subseteq DOMAIN Durable
  /\ call[c].op = "remove" => call[c].id \notin kept
  /\ Applied(c) /\ call[c].op = "add" => call[c].id \in DOMAIN Durable

CallerInv(c) == ClientsInv /\ SoleInv(c) /\ KeptInv(c)

LEMMA DurableIsStore == StoreInv => IsStore(Durable)
  BY JobStoreAssumption DEF StoreInv, FilesOK, Durable

LEMMA ReconcileKeepsIds == \A d, m : DOMAIN Reconcile(d, m) = DOMAIN d
  BY DEF Reconcile

LEMMA CallerInit ==
  ASSUME NEW c \in Thread, Init
  PROVE  SoleInv(c) /\ KeptInv(c) /\ Durable = FirstJobs /\ ~ Applied(c)
PROOF
  <1>1. SoleInv(c) /\ ~ Applied(c)
    BY SoleInit DEF Init
  <1>2. Durable = FirstJobs
    BY StoresParse, JobStoreAssumption
       DEF Init, StoreInit, Durable, FirstJobs, Unparsable
  <1>3. call[c].op = "none"
    BY DEF Init, StoreInit, NoCall
  <1> QED BY <1>1, <1>2, <1>3 DEF Init, KeptInv

LEMMA InvokeEffect ==
  ASSUME NEW c \in Thread, Thread = {c}, CallerInv(c), Invoke(c)
  PROVE  /\ SoleInv(c)' /\ KeptInv(c)' /\ Durable' = Durable
         /\ ~ Applied(c) /\ ~ Applied(c)' /\ now' = now
         /\ call[c] = NoCall /\ call'[c] \in Call
PROOF
  <1>1. PICK b \in Offered :
          /\ Begin(c, b)
          /\ kept' = IF b.op = "remove" THEN kept \ {b.id} ELSE kept
    BY DEF Invoke
  <1>2. b \in Call
    BY <1>1, OfferedCalls DEF CallerInv
  <1>3. SoleInv(c)' /\ Durable' = Durable /\ ~ Applied(c) /\ ~ Applied(c)'
    BY <1>1, SoleBegin DEF CallerInv, ClientsInv
  <1>4. pc[c] = "idle" /\ call'[c] = b /\ now' = now
    BY <1>1 DEF Begin, CallerInv, ClientsInv, StoreInv
  <1>5. call[c] = NoCall
    BY <1>4 DEF CallerInv, SoleInv, ReturnOK
  <1>6. KeptInv(c)'
    BY <1>1, <1>3, <1>4 DEF CallerInv, KeptInv
  <1> QED BY <1>2, <1>3, <1>4, <1>5, <1>6

LEMMA StepEffect ==
  ASSUME NEW c \in Thread, Thread = {c}, CallerInv(c), Step(c)
  PROVE  /\ SoleInv(c)' /\ KeptInv(c)' /\ StoreEffect(c)
         /\ call' = call /\ now' = now /\ call[c] \in Call
PROOF
  <1>1. StoreInv /\ SoleInv(c) /\ StoreStep(c) /\ kept' = kept
    BY DEF CallerInv, ClientsInv, Step
  <1>2. SoleInv(c)' /\ StoreEffect(c)
    BY <1>1, SoleStep
  <1>3. call' = call /\ now' = now /\ pc[c] # "idle"
    BY <1>1 DEF StoreStep, ReadMain, Parse, ReadTmp, Promote, Legacy, Stringify,
                Open, Write, Rename, Resume
  <1>4. call[c] \in Call
    BY <1>1, <1>3 DEF StoreInv, ThreadOK
  <1>5. KeptInv(c)'
    <2> USE <1>1, <1>3
    <2>1. CASE Durable' = Durable /\ (Applied(c)' <=> Applied(c))
      BY <2>1 DEF CallerInv, KeptInv
    <2>2. CASE /\ ~ Applied(c)'
               /\ \E m \in 0 .. now : Durable' = Reconcile(Durable, m)
      BY <2>2, ReconcileKeepsIds DEF CallerInv, KeptInv
    <2>3. CASE /\ ~ SavesNothing(call[c], Durable)
               /\ \E m \in 0 .. now : Durable' = Apply(call[c], Durable, m)
      <3>1. PICK m \in 0 .. now : Durable' = Apply(call[c], Durable, m)
        BY <2>3
      <3>2. PICK d : d = Durable
        OBVIOUS
      <3>3. PICK b \in Call : b = call[c]
        BY <1>4
      <3>4. MakesOf(b, d, m, Durable')
        BY <2>3, <3>1, <3>2, <3>3, DurableIsStore, AppliedJobs
      <3>5. /\ b.op = "add" => b.id \in DOMAIN Durable'
            /\ b.op # "remove" => DOMAIN d \subseteq DOMAIN Durable'
            /\ b.op = "remove" => DOMAIN Durable' = DOMAIN d \ {b.id}
        BY <3>4 DEF MakesOf
      <3>6. kept \subseteq DOMAIN d /\ (b.op = "remove" => b.id \notin kept)
        BY <3>2, <3>3 DEF CallerInv, KeptInv
      <3> QED BY <3>3, <3>5, <3>6 DEF KeptInv
    <2> QED BY <1>2, <2>1, <2>2, <2>3 DEF StoreEffect, ListEffect
  <1> QED BY <1>2, <1>3, <1>4, <1>5

LEMMA ReturnEffect ==
  ASSUME NEW c \in Thread, Thread = {c}, CallerInv(c), Return(c)
  PROVE  /\ SoleInv(c)' /\ KeptInv(c)' /\ Durable' = Durable /\ now' = now
         /\ call[c] \in Call /\ call'[c] = NoCall /\ ~ Applied(c)'
         /\ Applied(c) \/ SavesNothing(call[c], Durable)
PROOF
  <1>1. /\ SoleInv(c)' /\ ~ Applied(c)' /\ Durable' = Durable /\ call'[c] = NoCall
        /\ pc[c] = "done" /\ (Applied(c) \/ SavesNothing(call[c], Durable))
    BY SoleEnd DEF CallerInv, ClientsInv, Return
  <1>2. call[c] \in Call
    BY <1>1 DEF CallerInv, ClientsInv, StoreInv, ThreadOK
  <1>3. call[c].op = "add" => call[c].id \in DOMAIN Durable
    BY <1>1 DEF CallerInv, KeptInv, SavesNothing
  <1>4. KeptInv(c)'
    BY <1>1, <1>3 DEF Return, CallerInv, KeptInv, NoCall
  <1>5. now' = now
    BY DEF Return, End
  <1> QED BY <1>1, <1>2, <1>4, <1>5

LEMMA CrashEffect ==
  ASSUME NEW c \in Thread, Thread = {c}, CallerInv(c), NEW p \in Process, Crash(p)
  PROVE  /\ SoleInv(c)' /\ KeptInv(c)' /\ Durable' = Durable /\ now' = now
         /\ call'[c] = NoCall /\ ~ Applied(c)'
PROOF
  <1>1. ProcessDies(ProcOf[c]) /\ kept' = kept
    BY DEF Crash
  <1>2. SoleInv(c)' /\ ~ Applied(c)' /\ Durable' = Durable /\ call'[c] = NoCall
    BY <1>1, SoleDies DEF CallerInv, ClientsInv
  <1>3. KeptInv(c)'
    BY <1>1, <1>2 DEF CallerInv, KeptInv, NoCall
  <1> QED BY <1>1, <1>2, <1>3 DEF ProcessDies

LEMMA EditEffect ==
  ASSUME NEW c \in Thread, CallerInv(c),
         NEW id \in JobId, NEW s \in JobSchedules, EditSchedule(id, s)
  PROVE  /\ SoleInv(c)' /\ KeptInv(c)' /\ now' = now
         /\ id \in DOMAIN Durable
         /\ Durable' = [Durable EXCEPT ![id].schedule = s]
         /\ Durable = main /\ Durable' = main'
         /\ call' = call /\ call[c] = NoCall /\ ~ Applied(c) /\ ~ Applied(c)'
PROOF
  <1>1. IsStore(main) /\ IsStore(main')
    BY EditKeepsInv DEF CallerInv, ClientsInv
  <1>2. /\ UNCHANGED <<tmp, data, pc, call, text, fd, saving, now, issued, kept, dead>>
        /\ id \in DOMAIN main /\ main' = [main EXCEPT ![id].schedule = s]
        /\ pc[c] = "idle"
    BY DEF EditSchedule
  <1>3. Durable = main /\ Durable' = main'
    BY <1>1, StoresParse DEF Durable
  <1>4. DOMAIN Durable' = DOMAIN Durable
    BY <1>2, <1>3
  <1>5. ~ Applied(c) /\ ~ Applied(c)'
    BY <1>2 DEF Applied
  <1>6. call[c] = NoCall
    BY <1>2 DEF CallerInv, SoleInv, ReturnOK
  <1>7. KeptInv(c)'
    BY <1>2, <1>4, <1>5, <1>6 DEF CallerInv, KeptInv, NoCall
  <1>8. SoleInv(c)'
    BY <1>1, <1>2 DEF CallerInv, SoleInv, LoadOK, SaveOK, ReturnOK
  <1> QED BY <1>2, <1>3, <1>5, <1>6, <1>7, <1>8

LEMMA WaitEffect ==
  ASSUME NEW c \in Thread, CallerInv(c),
         ClockAdvances \/ (\E p \in Process : Restart(p)) \/ UNCHANGED vars
  PROVE  /\ SoleInv(c)' /\ KeptInv(c)' /\ Durable' = Durable
         /\ call' = call /\ (Applied(c)' <=> Applied(c))
PROOF
  <1>1. /\ UNCHANGED <<main, tmp, pc, call, text, fd, saving, data, kept>>
        /\ now' = now \/ now' = now + 1
    BY DEF ClockAdvances, Restart, vars, storeVars
  <1>2. SoleInv(c)' /\ Durable' = Durable /\ (Applied(c)' <=> Applied(c))
    BY <1>1, SoleClock DEF CallerInv, ClientsInv
  <1> QED BY <1>1, <1>2 DEF CallerInv, KeptInv

LEMMA CallerInvariance ==
  ASSUME NEW c, Thread = {c} PROVE Spec => []CallerInv(c)
PROOF
  <1>0. c \in Thread
    OBVIOUS
  <1>1. Init => SoleInv(c) /\ KeptInv(c)
    BY <1>0, CallerInit
  <1>2. CallerInv(c) /\ [Next]_vars => SoleInv(c)' /\ KeptInv(c)'
    <2> SUFFICES ASSUME CallerInv(c), [Next]_vars PROVE SoleInv(c)' /\ KeptInv(c)'
      OBVIOUS
    <2> USE <1>0
    <2>1. CASE Invoke(c)
      BY <2>1, InvokeEffect
    <2>2. CASE Step(c)
      BY <2>2, StepEffect
    <2>3. CASE Return(c)
      BY <2>3, ReturnEffect
    <2>4. CASE \E p \in Process : Crash(p)
      BY <2>4, CrashEffect
    <2>5. CASE \E id \in JobId, s \in JobSchedules : EditSchedule(id, s)
      BY <2>5, EditEffect
    <2>6. CASE ClockAdvances \/ (\E p \in Process : Restart(p)) \/ UNCHANGED vars
      BY <2>6, WaitEffect
    <2> QED BY <2>1, <2>2, <2>3, <2>4, <2>5, <2>6 DEF Next
  <1> QED BY <1>1, <1>2, ClientsInvariance, PTL DEF Spec, CallerInv

(* The process that had the list may have died anywhere: jobs.json is       *)
(* either a list or was never written.  Only jobs.json.tmp is ever opened   *)
(* for writing, and it replaces jobs.json only when it is complete.         *)
THEOREM QuiescentFilesParse ==
  ASSUME NEW c, Thread = {c} PROVE Spec => []QuiescentFileParses
PROOF
  <1>1. CallerInv(c) => QuiescentFileParses
    <2> SUFFICES ASSUME CallerInv(c) PROVE main \notin {Empty, Torn}
      BY DEF QuiescentFileParses
    <2>1. CASE IsStore(main)
      BY <2>1, StoresParse DEF Unparsable
    <2>2. CASE main = NoFile
      BY <2>2, JobStoreAssumption
    <2> QED BY <2>1, <2>2 DEF CallerInv, SoleInv
  <1> QED BY <1>1, CallerInvariance, PTL

(* A job whose add has returned stays in the list until its removal is      *)
(* asked for, through every operation, recovery and death of its caller.    *)
THEOREM AddedJobsStay ==
  ASSUME NEW c, Thread = {c} PROVE Spec => []AddedJobsPersist
PROOF
  <1>1. CallerInv(c) => AddedJobsPersist
    BY DEF CallerInv, KeptInv, AddedJobsPersist
  <1> QED BY <1>1, CallerInvariance, PTL

(* The operators of JobTable, which its instance defines anew, are those of *)
(* the store.                                                               *)
LEMMA SameSchedules ==
  /\ \A s, n : Table!ComputeNextRunAtMs(s, n) = ComputeNextRunAtMs(s, n)
  /\ \A s : Table!ScheduleFingerprint(s) = ScheduleFingerprint(s)
PROOF
  <1>1. \A i, t, S : Table!IsLeastAfter(i, t, S) <=> IsLeastAfter(i, t, S)
    BY DEF IsLeastAfter, Table!IsLeastAfter
  <1>2. \A e, t : Table!CronNextRun(e, t) = CronNextRun(e, t)
    BY DEF CronNextRun, Table!CronNextRun, IsLeastAfter, Table!IsLeastAfter
  <1>3. \A n : Table!FloorToSecond(n) = FloorToSecond(n)
    BY DEF FloorToSecond, Table!FloorToSecond
  <1>4. \A a, e, n : Table!IntervalNextRun(a, e, n) = IntervalNextRun(a, e, n)
    BY DEF IntervalNextRun, Table!IntervalNextRun
  <1>5. \A s, n : Table!ComputeNextRunAtMs(s, n) = ComputeNextRunAtMs(s, n)
    BY <1>2, <1>3, <1>4 DEF ComputeNextRunAtMs, Table!ComputeNextRunAtMs
  <1> QED BY <1>5 DEF ScheduleFingerprint, Table!ScheduleFingerprint

LEMMA SameReconcile == \A d, m : Table!Reconcile(d, m) = Reconcile(d, m)
PROOF
  <1>1. \A job : /\ Table!NeedsReconcile(job) <=> NeedsReconcile(job)
                 /\ Table!ScheduleEdited(job) <=> ScheduleEdited(job)
    BY SameSchedules DEF NeedsReconcile, Table!NeedsReconcile,
                         ScheduleEdited, Table!ScheduleEdited
  <1>2. \A job, m : Table!Reconciled(job, m) = Reconciled(job, m)
    BY <1>1, SameSchedules DEF Reconciled, Table!Reconciled
  <1> QED BY <1>2 DEF Reconcile, Table!Reconcile

LEMMA SameApply ==
  /\ Table!NoCall = NoCall /\ Table!Call = Call
  /\ \A b, d : Table!SavesNothing(b, d) <=> SavesNothing(b, d)
  /\ \A d, m : \A b \in Call :
       ~ SavesNothing(b, d) => Table!Apply(b, d, m) = Apply(b, d, m)
PROOF
  <1>1. \A s, m : Table!NewJob(s, m) = NewJob(s, m)
    BY SameSchedules DEF NewJob, Table!NewJob
  <1>2. \A job, b, m : Table!Enabling(job, b, m) = Enabling(job, b, m)
    BY SameSchedules DEF Enabling, Table!Enabling
  <1>3. ASSUME NEW d, NEW m, NEW b \in Call, ~ SavesNothing(b, d)
        PROVE  Table!Apply(b, d, m) = Apply(b, d, m)
    <2>1. CASE b.op = "add"
      <3>1. Apply(b, d, m) = [id \in DOMAIN d \cup {b.id} |->
                                IF id = b.id THEN NewJob(b.schedule, m) ELSE d[id]]
        BY <2>1 DEF Apply
      <3>2. Table!Apply(b, d, m) = [id \in DOMAIN d \cup {b.id} |->
              IF id = b.id THEN Table!NewJob(b.schedule, m) ELSE d[id]]
        BY <2>1 DEF Table!Apply
      <3>3. PICK new : new = NewJob(b.schedule, m)
        OBVIOUS
      <3>4. new = Table!NewJob(b.schedule, m)
        BY <1>1, <3>3
      <3> QED BY <3>1, <3>2, <3>3, <3>4
    <2>2. CASE b.op = "setEnabled"
      <3>1. Apply(b, d, m) = [d EXCEPT ![b.id] = Enabling(d[b.id], b.enabled, m)]
        BY <2>2 DEF Apply
      <3>2. Table!Apply(b, d, m) =
              [d EXCEPT ![b.id] = Table!Enabling(d[b.id], b.enabled, m)]
        BY <2>2 DEF Table!Apply
      <3> QED BY <1>2, <3>1, <3>2
    <2>3. CASE b.op \in {"remove", "advance", "record"}
      BY <2>3 DEF Apply, Table!Apply
    <2> QED BY <1>3, <2>1, <2>2, <2>3 DEF Call, SavesNothing
  <1>4. \A b, d : Table!SavesNothing(b, d) <=> SavesNothing(b, d)
    BY DEF SavesNothing, Table!SavesNothing
  <1>5. Table!NoCall = NoCall
    BY DEF NoCall, Table!NoCall
  <1>6. Table!Call = Call
    BY DEF Call, Table!Call, Time, Table!Time
  <1> QED BY <1>3, <1>4, <1>5, <1>6

LEMMA AppliedIsBoolean ==
  ASSUME NEW c \in Thread
  PROVE  /\ Applied(c) = TRUE \/ Applied(c) = FALSE
         /\ (Applied(c) = TRUE \/ Applied(c) = FALSE)'
         /\ (Applied(c)' <=> Applied(c)) => Applied(c)' = Applied(c)
  BY DEF Applied

(* Only a process in the middle of an operation dies, and it does nothing   *)
(* until it is started again.                                               *)
DeadInv(c) == ProcOf[c] \in dead => pc[c] = "idle"

LEMMA DeadInvariance ==
  ASSUME NEW c, Thread = {c} PROVE Spec => []DeadInv(c)
PROOF
  <1>0. c \in Thread
    OBVIOUS
  <1>1. Init => DeadInv(c)
    BY DEF Init, DeadInv
  <1>2. CallerInv(c) /\ DeadInv(c) /\ [Next]_vars => DeadInv(c)'
    <2> SUFFICES ASSUME CallerInv(c), DeadInv(c), [Next]_vars PROVE DeadInv(c)'
      OBVIOUS
    <2> USE <1>0
    <2>1. CASE Invoke(c)
      BY <2>1 DEF Invoke, DeadInv
    <2>2. CASE Step(c)
      <3>1. pc[c] # "idle" /\ dead' = dead
        BY <2>2 DEF Step, StoreStep, ReadMain, Parse, ReadTmp, Promote, Legacy,
                    Stringify, Open, Write, Rename, Resume
      <3> QED BY <3>1 DEF DeadInv
    <2>3. CASE Return(c)
      <3>1. pc'[c] = "idle"
        BY <2>3 DEF Return, End, Goto, CallerInv, ClientsInv, StoreInv
      <3> QED BY <3>1 DEF DeadInv
    <2>4. CASE \E p \in Process : Crash(p)
      <3>1. pc'[c] = "idle"
        BY <2>4 DEF Crash, ProcessDies
      <3> QED BY <3>1 DEF DeadInv
    <2>5. CASE \E p \in Process : Restart(p)
      BY <2>5 DEF Restart, storeVars, DeadInv
    <2>6. CASE \/ \E id \in JobId, s \in JobSchedules : EditSchedule(id, s)
               \/ ClockAdvances \/ UNCHANGED vars
      BY <2>6 DEF EditSchedule, ClockAdvances, vars, storeVars, DeadInv
    <2> QED BY <2>1, <2>2, <2>3, <2>4, <2>5, <2>6 DEF Next
  <1> QED BY <1>1, <1>2, CallerInvariance, PTL DEF Spec

(* store.ts gives one caller the atomic list of JobTable: every step of the *)
(* code is a step of that list or none.                                     *)
THEOREM StoreImplementsTable ==
  ASSUME NEW c, Thread = {c} PROVE Spec => ImplementsJobTable
PROOF
  <1>0. c \in Thread /\ Client = c
    BY DEF Client
  <1>1. Init => Table!Init
    BY <1>0, CallerInit, SameApply DEF Init, StoreInit, Table!Init
  <1>2. CallerInv(c) /\ DeadInv(c) /\ [Next]_vars => [Table!Next]_Table!vars
    <2> SUFFICES ASSUME CallerInv(c), DeadInv(c), [Next]_vars
                 PROVE  [Table!Next]_Table!vars
      OBVIOUS
    <2> USE <1>0, AppliedIsBoolean, SameApply
    <2>1. CASE Invoke(c)
      <3>1. /\ call[Client] = NoCall /\ call'[Client] \in Call
            /\ Durable' = Durable /\ now' = now
            /\ Applied(Client)' = Applied(Client)
        BY <2>1, InvokeEffect
      <3>2. ProcOf[Client] \notin dead /\ dead' = dead
        BY <2>1 DEF Invoke
      <3> QED BY <3>1, <3>2 DEF Table!Next, Table!Invoke
    <2>2. CASE Step(c)
      <3>1. call[Client] # NoCall /\ call[Client] \in Call
        BY <2>2, StepEffect DEF Call, NoCall
      <3>2. call' = call /\ now' = now /\ dead' = dead /\ ListEffect(c)
        BY <2>2, StepEffect DEF StoreEffect, Step
      <3>3. CASE Durable' = Durable /\ (Applied(c)' <=> Applied(c))
        BY <3>2, <3>3 DEF Table!vars
      <3>4. CASE /\ ~ Applied(c) /\ ~ Applied(c)'
                 /\ \E m \in 0 .. now : Durable' = Reconcile(Durable, m)
        <4>1. Table!Heal
          BY <3>1, <3>2, <3>4, SameReconcile DEF Table!Heal
        <4> QED BY <4>1 DEF Table!Next
      <3>5. CASE /\ ~ Applied(c) /\ Applied(c)'
                 /\ ~ SavesNothing(call[c], Durable)
                 /\ \E m \in 0 .. now : Durable' = Apply(call[c], Durable, m)
        <4>1. Table!TakeEffect
          BY <3>1, <3>2, <3>5 DEF Table!TakeEffect
        <4> QED BY <4>1 DEF Table!Next
      <3> QED BY <3>2, <3>3, <3>4, <3>5 DEF ListEffect
    <2>3. CASE Return(c)
      <3>1. /\ call[Client] # NoCall /\ call'[Client] = NoCall
            /\ Applied(Client)' = FALSE /\ Durable' = Durable /\ now' = now
            /\ Applied(Client) \/ SavesNothing(call[Client], Durable)
            /\ dead' = dead
        BY <2>3, ReturnEffect DEF Call, NoCall, Return
      <3> QED BY <3>1 DEF Table!Next, Table!Return
    <2>4. CASE \E p \in Process : Crash(p)
      <3>1. /\ call'[Client] = NoCall /\ Applied(Client)' = FALSE
            /\ Durable' = Durable /\ now' = now
        BY <2>4, CrashEffect
      <3>2. ProcOf[Client] \notin dead /\ ProcOf[Client] \in dead'
        BY <2>4 DEF Crash, DeadInv
      <3> QED BY <3>1, <3>2 DEF Table!Next, Table!ProcessDies
    <2>5. ASSUME NEW id \in JobId, NEW s \in JobSchedules, EditSchedule(id, s)
          PROVE  Table!Next
      <3>1. /\ call[Client] = NoCall /\ call' = call /\ now' = now
            /\ Applied(Client)' = Applied(Client) /\ id \in DOMAIN Durable
            /\ Durable' = [Durable EXCEPT ![id].schedule = s]
            /\ dead' = dead
        BY <2>5, EditEffect DEF EditSchedule
      <3> QED BY <3>1 DEF Table!Next, Table!EditSchedule
    <2>6. CASE ClockAdvances
      <3>1. /\ call' = call /\ Durable' = Durable /\ now' = now + 1
            /\ Applied(Client)' = Applied(Client) /\ dead' = dead
        BY <2>6, WaitEffect DEF ClockAdvances
      <3> QED BY <3>1 DEF Table!Next, Table!ClockAdvances
    <2>7. ASSUME NEW p \in Process, Restart(p) PROVE [Table!Next]_Table!vars
      <3>1. /\ call' = call /\ Durable' = Durable /\ now' = now
            /\ Applied(Client)' = Applied(Client)
        BY <2>7, WaitEffect DEF Restart, storeVars
      <3>2. CASE p = ProcOf[Client]
        <4>1. ProcOf[Client] \in dead /\ ProcOf[Client] \notin dead'
          BY <2>7, <3>2 DEF Restart
        <4> QED BY <3>1, <4>1 DEF Table!Next, Table!Restart
      <3>3. CASE p # ProcOf[Client]
        <4>1. ProcOf[Client] \in dead' <=> ProcOf[Client] \in dead
          BY <2>7, <3>3 DEF Restart
        <4> QED BY <3>1, <4>1 DEF Table!vars
      <3> QED BY <3>2, <3>3
    <2>8. CASE UNCHANGED vars
      <3>1. call' = call /\ Durable' = Durable /\ Applied(Client)' = Applied(Client)
        BY <2>8, WaitEffect
      <3> QED BY <2>8, <3>1 DEF vars, storeVars, Table!vars
    <2> QED BY <2>1, <2>2, <2>3, <2>4, <2>5, <2>6, <2>7, <2>8 DEF Next
  <1> QED BY <1>1, <1>2, CallerInvariance, DeadInvariance, PTL
          DEF Spec, ImplementsJobTable, Table!Spec
-----------------------------------------------------------------------------
(* The next runs in the list follow the schedules in it.                    *)
Follows(nx, s, n) ==
  nx # NoTime => IF s.kind = "cron" THEN nx \in Occurrences[s.expr]
                                    ELSE nx <= n + s.everyMs

(* The next run of a job is one of the schedule its fingerprint is of, also *)
(* while an edit of the schedule waits for the next load; that of an        *)
(* enabled job without a fingerprint is one of its schedule.                *)
FollowsAt(job, n) ==
  \A s \in JobSchedules :
    \/ job.fingerprint = ScheduleFingerprint(s)
    \/ job.enabled /\ job.fingerprint = NoFingerprint /\ job.schedule = s
    => Follows(job.next, s, n)

Timely(d, n) == \A id \in DOMAIN d : FollowsAt(d[id], n)
Marked(d) == \A id \in DOMAIN d : d[id].enabled => d[id].fingerprint # NoFingerprint

(* What makes it so: nobody writes next runs of other schedules (a tick     *)
(* that has loaded the list before an edit would); two cron schedules do    *)
(* not differ in the time zone alone, which the fingerprint leaves out; and *)
(* the first list is not itself behind an edit.                             *)
FollowAssumption ==
  /\ "advance" \notin Ops
  /\ \A r, s \in JobSchedules :
       r.kind = "cron" /\ ScheduleFingerprint(r) = ScheduleFingerprint(s) => r = s
  /\ \A s \in JobSchedules : ScheduleFingerprint(s) # NoFingerprint
  /\ Timely(FirstJobs, 0)
  /\ FirstMain # NoFile => Marked(FirstMain)

FollowInv(c) ==
  /\ Timely(Durable, now)
  /\ main # NoFile => Marked(main)
  /\ call[c].op # "advance"

LEMMA ComputedFollows ==
  ASSUME FollowAssumption, NEW s \in JobSchedules, NEW n \in Nat, NEW m \in 0 .. n,
         NEW r \in JobSchedules, ScheduleFingerprint(r) = ScheduleFingerprint(s)
  PROVE  Follows(ComputeNextRunAtMs(s, m), r, n)
PROOF
  <1>1. s \in Schedule /\ r \in Schedule /\ m \in Nat
    BY JobStoreAssumption
  <1>2. CASE s \in CronSchedules
    <2>1. s.kind = "cron" /\ s.expr \in DOMAIN Occurrences
      BY <1>2 DEF CronSchedules
    <2>2. r = s
      BY <2>1, FollowAssumption DEF FollowAssumption
    <2>3. PICK p \in Int : p = FloorToSecond(m) + SecondMs
      BY <1>1, FloorToSecondBounds, ScheduleAssumption
    <2>4. ComputeNextRunAtMs(s, m) = CronNextRun(s.expr, p)
      BY <2>1, <2>3 DEF ComputeNextRunAtMs
    <2> QED BY <2>1, <2>2, <2>4, CronNextRunIsLeastAfter DEF IsLeastAfter, Follows
  <1>3. CASE s \in IntervalSchedules
    <2>1. s.kind = "every" /\ s.everyMs \in Nat \ {0}
      BY <1>3 DEF IntervalSchedules
    <2>2. r.kind = "every" /\ r.everyMs = s.everyMs
      <3>1. r.kind \in {"cron", "every"}
        BY <1>1 DEF Schedule, CronSchedules, IntervalSchedules
      <3>2. r.kind # "cron"
        BY <2>1, FollowAssumption DEF FollowAssumption
      <3> QED BY <2>1, <3>1, <3>2 DEF ScheduleFingerprint
    <2>3. PICK a \in Int : a = IF s.anchorMs = NoTime THEN m ELSE s.anchorMs
      BY <1>1, <1>3 DEF IntervalSchedules
    <2>4. ComputeNextRunAtMs(s, m) = IntervalNextRun(a, s.everyMs, m)
      BY <2>1, <2>3 DEF ComputeNextRunAtMs
    <2>5. PICK i : i = IntervalNextRun(a, s.everyMs, m)
      OBVIOUS
    <2>6. i \in Int /\ i <= m + s.everyMs
      BY <1>1, <2>1, <2>5, IntervalNextRunIsNextGridInstant
    <2>7. i <= n + r.everyMs
      BY <2>1, <2>2, <2>6
    <2> QED BY <2>2, <2>4, <2>5, <2>7 DEF Follows
  <1> QED BY <1>1, <1>2, <1>3 DEF Schedule

LEMMA ComputedJobFollows ==
  ASSUME FollowAssumption, NEW job \in Job, NEW n \in Nat, NEW m \in 0 .. n,
         job.fingerprint = ScheduleFingerprint(job.schedule),
         job.next = ComputeNextRunAtMs(job.schedule, m)
  PROVE  FollowsAt(job, n)
PROOF
  <1>1. job.schedule \in JobSchedules
    BY DEF Job
  <1>2. \A s \in JobSchedules : ScheduleFingerprint(s) # NoFingerprint
    BY DEF FollowAssumption
  <1> QED BY <1>1, <1>2, ComputedFollows DEF FollowsAt

LEMMA FollowsLater ==
  ASSUME NEW job \in Job, NEW n \in Nat, NEW m \in Nat, n <= m, FollowsAt(job, n)
  PROVE  FollowsAt(job, m)
PROOF
  <1>1. ASSUME NEW s \in JobSchedules, Follows(job.next, s, n)
        PROVE  Follows(job.next, s, m)
    <2>1. job.next = NoTime \/ job.next \in Int
      BY DEF Job, Time
    <2>2. s.kind = "cron" \/ s.everyMs \in Nat
      BY JobStoreAssumption DEF Schedule, CronSchedules, IntervalSchedules
    <2> QED BY <1>1, <2>1, <2>2 DEF Follows
  <1> QED BY <1>1 DEF FollowsAt

LEMMA SameFingerprintFollows ==
  ASSUME FollowAssumption, NEW r \in JobSchedules, NEW s \in JobSchedules,
         ScheduleFingerprint(r) = ScheduleFingerprint(s), NEW nx, NEW n,
         Follows(nx, s, n)
  PROVE  Follows(nx, r, n)
PROOF
  <1>1. r.kind \in {"cron", "every"} /\ s.kind \in {"cron", "every"}
    BY JobStoreAssumption DEF Schedule, CronSchedules, IntervalSchedules
  <1>2. r.kind = "cron" => r = s
    BY DEF FollowAssumption
  <1>3. s.kind = "cron" => r = s
    BY DEF FollowAssumption
  <1>4. r.kind # "cron" /\ s.kind # "cron" => r.everyMs = s.everyMs
    BY DEF ScheduleFingerprint
  <1> QED BY <1>1, <1>2, <1>3, <1>4 DEF Follows

LEMMA ReconciledFollows ==
  ASSUME FollowAssumption, NEW job \in Job, NEW n \in Nat, NEW m \in 0 .. n,
         FollowsAt(job, n), Reconciled(job, m) \in Job
  PROVE  FollowsAt(Reconciled(job, m), n)
PROOF
  <1>1. CASE ~ NeedsReconcile(job)
    BY <1>1 DEF Reconciled
  <1>2. CASE NeedsReconcile(job)
    <2>1. PICK new \in Job : new = Reconciled(job, m)
      OBVIOUS
    <2>2. /\ new.schedule = job.schedule /\ job.enabled
          /\ new.fingerprint = ScheduleFingerprint(job.schedule)
          /\ new.next = IF ScheduleEdited(job) \/ job.next = NoTime
                        THEN ComputeNextRunAtMs(job.schedule, m) ELSE job.next
      BY <1>2, <2>1, ReconciledJob DEF NeedsReconcile
    <2>3. CASE ScheduleEdited(job) \/ job.next = NoTime
      BY <2>1, <2>2, <2>3, ComputedJobFollows
    <2>4. CASE ~ (ScheduleEdited(job) \/ job.next = NoTime)
      <3>1. job.schedule \in JobSchedules /\ new.next = job.next
        BY <2>2, <2>4 DEF Job
      <3>2. Follows(job.next, job.schedule, n)
        BY <2>2, <2>4, <3>1 DEF ScheduleEdited, FollowsAt
      <3>3. ASSUME NEW s \in JobSchedules,
                   \/ new.fingerprint = ScheduleFingerprint(s)
                   \/ new.fingerprint = NoFingerprint
            PROVE  Follows(new.next, s, n)
        <4>1. ScheduleFingerprint(s) = ScheduleFingerprint(job.schedule)
          BY <2>2, <3>1, <3>3 DEF FollowAssumption
        <4> QED BY <3>1, <3>2, <4>1, SameFingerprintFollows
      <3> QED BY <2>1, <3>3 DEF FollowsAt
    <2> QED BY <2>3, <2>4
  <1> QED BY <1>1, <1>2

LEMMA ReconcileKeepsTimely ==
  ASSUME FollowAssumption, NEW d, IsStore(d), NEW n \in Nat, NEW m \in 0 .. n,
         Timely(d, n)
  PROVE  Timely(Reconcile(d, m), n)
PROOF
  <1>1. IsStore(Reconcile(d, m))
    BY ReconcileKeepsStores
  <1>2. ASSUME NEW id \in DOMAIN d PROVE FollowsAt(Reconciled(d[id], m), n)
    <2>1. Reconciled(d[id], m) \in Job /\ d[id] \in Job
      BY <1>1 DEF IsStore, Reconcile
    <2> QED BY <2>1, ReconciledFollows DEF Timely
  <1> QED BY <1>2 DEF Timely, Reconcile

LEMMA ApplyKeepsTimely ==
  ASSUME FollowAssumption, NEW d, IsStore(d), NEW n \in Nat, NEW m \in 0 .. n,
         Timely(d, n), NEW b \in Call, ~ SavesNothing(b, d), b.op # "advance"
  PROVE  Timely(Apply(b, d, m), n)
PROOF
  <1>0. PICK new : new = Apply(b, d, m)
    OBVIOUS
  <1>1. MakesOf(b, d, m, new) /\ IsStore(new)
    BY <1>0, AppliedJobs, ApplyKeepsStores
  <1>2. ASSUME NEW id \in DOMAIN new PROVE FollowsAt(new[id], n)
    <2>1. new[id] \in Job
      BY <1>1 DEF IsStore
    <2>2. CASE id # b.id
      BY <1>1, <2>2 DEF MakesOf, Timely
    <2>3. CASE id = b.id /\ b.op = "add"
      <3>1. /\ new[id].fingerprint = ScheduleFingerprint(new[id].schedule)
            /\ new[id].next = ComputeNextRunAtMs(new[id].schedule, m)
        BY <1>1, <2>3 DEF MakesOf, NewJob
      <3> QED BY <2>1, <3>1, ComputedJobFollows
    <2>4. CASE id = b.id /\ b.op = "setEnabled"
      <3>1. d[b.id] \in Job /\ b.id \in DOMAIN d
        BY <1>1, <2>4 DEF MakesOf, IsStore
      <3>2. b.enabled \in BOOLEAN /\ new[id] = Enabling(d[b.id], b.enabled, m)
        BY <1>0, <2>4, AppliedEnabling, Zenon
      <3>3. PICK on \in BOOLEAN : on = b.enabled
        BY <3>2
      <3>4. /\ new[id].enabled = on /\ new[id].schedule = d[b.id].schedule
            /\ on => /\ new[id].fingerprint = ScheduleFingerprint(d[b.id].schedule)
                     /\ new[id].next = ComputeNextRunAtMs(d[b.id].schedule, m)
            /\ ~ on => /\ new[id].fingerprint = d[b.id].fingerprint
                       /\ new[id].next = d[b.id].next
        BY <3>1, <3>2, <3>3, EnabledJob
      <3>5. CASE on
        BY <2>1, <3>4, <3>5, ComputedJobFollows
      <3>6. CASE ~ on
        BY <3>1, <3>4, <3>6 DEF Timely, FollowsAt
      <3> QED BY <3>5, <3>6
    <2>5. CASE id = b.id /\ b.op = "record"
      <3>1. /\ new[id].next = d[id].next /\ id \in DOMAIN d
            /\ Untouched(d[id], new[id])
        BY <1>1, <2>5 DEF MakesOf
      <3> QED BY <3>1 DEF Untouched, Timely, FollowsAt
    <2> QED BY <1>1, <2>2, <2>3, <2>4, <2>5 DEF MakesOf
  <1> QED BY <1>0, <1>2 DEF Timely
LEMMA EditKeepsTimely ==
  ASSUME NEW d, IsStore(d), NEW id \in DOMAIN d, NEW s \in JobSchedules,
         NEW n, Timely(d, n), Marked(d), NEW e, e = [d EXCEPT ![id].schedule = s]
  PROVE  Timely(e, n) /\ Marked(e)
PROOF
  <1>1. ASSUME NEW i \in DOMAIN d
        PROVE  /\ e[i].enabled = d[i].enabled /\ e[i].next = d[i].next
               /\ e[i].fingerprint = d[i].fingerprint
    <2>1. d[id] \in Job
      BY DEF IsStore
    <2>2. e = [d EXCEPT ![id] = [d[id] EXCEPT !.schedule = s]]
      OBVIOUS
    <2>3. PICK job : job = [d[id] EXCEPT !.schedule = s]
      OBVIOUS
    <2>4. /\ job.enabled = d[id].enabled /\ job.next = d[id].next
          /\ job.fingerprint = d[id].fingerprint
      BY <2>1, <2>3 DEF Job
    <2> QED BY <2>2, <2>3, <2>4
  <1>2. DOMAIN e = DOMAIN d
    OBVIOUS
  <1>3. ASSUME NEW i \in DOMAIN e PROVE FollowsAt(e[i], n)
    BY <1>1, <1>2 DEF Timely, Marked, FollowsAt
  <1> QED BY <1>1, <1>2, <1>3 DEF Timely, Marked

LEMMA CurrentIsMarked ==
  ASSUME FollowAssumption, NEW d, IsStore(d), Current(d) PROVE Marked(d)
  BY DEF FollowAssumption, IsStore, Job, Current, Marked

LEMMA FollowInvariance ==
  ASSUME NEW c, Thread = {c}, FollowAssumption
  PROVE  Spec => []FollowInv(c)
PROOF
  <1>0. c \in Thread
    OBVIOUS
  <1>1. Init => FollowInv(c)
    BY <1>0, CallerInit DEF Init, StoreInit, NoCall, FollowInv, FollowAssumption, FirstJobs
  <1>2. CallerInv(c) /\ FollowInv(c) /\ [Next]_vars => FollowInv(c)'
    <2> SUFFICES ASSUME CallerInv(c), FollowInv(c), [Next]_vars PROVE FollowInv(c)'
      OBVIOUS
    <2> USE <1>0
    <2>1. PICK d : d = Durable
      OBVIOUS
    <2>2. PICK n \in Nat : n = now
      BY DEF CallerInv, ClientsInv, StoreInv, FilesOK
    <2>3. IsStore(d) /\ Timely(d, n)
      BY <2>1, <2>2, DurableIsStore DEF CallerInv, ClientsInv, FollowInv
    <2>4. CASE Invoke(c)
      <3>1. main' = main /\ Durable' = Durable /\ now' = now
        BY <2>4, InvokeEffect DEF Invoke, Begin
      <3>2. call'[c].op # "advance"
        BY <2>4 DEF Invoke, Begin, FollowAssumption, CallerInv, ClientsInv, StoreInv
      <3> QED BY <3>1, <3>2 DEF FollowInv
    <2>5. CASE Step(c)
      <3>1. /\ StoreEffect(c) /\ now' = now /\ call[c] \in Call
            /\ call[c].op # "advance"
        BY <2>5, StepEffect DEF FollowInv
      <3>2. main' # NoFile => Marked(main')
        BY <3>1, CurrentIsMarked DEF StoreEffect, FollowInv
      <3>3. PICK b \in Call : b = call[c]
        BY <3>1
      <3>4. /\ \A m \in 0 .. n : Timely(Reconcile(d, m), n)
            /\ ~ SavesNothing(b, d) => \A m \in 0 .. n : Timely(Apply(b, d, m), n)
        BY <2>3, <3>1, <3>3, ReconcileKeepsTimely, ApplyKeepsTimely
      <3>5. Timely(Durable', n)
        BY <2>1, <2>2, <2>3, <3>1, <3>3, <3>4 DEF StoreEffect, ListEffect
      <3>6. call' = call
        BY <2>5, StepEffect
      <3> QED BY <2>2, <3>1, <3>2, <3>5, <3>6 DEF FollowInv
    <2>6. CASE Return(c)
      <3>1. /\ main' = main /\ Durable' = Durable /\ now' = now
            /\ call'[c].op = "none"
        BY <2>6, ReturnEffect DEF Return, End, NoCall
      <3> QED BY <3>1 DEF FollowInv
    <2>7. CASE \E p \in Process : Crash(p)
      <3>1. main' = main
        BY <2>7 DEF Crash, ProcessDies
      <3>2. Durable' = Durable /\ now' = now /\ call'[c] = NoCall
        BY <2>7, CrashEffect
      <3>3. call'[c].op = "none"
        BY <3>2 DEF NoCall
      <3> QED BY <3>1, <3>2, <3>3 DEF FollowInv
    <2>8. CASE \E id \in JobId, s \in JobSchedules : EditSchedule(id, s)
      <3>1. PICK id \in JobId, s \in JobSchedules : EditSchedule(id, s)
        BY <2>8
      <3>2. /\ id \in DOMAIN d /\ Durable' = [d EXCEPT ![id].schedule = s]
            /\ d = main /\ Durable' = main' /\ now' = now /\ call' = call
        BY <2>1, <3>1, EditEffect
      <3>3. Marked(d)
        BY <2>3, <3>2, StoresParse DEF FollowInv
      <3>4. PICK e : e = [d EXCEPT ![id].schedule = s]
        OBVIOUS
      <3>5. Timely(e, n) /\ Marked(e)
        BY <2>3, <3>2, <3>3, <3>4, EditKeepsTimely
      <3> QED BY <2>2, <3>2, <3>4, <3>5 DEF FollowInv
    <2>9. CASE ClockAdvances \/ (\E p \in Process : Restart(p)) \/ UNCHANGED vars
      <3>1. /\ Durable' = Durable /\ main' = main /\ call' = call
            /\ now' = now \/ now' = now + 1
        BY <2>9, WaitEffect DEF ClockAdvances, Restart, vars, storeVars
      <3>2. ASSUME NEW id \in DOMAIN d PROVE FollowsAt(d[id], n + 1)
        <4>1. d[id] \in Job /\ FollowsAt(d[id], n)
          BY <2>3 DEF IsStore, Timely
        <4> QED BY <4>1, FollowsLater
      <3>3. Timely(d, n + 1)
        BY <3>2 DEF Timely
      <3> QED BY <2>1, <2>2, <2>3, <3>1, <3>3 DEF FollowInv
    <2> QED BY <2>4, <2>5, <2>6, <2>7, <2>8, <2>9 DEF Next
  <1> QED BY <1>1, <1>2, CallerInvariance, PTL DEF Spec
(* Whatever the file held (a list of a version without fingerprints, or one *)
(* the user has edited since), the list a load returns has next runs of its *)
(* present schedules.                                                       *)
THEOREM NextRunsFollowSchedules ==
  ASSUME NEW c, Thread = {c}, FollowAssumption
  PROVE  Spec => []NextRunFollowsSchedule
PROOF
  <1>1. CallerInv(c) /\ FollowInv(c) => NextRunFollowsSchedule
    <2> SUFFICES ASSUME CallerInv(c), FollowInv(c),
                        pc[c] = "done", call[c].op = "load",
                        NEW id \in DOMAIN text[c],
                        text[c][id].enabled, text[c][id].next # NoTime
                 PROVE  IF text[c][id].schedule.kind = "cron"
                        THEN text[c][id].next \in
                               Occurrences[text[c][id].schedule.expr]
                        ELSE text[c][id].next <=
                               now + text[c][id].schedule.everyMs
      BY DEF NextRunFollowsSchedule
    <2>1. IsStore(text[c])
      BY DEF CallerInv, ClientsInv, StoreInv, ThreadOK
    <2>2. text[c] = Durable /\ Current(Durable)
      BY <2>1, StoresParse DEF CallerInv, SoleInv, ReturnOK
    <2>3. PICK job \in Job : job = text[c][id]
      BY <2>1 DEF IsStore
    <2>4. job.fingerprint = ScheduleFingerprint(job.schedule)
      BY <2>2, <2>3 DEF Current
    <2>5. FollowsAt(job, now) /\ job.schedule \in JobSchedules
      BY <2>2, <2>3 DEF FollowInv, Timely, Job
    <2>6. Follows(job.next, job.schedule, now)
      BY <2>4, <2>5 DEF FollowsAt
    <2> QED BY <2>3, <2>6 DEF Follows
  <1> QED BY <1>1, CallerInvariance, FollowInvariance, PTL

-----------------------------------------------------------------------------
(* The timer of one job, for every schedule, every length of a second and   *)
(* every clock.                                                             *)

(* The inductive invariant: `next` is the computation of the moment `at`,   *)
(* which is not later than the clock.                                       *)
TimerInv ==
  /\ schedule \in Schedule
  /\ clock \in Nat /\ at \in Nat
  /\ at <= clock
  /\ next = ComputeNextRunAtMs(schedule, at)

(* Creating, polling, running and enabling keep nextRunAtMs the result of   *)
(* one computeNextRunAtMs for the moment it was last computed at.           *)
THEOREM NextIsComputed == TimerSpec => []TimerInv
PROOF
  <1> USE ScheduleAssumption, JobTimerAssumption
  <1>1. TimerInit => TimerInv
    BY DEF TimerInit, Create, TimerInv
  <1>2. TimerInv /\ [TimerNext]_timerVars => TimerInv'
    <2> SUFFICES ASSUME TimerInv, [TimerNext]_timerVars PROVE TimerInv'
      OBVIOUS
    <2>1. CASE ClockTicks
      BY <2>1 DEF TimerInv, ClockTicks
    <2>2. CASE Recompute
      BY <2>2 DEF TimerInv, Recompute
    <2>3. CASE UNCHANGED timerVars
      BY <2>3 DEF TimerInv, timerVars
    <2> QED BY <2>1, <2>2, <2>3 DEF TimerNext, RunDueJob, Enable
  <1> QED BY <1>1, <1>2, PTL DEF TimerSpec

(* A computed time lies after the moment it was computed at.                *)
THEOREM ComputedTimesAreInTheFuture == TimerSpec => []ComputedTimeIsInTheFuture
PROOF
  <1>1. TimerInv => ComputedTimeIsInTheFuture
    BY ComputeNextRunIsInTheFuture DEF TimerInv, ComputedTimeIsInTheFuture
  <1> QED BY <1>1, NextIsComputed, PTL

(* An anchored interval job keeps to its grid and misses no grid instant    *)
(* after the moment its next run was computed.                              *)
THEOREM AnchoredIntervalsKeepTheirGrid ==
  TimerSpec => []AnchoredIntervalTakesNextGridInstant
PROOF
  <1>1. TimerInv => AnchoredIntervalTakesNextGridInstant
    <2> SUFFICES ASSUME TimerInv,
                        schedule.kind = "every", schedule.anchorMs # NoTime
                 PROVE  /\ OnGrid(next, schedule.anchorMs)
                        /\ at < next
                        /\ next <= at + schedule.everyMs
      BY DEF AnchoredIntervalTakesNextGridInstant
    <2>1. schedule \in IntervalSchedules
      BY DEF TimerInv, Schedule, CronSchedules
    <2>2. schedule.anchorMs \in Int /\ schedule.everyMs \in Nat \ {0}
      BY <2>1 DEF IntervalSchedules
    <2>3. next = IntervalNextRun(schedule.anchorMs, schedule.everyMs, at)
      BY DEF TimerInv, ComputeNextRunAtMs
    <2>4. at \in Int
      BY DEF TimerInv
    <2> QED
      BY <2>2, <2>3, <2>4, IntervalNextRunIsNextGridInstant DEF OnGrid
  <1> QED BY <1>1, NextIsComputed, PTL

(* Recomputing for a due job moves nextRunAtMs strictly forward: one due    *)
(* instant is picked up by at most one tick that sees the recomputed time.  *)
THEOREM RunsMoveTimeForward == TimerSpec => RunMovesTimeForward
PROOF
  <1> DEFINE Forward == IsDue /\ at' # at => (next' = NoTime \/ next' > next)
  <1>1. TimerInv /\ TimerInv' /\ [TimerNext]_timerVars => [Forward]_timerVars
    <2> SUFFICES ASSUME TimerInv, TimerInv', [TimerNext]_timerVars, IsDue, at' # at
                 PROVE  next' = NoTime \/ next' > next
      BY DEF RunMovesTimeForward
    <2>1. Recompute
      BY DEF TimerNext, timerVars, ClockTicks, RunDueJob, Enable
    <2>2. next' = ComputeNextRunAtMs(schedule, clock)
      BY <2>1 DEF Recompute
    <2>3. next \in Int /\ next <= clock /\ clock \in Nat /\ schedule \in Schedule
      BY ComputeNextRunIsInTheFuture DEF TimerInv, IsDue
    <2> QED BY <2>2, <2>3, ComputeNextRunIsInTheFuture
  <1> QED BY <1>1, NextIsComputed, PTL DEF TimerSpec, RunMovesTimeForward
=============================================================================
