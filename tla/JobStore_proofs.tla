-------------------------- MODULE JobStore_proofs ---------------------------
(***************************************************************************)
(* Type correctness of the persistent job list, for any jobs, schedules,   *)
(* processes and threads: what is parsed from a file, kept in memory, or   *)
(* written is a well-formed store, and no operation is applied to          *)
(* anything else.  Before it, what the next-run computation returns, for   *)
(* every schedule and instant.  StoreClients_proofs and Scheduler_proofs   *)
(* build on both.                                                          *)
(***************************************************************************)
EXTENDS JobStore, WellFoundedInduction, TLAPS

-----------------------------------------------------------------------------
(* Part 1.  computeNextRunAtMs.                                            *)

(* An interval's next run is the one grid instant in (n, n + everyMs]:      *)
(* Math.floor makes this hold for anchors in the future as well.            *)
LEMMA IntervalNextRunIsNextGridInstant ==
  ASSUME NEW a \in Int, NEW e \in Nat \ {0}, NEW n \in Int
  PROVE  /\ IntervalNextRun(a, e, n) \in Int
         /\ n < IntervalNextRun(a, e, n)
         /\ IntervalNextRun(a, e, n) <= n + e
         /\ (IntervalNextRun(a, e, n) - a) % e = 0
PROOF
  <1> DEFINE q == (n - a) \div e
             r == (n - a) % e
  <1>1. q \in Int /\ r \in 0 .. e - 1 /\ n - a = q * e + r
    OBVIOUS
  <1> HIDE DEF q, r
  <1>2. (q + 1) * e = q * e + e
    BY <1>1
  <1>3. IntervalNextRun(a, e, n) = a + (q + 1) * e
    BY DEF IntervalNextRun, q
  <1>4. ((q + 1) * e) % e = 0
    BY <1>1
  <1> QED BY <1>1, <1>2, <1>3, <1>4

(* A set of naturals with an element after p has a least one: croner's       *)
(* nextRun is defined whenever there is an occurrence left.                  *)
LEMMA LeastAfterExists ==
  ASSUME NEW S \in SUBSET Nat, NEW p \in Int, \E i \in S : i > p
  PROVE  \E i \in S : IsLeastAfter(i, p, S)
PROOF
  <1> DEFINE T == {i \in S : i > p}
  <1>1. T \subseteq Nat /\ T # {}
    OBVIOUS
  <1>2. PICK x \in T : \A y \in T : <<y, x>> \notin OpToRel(<, Nat)
    BY <1>1, NatLessThanWellFounded, WFMin, Zenon
  <1>3. \A y \in T : ~ (y < x)
    BY <1>1, <1>2, Zenon DEF OpToRel
  <1> QED BY <1>1, <1>3 DEF IsLeastAfter

LEMMA CronNextRunIsLeastAfter ==
  ASSUME NEW e \in DOMAIN Occurrences, NEW p \in Int
  PROVE  \/ /\ CronNextRun(e, p) \in Nat
            /\ IsLeastAfter(CronNextRun(e, p), p, Occurrences[e])
         \/ /\ CronNextRun(e, p) = NoTime
            /\ ~ \E i \in Occurrences[e] : i > p
PROOF
  <1> USE ScheduleAssumption
  <1>1. CASE \E i \in Occurrences[e] : i > p
    <2>1. \E i \in Occurrences[e] : IsLeastAfter(i, p, Occurrences[e])
      BY <1>1, LeastAfterExists, Occurrences[e] \in SUBSET Nat
    <2> QED BY <1>1, <2>1 DEF CronNextRun
  <1>2. CASE ~ \E i \in Occurrences[e] : i > p
    BY <1>2 DEF CronNextRun
  <1> QED BY <1>1, <1>2

LEMMA FloorToSecondBounds ==
  ASSUME NEW n \in Int
  PROVE  /\ FloorToSecond(n) \in Int
         /\ FloorToSecond(n) <= n
         /\ n < FloorToSecond(n) + SecondMs
PROOF
  <1>1. SecondMs \in Nat \ {0}
    BY ScheduleAssumption
  <1>2. n % SecondMs \in 0 .. SecondMs - 1
    BY <1>1
  <1> QED BY <1>1, <1>2 DEF FloorToSecond

(* computeNextRunAtMs returns null or an instant after the one it is given. *)
THEOREM ComputeNextRunIsInTheFuture ==
  ASSUME NEW s \in Schedule, NEW n \in Nat
  PROVE  \/ ComputeNextRunAtMs(s, n) = NoTime
         \/ /\ ComputeNextRunAtMs(s, n) \in Int
            /\ ComputeNextRunAtMs(s, n) > n
PROOF
  <1>1. CASE s \in CronSchedules
    <2> DEFINE p == FloorToSecond(n) + SecondMs
    <2>1. p \in Int /\ p > n
      BY FloorToSecondBounds, ScheduleAssumption
    <2>2. s.expr \in DOMAIN Occurrences /\ s.kind = "cron"
      BY <1>1 DEF CronSchedules
    <2>3. ComputeNextRunAtMs(s, n) = CronNextRun(s.expr, p)
      BY <2>2 DEF ComputeNextRunAtMs
    <2> HIDE DEF p
    <2> QED
      BY <2>1, <2>2, <2>3, CronNextRunIsLeastAfter DEF IsLeastAfter
  <1>2. CASE s \in IntervalSchedules
    <2> DEFINE a == IF s.anchorMs = NoTime THEN n ELSE s.anchorMs
    <2>1. a \in Int /\ s.everyMs \in Nat \ {0} /\ s.kind # "cron"
      BY <1>2 DEF IntervalSchedules
    <2>2. ComputeNextRunAtMs(s, n) = IntervalNextRun(a, s.everyMs, n)
      BY <2>1 DEF ComputeNextRunAtMs
    <2> HIDE DEF a
    <2> QED BY <2>1, <2>2, n \in Int, IntervalNextRunIsNextGridInstant
  <1> QED BY <1>1, <1>2 DEF Schedule

-----------------------------------------------------------------------------
(* Part 2.  The files and the memory.                                      *)

(* A call between its load and its return works on a store: the content it  *)
(* carries along, and this.data of its process, have been loaded.  A load   *)
(* saves nothing of its own, so that what it returns is the store it read.  *)
ThreadOK(t) ==
  /\ pc[t] \in PC
  /\ call[t] = NoCall \/ call[t] \in Call
  /\ pc[t] # "idle" => call[t] \in Call
  /\ text[t] = NoFile \/ IsStore(text[t])
  /\ pc[t] \in {"parse", "open", "write"} => IsStore(text[t])
  /\ pc[t] = "done" /\ call[t].op = "load" => IsStore(text[t])
  /\ pc[t] \in {"promote", "save", "open", "write", "rename", "resume"} =>
       IsStore(data[ProcOf[t]])
  /\ pc[t] \in {"save", "open", "write", "rename"} /\ saving[t] = "own" =>
       call[t].op # "load"

FilesOK ==
  /\ main \in Unparsable \/ IsStore(main)
  /\ tmp \in Unparsable \/ IsStore(tmp)
  /\ fd \in [Thread -> {"none", "tmp", "main", "gone"}]
  /\ saving \in [Thread -> {"load", "own"}]
  /\ now \in Nat

StoreInv ==
  /\ FilesOK
  /\ DOMAIN pc = Thread /\ pc = [t \in Thread |-> pc[t]]
  /\ DOMAIN call = Thread /\ call = [t \in Thread |-> call[t]]
  /\ DOMAIN text = Thread /\ text = [t \in Thread |-> text[t]]
  /\ DOMAIN data = Process /\ data = [p \in Process |-> data[p]]
  /\ \A p \in Process : data[p] = NoData \/ IsStore(data[p])
  /\ \A t \in Thread : ThreadOK(t)

LEMMA StoreInvImpliesTypeOK == StoreInv => StoreTypeOK
  BY DEF StoreInv, FilesOK, ThreadOK, StoreTypeOK

-----------------------------------------------------------------------------
(* The operations on stores. *)

LEMMA NextRunIsTime ==
  ASSUME NEW s \in JobSchedules, NEW n \in Nat
  PROVE  ComputeNextRunAtMs(s, n) \in Time
PROOF
  <1>1. s \in Schedule
    BY JobStoreAssumption
  <1> QED BY <1>1, ComputeNextRunIsInTheFuture DEF Time

LEMMA FingerprintType ==
  ASSUME NEW s \in JobSchedules
  PROVE  ScheduleFingerprint(s) \in Fingerprint
  BY DEF Fingerprint

LEMMA ReconcileKeepsStores ==
  ASSUME NEW d, IsStore(d), NEW n \in Nat
  PROVE  IsStore(Reconcile(d, n))
PROOF
  <1>1. ASSUME NEW job \in Job PROVE Reconciled(job, n) \in Job
    <2>1. /\ job.schedule \in JobSchedules
          /\ ComputeNextRunAtMs(job.schedule, n) \in Time
          /\ ScheduleFingerprint(job.schedule) \in Fingerprint
      BY NextRunIsTime, FingerprintType DEF Job
    <2>2. CASE ~ NeedsReconcile(job)
      BY <2>2 DEF Reconciled
    <2>3. CASE NeedsReconcile(job)
      <3> DEFINE nx == IF ScheduleEdited(job) \/ job.next = NoTime
                       THEN ComputeNextRunAtMs(job.schedule, n) ELSE job.next
      <3>1. nx \in Time
        BY <2>1 DEF Job
      <3>2. Reconciled(job, n) =
              [job EXCEPT !.next = nx,
                          !.fingerprint = ScheduleFingerprint(job.schedule)]
        BY <2>3 DEF Reconciled
      <3> HIDE DEF nx
      <3> QED BY <2>1, <3>1, <3>2 DEF Job
    <2> QED BY <2>2, <2>3
  <1> QED BY <1>1 DEF IsStore, Reconcile

LEMMA ApplyKeepsStores ==
  ASSUME NEW d, IsStore(d), NEW n \in Nat, NEW c \in Call, ~ SavesNothing(c, d)
  PROVE  IsStore(Apply(c, d, n))
PROOF
  <1> USE DEF IsStore
  <1>1. CASE c \in [op : {"load"}]
    BY <1>1 DEF SavesNothing
  <1>2. CASE c \in [op : {"add"}, id : JobId, schedule : JobSchedules]
    <2>1. NewJob(c.schedule, n) \in Job
      BY <1>2, NextRunIsTime, FingerprintType DEF NewJob, Job
    <2>2. Apply(c, d, n) = [id \in DOMAIN d \cup {c.id} |->
                              IF id = c.id THEN NewJob(c.schedule, n) ELSE d[id]]
      BY <1>2 DEF Apply
    <2> QED BY <1>2, <2>1, <2>2
  <1>3. CASE c \in [op : {"remove"}, id : JobId]
    <2>1. Apply(c, d, n) = [id \in DOMAIN d \ {c.id} |-> d[id]]
      BY <1>3 DEF Apply
    <2> QED BY <2>1
  <1>4. CASE c \in [op : {"setEnabled"}, id : JobId, enabled : BOOLEAN]
    <2>1. c.id \in DOMAIN d /\ d[c.id] \in Job
      BY <1>4 DEF SavesNothing
    <2>2. Enabling(d[c.id], c.enabled, n) \in Job
      <3>1. /\ ComputeNextRunAtMs(d[c.id].schedule, n) \in Time
            /\ ScheduleFingerprint(d[c.id].schedule) \in Fingerprint
        BY <2>1, NextRunIsTime, FingerprintType DEF Job
      <3> QED BY <2>1, <3>1 DEF Enabling, Job
    <2>3. Apply(c, d, n) =
            [d EXCEPT ![c.id] = Enabling(d[c.id], c.enabled, n)]
      BY <1>4 DEF Apply
    <2> QED BY <2>1, <2>2, <2>3
  <1>5. CASE c \in [op : {"advance"}, id : JobId, next : Time]
    <2>1. c.id \in DOMAIN d /\ d[c.id] \in Job /\ c.next \in Time
      BY <1>5 DEF SavesNothing
    <2>2. [d[c.id] EXCEPT !.next = c.next] \in Job
      BY <2>1 DEF Job
    <2>3. Apply(c, d, n) = [d EXCEPT ![c.id] = [d[c.id] EXCEPT !.next = c.next]]
      BY <1>5 DEF Apply
    <2> QED BY <2>1, <2>2, <2>3
  <1>6. CASE c \in [op : {"record"}, id : JobId, runs : Nat]
    <2>1. c.id \in DOMAIN d /\ d[c.id] \in Job /\ c.runs \in Nat
      BY <1>6 DEF SavesNothing
    <2>2. [d[c.id] EXCEPT !.runs = c.runs] \in Job
      BY <2>1 DEF Job
    <2>3. Apply(c, d, n) = [d EXCEPT ![c.id] = [d[c.id] EXCEPT !.runs = c.runs]]
      BY <1>6 DEF Apply
    <2> QED BY <2>1, <2>2, <2>3
  <1> QED BY <1>1, <1>2, <1>3, <1>4, <1>5, <1>6 DEF Call

-----------------------------------------------------------------------------
(* The steps.  A step of thread t leaves the other threads where they are;  *)
(* what it puts into this.data of its process is a store.                   *)
Frame(t) ==
  /\ pc' = [pc EXCEPT ![t] = pc'[t]]
  /\ text' = [text EXCEPT ![t] = text'[t]]
  /\ call' = call
  /\ saving' = [saving EXCEPT ![t] = saving'[t]]
  /\ \/ data' = data
     \/ /\ data' = [data EXCEPT ![ProcOf[t]] = data'[ProcOf[t]]]
        /\ IsStore(data'[ProcOf[t]])

LEMMA StoreInvByFrame ==
  ASSUME StoreInv, NEW t \in Thread, Frame(t), FilesOK', ThreadOK(t)'
  PROVE  StoreInv'
PROOF
  <1>1. /\ DOMAIN pc' = Thread /\ pc' = [u \in Thread |-> pc'[u]]
        /\ DOMAIN call' = Thread /\ call' = [u \in Thread |-> call'[u]]
        /\ DOMAIN text' = Thread /\ text' = [u \in Thread |-> text'[u]]
    BY DEF Frame, StoreInv
  <1>2. DOMAIN data' = Process /\ data' = [p \in Process |-> data'[p]]
    BY DEF Frame, StoreInv
  <1>3. \A p \in Process : data'[p] = data[p] \/ IsStore(data'[p])
    BY DEF Frame, StoreInv
  <1>4. \A p \in Process : data'[p] = NoData \/ IsStore(data'[p])
    BY <1>3 DEF StoreInv
  <1>5. ASSUME NEW u \in Thread \ {t} PROVE ThreadOK(u)'
    <2>1. /\ pc'[u] = pc[u] /\ text'[u] = text[u] /\ call'[u] = call[u]
          /\ saving'[u] = saving[u]
      BY DEF Frame, StoreInv, FilesOK
    <2>2. data'[ProcOf[u]] = data[ProcOf[u]] \/ IsStore(data'[ProcOf[u]])
      BY <1>3, JobStoreAssumption
    <2>3. ThreadOK(u)
      BY DEF StoreInv
    <2> QED BY <2>1, <2>2, <2>3 DEF ThreadOK
  <1> QED BY <1>1, <1>2, <1>4, <1>5 DEF StoreInv

(* The operation's own part: with a store d loaded it either returns d, or  *)
(* goes on to save what it has made of d.                                   *)
LEMMA PerformEffect ==
  ASSUME StoreInv, NEW t \in Thread, call[t] \in Call,
         NEW d, IsStore(d), Perform(t, d)
  PROVE  /\ saving' \in [Thread -> {"load", "own"}]
         /\ pc' = [pc EXCEPT ![t] = pc'[t]]
         /\ text' = [text EXCEPT ![t] = text'[t]]
         /\ data' = [data EXCEPT ![ProcOf[t]] = data'[ProcOf[t]]]
         /\ IsStore(data'[ProcOf[t]])
         /\ \/ pc'[t] = "done" /\ IsStore(text'[t])
            \/ /\ pc'[t] = "save" /\ text'[t] = NoFile
               /\ saving'[t] = "own" => call[t].op # "load"
         /\ saving' = [saving EXCEPT ![t] = saving'[t]]
PROOF
  <1> USE DEF SetData, SetText, Goto
  <1>0. /\ t \in DOMAIN pc /\ t \in DOMAIN text /\ ProcOf[t] \in DOMAIN data
        /\ saving \in [Thread -> {"load", "own"}] /\ now \in Nat
    BY JobStoreAssumption DEF StoreInv, FilesOK
  <1>1. saving' \in [Thread -> {"load", "own"}]
    BY <1>0 DEF Perform
  <1>2. CASE SavesNothing(call[t], d)
    BY <1>0, <1>1, <1>2 DEF Perform
  <1>3. CASE ~ SavesNothing(call[t], d)
    <2>1. IsStore(Apply(call[t], d, now))
      BY <1>0, <1>3, ApplyKeepsStores
    <2>2. call[t].op # "load"
      BY <1>3 DEF SavesNothing
    <2> QED BY <1>0, <1>1, <1>3, <2>1, <2>2 DEF Perform
  <1> QED BY <1>2, <1>3

LEMMA ReconcilingEffect ==
  ASSUME StoreInv, NEW t \in Thread, call[t] \in Call,
         NEW d, IsStore(d), NEW dirty \in BOOLEAN, Reconciling(t, d, dirty)
  PROVE  /\ saving' \in [Thread -> {"load", "own"}]
         /\ pc' = [pc EXCEPT ![t] = pc'[t]]
         /\ text' = [text EXCEPT ![t] = text'[t]]
         /\ data' = [data EXCEPT ![ProcOf[t]] = data'[ProcOf[t]]]
         /\ IsStore(data'[ProcOf[t]])
         /\ \/ pc'[t] = "done" /\ IsStore(text'[t])
            \/ /\ pc'[t] = "save" /\ text'[t] = NoFile
               /\ saving'[t] = "own" => call[t].op # "load"
         /\ saving' = [saving EXCEPT ![t] = saving'[t]]
PROOF
  <1>1. CASE Perform(t, d)
    BY <1>1, PerformEffect
  <1>2. CASE ~ Perform(t, d)
    <2> USE DEF SetData, SetText, Goto
    <2>1. /\ t \in DOMAIN pc /\ t \in DOMAIN text /\ ProcOf[t] \in DOMAIN data
          /\ saving \in [Thread -> {"load", "own"}] /\ now \in Nat
      BY JobStoreAssumption DEF StoreInv, FilesOK
    <2>2. IsStore(Reconcile(d, now))
      BY <2>1, ReconcileKeepsStores
    <2>3. saving' \in [Thread -> {"load", "own"}]
      BY <1>2, <2>1 DEF Reconciling
    <2> QED BY <1>2, <2>1, <2>2, <2>3 DEF Reconciling
  <1> QED BY <1>1, <1>2

(* The two rename(tmp, main) of the code move a content that is typed. *)
LEMMA RenameKeepsFiles ==
  ASSUME FilesOK, RenameTmpToMain
  PROVE  /\ main' \in Unparsable \/ IsStore(main')
         /\ tmp' \in Unparsable \/ IsStore(tmp')
         /\ fd' \in [Thread -> {"none", "tmp", "main", "gone"}]
  BY DEF FilesOK, RenameTmpToMain, Unparsable

LEMMA StoreStepKeepsInv ==
  ASSUME StoreInv, NEW t \in Thread, StoreStep(t)
  PROVE  StoreInv'
PROOF
  <1>1. /\ ThreadOK(t) /\ FilesOK
        /\ t \in DOMAIN pc /\ t \in DOMAIN text /\ ProcOf[t] \in DOMAIN data
    BY JobStoreAssumption DEF StoreInv
  <1>2. /\ IsStore(LegacyStore)
        /\ pc[t] # "idle" => call[t] \in Call
    BY <1>1, JobStoreAssumption DEF ThreadOK
  <1> USE DEF Goto, SetText
  <1>3. CASE ReadMain(t)
    <2>1. Frame(t) /\ FilesOK'
      BY <1>1, <1>3 DEF ReadMain, Frame, FilesOK, StoreInv
    <2>2. ThreadOK(t)'
      BY <1>1, <1>3 DEF ReadMain, ThreadOK, FilesOK, PC
    <2> QED BY <2>1, <2>2, StoreInvByFrame
  <1>4. CASE Parse(t)
    <2>1. IsStore(text[t]) /\ call[t] \in Call /\ Reconciling(t, text[t], FALSE)
      BY <1>1, <1>4 DEF Parse, ThreadOK
    <2>2. Frame(t) /\ FilesOK' /\ ThreadOK(t)'
      BY <1>1, <1>4, <2>1, ReconcilingEffect
         DEF Parse, Frame, FilesOK, ThreadOK, PC
    <2> QED BY <2>2, StoreInvByFrame
  <1>5. CASE ReadTmp(t)
    <2>1. \/ data' = data /\ pc' = [pc EXCEPT ![t] = "legacy"]
          \/ /\ data' = [data EXCEPT ![ProcOf[t]] = tmp] /\ IsStore(tmp)
             /\ pc' = [pc EXCEPT ![t] = "promote"]
      BY <1>1, <1>5 DEF ReadTmp, FilesOK, SetData
    <2>2. Frame(t) /\ FilesOK'
      BY <1>1, <1>5, <2>1 DEF ReadTmp, Frame, FilesOK, StoreInv
    <2>3. ThreadOK(t)'
      BY <1>1, <1>5, <2>1 DEF ReadTmp, ThreadOK, FilesOK, PC
    <2> QED BY <2>2, <2>3, StoreInvByFrame
  <1>6. CASE Promote(t)
    <2>1. IsStore(data[ProcOf[t]]) /\ call[t] \in Call
      BY <1>1, <1>6 DEF Promote, ThreadOK
    <2>2. CASE RenameTmpToMain /\ Reconciling(t, data[ProcOf[t]], FALSE)
      <3>1. Frame(t) /\ FilesOK' /\ ThreadOK(t)'
        BY <1>1, <1>6, <2>1, <2>2, ReconcilingEffect, RenameKeepsFiles
           DEF Promote, Frame, FilesOK, ThreadOK, PC
      <3> QED BY <3>1, StoreInvByFrame
    <2>3. CASE ~ (RenameTmpToMain /\ Reconciling(t, data[ProcOf[t]], FALSE))
      <3>1. Frame(t) /\ FilesOK' /\ ThreadOK(t)'
        BY <1>1, <1>6, <2>3 DEF Promote, Frame, FilesOK, ThreadOK, StoreInv, PC
      <3> QED BY <3>1, StoreInvByFrame
    <2> QED BY <2>2, <2>3
  <1>7. CASE Legacy(t)
    <2>1. call[t] \in Call /\ Reconciling(t, LegacyStore, DOMAIN LegacyStore # {})
      BY <1>1, <1>7 DEF Legacy, ThreadOK
    <2>2. Frame(t) /\ FilesOK' /\ ThreadOK(t)'
      BY <1>1, <1>2, <1>7, <2>1, ReconcilingEffect
         DEF Legacy, Frame, FilesOK, ThreadOK, PC
    <2> QED BY <2>2, StoreInvByFrame
  <1>8. CASE Stringify(t)
    <2>1. Frame(t) /\ FilesOK'
      BY <1>1, <1>8 DEF Stringify, Frame, FilesOK, StoreInv
    <2>2. ThreadOK(t)'
      BY <1>1, <1>8 DEF Stringify, ThreadOK, PC
    <2> QED BY <2>1, <2>2, StoreInvByFrame
  <1>9. CASE Open(t)
    <2>1. Frame(t) /\ FilesOK'
      BY <1>1, <1>9 DEF Open, Frame, FilesOK, Unparsable, StoreInv
    <2>2. ThreadOK(t)'
      BY <1>1, <1>9 DEF Open, ThreadOK, PC
    <2> QED BY <2>1, <2>2, StoreInvByFrame
  <1>10. CASE Write(t)
    <2>1. \A c : \A x \in Written(text[t], c) : x \in Unparsable \/ IsStore(x)
      BY <1>1, <1>10 DEF Write, ThreadOK, Written, Unparsable
    <2>2. /\ main' \in Unparsable \/ IsStore(main')
          /\ tmp' \in Unparsable \/ IsStore(tmp')
      BY <1>1, <1>10, <2>1 DEF Write, FilesOK
    <2>3. Frame(t) /\ FilesOK'
      BY <1>1, <1>10, <2>2 DEF Write, Frame, FilesOK, StoreInv
    <2>4. ThreadOK(t)'
      BY <1>1, <1>10 DEF Write, ThreadOK, PC
    <2> QED BY <2>3, <2>4, StoreInvByFrame
  <1>11. CASE Rename(t)
    <2>1. /\ main' \in Unparsable \/ IsStore(main')
          /\ tmp' \in Unparsable \/ IsStore(tmp')
          /\ fd' \in [Thread -> {"none", "tmp", "main", "gone"}]
      BY <1>1, <1>11, RenameKeepsFiles DEF Rename, FilesOK
    <2>2. Frame(t) /\ FilesOK'
      BY <1>1, <1>11, <2>1 DEF Rename, Frame, FilesOK, StoreInv
    <2>3. ThreadOK(t)'
      <3>1. saving[t] \in {"load", "own"} /\ saving'[t] = saving[t]
        BY <1>1, <1>11 DEF Rename, FilesOK
      <3> QED BY <1>1, <1>11, <3>1 DEF Rename, ThreadOK, PC
    <2> QED BY <2>2, <2>3, StoreInvByFrame
  <1>12. CASE Resume(t)
    <2>1. /\ IsStore(data[ProcOf[t]]) /\ call[t] \in Call
          /\ Perform(t, data[ProcOf[t]])
      BY <1>1, <1>12 DEF Resume, ThreadOK
    <2>2. Frame(t) /\ FilesOK' /\ ThreadOK(t)'
      BY <1>1, <1>12, <2>1, PerformEffect DEF Resume, Frame, FilesOK, ThreadOK, PC
    <2> QED BY <2>2, StoreInvByFrame
  <1> QED
    BY <1>3, <1>4, <1>5, <1>6, <1>7, <1>8, <1>9, <1>10, <1>11, <1>12
       DEF StoreStep

-----------------------------------------------------------------------------
(* What the users of a store do to it. *)

LEMMA StoreInvInit == StoreInit => StoreInv
PROOF
  <1> SUFFICES ASSUME StoreInit PROVE StoreInv
    OBVIOUS
  <1>1. FilesOK
    BY JobStoreAssumption DEF StoreInit, FilesOK, Unparsable
  <1>2. \A t \in Thread : ThreadOK(t)
    BY DEF StoreInit, ThreadOK, PC
  <1> QED BY <1>1, <1>2 DEF StoreInit, StoreInv

LEMMA BeginKeepsInv ==
  ASSUME StoreInv, NEW t \in Thread, NEW c \in Call, Begin(t, c)
  PROVE  StoreInv'
PROOF
  <1> USE DEF Begin, Goto
  <1>1. FilesOK'
    BY DEF StoreInv, FilesOK
  <1>2. ASSUME NEW u \in Thread PROVE ThreadOK(u)'
    <2>1. ThreadOK(u)
      BY DEF StoreInv
    <2>2. CASE u = t
      BY <2>1, <2>2 DEF ThreadOK, PC, StoreInv
    <2>3. CASE u # t
      BY <2>1, <2>3 DEF ThreadOK, StoreInv
    <2> QED BY <2>2, <2>3
  <1> QED BY <1>1, <1>2 DEF StoreInv

LEMMA EndKeepsInv ==
  ASSUME StoreInv, NEW t \in Thread, End(t),
         \/ data' = data
         \/ /\ data' = [data EXCEPT ![ProcOf[t]] = NoData]
            /\ \A u \in Thread \ {t} : ProcOf[u] # ProcOf[t] \/ pc[u] = "idle"
  PROVE  StoreInv'
PROOF
  <1> USE DEF End, Goto, SetText
  <1>1. FilesOK'
    BY DEF StoreInv, FilesOK
  <1>2. /\ DOMAIN data' = Process /\ data' = [p \in Process |-> data'[p]]
        /\ \A p \in Process : data'[p] = NoData \/ IsStore(data'[p])
        /\ \A u \in Thread \ {t} :
             data'[ProcOf[u]] = data[ProcOf[u]] \/ pc[u] = "idle"
    BY JobStoreAssumption DEF StoreInv
  <1>3. ASSUME NEW u \in Thread PROVE ThreadOK(u)'
    <2>1. ThreadOK(u)
      BY DEF StoreInv
    <2>2. CASE u = t
      BY <2>1, <2>2 DEF ThreadOK, PC, StoreInv
    <2>3. CASE u # t
      BY <1>2, <2>1, <2>3 DEF ThreadOK, StoreInv
    <2> QED BY <2>2, <2>3
  <1> QED BY <1>1, <1>2, <1>3 DEF StoreInv

LEMMA ForgetKeepsInv ==
  ASSUME StoreInv, NEW t \in Thread, pc[t] = "idle",
         data' = [data EXCEPT ![ProcOf[t]] = NoData],
         \A u \in Thread \ {t} : ProcOf[u] # ProcOf[t],
         UNCHANGED <<main, tmp, pc, call, text, fd, saving, now>>
  PROVE  StoreInv'
PROOF
  <1>1. FilesOK'
    BY DEF StoreInv, FilesOK
  <1>2. /\ DOMAIN data' = Process /\ data' = [p \in Process |-> data'[p]]
        /\ \A p \in Process : data'[p] = NoData \/ IsStore(data'[p])
        /\ \A u \in Thread \ {t} : data'[ProcOf[u]] = data[ProcOf[u]]
    BY JobStoreAssumption DEF StoreInv
  <1>3. ASSUME NEW u \in Thread PROVE ThreadOK(u)'
    <2>1. ThreadOK(u)
      BY DEF StoreInv
    <2> QED BY <1>2, <2>1 DEF ThreadOK
  <1> QED BY <1>1, <1>2, <1>3 DEF StoreInv

LEMMA ProcessDiesKeepsInv ==
  ASSUME StoreInv, NEW p \in Process, ProcessDies(p)
  PROVE  StoreInv'
PROOF
  <1>1. FilesOK'
    BY DEF StoreInv, FilesOK, ProcessDies
  <1>2. /\ DOMAIN data' = Process /\ data' = [q \in Process |-> data'[q]]
        /\ \A q \in Process : data'[q] = NoData \/ IsStore(data'[q])
        /\ \A q \in Process \ {p} : data'[q] = data[q]
    BY DEF StoreInv, ProcessDies
  <1>3. ASSUME NEW u \in Thread PROVE ThreadOK(u)'
    <2>1. ThreadOK(u)
      BY DEF StoreInv
    <2>2. CASE ProcOf[u] = p
      BY <2>2 DEF ThreadOK, PC, ProcessDies
    <2>3. CASE ProcOf[u] # p
      <3>1. data'[ProcOf[u]] = data[ProcOf[u]]
        BY <1>2, <2>3, JobStoreAssumption
      <3> QED BY <2>1, <2>3, <3>1 DEF ThreadOK, ProcessDies
    <2> QED BY <2>2, <2>3
  <1>4. /\ DOMAIN pc' = Thread /\ pc' = [u \in Thread |-> pc'[u]]
        /\ DOMAIN call' = Thread /\ call' = [u \in Thread |-> call'[u]]
        /\ DOMAIN text' = Thread /\ text' = [u \in Thread |-> text'[u]]
    BY DEF ProcessDies
  <1> QED BY <1>1, <1>2, <1>3, <1>4 DEF StoreInv

LEMMA StoreInvUnchanged ==
  ASSUME StoreInv, UNCHANGED <<main, tmp, data, pc, call, text, fd, saving>>,
         now' = now \/ now' = now + 1
  PROVE  StoreInv'
PROOF
  <1>1. FilesOK'
    BY DEF StoreInv, FilesOK
  <1>2. \A t \in Thread : ThreadOK(t)'
    BY DEF StoreInv, ThreadOK
  <1> QED BY <1>1, <1>2 DEF StoreInv

-----------------------------------------------------------------------------
(* What a single caller gets: the instances in which one chain of awaits    *)
(* uses the list.                                                           *)
LEMMA StoresParse ==
  ASSUME NEW d, IsStore(d) PROVE d \notin Unparsable /\ d # NoFile /\ d # NoData
PROOF
  <1>1. d \in [DOMAIN d -> Job] /\ DOMAIN d \in SUBSET JobId
    BY DEF IsStore
  <1> QED BY <1>1, JobStoreAssumption DEF Unparsable

(* What a load leaves: enabled jobs whose fingerprint is their schedule's.  *)
Current(d) ==
  \A id \in DOMAIN d :
    d[id].enabled => d[id].fingerprint = ScheduleFingerprint(d[id].schedule)

LEMMA CleanIsCurrent ==
  ASSUME NEW d, ~ IsDirty(d) PROVE Current(d)
BY DEF IsDirty, NeedsReconcile, Current

LEMMA ReconciledJob ==
  ASSUME NEW job \in Job, NEW m, NeedsReconcile(job),
         NEW new, new = Reconciled(job, m)
  PROVE  /\ new.enabled = job.enabled /\ new.schedule = job.schedule
         /\ new.runs = job.runs
         /\ new.fingerprint = ScheduleFingerprint(job.schedule)
         /\ new.next = IF ScheduleEdited(job) \/ job.next = NoTime
                       THEN ComputeNextRunAtMs(job.schedule, m) ELSE job.next
BY DEF Reconciled, Job

LEMMA ReconcileMakesCurrent ==
  ASSUME NEW d, IsStore(d), NEW m PROVE Current(Reconcile(d, m))
PROOF
  <1>1. ASSUME NEW id \in DOMAIN d, Reconciled(d[id], m).enabled
        PROVE  Reconciled(d[id], m).fingerprint =
                 ScheduleFingerprint(Reconciled(d[id], m).schedule)
    <2>1. d[id] \in Job
      BY DEF IsStore
    <2>2. CASE NeedsReconcile(d[id])
      BY <2>1, <2>2, ReconciledJob
    <2>3. CASE ~ NeedsReconcile(d[id])
      BY <1>1, <2>3 DEF Reconciled, NeedsReconcile
    <2> QED BY <2>2, <2>3
  <1> QED BY <1>1 DEF Current, Reconcile

(* What the operations make of a job, and of the set of jobs.               *)
LEMMA EnabledJob ==
  ASSUME NEW job \in Job, NEW b \in BOOLEAN, NEW m,
         NEW new, new = Enabling(job, b, m)
  PROVE  /\ new.enabled = b /\ new.schedule = job.schedule /\ new.runs = job.runs
         /\ b => /\ new.fingerprint = ScheduleFingerprint(job.schedule)
                 /\ new.next = ComputeNextRunAtMs(job.schedule, m)
         /\ ~ b => new.fingerprint = job.fingerprint /\ new.next = job.next
BY DEF Enabling, Job

Untouched(old, new) ==
  /\ new.enabled = old.enabled /\ new.schedule = old.schedule
  /\ new.fingerprint = old.fingerprint

MakesOf(c, d, m, new) ==
  /\ c.op = "add" =>
       DOMAIN new = DOMAIN d \cup {c.id} /\ new[c.id] = NewJob(c.schedule, m)
  /\ c.op # "add" => DOMAIN new \subseteq DOMAIN d /\ c.id \in DOMAIN d
  /\ c.op = "remove" => DOMAIN new = DOMAIN d \ {c.id}
  /\ c.op # "remove" => DOMAIN d \subseteq DOMAIN new
  /\ \A id \in DOMAIN new \ {c.id} : new[id] = d[id]
  /\ c.op \in {"advance", "record"} => Untouched(d[c.id], new[c.id])
  /\ c.op = "advance" => new[c.id].next = c.next
  /\ c.op = "record" => new[c.id].next = d[c.id].next
  /\ c.op \in {"add", "remove", "setEnabled", "advance", "record"}

LEMMA AppliedJobs ==
  ASSUME NEW d, IsStore(d), NEW m, NEW c \in Call, ~ SavesNothing(c, d)
  PROVE  MakesOf(c, d, m, Apply(c, d, m))
PROOF
  <1> USE DEF MakesOf
  <1>1. CASE c \in [op : {"load"}]
    BY <1>1 DEF SavesNothing
  <1>2. CASE c \in [op : {"add"}, id : JobId, schedule : JobSchedules]
    <2>1. Apply(c, d, m) = [id \in DOMAIN d \cup {c.id} |->
                              IF id = c.id THEN NewJob(c.schedule, m) ELSE d[id]]
      BY <1>2 DEF Apply
    <2> QED BY <1>2, <2>1
  <1>3. CASE c \in [op : {"remove"}, id : JobId]
    <2>1. Apply(c, d, m) = [id \in DOMAIN d \ {c.id} |-> d[id]]
      BY <1>3 DEF Apply
    <2> QED BY <1>3, <2>1 DEF SavesNothing
  <1>4. CASE c \in [op : {"setEnabled"}, id : JobId, enabled : BOOLEAN]
    <2>1. Apply(c, d, m) = [d EXCEPT ![c.id] = Enabling(d[c.id], c.enabled, m)]
      BY <1>4 DEF Apply
    <2> QED BY <1>4, <2>1 DEF SavesNothing
  <1>5. CASE c \in [op : {"advance"}, id : JobId, next : Time]
    <2>1. /\ Apply(c, d, m) = [d EXCEPT ![c.id] = [d[c.id] EXCEPT !.next = c.next]]
          /\ c.id \in DOMAIN d /\ d[c.id] \in Job
      BY <1>5 DEF Apply, SavesNothing, IsStore
    <2>2. /\ Untouched(d[c.id], [d[c.id] EXCEPT !.next = c.next])
          /\ [d[c.id] EXCEPT !.next = c.next].next = c.next
      BY <2>1 DEF Untouched, Job
    <2> QED BY <1>5, <2>1, <2>2
  <1>6. CASE c \in [op : {"record"}, id : JobId, runs : Nat]
    <2>1. /\ Apply(c, d, m) = [d EXCEPT ![c.id] = [d[c.id] EXCEPT !.runs = c.runs]]
          /\ c.id \in DOMAIN d /\ d[c.id] \in Job
      BY <1>6 DEF Apply, SavesNothing, IsStore
    <2>2. /\ Untouched(d[c.id], [d[c.id] EXCEPT !.runs = c.runs])
          /\ [d[c.id] EXCEPT !.runs = c.runs].next = d[c.id].next
      BY <2>1 DEF Untouched, Job
    <2> QED BY <1>6, <2>1, <2>2
  <1> QED BY <1>1, <1>2, <1>3, <1>4, <1>5, <1>6 DEF Call

LEMMA AppliedEnabling ==
  ASSUME NEW d, IsStore(d), NEW m, NEW c \in Call, ~ SavesNothing(c, d),
         c.op = "setEnabled"
  PROVE  /\ c.enabled \in BOOLEAN
         /\ Apply(c, d, m)[c.id] = Enabling(d[c.id], c.enabled, m)
PROOF
  <1>1. c \in [op : {"setEnabled"}, id : JobId, enabled : BOOLEAN]
    BY DEF Call
  <1>2. Apply(c, d, m) = [d EXCEPT ![c.id] = Enabling(d[c.id], c.enabled, m)]
    BY DEF Apply
  <1>3. c.id \in DOMAIN d
    BY DEF SavesNothing
  <1> QED BY <1>1, <1>2, <1>3

LEMMA ApplyKeepsCurrent ==
  ASSUME NEW d, IsStore(d), Current(d), NEW m, NEW c \in Call, ~ SavesNothing(c, d)
  PROVE  Current(Apply(c, d, m))
PROOF
  <1>0. PICK new : new = Apply(c, d, m)
    OBVIOUS
  <1>1. MakesOf(c, d, m, new)
    BY <1>0, AppliedJobs
  <1>2. ASSUME c.op = "setEnabled"
        PROVE  c.enabled \in BOOLEAN /\ new[c.id] = Enabling(d[c.id], c.enabled, m)
    BY <1>0, <1>2, AppliedEnabling, Zenon
  <1>3. ASSUME NEW id \in DOMAIN new, new[id].enabled
        PROVE  new[id].fingerprint = ScheduleFingerprint(new[id].schedule)
    <2>1. CASE id # c.id
      BY <1>1, <1>3, <2>1 DEF MakesOf, Current
    <2>2. CASE id = c.id /\ c.op = "add"
      BY <1>1, <2>2 DEF MakesOf, NewJob
    <2>3. CASE id = c.id /\ c.op = "setEnabled"
      <3>1. d[c.id] \in Job /\ c.id \in DOMAIN d
        BY <1>1, <2>3 DEF MakesOf, IsStore
      <3>2. PICK b \in BOOLEAN : b = c.enabled
        BY <1>2, <2>3
      <3>3. /\ new[id].enabled = b /\ new[id].schedule = d[c.id].schedule
            /\ b => new[id].fingerprint = ScheduleFingerprint(d[c.id].schedule)
        BY <1>2, <2>3, <3>1, <3>2, EnabledJob
      <3> QED BY <1>3, <3>3
    <2>4. CASE id = c.id /\ c.op \in {"advance", "record"}
      BY <1>1, <1>3, <2>4 DEF MakesOf, Untouched, Current
    <2> QED BY <1>1, <2>1, <2>2, <2>3, <2>4 DEF MakesOf
  <1> QED BY <1>0, <1>3 DEF Current

(* The store as its only caller t knows it: of the files only tmp can be    *)
(* unreadable, and of a save the content is always that of the list before  *)
(* it, brought up to date or with the operation carried out on an           *)
(* up-to-date list.                                                         *)
Base == IF main \notin Unparsable THEN main ELSE LegacyStore

Saves(t) ==
  \/ saving[t] = "load" /\ \E m \in 0 .. now : data[ProcOf[t]] = Reconcile(Base, m)
  \/ /\ saving[t] = "own" /\ ~ SavesNothing(call[t], Base) /\ Current(Base)
     /\ \E m \in 0 .. now : data[ProcOf[t]] = Apply(call[t], Base, m)

LoadOK(t) ==
  /\ pc[t] = "parse" => text[t] = main
  /\ pc[t] \in {"readTmp", "promote", "legacy"} => main = NoFile
  /\ pc[t] = "promote" => tmp = data[ProcOf[t]]
  /\ pc[t] = "legacy" => tmp \in Unparsable
  /\ pc[t] = "resume" => main = data[ProcOf[t]] /\ Current(main)

SaveOK(t) ==
  /\ fd[t] = IF pc[t] = "write" THEN "tmp" ELSE "none"
  /\ pc[t] \in {"save", "open", "write", "rename"} => Saves(t)
  /\ pc[t] \in {"save", "open", "write"} /\ main = NoFile => tmp \in Unparsable
  /\ pc[t] \in {"open", "write"} => text[t] = data[ProcOf[t]]
  /\ pc[t] = "write" => tmp = Empty
  /\ pc[t] = "rename" => tmp = data[ProcOf[t]] /\ text[t] = NoFile

ReturnOK(t) ==
  /\ pc[t] # "failed"
  /\ pc[t] = "idle" => call[t] = NoCall
  /\ pc[t] = "done" => saving[t] = "own"
  /\ pc[t] = "done" /\ text[t] # NoFile =>
       /\ text[t] = Durable /\ Current(Durable) /\ SavesNothing(call[t], Durable)
       /\ main # NoFile \/ DOMAIN Durable = {}

SoleInv(t) ==
  /\ main = NoFile \/ IsStore(main)
  /\ tmp \in {NoFile, Empty} \/ (IsStore(tmp) /\ Current(tmp))
  /\ LoadOK(t) /\ SaveOK(t) /\ ReturnOK(t)

(* A step of the call leaves the list a restart would find as it is, or     *)
(* brings it up to date, or carries out the operation, and then only once.  *)
ListEffect(t) ==
  \/ Durable' = Durable /\ (Applied(t)' <=> Applied(t))
  \/ /\ ~ Applied(t) /\ ~ Applied(t)'
     /\ \E m \in 0 .. now : Durable' = Reconcile(Durable, m)
  \/ /\ ~ Applied(t) /\ Applied(t)'
     /\ ~ SavesNothing(call[t], Durable) /\ Current(Durable)
     /\ \E m \in 0 .. now : Durable' = Apply(call[t], Durable, m)

StoreEffect(t) ==
  /\ ListEffect(t)
  /\ main' = main \/ (IsStore(main') /\ Current(main'))

LEMMA SavesAreCurrent ==
  ASSUME StoreInv, NEW t \in Thread, main = NoFile \/ IsStore(main),
         call[t] \in Call, Saves(t)
  PROVE  Current(data[ProcOf[t]])
PROOF
  <1>1. IsStore(Base)
    BY StoresParse, JobStoreAssumption DEF Base, Unparsable
  <1>2. PICK d : d = Base
    OBVIOUS
  <1>3. PICK c \in Call : c = call[t]
    OBVIOUS
  <1>4. \A m : /\ Current(Reconcile(d, m))
               /\ Current(d) /\ ~ SavesNothing(c, d) => Current(Apply(c, d, m))
    BY <1>1, <1>2, ReconcileMakesCurrent, ApplyKeepsCurrent
  <1> QED BY <1>2, <1>3, <1>4 DEF Saves

LEMMA PerformOutcome ==
  ASSUME StoreInv, NEW t \in Thread, NEW d, Perform(t, d)
  PROVE  /\ saving'[t] = "own"
         /\ \/ pc'[t] = "done" /\ text'[t] = d /\ SavesNothing(call[t], d)
            \/ /\ pc'[t] = "save" /\ text'[t] = NoFile /\ ~ SavesNothing(call[t], d)
               /\ data'[ProcOf[t]] = Apply(call[t], d, now)
PROOF
  <1> USE DEF SetData, SetText, Goto
  <1>1. /\ t \in DOMAIN pc /\ t \in DOMAIN text /\ ProcOf[t] \in DOMAIN data
        /\ saving \in [Thread -> {"load", "own"}]
    BY JobStoreAssumption DEF StoreInv, FilesOK
  <1> QED BY <1>1 DEF Perform

LEMMA ReconcilingOutcome ==
  ASSUME StoreInv, NEW t \in Thread, NEW d, NEW dirty \in BOOLEAN, Reconciling(t, d, dirty)
  PROVE  \/ /\ saving'[t] = "own" /\ Current(d) /\ ~ dirty
            /\ pc'[t] = "done" /\ text'[t] = d /\ SavesNothing(call[t], d)
         \/ /\ saving'[t] = "own" /\ Current(d)
            /\ pc'[t] = "save" /\ text'[t] = NoFile /\ ~ SavesNothing(call[t], d)
            /\ data'[ProcOf[t]] = Apply(call[t], d, now)
         \/ /\ saving'[t] = "load"
            /\ pc'[t] = "save" /\ text'[t] = NoFile
            /\ data'[ProcOf[t]] = Reconcile(d, now)
PROOF
  <1>1. CASE ~ dirty /\ ~ IsDirty(d) /\ Perform(t, d)
    BY <1>1, PerformOutcome, CleanIsCurrent
  <1>2. CASE ~ (~ dirty /\ ~ IsDirty(d) /\ Perform(t, d))
    <2> USE DEF SetData, SetText, Goto
    <2>1. /\ t \in DOMAIN pc /\ t \in DOMAIN text /\ ProcOf[t] \in DOMAIN data
          /\ saving \in [Thread -> {"load", "own"}]
      BY JobStoreAssumption DEF StoreInv, FilesOK
    <2> QED BY <1>2, <2>1 DEF Reconciling
  <1> QED BY <1>1, <1>2

(* Where the operation stands after a list d has been loaded.               *)
LEMMA LoadedSole ==
  ASSUME StoreInv, NEW t \in Thread, SoleInv(t),
         NEW d, IsStore(d), d = Base', d = Durable',
         main' = NoFile \/ IsStore(main'), 
         tmp' \in {NoFile, Empty} \/ (IsStore(tmp') /\ Current(tmp')),
         main' = NoFile => tmp' \in Unparsable,
         call' = call, now' = now, fd'[t] = "none",
         pc'[t] = "done" => main' # NoFile \/ DOMAIN d = {},
         \/ /\ saving'[t] = "own" /\ Current(d)
            /\ pc'[t] = "done" /\ text'[t] = d /\ SavesNothing(call[t], d)
         \/ /\ saving'[t] = "own" /\ Current(d)
            /\ pc'[t] = "save" /\ text'[t] = NoFile /\ ~ SavesNothing(call[t], d)
            /\ data'[ProcOf[t]] = Apply(call[t], d, now)
         \/ /\ saving'[t] = "load"
            /\ pc'[t] = "save" /\ text'[t] = NoFile
            /\ data'[ProcOf[t]] = Reconcile(d, now)
  PROVE  SoleInv(t)' /\ ~ Applied(t)'
PROOF
  <1>1. now \in 0 .. now
    BY DEF StoreInv, FilesOK
  <1>2. d # NoFile
    BY StoresParse
  <1>3. pc'[t] = "save" => Saves(t)'
    BY <1>1 DEF Saves
  <1>4. LoadOK(t)' /\ SaveOK(t)' /\ ReturnOK(t)'
    BY <1>3 DEF LoadOK, SaveOK, ReturnOK
  <1>5. ~ Applied(t)'
    BY <1>2 DEF Applied
  <1> QED BY <1>4, <1>5 DEF SoleInv

LEMMA SoleStep ==
  ASSUME StoreInv, NEW t \in Thread, Thread = {t}, SoleInv(t), StoreStep(t)
  PROVE  SoleInv(t)' /\ StoreEffect(t)
PROOF
  <1>1. /\ ThreadOK(t) /\ FilesOK /\ LoadOK(t) /\ SaveOK(t) /\ ReturnOK(t)
        /\ main = NoFile \/ IsStore(main)
        /\ tmp \in {NoFile, Empty} \/ (IsStore(tmp) /\ Current(tmp))
        /\ t \in DOMAIN pc /\ t \in DOMAIN text /\ ProcOf[t] \in DOMAIN data
        /\ t \in DOMAIN fd /\ t \in DOMAIN saving
    BY JobStoreAssumption DEF StoreInv, SoleInv, FilesOK
  <1>2. /\ NoFile \in Unparsable /\ Empty \in Unparsable
        /\ main \in Unparsable <=> main = NoFile
        /\ IsStore(main) => main \notin Unparsable
        /\ IsStore(tmp) => tmp \notin Unparsable
        /\ IsStore(LegacyStore)
    BY <1>1, StoresParse, JobStoreAssumption DEF Unparsable
  <1>3. /\ saving[t] \in {"load", "own"} /\ now \in Nat
        /\ pc[t] # "idle" => call[t] \in Call
    BY <1>1 DEF FilesOK, ThreadOK
  <1> USE DEF Goto, SetText
  <1>4. CASE ReadMain(t)
    <2>1. /\ UNCHANGED <<main, tmp, data, call, fd, saving, now>>
          /\ \/ main \notin Unparsable /\ text'[t] = main /\ pc'[t] = "parse"
             \/ main \in Unparsable /\ pc'[t] = "readTmp" /\ text' = text
          /\ pc[t] = "readMain"
      BY <1>1, <1>4 DEF ReadMain
    <2>2. LoadOK(t)' /\ SaveOK(t)' /\ ReturnOK(t)'
      BY <1>1, <1>2, <2>1 DEF LoadOK, SaveOK, ReturnOK
    <2>3. Durable' = Durable /\ ~ Applied(t) /\ ~ Applied(t)'
      BY <2>1 DEF Durable, Applied
    <2> QED BY <1>1, <2>1, <2>2, <2>3 DEF SoleInv, StoreEffect, ListEffect
  <1>5. CASE ReadTmp(t)
    <2>1. /\ UNCHANGED <<main, tmp, call, text, fd, saving, now>>
          /\ \/ tmp \notin Unparsable /\ data'[ProcOf[t]] = tmp /\ pc'[t] = "promote"
             \/ tmp \in Unparsable /\ pc'[t] = "legacy" /\ data' = data
          /\ pc[t] = "readTmp"
      BY <1>1, <1>5 DEF ReadTmp, SetData
    <2>2. LoadOK(t)' /\ SaveOK(t)' /\ ReturnOK(t)'
      BY <1>1, <1>2, <2>1 DEF LoadOK, SaveOK, ReturnOK
    <2>3. Durable' = Durable /\ ~ Applied(t) /\ ~ Applied(t)'
      BY <2>1 DEF Durable, Applied
    <2> QED BY <1>1, <2>1, <2>2, <2>3 DEF SoleInv, StoreEffect, ListEffect
  <1>6. CASE Parse(t)
    <2>1. /\ pc[t] = "parse" /\ text[t] = main /\ IsStore(text[t])
          /\ UNCHANGED <<main, tmp, call, fd, now>>
          /\ Reconciling(t, text[t], FALSE)
      BY <1>1, <1>6 DEF Parse, LoadOK, ThreadOK
    <2>2. PICK d : d = text[t]
      OBVIOUS
    <2>3. /\ IsStore(d) /\ d = main' /\ main' # NoFile
          /\ d = Base' /\ d = Durable' /\ Durable' = Durable
      BY <1>2, <2>1, <2>2 DEF Base, Durable
    <2>4. fd'[t] = "none" /\ ~ Applied(t)
      BY <1>1, <2>1 DEF SaveOK, Applied
    <2>5. SoleInv(t)' /\ ~ Applied(t)'
      BY <1>1, <2>1, <2>2, <2>3, <2>4, LoadedSole, ReconcilingOutcome
    <2> QED BY <2>1, <2>3, <2>4, <2>5 DEF StoreEffect, ListEffect
  <1>7. CASE Promote(t)
    <2>1. /\ pc[t] = "promote" /\ main = NoFile /\ tmp = data[ProcOf[t]]
          /\ IsStore(data[ProcOf[t]])
      BY <1>1, <1>7 DEF Promote, LoadOK, ThreadOK
    <2>2. PICK d : d = data[ProcOf[t]]
      OBVIOUS
    <2>3. d = tmp /\ IsStore(d) /\ d \notin Unparsable /\ d # NoFile
      BY <2>1, <2>2, StoresParse
    <2>4. /\ RenameTmpToMain /\ Reconciling(t, d, FALSE)
          /\ UNCHANGED <<call, now>>
      BY <1>7, <2>2, <2>3 DEF Promote
    <2>5. main' = d /\ tmp' = NoFile /\ fd'[t] = "none"
      BY <1>1, <2>1, <2>3, <2>4 DEF RenameTmpToMain, SaveOK
    <2>6. d = Base' /\ d = Durable' /\ Durable' = Durable /\ ~ Applied(t)
      BY <1>2, <2>1, <2>3, <2>5 DEF Base, Durable, Applied
    <2>7. SoleInv(t)' /\ ~ Applied(t)'
      BY <2>3, <2>4, <2>5, <2>6, LoadedSole, ReconcilingOutcome
    <2>8. IsStore(main') /\ Current(main')
      BY <1>1, <2>3, <2>5, StoresParse DEF Unparsable
    <2> QED BY <2>6, <2>7, <2>8 DEF StoreEffect, ListEffect
  <1>8. CASE Legacy(t)
    <2>1. /\ pc[t] = "legacy" /\ main = NoFile /\ tmp \in Unparsable
          /\ UNCHANGED <<main, tmp, call, fd, now>>
          /\ Reconciling(t, LegacyStore, DOMAIN LegacyStore # {})
      BY <1>1, <1>8 DEF Legacy, LoadOK
    <2>2. PICK d : d = LegacyStore
      OBVIOUS
    <2>3. /\ IsStore(d) /\ d = Base' /\ d = Durable' /\ Durable' = Durable
      BY <1>2, <2>1, <2>2 DEF Base, Durable
    <2>4. fd'[t] = "none" /\ ~ Applied(t)
      BY <1>1, <2>1 DEF SaveOK, Applied
    <2>5. SoleInv(t)' /\ ~ Applied(t)'
      <3>1. PICK dirty \in BOOLEAN : dirty = (DOMAIN LegacyStore # {})
        OBVIOUS
      <3>2. pc'[t] = "done" => DOMAIN d = {}
        BY <2>1, <2>2, <3>1, ReconcilingOutcome
      <3> QED
        BY <1>1, <2>1, <2>2, <2>3, <2>4, <3>1, <3>2, LoadedSole, ReconcilingOutcome
    <2> QED BY <2>1, <2>3, <2>4, <2>5 DEF StoreEffect, ListEffect
  <1>9. CASE Stringify(t)
    <2>1. /\ UNCHANGED <<main, tmp, data, call, fd, saving, now>>
          /\ text'[t] = data[ProcOf[t]] /\ pc[t] = "save" /\ pc'[t] = "open"
      BY <1>1, <1>9 DEF Stringify
    <2>2. Saves(t)'
      BY <1>1, <2>1 DEF SaveOK, Saves, Base
    <2>3. LoadOK(t)' /\ SaveOK(t)' /\ ReturnOK(t)'
      BY <1>1, <2>1, <2>2 DEF LoadOK, SaveOK, ReturnOK
    <2>4. Durable' = Durable /\ ~ Applied(t) /\ ~ Applied(t)'
      BY <2>1 DEF Durable, Applied
    <2> QED BY <1>1, <2>1, <2>3, <2>4 DEF SoleInv, StoreEffect, ListEffect
  <1>10. CASE Open(t)
    <2>1. /\ UNCHANGED <<main, data, call, text, saving, now>>
          /\ tmp' = Empty /\ fd'[t] = "tmp" /\ pc[t] = "open" /\ pc'[t] = "write"
      BY <1>1, <1>10 DEF Open
    <2>2. Saves(t)'
      BY <1>1, <2>1 DEF SaveOK, Saves, Base
    <2>3. LoadOK(t)' /\ SaveOK(t)' /\ ReturnOK(t)'
      BY <1>1, <1>2, <2>1, <2>2 DEF LoadOK, SaveOK, ReturnOK
    <2>4. Durable' = Durable /\ ~ Applied(t) /\ ~ Applied(t)'
      BY <1>1, <1>2, <2>1 DEF Durable, Applied, SaveOK
    <2> QED BY <1>1, <2>1, <2>3, <2>4 DEF SoleInv, StoreEffect, ListEffect
  <1>11. CASE Write(t)
    <2>1. /\ fd[t] = "tmp" /\ pc[t] = "write" /\ pc'[t] = "rename"
          /\ tmp' \in Written(text[t], tmp) /\ tmp = Empty
          /\ UNCHANGED <<main, data, call, saving, now>>
          /\ fd'[t] = "none" /\ text'[t] = NoFile
      BY <1>1, <1>11 DEF Write, SaveOK
    <2>2. tmp' = data[ProcOf[t]] /\ IsStore(tmp') /\ tmp' \notin Unparsable
      BY <1>1, <2>1, StoresParse DEF Written, SaveOK, ThreadOK
    <2>3. Saves(t) /\ Saves(t)'
      BY <1>1, <2>1 DEF SaveOK, Saves, Base
    <2>4. LoadOK(t)' /\ SaveOK(t)' /\ ReturnOK(t)'
      BY <1>1, <2>1, <2>2, <2>3 DEF LoadOK, SaveOK, ReturnOK
    <2>5. ListEffect(t)
      <3>1. CASE main \notin Unparsable
        BY <2>1, <3>1 DEF Durable, Applied, ListEffect
      <3>2. CASE main \in Unparsable
        <4>1. Durable = Base /\ Durable' = data[ProcOf[t]]
          BY <1>2, <2>1, <2>2, <3>2 DEF Durable, Base
        <4>2. ~ Applied(t) /\ (Applied(t)' <=> saving[t] = "own")
          BY <2>1, <3>2 DEF Applied
        <4> QED BY <2>3, <4>1, <4>2 DEF ListEffect, Saves
      <3> QED BY <3>1, <3>2
    <2>6. Current(tmp')
      BY <1>1, <1>3, <2>1, <2>2, <2>3, SavesAreCurrent
    <2> QED BY <1>1, <2>1, <2>2, <2>4, <2>5, <2>6 DEF SoleInv, StoreEffect
  <1>12. CASE Rename(t)
    <2>1. pc[t] = "rename" /\ tmp = data[ProcOf[t]] /\ IsStore(tmp) /\ Saves(t)
      BY <1>1, <1>12 DEF Rename, SaveOK, ThreadOK
    <2>2. tmp \notin Unparsable /\ tmp # NoFile /\ Current(tmp)
      BY <1>1, <2>1, StoresParse DEF Unparsable
    <2>3. /\ main' = tmp /\ tmp' = NoFile /\ fd'[t] = "none"
          /\ pc'[t] = (IF saving[t] = "load" THEN "resume" ELSE "done")
          /\ text[t] = NoFile /\ UNCHANGED <<data, call, text, saving, now>>
      BY <1>1, <1>12, <2>1, <2>2 DEF Rename, RenameTmpToMain, SaveOK
    <2>4. LoadOK(t)' /\ SaveOK(t)' /\ ReturnOK(t)'
      BY <1>1, <1>3, <2>1, <2>2, <2>3 DEF LoadOK, SaveOK, ReturnOK
    <2>5. Durable' = data[ProcOf[t]] /\ (Applied(t)' <=> saving[t] = "own")
      BY <2>1, <2>2, <2>3 DEF Durable, Applied
    <2>6. CASE main \in Unparsable
      <3>1. Durable = tmp /\ (Applied(t) <=> saving[t] = "own")
        BY <2>1, <2>2, <2>6 DEF Durable, Applied
      <3>2. ListEffect(t)
        BY <2>1, <2>5, <3>1 DEF ListEffect
      <3> QED BY <1>1, <2>1, <2>2, <2>3, <2>4, <3>2 DEF SoleInv, StoreEffect
    <2>7. CASE main \notin Unparsable
      <3>1. Durable = Base /\ ~ Applied(t)
        BY <2>1, <2>7 DEF Durable, Base, Applied
      <3>2. ListEffect(t)
        BY <2>1, <2>5, <3>1 DEF ListEffect, Saves
      <3> QED BY <1>1, <2>1, <2>2, <2>3, <2>4, <3>2 DEF SoleInv, StoreEffect
    <2> QED BY <2>6, <2>7
  <1>13. CASE Resume(t)
    <2>1. /\ pc[t] = "resume" /\ main = data[ProcOf[t]] /\ IsStore(data[ProcOf[t]])
          /\ UNCHANGED <<main, tmp, call, fd, now>>
          /\ Perform(t, data[ProcOf[t]])
      BY <1>1, <1>13 DEF Resume, LoadOK, ThreadOK
    <2>2. PICK d : d = data[ProcOf[t]]
      OBVIOUS
    <2>3. /\ IsStore(d) /\ d = main' /\ main' # NoFile
          /\ d = Base' /\ d = Durable' /\ Durable' = Durable
      BY <1>2, <2>1, <2>2 DEF Base, Durable
    <2>4. fd'[t] = "none" /\ ~ Applied(t)
      BY <1>1, <2>1 DEF SaveOK, Applied
    <2>5. SoleInv(t)' /\ ~ Applied(t)'
      <3>1. Current(d)
        BY <1>1, <2>1, <2>2 DEF LoadOK
      <3> QED BY <1>1, <2>1, <2>2, <2>3, <2>4, <3>1, LoadedSole, PerformOutcome
    <2> QED BY <2>1, <2>3, <2>4, <2>5 DEF StoreEffect, ListEffect
  <1> QED
    BY <1>4, <1>5, <1>6, <1>7, <1>8, <1>9, <1>10, <1>11, <1>12, <1>13
       DEF StoreStep

(* What the users of a store do to a single caller's list: nothing.         *)
LEMMA SoleInit ==
  ASSUME NEW t \in Thread, StoreInit PROVE SoleInv(t) /\ ~ Applied(t)
PROOF
  <1>1. main = NoFile \/ IsStore(main)
    BY JobStoreAssumption DEF StoreInit
  <1>2. LoadOK(t) /\ SaveOK(t) /\ ReturnOK(t) /\ ~ Applied(t)
    BY DEF StoreInit, LoadOK, SaveOK, ReturnOK, Applied
  <1> QED BY <1>1, <1>2 DEF SoleInv, StoreInit

LEMMA SoleBegin ==
  ASSUME StoreInv, NEW t \in Thread, SoleInv(t), NEW c, Begin(t, c)
  PROVE  SoleInv(t)' /\ ~ Applied(t) /\ ~ Applied(t)' /\ Durable' = Durable
PROOF
  <1>1. /\ UNCHANGED <<main, tmp, data, text, fd, saving, now>>
        /\ pc[t] = "idle" /\ pc'[t] = "readMain" /\ call'[t] = c
    BY DEF Begin, Goto, StoreInv
  <1>2. LoadOK(t)' /\ SaveOK(t)' /\ ReturnOK(t)'
    BY <1>1 DEF SoleInv, LoadOK, SaveOK, ReturnOK
  <1> QED BY <1>1, <1>2 DEF SoleInv, Durable, Applied

LEMMA SoleEnd ==
  ASSUME StoreInv, NEW t \in Thread, SoleInv(t), End(t)
  PROVE  /\ SoleInv(t)' /\ ~ Applied(t)' /\ Durable' = Durable /\ call'[t] = NoCall
         /\ pc[t] = "done" /\ (Applied(t) \/ SavesNothing(call[t], Durable))
PROOF
  <1>1. /\ UNCHANGED <<main, tmp, fd, saving, now>>
        /\ pc[t] \in {"done", "failed"} /\ pc'[t] = "idle" /\ call'[t] = NoCall
    BY DEF End, Goto, StoreInv
  <1>2. LoadOK(t)' /\ SaveOK(t)' /\ ReturnOK(t)'
    BY <1>1 DEF SoleInv, LoadOK, SaveOK, ReturnOK
  <1> QED BY <1>1, <1>2 DEF SoleInv, ReturnOK, Durable, Applied

LEMMA SoleDies ==
  ASSUME StoreInv, NEW t \in Thread, SoleInv(t), ProcessDies(ProcOf[t])
  PROVE  SoleInv(t)' /\ ~ Applied(t)' /\ Durable' = Durable /\ call'[t] = NoCall
PROOF
  <1>1. /\ UNCHANGED <<main, tmp, now>>
        /\ pc'[t] = "idle" /\ call'[t] = NoCall /\ fd'[t] = "none"
    BY DEF ProcessDies
  <1>2. LoadOK(t)' /\ SaveOK(t)' /\ ReturnOK(t)'
    BY <1>1 DEF LoadOK, SaveOK, ReturnOK
  <1> QED BY <1>1, <1>2 DEF SoleInv, Durable, Applied

LEMMA SoleClock ==
  ASSUME StoreInv, NEW t \in Thread, SoleInv(t),
         UNCHANGED <<main, tmp, pc, call, text, fd, saving>>,
         data' = data \/ pc[t] = "idle",
         now' = now \/ now' = now + 1
  PROVE  SoleInv(t)' /\ Durable' = Durable /\ (Applied(t)' <=> Applied(t))
PROOF
  <1>1. now \in Nat /\ \A m \in 0 .. now : m \in 0 .. now'
    BY DEF StoreInv, FilesOK
  <1>2. pc[t] # "idle" /\ Saves(t) => Saves(t)'
    BY <1>1 DEF Saves, Base
  <1>3. LoadOK(t)' /\ SaveOK(t)' /\ ReturnOK(t)'
    BY <1>2 DEF SoleInv, LoadOK, SaveOK, ReturnOK, Durable
  <1> QED BY <1>3 DEF SoleInv, Durable, Applied
=============================================================================
