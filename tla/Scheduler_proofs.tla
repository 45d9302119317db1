-------------------------- MODULE Scheduler_proofs --------------------------
(***************************************************************************)
(* The scheduler, for any number of overlapping ticks and CLI commands, any *)
(* jobs and names, and any limit: its session slots (first part), its      *)
(* types and the discipline of its store calls (second part), and the run  *)
(* counts of its job list (third part).  The fourth part is about a daemon *)
(* whose ticks follow one another and that has the list to itself: its     *)
(* slots, the jobs it starts and the instants it serves.                   *)
(*                                                                         *)
(* The theorems about slots are about the daemon the CLI starts: it passes *)
(* no onBeforeRun hook, so nothing is awaited between the tests of a slot  *)
(* and taking it.                                                          *)
(***************************************************************************)
EXTENDS Scheduler, JobStore_proofs, FiniteSetTheorems

(* The inductive invariant.  runningJobs may hold names that no tick stands *)
(* for any more (a store call threw), but never the converse: whoever is    *)
(* about to run a session, or runs one, has its name in the set, and that   *)
(* name to itself, so there are never more of them than names.              *)
SlotInv ==
  /\ tick \in [Tick -> TickPC]
  /\ cur = [t \in Tick |-> cur[t]]
  /\ IsFiniteSet(runningJobs)
  /\ MaxConcurrentSessions > 0 =>
       Cardinality(runningJobs) <= MaxConcurrentSessions
  /\ \A t \in Holding : NameOf[cur[t].id] \in runningJobs
  /\ OneSessionPerName
  /\ \A t \in Tick : tick[t] # "hook"

(* A tick goes to a place where it holds no slot; the others stay, and the  *)
(* set keeps their names.                                                   *)
LEMMA SlotsOfOthersKept ==
  ASSUME SlotInv, NEW t \in Tick,
         NEW l \in TickPC \ {"advance", "session", "hook"},
         tick' = [tick EXCEPT ![t] = l],
         \/ runningJobs' = runningJobs
         \/ t \in Holding /\ runningJobs' = runningJobs \ {NameOf[cur[t].id]},
         NEW c, cur' = cur \/ cur' = [cur EXCEPT ![t] = c]
  PROVE  SlotInv'
PROOF
  <1>1. /\ tick' \in [Tick -> TickPC]
        /\ \A u \in Tick : tick'[u] # "hook"
    BY DEF SlotInv
  <1>2. Holding' = Holding \ {t}
    BY DEF SlotInv, Holding
  <1>3. cur' = [u \in Tick |-> cur'[u]] /\ \A u \in Tick \ {t} : cur'[u] = cur[u]
    BY DEF SlotInv
  <1>4. /\ IsFiniteSet(runningJobs')
        /\ MaxConcurrentSessions > 0 =>
             Cardinality(runningJobs') <= MaxConcurrentSessions
    <2>1. IsFiniteSet(runningJobs) /\ Cardinality(runningJobs) \in Nat
      BY FS_CardinalityType DEF SlotInv
    <2>2. /\ IsFiniteSet(runningJobs')
          /\ Cardinality(runningJobs') <= Cardinality(runningJobs)
          /\ Cardinality(runningJobs') \in Nat
      BY <2>1, FS_CardinalityType, FS_Subset
    <2> QED BY <2>1, <2>2, SchedulerAssumption DEF SlotInv
  <1>5. \A u \in Holding' : NameOf[cur'[u].id] \in runningJobs'
    <2> SUFFICES ASSUME NEW u \in Holding \ {t}
                 PROVE  NameOf[cur[u].id] \in runningJobs'
      BY <1>2, <1>3 DEF Holding
    <2>1. NameOf[cur[u].id] \in runningJobs
      BY DEF SlotInv
    <2>2. t \in Holding => NameOf[cur[u].id] # NameOf[cur[t].id]
      BY DEF SlotInv, OneSessionPerName
    <2> QED BY <2>1, <2>2
  <1>6. OneSessionPerName'
    BY <1>2, <1>3 DEF SlotInv, OneSessionPerName, Holding
  <1> QED BY <1>1, <1>3, <1>4, <1>5, <1>6 DEF SlotInv

(* The loop takes a slot: the tests of this name and of the limit have just *)
(* been made, with no await in between.                                     *)
LEMMA SlotTaken ==
  ASSUME SlotInv, NEW t \in Tick, NEW id, tick[t] = "loop",
         SlotFree, NameOf[id] \notin runningJobs,
         tick' = [tick EXCEPT ![t] = "advance"],
         runningJobs' = runningJobs \cup {NameOf[id]},
         NEW c, cur' = [cur EXCEPT ![t] = c], c.id = id
  PROVE  SlotInv'
PROOF
  <1>1. /\ tick' \in [Tick -> TickPC]
        /\ \A u \in Tick : tick'[u] # "hook"
    BY DEF SlotInv, TickPC
  <1>2. Holding' = Holding \cup {t} /\ t \notin Holding
    BY DEF SlotInv, Holding
  <1>3. /\ cur' = [u \in Tick |-> cur'[u]]
        /\ cur'[t] = c
        /\ \A u \in Tick \ {t} : cur'[u] = cur[u]
    BY DEF SlotInv
  <1>4. /\ IsFiniteSet(runningJobs')
        /\ MaxConcurrentSessions > 0 =>
             Cardinality(runningJobs') <= MaxConcurrentSessions
    <2>1. IsFiniteSet(runningJobs) /\ Cardinality(runningJobs) \in Nat
      BY FS_CardinalityType DEF SlotInv
    <2>2. /\ IsFiniteSet(runningJobs')
          /\ Cardinality(runningJobs') = Cardinality(runningJobs) + 1
      BY <2>1, FS_AddElement
    <2> QED BY <2>1, <2>2, SchedulerAssumption DEF SlotFree
  <1>5. \A u \in Holding' : NameOf[cur'[u].id] \in runningJobs'
    <2> SUFFICES ASSUME NEW u \in Holding'
                 PROVE  NameOf[cur'[u].id] \in runningJobs'
      OBVIOUS
    <2>1. CASE u = t
      BY <2>1, <1>3
    <2>2. CASE u \in Holding /\ u # t
      BY <2>2, <1>3 DEF SlotInv, Holding
    <2> QED BY <1>2, <2>1, <2>2
  <1>6. OneSessionPerName'
    <2> SUFFICES ASSUME NEW u \in Holding', NEW v \in Holding', u # v
                 PROVE  NameOf[cur'[u].id] # NameOf[cur'[v].id]
      BY DEF OneSessionPerName
    <2>1. \A w \in Holding : /\ NameOf[cur[w].id] # NameOf[id]
                             /\ cur'[w] = cur[w]
      BY <1>2, <1>3 DEF SlotInv, Holding
    <2>2. CASE u = t \/ v = t
      BY <2>1, <2>2, <1>2, <1>3
    <2>3. CASE u # t /\ v # t
      BY <2>1, <2>3, <1>2 DEF SlotInv, OneSessionPerName
    <2> QED BY <2>2, <2>3
  <1> QED BY <1>1, <1>3, <1>4, <1>5, <1>6 DEF SlotInv

LEMMA SlotInvInit == Init => SlotInv
PROOF
  <1> SUFFICES ASSUME Init PROVE SlotInv
    OBVIOUS
  <1>1. Holding = {}
    BY DEF Init, Holding
  <1>2. IsFiniteSet(runningJobs) /\ Cardinality(runningJobs) = 0
    BY FS_EmptySet DEF Init
  <1>3. tick \in [Tick -> TickPC] /\ \A t \in Tick : tick[t] # "hook"
    BY DEF Init, TickPC
  <1>4. cur = [t \in Tick |-> cur[t]]
    BY DEF Init
  <1> QED
    BY <1>1, <1>2, <1>3, <1>4, SchedulerAssumption DEF SlotInv, OneSessionPerName

(* The daemon's memory is gone: no slot, no tick. *)
LEMMA SlotsGoneWithDaemon == DaemonGone => SlotInv'
PROOF
  <1> SUFFICES ASSUME DaemonGone PROVE SlotInv'
    OBVIOUS
  <1>1. Holding' = {}
    BY DEF DaemonGone, Holding
  <1>2. IsFiniteSet(runningJobs') /\ Cardinality(runningJobs') = 0
    BY FS_EmptySet DEF DaemonGone
  <1>3. tick' \in [Tick -> TickPC] /\ \A t \in Tick : tick'[t] # "hook"
    BY DEF DaemonGone, TickPC
  <1>4. cur' = [t \in Tick |-> cur'[t]]
    BY DEF DaemonGone
  <1> QED
    BY <1>1, <1>2, <1>3, <1>4, SchedulerAssumption DEF SlotInv, OneSessionPerName

LEMMA SlotInvUnchanged ==
  SlotInv /\ UNCHANGED <<runningJobs, tick, cur>> => SlotInv'
PROOF
  <1> SUFFICES ASSUME SlotInv, UNCHANGED <<runningJobs, tick, cur>> PROVE SlotInv'
    OBVIOUS
  <1>1. Holding' = Holding
    BY DEF Holding
  <1> QED BY <1>1 DEF SlotInv, OneSessionPerName

LEMMA SlotInvKeptByTick ==
  ASSUME ~HasBeforeRun, SlotInv, NEW t \in Tick, Start(t) \/ TickStep(t)
  PROVE  SlotInv'
PROOF
  <1> USE DEF TickAt
  <1>1. CASE Start(t)
    BY <1>1, SlotsOfOthersKept DEF Start, TickPC
  <1>2. CASE Started(t)
    BY <1>2, SlotsOfOthersKept DEF Started, TickPC
  <1>3. CASE TickBegins(t)
    BY <1>3, SlotsOfOthersKept DEF TickBegins, TickPC
  <1>4. CASE TickLoaded(t)
    BY <1>4, SlotsOfOthersKept DEF TickLoaded, TickPC
  <1>5. CASE StartJob(t)
    <2>1. PICK id \in DOMAIN due[t] : Visit(t, id) /\ TakeSlot(t, id, due[t][id])
      BY <1>5 DEF StartJob
    <2>2. PICK c : c = [id |-> id, job |-> due[t][id]]
      OBVIOUS
    <2>3. cur' = [cur EXCEPT ![t] = c] /\ c.id = id
      BY <2>1, <2>2 DEF Visit
    <2>4. SlotFree /\ NameOf[id] \notin runningJobs
      BY <2>1 DEF Visit, Eligible
    <2>5. /\ tick[t] = "loop"
          /\ tick' = [tick EXCEPT ![t] = "advance"]
          /\ runningJobs' = runningJobs \cup {NameOf[id]}
      BY <1>5, <2>1 DEF StartJob, TakeSlot
    <2> QED BY <2>3, <2>4, <2>5, SlotTaken
  <1>6. CASE AskBeforeRun(t)
    BY <1>6 DEF AskBeforeRun
  <1>7. CASE BeforeRunAgrees(t) \/ BeforeRunDeclines(t)
    BY <1>7 DEF BeforeRunAgrees, BeforeRunDeclines, SlotInv
  <1>8. CASE SessionStarts(t)
    <2>1. Holding' = Holding
      BY <1>8 DEF SessionStarts, SlotInv, Holding
    <2>2. tick' \in [Tick -> TickPC] /\ \A u \in Tick : tick'[u] # "hook"
      BY <1>8 DEF SessionStarts, SlotInv, TickPC
    <2> QED BY <1>8, <2>1, <2>2 DEF SessionStarts, SlotInv, OneSessionPerName
  <1>9. CASE SessionEnds(t)
    BY <1>9, SlotsOfOthersKept DEF SessionEnds, TickPC, Holding
  <1>10. CASE Recorded(t)
    BY <1>10, SlotsOfOthersKept DEF Recorded, TickPC
  <1>11. CASE TickEnds(t)
    BY <1>11, SlotsOfOthersKept DEF TickEnds, TickPC
  <1>12. CASE TickFails(t)
    BY <1>12, SlotsOfOthersKept DEF TickFails, TickPC
  <1>13. CASE StartThrows(t)
    BY <1>13, SlotsGoneWithDaemon DEF StartThrows
  <1> QED
    BY <1>1, <1>2, <1>3, <1>4, <1>5, <1>6, <1>7, <1>8, <1>9, <1>10, <1>11,
       <1>12, <1>13 DEF TickStep

(* Every action of the daemon, of the commands, of the file system and of   *)
(* the clock keeps the slot invariant.                                      *)
THEOREM SlotInvariance ==
  ASSUME ~HasBeforeRun
  PROVE  Spec => []SlotInv
PROOF
  <1>1. SlotInv /\ [Next]_vars => SlotInv'
    <2> SUFFICES ASSUME SlotInv, [Next]_vars PROVE SlotInv'
      OBVIOUS
    <2>1. ASSUME NEW t \in Tick, Start(t) \/ TickStep(t) PROVE SlotInv'
      BY <2>1, SlotInvKeptByTick
    <2>2. ASSUME NEW u \in Cli, CliStep(u) PROVE UNCHANGED svcVars
      BY <2>2 DEF CliStep, Command, CommandEnds, Run, RunStarts, RunFails,
                  RunThrows, RunEnds, CliExits
    <2>3. ASSUME NEW t \in Thread, StoreSteps(t) PROVE UNCHANGED svcVars
      BY <2>3 DEF StoreSteps
    <2>4. CASE Stop
      BY <2>4, SlotInvUnchanged DEF Stop
    <2>5. CASE Exit
      BY <2>5, SlotsGoneWithDaemon DEF Exit
    <2>6. CASE ClockAdvances
      BY <2>6, SlotInvUnchanged DEF ClockAdvances, svcVars
    <2>7. CASE UNCHANGED vars
      BY <2>7, SlotInvUnchanged DEF vars, svcVars
    <2> QED
      BY <2>1, <2>2, <2>3, <2>4, <2>5, <2>6, <2>7, SlotInvUnchanged
         DEF Next, svcVars
  <1> QED BY <1>1, SlotInvInit, PTL DEF Spec

(* Two overlapping ticks never hold a slot for the same name.               *)
THEOREM OneSessionPerNameAlways ==
  ASSUME ~HasBeforeRun
  PROVE  Spec => []OneSessionPerName
PROOF
  <1>1. SlotInv => OneSessionPerName
    BY DEF SlotInv
  <1> QED BY <1>1, SlotInvariance, PTL

(* The sessions in progress map one to one into the names in runningJobs.   *)
LEMMA SessionsFitSlots == SlotInv => ConcurrencyLimit
PROOF
  <1> SUFFICES ASSUME SlotInv, MaxConcurrentSessions > 0
               PROVE  Cardinality(InSession) <= MaxConcurrentSessions
    BY DEF ConcurrencyLimit
  <1> DEFINE f == [t \in InSession |-> NameOf[cur[t].id]]
  <1>1. InSession \subseteq Holding
    BY DEF InSession, Holding
  <1>2. f \in Injection(InSession, runningJobs)
    BY <1>1 DEF SlotInv, OneSessionPerName, Injection, IsInjective
  <1> HIDE DEF f
  <1>3. /\ IsFiniteSet(InSession)
        /\ Cardinality(InSession) <= Cardinality(runningJobs)
    BY <1>2, FS_Injection DEF SlotInv
  <1>4. /\ Cardinality(InSession) \in Nat
        /\ Cardinality(runningJobs) \in Nat
    BY <1>3, FS_CardinalityType DEF SlotInv
  <1> QED BY <1>3, <1>4, SchedulerAssumption DEF SlotInv

(* However many ticks overlap and whatever store calls throw, the daemon    *)
(* runs at most maxConcurrentSessions sessions.                             *)
THEOREM ConcurrencyLimitHolds ==
  ASSUME ~HasBeforeRun
  PROVE  Spec => []ConcurrencyLimit
PROOF
  <1> QED BY SessionsFitSlots, SlotInvariance, PTL

-----------------------------------------------------------------------------
(* Types.  The inductive invariant adds to TypeOK that a call's result is   *)
(* used only for what it is: a tick that takes the list from its call has   *)
(* called load, and a tick that is past the choice of a job has one.        *)
HasJob(x) == x.id \in JobId /\ x.job \in Job

ServiceTypes ==
  /\ service \in {"down", "loading", "firstTick", "polling", "stopping"}
  /\ runningJobs \subseteq Name
  /\ tick \in [Tick -> TickPC]
  /\ due = [t \in Tick |-> due[t]]
  /\ cur = [t \in Tick |-> cur[t]]
  /\ \A t \in Tick : IsStore(due[t])
  /\ \A t \in Tick : cur[t] = NoJob \/ HasJob(cur[t])
  /\ \A t \in Tick :
       tick[t] \in {"hook", "advance", "session", "record"} => HasJob(cur[t])

CliTypes ==
  /\ cli \in [Cli -> {"idle", "command", "runLoad", "runSession", "runRecord"}]
  /\ target = [u \in Cli |-> target[u]]
  /\ \A u \in Cli : cli[u] = "runLoad" => target[u].id \in JobId
  /\ \A u \in Cli : cli[u] = "runSession" => HasJob(target[u])
  /\ issued \subseteq JobId

CountTypes == exits \in Nat /\ finished \in [JobId -> Nat]

(* Every store call is awaited: a tick or command that is not at one of its *)
(* calls has none in progress (service.ts, cli.ts).                         *)
CallsAreAwaited ==
  /\ \A t \in Tick :
       pc[t] # "idle" => tick[t] \in {"start", "load", "advance", "record"}
  /\ \A u \in Cli :
       pc[u] # "idle" => cli[u] \in {"command", "runLoad", "runRecord"}

LoadsAreLoads ==
  /\ \A t \in Tick : tick[t] \in {"start", "load"} => call[t].op = "load"
  /\ \A u \in Cli : cli[u] = "runLoad" => call[u].op = "load"

TypeInv ==
  /\ StoreInv
  /\ ServiceTypes
  /\ CliTypes
  /\ CountTypes
  /\ CallsAreAwaited
  /\ LoadsAreLoads

LEMMA TypeInvImpliesTypeOK == TypeInv => TypeOK
PROOF
  <1> SUFFICES ASSUME TypeInv PROVE TypeOK
    OBVIOUS
  <1>1. StoreTypeOK
    BY StoreInvImpliesTypeOK DEF TypeInv
  <1> QED
    BY <1>1 DEF TypeInv, TypeOK, ServiceTypes, CliTypes, CountTypes, HasJob

LEMMA ThreadsSplit ==
  /\ Tick \subseteq Thread /\ Cli \subseteq Thread /\ Tick \cap Cli = {}
  /\ Daemon \in Process
  /\ \A t \in Thread : ProcOf[t] \in Process
  /\ \A u \in Cli : \A t \in Thread \ {u} : ProcOf[t] # ProcOf[u]
  BY SchedulerAssumption

LEMMA NoJobsIsStore == IsStore(NoJobs)
  BY DEF IsStore, NoJobs

LEMMA TypeInvInit == Init => TypeInv
PROOF
  <1> SUFFICES ASSUME Init PROVE TypeInv
    OBVIOUS
  <1>1. StoreInv
    BY StoreInvInit DEF Init
  <1>2. ServiceTypes
    BY NoJobsIsStore DEF Init, ServiceTypes, TickPC
  <1>3. issued \subseteq JobId
    BY JobStoreAssumption DEF Init, FirstJobs, IsStore
  <1>4. CliTypes
    BY <1>3 DEF Init, CliTypes
  <1>5. CountTypes
    BY DEF Init, CountTypes
  <1>6. CallsAreAwaited /\ LoadsAreLoads
    BY ThreadsSplit DEF Init, StoreInit, CallsAreAwaited, LoadsAreLoads
  <1> QED BY <1>1, <1>2, <1>4, <1>5, <1>6 DEF TypeInv

(* What the steps of a call do to the control of the threads. *)
LEMMA CallControl ==
  ASSUME StoreInv, NEW t \in Thread
  PROVE  /\ \A c : Begin(t, c) =>
              /\ pc[t] = "idle" /\ pc'[t] = "readMain" /\ call'[t] = c
              /\ \A u \in Thread \ {t} : pc'[u] = pc[u] /\ call'[u] = call[u]
         /\ End(t) =>
              /\ pc'[t] = "idle"
              /\ \A u \in Thread \ {t} : pc'[u] = pc[u] /\ call'[u] = call[u]
         /\ StoreStep(t) =>
              /\ pc[t] # "idle" /\ call' = call
              /\ \A u \in Thread \ {t} : pc'[u] = pc[u]
PROOF
  <1>1. \A c : Begin(t, c) =>
          /\ pc[t] = "idle" /\ pc'[t] = "readMain" /\ call'[t] = c
          /\ \A u \in Thread \ {t} : pc'[u] = pc[u] /\ call'[u] = call[u]
    BY DEF Begin, Goto, StoreInv
  <1>2. End(t) => /\ pc'[t] = "idle"
                  /\ \A u \in Thread \ {t} : pc'[u] = pc[u] /\ call'[u] = call[u]
    BY DEF End, Goto, StoreInv
  <1>3. ASSUME StoreStep(t)
        PROVE  /\ pc[t] # "idle" /\ call' = call
               /\ \E l : pc' = [pc EXCEPT ![t] = l]
    <2> USE DEF Goto
    <2>1. ASSUME NEW d, NEW b, Reconciling(t, d, b)
          PROVE  \E l : pc' = [pc EXCEPT ![t] = l]
      BY <2>1 DEF Reconciling, Perform
    <2>2. CASE ReadMain(t) \/ ReadTmp(t) \/ Stringify(t) \/ Open(t) \/ Write(t)
      BY <2>2 DEF ReadMain, ReadTmp, Stringify, Open, Write
    <2>3. CASE Parse(t) \/ Legacy(t) \/ Promote(t)
      BY <2>1, <2>3 DEF Parse, Legacy, Promote
    <2>4. CASE Resume(t)
      BY <2>4 DEF Resume, Perform
    <2>5. CASE Rename(t)
      BY <2>5 DEF Rename
    <2> QED BY <1>3, <2>2, <2>3, <2>4, <2>5 DEF StoreStep
  <1> QED BY <1>1, <1>2, <1>3 DEF StoreInv

(* One tick moves and the others stay: what has to be shown of its step. *)
LEMMA TypeInvByTick ==
  ASSUME TypeInv, NEW t \in Tick, UNCHANGED cliVars, StoreInv', CountTypes',
         service' \in {"down", "loading", "firstTick", "polling", "stopping"},
         runningJobs' \subseteq Name,
         NEW l \in TickPC, tick' = [tick EXCEPT ![t] = l],
         \A u \in Thread \ {t} : pc'[u] = pc[u] /\ call'[u] = call[u],
         pc'[t] # "idle" => l \in {"start", "load", "advance", "record"},
         l \in {"start", "load"} => call'[t].op = "load",
         cur' = [cur EXCEPT ![t] = cur'[t]],
         cur'[t] = NoJob \/ HasJob(cur'[t]),
         l \in {"hook", "advance", "session", "record"} => HasJob(cur'[t]),
         due' = [due EXCEPT ![t] = due'[t]],
         IsStore(due'[t])
  PROVE  TypeInv'
PROOF
  <1>1. ServiceTypes'
    <2>1. /\ tick' \in [Tick -> TickPC]
          /\ due' = [u \in Tick |-> due'[u]]
          /\ cur' = [u \in Tick |-> cur'[u]]
          /\ \A u \in Tick \ {t} : /\ tick'[u] = tick[u]
                                   /\ due'[u] = due[u]
                                   /\ cur'[u] = cur[u]
          /\ tick'[t] = l
      BY DEF TypeInv, ServiceTypes
    <2> QED BY <2>1 DEF TypeInv, ServiceTypes, HasJob
  <1>2. CliTypes'
    BY DEF TypeInv, CliTypes, cliVars, HasJob
  <1>3. tick'[t] = l /\ \A u \in Tick \ {t} : tick'[u] = tick[u]
    BY DEF TypeInv, ServiceTypes
  <1>4. cli' = cli
    BY DEF cliVars
  <1>5. CallsAreAwaited'
    BY <1>3, <1>4, ThreadsSplit DEF TypeInv, CallsAreAwaited
  <1>6. LoadsAreLoads'
    BY <1>3, <1>4, ThreadsSplit DEF TypeInv, LoadsAreLoads
  <1> QED BY <1>1, <1>2, <1>5, <1>6 DEF TypeInv

LEMMA TypeInvByDaemonGone ==
  ASSUME TypeInv, DaemonGone, exits' \in Nat
  PROVE  TypeInv'
PROOF
  <1>1. StoreInv'
    BY ProcessDiesKeepsInv, ThreadsSplit DEF DaemonGone, TypeInv
  <1>2. ServiceTypes'
    BY NoJobsIsStore DEF DaemonGone, ServiceTypes, TickPC
  <1>3. CliTypes'
    BY DEF DaemonGone, TypeInv, CliTypes, cliVars, HasJob
  <1>4. CountTypes'
    BY DEF DaemonGone, TypeInv, CountTypes, ghosts
  <1>5. /\ \A t \in Tick : pc'[t] = "idle" /\ tick'[t] = "off"
        /\ \A u \in Cli : pc'[u] = pc[u] /\ call'[u] = call[u]
        /\ cli' = cli
    BY ThreadsSplit, SchedulerAssumption
       DEF DaemonGone, ProcessDies, cliVars
  <1>6. CallsAreAwaited' /\ LoadsAreLoads'
    BY <1>5 DEF TypeInv, CallsAreAwaited, LoadsAreLoads
  <1> QED BY <1>1, <1>2, <1>3, <1>4, <1>6 DEF TypeInv

LEMMA TypeInvKeptByTick ==
  ASSUME TypeInv, NEW t \in Tick, Start(t) \/ TickStep(t)
  PROVE  TypeInv'
PROOF
  <1>1. /\ StoreInv /\ ServiceTypes /\ CountTypes /\ t \in Thread
        /\ now \in Nat
    BY ThreadsSplit DEF TypeInv, StoreInv, FilesOK
  <1>2. ASSUME Begin(t, [op |-> "load"])
        PROVE  /\ StoreInv' /\ call'[t].op = "load"
               /\ \A u \in Thread \ {t} : pc'[u] = pc[u] /\ call'[u] = call[u]
    <2>1. PICK c : c = [op |-> "load"]
      OBVIOUS
    <2>2. c \in Call /\ c.op = "load" /\ Begin(t, c)
      BY <1>2, <2>1 DEF Call
    <2> QED BY <1>1, <2>2, BeginKeepsInv, CallControl
  <1>3. ASSUME HasJob(cur[t])
        PROVE  /\ [op |-> "advance", id |-> cur[t].id,
                   next |-> ComputeNextRunAtMs(cur[t].job.schedule, now)] \in Call
               /\ [op |-> "record", id |-> cur[t].id,
                   runs |-> cur[t].job.runs + 1] \in Call
    <2>1. ComputeNextRunAtMs(cur[t].job.schedule, now) \in Time
      BY <1>1, <1>3, NextRunIsTime DEF HasJob, Job
    <2>2. cur[t].job.runs + 1 \in Nat
      BY <1>3 DEF HasJob, Job
    <2> QED BY <1>3, <2>1, <2>2 DEF HasJob, Call
  <1> USE DEF TickAt
  <1>4. CASE Start(t)
    <2>1. StoreInv'
      BY <1>2, <1>4 DEF Start
    <2> QED
      BY <1>1, <1>2, <1>4, <2>1, TypeInvByTick
         DEF Start, ServiceTypes, CountTypes, ghosts, TickPC
  <1>5. CASE Started(t)
    <2>1. StoreInv'
      BY <1>1, <1>5, EndKeepsInv DEF Started
    <2> QED
      BY <1>1, <1>5, <2>1, CallControl, TypeInvByTick
         DEF Started, ServiceTypes, CountTypes, ghosts, TickPC
  <1>6. CASE TickBegins(t)
    <2>1. StoreInv'
      BY <1>2, <1>6 DEF TickBegins
    <2> QED
      BY <1>1, <1>2, <1>6, <2>1, TypeInvByTick
         DEF TickBegins, ServiceTypes, CountTypes, ghosts, TickPC
  <1>7. CASE TickLoaded(t)
    <2>1. StoreInv'
      BY <1>1, <1>7, EndKeepsInv DEF TickLoaded
    <2>2. IsStore(text[t])
      BY <1>1, <1>7 DEF TickLoaded, TypeInv, LoadsAreLoads, StoreInv, ThreadOK
    <2>3. due'[t] = [id \in {j \in DueJobs(text[t], now) : finished[j] < MaxRuns}
                       |-> text[t][id]]
      BY <1>1, <1>7 DEF TickLoaded, ServiceTypes
    <2>4. IsStore(due'[t])
      BY <2>2, <2>3 DEF IsStore, DueJobs
    <2> QED
      BY <1>1, <1>7, <2>1, <2>4, CallControl, TypeInvByTick
         DEF TickLoaded, ServiceTypes, CountTypes, ghosts, TickPC
  <1>8. ASSUME NEW id \in DOMAIN due[t], Visit(t, id)
        PROVE  /\ cur' = [cur EXCEPT ![t] = cur'[t]] /\ HasJob(cur'[t])
               /\ cur'[t] = [id |-> id, job |-> due[t][id]]
               /\ due' = [due EXCEPT ![t] = due'[t]] /\ IsStore(due'[t])
    <2>1. id \in JobId /\ due[t][id] \in Job
      BY <1>1 DEF ServiceTypes, IsStore
    <2>2. cur' = [cur EXCEPT ![t] = cur'[t]] /\ HasJob(cur'[t])
          /\ cur'[t] = [id |-> id, job |-> due[t][id]]
      BY <1>1, <1>8, <2>1 DEF Visit, ServiceTypes, HasJob
    <2>3. PICK S \in SUBSET DOMAIN due[t] :
                 due' = [due EXCEPT ![t] = [i \in S |-> due[t][i]]]
      <3>1. PICK P \in SUBSET (DOMAIN due[t] \ Eligible(t)) :
              due' = [due EXCEPT ![t] =
                        [i \in DOMAIN due[t] \ (P \cup {id}) |-> due[t][i]]]
        BY <1>8 DEF Visit
      <3> QED BY <3>1
    <2>4. due' = [due EXCEPT ![t] = due'[t]] /\ IsStore(due'[t])
      BY <1>1, <2>3 DEF ServiceTypes, IsStore
    <2> QED BY <2>2, <2>4
  <1>9. ASSUME NEW id \in JobId, NEW job \in Job, TakeSlot(t, id, job)
        PROVE  /\ StoreInv' /\ runningJobs' \subseteq Name
               /\ pc[t] = "idle"
               /\ \A u \in Thread \ {t} : pc'[u] = pc[u] /\ call'[u] = call[u]
    <2>1. ComputeNextRunAtMs(job.schedule, now) \in Time
      BY <1>1, NextRunIsTime DEF Job
    <2>2. PICK c : c = [op |-> "advance", id |-> id,
                        next |-> ComputeNextRunAtMs(job.schedule, now)]
      OBVIOUS
    <2>3. c \in Call
      BY <2>1, <2>2 DEF Call
    <2>4. Begin(t, c)
      BY <1>9, <2>2 DEF TakeSlot
    <2>5. runningJobs' \subseteq Name
      BY <1>1, <1>9, SchedulerAssumption DEF TakeSlot, ServiceTypes
    <2> QED BY <1>1, <2>3, <2>4, <2>5, BeginKeepsInv, CallControl
  <1>10. CASE StartJob(t)
    <2>1. PICK id \in DOMAIN due[t] : Visit(t, id) /\ TakeSlot(t, id, due[t][id])
      BY <1>10 DEF StartJob
    <2>2. id \in JobId /\ due[t][id] \in Job
      BY <1>1 DEF ServiceTypes, IsStore
    <2>3. tick' = [tick EXCEPT ![t] = "advance"] /\ "advance" \in TickPC
      BY <2>1 DEF TakeSlot, TickPC
    <2> QED
      BY <1>1, <1>8, <1>9, <1>10, <2>1, <2>2, <2>3, TypeInvByTick
         DEF StartJob, ServiceTypes, CountTypes, ghosts
  <1>11. CASE AskBeforeRun(t)
    <2>1. PICK id \in DOMAIN due[t] : Visit(t, id)
      BY <1>11 DEF AskBeforeRun
    <2>2. StoreInv'
      BY <1>1, <1>11, StoreInvUnchanged DEF AskBeforeRun, storeVars
    <2>3. pc' = pc /\ call' = call /\ pc[t] = "idle"
      BY <1>11 DEF AskBeforeRun, storeVars, TypeInv, CallsAreAwaited
    <2> QED
      BY <1>1, <1>8, <1>11, <2>1, <2>2, <2>3, TypeInvByTick
         DEF AskBeforeRun, ServiceTypes, CountTypes, ghosts, TickPC
  <1>12. CASE BeforeRunAgrees(t)
    <2>1. HasJob(cur[t])
      BY <1>1, <1>12 DEF BeforeRunAgrees, ServiceTypes
    <2>2. tick' = [tick EXCEPT ![t] = "advance"] /\ "advance" \in TickPC
      BY <1>12 DEF BeforeRunAgrees, TakeSlot, TickPC
    <2>3. PICK id \in JobId, job \in Job : id = cur[t].id /\ job = cur[t].job
      BY <2>1 DEF HasJob
    <2>4. TakeSlot(t, id, job)
      BY <1>12, <2>3 DEF BeforeRunAgrees
    <2> QED
      BY <1>1, <1>9, <1>12, <2>1, <2>2, <2>4, TypeInvByTick
         DEF BeforeRunAgrees, ServiceTypes, CountTypes, ghosts
  <1>13. CASE BeforeRunDeclines(t)
    <2>1. StoreInv'
      BY <1>1, <1>13, StoreInvUnchanged DEF BeforeRunDeclines, storeVars
    <2>2. pc' = pc /\ call' = call /\ pc[t] = "idle"
      BY <1>13 DEF BeforeRunDeclines, storeVars, TypeInv, CallsAreAwaited
    <2> QED
      BY <1>1, <1>13, <2>1, <2>2, TypeInvByTick
         DEF BeforeRunDeclines, ServiceTypes, CountTypes, ghosts, TickPC
  <1>14. CASE SessionStarts(t)
    <2>1. StoreInv' /\ HasJob(cur[t])
      BY <1>1, <1>14, EndKeepsInv DEF SessionStarts, ServiceTypes
    <2> QED
      BY <1>1, <1>14, <2>1, CallControl, TypeInvByTick
         DEF SessionStarts, ServiceTypes, CountTypes, TickPC
  <1>15. CASE SessionEnds(t)
    <2>1. HasJob(cur[t])
      BY <1>1, <1>15 DEF SessionEnds, ServiceTypes
    <2>2. PICK c : c = [op |-> "record", id |-> cur[t].id,
                        runs |-> cur[t].job.runs + 1]
      OBVIOUS
    <2>3. c \in Call /\ Begin(t, c)
      BY <1>3, <1>15, <2>1, <2>2 DEF SessionEnds
    <2>4. StoreInv'
      BY <1>1, <2>3, BeginKeepsInv
    <2>5. CountTypes'
      BY <1>1, <1>15, <2>1 DEF SessionEnds, CountTypes, HasJob
    <2> QED
      BY <1>1, <1>15, <2>1, <2>3, <2>4, <2>5, CallControl, TypeInvByTick
         DEF SessionEnds, ServiceTypes, TickPC
  <1>16. CASE Recorded(t)
    <2>1. StoreInv'
      BY <1>1, <1>16, EndKeepsInv DEF Recorded
    <2> QED
      BY <1>1, <1>16, <2>1, CallControl, TypeInvByTick
         DEF Recorded, ServiceTypes, CountTypes, ghosts, TickPC
  <1>17. CASE TickEnds(t)
    <2>1. StoreInv'
      BY <1>1, <1>17, StoreInvUnchanged DEF TickEnds, storeVars
    <2>2. pc' = pc /\ call' = call /\ pc[t] = "idle"
      BY <1>17 DEF TickEnds, storeVars, TypeInv, CallsAreAwaited
    <2> QED
      BY <1>1, <1>17, <2>1, <2>2, NoJobsIsStore, TypeInvByTick
         DEF TickEnds, ServiceTypes, CountTypes, ghosts, TickPC
  <1>18. CASE TickFails(t)
    <2>1. StoreInv'
      BY <1>1, <1>18, EndKeepsInv DEF TickFails
    <2> QED
      BY <1>1, <1>18, <2>1, NoJobsIsStore, CallControl, TypeInvByTick
         DEF TickFails, ServiceTypes, CountTypes, ghosts, TickPC
  <1>19. CASE StartThrows(t)
    BY <1>1, <1>19, TypeInvByDaemonGone DEF StartThrows, CountTypes
  <1> QED
    BY <1>4, <1>5, <1>6, <1>7, <1>10, <1>11, <1>12, <1>13, <1>14, <1>15,
       <1>16, <1>17, <1>18, <1>19 DEF TickStep

(* One command moves: what has to be shown of its step. *)
LEMMA TypeInvByCli ==
  ASSUME TypeInv, NEW u \in Cli, UNCHANGED svcVars, StoreInv', CountTypes',
         NEW l \in {"idle", "command", "runLoad", "runSession", "runRecord"},
         cli' = [cli EXCEPT ![u] = l],
         \A t \in Thread \ {u} : pc'[t] = pc[t] /\ call'[t] = call[t],
         pc'[u] # "idle" => l \in {"command", "runLoad", "runRecord"},
         l = "runLoad" => call'[u].op = "load" /\ target'[u].id \in JobId,
         target' = [target EXCEPT ![u] = target'[u]],
         l = "runSession" => HasJob(target'[u]),
         issued' \subseteq JobId
  PROVE  TypeInv'
PROOF
  <1>1. ServiceTypes'
    BY DEF TypeInv, ServiceTypes, svcVars, HasJob
  <1>2. /\ cli'[u] = l /\ \A v \in Cli \ {u} : cli'[v] = cli[v]
        /\ \A v \in Cli \ {u} : target'[v] = target[v]
        /\ tick' = tick
    BY DEF TypeInv, CliTypes, svcVars
  <1>3. CliTypes'
    BY <1>2 DEF TypeInv, CliTypes, HasJob
  <1>4. CallsAreAwaited'
    BY <1>2, ThreadsSplit DEF TypeInv, CallsAreAwaited
  <1>5. LoadsAreLoads'
    BY <1>2, ThreadsSplit DEF TypeInv, LoadsAreLoads
  <1> QED BY <1>1, <1>3, <1>4, <1>5 DEF TypeInv

LEMMA TypeInvKeptByCli ==
  ASSUME TypeInv, NEW u \in Cli, CliStep(u)
  PROVE  TypeInv'
PROOF
  <1>1. /\ StoreInv /\ CliTypes /\ CountTypes /\ u \in Thread
        /\ \A t \in Thread \ {u} : ProcOf[t] # ProcOf[u]
        /\ ProcOf[u] \in Process
    BY ThreadsSplit DEF TypeInv
  <1>2. ASSUME NEW c \in Call, Begin(u, c)
        PROVE  /\ StoreInv' /\ call'[u] = c
               /\ \A t \in Thread \ {u} : pc'[t] = pc[t] /\ call'[t] = call[t]
    BY <1>1, <1>2, BeginKeepsInv, CallControl
  <1>3. ASSUME End(u), CliExits(u) PROVE TypeInv'
    <2>1. StoreInv'
      BY <1>1, <1>3, EndKeepsInv DEF CliExits
    <2>2. /\ cli' = [cli EXCEPT ![u] = "idle"]
          /\ target' = [target EXCEPT ![u] = target'[u]]
      BY <1>1, <1>3 DEF CliExits, CliAt, CliTypes
    <2> QED
      BY <1>1, <1>3, <2>1, <2>2, CallControl, TypeInvByCli
         DEF CliExits, CliTypes, CountTypes, ghosts
  <1> USE DEF CliAt
  <1>4. CASE Command(u)
    <2>1. PICK c \in OneCall :
            /\ Begin(u, c)
            /\ issued' = IF c.op = "add" THEN issued \cup {c.id} ELSE issued
      BY <1>4 DEF Command
    <2>2. c \in Call /\ issued' \subseteq JobId
      BY <1>1, <2>1 DEF OneCall, Call, CliTypes
    <2> QED
      BY <1>1, <1>2, <1>4, <2>1, <2>2, TypeInvByCli
         DEF Command, CliTypes, CountTypes, ghosts
  <1>5. CASE CommandEnds(u)
    BY <1>3, <1>5 DEF CommandEnds
  <1>6. ASSUME NEW id \in issued, Run(u, id) PROVE TypeInv'
    <2>1. PICK c \in Call : c = [op |-> "load"]
      BY DEF Call
    <2>2. target'[u].id \in JobId /\ target' = [target EXCEPT ![u] = target'[u]]
      BY <1>1, <1>6 DEF Run, CliTypes
    <2>3. Begin(u, c) /\ c.op = "load"
      BY <1>6, <2>1 DEF Run
    <2> QED
      BY <1>1, <1>2, <1>6, <2>2, <2>3, TypeInvByCli
         DEF Run, CliTypes, CountTypes, ghosts
  <1>7. CASE RunStarts(u)
    <2>1. StoreInv'
      BY <1>1, <1>7, EndKeepsInv DEF RunStarts
    <2>2. IsStore(text[u])
      BY <1>1, <1>7 DEF RunStarts, TypeInv, LoadsAreLoads, StoreInv, ThreadOK
    <2>3. text[u][target[u].id] \in Job /\ target[u].id \in JobId
      BY <1>7, <2>2 DEF RunStarts, IsStore
    <2>4. HasJob(target'[u]) /\ target' = [target EXCEPT ![u] = target'[u]]
      BY <1>1, <1>7, <2>3 DEF RunStarts, HasJob, CliTypes
    <2> QED
      BY <1>1, <1>7, <2>1, <2>4, CallControl, TypeInvByCli
         DEF RunStarts, CliTypes, CountTypes, ghosts
  <1>8. CASE RunFails(u)
    BY <1>3, <1>8 DEF RunFails
  <1>9. CASE RunEnds(u)
    <2>1. HasJob(target[u])
      BY <1>1, <1>9 DEF RunEnds, CliTypes
    <2>2. PICK c : c = [op |-> "record", id |-> target[u].id,
                        runs |-> target[u].job.runs + 1]
      OBVIOUS
    <2>3. target[u].job.runs + 1 \in Nat
      BY <2>1 DEF HasJob, Job
    <2>4. c \in Call /\ Begin(u, c)
      BY <1>9, <2>1, <2>2, <2>3 DEF RunEnds, HasJob, Call
    <2>5. CountTypes'
      BY <1>1, <1>9, <2>1 DEF RunEnds, CountTypes, HasJob
    <2>6. target' = [target EXCEPT ![u] = target'[u]]
      BY <1>1, <1>9 DEF RunEnds, CliTypes
    <2> QED
      BY <1>1, <1>2, <1>9, <2>4, <2>5, <2>6, TypeInvByCli DEF RunEnds, CliTypes
  <1>10. CASE RunThrows(u)
    <2>1. StoreInv'
      BY <1>1, <1>10, ForgetKeepsInv DEF RunThrows, CliExits, TypeInv, CallsAreAwaited
    <2>2. /\ cli' = [cli EXCEPT ![u] = "idle"]
          /\ target' = [target EXCEPT ![u] = target'[u]]
      BY <1>1, <1>10 DEF RunThrows, CliExits, CliTypes
    <2>3. pc' = pc /\ call' = call /\ pc[u] = "idle"
      BY <1>10 DEF RunThrows, TypeInv, CallsAreAwaited
    <2> QED
      BY <1>1, <1>10, <2>1, <2>2, <2>3, TypeInvByCli
         DEF RunThrows, CliExits, CliTypes, CountTypes, ghosts
  <1> QED BY <1>4, <1>5, <1>6, <1>7, <1>8, <1>9, <1>10 DEF CliStep

LEMMA TypeInvKeptByStore ==
  ASSUME TypeInv, NEW t \in Thread, StoreSteps(t)
  PROVE  TypeInv'
PROOF
  <1>1. StoreInv'
    BY StoreStepKeepsInv DEF TypeInv, StoreSteps
  <1>2. /\ pc[t] # "idle" /\ call' = call
        /\ \A u \in Thread \ {t} : pc'[u] = pc[u]
    BY CallControl DEF TypeInv, StoreSteps
  <1>3. UNCHANGED <<svcVars, cliVars, exits, ghosts>>
    BY DEF StoreSteps
  <1>4. ServiceTypes' /\ CliTypes' /\ CountTypes'
    BY <1>3 DEF TypeInv, ServiceTypes, CliTypes, CountTypes, HasJob, svcVars,
                cliVars, ghosts
  <1>5. CallsAreAwaited' /\ LoadsAreLoads'
    BY <1>2, <1>3, ThreadsSplit
       DEF TypeInv, CallsAreAwaited, LoadsAreLoads, svcVars, cliVars
  <1> QED BY <1>1, <1>4, <1>5 DEF TypeInv

LEMMA TypeInvUnchanged ==
  ASSUME TypeInv, StoreInv', UNCHANGED <<pc, call, cliVars, exits, ghosts>>,
         UNCHANGED <<runningJobs, tick, due, cur>>,
         service' \in {service, "stopping"}
  PROVE  TypeInv'
PROOF
  <1>1. ServiceTypes' /\ CliTypes' /\ CountTypes'
    BY DEF TypeInv, ServiceTypes, CliTypes, CountTypes, HasJob, cliVars, ghosts
  <1>2. CallsAreAwaited' /\ LoadsAreLoads'
    BY DEF TypeInv, CallsAreAwaited, LoadsAreLoads, cliVars
  <1> QED BY <1>1, <1>2 DEF TypeInv

LEMMA TypeInvInductive == TypeInv /\ [Next]_vars => TypeInv'
PROOF
  <1> SUFFICES ASSUME TypeInv, [Next]_vars PROVE TypeInv'
    OBVIOUS
  <1>1. ASSUME NEW t \in Tick, Start(t) \/ TickStep(t) PROVE TypeInv'
    BY <1>1, TypeInvKeptByTick
  <1>2. ASSUME NEW u \in Cli, CliStep(u) PROVE TypeInv'
    BY <1>2, TypeInvKeptByCli
  <1>3. ASSUME NEW t \in Thread, StoreSteps(t) PROVE TypeInv'
    BY <1>3, TypeInvKeptByStore
  <1>4. CASE Stop
    <2>1. StoreInv'
      BY <1>4, StoreInvUnchanged DEF Stop, storeVars, TypeInv
    <2> QED BY <1>4, <2>1, TypeInvUnchanged DEF Stop, storeVars
  <1>5. CASE Exit
    <2>1. exits' \in Nat
      BY <1>5 DEF Exit, TypeInv, CountTypes
    <2> QED BY <1>5, <2>1, TypeInvByDaemonGone DEF Exit
  <1>6. CASE ClockAdvances
    <2>1. StoreInv'
      BY <1>6, StoreInvUnchanged DEF ClockAdvances, TypeInv
    <2> QED BY <1>6, <2>1, TypeInvUnchanged DEF ClockAdvances, svcVars
  <1>7. CASE UNCHANGED vars
    <2>1. StoreInv'
      BY <1>7, StoreInvUnchanged DEF vars, storeVars, TypeInv
    <2> QED BY <1>7, <2>1, TypeInvUnchanged DEF vars, storeVars, svcVars
  <1> QED BY <1>1, <1>2, <1>3, <1>4, <1>5, <1>6, <1>7 DEF Next

(* Every action keeps the types, and every call is awaited where it is made. *)
THEOREM TypeInvariance == Spec => []TypeInv
PROOF
  <1> QED BY TypeInvInit, TypeInvInductive, PTL DEF Spec

(* The files, the memory of every process and the control of the daemon and *)
(* of every command are well typed: in particular what a save writes and a  *)
(* tick visits are always stores, never an unparsed or missing content.     *)
THEOREM TypesHold == Spec => []TypeOK
PROOF
  <1> QED BY TypeInvImpliesTypeOK, TypeInvariance, PTL

-----------------------------------------------------------------------------
(***************************************************************************)
(* The run counts of the job list, for any number of overlapping ticks,    *)
(* CLI commands, jobs, crashes and restarts.  A session adds one to the    *)
(* count in a copy of its job that may be old by then, and saves may lose  *)
(* one another; what remains is that no copy claims a session that did not *)
(* finish.  The inductive invariant says so of every copy: in the files,   *)
(* in memory, in a text on its way to or from a file, in the list a tick   *)
(* goes through, in the job it is at, and in a call that is to write one.  *)
(***************************************************************************)

(* No job of the list d has more runs than f says its sessions are. *)
Counted(d, f) == \A id \in DOMAIN d : d[id].runs <= f[id]
CallCounted(c, f) == c.op = "record" => c.runs <= f[c.id]

FilesCounted ==
  /\ main \in Unparsable \/ Counted(main, finished)
  /\ tmp \in Unparsable \/ Counted(tmp, finished)

(* Where ThreadOK says that a thread works on a store, that store is counted. *)
ThreadCounted(t) ==
  /\ CallCounted(call[t], finished)
  /\ pc[t] \in {"parse", "open", "write"} => Counted(text[t], finished)
  /\ pc[t] = "done" /\ call[t].op = "load" => Counted(text[t], finished)
  /\ pc[t] \in {"promote", "save", "open", "write", "rename", "resume"} =>
       Counted(data[ProcOf[t]], finished)

StoreCounted == FilesCounted /\ \A t \in Thread : ThreadCounted(t)

TicksCounted ==
  \A t \in Tick :
    /\ Counted(due[t], finished)
    /\ tick[t] \in {"hook", "advance", "session"} =>
         cur[t].job.runs <= finished[cur[t].id]

CliCounted ==
  \A u \in Cli :
    cli[u] = "runSession" => target[u].job.runs <= finished[target[u].id]

CountInv == TypeInv /\ StoreCounted /\ TicksCounted /\ CliCounted

(* Sessions are counted from the start, so the lists the system starts with *)
(* must not claim any.                                                      *)
FreshLists ==
  /\ \A id \in DOMAIN LegacyStore : LegacyStore[id].runs = 0
  /\ FirstMain # NoFile => \A id \in DOMAIN FirstMain : FirstMain[id].runs = 0

-----------------------------------------------------------------------------
(* The operations on stores. *)

LEMMA CountedLater ==
  ASSUME NEW d, IsStore(d),
         NEW f \in [JobId -> Nat], NEW g \in [JobId -> Nat],
         \A id \in JobId : f[id] <= g[id],
         Counted(d, f)
  PROVE  Counted(d, g)
PROOF
  <1> SUFFICES ASSUME NEW id \in DOMAIN d PROVE d[id].runs <= g[id]
    BY DEF Counted
  <1>1. d[id].runs \in Nat /\ id \in JobId
    BY DEF IsStore, Job
  <1>2. d[id].runs <= f[id] /\ f[id] <= g[id] /\ f[id] \in Nat /\ g[id] \in Nat
    BY <1>1 DEF Counted
  <1> QED BY <1>1, <1>2

LEMMA FreshIsCounted ==
  ASSUME NEW d, IsStore(d), \A id \in DOMAIN d : d[id].runs = 0,
         NEW f \in [JobId -> Nat]
  PROVE  Counted(d, f)
PROOF
  <1>1. \A id \in DOMAIN d : f[id] \in Nat
    BY DEF IsStore
  <1> QED BY <1>1 DEF Counted

LEMMA ReconcileKeepsCounts ==
  ASSUME NEW d, IsStore(d), NEW n \in Nat, NEW f, Counted(d, f)
  PROVE  Counted(Reconcile(d, n), f)
PROOF
  <1>1. ASSUME NEW job \in Job PROVE Reconciled(job, n).runs = job.runs
    <2>1. \A x, y : [job EXCEPT !.next = x, !.fingerprint = y].runs = job.runs
      BY DEF Job
    <2> QED BY <2>1 DEF Reconciled
  <1> QED BY <1>1 DEF Counted, Reconcile, IsStore

LEMMA ApplyKeepsCounts ==
  ASSUME NEW d, IsStore(d), NEW c \in Call, ~SavesNothing(c, d), NEW n \in Nat,
         NEW f \in [JobId -> Nat], Counted(d, f), CallCounted(c, f)
  PROVE  Counted(Apply(c, d, n), f)
PROOF
  <1>1. CASE c \in [op : {"load"}]
    BY <1>1 DEF SavesNothing
  <1>2. CASE c \in [op : {"add"}, id : JobId, schedule : JobSchedules]
    <2>1. Apply(c, d, n) = [id \in DOMAIN d \cup {c.id} |->
                              IF id = c.id THEN NewJob(c.schedule, n) ELSE d[id]]
      BY <1>2 DEF Apply
    <2>2. NewJob(c.schedule, n).runs = 0 /\ f[c.id] \in Nat
      BY <1>2 DEF NewJob
    <2> QED BY <2>1, <2>2 DEF Counted
  <1>3. CASE c \in [op : {"remove"}, id : JobId]
    <2>1. Apply(c, d, n) = [id \in DOMAIN d \ {c.id} |-> d[id]]
      BY <1>3 DEF Apply
    <2> QED BY <2>1 DEF Counted
  <1>4. CASE c \in [op : {"setEnabled"}, id : JobId, enabled : BOOLEAN]
    <2>1. c.id \in DOMAIN d /\ d[c.id] \in Job
      BY <1>4 DEF SavesNothing, IsStore
    <2>2. Enabling(d[c.id], c.enabled, n).runs = d[c.id].runs
      <3>1. \A e, x, y :
              /\ [d[c.id] EXCEPT !.enabled = e].runs = d[c.id].runs
              /\ [d[c.id] EXCEPT !.enabled = e, !.next = x,
                                 !.fingerprint = y].runs = d[c.id].runs
        BY <2>1 DEF Job
      <3> QED BY <3>1 DEF Enabling
    <2>3. Apply(c, d, n) =
            [d EXCEPT ![c.id] = Enabling(d[c.id], c.enabled, n)]
      BY <1>4 DEF Apply
    <2> QED BY <2>1, <2>2, <2>3 DEF Counted
  <1>5. CASE c \in [op : {"advance"}, id : JobId, next : Time]
    <2>1. c.id \in DOMAIN d /\ d[c.id] \in Job
      BY <1>5 DEF SavesNothing, IsStore
    <2>2. [d[c.id] EXCEPT !.next = c.next].runs = d[c.id].runs
      BY <2>1 DEF Job
    <2>3. Apply(c, d, n) = [d EXCEPT ![c.id] = [d[c.id] EXCEPT !.next = c.next]]
      BY <1>5 DEF Apply
    <2> QED BY <2>1, <2>2, <2>3 DEF Counted
  <1>6. CASE c \in [op : {"record"}, id : JobId, runs : Nat]
    <2>1. c.id \in DOMAIN d /\ d[c.id] \in Job /\ c.runs <= f[c.id]
      BY <1>6 DEF SavesNothing, IsStore, CallCounted
    <2>2. [d[c.id] EXCEPT !.runs = c.runs].runs = c.runs
      BY <2>1 DEF Job
    <2>3. Apply(c, d, n) = [d EXCEPT ![c.id] = [d[c.id] EXCEPT !.runs = c.runs]]
      BY <1>6 DEF Apply
    <2> QED BY <2>1, <2>2, <2>3 DEF Counted
  <1> QED BY <1>1, <1>2, <1>3, <1>4, <1>5, <1>6 DEF Call

-----------------------------------------------------------------------------
(* The steps of a call. *)

(* A step of thread t leaves the other threads where they are, and puts     *)
(* only a counted list into this.data of its process.                       *)
LEMMA CountedByFrame ==
  ASSUME StoreInv, StoreCounted, NEW t \in Thread, UNCHANGED <<call, finished>>,
         pc' = [pc EXCEPT ![t] = pc'[t]],
         text' = [text EXCEPT ![t] = text'[t]],
         \/ data' = data
         \/ /\ data' = [data EXCEPT ![ProcOf[t]] = data'[ProcOf[t]]]
            /\ Counted(data'[ProcOf[t]], finished),
         FilesCounted', ThreadCounted(t)'
  PROVE  StoreCounted'
PROOF
  <1>1. ASSUME NEW u \in Thread \ {t} PROVE ThreadCounted(u)'
    <2>1. pc'[u] = pc[u] /\ text'[u] = text[u] /\ call'[u] = call[u]
      BY DEF StoreInv
    <2>2. \/ data'[ProcOf[u]] = data[ProcOf[u]]
          \/ Counted(data'[ProcOf[u]], finished)
      BY JobStoreAssumption DEF StoreInv
    <2>3. ThreadCounted(u)
      BY DEF StoreCounted
    <2> QED BY <2>1, <2>2, <2>3 DEF ThreadCounted
  <1> QED BY <1>1 DEF StoreCounted

LEMMA PerformCounted ==
  ASSUME StoreInv, finished \in [JobId -> Nat], NEW t \in Thread,
         call[t] \in Call, CallCounted(call[t], finished),
         NEW d, IsStore(d), Counted(d, finished), Perform(t, d)
  PROVE  /\ Counted(data'[ProcOf[t]], finished)
         /\ (pc'[t] = "done" /\ Counted(text'[t], finished)) \/ pc'[t] = "save"
PROOF
  <1> USE DEF SetData, SetText, Goto
  <1>1. /\ t \in DOMAIN pc /\ t \in DOMAIN text /\ ProcOf[t] \in DOMAIN data
        /\ now \in Nat
    BY JobStoreAssumption DEF StoreInv, FilesOK
  <1>2. CASE SavesNothing(call[t], d)
    BY <1>1, <1>2 DEF Perform
  <1>3. CASE ~ SavesNothing(call[t], d)
    <2>1. Counted(Apply(call[t], d, now), finished)
      BY <1>1, <1>3, ApplyKeepsCounts
    <2> QED BY <1>1, <1>3, <2>1 DEF Perform
  <1> QED BY <1>2, <1>3

LEMMA ReconcilingCounted ==
  ASSUME StoreInv, finished \in [JobId -> Nat], NEW t \in Thread,
         call[t] \in Call, CallCounted(call[t], finished),
         NEW d, IsStore(d), Counted(d, finished),
         NEW dirty \in BOOLEAN, Reconciling(t, d, dirty)
  PROVE  /\ Counted(data'[ProcOf[t]], finished)
         /\ (pc'[t] = "done" /\ Counted(text'[t], finished)) \/ pc'[t] = "save"
PROOF
  <1>1. CASE Perform(t, d)
    BY <1>1, PerformCounted
  <1>2. CASE ~ Perform(t, d)
    <2> USE DEF SetData, SetText, Goto
    <2>1. /\ t \in DOMAIN pc /\ ProcOf[t] \in DOMAIN data /\ now \in Nat
      BY JobStoreAssumption DEF StoreInv, FilesOK
    <2>2. Counted(Reconcile(d, now), finished)
      BY <2>1, ReconcileKeepsCounts
    <2> QED BY <1>2, <2>1, <2>2 DEF Reconciling
  <1> QED BY <1>1, <1>2

LEMMA StoreStepKeepsCounts ==
  ASSUME FreshLists, StoreInv, StoreCounted,
         finished \in [JobId -> Nat], finished' = finished,
         NEW t \in Thread, StoreStep(t)
  PROVE  StoreCounted'
PROOF
  <1>1. /\ ThreadOK(t) /\ ThreadCounted(t) /\ FilesCounted
        /\ t \in DOMAIN pc /\ t \in DOMAIN text /\ ProcOf[t] \in DOMAIN data
    BY JobStoreAssumption DEF StoreInv, StoreCounted
  <1>2. /\ IsStore(LegacyStore)
        /\ pc[t] # "idle" => call[t] \in Call
        /\ CallCounted(call[t], finished)
    BY <1>1, JobStoreAssumption DEF ThreadOK, ThreadCounted
  <1>3. Counted(LegacyStore, finished)
    BY <1>2, FreshIsCounted DEF FreshLists
  <1>4. ASSUME NEW d, IsStore(d), Counted(d, finished), NEW dirty \in BOOLEAN,
               Reconciling(t, d, dirty), pc[t] # "idle", call' = call,
               FilesCounted'
        PROVE  StoreCounted'
    <2>1. /\ pc' = [pc EXCEPT ![t] = pc'[t]]
          /\ text' = [text EXCEPT ![t] = text'[t]]
          /\ data' = [data EXCEPT ![ProcOf[t]] = data'[ProcOf[t]]]
      BY <1>2, <1>4, ReconcilingEffect
    <2>2. /\ Counted(data'[ProcOf[t]], finished)
          /\ (pc'[t] = "done" /\ Counted(text'[t], finished)) \/ pc'[t] = "save"
      BY <1>2, <1>4, ReconcilingCounted
    <2>3. ThreadCounted(t)'
      BY <1>2, <1>4, <2>2 DEF ThreadCounted
    <2> QED BY <1>4, <2>1, <2>2, <2>3, CountedByFrame
  <1> USE DEF Goto, SetText, SetData
  <1>5. CASE ReadMain(t)
    <2>1. FilesCounted' /\ ThreadCounted(t)'
      BY <1>1, <1>5 DEF ReadMain, FilesCounted, ThreadCounted
    <2> QED BY <1>1, <1>5, <2>1, CountedByFrame DEF ReadMain, StoreInv
  <1>6. CASE Parse(t)
    <2>1. IsStore(text[t]) /\ Counted(text[t], finished) /\ FilesCounted'
      BY <1>1, <1>6 DEF Parse, ThreadOK, ThreadCounted, FilesCounted
    <2> QED BY <1>4, <1>6, <2>1 DEF Parse
  <1>7. CASE ReadTmp(t)
    <2>1. \/ data' = data /\ pc' = [pc EXCEPT ![t] = "legacy"]
          \/ /\ data' = [data EXCEPT ![ProcOf[t]] = tmp]
             /\ Counted(tmp, finished)
             /\ pc' = [pc EXCEPT ![t] = "promote"]
      BY <1>1, <1>7 DEF ReadTmp, FilesCounted
    <2>2. FilesCounted' /\ ThreadCounted(t)'
      BY <1>1, <1>7, <2>1 DEF ReadTmp, FilesCounted, ThreadCounted
    <2> QED BY <1>1, <1>7, <2>1, <2>2, CountedByFrame DEF ReadTmp, StoreInv
  <1>8. CASE Promote(t)
    <2>1. IsStore(data[ProcOf[t]]) /\ Counted(data[ProcOf[t]], finished)
      BY <1>1, <1>8 DEF Promote, ThreadOK, ThreadCounted
    <2>2. CASE RenameTmpToMain /\ Reconciling(t, data[ProcOf[t]], FALSE)
      <3>1. FilesCounted'
        BY <1>1, <2>2 DEF RenameTmpToMain, FilesCounted, Unparsable
      <3> QED BY <1>4, <1>8, <2>1, <2>2, <3>1 DEF Promote
    <2>3. CASE ~ (RenameTmpToMain /\ Reconciling(t, data[ProcOf[t]], FALSE))
      <3>1. FilesCounted' /\ ThreadCounted(t)'
        BY <1>1, <1>8, <2>3 DEF Promote, FilesCounted, ThreadCounted
      <3> QED BY <1>1, <1>8, <2>3, <3>1, CountedByFrame DEF Promote, StoreInv
    <2> QED BY <2>2, <2>3
  <1>9. CASE Legacy(t)
    <2>1. FilesCounted'
      BY <1>1, <1>9 DEF Legacy, FilesCounted
    <2> QED BY <1>2, <1>3, <1>4, <1>9, <2>1 DEF Legacy
  <1>10. CASE Stringify(t)
    <2>1. FilesCounted' /\ ThreadCounted(t)'
      BY <1>1, <1>10 DEF Stringify, FilesCounted, ThreadCounted
    <2> QED BY <1>1, <1>10, <2>1, CountedByFrame DEF Stringify
  <1>11. CASE Open(t)
    <2>1. FilesCounted' /\ ThreadCounted(t)'
      BY <1>1, <1>11 DEF Open, FilesCounted, ThreadCounted, Unparsable
    <2> QED BY <1>1, <1>11, <2>1, CountedByFrame DEF Open, StoreInv
  <1>12. CASE Write(t)
    <2>1. \A c : \A x \in Written(text[t], c) :
            x \in Unparsable \/ Counted(x, finished)
      BY <1>1, <1>12 DEF Write, ThreadCounted, Written, Unparsable
    <2>2. FilesCounted'
      BY <1>1, <1>12, <2>1 DEF Write, FilesCounted
    <2>3. ThreadCounted(t)'
      BY <1>1, <1>12 DEF Write, ThreadCounted
    <2> QED BY <1>1, <1>12, <2>2, <2>3, CountedByFrame DEF Write
  <1>13. CASE Rename(t)
    <2>1. FilesCounted'
      BY <1>1, <1>13 DEF Rename, RenameTmpToMain, FilesCounted, Unparsable
    <2>2. ThreadCounted(t)'
      <3>1. \/ pc'[t] \in {"resume", "failed"}
            \/ pc'[t] = "done" /\ saving[t] = "own"
        BY <1>1, <1>13 DEF Rename, StoreInv, FilesOK
      <3> QED BY <1>1, <1>13, <3>1 DEF Rename, ThreadOK, ThreadCounted
    <2> QED BY <1>1, <1>13, <2>1, <2>2, CountedByFrame DEF Rename, StoreInv
  <1>14. CASE Resume(t)
    <2>1. /\ IsStore(data[ProcOf[t]]) /\ Counted(data[ProcOf[t]], finished)
          /\ Perform(t, data[ProcOf[t]]) /\ FilesCounted'
      BY <1>1, <1>14 DEF Resume, ThreadOK, ThreadCounted, FilesCounted
    <2>2. /\ pc' = [pc EXCEPT ![t] = pc'[t]]
          /\ text' = [text EXCEPT ![t] = text'[t]]
          /\ data' = [data EXCEPT ![ProcOf[t]] = data'[ProcOf[t]]]
      BY <1>2, <1>14, <2>1, PerformEffect DEF Resume
    <2>3. /\ Counted(data'[ProcOf[t]], finished)
          /\ (pc'[t] = "done" /\ Counted(text'[t], finished)) \/ pc'[t] = "save"
      BY <1>2, <1>14, <2>1, PerformCounted DEF Resume
    <2>4. ThreadCounted(t)'
      BY <1>2, <1>14, <2>3 DEF Resume, ThreadCounted
    <2> QED BY <1>14, <2>1, <2>2, <2>3, <2>4, CountedByFrame DEF Resume
  <1> QED
    BY <1>5, <1>6, <1>7, <1>8, <1>9, <1>10, <1>11, <1>12, <1>13, <1>14
       DEF StoreStep

-----------------------------------------------------------------------------
(* What ticks and commands do to the list.  The number of sessions only     *)
(* grows, and what is counted stays so.                                     *)
SessionsOnlyGrow ==
  /\ finished \in [JobId -> Nat] /\ finished' \in [JobId -> Nat]
  /\ \A id \in JobId : finished[id] <= finished'[id]

LEMMA CallCountedLater ==
  ASSUME SessionsOnlyGrow, NEW c, c = NoCall \/ c \in Call,
         CallCounted(c, finished)
  PROVE  CallCounted(c, finished')
PROOF
  <1> SUFFICES ASSUME c.op = "record" PROVE c.runs <= finished'[c.id]
    BY DEF CallCounted
  <1>1. c.id \in JobId /\ c.runs \in Nat
    BY DEF Call, NoCall
  <1>2. /\ c.runs <= finished[c.id] /\ finished[c.id] <= finished'[c.id]
        /\ finished[c.id] \in Nat /\ finished'[c.id] \in Nat
    BY <1>1 DEF CallCounted, SessionsOnlyGrow
  <1> QED BY <1>1, <1>2

LEMMA StoreCountedLater ==
  ASSUME StoreInv, StoreCounted, SessionsOnlyGrow
  PROVE  /\ main \in Unparsable \/ Counted(main, finished')
         /\ tmp \in Unparsable \/ Counted(tmp, finished')
         /\ \A t \in Thread :
              /\ CallCounted(call[t], finished')
              /\ pc[t] \in {"parse", "open", "write"} =>
                   Counted(text[t], finished')
              /\ pc[t] = "done" /\ call[t].op = "load" =>
                   Counted(text[t], finished')
              /\ pc[t] \in {"promote", "save", "open", "write", "rename",
                            "resume"} =>
                   Counted(data[ProcOf[t]], finished')
PROOF
  <1>1. ASSUME NEW d, IsStore(d), Counted(d, finished)
        PROVE  Counted(d, finished')
    BY <1>1, CountedLater DEF SessionsOnlyGrow
  <1>2. /\ main \in Unparsable \/ Counted(main, finished')
        /\ tmp \in Unparsable \/ Counted(tmp, finished')
    BY <1>1 DEF StoreInv, FilesOK, StoreCounted, FilesCounted
  <1>3. ASSUME NEW t \in Thread
        PROVE  /\ CallCounted(call[t], finished')
               /\ pc[t] \in {"parse", "open", "write"} =>
                    Counted(text[t], finished')
               /\ pc[t] = "done" /\ call[t].op = "load" =>
                    Counted(text[t], finished')
               /\ pc[t] \in {"promote", "save", "open", "write", "rename",
                             "resume"} =>
                    Counted(data[ProcOf[t]], finished')
    <2>1. ThreadOK(t) /\ ThreadCounted(t)
      BY DEF StoreInv, StoreCounted
    <2> QED BY <1>1, <2>1, CallCountedLater DEF ThreadOK, ThreadCounted
  <1> QED BY <1>2, <1>3

LEMMA BeginKeepsCounts ==
  ASSUME StoreInv, StoreCounted, SessionsOnlyGrow,
         NEW t \in Thread, NEW c, CallCounted(c, finished'), Begin(t, c)
  PROVE  StoreCounted'
PROOF
  <1> USE DEF Begin, Goto
  <1>1. FilesCounted'
    BY StoreCountedLater DEF FilesCounted
  <1>2. ASSUME NEW u \in Thread PROVE ThreadCounted(u)'
    <2>1. CASE u = t
      BY <2>1 DEF ThreadCounted, StoreInv
    <2>2. CASE u # t
      BY <2>2, StoreCountedLater DEF ThreadCounted, StoreInv
    <2> QED BY <2>1, <2>2
  <1> QED BY <1>1, <1>2 DEF StoreCounted

LEMMA EndKeepsCounts ==
  ASSUME StoreInv, StoreCounted, finished' = finished, NEW t \in Thread, End(t),
         \/ data' = data
         \/ /\ data' = [data EXCEPT ![ProcOf[t]] = NoData]
            /\ \A u \in Thread \ {t} : ProcOf[u] # ProcOf[t]
  PROVE  StoreCounted'
PROOF
  <1> USE DEF End, Goto, SetText
  <1>1. FilesCounted'
    BY DEF StoreCounted, FilesCounted
  <1>2. \A u \in Thread \ {t} : data'[ProcOf[u]] = data[ProcOf[u]]
    BY JobStoreAssumption DEF StoreInv
  <1>3. ASSUME NEW u \in Thread PROVE ThreadCounted(u)'
    <2>1. ThreadCounted(u)
      BY DEF StoreCounted
    <2>2. CASE u = t
      BY <2>2 DEF ThreadCounted, CallCounted, NoCall, StoreInv
    <2>3. CASE u # t
      BY <1>2, <2>1, <2>3 DEF ThreadCounted, StoreInv
    <2> QED BY <2>2, <2>3
  <1> QED BY <1>1, <1>3 DEF StoreCounted

LEMMA ProcessDiesKeepsCounts ==
  ASSUME StoreInv, StoreCounted, finished' = finished,
         NEW p \in Process, ProcessDies(p)
  PROVE  StoreCounted'
PROOF
  <1>1. FilesCounted'
    BY DEF StoreCounted, FilesCounted, ProcessDies
  <1>2. ASSUME NEW u \in Thread PROVE ThreadCounted(u)'
    <2>1. ThreadCounted(u)
      BY DEF StoreCounted
    <2>2. CASE ProcOf[u] = p
      BY <2>2 DEF ThreadCounted, CallCounted, NoCall, ProcessDies
    <2>3. CASE ProcOf[u] # p
      <3>1. data'[ProcOf[u]] = data[ProcOf[u]]
        BY <2>3, JobStoreAssumption DEF StoreInv, ProcessDies
      <3> QED BY <2>1, <2>3, <3>1 DEF ThreadCounted, ProcessDies
    <2> QED BY <2>2, <2>3
  <1> QED BY <1>1, <1>2 DEF StoreCounted

LEMMA StoreCountedUnchanged ==
  ASSUME StoreCounted, finished' = finished,
         UNCHANGED <<main, tmp, pc, call, text>>,
         \A u \in Thread : data'[ProcOf[u]] = data[ProcOf[u]] \/ pc[u] = "idle"
  PROVE  StoreCounted'
  BY DEF StoreCounted, FilesCounted, ThreadCounted

(* A tick moves: what the others hold, and what the commands hold, was      *)
(* counted and still is.                                                    *)
LEMMA TicksCountedByTick ==
  ASSUME TypeInv, TicksCounted, SessionsOnlyGrow, NEW t \in Tick,
         NEW l, tick' = [tick EXCEPT ![t] = l],
         due' = [due EXCEPT ![t] = due'[t]], Counted(due'[t], finished'),
         cur' = [cur EXCEPT ![t] = cur'[t]],
         l \in {"hook", "advance", "session"} =>
           cur'[t].job.runs <= finished'[cur'[t].id]
  PROVE  TicksCounted'
PROOF
  <1> SUFFICES ASSUME NEW u \in Tick
               PROVE  /\ Counted(due'[u], finished')
                      /\ tick'[u] \in {"hook", "advance", "session"} =>
                           cur'[u].job.runs <= finished'[cur'[u].id]
    BY DEF TicksCounted
  <1>1. CASE u = t
    BY <1>1 DEF TypeInv, ServiceTypes
  <1>2. CASE u # t
    <2>1. due'[u] = due[u] /\ tick'[u] = tick[u] /\ cur'[u] = cur[u]
      BY <1>2 DEF TypeInv, ServiceTypes
    <2>2. Counted(due[u], finished')
      BY CountedLater DEF TypeInv, ServiceTypes, TicksCounted, SessionsOnlyGrow
    <2>3. ASSUME tick[u] \in {"hook", "advance", "session"}
          PROVE  cur[u].job.runs <= finished'[cur[u].id]
      <3>1. cur[u].job.runs \in Nat /\ cur[u].id \in JobId
        BY <2>3 DEF TypeInv, ServiceTypes, HasJob, Job
      <3>2. /\ cur[u].job.runs <= finished[cur[u].id]
            /\ finished[cur[u].id] <= finished'[cur[u].id]
            /\ finished[cur[u].id] \in Nat /\ finished'[cur[u].id] \in Nat
        BY <2>3, <3>1 DEF TicksCounted, SessionsOnlyGrow
      <3> QED BY <3>1, <3>2
    <2> QED BY <2>1, <2>2, <2>3
  <1> QED BY <1>1, <1>2

LEMMA TicksCountedByOthers ==
  ASSUME TypeInv, TicksCounted, SessionsOnlyGrow, UNCHANGED svcVars
  PROVE  TicksCounted'
PROOF
  <1> SUFFICES ASSUME NEW t \in Tick
               PROVE  /\ Counted(due[t], finished')
                      /\ tick[t] \in {"hook", "advance", "session"} =>
                           cur[t].job.runs <= finished'[cur[t].id]
    BY DEF TicksCounted, svcVars
  <1>1. Counted(due[t], finished')
    BY CountedLater DEF TypeInv, ServiceTypes, TicksCounted, SessionsOnlyGrow
  <1>2. ASSUME tick[t] \in {"hook", "advance", "session"}
        PROVE  cur[t].job.runs <= finished'[cur[t].id]
    <2>1. cur[t].job.runs \in Nat /\ cur[t].id \in JobId
      BY <1>2 DEF TypeInv, ServiceTypes, HasJob, Job
    <2>2. /\ cur[t].job.runs <= finished[cur[t].id]
          /\ finished[cur[t].id] <= finished'[cur[t].id]
          /\ finished[cur[t].id] \in Nat /\ finished'[cur[t].id] \in Nat
      BY <1>2, <2>1 DEF TicksCounted, SessionsOnlyGrow
    <2> QED BY <2>1, <2>2
  <1> QED BY <1>1, <1>2

LEMMA CliCountedByStep ==
  ASSUME TypeInv, CliCounted, SessionsOnlyGrow,
         NEW moved \in SUBSET Cli,
         \A u \in Cli \ moved : cli'[u] = cli[u] /\ target'[u] = target[u],
         \A u \in moved : cli'[u] = "runSession" =>
                            target'[u].job.runs <= finished'[target'[u].id]
  PROVE  CliCounted'
PROOF
  <1> SUFFICES ASSUME NEW u \in Cli \ moved, cli[u] = "runSession"
               PROVE  target[u].job.runs <= finished'[target[u].id]
    BY DEF CliCounted
  <1>1. target[u].job.runs \in Nat /\ target[u].id \in JobId
    BY DEF TypeInv, CliTypes, HasJob, Job
  <1>2. /\ target[u].job.runs <= finished[target[u].id]
        /\ finished[target[u].id] <= finished'[target[u].id]
        /\ finished[target[u].id] \in Nat /\ finished'[target[u].id] \in Nat
    BY <1>1 DEF CliCounted, SessionsOnlyGrow
  <1> QED BY <1>1, <1>2

(* A session of job id, whose copy said r runs, finishes. *)
LEMMA SessionFinishes ==
  ASSUME CountTypes, NEW id \in JobId, NEW r \in Nat, r <= finished[id],
         finished' = [finished EXCEPT ![id] = @ + 1]
  PROVE  SessionsOnlyGrow /\ r + 1 <= finished'[id]
  BY DEF CountTypes, SessionsOnlyGrow

LEMMA NothingFinishes ==
  ASSUME CountTypes, finished' = finished
  PROVE  SessionsOnlyGrow
  BY DEF CountTypes, SessionsOnlyGrow

LEMMA DaemonGoneKeepsCounts ==
  ASSUME CountInv, DaemonGone
  PROVE  StoreCounted' /\ TicksCounted' /\ CliCounted'
PROOF
  <1>1. StoreInv /\ CountTypes /\ finished' = finished
    BY DEF CountInv, TypeInv, DaemonGone, ghosts
  <1>2. StoreCounted'
    BY <1>1, ProcessDiesKeepsCounts, ThreadsSplit DEF CountInv, DaemonGone
  <1>3. TicksCounted'
    BY DEF DaemonGone, TicksCounted, Counted, NoJobs
  <1>4. CliCounted'
    BY <1>1 DEF DaemonGone, cliVars, CountInv, CliCounted
  <1> QED BY <1>2, <1>3, <1>4

LEMMA CountsKeptByTick ==
  ASSUME CountInv, NEW t \in Tick, Start(t) \/ TickStep(t)
  PROVE  StoreCounted' /\ TicksCounted' /\ CliCounted'
PROOF
  <1>1. /\ TypeInv /\ StoreInv /\ ServiceTypes /\ CountTypes /\ t \in Thread
        /\ StoreCounted /\ TicksCounted /\ CliCounted /\ Counted(due[t], finished)
    BY ThreadsSplit DEF CountInv, TypeInv, TicksCounted
  <1>2. ASSUME SessionsOnlyGrow, UNCHANGED cliVars PROVE CliCounted'
    <2>1. PICK moved \in SUBSET Cli : moved = {}
      OBVIOUS
    <2> QED BY <1>1, <1>2, <2>1, CliCountedByStep DEF cliVars
  <1>3. /\ CallCounted([op |-> "load"], finished')
        /\ \A id, x : CallCounted([op |-> "advance", id |-> id, next |-> x],
                                  finished')
    BY DEF CallCounted
  <1>4. ASSUME NEW id, NEW job, TakeSlot(t, id, job), finished' = finished
        PROVE  StoreCounted'
    <2>1. PICK c : c = [op |-> "advance", id |-> id,
                        next |-> ComputeNextRunAtMs(job.schedule, now)]
      OBVIOUS
    <2>2. Begin(t, c)
      BY <1>4, <2>1 DEF TakeSlot
    <2>3. CallCounted(c, finished')
      BY <1>3, <2>1
    <2> QED BY <1>1, <1>4, <2>2, <2>3, NothingFinishes, BeginKeepsCounts
  <1>5. ASSUME NEW id \in DOMAIN due[t], Visit(t, id), finished' = finished
        PROVE  /\ cur' = [cur EXCEPT ![t] = cur'[t]]
               /\ cur'[t].job.runs <= finished'[cur'[t].id]
               /\ due' = [due EXCEPT ![t] = due'[t]]
               /\ Counted(due'[t], finished')
    <2>1. /\ cur' = [cur EXCEPT ![t] = cur'[t]]
          /\ cur'[t] = [id |-> id, job |-> due[t][id]]
      BY <1>1, <1>5 DEF Visit, ServiceTypes
    <2>2. PICK S \in SUBSET DOMAIN due[t] :
            due' = [due EXCEPT ![t] = [i \in S |-> due[t][i]]]
      <3>1. PICK P \in SUBSET (DOMAIN due[t] \ Eligible(t)) :
              due' = [due EXCEPT ![t] =
                        [i \in DOMAIN due[t] \ (P \cup {id}) |-> due[t][i]]]
        BY <1>5 DEF Visit
      <3> QED BY <3>1
    <2>3. due' = [due EXCEPT ![t] = due'[t]] /\ Counted(due'[t], finished')
      BY <1>1, <1>5, <2>2 DEF ServiceTypes, Counted
    <2> QED BY <1>1, <1>5, <2>1, <2>3 DEF Counted
  <1> USE DEF TickAt, ghosts
  <1>6. CASE Start(t) \/ TickBegins(t)
    <2>1. PICK c : c = [op |-> "load"]
      OBVIOUS
    <2>2. Begin(t, c) /\ CallCounted(c, finished')
      BY <1>3, <1>6, <2>1 DEF Start, TickBegins
    <2>3. SessionsOnlyGrow /\ UNCHANGED <<due, cur, cliVars, finished>>
      BY <1>1, <1>6, NothingFinishes DEF Start, TickBegins
    <2>4. PICK l \in {"start", "load"} : tick' = [tick EXCEPT ![t] = l]
      BY <1>6 DEF Start, TickBegins
    <2>5. TicksCounted'
      BY <1>1, <2>3, <2>4, TicksCountedByTick DEF ServiceTypes
    <2> QED BY <1>1, <1>2, <2>2, <2>3, <2>5, BeginKeepsCounts
  <1>7. CASE Started(t)
    <2>1. StoreCounted' /\ SessionsOnlyGrow
      BY <1>1, <1>7, EndKeepsCounts, NothingFinishes DEF Started
    <2>2. TicksCounted'
      BY <1>1, <1>7, <2>1, TicksCountedByTick DEF Started, ServiceTypes
    <2> QED BY <1>2, <1>7, <2>1, <2>2 DEF Started
  <1>8. CASE TickLoaded(t)
    <2>1. StoreCounted' /\ SessionsOnlyGrow
      BY <1>1, <1>8, EndKeepsCounts, NothingFinishes DEF TickLoaded
    <2>2. call[t].op = "load" /\ ThreadCounted(t)
      BY <1>1, <1>8 DEF TickLoaded, TypeInv, LoadsAreLoads, StoreCounted
    <2>3. Counted(text[t], finished)
      BY <1>8, <2>2 DEF TickLoaded, ThreadCounted
    <2>4. due'[t] = [id \in {j \in DueJobs(text[t], now) : finished[j] < MaxRuns}
                       |-> text[t][id]]
      BY <1>1, <1>8 DEF TickLoaded, ServiceTypes
    <2>5. Counted(due'[t], finished')
      BY <1>8, <2>3, <2>4 DEF TickLoaded, Counted, DueJobs
    <2>6. /\ due' = [due EXCEPT ![t] = due'[t]]
          /\ cur' = [cur EXCEPT ![t] = cur'[t]]
      BY <1>1, <1>8 DEF TickLoaded, ServiceTypes
    <2>7. TicksCounted'
      BY <1>1, <1>8, <2>1, <2>5, <2>6, TicksCountedByTick DEF TickLoaded
    <2> QED BY <1>2, <1>8, <2>1, <2>7 DEF TickLoaded
  <1>9. CASE StartJob(t)
    <2>1. PICK id \in DOMAIN due[t] : Visit(t, id) /\ TakeSlot(t, id, due[t][id])
      BY <1>9 DEF StartJob
    <2>2. finished' = finished /\ SessionsOnlyGrow /\ UNCHANGED cliVars
      BY <1>1, <1>9, NothingFinishes DEF StartJob
    <2>3. TicksCounted'
      BY <1>1, <1>5, <2>1, <2>2, TicksCountedByTick DEF TakeSlot
    <2> QED BY <1>2, <1>4, <2>1, <2>2, <2>3
  <1>10. CASE AskBeforeRun(t)
    <2>1. PICK id \in DOMAIN due[t] : Visit(t, id)
      BY <1>10 DEF AskBeforeRun
    <2>2. finished' = finished /\ SessionsOnlyGrow /\ UNCHANGED cliVars
      BY <1>1, <1>10, NothingFinishes DEF AskBeforeRun
    <2>3. StoreCounted'
      BY <1>1, <1>10, StoreCountedUnchanged DEF AskBeforeRun, storeVars
    <2>4. TicksCounted'
      BY <1>1, <1>5, <1>10, <2>1, <2>2, TicksCountedByTick DEF AskBeforeRun
    <2> QED BY <1>2, <2>2, <2>3, <2>4
  <1>11. CASE BeforeRunAgrees(t)
    <2>1. finished' = finished /\ SessionsOnlyGrow /\ UNCHANGED cliVars
      BY <1>1, <1>11, NothingFinishes DEF BeforeRunAgrees
    <2>2. StoreCounted'
      BY <1>4, <1>11, <2>1 DEF BeforeRunAgrees
    <2>3. TicksCounted'
      BY <1>1, <1>11, <2>1, TicksCountedByTick
         DEF BeforeRunAgrees, TakeSlot, TicksCounted, ServiceTypes
    <2> QED BY <1>2, <2>1, <2>2, <2>3
  <1>12. CASE BeforeRunDeclines(t) \/ TickEnds(t)
    <2>1. finished' = finished /\ SessionsOnlyGrow /\ UNCHANGED cliVars
      BY <1>1, <1>12, NothingFinishes DEF BeforeRunDeclines, TickEnds
    <2>2. StoreCounted'
      BY <1>1, <1>12, StoreCountedUnchanged
         DEF BeforeRunDeclines, TickEnds, storeVars
    <2>3. Counted(NoJobs, finished')
      BY DEF Counted, NoJobs
    <2>4. /\ due' = [due EXCEPT ![t] = due'[t]] /\ Counted(due'[t], finished')
          /\ cur' = [cur EXCEPT ![t] = cur'[t]]
      BY <1>1, <1>12, <2>1, <2>3 DEF BeforeRunDeclines, TickEnds, ServiceTypes
    <2>5. PICK l \in {"loop", "off"} : tick' = [tick EXCEPT ![t] = l]
      BY <1>12 DEF BeforeRunDeclines, TickEnds
    <2>6. TicksCounted'
      BY <1>1, <2>1, <2>4, <2>5, TicksCountedByTick
    <2> QED BY <1>2, <2>1, <2>2, <2>6
  <1>13. CASE SessionStarts(t)
    <2>1. StoreCounted' /\ SessionsOnlyGrow
      BY <1>1, <1>13, EndKeepsCounts, NothingFinishes DEF SessionStarts
    <2>2. TicksCounted'
      BY <1>1, <1>13, <2>1, TicksCountedByTick
         DEF SessionStarts, TicksCounted, ServiceTypes
    <2> QED BY <1>2, <1>13, <2>1, <2>2 DEF SessionStarts
  <1>14. CASE SessionEnds(t)
    <2>1. /\ cur[t].id \in JobId /\ cur[t].job.runs \in Nat
          /\ cur[t].job.runs <= finished[cur[t].id]
      BY <1>1, <1>14 DEF SessionEnds, ServiceTypes, HasJob, Job, TicksCounted
    <2>2. SessionsOnlyGrow /\ cur[t].job.runs + 1 <= finished'[cur[t].id]
      BY <1>1, <1>14, <2>1, SessionFinishes DEF SessionEnds
    <2>3. PICK c : c = [op |-> "record", id |-> cur[t].id,
                        runs |-> cur[t].job.runs + 1]
      OBVIOUS
    <2>4. Begin(t, c) /\ CallCounted(c, finished')
      BY <1>14, <2>2, <2>3 DEF SessionEnds, CallCounted
    <2>5. StoreCounted'
      BY <1>1, <2>2, <2>4, BeginKeepsCounts
    <2>6. Counted(due[t], finished')
      BY <1>1, <2>2, CountedLater DEF ServiceTypes, SessionsOnlyGrow
    <2>7. TicksCounted'
      BY <1>1, <1>14, <2>2, <2>6, TicksCountedByTick DEF SessionEnds, ServiceTypes
    <2> QED BY <1>2, <1>14, <2>2, <2>5, <2>7 DEF SessionEnds
  <1>15. CASE Recorded(t) \/ TickFails(t)
    <2>1. finished' = finished /\ SessionsOnlyGrow /\ UNCHANGED cliVars
      BY <1>1, <1>15, NothingFinishes DEF Recorded, TickFails
    <2>2. StoreCounted'
      BY <1>1, <1>15, <2>1, EndKeepsCounts DEF Recorded, TickFails
    <2>3. Counted(NoJobs, finished')
      BY DEF Counted, NoJobs
    <2>4. /\ due' = [due EXCEPT ![t] = due'[t]] /\ Counted(due'[t], finished')
          /\ cur' = [cur EXCEPT ![t] = cur'[t]]
      BY <1>1, <1>15, <2>1, <2>3 DEF Recorded, TickFails, ServiceTypes
    <2>5. PICK l \in {"loop", "off"} : tick' = [tick EXCEPT ![t] = l]
      BY <1>15 DEF Recorded, TickFails
    <2>6. TicksCounted'
      BY <1>1, <2>1, <2>4, <2>5, TicksCountedByTick
    <2> QED BY <1>2, <2>1, <2>2, <2>6
  <1>16. CASE StartThrows(t)
    BY <1>16, DaemonGoneKeepsCounts DEF StartThrows
  <1> QED
    BY <1>6, <1>7, <1>8, <1>9, <1>10, <1>11, <1>12, <1>13, <1>14, <1>15, <1>16
       DEF TickStep

LEMMA CountsKeptByCli ==
  ASSUME CountInv, NEW u \in Cli, CliStep(u)
  PROVE  StoreCounted' /\ TicksCounted' /\ CliCounted'
PROOF
  <1>1. /\ TypeInv /\ StoreInv /\ CliTypes /\ CountTypes /\ u \in Thread
        /\ StoreCounted /\ TicksCounted /\ CliCounted
        /\ \A t \in Thread \ {u} : ProcOf[t] # ProcOf[u]
    BY ThreadsSplit DEF CountInv, TypeInv
  <1>2. UNCHANGED svcVars
    BY DEF CliStep, Command, CommandEnds, Run, RunStarts, RunFails, RunThrows,
           RunEnds, CliExits
  <1>3. ASSUME SessionsOnlyGrow, NEW l, cli' = [cli EXCEPT ![u] = l],
               \A v \in Cli \ {u} : target'[v] = target[v],
               l = "runSession" =>
                 target'[u].job.runs <= finished'[target'[u].id]
        PROVE  TicksCounted' /\ CliCounted'
    <2>1. PICK moved \in SUBSET Cli : moved = {u}
      OBVIOUS
    <2>2. cli'[u] = l /\ \A v \in Cli \ moved : cli'[v] = cli[v]
      BY <1>1, <1>3, <2>1 DEF CliTypes
    <2>3. CliCounted'
      BY <1>1, <1>3, <2>1, <2>2, CliCountedByStep
    <2> QED BY <1>1, <1>2, <1>3, <2>3, TicksCountedByOthers
  <1> USE DEF CliAt, ghosts
  <1>4. ASSUME CliExits(u) PROVE TicksCounted' /\ CliCounted'
    <2>1. finished' = finished /\ SessionsOnlyGrow
      BY <1>1, <1>4, NothingFinishes DEF CliExits
    <2>2. \A v \in Cli \ {u} : target'[v] = target[v]
      BY <1>1, <1>4 DEF CliExits, CliTypes
    <2> QED BY <1>3, <1>4, <2>1, <2>2 DEF CliExits
  <1>5. CASE Command(u)
    <2>1. PICK c \in OneCall : Begin(u, c)
      BY <1>5 DEF Command
    <2>2. c.op # "record"
      BY DEF OneCall
    <2>3. SessionsOnlyGrow /\ CallCounted(c, finished')
      BY <1>1, <1>5, <2>2, NothingFinishes DEF Command, CallCounted
    <2>4. StoreCounted'
      BY <1>1, <2>1, <2>3, BeginKeepsCounts
    <2> QED BY <1>3, <1>5, <2>3, <2>4 DEF Command
  <1>6. CASE CommandEnds(u) \/ RunFails(u)
    <2>1. End(u) /\ CliExits(u)
      BY <1>6 DEF CommandEnds, RunFails
    <2>2. StoreCounted'
      BY <1>1, <2>1, EndKeepsCounts DEF CliExits
    <2> QED BY <1>4, <2>1, <2>2
  <1>7. ASSUME NEW id \in issued, Run(u, id)
        PROVE  StoreCounted' /\ TicksCounted' /\ CliCounted'
    <2>1. PICK c : c = [op |-> "load"]
      OBVIOUS
    <2>2. Begin(u, c) /\ CallCounted(c, finished') /\ SessionsOnlyGrow
      BY <1>1, <1>7, <2>1, NothingFinishes DEF Run, CallCounted
    <2>3. StoreCounted'
      BY <1>1, <2>2, BeginKeepsCounts
    <2>4. \A v \in Cli \ {u} : target'[v] = target[v]
      BY <1>1, <1>7 DEF Run, CliTypes
    <2> QED BY <1>3, <1>7, <2>2, <2>3, <2>4 DEF Run
  <1>8. CASE RunStarts(u)
    <2>1. finished' = finished /\ SessionsOnlyGrow /\ StoreCounted'
      BY <1>1, <1>8, EndKeepsCounts, NothingFinishes DEF RunStarts
    <2>2. call[u].op = "load" /\ ThreadCounted(u)
      BY <1>1, <1>8 DEF RunStarts, TypeInv, LoadsAreLoads, StoreCounted
    <2>3. Counted(text[u], finished)
      BY <1>8, <2>2 DEF RunStarts, ThreadCounted
    <2>4. /\ target'[u] = [id |-> target[u].id, job |-> text[u][target[u].id]]
          /\ \A v \in Cli \ {u} : target'[v] = target[v]
      BY <1>1, <1>8 DEF RunStarts, CliTypes
    <2>5. target'[u].job.runs <= finished'[target'[u].id]
      BY <1>8, <2>1, <2>3, <2>4 DEF RunStarts, Counted
    <2> QED BY <1>3, <1>8, <2>1, <2>4, <2>5 DEF RunStarts
  <1>9. CASE RunThrows(u)
    <2>1. pc[u] = "idle" /\ CliExits(u) /\ finished' = finished
      BY <1>1, <1>9 DEF RunThrows, CliExits, TypeInv, CallsAreAwaited
    <2>2. \A t \in Thread : data'[ProcOf[t]] = data[ProcOf[t]] \/ pc[t] = "idle"
      BY <1>1, <2>1, JobStoreAssumption DEF CliExits, StoreInv
    <2>3. StoreCounted'
      BY <1>1, <1>9, <2>1, <2>2, StoreCountedUnchanged DEF RunThrows
    <2> QED BY <1>4, <2>1, <2>3
  <1>10. CASE RunEnds(u)
    <2>1. /\ target[u].id \in JobId /\ target[u].job.runs \in Nat
          /\ target[u].job.runs <= finished[target[u].id]
      BY <1>1, <1>10 DEF RunEnds, CliTypes, HasJob, Job, CliCounted
    <2>2. SessionsOnlyGrow /\ target[u].job.runs + 1 <= finished'[target[u].id]
      BY <1>1, <1>10, <2>1, SessionFinishes DEF RunEnds
    <2>3. PICK c : c = [op |-> "record", id |-> target[u].id,
                        runs |-> target[u].job.runs + 1]
      OBVIOUS
    <2>4. Begin(u, c) /\ CallCounted(c, finished')
      BY <1>10, <2>2, <2>3 DEF RunEnds, CallCounted
    <2>5. StoreCounted'
      BY <1>1, <2>2, <2>4, BeginKeepsCounts
    <2> QED BY <1>3, <1>10, <2>2, <2>5 DEF RunEnds
  <1> QED
    BY <1>5, <1>6, <1>7, <1>8, <1>9, <1>10 DEF CliStep

-----------------------------------------------------------------------------
(* With a list that starts fresh, no copy of a job ever claims more runs    *)
(* than its sessions, whatever overlaps, fails, crashes or is lost.         *)
THEOREM CopiesAreCounted ==
  ASSUME FreshLists
  PROVE  Spec => []CountInv
PROOF
  <1>1. Init => CountInv
    <2> SUFFICES ASSUME Init PROVE CountInv
      OBVIOUS
    <2>1. TypeInv
      BY TypeInvInit
    <2>2. FirstMain = NoFile \/ Counted(FirstMain, finished)
      BY <2>1, JobStoreAssumption, FreshIsCounted
         DEF FreshLists, TypeInv, CountTypes
    <2>3. FilesCounted
      BY <2>2 DEF Init, StoreInit, FilesCounted, Unparsable
    <2>4. \A t \in Thread : ThreadCounted(t)
      BY DEF Init, StoreInit, ThreadCounted, CallCounted, NoCall
    <2>5. TicksCounted /\ CliCounted
      BY DEF Init, TicksCounted, CliCounted, Counted, NoJobs
    <2> QED BY <2>1, <2>3, <2>4, <2>5 DEF CountInv, StoreCounted
  <1>2. CountInv /\ [Next]_vars => CountInv'
    <2> SUFFICES ASSUME CountInv, [Next]_vars PROVE CountInv'
      OBVIOUS
    <2>1. TypeInv'
      BY TypeInvInductive DEF CountInv
    <2>2. /\ TypeInv /\ StoreInv /\ CountTypes
          /\ StoreCounted /\ TicksCounted /\ CliCounted
      BY DEF CountInv, TypeInv
    <2>3. ASSUME finished' = finished, UNCHANGED <<svcVars, cliVars>>
          PROVE  TicksCounted' /\ CliCounted'
      <3>1. SessionsOnlyGrow
        BY <2>2, <2>3, NothingFinishes
      <3>2. TicksCounted'
        BY <2>2, <2>3, <3>1, TicksCountedByOthers
      <3> QED BY <2>2, <2>3, <3>2 DEF cliVars, CliCounted
    <2>4. ASSUME NEW t \in Tick, Start(t) \/ TickStep(t) PROVE CountInv'
      BY <2>1, <2>4, CountsKeptByTick DEF CountInv
    <2>5. ASSUME NEW u \in Cli, CliStep(u) PROVE CountInv'
      BY <2>1, <2>5, CountsKeptByCli DEF CountInv
    <2>6. ASSUME NEW t \in Thread, StoreSteps(t) PROVE CountInv'
      <3>1. finished' = finished /\ UNCHANGED <<svcVars, cliVars>>
        BY <2>6 DEF StoreSteps, ghosts
      <3>2. StoreCounted'
        BY <2>2, <2>6, <3>1, StoreStepKeepsCounts DEF StoreSteps, CountTypes
      <3> QED BY <2>1, <2>3, <3>1, <3>2 DEF CountInv
    <2>7. CASE Stop
      <3>1. StoreCounted'
        BY <2>2, <2>7, StoreCountedUnchanged DEF Stop, storeVars, ghosts
      <3>2. TicksCounted' /\ CliCounted'
        BY <2>2, <2>7 DEF Stop, cliVars, ghosts, TicksCounted, CliCounted
      <3> QED BY <2>1, <3>1, <3>2 DEF CountInv
    <2>8. CASE Exit
      BY <2>1, <2>8, DaemonGoneKeepsCounts DEF Exit, CountInv
    <2>9. CASE ClockAdvances \/ UNCHANGED vars
      <3>1. /\ finished' = finished /\ UNCHANGED <<svcVars, cliVars>>
            /\ UNCHANGED <<main, tmp, data, pc, call, text>>
        BY <2>9 DEF ClockAdvances, vars, storeVars, ghosts
      <3>2. StoreCounted'
        BY <2>2, <3>1, StoreCountedUnchanged
      <3> QED BY <2>1, <2>3, <3>1, <3>2 DEF CountInv
    <2> QED BY <2>4, <2>5, <2>6, <2>7, <2>8, <2>9 DEF Next
  <1> QED BY <1>1, <1>2, PTL DEF Spec

(* The run counts in the files never exceed the sessions there were, for    *)
(* any number of overlapping ticks, commands, crashes and lost updates.     *)
THEOREM RunCountsNeverOverstate ==
  ASSUME FreshLists
  PROVE  Spec => []RunCountNeverOverstates
PROOF
  <1>1. CountInv => RunCountNeverOverstates
    BY DEF CountInv, StoreCounted, FilesCounted, Counted, RunCountNeverOverstates
  <1> QED BY <1>1, CopiesAreCounted, PTL

-----------------------------------------------------------------------------
(***************************************************************************)
(* One tick at a time and no CLI command, for any jobs, names, limit and   *)
(* crashes, with or without an onBeforeRun hook: the tick is then the only *)
(* caller of the list (SoleInv of JobStore_proofs), no save of its can     *)
(* fail, and what it has loaded stays true while it goes through it.       *)
(***************************************************************************)

(* The list holds this job, due and with the fingerprint of its schedule.   *)
Listed(id, job) ==
  /\ main # NoFile /\ id \in DOMAIN main /\ main[id] = job
  /\ job.enabled /\ job.next # NoTime /\ job.next <= now
  /\ job.fingerprint = ScheduleFingerprint(job.schedule)

SlotsExact(t) ==
  runningJobs = IF tick[t] \in {"advance", "session"}
                THEN {NameOf[cur[t].id]} ELSE {}

CallMatches(t) ==
  tick[t] \in {"advance", "record"} =>
    /\ pc[t] # "idle" /\ call[t].op = tick[t] /\ call[t].id = cur[t].id

(* What the tick has still to visit is what the list holds, because every   *)
(* save in between is of the job it is at, which it visits no more.         *)
DueListed(t) ==
  /\ \A id \in DOMAIN due[t] : Listed(id, due[t][id])
  /\ tick[t] \in {"hook", "advance", "session", "record"} =>
       cur[t].id \notin DOMAIN due[t]
  /\ tick[t] = "hook" => Listed(cur[t].id, cur[t].job)
  /\ tick[t] = "advance" => main # NoFile

LoopInv(t) ==
  TypeInv /\ SoleInv(t) /\ SlotsExact(t) /\ CallMatches(t) /\ DueListed(t)

LEMMA SerialThreads ==
  ASSUME NEW t, Tick = {t}, Cli = {}
  PROVE  Thread = {t} /\ t \in Tick /\ t \in Thread /\ ProcOf[t] = Daemon
BY SchedulerAssumption

LEMMA StaysListed ==
  ASSUME NEW id, NEW job \in Job, Listed(id, job), now \in Nat,
         main' = main, now' = now \/ now' = now + 1
  PROVE  Listed(id, job)'
BY DEF Listed, Job, Time

(* A step of the tick's own calls leaves the other due jobs alone: a load   *)
(* computes anew only what is edited or has no time, and the two patches of *)
(* updateState are of the job the tick is at.                               *)
LEMMA ListedThroughStep ==
  ASSUME NEW t, Tick = {t}, Cli = {}, TypeInv, SoleInv(t), StoreStep(t),
         call[t].op \in {"load", "advance", "record"},
         NEW id, NEW job \in Job, Listed(id, job),
         call[t].op # "load" => call[t].id # id
  PROVE  Listed(id, job)' /\ main' # NoFile
PROOF
  <1>1. /\ t \in Thread /\ Thread = {t} /\ StoreInv /\ StoreEffect(t)
        /\ now' = now /\ pc[t] # "idle" /\ call[t] \in Call
    BY SerialThreads, SoleStep, CallControl
       DEF TypeInv, StoreStep, ReadMain, Parse, ReadTmp, Promote, Legacy,
           Stringify, Open, Write, Rename, Resume, StoreInv, ThreadOK
  <1>2. main # NoFile /\ IsStore(main) /\ main \notin Unparsable
    BY StoresParse DEF Listed, SoleInv
  <1>3. /\ main' # NoFile /\ main' \notin Unparsable /\ IsStore(main')
        /\ Durable = main /\ Durable' = main'
    BY <1>1, <1>2, StoresParse DEF StoreEffect, Durable
  <1>4. PICK d, e : d = main /\ e = main'
    OBVIOUS
  <1>5. PICK c \in Call : c = call[t]
    BY <1>1
  <1>6. id \in DOMAIN e /\ e[id] = job
    <2>1. CASE e = d
      BY <1>4, <2>1 DEF Listed
    <2>2. ASSUME NEW m, e = Reconcile(d, m) PROVE id \in DOMAIN e /\ e[id] = job
      BY <1>4, <2>2 DEF Reconcile, Reconciled, NeedsReconcile, Listed
    <2>3. ASSUME NEW m, e = Apply(c, d, m), ~ SavesNothing(c, d)
          PROVE  id \in DOMAIN e /\ e[id] = job
      <3>1. MakesOf(c, d, m, e)
        BY <1>2, <1>4, <2>3, AppliedJobs
      <3>2. c.op \in {"advance", "record"} /\ c.id # id
        BY <1>5, <3>1 DEF MakesOf
      <3> QED BY <1>4, <3>1, <3>2 DEF MakesOf, Listed
    <2> QED
      BY <1>1, <1>3, <1>4, <1>5, <2>1, <2>2, <2>3 DEF StoreEffect, ListEffect
  <1> QED BY <1>1, <1>3, <1>4, <1>6 DEF Listed

LEMMA LoopInit ==
  ASSUME NEW t, Tick = {t}, Cli = {}, Init PROVE LoopInv(t)
PROOF
  <1>1. TypeInv /\ SoleInv(t) /\ t \in Tick
    BY TypeInvInit, SoleInit, SerialThreads DEF Init
  <1>2. tick[t] = "off" /\ DOMAIN due[t] = {} /\ runningJobs = {}
    BY <1>1 DEF Init, NoJobs
  <1> QED BY <1>1, <1>2 DEF LoopInv, SlotsExact, CallMatches, DueListed

LEMMA SoleKept ==
  ASSUME NEW t, Tick = {t}, Cli = {}, TypeInv, SoleInv(t), [Next]_vars
  PROVE  SoleInv(t)'
PROOF
  <1>1. StoreInv /\ t \in Tick /\ t \in Thread /\ Thread = {t} /\ ProcOf[t] = Daemon
    BY SerialThreads DEF TypeInv
  <1>2. ASSUME NEW c, Begin(t, c) PROVE SoleInv(t)'
    BY <1>1, <1>2, SoleBegin
  <1>3. ASSUME End(t) PROVE SoleInv(t)'
    BY <1>1, <1>3, SoleEnd
  <1>4. ASSUME UNCHANGED <<main, tmp, data, pc, call, text, fd, saving>>,
               now' = now \/ now' = now + 1
        PROVE  SoleInv(t)'
    BY <1>1, <1>4, SoleClock
  <1>5. CASE DaemonGone
    BY <1>1, <1>5, SoleDies DEF DaemonGone
  <1>6. CASE Start(t) \/ TickStep(t)
    BY <1>2, <1>3, <1>4, <1>5, <1>6
       DEF TickStep, Start, Started, TickBegins, TickLoaded, StartJob,
           AskBeforeRun, BeforeRunAgrees, BeforeRunDeclines, SessionStarts,
           SessionEnds, Recorded, TickEnds, TickFails, StartThrows, TakeSlot,
           storeVars
  <1>7. CASE StoreSteps(t)
    BY <1>1, <1>7, SoleStep DEF StoreSteps
  <1>8. CASE Stop \/ Exit \/ ClockAdvances \/ UNCHANGED vars
    BY <1>4, <1>5, <1>8 DEF Stop, Exit, ClockAdvances, vars, storeVars
  <1> QED BY <1>1, <1>6, <1>7, <1>8 DEF Next

(* What a visit takes out of the tick's list, and puts into cur.            *)
LEMMA VisitEffect ==
  ASSUME TypeInv, NEW t \in Tick, NEW id \in DOMAIN due[t], Visit(t, id)
  PROVE  /\ cur'[t].id = id /\ cur'[t].job = due[t][id]
         /\ \A i \in DOMAIN due'[t] : /\ i \in DOMAIN due[t] /\ i # id
                                      /\ due'[t][i] = due[t][i]
PROOF
  <1>1. t \in DOMAIN cur /\ t \in DOMAIN due
    BY DEF TypeInv, ServiceTypes
  <1>2. PICK P \in SUBSET (DOMAIN due[t] \ Eligible(t)) :
          due' = [due EXCEPT ![t] =
                    [i \in DOMAIN due[t] \ (P \cup {id}) |-> due[t][i]]]
    BY DEF Visit
  <1>3. due'[t] = [i \in DOMAIN due[t] \ (P \cup {id}) |-> due[t][i]]
    BY <1>1, <1>2
  <1> QED BY <1>1, <1>3 DEF Visit

(* The tick gets on: what has to be shown of its step.                      *)
LEMMA DueListedByTick ==
  ASSUME TypeInv, NEW t \in Tick, DueListed(t), main' = main, now' = now,
         \A i \in DOMAIN due'[t] : i \in DOMAIN due[t] /\ due'[t][i] = due[t][i],
         tick'[t] \in {"hook", "advance", "session", "record"} =>
           cur'[t].id \notin DOMAIN due'[t],
         tick'[t] = "hook" => Listed(cur'[t].id, cur'[t].job),
         tick'[t] = "advance" => main # NoFile
  PROVE  DueListed(t)'
BY DEF DueListed, Listed

(* No call of the only tick ever throws.                                    *)
LEMMA TickKeepsLoop ==
  ASSUME NEW t, Tick = {t}, Cli = {}, LoopInv(t), Start(t) \/ TickStep(t)
  PROVE  SlotsExact(t)' /\ CallMatches(t)' /\ DueListed(t)'
PROOF
  <1>1. /\ TypeInv /\ StoreInv /\ ServiceTypes /\ SoleInv(t)
        /\ t \in Tick /\ t \in Thread /\ pc[t] # "failed"
        /\ SlotsExact(t) /\ CallMatches(t) /\ DueListed(t)
        /\ t \in DOMAIN tick /\ t \in DOMAIN due /\ t \in DOMAIN cur
    BY SerialThreads DEF LoopInv, TypeInv, ServiceTypes, SoleInv, ReturnOK
  <1>2. \A c : Begin(t, c) =>
          /\ main' = main /\ now' = now /\ pc'[t] # "idle" /\ call'[t] = c
    BY <1>1, CallControl DEF Begin
  <1>3. End(t) => main' = main /\ now' = now
    BY DEF End
  <1>4. ASSUME NEW id, NEW job, TakeSlot(t, id, job)
        PROVE  /\ main' = main /\ now' = now /\ tick'[t] = "advance"
               /\ pc'[t] # "idle" /\ call'[t].op = "advance" /\ call'[t].id = id
               /\ runningJobs' = runningJobs \cup {NameOf[id]}
    BY <1>1, <1>2, <1>4 DEF TakeSlot, TickAt
  <1> USE DEF TickAt
  <1>5. CASE Start(t) \/ Started(t) \/ TickBegins(t) \/ TickEnds(t)
    <2>1. /\ main' = main /\ now' = now /\ cur' = cur /\ runningJobs' = runningJobs
          /\ tick[t] \in {"off", "start", "ready", "loop"}
          /\ tick'[t] \in {"off", "start", "ready", "load"}
          /\ due'[t] = due[t] \/ due'[t] = NoJobs
      BY <1>1, <1>2, <1>3, <1>5
         DEF Start, Started, TickBegins, TickEnds, storeVars
    <2>2. \A i \in DOMAIN due'[t] : i \in DOMAIN due[t] /\ due'[t][i] = due[t][i]
      BY <2>1 DEF NoJobs
    <2>3. DueListed(t)'
      BY <1>1, <2>1, <2>2, DueListedByTick
    <2> QED BY <1>1, <2>1, <2>3 DEF SlotsExact, CallMatches
  <1>6. CASE TickLoaded(t)
    <2>1. /\ main' = main /\ now' = now /\ cur' = cur /\ runningJobs' = runningJobs
          /\ tick[t] = "load" /\ tick'[t] = "loop" /\ pc[t] = "done"
          /\ due'[t] = [id \in {j \in DueJobs(text[t], now) : finished[j] < MaxRuns}
                          |-> text[t][id]]
      BY <1>1, <1>3, <1>6 DEF TickLoaded
    <2>2. IsStore(text[t]) /\ text[t] # NoFile
      BY <1>1, <2>1, StoresParse DEF TypeInv, LoadsAreLoads, StoreInv, ThreadOK
    <2>3. /\ text[t] = Durable /\ Current(text[t])
          /\ main # NoFile \/ DOMAIN text[t] = {}
      BY <1>1, <2>1, <2>2 DEF SoleInv, ReturnOK
    <2>4. main # NoFile => text[t] = main
      BY <1>1, <2>3, StoresParse DEF SoleInv, Durable
    <2>5. \A id \in DOMAIN due'[t] : Listed(id, due'[t][id])
      BY <2>1, <2>3, <2>4 DEF DueJobs, Listed, Current
    <2>6. DueListed(t)'
      BY <2>1, <2>5 DEF DueListed, Listed
    <2> QED BY <1>1, <2>1, <2>6 DEF SlotsExact, CallMatches
  <1>7. CASE StartJob(t)
    <2>1. PICK id \in DOMAIN due[t] : Visit(t, id) /\ TakeSlot(t, id, due[t][id])
      BY <1>7 DEF StartJob
    <2>2. cur'[t].id = id /\ tick[t] = "loop" /\ main # NoFile
      BY <1>1, <1>7, <2>1, VisitEffect DEF StartJob, DueListed, Listed
    <2>3. DueListed(t)'
      BY <1>1, <1>4, <2>1, <2>2, VisitEffect, DueListedByTick
    <2> QED BY <1>1, <1>4, <2>1, <2>2, <2>3 DEF SlotsExact, CallMatches
  <1>8. CASE AskBeforeRun(t)
    <2>1. PICK id \in DOMAIN due[t] : Visit(t, id)
      BY <1>8 DEF AskBeforeRun
    <2>2. /\ cur'[t].id = id /\ cur'[t].job = due[t][id]
          /\ tick[t] = "loop" /\ tick'[t] = "hook" /\ runningJobs' = runningJobs
          /\ main' = main /\ now' = now
      BY <1>1, <1>8, <2>1, VisitEffect DEF AskBeforeRun, storeVars
    <2>3. Listed(cur'[t].id, cur'[t].job)
      BY <1>1, <2>1, <2>2 DEF DueListed
    <2>4. DueListed(t)'
      BY <1>1, <2>1, <2>2, <2>3, VisitEffect, DueListedByTick
    <2> QED BY <1>1, <2>2, <2>4 DEF SlotsExact, CallMatches
  <1>9. CASE BeforeRunAgrees(t)
    <2>1. /\ TakeSlot(t, cur[t].id, cur[t].job) /\ due' = due /\ cur' = cur
          /\ tick[t] = "hook"
      BY <1>9 DEF BeforeRunAgrees
    <2>2. main # NoFile /\ cur[t].id \notin DOMAIN due[t]
      BY <1>1, <2>1 DEF DueListed, Listed
    <2>3. DueListed(t)'
      BY <1>1, <1>4, <2>1, <2>2, DueListedByTick
    <2> QED BY <1>1, <1>4, <2>1, <2>3 DEF SlotsExact, CallMatches
  <1>10. CASE BeforeRunDeclines(t) \/ Recorded(t)
    <2>1. /\ main' = main /\ now' = now /\ due' = due /\ runningJobs' = runningJobs
          /\ tick[t] \in {"hook", "record"} /\ tick'[t] = "loop"
      BY <1>1, <1>3, <1>10 DEF BeforeRunDeclines, Recorded, storeVars
    <2>2. DueListed(t)'
      BY <1>1, <2>1, DueListedByTick
    <2> QED BY <1>1, <2>1, <2>2 DEF SlotsExact, CallMatches
  <1>11. CASE SessionStarts(t)
    <2>1. /\ main' = main /\ now' = now /\ due' = due /\ cur' = cur
          /\ runningJobs' = runningJobs
          /\ tick[t] = "advance" /\ tick'[t] = "session"
      BY <1>1, <1>3, <1>11 DEF SessionStarts
    <2>2. DueListed(t)'
      BY <1>1, <2>1, DueListedByTick DEF DueListed
    <2> QED BY <1>1, <2>1, <2>2 DEF SlotsExact, CallMatches
  <1>12. CASE SessionEnds(t)
    <2>1. /\ main' = main /\ now' = now /\ due' = due /\ cur' = cur
          /\ runningJobs' = runningJobs \ {NameOf[cur[t].id]}
          /\ tick[t] = "session" /\ tick'[t] = "record"
          /\ pc'[t] # "idle" /\ call'[t].op = "record" /\ call'[t].id = cur[t].id
      BY <1>1, <1>2, <1>12 DEF SessionEnds
    <2>2. DueListed(t)'
      BY <1>1, <2>1, DueListedByTick DEF DueListed
    <2> QED BY <1>1, <2>1, <2>2 DEF SlotsExact, CallMatches
  <1>13. CASE TickFails(t) \/ StartThrows(t)
    BY <1>1, <1>13 DEF TickFails, StartThrows
  <1> QED
    BY <1>5, <1>6, <1>7, <1>8, <1>9, <1>10, <1>11, <1>12, <1>13 DEF TickStep

LEMMA StepsStayInCall ==
  ASSUME StoreInv, NEW t \in Thread, StoreStep(t) PROVE pc'[t] # "idle"
PROOF
  <1>1. t \in DOMAIN pc
    BY DEF StoreInv
  <1> USE DEF Goto
  <1>2. ASSUME NEW d, Perform(t, d) PROVE pc'[t] # "idle"
    BY <1>1, <1>2 DEF Perform
  <1>3. ASSUME NEW d, NEW dirty, Reconciling(t, d, dirty) PROVE pc'[t] # "idle"
    BY <1>1, <1>2, <1>3 DEF Reconciling
  <1>4. CASE ReadMain(t) \/ ReadTmp(t) \/ Stringify(t) \/ Open(t) \/ Write(t)
    BY <1>1, <1>4 DEF ReadMain, ReadTmp, Stringify, Open, Write
  <1>5. CASE Parse(t) \/ Promote(t) \/ Legacy(t) \/ Resume(t) \/ Rename(t)
    BY <1>1, <1>2, <1>3, <1>5 DEF Parse, Promote, Legacy, Resume, Rename
  <1> QED BY <1>4, <1>5 DEF StoreStep

LEMMA LoopKept ==
  ASSUME NEW t, Tick = {t}, Cli = {}, LoopInv(t), [Next]_vars
  PROVE  LoopInv(t)'
PROOF
  <1>1. TypeInv' /\ SoleInv(t)'
    BY TypeInvInductive, SoleKept DEF LoopInv
  <1>2. /\ TypeInv /\ StoreInv /\ ServiceTypes /\ SoleInv(t)
        /\ t \in Tick /\ t \in Thread /\ Thread = {t} /\ now \in Nat
        /\ SlotsExact(t) /\ CallMatches(t) /\ DueListed(t)
        /\ \A id \in DOMAIN due[t] : due[t][id] \in Job
        /\ tick[t] = "hook" => HasJob(cur[t])
    BY SerialThreads DEF LoopInv, TypeInv, StoreInv, FilesOK, ServiceTypes, IsStore
  <1>3. CASE Start(t) \/ TickStep(t)
    BY <1>1, <1>3, TickKeepsLoop DEF LoopInv
  <1>4. CASE StoreSteps(t)
    <2>1. /\ StoreStep(t) /\ UNCHANGED <<runningJobs, tick, due, cur>>
          /\ pc[t] # "idle" /\ call' = call
      BY <1>2, <1>4, CallControl DEF StoreSteps, svcVars
    <2>2. /\ tick[t] \in {"start", "load", "advance", "record"}
          /\ call[t].op \in {"load", "advance", "record"}
          /\ call[t].op # "load" => /\ call[t].id = cur[t].id
                                    /\ tick[t] \in {"advance", "record"}
      BY <1>2, <2>1 DEF TypeInv, CallsAreAwaited, LoadsAreLoads, CallMatches
    <2>3. ASSUME NEW id \in DOMAIN due[t] PROVE Listed(id, due[t][id])'
      <3>1. PICK job \in Job : job = due[t][id]
        BY <1>2
      <3>2. Listed(id, job) /\ (call[t].op # "load" => call[t].id # id)
        BY <1>2, <2>2, <3>1 DEF DueListed
      <3>3. Listed(id, job)'
        BY <1>2, <2>1, <2>2, <3>2, ListedThroughStep
      <3> QED BY <2>1, <3>1, <3>3
    <2>4. tick[t] = "advance" => main' # NoFile
      BY <1>2, <2>1, StoresParse, SoleStep DEF DueListed, StoreEffect
    <2>5. DueListed(t)'
      BY <1>2, <2>1, <2>2, <2>3, <2>4 DEF DueListed
    <2>6. pc'[t] # "idle"
      BY <1>2, <2>1, StepsStayInCall
    <2> QED BY <1>1, <1>2, <2>1, <2>5, <2>6 DEF LoopInv, SlotsExact, CallMatches
  <1>5. CASE Stop \/ ClockAdvances \/ UNCHANGED vars
    <2>1. /\ UNCHANGED <<main, pc, call, runningJobs, tick, due, cur>>
          /\ now' = now \/ now' = now + 1
      BY <1>5 DEF Stop, ClockAdvances, vars, storeVars, svcVars
    <2>2. ASSUME NEW id, NEW job, Listed(id, job), job \in Job
          PROVE  Listed(id, job)'
      BY <1>2, <2>1, <2>2, StaysListed
    <2>3. DueListed(t)'
      BY <1>2, <2>1, <2>2 DEF DueListed, HasJob
    <2> QED BY <1>1, <1>2, <2>1, <2>3 DEF LoopInv, SlotsExact, CallMatches
  <1>6. CASE Exit
    <2>1. runningJobs' = {} /\ tick'[t] = "off" /\ DOMAIN due'[t] = {}
      BY <1>2, <1>6 DEF Exit, DaemonGone, NoJobs
    <2> QED BY <1>1, <2>1 DEF LoopInv, SlotsExact, CallMatches, DueListed
  <1> QED BY <1>2, <1>3, <1>4, <1>5, <1>6, SerialThreads DEF Next

LEMMA LoopInvariance ==
  ASSUME NEW t, Tick = {t}, Cli = {}
  PROVE  Spec => []LoopInv(t)
PROOF
  <1>1. Init => LoopInv(t)
    BY LoopInit
  <1>2. LoopInv(t) /\ [Next]_vars => LoopInv(t)'
    BY LoopKept
  <1> QED BY <1>1, <1>2, PTL DEF Spec

(* With one tick at a time every slot counted against the limit is held by  *)
(* the session it was taken for: no store call of that tick can throw       *)
(* between taking a slot and giving it back (service.ts:78-93).  With       *)
(* several callers the slot can leak, as the run scheduler_slot_leak shows. *)
THEOREM SerialSlotsAreHeld ==
  ASSUME NEW t, Tick = {t}, Cli = {}
  PROVE  Spec => []SlotsBelongToSessions
PROOF
  <1>1. LoopInv(t) => SlotsBelongToSessions
    BY DEF LoopInv, SlotsExact, SlotsBelongToSessions, Holding
  <1> QED BY <1>1, LoopInvariance, PTL

LEMMA SlotsAreTakenForDueJobs ==
  ASSUME NEW t, Tick = {t}, Cli = {}, LoopInv(t), Next,
         tick[t] # "advance", tick'[t] = "advance"
  PROVE  main \notin Unparsable /\ cur'[t].id \in DueJobs(main, now)
PROOF
  <1>1. /\ TypeInv /\ StoreInv /\ ServiceTypes /\ DueListed(t)
        /\ t \in Tick /\ t \in Thread /\ Thread = {t}
        /\ t \in DOMAIN tick /\ (main = NoFile \/ IsStore(main))
    BY SerialThreads DEF LoopInv, TypeInv, ServiceTypes, SoleInv
  <1>2. ASSUME NEW id, NEW job, Listed(id, job)
        PROVE  main \notin Unparsable /\ id \in DueJobs(main, now)
    <2>1. main \notin Unparsable
      BY <1>1, <1>2, StoresParse DEF Listed
    <2>2. /\ id \in DOMAIN main /\ main[id] = job
          /\ job.enabled /\ job.next # NoTime /\ job.next <= now
      BY <1>2 DEF Listed
    <2> QED BY <2>1, <2>2, Zenon DEF DueJobs
  <1> USE DEF TickAt
  <1>3. CASE StartJob(t)
    <2>1. PICK id \in DOMAIN due[t] : Visit(t, id)
      BY <1>3 DEF StartJob
    <2>2. cur'[t].id = id /\ Listed(id, due[t][id])
      BY <1>1, <2>1, VisitEffect DEF DueListed
    <2> QED BY <1>2, <2>2
  <1>4. CASE BeforeRunAgrees(t)
    <2>1. Listed(cur[t].id, cur[t].job) /\ cur' = cur
      BY <1>1, <1>4 DEF BeforeRunAgrees, DueListed
    <2> QED BY <1>2, <2>1
  <1>5. CASE \/ Start(t) \/ Started(t) \/ TickBegins(t) \/ TickLoaded(t)
             \/ AskBeforeRun(t) \/ BeforeRunDeclines(t)
    <2>1. \E l \in TickPC \ {"advance"} : tick' = [tick EXCEPT ![t] = l]
      BY <1>5 DEF Start, Started, TickBegins, TickLoaded, AskBeforeRun,
                  BeforeRunDeclines, TickPC
    <2> QED BY <1>1, <2>1
  <1>6. CASE \/ SessionStarts(t) \/ SessionEnds(t) \/ Recorded(t) \/ TickEnds(t)
             \/ TickFails(t)
    <2>1. \E l \in TickPC \ {"advance"} : tick' = [tick EXCEPT ![t] = l]
      BY <1>6 DEF SessionStarts, SessionEnds, Recorded, TickEnds, TickFails, TickPC
    <2> QED BY <1>1, <2>1
  <1>7. CASE StartThrows(t) \/ Exit
    BY <1>1, <1>7 DEF StartThrows, Exit, DaemonGone
  <1>8. CASE StoreSteps(t) \/ Stop \/ ClockAdvances
    BY <1>8 DEF StoreSteps, Stop, ClockAdvances, svcVars
  <1> QED BY <1>1, <1>3, <1>4, <1>5, <1>6, <1>7, <1>8 DEF Next, TickStep

(* With one tick at a time a slot is taken only for a job that the saved    *)
(* list holds, enabled and due at that moment, whatever was edited between  *)
(* the tick's load and its visit: the list it loaded has not moved.         *)
THEOREM SerialTicksStartDueJobs ==
  ASSUME NEW t, Tick = {t}, Cli = {}
  PROVE  Spec => StartsOnlyDueJobs
PROOF
  <1>1. LoopInv(t) /\ [Next]_vars => [TakesSlotWhenDue]_vars
    <2> SUFFICES ASSUME LoopInv(t), Next, NEW u \in Tick,
                        tick[u] # "advance", tick'[u] = "advance"
                 PROVE  main \notin Unparsable /\ cur'[u].id \in DueJobs(main, now)
      BY DEF TakesSlotWhenDue
    <2>1. u = t
      OBVIOUS
    <2> QED BY <2>1, SlotsAreTakenForDueJobs
  <1> QED BY <1>1, LoopInvariance, PTL DEF Spec, StartsOnlyDueJobs

-----------------------------------------------------------------------------
(* The instants a job has been started for.  Every later time of the job,   *)
(* in the file, or in a save on its way there, lies behind them, since it   *)
(* was computed when they were past already.                                *)
Behind(d) ==
  \A id \in DOMAIN d : \A s \in servedAt[id] :
    d[id].next = NoTime \/ s < d[id].next

InstantTypes ==
  /\ servedAt \in [JobId -> SUBSET Int]
  /\ \A id \in JobId : \A s \in servedAt[id] : s <= now

ListsBehind(t) ==
  /\ main = NoFile => \A id \in JobId : servedAt[id] = {}
  /\ main # NoFile => Behind(main)
  /\ pc[t] \in {"save", "open", "write", "rename"} => Behind(data[ProcOf[t]])

(* While the next run of a job is being saved, the due instant is still     *)
(* unserved and the time that is written lies behind it; when the call has  *)
(* returned, it is in the file.                                             *)
AdvanceBehind(t) ==
  tick[t] = "advance" =>
    /\ cur[t].job.next # NoTime /\ cur[t].job.next <= now
    /\ \A s \in servedAt[cur[t].id] : s < cur[t].job.next
    /\ call[t].next = NoTime \/ cur[t].job.next < call[t].next
    /\ pc[t] = "done" /\ text[t] = NoFile =>
         cur[t].id \in DOMAIN main /\ main[cur[t].id].next = call[t].next

InstantInv(t) == InstantTypes /\ ListsBehind(t) /\ AdvanceBehind(t)

LEMMA InstantInit ==
  ASSUME NEW t, Tick = {t}, Init PROVE InstantInv(t)
PROOF
  <1>1. /\ \A id \in JobId : servedAt[id] = {}
        /\ servedAt \in [JobId -> SUBSET Int]
    BY DEF Init
  <1>2. main # NoFile => IsStore(main)
    BY JobStoreAssumption DEF Init, StoreInit
  <1>3. main # NoFile => Behind(main)
    BY <1>1, <1>2 DEF Behind, IsStore
  <1>4. tick[t] = "off" /\ pc[t] = "idle"
    BY SchedulerAssumption DEF Init, StoreInit
  <1> QED
    BY <1>1, <1>3, <1>4 DEF InstantInv, InstantTypes, ListsBehind, AdvanceBehind

LEMMA ReconcileStaysBehind ==
  ASSUME NEW d, IsStore(d), Behind(d), InstantTypes, now \in Nat
  PROVE  Behind(Reconcile(d, now))
PROOF
  <1> SUFFICES ASSUME NEW id \in DOMAIN d, NEW s \in servedAt[id],
                      Reconciled(d[id], now).next # NoTime
               PROVE  s < Reconciled(d[id], now).next
    BY DEF Behind, Reconcile
  <1>1. /\ d[id] \in Job /\ id \in JobId /\ s \in Int /\ s <= now
        /\ d[id].next = NoTime \/ s < d[id].next
    BY DEF IsStore, Behind, InstantTypes
  <1>2. d[id].schedule \in Schedule
    BY <1>1, JobStoreAssumption DEF Job
  <1>3. PICK new : new = Reconciled(d[id], now)
    OBVIOUS
  <1>4. CASE ~ NeedsReconcile(d[id])
    BY <1>1, <1>3, <1>4 DEF Reconciled
  <1>5. CASE NeedsReconcile(d[id])
    <2>1. new.next = IF ScheduleEdited(d[id]) \/ d[id].next = NoTime
                     THEN ComputeNextRunAtMs(d[id].schedule, now) ELSE d[id].next
      BY <1>1, <1>3, <1>5, ReconciledJob
    <2>2. ComputeNextRunAtMs(d[id].schedule, now) = NoTime
          \/ (/\ ComputeNextRunAtMs(d[id].schedule, now) \in Int
              /\ ComputeNextRunAtMs(d[id].schedule, now) > now)
      BY <1>2, ComputeNextRunIsInTheFuture
    <2> QED BY <1>1, <1>3, <2>1, <2>2
  <1> QED BY <1>4, <1>5

LEMMA ApplyStaysBehind ==
  ASSUME NEW d, IsStore(d), Behind(d), NEW m, NEW c \in Call, ~ SavesNothing(c, d),
         c.op \in {"load", "advance", "record"},
         c.op = "advance" =>
           \A s \in servedAt[c.id] : c.next = NoTime \/ s < c.next
  PROVE  Behind(Apply(c, d, m))
PROOF
  <1>1. PICK new : new = Apply(c, d, m)
    OBVIOUS
  <1>2. MakesOf(c, d, m, new)
    BY <1>1, AppliedJobs
  <1> QED BY <1>1, <1>2 DEF MakesOf, Behind

(* The end of a load of list d, and the operation's own part.               *)
LEMMA SavesBehind ==
  ASSUME NEW t, Tick = {t}, Cli = {}, LoopInv(t), InstantInv(t), pc[t] # "idle",
         NEW d, IsStore(d), Behind(d),
         \/ pc'[t] = "done"
         \/ /\ pc'[t] = "save" /\ ~ SavesNothing(call[t], d)
            /\ data'[ProcOf[t]] = Apply(call[t], d, now)
         \/ pc'[t] = "save" /\ data'[ProcOf[t]] = Reconcile(d, now),
         servedAt' = servedAt
  PROVE  pc'[t] \in {"save", "open", "write", "rename"} => Behind(data[ProcOf[t]])'
PROOF
  <1>1. /\ t \in Tick /\ t \in Thread /\ now \in Nat /\ TypeInv
        /\ call[t] \in Call /\ CallMatches(t)
    BY SerialThreads DEF LoopInv, TypeInv, StoreInv, FilesOK, ThreadOK
  <1>2. PICK c \in Call : c = call[t]
    BY <1>1
  <1>3. c.op \in {"load", "advance", "record"}
    BY <1>1, <1>2 DEF TypeInv, CallsAreAwaited, LoadsAreLoads, CallMatches
  <1>4. ASSUME c.op = "advance", NEW s \in servedAt[c.id]
        PROVE  c.next = NoTime \/ s < c.next
    <2>1. tick[t] = "advance" /\ c.id = cur[t].id
      BY <1>1, <1>2, <1>4
         DEF TypeInv, CallsAreAwaited, LoadsAreLoads, CallMatches
    <2>2. HasJob(cur[t])
      BY <1>1, <2>1 DEF TypeInv, ServiceTypes
    <2>3. s \in Int /\ cur[t].job.next \in Int
      BY <1>4, <2>1, <2>2
         DEF HasJob, Job, Time, InstantInv, InstantTypes, AdvanceBehind
    <2>4. c.next = NoTime \/ c.next \in Int
      <3>1. c \in [op : {"advance"}, id : JobId, next : Time]
        BY <1>2, <1>4 DEF Call
      <3> QED BY <3>1 DEF Time
    <2>5. s < cur[t].job.next /\ (c.next = NoTime \/ cur[t].job.next < c.next)
      BY <1>2, <1>4, <2>1 DEF InstantInv, AdvanceBehind
    <2> QED BY <2>3, <2>4, <2>5
  <1>5. ~ SavesNothing(c, d) => Behind(Apply(c, d, now))
    BY <1>3, <1>4, ApplyStaysBehind
  <1>6. Behind(Reconcile(d, now))
    BY <1>1, ReconcileStaysBehind DEF InstantInv
  <1> QED BY <1>2, <1>5, <1>6 DEF Behind

LEMMA InstantsThroughStep ==
  ASSUME NEW t, Tick = {t}, Cli = {}, LoopInv(t), InstantInv(t), StoreSteps(t)
  PROVE  InstantInv(t)'
PROOF
  <1>1. /\ t \in Thread /\ Thread = {t} /\ StoreInv /\ SoleInv(t) /\ ThreadOK(t)
        /\ LoadOK(t) /\ SaveOK(t) /\ DueListed(t) /\ CallMatches(t)
        /\ t \in DOMAIN pc /\ t \in DOMAIN text /\ call[t] \in Call
        /\ main = NoFile \/ IsStore(main)
        /\ InstantTypes /\ ListsBehind(t) /\ AdvanceBehind(t)
        /\ StoreStep(t) /\ pc[t] # "idle" /\ call' = call
        /\ UNCHANGED <<tick, cur, servedAt>>
    BY SerialThreads, CallControl
       DEF LoopInv, TypeInv, StoreInv, ThreadOK, SoleInv, InstantInv, StoreSteps,
           svcVars, ghosts
  <1>2. /\ now' = now /\ SoleInv(t)' /\ (main' = main \/ IsStore(main'))
    BY <1>1, SoleStep
       DEF StoreStep, ReadMain, Parse, ReadTmp, Promote, Legacy,
           Stringify, Open, Write, Rename, Resume, StoreEffect
  <1>3. main' # NoFile \/ main = NoFile
    BY <1>1, <1>2, StoresParse
  <1>4. InstantTypes'
    BY <1>1, <1>2 DEF InstantTypes
  <1>5. ASSUME main' = main,
               pc'[t] \in {"save", "open", "write", "rename"} =>
                 Behind(data[ProcOf[t]])',
               tick[t] = "advance" => pc'[t] # "done" \/ text'[t] # NoFile
        PROVE  InstantInv(t)'
    BY <1>1, <1>2, <1>4, <1>5
       DEF InstantInv, ListsBehind, AdvanceBehind, Behind
  <1> USE DEF Goto, SetText
  <1>6. CASE ReadMain(t) \/ ReadTmp(t)
    <2>1. main' = main /\ pc'[t] \in {"parse", "readTmp", "promote", "legacy"}
      BY <1>1, <1>6 DEF ReadMain, ReadTmp
    <2> QED BY <1>5, <2>1
  <1>7. CASE Stringify(t) \/ Open(t) \/ Write(t)
    <2>1. /\ main' = main /\ data' = data /\ pc[t] \in {"save", "open", "write"}
          /\ pc'[t] \in {"open", "write", "rename"}
      BY <1>1, <1>7 DEF Stringify, Open, Write, SaveOK
    <2>2. Behind(data[ProcOf[t]])'
      BY <1>1, <2>1 DEF ListsBehind, Behind
    <2> QED BY <1>5, <2>1, <2>2
  <1>8. CASE Parse(t) \/ Resume(t)
    <2>1. PICK d : d = IF pc[t] = "parse" THEN text[t] ELSE data[ProcOf[t]]
      OBVIOUS
    <2>2. /\ main' = main /\ IsStore(d) /\ d = main /\ d # NoFile
          /\ Reconciling(t, d, FALSE) \/ Perform(t, d)
      BY <1>1, <1>8, <2>1, StoresParse DEF Parse, Resume, LoadOK, ThreadOK
    <2>3. \/ pc'[t] = "done" /\ text'[t] = d
          \/ /\ pc'[t] = "save" /\ ~ SavesNothing(call[t], d)
             /\ data'[ProcOf[t]] = Apply(call[t], d, now)
          \/ pc'[t] = "save" /\ data'[ProcOf[t]] = Reconcile(d, now)
      BY <1>1, <2>2, ReconcilingOutcome, PerformOutcome
    <2>4. Behind(d)
      BY <1>1, <2>2 DEF ListsBehind
    <2>5. pc'[t] \in {"save", "open", "write", "rename"} =>
            Behind(data[ProcOf[t]])'
      BY <1>1, <2>2, <2>3, <2>4, SavesBehind
    <2> QED BY <1>5, <2>2, <2>3, <2>5
  <1>9. CASE Promote(t) \/ Legacy(t)
    <2>1. main = NoFile
      BY <1>1, <1>9 DEF Promote, Legacy, LoadOK
    <2>2. \A id \in JobId : servedAt'[id] = {}
      BY <1>1, <2>1 DEF ListsBehind
    <2>3. \A d : IsStore(d) => Behind(d)'
      BY <2>2 DEF Behind, IsStore
    <2>4. main' # NoFile => IsStore(main')
      BY <1>2, <2>1
    <2>5. tick'[t] # "advance"
      BY <1>1, <2>1 DEF DueListed
    <2>6. pc'[t] \in {"save", "open", "write", "rename"} => IsStore(data'[ProcOf[t]])
      <3>1. ThreadOK(t)'
        BY <1>1, StoreStepKeepsInv DEF StoreInv
      <3> QED BY <3>1 DEF ThreadOK
    <2> QED
      BY <1>4, <2>2, <2>3, <2>4, <2>5, <2>6
         DEF InstantInv, ListsBehind, AdvanceBehind
  <1>10. CASE Rename(t)
    <2>1. /\ pc[t] = "rename" /\ tmp = data[ProcOf[t]] /\ IsStore(tmp)
          /\ Saves(t) /\ Behind(tmp)
      BY <1>1, <1>10 DEF Rename, SaveOK, ThreadOK, ListsBehind
    <2>2. /\ main' = tmp /\ tmp # NoFile
          /\ pc'[t] = (IF saving[t] = "load" THEN "resume" ELSE "done")
      BY <1>1, <1>10, <2>1, StoresParse DEF Rename, RenameTmpToMain
    <2>3. Behind(main)'
      BY <1>1, <2>1, <2>2 DEF Behind
    <2>4. ASSUME tick[t] = "advance", pc'[t] = "done"
          PROVE  cur[t].id \in DOMAIN main' /\ main'[cur[t].id].next = call[t].next
      <3>1. main # NoFile /\ call[t].op = "advance" /\ call[t].id = cur[t].id
        BY <1>1, <2>4 DEF DueListed, CallMatches
      <3>2. IsStore(main) /\ Base = main
        BY <1>1, <3>1, StoresParse DEF Base
      <3>3. PICK m \in 0 .. now :
              ~ SavesNothing(call[t], main) /\ main' = Apply(call[t], main, m)
        BY <2>1, <2>2, <2>4, <3>2 DEF Saves
      <3>4. PICK c \in Call : c = call[t]
        BY <1>1
      <3>5. PICK d, e : d = main /\ e = main'
        OBVIOUS
      <3>6. MakesOf(c, d, m, e)
        BY <3>2, <3>3, <3>5, <3>4, AppliedJobs
      <3> QED BY <3>1, <3>5, <3>6, <3>4 DEF MakesOf
    <2>5. ListsBehind(t)'
      BY <2>2, <2>3 DEF ListsBehind
    <2>6. AdvanceBehind(t)'
      BY <1>1, <1>2, <2>4 DEF AdvanceBehind
    <2> QED BY <1>4, <2>5, <2>6 DEF InstantInv
  <1> QED BY <1>1, <1>6, <1>7, <1>8, <1>9, <1>10 DEF StoreStep

(* What the tick and the others do to the instants: the tick takes a slot   *)
(* for one that is still unserved and notes it when the time that was saved *)
(* lies behind it; everyone else only waits.                                *)
LEMMA SlotBehind ==
  ASSUME NEW t, Tick = {t}, Cli = {}, LoopInv(t), InstantInv(t),
         NEW id, NEW job \in Job, Listed(id, job), TakeSlot(t, id, job),
         cur'[t].id = id, cur'[t].job = job, servedAt' = servedAt
  PROVE  InstantInv(t)'
PROOF
  <1>1. /\ t \in Thread /\ StoreInv /\ now \in Nat /\ InstantTypes /\ ListsBehind(t)
        /\ TypeInv /\ t \in Tick /\ t \in DOMAIN pc
        /\ main # NoFile /\ main[id] = job /\ id \in DOMAIN main
    BY SerialThreads DEF LoopInv, TypeInv, StoreInv, FilesOK, InstantInv, Listed
  <1>2. PICK n : n = ComputeNextRunAtMs(job.schedule, now)
    OBVIOUS
  <1>3. PICK c : c = [op |-> "advance", id |-> id, next |-> n]
    OBVIOUS
  <1>4. /\ main' = main /\ data' = data /\ now' = now
        /\ pc'[t] = "readMain" /\ call'[t] = c
    BY <1>1, <1>2, <1>3, CallControl DEF TakeSlot, Begin
  <1>5. /\ n = NoTime \/ (n \in Int /\ n > now)
        /\ job.next \in Int /\ job.next <= now /\ job.next # NoTime
    BY <1>1, <1>2, JobStoreAssumption, ComputeNextRunIsInTheFuture
       DEF Job, Listed, Time
  <1>6. \A s \in servedAt[id] : s < job.next
    BY <1>1, <1>5 DEF ListsBehind, Behind
  <1>7. ListsBehind(t)' /\ InstantTypes'
    BY <1>1, <1>4 DEF ListsBehind, InstantTypes, Behind
  <1>8. AdvanceBehind(t)'
    <2>1. /\ cur'[t].id = id /\ cur'[t].job.next = job.next
          /\ call'[t].next = n /\ pc'[t] # "done" /\ now' = now
      BY <1>3, <1>4
    <2>2. n = NoTime \/ job.next < n
      BY <1>1, <1>5
    <2> QED BY <1>5, <1>6, <2>1, <2>2 DEF AdvanceBehind
  <1> QED BY <1>7, <1>8 DEF InstantInv

LEMMA SessionServesInstant ==
  ASSUME NEW t, Tick = {t}, Cli = {}, LoopInv(t), InstantInv(t), SessionStarts(t)
  PROVE  InstantInv(t)' /\ cur[t].job.next \notin servedAt[cur[t].id]
PROOF
  <1>1. /\ t \in Thread /\ StoreInv /\ now \in Nat /\ SoleInv(t) /\ t \in Tick
        /\ InstantTypes /\ ListsBehind(t) /\ AdvanceBehind(t)
        /\ CallMatches(t) /\ DueListed(t) /\ ReturnOK(t)
        /\ tick \in [Tick -> TickPC] /\ (main = NoFile \/ IsStore(main))
    BY SerialThreads
       DEF LoopInv, TypeInv, ServiceTypes, StoreInv, FilesOK, InstantInv, SoleInv
  <1>2. PICK id \in JobId, job \in Job : id = cur[t].id /\ job = cur[t].job
    BY <1>1 DEF LoopInv, TypeInv, ServiceTypes, SessionStarts, HasJob
  <1>3. /\ tick[t] = "advance" /\ pc[t] = "done" /\ tick'[t] = "session"
        /\ servedAt' = [servedAt EXCEPT ![id] = servedAt[id] \cup {job.next}]
        /\ End(t) /\ UNCHANGED <<data, cur>>
    <2>1. /\ tick[t] = "advance" /\ pc[t] = "done" /\ TickAt(t, "session")
          /\ End(t) /\ UNCHANGED <<data, cur>>
      BY DEF SessionStarts
    <2>2. servedAt' = [servedAt EXCEPT ![cur[t].id] = @ \cup {cur[t].job.next}]
      BY DEF SessionStarts
    <2>3. tick'[t] = "session"
      BY <1>1, <2>1 DEF TickAt
    <2>4. servedAt' = [servedAt EXCEPT ![id] = servedAt[id] \cup {job.next}]
      BY <1>2, <2>2
    <2> QED BY <2>1, <2>3, <2>4
  <1>4. main' = main /\ now' = now /\ pc'[t] = "idle"
    BY <1>1, <1>3, CallControl DEF End
  <1>5. /\ job.next \in Int /\ job.next <= now
        /\ \A s \in servedAt[id] : s < job.next
        /\ call[t].next = NoTime \/ job.next < call[t].next
        /\ text[t] = NoFile => id \in DOMAIN main /\ main[id].next = call[t].next
    BY <1>1, <1>2, <1>3 DEF AdvanceBehind, Job, Time
  <1>6. main # NoFile /\ IsStore(main) /\ main \notin Unparsable
    BY <1>1, <1>3, StoresParse DEF DueListed
  <1>7. id \in DOMAIN main => main[id].next = NoTime \/ job.next < main[id].next
    <2>1. CASE text[t] = NoFile
      BY <1>5, <2>1
    <2>2. CASE text[t] # NoFile
      <3>1. SavesNothing(call[t], main)
        BY <1>1, <1>3, <1>6, <2>2 DEF ReturnOK, Durable
      <3> QED BY <1>1, <1>2, <1>3, <3>1 DEF CallMatches, SavesNothing
    <2> QED BY <2>1, <2>2
  <1>8. Behind(main)'
    <2>1. /\ servedAt'[id] = servedAt[id] \cup {job.next}
          /\ \A i \in JobId \ {id} : servedAt'[i] = servedAt[i]
      BY <1>1, <1>3 DEF InstantTypes
    <2>2. Behind(main)
      BY <1>1, <1>6 DEF ListsBehind
    <2> QED BY <1>4, <1>6, <1>7, <2>1, <2>2 DEF Behind, IsStore
  <1>9. InstantTypes'
    BY <1>1, <1>3, <1>4, <1>5 DEF InstantTypes
  <1>10. ListsBehind(t)' /\ AdvanceBehind(t)'
    BY <1>3, <1>4, <1>6, <1>8 DEF ListsBehind, AdvanceBehind
  <1>11. job.next \notin servedAt[id]
    BY <1>5
  <1> QED BY <1>2, <1>9, <1>10, <1>11 DEF InstantInv

LEMMA InstantsKept ==
  ASSUME NEW t, Tick = {t}, Cli = {}, LoopInv(t), InstantInv(t), [Next]_vars
  PROVE  InstantInv(t)'
PROOF
  <1>1. /\ TypeInv /\ ServiceTypes /\ StoreInv /\ t \in Tick /\ t \in Thread
        /\ Thread = {t} /\ now \in Nat /\ tick \in [Tick -> TickPC]
        /\ DueListed(t) /\ InstantTypes /\ ListsBehind(t) /\ AdvanceBehind(t)
        /\ pc[t] # "failed" /\ t \in DOMAIN pc /\ ProcOf[t] = Daemon
    BY SerialThreads
       DEF LoopInv, TypeInv, ServiceTypes, StoreInv, FilesOK, InstantInv, SoleInv,
           ReturnOK
  <1>2. ASSUME main' = main, servedAt' = servedAt, now' = now \/ now' = now + 1,
               pc'[t] \in {"idle", "readMain"}, tick'[t] # "advance"
        PROVE  InstantInv(t)'
    <2>1. \A id \in JobId : \A s \in servedAt[id] : s \in Int /\ s <= now'
      BY <1>1, <1>2 DEF InstantTypes
    <2>2. InstantTypes'
      BY <1>1, <1>2, <2>1 DEF InstantTypes
    <2>3. ListsBehind(t)' /\ AdvanceBehind(t)'
      BY <1>1, <1>2 DEF ListsBehind, AdvanceBehind, Behind
    <2> QED BY <2>2, <2>3 DEF InstantInv
  <1>3. \A c : Begin(t, c) => main' = main /\ now' = now /\ pc'[t] = "readMain"
    BY <1>1, CallControl DEF Begin
  <1>4. End(t) => main' = main /\ now' = now /\ pc'[t] = "idle"
    BY <1>1, CallControl DEF End
  <1> USE DEF TickAt
  <1>5. CASE Start(t) \/ Started(t) \/ TickBegins(t) \/ TickLoaded(t)
    BY <1>1, <1>2, <1>3, <1>4, <1>5
       DEF Start, Started, TickBegins, TickLoaded, ghosts
  <1>6. CASE SessionEnds(t) \/ Recorded(t)
    BY <1>1, <1>2, <1>3, <1>4, <1>6 DEF SessionEnds, Recorded, ghosts
  <1>7. CASE AskBeforeRun(t) \/ BeforeRunDeclines(t) \/ TickEnds(t)
    <2>1. pc[t] = "idle"
      BY <1>1, <1>7
         DEF AskBeforeRun, BeforeRunDeclines, TickEnds, TypeInv, CallsAreAwaited
    <2>2. UNCHANGED <<storeVars, ghosts>> /\ tick'[t] \in {"hook", "loop", "off"}
      BY <1>1, <1>7 DEF AskBeforeRun, BeforeRunDeclines, TickEnds
    <2> QED BY <1>2, <2>1, <2>2 DEF storeVars, ghosts
  <1>8. CASE StartJob(t)
    <2>1. PICK id \in DOMAIN due[t] : Visit(t, id) /\ TakeSlot(t, id, due[t][id])
      BY <1>8 DEF StartJob
    <2>2. PICK job \in Job : job = due[t][id]
      BY <1>1 DEF ServiceTypes, IsStore
    <2>3. cur'[t].id = id /\ cur'[t].job = job /\ Listed(id, job)
      BY <1>1, <2>1, <2>2, VisitEffect DEF DueListed
    <2>4. servedAt' = servedAt
      BY <1>8 DEF StartJob, ghosts
    <2> QED BY <2>1, <2>2, <2>3, <2>4, SlotBehind
  <1>9. CASE BeforeRunAgrees(t)
    <2>1. PICK id \in JobId, job \in Job : id = cur[t].id /\ job = cur[t].job
      BY <1>1, <1>9 DEF ServiceTypes, BeforeRunAgrees, HasJob
    <2>2. /\ TakeSlot(t, id, job) /\ cur' = cur /\ servedAt' = servedAt
          /\ Listed(id, job)
      BY <1>1, <1>9, <2>1 DEF BeforeRunAgrees, DueListed, ghosts
    <2> QED BY <2>1, <2>2, SlotBehind
  <1>10. CASE SessionStarts(t)
    BY <1>10, SessionServesInstant
  <1>11. CASE TickFails(t) \/ StartThrows(t)
    BY <1>1, <1>11 DEF TickFails, StartThrows
  <1>12. CASE Exit
    BY <1>1, <1>2, <1>12 DEF Exit, DaemonGone, ProcessDies, ghosts
  <1>13. CASE Stop \/ ClockAdvances \/ UNCHANGED vars
    <2>1. /\ UNCHANGED <<main, data, pc, call, text, tick, cur, servedAt>>
          /\ now' = now \/ now' = now + 1
      BY <1>13 DEF Stop, ClockAdvances, vars, storeVars, svcVars, ghosts
    <2>2. \A id \in JobId : \A s \in servedAt[id] : s \in Int /\ s <= now'
      BY <1>1, <2>1 DEF InstantTypes
    <2>3. InstantTypes'
      BY <1>1, <2>1, <2>2 DEF InstantTypes
    <2>4. ListsBehind(t)'
      BY <1>1, <2>1 DEF ListsBehind, Behind
    <2>5. tick[t] = "advance" => cur[t].job.next \in Int
      BY <1>1 DEF ServiceTypes, AdvanceBehind, HasJob, Job, Time
    <2>6. AdvanceBehind(t)'
      BY <1>1, <2>1, <2>5 DEF AdvanceBehind
    <2> QED BY <2>3, <2>4, <2>6 DEF InstantInv
  <1>14. CASE StoreSteps(t)
    BY <1>14, InstantsThroughStep
  <1> QED
    BY <1>1, <1>5, <1>6, <1>7, <1>8, <1>9, <1>10, <1>11, <1>12, <1>13, <1>14,
       SerialThreads DEF Next, TickStep

(* With one tick at a time no due instant of a job is served twice, however *)
(* often the daemon dies, also in the middle of a session or of a save, and *)
(* is started again: the time behind the instant has reached jobs.json      *)
(* before the session starts, and only a later one is ever computed.        *)
THEOREM SerialInstantsServedOnce ==
  ASSUME NEW t, Tick = {t}, Cli = {}
  PROVE  Spec => NoInstantServedTwice
PROOF
  <1>1. Init => InstantInv(t)
    BY InstantInit
  <1>2. LoopInv(t) /\ InstantInv(t) /\ [Next]_vars => InstantInv(t)'
    BY InstantsKept
  <1>3. LoopInv(t) /\ InstantInv(t) /\ [Next]_vars => [ServesNewInstants]_vars
    <2> SUFFICES ASSUME LoopInv(t), InstantInv(t), NEW u \in Tick, SessionStarts(u)
                 PROVE  cur[u].job.next \notin servedAt[cur[u].id]
      BY DEF ServesNewInstants
    <2>1. u = t
      OBVIOUS
    <2> QED BY <2>1, SessionServesInstant
  <1> QED BY <1>1, <1>2, <1>3, LoopInvariance, PTL DEF Spec, NoInstantServedTwice

=============================================================================
