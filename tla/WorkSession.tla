----------------------------- MODULE WorkSession -----------------------------
(***************************************************************************)
(* One session at work in the shared repository, beside the runner of an   *)
(* experiment and the commits of other sessions, until verifySession has   *)
(* looked at what it left: first at the work tree, then, some awaits later *)
(* and with everybody else still at work, at the commit range.             *)
(***************************************************************************)
EXTENDS ExperimentValidator, ProjectBudget

CONSTANTS
  Writable,       \* the changes the session may make
  Records,        \* what the EXPERIMENT.md files may say at the start
  Flags,          \* sets of flags the runner may be given, for each project
  Limit,          \* the limit of each project's budget
  Amounts,        \* amounts of a ledger entry
  Derived,        \* the calls the CSV files of a run stand for
  MaxEdits, MaxCommits

(* validate_mandatory_flags, of a detached run. *)
MandatoryFlags == {"artifacts-dir", "project-dir", "max-retries", "watch-csv", "total"}
MissingFlags(flags) == MandatoryFlags \ flags

ASSUME WorkConstants ==
  /\ Projects \subseteq Nat /\ OldRecords \subseteq Projects
  /\ Writable \subseteq Change
  /\ \A r \in Records : IsRecord(r)
  /\ Flags \in [Projects -> SUBSET SUBSET MandatoryFlags]
  /\ Limit \in [Projects -> Nat] /\ Amounts \subseteq Nat /\ Derived \in Nat
  /\ {MaxEdits, MaxCommits, ManyFiles} \subseteq Nat

VARIABLES
  phase,     \* "work", "checking" after the look at the tree, "verified"
  seen,      \* warnings of the look at the tree
  verdict,   \* warnings on the commit range
  ran,       \* projects whose experiment was run: known to nobody
  audit,     \* for each project, "off", "due", or what the audit has found
  ledger,    \* for each project, the totals of its ledger.yaml
  edits      \* lines written so far, a bound

vars == <<dirty, landed, commits, record, progress,
          phase, seen, verdict, ran, audit, ledger, edits>>

TypeOK ==
  /\ dirty \subseteq Change /\ landed \subseteq Change
  /\ commits \in 0 .. MaxCommits /\ edits \in 0 .. MaxEdits
  /\ \A p \in Projects : IsRecord(record[p])
  /\ progress \in [Projects -> {"none", "running", "completed", "failed"}]
  /\ phase \in {"work", "checking", "verified"}
  /\ phase = "work" => seen = {}
  /\ phase # "verified" => verdict = {}
  /\ ran = {p \in Projects : progress[p] # "none"}
  /\ audit \in [Projects -> {"off", "due", "no_csvs", "missing_ledger",
                            "discrepancy", "ok"}]
  /\ \A p \in Projects : audit[p] = "due" => progress[p] = "running"
  /\ ledger \in [Projects -> Ledger]

Init ==
  /\ dirty = {} /\ landed = {} /\ commits = 0
  /\ record \in [Projects -> Records]
  /\ progress = [p \in Projects |-> "none"]
  /\ phase = "work" /\ seen = {} /\ verdict = {} /\ ran = {} /\ edits = 0
  /\ audit = [p \in Projects |-> "off"]
  /\ ledger = [p \in Projects |-> [named |-> 0, session |-> 0, unordered |-> 0]]

-----------------------------------------------------------------------------
Write(c) ==
  /\ phase = "work" /\ edits < MaxEdits /\ c \in Writable
  /\ dirty' = dirty \cup {c} /\ edits' = edits + 1

(* The agent writes a line; an entry not booked here is of another resource. *)
Edit(c) ==
  /\ c \notin Tree /\ Write(c)
  /\ UNCHANGED <<landed, commits, record, progress, phase, seen, verdict, ran,
                 audit, ledger>>

(* The agent changes a field of an EXPERIMENT.md. *)
EditField(p, f, v) ==
  /\ record[p][f] # v /\ Write(<<p, "fields">>)
  /\ record' = [record EXCEPT ![p][f] = v]
  /\ UNCHANGED <<landed, commits, progress, phase, seen, verdict, ran, audit, ledger>>

(* The agent books what a run has used, in one of the layouts. *)
Book(p, layout, amount) ==
  /\ Write(<<p, "entry">>)
  /\ ledger' = [ledger EXCEPT ![p][layout] = @ + amount]
  /\ UNCHANGED <<landed, commits, record, progress, phase, seen, verdict, ran, audit>>

(* The ledger has an experiment: line of this experiment; an entry with the *)
(* resource after the amount has one too.                                   *)
Named(p) == ledger[p].named + ledger[p].unordered > 0

Accepted(p, flags, left) ==
  "project-dir" \in flags => GateOpens(Limit[p], ledger[p], left)

(* Faulty variant: the runner starts its command before the progress file. *)
LaunchUnrecorded(p, flags, detach, left) ==
  /\ phase = "work" /\ progress[p] = "none" /\ Accepted(p, flags, left)
  /\ ran' = ran \cup {p}
  /\ audit' = [audit EXCEPT ![p] = IF "project-dir" \in flags THEN "due" ELSE "off"]
  /\ UNCHANGED <<dirty, landed, commits, record, progress, phase, seen, verdict,
                 ledger, edits>>

(* The agent starts the runner, which may refuse: detached, for a missing   *)
(* flag; with the project's directory, for what check_budget says.          *)
Launch(p, flags, detach, left) ==
  /\ phase = "work" /\ progress[p] = "none" /\ Accepted(p, flags, left)
  /\ detach => MissingFlags(flags) = {}
  /\ progress' = [progress EXCEPT ![p] = "running"]
  /\ dirty' = dirty \cup {<<p, "progress">>}
  /\ ran' = ran \cup {p}
  /\ audit' = [audit EXCEPT ![p] = IF "project-dir" \in flags THEN "due" ELSE "off"]
  /\ UNCHANGED <<landed, commits, record, phase, seen, verdict, ledger, edits>>

(* The run ends, at any time, with results or without; main audits it. *)
RunnerEnds(p, end, made) ==
  /\ phase # "verified" /\ progress[p] = "running"
  /\ progress' = [progress EXCEPT ![p] = end]
  /\ dirty' = dirty \cup {<<p, "progress">>}
                \cup (IF made THEN {<<p, "results">>} ELSE {})
  /\ audit' = [audit EXCEPT ![p] = IF @ = "off" THEN @
                ELSE AuditStatus(made \/ p \in With(Tree, {"results"}), ledger[p], Derived)]
  /\ UNCHANGED <<landed, commits, record, phase, seen, verdict, ran, ledger, edits>>

Land(F) == /\ commits < MaxCommits /\ commits' = commits + 1
           /\ landed' = landed \cup {c \in dirty : FileOf(c) \in F}
           /\ dirty' = {c \in dirty : FileOf(c) \notin F}

(* The session commits some of the files. *)
Commit(F) ==
  /\ phase = "work" /\ F # {} /\ Land(F)
  /\ UNCHANGED <<record, progress, phase, seen, verdict, ran, audit, ledger, edits>>

(* Another session commits all there is to commit. *)
OtherCommits ==
  /\ phase # "verified" /\ dirty # {} /\ Land(Files(dirty))
  /\ UNCHANGED <<record, progress, phase, seen, verdict, ran, audit, ledger, edits>>

(* verifySession looks at git status, and later at the range of commits.    *)
CheckTree ==
  /\ phase = "work" /\ phase' = "checking" /\ seen' = TreeWarnings
  /\ UNCHANGED <<dirty, landed, commits, record, progress, verdict, ran, audit, ledger,
                 edits>>
CheckCommits(cost, huge) ==
  /\ phase = "checking" /\ phase' = "verified"
  /\ verdict' = CommitWarnings(cost, huge)
  /\ UNCHANGED <<dirty, landed, commits, record, progress, seen, ran, audit, ledger,
                 edits>>

Next ==
  \/ \E c \in Writable : Edit(c)
  \/ \E p \in Projects, f \in DOMAIN Field : \E v \in Field[f] : EditField(p, f, v)
  \/ \E p \in Projects, l \in {"named", "session", "unordered"}, a \in Amounts : Book(p, l, a)
  \/ \E p \in Projects : \E F \in Flags[p], detach \in BOOLEAN, left \in Left :
       Launch(p, F, detach, left)
  \/ \E p \in Projects, end \in {"completed", "failed"} :
       \E made \in BOOLEAN : RunnerEnds(p, end, made)
  \/ \E F \in SUBSET Files(dirty) : Commit(F)
  \/ OtherCommits
  \/ CheckTree
  \/ \E cost, huge \in BOOLEAN : CheckCommits(cost, huge)

Spec == Init /\ [][Next]_vars

-----------------------------------------------------------------------------
(* An experiment that uses resources, was run, and has no ledger entry of   *)
(* the day is never missed: its progress file was dirty when the tree was   *)
(* looked at, or the range shows it, whoever committed it and whether the   *)
(* run still went on meanwhile.                                             *)
ResourceUseIsNotMissed ==
  phase = "verified" =>
    \A p \in ran : (Consumes(p) /\ ~Has(Tree, p, {"entry"})) =>
                     <<"uncommitted">> \in seen \/ <<"ledger", p>> \in verdict

(* A task the session has blocked on something external, in the only        *)
(* TASKS.md of the range, goes without a warning only when this project has *)
(* a diagnosis or an experiment that failed or was abandoned: the evidence  *)
(* of another project excuses nothing.                                      *)
UnsupportedBlockerIsReported ==
  phase = "verified" =>
    \A c \in In(landed, {"external"}) :
      With(landed, {"TASKS"}) = {c[1]} =>
        \/ <<"blocker", c>> \in verdict
        \/ <<c[1], "diagnosis">> \in Files(Tree)
        \/ record[c[1]].status \in {"failed", "abandoned"}

(* The two implementations of the rules on a record agree: the verifier and *)
(* the validator miss the same module metadata and the same model; a Model: *)
(* line the verifier misses the validator misses too wherever Config or     *)
(* Method has text; and a footer that is cut for one is cut for the other.  *)
ValidatorAgrees ==
  /\ \A p \in Projects :
       /\ RecordIssues(record[p]) \cap {"module", "artifacts_dir"}
            = ModuleMetadataIssues(record[p])
       /\ "model-missing" \in RecordIssues(record[p]) <=>
            "model-missing" \in ModelIssues(record[p])
       /\ "model-line-missing" \in ModelIssues(record[p]) /\ ConfigText(record[p]) =>
            "model-line-missing" \in RecordIssues(record[p])
  /\ \A w \in verdict : w[1] = "cut-footer" => w[2] \in FooterIssues

(* The waste rate does not count work: a session whose readable diff is     *)
(* called knowledge-free has landed no task and no finding of any project,  *)
(* and one called waste, from a readable diff or not, has landed nothing    *)
(* and left no README, task list or ledger to commit.                       *)
WasteIsNoWork ==
  /\ HasCommit /\ IsZeroKnowledge(Knowledge(FALSE)) =>
       Knowledge(FALSE).tasks = 0 /\ \A p \in Projects : FindingsOf(p) = 0
  /\ \A huge \in BOOLEAN : IsGenuineWaste(huge) =>
       landed = {} /\ With(dirty, {"README", "TASKS", "ledger"}) = {}

(* The repository check and the runner agree on a run that is not booked:   *)
(* an experiment reported as completed with results and no ledger entry was *)
(* missing for the audit too, unless there was no audit, or there were no   *)
(* results then; and the audit credits no call the gate does not count.     *)
UnbookedRunsAgree ==
  \A p \in Projects :
    /\ <<"completed-no-ledger", p>> \in RepoStaleness({q \in Projects : Named(q)}) =>
         audit[p] \in {"off", "due", "no_csvs", "missing_ledger"}
    /\ Credited(ledger[p]) <= LineTotal(ledger[p])

(* The three readers of the budget agree on a ledger all of them can read:  *)
(* where the gate opens the validator has no error, where it is shut for    *)
(* the use of a positive limit, or for the deadline, the Slack report shows *)
(* a stop sign, and where the validator warns of use or deadline the report *)
(* shows no all-clear.                                                      *)
BudgetReadersAgree ==
  \A p \in Projects : ledger[p].unordered = 0 =>
    /\ LineTotal(ledger[p]) >= Limit[p] /\ Limit[p] > 0 =>
         ResourceIcon(Limit[p], ledger[p]) = "no_entry"
    /\ \A left \in Left :
         /\ GateOpens(Limit[p], ledger[p], left) =>
              BudgetErrors(Limit[p], ledger[p], left) = {}
         /\ LineTotal(ledger[p]) < Limit[p] /\ ~GateOpens(Limit[p], ledger[p], left) =>
              DeadlineIcon(left) = "no_entry"
         /\ "90 %" \in BudgetWarnings(Limit[p], ledger[p], left) =>
              ResourceIcon(Limit[p], ledger[p]) # "green"
         /\ "24h" \in BudgetWarnings(Limit[p], ledger[p], left) =>
              DeadlineIcon(left) # "calendar"
=============================================================================
