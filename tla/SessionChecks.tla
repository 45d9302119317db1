---------------------------- MODULE SessionChecks ----------------------------
(***************************************************************************)
(* The checks of verify.ts on what one session did: the work tree it left, *)
(* the commits since headBefore, and the records of the experiments.  Each *)
(* check is an operator that returns what it warns about.                  *)
(*                                                                         *)
(* A change is an added line, abstracted to what the checks tell apart, of *)
(* a file of a project.  git knows the file of a change; the checks match  *)
(* paths, added lines and the files' present contents.  A README gets one  *)
(* footer, and a file is never deleted or renamed.                         *)
(***************************************************************************)
EXTENDS Naturals, FiniteSetsExt

CONSTANTS
  Projects,      \* numbered in the order of their paths
  OldRecords,    \* projects whose EXPERIMENT.md is dated a week before the session
  ManyFiles      \* 10 in the code

VARIABLES
  dirty,    \* changes in the work tree that are not committed
  landed,   \* changes committed since headBefore
  commits,  \* commits since headBefore, whoever made them
  record,   \* for each project, its EXPERIMENT.md
  progress  \* for each project, the status in progress.json, or "none"

(* The file of each kind of line.  Files with an extension .md come first;  *)
(* decision, skill, page, shot and code lie outside of projects/.           *)
MdFileOf ==
  [log |-> "README", logFinding |-> "README", footer |-> "README",
   cutFooter |-> "README", emptyFooter |-> "README", question |-> "README",
   oldProgress |-> "README",
   task |-> "TASKS", partial |-> "TASKS", codeDone |-> "TASKS",
   external |-> "TASKS", oldBlock |-> "TASKS", doneBlock |-> "TASKS",
   fields |-> "EXPERIMENT", rationale |-> "EXPERIMENT", advice |-> "EXPERIMENT",
   bareFinding |-> "EXPERIMENT", sourcedFinding |-> "EXPERIMENT",
   note |-> "note", verifiedNote |-> "verified-note",
   diagnosis |-> "diagnosis", diagnosisAdvice |-> "diagnosis",
   decision |-> "decision", skill |-> "skill"]
OtherFileOf ==
  [entry |-> "ledger", progress |-> "progress", results |-> "results",
   script |-> "script", page |-> "page", shot |-> "shot", code |-> "code"]

Outside == {"decision", "skill", "page", "shot", "code"}
Change == Projects \X (DOMAIN MdFileOf \cup DOMAIN OtherFileOf)
FileOf(c) == <<c[1], IF c[2] \in DOMAIN MdFileOf THEN MdFileOf[c[2]]
                     ELSE OtherFileOf[c[2]]>>
Files(S) == {FileOf(c) : c \in S}
Tree == dirty \cup landed
Has(S, p, Ls) == \E c \in S : c[1] = p /\ c[2] \in Ls
In(S, Ls) == {c \in S : c[2] \in Ls}
(* The projects of S with one of the files. *)
With(S, Fs) == {p \in Projects : \E f \in Fs : <<p, f>> \in Files(S)}

(* The fields of an EXPERIMENT.md.  A bugfix is as an implementation; the   *)
(* place of the Model: line is part of the body, and config says whether a  *)
(* Config or Method section has other text; a status in the body is left out. *)
Field ==
  [status |-> {"planned", "running", "completed", "failed", "abandoned"},
   type |-> {"experiment", "implementation", "analysis"},
   consumes |-> BOOLEAN, module |-> BOOLEAN, waiver |-> BOOLEAN,
   artifacts |-> {"none", "projects", "modules"}, model |-> BOOLEAN,
   backend |-> BOOLEAN, modelLine |-> {"none", "Config", "elsewhere"},
   config |-> BOOLEAN, sections |-> BOOLEAN]
IsRecord(r) == /\ DOMAIN r = DOMAIN Field
               /\ \A f \in DOMAIN r : r[f] \in Field[f]

-----------------------------------------------------------------------------
(* findActiveExperimentDirs; a retrying run counts as running here. *)
Active == {p \in Projects : progress[p] = "running"}
(* isSchedulerRegistered. *)
Registered == {p \in Projects : progress[p] \in {"running", "completed"}}

(* classifyUncommittedFiles: the dirty files that are nobody's output.      *)
Tracked(f) ==
  \/ f \in Files(landed)
  \/ f[2] \in {"README", "TASKS", "ledger"}
  \/ f[2] = "EXPERIMENT" /\ f[1] \in OldRecords
OrphanedFiles ==
  {f \in Files(dirty) :
     IF Tracked(f)
     THEN ~(f[1] \in Active /\ f[2] \in {"EXPERIMENT", "progress", "results",
                                         "script"})
     ELSE ~(f[1] \in Active /\ f[2] = "progress") /\ f[2] # "shot"}

When(condition, w) == IF condition THEN {w} ELSE {}

(* verifySession, 1: what git status shows. *)
TreeWarnings ==
  When(dirty # {}, <<"uncommitted">>)
    \cup {<<"orphaned", f>> : f \in OrphanedFiles}

(* verifySession, 2 and 3: the commit range. *)
HasCommit == commits > 0
FilesChanged == Cardinality(Files(landed))

(* parseSessionFooter, validateSessionFooter: a whole footer comes first; a *)
(* field without a value (emptyFooter) is there.                            *)
Footer(p) == IF Has(Tree, p, {"footer", "emptyFooter"}) THEN "whole"
             ELSE IF Has(Tree, p, {"cutFooter"}) THEN "cut" ELSE "none"

(* 4 and 5: a README of a project in the range, and its footer.             *)
LogEntries == With(landed, {"README"})
FooterWarnings ==
  {<<"cut-footer", p>> : p \in {q \in LogEntries : Footer(q) = "cut"}}
    \cup When(LogEntries # {} /\ \A p \in LogEntries : Footer(p) # "whole",
              <<"no-footer">>)

(* checkConsumesResources and getExperimentStatus read the work tree. *)
Consumes(p) == record[p].consumes

(* Faulty variant: the runner's progress.json is no evidence of a run. *)
ResourceProjectsByResults ==
  {p \in Projects : Consumes(p) /\
     (p \in With(landed, {"results"})
      \/ (p \in With(landed, {"EXPERIMENT"}) /\ record[p].status = "running"))}

(* 6: projects in whose range a consuming experiment has visibly run. *)
ResourceProjects ==
  {p \in Projects : Consumes(p) /\
     (p \in With(landed, {"progress", "results"})
      \/ (p \in With(landed, {"EXPERIMENT"}) /\ record[p].status = "running"))}

(* Projects with a budget.yaml: all of them here. *)
TouchedProjects == {p \in Projects : \E c \in landed : c[1] = p /\ c[2] \notin Outside}
LedgerWarnings(cost) ==
  {<<"ledger", p>> : p \in
    {q \in ResourceProjects \cup (IF cost THEN TouchedProjects ELSE {}) :
       ~Has(Tree, q, {"entry"})}}

(* checkExperimentModuleMetadata: a record with a front matter. *)
(* Faulty variant: an analysis needs no metadata, whatever it consumes. *)
RequiresModuleMetadataByType(r) == r.type # "analysis"
RequiresModuleMetadata(r) == r.type # "analysis" \/ r.consumes
ModuleMetadataIssues(r) ==
  IF RequiresModuleMetadata(r)
  THEN When(~r.module, "module") \cup When(r.artifacts # "modules", "artifacts_dir")
  ELSE {}

(* 7: fire-and-forget. *)
FireAndForget ==
  {<<"unregistered", p>> : p \in
    {q \in With(landed, {"EXPERIMENT"}) :
       /\ Consumes(q) /\ ~record[q].waiver /\ q \notin Registered
       /\ record[q].status = "running"
          \/ ModuleMetadataIssues(record[q]) # {}}}

-----------------------------------------------------------------------------
(* checkPartialCompletionBan, checkFalseTaskCompletion. *)
PartialCompletions == {<<"partial", c>> : c \in In(landed, {"partial"})}
FalseCompletions ==
  IF \E c \in landed : c[2] \in DOMAIN OtherFileOf THEN {}
  ELSE {<<"false-completion", c>> : c \in In(landed, {"codeDone"})}

(* checkProjectLayoutViolations. *)
LayoutViolations ==
  {<<"layout", f>> : f \in {g \in Files(landed) :
                              g[2] \in {"script", "progress", "results"}}}

(* checkLiteratureVerified on the new notes; checkModelSelectionRationale   *)
(* on a new script that calls a model.                                      *)
UnverifiedNotes == {<<"note", c>> : c \in In(landed, {"note"})}
MissingRationale ==
  {<<"rationale", p>> : p \in {q \in With(landed, {"script"}) :
                                  ~Has(Tree, q, {"rationale"})}}

(* checkModelProvenance: Model: may stand anywhere in the body. *)
ModelIssues(r) ==
  IF r.status = "completed" /\ r.consumes
  THEN When(~r.model, "model-missing")
         \cup When(r.modelLine = "none", "model-line-missing")
  ELSE {}
RecordWarnings ==
  UNION {{<<"metadata", p, i>> : i \in ModuleMetadataIssues(record[p])}
           \cup {<<i, p>> : i \in ModelIssues(record[p])} :
         p \in With(landed, {"EXPERIMENT"})}

(* The checks that need the text of the range.  git diff over 1 MiB throws, *)
(* and the catch leaves all of them out.                                    *)
TierOneWarnings(huge) ==
  IF huge THEN {}
  ELSE PartialCompletions \cup FalseCompletions \cup LayoutViolations
         \cup UnverifiedNotes \cup MissingRationale \cup RecordWarnings

(* checkVisualArtifactViolation: the range changes pages and has no shot.   *)
VisualViolation == In(landed, {"page"}) # {} /\ In(landed, {"shot"}) = {}
VisualWarnings == When(VisualViolation, <<"visual">>)

(* checkFindingsProvenance on the changed records. *)
BareFindings(p) == record[p].status = "completed" /\ Has(Tree, p, {"bareFinding"})
FindingWarnings ==
  {<<"finding", p>> : p \in {q \in With(landed, {"EXPERIMENT"}) : BareFindings(q)}}

(* checkActionableImplications: any change of a TASKS.md excuses. *)
UnfollowedAdvice ==
  IF With(landed, {"TASKS"}) # {} THEN {} ELSE In(landed, {"advice", "diagnosisAdvice"})
ImplicationWarnings(huge) ==
  IF huge THEN {} ELSE {<<"implication", c>> : c \in UnfollowedAdvice}

(* checkIncrementalCommits.  Nothing in the repository commits as           *)
(* "[scheduler] auto-commit", the commits that are not counted.             *)
agentCommitCount == commits
LateCommits == FilesChanged >= ManyFiles /\ agentCommitCount <= 1
IncrementalWarnings == When(LateCommits, <<"incremental">>)

-----------------------------------------------------------------------------
(* extractBlockedByExternalTags. *)
ExternalTags == In(landed, {"external"})
(* hasEvidenceForExternalBlocker. *)
HasEvidence(p) ==
  p \in With(Tree, {"diagnosis"}) \/ record[p].status \in {"failed", "abandoned"}

(* Faulty variant: a failed experiment anywhere counts as evidence. *)
BlockerWarningsLoose ==
  {<<"blocker", c>> : c \in {d \in ExternalTags : \A p \in Projects : ~HasEvidence(p)}}

(* checkBlockedByExternalTags: every blocker is put down to the project the *)
(* diff of the TASKS.md files names first.                                  *)
BlockerWarnings ==
  LET first == Min(With(landed, {"TASKS"}))
  IN {<<"blocker", c>> : c \in {d \in ExternalTags : ~HasEvidence(first)}}

(* checkStaleInProgressTags, checkStaleBlockedByTags and                    *)
(* checkCompletedBlockerTags look at the whole tree; findCompletedBlocker-  *)
(* Matches finds the blocker of a doneBlock in the completed task codeDone. *)
StaleInProgress == In(Tree, {"oldProgress"})
StaleBlockedBy == In(Tree, {"oldBlock"})
CompletedBlockers == {c \in In(Tree, {"doneBlock"}) : In(Tree, {"codeDone"}) # {}}

(* checkStaleRunningExperiments. *)
StaleRunning == {p \in OldRecords : record[p].status = "running"}

(* checkCompletedWithoutLedger: named says which projects' ledgers name the *)
(* experiment, anywhere in an entry.                                        *)
CompletedWithoutLedger(named) ==
  {p \in With(Tree, {"results"}) \ named : record[p].status \in {"completed", "failed"}}

(* verifySession, 11 to 12b. *)
StaleWarnings ==
  {<<"stale-in-progress", c>> : c \in StaleInProgress}
    \cup {<<"stale-blocked-by", c>> : c \in StaleBlockedBy}
    \cup {<<"blocker-done", c>> : c \in CompletedBlockers}

(* checkRepoStaleness, without the approvals. *)
RepoStaleness(named) ==
  StaleWarnings \cup {<<"stale-running", p>> : p \in StaleRunning}
    \cup {<<"completed-no-ledger", p>> : p \in CompletedWithoutLedger(named)}

(* verifySession, 2 to 12, for a session of a certain cost.  What guards    *)
(* and the zero-turn check find is passed in, and passed on.                *)
CommitWarnings(cost, huge) ==
  (IF HasCommit
   THEN When(LogEntries = {}, <<"no-log-entry">>) \cup FooterWarnings
        \cup LedgerWarnings(cost) \cup FireAndForget \cup TierOneWarnings(huge)
        \cup VisualWarnings \cup FindingWarnings \cup ImplicationWarnings(huge)
        \cup BlockerWarnings
   ELSE {}) \cup IncrementalWarnings \cup StaleWarnings

-----------------------------------------------------------------------------
Count(Ls) == Cardinality(In(landed, Ls))
(* Faulty variant: a TASKS.md is no structural file. *)
StructuralFilesButTasks == {f \in Files(landed) : f[2] = "ledger"}
StructuralFiles == {f \in Files(landed) : f[2] \in {"TASKS", "ledger"}}

(* parseKnowledgeFromDiff, of the files and lines modelled here; a          *)
(* diagnosis counts its finding.                                            *)
KnowledgeInDiff ==
  [findings |-> Count({"bareFinding", "sourcedFinding"}), decisions |-> Count({"decision"}),
   notes |-> Count({"note", "verifiedNote"}), questions |-> Count({"question"}),
   logFindings |-> Count({"logFinding", "diagnosis"}), code |-> Count({"code"}),
   compound |-> Count({"decision", "skill"}),
   structural |-> Cardinality(StructuralFiles),
   diagnoses |-> Cardinality(With(landed, {"diagnosis"})),
   tasks |-> Count({"task", "external"})]

(* countKnowledgeOutput: an unreadable diff gives zeros. *)
Knowledge(huge) ==
  IF huge \/ ~HasCommit THEN [k \in DOMAIN KnowledgeInDiff |-> 0] ELSE KnowledgeInDiff

(* parseCrossProjectMetrics. *)
FindingsOf(p) == Cardinality({c \in In(landed, {"bareFinding", "sourcedFinding",
                                               "logFinding"}) : c[1] = p})

(* isZeroKnowledge and isGenuineWaste of the efficiency report, which does  *)
(* not look at the tasks.                                                   *)
IsZeroKnowledge(k) == \A f \in DOMAIN k \ {"tasks"} : k[f] = 0
IsGenuineWaste(huge) ==
  /\ ~(HasCommit /\ FilesChanged > 0)
  /\ IsZeroKnowledge(Knowledge(huge)) /\ OrphanedFiles = {}
=============================================================================
