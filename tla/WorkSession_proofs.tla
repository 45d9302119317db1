-------------------------- MODULE WorkSession_proofs --------------------------
(***************************************************************************)
(* No run of a consuming experiment escapes the check of the ledger,       *)
(* however the run, the commits of other sessions and the two looks of     *)
(* verifySession interleave; and the readers of budget and ledger agree.   *)
(***************************************************************************)
EXTENDS WorkSession, FiniteSetTheorems, TLAPS

(* What the argument follows is the progress file of a run: it is in the    *)
(* tree from the launch on, first dirty and then landed.  Between the two   *)
(* looks it either was dirty at the first, or is landed already.            *)
ProgressOf(p) == <<p, "progress">>
EvidenceInv ==
  /\ ran \subseteq Projects /\ commits \in Nat
  /\ landed # {} => commits > 0
  /\ \A p \in ran : ProgressOf(p) \in Tree
  /\ phase = "checking" =>
       <<"uncommitted">> \in seen \/ \A p \in ran : ProgressOf(p) \in landed
  /\ ResourceUseIsNotMissed

(* A progress file is a file of its own. *)
LEMMA ProgressFile == \A p : FileOf(ProgressOf(p)) = <<p, "progress">>
BY DEF FileOf, ProgressOf, MdFileOf, OtherFileOf

(* A landed progress file of a consuming experiment without an entry of the *)
(* day makes the second look warn of the ledger.                            *)
LEMMA LandedRunIsReported ==
  ASSUME NEW p \in Projects, ProgressOf(p) \in landed, commits > 0,
         Consumes(p), ~Has(Tree, p, {"entry"}),
         NEW cost \in BOOLEAN, NEW huge \in BOOLEAN
  PROVE  <<"ledger", p>> \in CommitWarnings(cost, huge)
<1>1. <<p, "progress">> \in Files(landed)
  BY ProgressFile DEF Files
<1>2. p \in With(landed, {"progress", "results"})
  BY <1>1 DEF With
<1>3. p \in ResourceProjects
  BY <1>2 DEF ResourceProjects
<1>4. <<"ledger", p>> \in LedgerWarnings(cost)
  BY <1>3 DEF LedgerWarnings
<1> QED BY <1>4 DEF CommitWarnings, HasCommit

(* A step that takes nothing out of the tree and leaves commits, runs and   *)
(* looks alone keeps the evidence.                                          *)
LEMMA WorkKeepsEvidence ==
  ASSUME EvidenceInv, dirty \subseteq dirty', UNCHANGED <<landed, commits, ran, seen, phase>>,
         phase # "verified"
  PROVE  EvidenceInv'
BY DEF EvidenceInv, Tree, ResourceUseIsNotMissed

LEMMA LandKeepsEvidence ==
  ASSUME EvidenceInv, NEW F, Land(F), phase # "verified", UNCHANGED <<ran, seen, phase>>
  PROVE  EvidenceInv'
<1>1. Tree' = Tree /\ landed \subseteq landed'
  BY DEF Land, Tree
<1>2. commits' \in Nat /\ commits' > 0
  BY DEF Land, EvidenceInv
<1> QED BY <1>1, <1>2 DEF EvidenceInv, ResourceUseIsNotMissed

LEMMA LaunchKeepsEvidence ==
  ASSUME EvidenceInv, NEW p \in Projects, NEW F, NEW detach, NEW left,
         Launch(p, F, detach, left)
  PROVE  EvidenceInv'
BY DEF EvidenceInv, Launch, Tree, ProgressOf, ResourceUseIsNotMissed

(* The first look: a run whose progress file is not dirty has it landed.    *)
LEMMA FirstLookKeepsEvidence ==
  ASSUME EvidenceInv, CheckTree
  PROVE  EvidenceInv'
<1>1. dirty # {} => <<"uncommitted">> \in seen'
  BY DEF CheckTree, TreeWarnings, When
<1>2. dirty = {} => \A p \in ran : ProgressOf(p) \in landed
  BY DEF EvidenceInv, Tree
<1>3. /\ UNCHANGED <<landed, commits, ran>> /\ Tree' = Tree
      /\ phase' = "checking"
  BY DEF CheckTree, Tree
<1> QED BY <1>1, <1>2, <1>3 DEF EvidenceInv, ResourceUseIsNotMissed

LEMMA SecondLookKeepsEvidence ==
  ASSUME EvidenceInv, NEW cost \in BOOLEAN, NEW huge \in BOOLEAN, CheckCommits(cost, huge)
  PROVE  EvidenceInv'
<1>1. /\ UNCHANGED <<landed, commits, ran, seen, record>> /\ Tree' = Tree
      /\ phase = "checking" /\ phase' = "verified"
      /\ verdict' = CommitWarnings(cost, huge)
  BY DEF CheckCommits, Tree
<1>2. ASSUME NEW p \in ran, Consumes(p), ~Has(Tree, p, {"entry"}),
             <<"uncommitted">> \notin seen
      PROVE  <<"ledger", p>> \in CommitWarnings(cost, huge)
  <2>1. p \in Projects /\ ProgressOf(p) \in landed
    BY <1>1, <1>2 DEF EvidenceInv
  <2>2. commits > 0
    BY <2>1 DEF EvidenceInv
  <2> QED BY <1>2, <2>1, <2>2, LandedRunIsReported
<1>3. ResourceUseIsNotMissed'
  BY <1>1, <1>2 DEF ResourceUseIsNotMissed, Consumes, Has
<1> QED BY <1>1, <1>3 DEF EvidenceInv

(* Every launch, run and commit, of whomever, keeps the evidence of a run   *)
(* where verifySession looks for it.                                        *)
THEOREM EvidenceInvariance == Spec => []EvidenceInv
<1>1. Init => EvidenceInv
  BY DEF Init, EvidenceInv, Tree, ResourceUseIsNotMissed
<1>2. ASSUME EvidenceInv, [Next]_vars PROVE EvidenceInv'
  <2>1. CASE \E c \in Writable : Edit(c)
    BY <1>2, <2>1, WorkKeepsEvidence DEF Edit, Write
  <2>2. CASE \E p \in Projects, f \in DOMAIN Field : \E v \in Field[f] : EditField(p, f, v)
    BY <1>2, <2>2, WorkKeepsEvidence DEF EditField, Write
  <2>3. CASE \E p \in Projects, l \in {"named", "session", "unordered"}, a \in Amounts :
               Book(p, l, a)
    BY <1>2, <2>3, WorkKeepsEvidence DEF Book, Write
  <2>4. CASE \E p \in Projects : \E F \in Flags[p], detach \in BOOLEAN, left \in Left :
               Launch(p, F, detach, left)
    BY <1>2, <2>4, LaunchKeepsEvidence
  <2>5. CASE \E p \in Projects, end \in {"completed", "failed"} :
               \E made \in BOOLEAN : RunnerEnds(p, end, made)
    BY <1>2, <2>5, WorkKeepsEvidence DEF RunnerEnds
  <2>6. CASE \E F \in SUBSET Files(dirty) : Commit(F)
    BY <1>2, <2>6, LandKeepsEvidence DEF Commit
  <2>7. CASE OtherCommits
    BY <1>2, <2>7, LandKeepsEvidence DEF OtherCommits
  <2>8. CASE CheckTree
    BY <1>2, <2>8, FirstLookKeepsEvidence
  <2>9. CASE \E cost, huge \in BOOLEAN : CheckCommits(cost, huge)
    BY <1>2, <2>9, SecondLookKeepsEvidence
  <2>10. CASE UNCHANGED vars
    BY <1>2, <2>10 DEF EvidenceInv, Tree, ResourceUseIsNotMissed, Consumes, vars
  <2> QED BY <1>2, <2>1, <2>2, <2>3, <2>4, <2>5, <2>6, <2>7, <2>8, <2>9, <2>10 DEF Next
<1> QED BY <1>1, <1>2, PTL DEF Spec

(* For any projects, records, edits, launches and commits, of whomever and  *)
(* in whatever order: a run without a ledger entry of the day is seen by    *)
(* the first look of verifySession or by the second.                        *)
THEOREM ResourceUseIsNeverMissed == Spec => []ResourceUseIsNotMissed
<1>1. EvidenceInv => ResourceUseIsNotMissed
  BY DEF EvidenceInv
<1> QED BY <1>1, EvidenceInvariance, PTL

-----------------------------------------------------------------------------
(* The ledgers and limits the readers meet. *)
LedgersInv == ledger \in [Projects -> Ledger]

LEMMA BookKeepsLedgers ==
  ASSUME LedgersInv, NEW p \in Projects, NEW layout \in {"named", "session", "unordered"},
         NEW amount \in Amounts, Book(p, layout, amount)
  PROVE  LedgersInv'
<1>1. amount \in Nat /\ ledger[p] \in Ledger
  BY WorkConstants DEF LedgersInv
<1>2. [ledger[p] EXCEPT ![layout] = @ + amount] \in Ledger
  BY <1>1 DEF Ledger
<1>3. ledger' = [ledger EXCEPT ![p] = [ledger[p] EXCEPT ![layout] = @ + amount]]
  BY DEF Book
<1> QED BY <1>2, <1>3 DEF LedgersInv

(* Whatever a session books, a ledger stays a record of three totals. *)
THEOREM LedgersInvariance == Spec => []LedgersInv
<1>1. Init => LedgersInv
  BY DEF Init, LedgersInv, Ledger
<1>2. ASSUME LedgersInv, [Next]_vars PROVE LedgersInv'
  <2>1. CASE \E p \in Projects, l \in {"named", "session", "unordered"}, a \in Amounts :
               Book(p, l, a)
    BY <1>2, <2>1, BookKeepsLedgers
  <2>2. CASE UNCHANGED ledger
    BY <1>2, <2>2 DEF LedgersInv
  <2>3. \/ \E p \in Projects, l \in {"named", "session", "unordered"}, a \in Amounts :
               Book(p, l, a)
        \/ UNCHANGED ledger
    BY <1>2 DEF Next, vars, Edit, EditField, Launch, RunnerEnds, Commit, OtherCommits,
       CheckTree, CheckCommits
  <2> QED BY <2>1, <2>2, <2>3
<1> QED BY <1>1, <1>2, PTL DEF Spec

(* Rounding to a whole percentage keeps a share that has reached one.       *)
LEMMA RoundedShareReaches ==
  ASSUME NEW x \in Nat, NEW d \in Nat \ {0}, NEW k \in Nat, x >= k * d
  PROVE  x \div d \in Nat /\ x \div d >= k
<1> DEFINE q == x \div d
<1>1. q \in Nat /\ d * q <= x /\ x < d * q + d
  OBVIOUS
<1>2. ASSUME q < k PROVE FALSE
  <2>1. q + 1 <= k
    BY <1>1, <1>2
  <2>2. d * (q + 1) <= d * k
    BY <1>1, <2>1
  <2>3. d * (q + 1) = d * q + d /\ d * k = k * d
    BY <1>1
  <2> QED BY <1>1, <2>2, <2>3
<1> QED BY <1>1, <1>2

LEMMA PercentReaches ==
  ASSUME NEW l \in Ledger, NEW limit \in Nat \ {0}, NEW k \in Nat,
         100 * LineTotal(l) >= k * limit
  PROVE  Percent(limit, l) \in Nat /\ Percent(limit, l) >= k
<1>1. LineTotal(l) \in Nat
  BY DEF LineTotal, Ledger
<1>2. 200 * LineTotal(l) + limit >= k * (2 * limit)
  <2>1. k * limit \in Nat /\ k * (2 * limit) = 2 * (k * limit)
    OBVIOUS
  <2> QED BY <1>1, <2>1
<1>3. 200 * LineTotal(l) + limit \in Nat /\ 2 * limit \in Nat \ {0}
  BY <1>1
<1>4. /\ (200 * LineTotal(l) + limit) \div (2 * limit) \in Nat
      /\ (200 * LineTotal(l) + limit) \div (2 * limit) >= k
  <2> DEFINE x == 200 * LineTotal(l) + limit
             d == 2 * limit
  <2>1. x \in Nat /\ d \in Nat \ {0} /\ x >= k * d
    BY <1>2, <1>3
  <2> HIDE DEF x, d
  <2>2. x \div d \in Nat /\ x \div d >= k
    BY <2>1, RoundedShareReaches
  <2> QED BY <2>2 DEF x, d
<1> QED BY <1>4 DEF Percent

(* The gate of the runner, the validator and the Slack report agree on every *)
(* ledger, every limit and every distance of the deadline: check_budget,     *)
(* validate_budget, buildBudgetBlocks.                                       *)
THEOREM BudgetReadersAlwaysAgree == Spec => []BudgetReadersAgree
<1>1. ASSUME LedgersInv, NEW p \in Projects, NEW left \in Left, ledger[p].unordered = 0
      PROVE  /\ GateOpens(Limit[p], ledger[p], left) =>
                  BudgetErrors(Limit[p], ledger[p], left) = {}
             /\ LineTotal(ledger[p]) >= Limit[p] /\ Limit[p] > 0 =>
                  ResourceIcon(Limit[p], ledger[p]) = "no_entry"
             /\ "90 %" \in BudgetWarnings(Limit[p], ledger[p], left) =>
                  ResourceIcon(Limit[p], ledger[p]) # "green"
             /\ LineTotal(ledger[p]) < Limit[p] /\ ~GateOpens(Limit[p], ledger[p], left) =>
                  DeadlineIcon(left) = "no_entry"
             /\ "24h" \in BudgetWarnings(Limit[p], ledger[p], left) =>
                  DeadlineIcon(left) # "calendar"
  <2>1. ledger[p] \in Ledger /\ Limit[p] \in Nat
    BY <1>1, WorkConstants DEF LedgersInv
  <2>2. LineTotal(ledger[p]) \in Nat /\ YamlTotal(ledger[p]) = LineTotal(ledger[p])
    BY <1>1, <2>1 DEF LineTotal, YamlTotal, Ledger
  <2>3. GateOpens(Limit[p], ledger[p], left) => BudgetErrors(Limit[p], ledger[p], left) = {}
    BY <2>1, <2>2 DEF GateOpens, BudgetErrors
  <2>4. ASSUME LineTotal(ledger[p]) >= Limit[p], Limit[p] > 0
        PROVE  ResourceIcon(Limit[p], ledger[p]) = "no_entry"
    <3>1. 100 * LineTotal(ledger[p]) >= 100 * Limit[p]
      BY <2>1, <2>2, <2>4
    <3>2. Percent(Limit[p], ledger[p]) \in Nat /\ Percent(Limit[p], ledger[p]) >= 100
      BY <2>1, <2>4, <3>1, PercentReaches
    <3> QED BY <3>2 DEF ResourceIcon
  <2>5. ASSUME "90 %" \in BudgetWarnings(Limit[p], ledger[p], left)
        PROVE  ResourceIcon(Limit[p], ledger[p]) # "green"
    <3>1. Limit[p] > 0 /\ 10 * LineTotal(ledger[p]) >= 9 * Limit[p]
      BY <2>2, <2>5 DEF BudgetWarnings
    <3>2. 100 * LineTotal(ledger[p]) >= 90 * Limit[p]
      BY <2>1, <2>2, <3>1
    <3>3. Percent(Limit[p], ledger[p]) \in Nat /\ Percent(Limit[p], ledger[p]) >= 90
      BY <2>1, <3>1, <3>2, PercentReaches
    <3> QED BY <3>3 DEF ResourceIcon
  <2>6. /\ LineTotal(ledger[p]) < Limit[p] /\ ~GateOpens(Limit[p], ledger[p], left) =>
             DeadlineIcon(left) = "no_entry"
        /\ "24h" \in BudgetWarnings(Limit[p], ledger[p], left) =>
             DeadlineIcon(left) # "calendar"
    BY DEF BudgetWarnings, GateOpens, DeadlineIcon
  <2> QED BY <2>3, <2>4, <2>5, <2>6
<1>2. ASSUME LedgersInv, NEW p \in Projects, ledger[p].unordered = 0
      PROVE  LineTotal(ledger[p]) >= Limit[p] /\ Limit[p] > 0 =>
                  ResourceIcon(Limit[p], ledger[p]) = "no_entry"
  <2>1. "days" \in Left
    BY DEF Left
  <2> QED BY <1>1, <1>2, <2>1
<1>3. LedgersInv => BudgetReadersAgree
  BY <1>1, <1>2 DEF BudgetReadersAgree
<1> QED BY <1>3, LedgersInvariance, PTL

-----------------------------------------------------------------------------
(* What an audit has found booked stays booked.                              *)
Credits == {"ok", "discrepancy"}
AuditInv ==
  /\ LedgersInv
  /\ audit \in [Projects -> Credits \cup {"off", "due", "no_csvs", "missing_ledger"}]
  /\ \A p \in Projects : audit[p] \in Credits => ledger[p].named > 0

LEMMA AuditFindsBooked ==
  ASSUME AuditInv, NEW p \in Projects, NEW end, NEW made, RunnerEnds(p, end, made)
  PROVE  AuditInv'
<1>1. PICK results \in BOOLEAN : audit' = [audit EXCEPT ![p] =
        IF @ = "off" THEN @ ELSE AuditStatus(results, ledger[p], Derived)]
  <2>1. audit' = [audit EXCEPT ![p] = IF @ = "off" THEN @
                  ELSE AuditStatus(made \/ p \in With(Tree, {"results"}), ledger[p], Derived)]
    BY DEF RunnerEnds
  <2>2. CASE made \/ p \in With(Tree, {"results"})
    BY <2>1, <2>2 DEF AuditStatus
  <2>3. CASE ~(made \/ p \in With(Tree, {"results"}))
    BY <2>1, <2>3 DEF AuditStatus
  <2> QED BY <2>2, <2>3
<1>2. \A found \in BOOLEAN :
        /\ AuditStatus(found, ledger[p], Derived)
              \in Credits \cup {"off", "due", "no_csvs", "missing_ledger"}
        /\ AuditStatus(found, ledger[p], Derived) \in Credits => ledger[p].named > 0
  BY DEF AuditInv, LedgersInv, Ledger, AuditStatus, Credited, Credits
<1>3. ledger' = ledger
  BY DEF RunnerEnds
<1> QED BY <1>1, <1>2, <1>3 DEF AuditInv, LedgersInv, Credits

LEMMA BookKeepsAudits ==
  ASSUME AuditInv, NEW p \in Projects, NEW layout \in {"named", "session", "unordered"},
         NEW amount \in Amounts, Book(p, layout, amount)
  PROVE  AuditInv'
<1>1. LedgersInv'
  BY BookKeepsLedgers DEF AuditInv
<1>2. amount \in Nat /\ ledger[p] \in Ledger /\ audit' = audit
  BY WorkConstants DEF AuditInv, LedgersInv, Book
<1>3. ledger'[p].named >= ledger[p].named
  BY <1>2 DEF AuditInv, LedgersInv, Ledger, Book
<1>4. \A q \in Projects \ {p} : ledger'[q] = ledger[q]
  BY DEF AuditInv, LedgersInv, Book
<1>5. \A q \in Projects : ledger[q].named \in Nat /\ ledger'[q].named \in Nat
  BY <1>1 DEF AuditInv, LedgersInv, Ledger
<1> QED BY <1>1, <1>2, <1>3, <1>4, <1>5 DEF AuditInv

(* What an audit has found of a run (consumption_audit) stays true of the   *)
(* ledger as far as AuditInv says, whatever is booked after it.             *)
THEOREM AuditInvariance == Spec => []AuditInv
<1>1. Init => AuditInv
  BY DEF Init, AuditInv, LedgersInv, Ledger, Credits
<1>2. ASSUME AuditInv, [Next]_vars PROVE AuditInv'
  <2>1. CASE \E p \in Projects, l \in {"named", "session", "unordered"}, a \in Amounts :
               Book(p, l, a)
    BY <1>2, <2>1, BookKeepsAudits
  <2>2. CASE \E p \in Projects, end \in {"completed", "failed"} :
               \E made \in BOOLEAN : RunnerEnds(p, end, made)
    BY <1>2, <2>2, AuditFindsBooked
  <2>3. CASE \E p \in Projects : \E F \in Flags[p], detach \in BOOLEAN, left \in Left :
               Launch(p, F, detach, left)
    BY <1>2, <2>3 DEF Launch, AuditInv, LedgersInv, Credits
  <2>4. CASE UNCHANGED <<ledger, audit>>
    BY <1>2, <2>4 DEF AuditInv, LedgersInv
  <2>5. \/ \E p \in Projects, l \in {"named", "session", "unordered"}, a \in Amounts :
               Book(p, l, a)
        \/ \E p \in Projects, end \in {"completed", "failed"} :
               \E made \in BOOLEAN : RunnerEnds(p, end, made)
        \/ \E p \in Projects : \E F \in Flags[p], detach \in BOOLEAN, left \in Left :
               Launch(p, F, detach, left)
        \/ UNCHANGED <<ledger, audit>>
    BY <1>2 DEF Next, vars, Edit, EditField, Commit, OtherCommits, CheckTree, CheckCommits
  <2> QED BY <2>1, <2>2, <2>3, <2>4, <2>5
<1> QED BY <1>1, <1>2, PTL DEF Spec

(* For any ledger, run and order of booking and audit: what the repository   *)
(* check finds not booked (checkCompletedWithoutLedger) the audit of the run *)
(* has not found booked (consumption_audit), and it credits no call that the *)
(* gate does not count.                                                      *)
THEOREM UnbookedRunsAlwaysAgree == Spec => []UnbookedRunsAgree
<1>1. ASSUME AuditInv, NEW p \in Projects,
             <<"completed-no-ledger", p>> \in RepoStaleness({q \in Projects : Named(q)})
      PROVE  audit[p] \in {"off", "due", "no_csvs", "missing_ledger"}
  <2>1. p \in CompletedWithoutLedger({q \in Projects : Named(q)})
    BY <1>1 DEF RepoStaleness, StaleWarnings
  <2>2. ~Named(p)
    BY <2>1 DEF CompletedWithoutLedger
  <2>3. ledger[p].named \in Nat /\ ledger[p].unordered \in Nat
    BY <1>1 DEF AuditInv, LedgersInv, Ledger
  <2>4. ~(ledger[p].named > 0)
    BY <2>2, <2>3 DEF Named
  <2> QED BY <1>1, <2>4 DEF AuditInv, Credits
<1>2. ASSUME AuditInv, NEW p \in Projects PROVE Credited(ledger[p]) <= LineTotal(ledger[p])
  BY <1>2 DEF AuditInv, LedgersInv, Ledger, Credited, LineTotal
<1>3. AuditInv => UnbookedRunsAgree
  BY <1>1, <1>2 DEF UnbookedRunsAgree
<1> QED BY <1>3, AuditInvariance, PTL

-----------------------------------------------------------------------------
(* The types.  Beside them, a record is one for each project, and what is   *)
(* in the tree is finite, as lines are written one by one.                  *)
TreeInv ==
  /\ TypeOK /\ DOMAIN record = Projects
  /\ IsFiniteSet(dirty) /\ IsFiniteSet(landed)

LEMMA ChangedField ==
  ASSUME NEW r, IsRecord(r), NEW f \in DOMAIN Field, NEW v \in Field[f]
  PROVE  IsRecord([r EXCEPT ![f] = v])
BY DEF IsRecord

LEMMA WriteKeepsTree ==
  ASSUME TreeInv, NEW c, Write(c)
  PROVE  /\ dirty' \subseteq Change /\ IsFiniteSet(dirty') /\ edits' \in 0 .. MaxEdits
         /\ phase = "work"
<1>1. c \in Change /\ dirty \subseteq Change /\ IsFiniteSet(dirty)
  BY WorkConstants DEF Write, TreeInv, TypeOK
<1>2. dirty' = dirty \cup {c} /\ phase = "work" /\ edits' = edits + 1 /\ edits < MaxEdits
  BY DEF Write
<1>3. IsFiniteSet(dirty \cup {c})
  BY <1>1, FS_AddElement
<1>4. edits' \in 0 .. MaxEdits
  BY <1>2, WorkConstants DEF TreeInv, TypeOK
<1> QED BY <1>1, <1>2, <1>3, <1>4

LEMMA EditKeepsTree == ASSUME TreeInv, NEW c, Edit(c) PROVE TreeInv'
<1>1. Write(c)
  BY DEF Edit
<1> QED BY <1>1, WriteKeepsTree DEF TreeInv, TypeOK, Edit

LEMMA EditFieldKeepsTree ==
  ASSUME TreeInv, NEW p \in Projects, NEW f \in DOMAIN Field, NEW v \in Field[f],
         EditField(p, f, v)
  PROVE  TreeInv'
<1>1. Write(<<p, "fields">>)
  BY DEF EditField
<1>2. record' = [record EXCEPT ![p] = [record[p] EXCEPT ![f] = v]]
  BY DEF EditField
<1>3. DOMAIN record' = Projects /\ \A q \in Projects : IsRecord(record'[q])
  <2>1. IsRecord([record[p] EXCEPT ![f] = v])
    BY ChangedField DEF TreeInv, TypeOK
  <2> HIDE DEF IsRecord
  <2> QED BY <1>2, <2>1 DEF TreeInv, TypeOK
<1> QED BY <1>1, <1>3, WriteKeepsTree DEF TreeInv, TypeOK, EditField

LEMMA BookKeepsTree ==
  ASSUME TreeInv, NEW p \in Projects, NEW layout \in {"named", "session", "unordered"},
         NEW amount \in Amounts, Book(p, layout, amount)
  PROVE  TreeInv'
<1>1. Write(<<p, "entry">>)
  BY DEF Book
<1>2. ledger' \in [Projects -> Ledger]
  BY BookKeepsLedgers DEF TreeInv, TypeOK, LedgersInv
<1> QED BY <1>1, <1>2, WriteKeepsTree DEF TreeInv, TypeOK, Book

(* The runner's files. *)
LEMMA OutputKinds ==
  \A p \in Projects : <<p, "progress">> \in Change /\ <<p, "results">> \in Change
BY DEF Change, OtherFileOf

LEMMA LaunchKeepsTree ==
  ASSUME TreeInv, NEW p \in Projects, NEW F, NEW detach, NEW left,
         Launch(p, F, detach, left)
  PROVE  TreeInv'
<1>1. dirty' = dirty \cup {<<p, "progress">>}
  BY DEF Launch
<1>2. dirty' \subseteq Change /\ IsFiniteSet(dirty')
  BY <1>1, OutputKinds, FS_AddElement DEF TreeInv, TypeOK
<1>3. /\ progress' = [progress EXCEPT ![p] = "running"] /\ ran' = ran \cup {p}
      /\ audit' \in {[audit EXCEPT ![p] = "due"], [audit EXCEPT ![p] = "off"]}
      /\ phase = "work"
  BY DEF Launch
<1>4. /\ progress' \in [Projects -> {"none", "running", "completed", "failed"}]
      /\ ran' = {q \in Projects : progress'[q] # "none"}
  BY <1>3 DEF TreeInv, TypeOK
<1>5. /\ audit' \in [Projects -> {"off", "due", "no_csvs", "missing_ledger",
                                   "discrepancy", "ok"}]
      /\ \A q \in Projects : audit'[q] = "due" => progress'[q] = "running"
  BY <1>3 DEF TreeInv, TypeOK
<1> QED BY <1>2, <1>4, <1>5 DEF TreeInv, TypeOK, Launch

LEMMA RunnerEndsKeepsTree ==
  ASSUME TreeInv, NEW p \in Projects, NEW end \in {"completed", "failed"},
         NEW made \in BOOLEAN, RunnerEnds(p, end, made)
  PROVE  TreeInv'
<1>1. PICK x \in Change : dirty' = dirty \cup {<<p, "progress">>} \cup {x}
  <2>1. CASE made
    BY <2>1, OutputKinds DEF RunnerEnds
  <2>2. CASE ~made
    BY <2>2, OutputKinds DEF RunnerEnds
  <2> QED BY <2>1, <2>2
<1>2. dirty' \subseteq Change /\ IsFiniteSet(dirty')
  <2>1. IsFiniteSet(dirty \cup {<<p, "progress">>})
    BY FS_AddElement DEF TreeInv
  <2>2. IsFiniteSet(dirty \cup {<<p, "progress">>} \cup {x})
    BY <2>1, FS_AddElement
  <2> QED BY <1>1, <2>2, OutputKinds DEF TreeInv, TypeOK
<1>3. progress' = [progress EXCEPT ![p] = end] /\ progress[p] = "running" /\ ran' = ran
      /\ phase' = phase
  BY DEF RunnerEnds
<1>4. /\ progress' \in [Projects -> {"none", "running", "completed", "failed"}]
      /\ ran' = {q \in Projects : progress'[q] # "none"}
  BY <1>3 DEF TreeInv, TypeOK
<1>5. PICK found \in {"no_csvs", "missing_ledger", "discrepancy", "ok"} :
        audit' = [audit EXCEPT ![p] = IF @ = "off" THEN @ ELSE found]
  <2> DEFINE results == made \/ p \in With(Tree, {"results"})
             found == AuditStatus(results, ledger[p], Derived)
  <2>1. found \in {"no_csvs", "missing_ledger", "discrepancy", "ok"}
    BY DEF AuditStatus
  <2>2. audit' = [audit EXCEPT ![p] = IF @ = "off" THEN @ ELSE found]
    BY DEF RunnerEnds
  <2> HIDE DEF found
  <2> QED BY <2>1, <2>2
<1>6. /\ audit' \in [Projects -> {"off", "due", "no_csvs", "missing_ledger",
                                   "discrepancy", "ok"}]
      /\ \A q \in Projects : audit'[q] = "due" => progress'[q] = "running"
  BY <1>3, <1>5 DEF TreeInv, TypeOK
<1> QED BY <1>2, <1>4, <1>6 DEF TreeInv, TypeOK, RunnerEnds

LEMMA LandKeepsTree ==
  ASSUME TreeInv, NEW F, Land(F),
         UNCHANGED <<record, progress, phase, seen, verdict, ran, audit, ledger, edits>>
  PROVE  TreeInv'
<1>1. /\ commits' = commits + 1 /\ commits < MaxCommits
      /\ landed' = landed \cup {c \in dirty : FileOf(c) \in F}
      /\ dirty' = {c \in dirty : FileOf(c) \notin F}
  BY DEF Land
<1>2. IsFiniteSet(dirty') /\ IsFiniteSet(landed')
  <2>1. IsFiniteSet({c \in dirty : FileOf(c) \in F}) /\ IsFiniteSet({c \in dirty : FileOf(c) \notin F})
    BY FS_Subset DEF TreeInv
  <2> QED BY <1>1, <2>1, FS_Union DEF TreeInv
<1>3. commits' \in 0 .. MaxCommits
  BY <1>1, WorkConstants DEF TreeInv, TypeOK
<1> QED BY <1>1, <1>2, <1>3 DEF TreeInv, TypeOK

LEMMA InitOfTree == Init => TreeInv
<1> SUFFICES ASSUME Init PROVE TreeInv
  OBVIOUS
<1>1. IsFiniteSet(dirty) /\ IsFiniteSet(landed)
  BY FS_EmptySet DEF Init
<1>2. DOMAIN record = Projects /\ \A p \in Projects : IsRecord(record[p])
  BY WorkConstants DEF Init
<1>3. commits \in 0 .. MaxCommits /\ edits \in 0 .. MaxEdits
  BY WorkConstants DEF Init
<1>4. ledger \in [Projects -> Ledger]
  BY DEF Init, Ledger
<1> QED BY <1>1, <1>2, <1>3, <1>4 DEF Init, TreeInv, TypeOK

LEMMA LooksKeepTree ==
  ASSUME TreeInv,
         \/ CheckTree
         \/ \E cost, huge \in BOOLEAN : CheckCommits(cost, huge)
         \/ UNCHANGED vars
  PROVE  TreeInv'
<1>1. UNCHANGED <<dirty, landed, commits, record, progress, ran, audit, ledger, edits>>
  BY DEF CheckTree, CheckCommits, vars
<1>2. /\ phase' \in {"work", "checking", "verified"}
      /\ phase' = "work" => seen' = {}
      /\ phase' # "verified" => verdict' = {}
  BY DEF TreeInv, TypeOK, CheckTree, CheckCommits, vars
<1> QED BY <1>1, <1>2 DEF TreeInv, TypeOK

LEMMA TreeInvariance == Spec => []TreeInv
<1>1. ASSUME TreeInv, [Next]_vars PROVE TreeInv'
  <2>1. CASE \E c \in Writable : Edit(c)
    BY <1>1, <2>1, EditKeepsTree
  <2>2. CASE \E p \in Projects, f \in DOMAIN Field : \E v \in Field[f] : EditField(p, f, v)
    BY <1>1, <2>2, EditFieldKeepsTree
  <2>3. CASE \E p \in Projects, l \in {"named", "session", "unordered"}, a \in Amounts :
               Book(p, l, a)
    BY <1>1, <2>3, BookKeepsTree
  <2>4. CASE \E p \in Projects : \E F \in Flags[p], detach \in BOOLEAN, left \in Left :
               Launch(p, F, detach, left)
    BY <1>1, <2>4, LaunchKeepsTree
  <2>5. CASE \E p \in Projects, end \in {"completed", "failed"} :
               \E made \in BOOLEAN : RunnerEnds(p, end, made)
    BY <1>1, <2>5, RunnerEndsKeepsTree
  <2>6. CASE (\E F \in SUBSET Files(dirty) : Commit(F)) \/ OtherCommits
    <3>1. PICK F : /\ Land(F)
                   /\ UNCHANGED <<record, progress, phase, seen, verdict, ran, audit, ledger,
                                  edits>>
      BY <2>6 DEF Commit, OtherCommits
    <3> QED BY <1>1, <3>1, LandKeepsTree
  <2>7. CASE CheckTree \/ (\E cost, huge \in BOOLEAN : CheckCommits(cost, huge))
               \/ UNCHANGED vars
    BY <1>1, <2>7, LooksKeepTree
  <2> QED BY <1>1, <2>1, <2>2, <2>3, <2>4, <2>5, <2>6, <2>7 DEF Next
<1> QED BY <1>1, InitOfTree, PTL DEF Spec

(* WorkSession: the types hold for any projects, edits, runs and commits.   *)
(* Among them, no look says anything before its time, the projects that ran *)
(* are those with a progress file, and an audit is due of a live run only.  *)
THEOREM WorkTypesHold == Spec => []TypeOK
<1> QED BY TreeInvariance, PTL DEF TreeInv

-----------------------------------------------------------------------------
(* Nothing moves after the last look. *)
BlockerInv ==
  /\ TreeInv
  /\ landed # {} => commits > 0
  /\ UnsupportedBlockerIsReported

LEMMA LeastOfOne == ASSUME NEW p \in Nat PROVE Min({p}) = p
BY DEF Min

(* The last look finds the blocker without evidence, when its TASKS.md is   *)
(* the only one of the range.                                               *)
LEMMA LookFindsBlocker ==
  ASSUME TreeInv, landed # {} => commits > 0, NEW cost, NEW huge,
         NEW c \in In(landed, {"external"}), With(landed, {"TASKS"}) = {c[1]},
         <<c[1], "diagnosis">> \notin Files(Tree), record[c[1]].status \notin {"failed", "abandoned"}
  PROVE  <<"blocker", c>> \in CommitWarnings(cost, huge)
<1>1. c \in landed /\ c[1] \in Projects /\ c[1] \in Nat
  BY WorkConstants DEF In, TreeInv, TypeOK, Change
<1>2. Min(With(landed, {"TASKS"})) = c[1]
  BY <1>1, LeastOfOne
<1>3. ~HasEvidence(c[1])
  BY DEF HasEvidence, With
<1>4. <<"blocker", c>> \in BlockerWarnings
  BY <1>2, <1>3 DEF BlockerWarnings, ExternalTags
<1> QED BY <1>1, <1>4 DEF CommitWarnings, HasCommit

LEMMA BlockerStep == BlockerInv /\ TreeInv' /\ [Next]_vars => BlockerInv'
<1> SUFFICES ASSUME BlockerInv, TreeInv', [Next]_vars PROVE BlockerInv'
  OBVIOUS
<1>1. CASE UNCHANGED vars
  BY <1>1 DEF BlockerInv, UnsupportedBlockerIsReported, Tree, vars
<1>2. CASE \E cost, huge \in BOOLEAN : CheckCommits(cost, huge)
  <2>1. PICK cost \in BOOLEAN, huge \in BOOLEAN : CheckCommits(cost, huge)
    BY <1>2
  <2>2. /\ UNCHANGED <<dirty, landed, commits, record>>
        /\ verdict' = CommitWarnings(cost, huge)
    BY <2>1 DEF CheckCommits
  <2>3. UnsupportedBlockerIsReported'
    <3> SUFFICES ASSUME NEW c \in In(landed, {"external"}), With(landed, {"TASKS"}) = {c[1]},
                        <<c[1], "diagnosis">> \notin Files(Tree), record[c[1]].status \notin {"failed", "abandoned"}
                 PROVE  <<"blocker", c>> \in verdict'
      BY <2>2 DEF UnsupportedBlockerIsReported, Tree, In, With, Files
    <3> QED BY <2>2, LookFindsBlocker DEF BlockerInv
  <2> QED BY <2>2, <2>3 DEF BlockerInv
<1>3. ASSUME NEW F, Land(F), phase' # "verified" PROVE BlockerInv'
  BY <1>3, WorkConstants DEF Land, BlockerInv, TreeInv, TypeOK, UnsupportedBlockerIsReported
<1>4. CASE UNCHANGED <<landed, commits>> /\ phase' # "verified"
  BY <1>4 DEF BlockerInv, UnsupportedBlockerIsReported
<1>5. \/ UNCHANGED vars \/ \E cost, huge \in BOOLEAN : CheckCommits(cost, huge)
      \/ \E F : Land(F) /\ phase' # "verified"
      \/ UNCHANGED <<landed, commits>> /\ phase' # "verified"
  BY DEF Next, Edit, EditField, Book, Write, Launch, RunnerEnds, Commit, OtherCommits, CheckTree
<1> QED BY <1>1, <1>2, <1>3, <1>4, <1>5

LEMMA BlockerInvariance == Spec => []BlockerInv
<1>1. Init /\ TreeInv => BlockerInv
  BY DEF Init, BlockerInv, UnsupportedBlockerIsReported
<1> QED BY <1>1, BlockerStep, InitOfTree, TreeInvariance, PTL DEF Spec, BlockerInv

(* checkBlockedByExternalTags, which puts every blocker down to the first   *)
(* project of the diff: where the range has one TASKS.md, no task of it is  *)
(* blocked on something external without a warning, unless its project has  *)
(* a diagnosis or an experiment that failed or was abandoned.               *)
THEOREM BlockersAreReported == Spec => []UnsupportedBlockerIsReported
<1> QED BY BlockerInvariance, PTL DEF BlockerInv

-----------------------------------------------------------------------------
(* Verifier and validator.  Of the warnings of the last look, those of a    *)
(* footer come from FooterWarnings alone.                                   *)
CutInv ==
  /\ phase # "verified" => verdict = {}
  /\ \A w \in verdict : w[1] = "cut-footer" => w[2] \in FooterIssues

LEMMA OtherTags ==
  ASSUME NEW cost, NEW huge
  PROVE  \A w \in CommitWarnings(cost, huge) : w[1] = "cut-footer" => w \in FooterWarnings
<1> DEFINE Other(S) == \A w \in S : w[1] # "cut-footer"
<1>1. Other(When(LogEntries = {}, <<"no-log-entry">>))
  BY DEF When
<1>2. Other(LedgerWarnings(cost))
  BY DEF LedgerWarnings
<1>3. Other(FireAndForget)
  BY DEF FireAndForget
<1>4. Other(TierOneWarnings(huge))
  <2>1. Other(PartialCompletions) /\ Other(FalseCompletions) /\ Other(LayoutViolations)
    BY DEF PartialCompletions, FalseCompletions, LayoutViolations
  <2>2. Other(UnverifiedNotes) /\ Other(MissingRationale)
    BY DEF UnverifiedNotes, MissingRationale
  <2>3. Other(RecordWarnings)
    BY DEF RecordWarnings, ModelIssues, When
  <2> QED BY <2>1, <2>2, <2>3 DEF TierOneWarnings
<1>5. Other(VisualWarnings) /\ Other(FindingWarnings)
  BY DEF VisualWarnings, FindingWarnings, When
<1>6. Other(ImplicationWarnings(huge)) /\ Other(BlockerWarnings)
  BY DEF ImplicationWarnings, BlockerWarnings
<1>7. Other(IncrementalWarnings) /\ Other(StaleWarnings)
  BY DEF IncrementalWarnings, StaleWarnings, When
<1> QED BY <1>1, <1>2, <1>3, <1>4, <1>5, <1>6, <1>7 DEF CommitWarnings

LEMMA OnlyFootersCut ==
  ASSUME NEW cost, NEW huge, NEW w \in CommitWarnings(cost, huge), w[1] = "cut-footer"
  PROVE  w[2] \in FooterIssues
<1>1. w \in FooterWarnings
  BY OtherTags
<1>2. PICK p \in LogEntries : w = <<"cut-footer", p>> /\ Footer(p) = "cut"
  <2>1. w \in {<<"cut-footer", p>> : p \in {q \in LogEntries : Footer(q) = "cut"}}
    BY <1>1 DEF FooterWarnings, When
  <2> QED BY <2>1
<1>3. p \in Projects /\ w[2] = p
  BY <1>2 DEF LogEntries, With
<1>4. ValidatedFooter(p) = "cut"
  BY <1>2 DEF Footer, ValidatedFooter, Has
<1> QED BY <1>3, <1>4 DEF FooterIssues

LEMMA CutStep == CutInv /\ TreeInv /\ [Next]_vars => CutInv'
<1> SUFFICES ASSUME CutInv, TreeInv, [Next]_vars PROVE CutInv'
  OBVIOUS
<1>1. CASE UNCHANGED vars
  BY <1>1 DEF CutInv, FooterIssues, ValidatedFooter, Has, Tree, vars
<1>2. CASE \E cost, huge \in BOOLEAN : CheckCommits(cost, huge)
  <2>1. PICK cost \in BOOLEAN, huge \in BOOLEAN : CheckCommits(cost, huge)
    BY <1>2
  <2>2. UNCHANGED <<dirty, landed>> /\ verdict' = CommitWarnings(cost, huge)
        /\ phase' = "verified"
    BY <2>1 DEF CheckCommits
  <2>3. FooterIssues' = FooterIssues
    BY <2>2 DEF FooterIssues, ValidatedFooter, Has, Tree
  <2> QED BY <2>2, <2>3, OnlyFootersCut DEF CutInv
<1>3. CASE verdict' = verdict /\ phase # "verified" /\ phase' # "verified"
  BY <1>3 DEF CutInv
<1>4. \/ UNCHANGED vars \/ \E cost, huge \in BOOLEAN : CheckCommits(cost, huge)
      \/ verdict' = verdict /\ phase # "verified" /\ phase' # "verified"
  BY DEF Next, Edit, EditField, Book, Write, Launch, RunnerEnds, Commit, OtherCommits, CheckTree
<1> QED BY <1>1, <1>2, <1>3, <1>4

(* For any record and any footer: verify.ts and validate.py miss the same   *)
(* module metadata and the same models, and what verify.ts says of a Model: *)
(* line, where Config or Method has text, or of a footer validate.py says   *)
(* too.                                                                     *)
THEOREM ValidatorAlwaysAgrees == Spec => []ValidatorAgrees
<1>1. ASSUME NEW p \in Projects
      PROVE  /\ RecordIssues(record[p]) \cap {"module", "artifacts_dir"}
                   = ModuleMetadataIssues(record[p])
             /\ "model-missing" \in RecordIssues(record[p]) <=>
                  "model-missing" \in ModelIssues(record[p])
             /\ "model-line-missing" \in ModelIssues(record[p]) /\ ConfigText(record[p]) =>
                  "model-line-missing" \in RecordIssues(record[p])
  BY DEF ConfigText, RecordIssues, RecordErrors, ModuleMetadataIssues, RequiresModuleMetadata,
         ModelIssues, When
<1>2. CutInv => ValidatorAgrees
  BY <1>1 DEF CutInv, ValidatorAgrees
<1>3. Init => CutInv
  BY DEF Init, CutInv
<1> QED BY <1>2, <1>3, CutStep, TreeInvariance, PTL DEF Spec

-----------------------------------------------------------------------------
(* The efficiency report.  A count of nothing means that nothing is there,  *)
(* as the range is finite.                                                  *)
LEMMA NoneCounted ==
  ASSUME NEW S, IsFiniteSet(S), Cardinality(S) = 0
  PROVE  S = {}
BY FS_EmptySet

LEMMA FilesFinite == ASSUME IsFiniteSet(landed) PROVE IsFiniteSet(Files(landed))
<1> DEFINE f == [c \in landed |-> FileOf(c)]
<1>1. f \in Surjection(landed, Files(landed))
  BY DEF Surjection, Files
<1> QED BY <1>1, FS_Surjection

(* A task or a finding in the range shows in another count of the diff.     *)
LEMMA WorkIsCounted ==
  ASSUME TreeInv, IsZeroKnowledge(KnowledgeInDiff)
  PROVE  /\ KnowledgeInDiff.tasks = 0
         /\ \A p \in Projects : FindingsOf(p) = 0
<1>1. /\ KnowledgeInDiff.findings = 0 /\ KnowledgeInDiff.logFindings = 0
      /\ KnowledgeInDiff.structural = 0
  BY DEF IsZeroKnowledge, KnowledgeInDiff
<1>2. /\ Count({"bareFinding", "sourcedFinding"}) = 0 /\ Count({"logFinding", "diagnosis"}) = 0
      /\ Cardinality(StructuralFiles) = 0
  BY <1>1 DEF KnowledgeInDiff
<1>3. \A Ls : IsFiniteSet(In(landed, Ls))
  BY FS_Subset DEF TreeInv, In
<1>4. StructuralFiles = {}
  <2>1. IsFiniteSet(StructuralFiles)
    BY FilesFinite, FS_Subset DEF StructuralFiles, TreeInv
  <2> QED BY <1>2, <2>1, NoneCounted
<1>5. In(landed, {"bareFinding", "sourcedFinding"}) = {} /\ In(landed, {"logFinding", "diagnosis"}) = {}
  BY <1>2, <1>3, NoneCounted DEF Count
<1>6. In(landed, {"task", "external"}) = {}
  <2> SUFFICES ASSUME NEW c \in In(landed, {"task", "external"}) PROVE FALSE
    OBVIOUS
  <2>1. c \in landed /\ c[2] \in {"task", "external"}
    BY DEF In
  <2>2. FileOf(c)[2] = "TASKS"
    BY <2>1 DEF FileOf, MdFileOf
  <2>3. FileOf(c) \in StructuralFiles
    BY <2>1, <2>2 DEF StructuralFiles, Files
  <2> QED BY <1>4, <2>3
<1>7. KnowledgeInDiff.tasks = 0
  BY <1>6, FS_EmptySet DEF KnowledgeInDiff, Count
<1>8. ASSUME NEW p \in Projects PROVE FindingsOf(p) = 0
  <2>1. {c \in In(landed, {"bareFinding", "sourcedFinding", "logFinding"}) : c[1] = p} = {}
    BY <1>5 DEF In
  <2> QED BY <2>1, FS_EmptySet DEF FindingsOf
<1> QED BY <1>7, <1>8

(* What is left of a README, a task list or a ledger is somebody's to       *)
(* commit.                                                                  *)
LEMMA WasteLeavesNothing ==
  ASSUME TreeInv, landed # {} => commits > 0, NEW huge, IsGenuineWaste(huge)
  PROVE  landed = {} /\ With(dirty, {"README", "TASKS", "ledger"}) = {}
<1>1. OrphanedFiles = {} /\ ~(HasCommit /\ FilesChanged > 0)
  BY DEF IsGenuineWaste
<1>2. landed = {}
  <2> SUFFICES ASSUME NEW c \in landed PROVE FALSE
    OBVIOUS
  <2>1. FileOf(c) \in Files(landed) /\ IsFiniteSet(Files(landed))
    BY FilesFinite DEF Files, TreeInv
  <2>2. Cardinality(Files(landed)) \in Nat /\ Cardinality(Files(landed)) # 0
    BY <2>1, FS_CardinalityType, NoneCounted
  <2> QED BY <1>1, <2>2 DEF HasCommit, FilesChanged
<1>3. With(dirty, {"README", "TASKS", "ledger"}) = {}
  <2> SUFFICES ASSUME NEW p \in Projects, NEW f \in {"README", "TASKS", "ledger"},
                      <<p, f>> \in Files(dirty)
               PROVE  FALSE
    BY DEF With
  <2>1. Tracked(<<p, f>>)
    BY DEF Tracked
  <2>2. <<p, f>> \in OrphanedFiles
    BY <2>1 DEF OrphanedFiles
  <2> QED BY <1>1, <2>2
<1> QED BY <1>2, <1>3

(* report/data-sources.ts: for any range and any tree, a session called     *)
(* knowledge-free from a readable diff has landed no task and no finding,   *)
(* and one called waste has landed nothing and left nothing of a README, a  *)
(* task list or a ledger behind.                                            *)
THEOREM WasteIsNeverWork == Spec => []WasteIsNoWork
<1>1. BlockerInv => WasteIsNoWork
  <2> SUFFICES ASSUME BlockerInv PROVE WasteIsNoWork
    OBVIOUS
  <2>1. ASSUME IsZeroKnowledge(Knowledge(FALSE)), HasCommit
        PROVE  Knowledge(FALSE).tasks = 0 /\ \A p \in Projects : FindingsOf(p) = 0
    <3>1. Knowledge(FALSE) = KnowledgeInDiff
      BY <2>1 DEF Knowledge
    <3> QED BY <2>1, <3>1, WorkIsCounted DEF BlockerInv
  <2>2. \A huge \in BOOLEAN : IsGenuineWaste(huge) =>
          landed = {} /\ With(dirty, {"README", "TASKS", "ledger"}) = {}
    BY WasteLeavesNothing DEF BlockerInv
  <2> QED BY <2>1, <2>2 DEF WasteIsNoWork
<1> QED BY <1>1, BlockerInvariance, PTL
=============================================================================
