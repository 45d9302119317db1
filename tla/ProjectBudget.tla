---------------------------- MODULE ProjectBudget ----------------------------
(***************************************************************************)
(* The three readers of budget.yaml and ledger.yaml: check_budget, the     *)
(* gate of the experiment runner; validate_budget of the validator; and    *)
(* readBudgetStatus behind the Slack reports; and consumption_audit, which *)
(* the runner makes of one experiment.  A ledger is three totals: of the   *)
(* entries that name the experiment and the resource before the amount, of *)
(* those of a session, without an experiment, and of the entries that name *)
(* their resource after the amount, which the line-based readers do not    *)
(* see.  Every entry begins with its date.  There is one resource, and one *)
(* experiment of the project; left says how far the deadline is.           *)
(***************************************************************************)
EXTENDS Integers

Ledger == [named : Nat, session : Nat, unordered : Nat]

(* How far the deadline is: at least 24 hours and a half, 24 hours, half an *)
(* hour, less than that, over.                                              *)
Left == {"days", "day", "hours", "minutes", "over"}

(* _parse_ledger_totals' loop in check_budget, accumulateLedgerTotals. *)
LineTotal(ledger) == ledger.named + ledger.session
(* yaml.safe_load. *)
YamlTotal(ledger) == LineTotal(ledger) + ledger.unordered

(* Faulty variant: the deadline does not shut the gate. *)
GateOpensPastDeadline(limit, ledger, left) == LineTotal(ledger) < limit

(* check_budget, without an estimate of the calls. *)
GateOpens(limit, ledger, left) == left # "over" /\ LineTotal(ledger) < limit

(* validate_budget: errors and warnings on totals and deadline. *)
BudgetErrors(limit, ledger, left) ==
  {e \in {"deadline", "exceeded"} :
     \/ e = "deadline" /\ left = "over"
     \/ e = "exceeded" /\ YamlTotal(ledger) > limit}
BudgetWarnings(limit, ledger, left) ==
  {w \in {"24h", "90 %"} :
     \/ w = "24h" /\ left \in {"minutes", "hours"}
     \/ w = "90 %" /\ limit > 0 /\ 10 * YamlTotal(ledger) >= 9 * limit
                   /\ YamlTotal(ledger) <= limit}

(* readBudgetStatus: Math.round of the share, 0 without a limit. *)
Percent(limit, ledger) ==
  IF limit > 0 THEN (200 * LineTotal(ledger) + limit) \div (2 * limit) ELSE 0

(* Faulty variant: totals by resource, whatever the experiment. *)
CreditedByResource(ledger) == ledger.named + ledger.session

(* _parse_ledger_totals: what is booked for the experiment. *)
Credited(ledger) == ledger.named

(* consumption_audit of a run whose CSV files stand for derived calls.  *)
AuditStatus(results, ledger, derived) ==
  IF ~results THEN "no_csvs"
  ELSE IF Credited(ledger) = 0 THEN "missing_ledger"
  ELSE IF Credited(ledger) = derived THEN "ok" ELSE "discrepancy"

(* buildBudgetBlocks. *)
ResourceIcon(limit, ledger) ==
  IF Percent(limit, ledger) >= 100 THEN "no_entry"
  ELSE IF Percent(limit, ledger) >= 90 THEN "warning" ELSE "green"
(* The hours left are rounded, half an hour up. *)
DeadlineIcon(left) ==
  IF left \in {"over", "minutes"} THEN "no_entry"
  ELSE IF left \in {"hours", "day"} THEN "warning" ELSE "calendar"
=============================================================================
