------------------------- MODULE ExperimentValidator -------------------------
(***************************************************************************)
(* validate.py on what SessionChecks models: the front matter of a record  *)
(* and the footers of the READMEs.  An issue is an error or a warning; the *)
(* validator fails on errors only.                                         *)
(***************************************************************************)
EXTENDS SessionChecks

(* validate_experiment: type and resources, module metadata, sections.      *)
RecordErrors(r) ==
  When(r.type = "experiment" /\ ~r.consumes, "consumes_resources")
    \cup (IF r.type # "analysis" \/ r.consumes
          THEN When(~r.module, "module") \cup When(r.artifacts # "modules", "artifacts_dir")
          ELSE {})
    \cup When(~r.sections, "sections")

(* The provenance of the model: its Model: line is asked for in Config or   *)
(* Method, and only where these sections have text.                         *)
ConfigText(r) == r.config \/ r.modelLine = "Config"
RecordIssues(r) ==
  RecordErrors(r) \cup
  (IF ~r.consumes THEN {}
   ELSE When(r.status = "completed" /\ ~r.model, "model-missing")
        \cup When(r.status = "completed" /\ ~r.backend, "backend-missing")
        \cup When(/\ r.status \in {"completed", "running"}
                  /\ ConfigText(r) /\ r.modelLine # "Config", "model-line-missing"))

(* _parse_session_footer: a field without a value is no field.              *)
ValidatedFooter(p) ==
  IF Has(Tree, p, {"footer"}) THEN "whole"
  ELSE IF Has(Tree, p, {"cutFooter", "emptyFooter"}) THEN "cut" ELSE "none"

(* validate_session_footers: every README, changed or not.                  *)
FooterIssues == {p \in Projects : ValidatedFooter(p) = "cut"}
=============================================================================
