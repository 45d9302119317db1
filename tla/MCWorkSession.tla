---------------------------- MODULE MCWorkSession ----------------------------
EXTENDS WorkSession, TLC

planned == [status |-> "planned", type |-> "experiment", consumes |-> TRUE,
            module |-> TRUE, waiver |-> FALSE, artifacts |-> "modules",
            model |-> TRUE, backend |-> TRUE, modelLine |-> "Config",
            config |-> TRUE, sections |-> TRUE]
MCRecords == {planned}
MCFlags == (1 :> {{}, MandatoryFlags}) @@ (2 :> {MandatoryFlags})
MCLimit == (1 :> 10) @@ (2 :> 0)
(* Lines that are as another one to every property, or that only add        *)
(* warnings of their own.                                                   *)
MCUnwritten == {"verifiedNote", "note", "question", "decision", "skill", "sourcedFinding",
                "diagnosisAdvice", "advice", "oldProgress", "oldBlock", "doneBlock",
                "codeDone", "partial", "rationale", "page", "shot"}
MCWritable ==
  ({1} \X ((DOMAIN MdFileOf \cup DOMAIN OtherFileOf) \ MCUnwritten))
    \cup ({2} \X {"log", "external"})
=============================================================================
