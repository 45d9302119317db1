CONSTANTS
  Tasks = {"run", "buy"}
  Text <- MCText
  Title <- MCTitle
  Words <- MCWords
  Substring <- MCSubstring
  ByHand = {"modified"}
  MaxHeld = 1
  MaxCalls = 3
  MaxLines = 3
  MaxEntries = 2
SPECIFICATION Spec
INVARIANTS TypeOK StaleTagIsReportedTwice
PROPERTIES ReadRequestsAreKept DecisionSparesOthers
CHECK_DEADLOCK FALSE
