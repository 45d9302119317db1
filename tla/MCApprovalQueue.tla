--------------------------- MODULE MCApprovalQueue ---------------------------
EXTENDS ApprovalQueue

(* The task "buy" has a word twice that is in the title of the other one's  *)
(* request, so the verifier takes that request for its own; the words of    *)
(* "run" are in their title as parts of words, which the validator misses.  *)
MCText == ("run" :> "full sweep test on gpu") @@ ("buy" :> "buy more credit or more time")
MCTitle == ("run" :> "testing more sweeps") @@ ("buy" :> "more credit this week")
MCWords ==
  ("full sweep test on gpu" :> <<"full", "sweep", "test">>) @@
  ("testing more sweeps" :> <<"testing", "more", "sweeps">>) @@
  ("buy more credit or more time" :> <<"more", "credit", "more", "time">>) @@
  ("more credit this week" :> <<"more", "credit", "this", "week">>)
MCSubstring ==
  UNION {{<<w, s>> : w \in Range(MCWords[s])} : s \in DOMAIN MCWords}
  \cup {<<"sweep", "testing more sweeps">>, <<"test", "testing more sweeps">>}
=============================================================================
