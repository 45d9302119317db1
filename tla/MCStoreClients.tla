--------------------------- MODULE MCStoreClients ---------------------------
EXTENDS StoreClients, TLC

CONSTANT c1

Every(n) == [kind |-> "every", everyMs |-> n, anchorMs |-> NoTime]
Cron(e, tz) == [kind |-> "cron", expr |-> <<e, tz>>]

MCOccurrences == (<<"e1", "UTC">> :> {2, 4} @@ <<"e1", "PST">> :> {3})

MCJob(s, next, fp) ==
  [enabled |-> TRUE, schedule |-> s, next |-> next, fingerprint |-> fp, runs |-> 0]

(* A list written by a version that kept no fingerprints. *)
MCLegacy == (1 :> MCJob(Every(2), 1, NoFingerprint))

MCTwoSchedules == {Every(2), Cron("e1", "UTC")}

(* Every client a process of its own: the CLI. *)
MCOwnProcess == [t \in Thread |-> t]
=============================================================================
