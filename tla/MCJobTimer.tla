----------------------------- MODULE MCJobTimer -----------------------------
EXTENDS JobTimer, TLC

(* Two expressions, one of them in two zones; a second is two ticks of the  *)
(* model's clock.  The last occurrence of "e2" lies inside the bound, so    *)
(* croner's null is reached as well.                                        *)
MCOccurrences ==
  (<<"e1", "UTC">> :> {4, 8, 12, 16} @@ <<"e1", "PST">> :> {6, 10, 14}
     @@ <<"e2", "UTC">> :> {5, 6})

MCIntervals ==
  [kind : {"every"}, everyMs : {1, 3, 4}, anchorMs : {0, 2, 7, 20, NoTime}]
MCCrons == [kind : {"cron"}, expr : DOMAIN MCOccurrences]
MCSchedules == MCIntervals \cup MCCrons
=============================================================================
