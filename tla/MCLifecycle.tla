---------------------------- MODULE MCLifecycle ----------------------------
EXTENDS Lifecycle, TLC

CONSTANTS d1, d2, a1, a2, o1, o2

(* Two starts, each with its own child, and two stops. *)
MCChildOf == (a1 :> d1 @@ a2 :> d2)
=============================================================================
