----------------------------- MODULE MCLifecycle -----------------------------
(***************************************************************************)
(* Instances of Lifecycle for TLC.  Two keys are enough for what a call on *)
(* one key could do to another; the tiers 0, 1 and 2 take the branches of  *)
(* update; the clock runs past two cooldowns.                              *)
(***************************************************************************)
EXTENDS Lifecycle

CONSTANTS k1, k2

MCKeys == {k1, k2}
=============================================================================
