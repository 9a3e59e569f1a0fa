---------------------------- MODULE LifecycleOps -----------------------------
(***************************************************************************)
(* The per-key operations of signals/lifecycle.py as functions on one      *)
(* entry of the tracker's dictionary.  A key that the dictionary does not  *)
(* hold has the entry Untracked.  TrackedSetup.first_seen is written and   *)
(* never read by any code, so an entry leaves it out; times are seconds.   *)
(*                                                                         *)
(* A definition marked "Slip" is a plausible mistake in the operation that *)
(* follows it, used by mutation runs only.                                 *)
(***************************************************************************)
EXTENDS Integers

CONSTANT Cooldown       \* reentry_cooldown_seconds, any value >= 0

ASSUME CooldownAssumption == Cooldown \in Nat

TerminalStates    == {"TARGET", "INVALIDATED", "EXPIRED"}
PreTriggerStates  == {"SCANNING", "SETUP_FORMING", "WATCH"}
PostTriggerStates == {"TRIGGERED", "CONFIRMED", "ACTIVE"}
LifecycleStates   == TerminalStates \cup PreTriggerStates \cup PostTriggerStates

Untracked == [state |-> "UNTRACKED", tier |-> 0, last_seen |-> 0]

Entries(Tiers, Times) ==
  [state : LifecycleStates, tier : Tiers, last_seen : Times] \cup {Untracked}

Terminal(e) == e.state \in TerminalStates

IsCoolingDown(e, as_of) == Terminal(e) /\ as_of - e.last_seen < Cooldown

(***************************************************************************)
(* A terminal entry whose cooldown is over is forgotten before anything    *)
(* else is decided: "this identity may start fresh again".                 *)
(***************************************************************************)
Existing(e, as_of) ==
  IF Terminal(e) /\ ~IsCoolingDown(e, as_of) THEN Untracked ELSE e

\* Slip: a tier-1 sighting does not demote a setup that has triggered.
ClimbWithoutDemotion(e, tier) ==
  IF tier <= 0                          THEN "SETUP_FORMING"
  ELSE IF e.state \in PreTriggerStates \cup {"UNTRACKED"}
       THEN IF tier = 1 THEN "WATCH" ELSE "TRIGGERED"
  ELSE IF e.state = "TRIGGERED"         THEN "CONFIRMED"
  ELSE "ACTIVE"

(***************************************************************************)
(* The ladder an evidence update climbs.  Tier 0 and tier 1 put the entry  *)
(* back to SETUP_FORMING and WATCH from any rung.                          *)
(***************************************************************************)
Climb(e, tier) ==
  IF tier <= 0                          THEN "SETUP_FORMING"
  ELSE IF tier = 1                      THEN "WATCH"
  ELSE IF e.state \in PreTriggerStates \cup {"UNTRACKED"} THEN "TRIGGERED"
  ELSE IF e.state = "TRIGGERED"         THEN "CONFIRMED"
  ELSE "ACTIVE"

Verdicts == {"none", "invalidated", "targeted"}

NewState(existing, tier, verdict) ==
  IF verdict = "invalidated"   THEN "INVALIDATED"
  ELSE IF verdict = "targeted" THEN "TARGET"
  ELSE Climb(existing, tier)

\* Slip: a sighting while cooling down refreshes last_seen.
UpdateRefreshing(e, tier, as_of, verdict) ==
  IF IsCoolingDown(e, as_of) /\ verdict = "none"
  THEN [e EXCEPT !.last_seen = as_of]
  ELSE [state |-> NewState(Existing(e, as_of), tier, verdict),
        tier |-> tier, last_seen |-> as_of]

\* Slip, the tracker's original behaviour: a concluded setup starts fresh at
\* the next update.
UpdateResurrecting(e, tier, as_of, verdict) ==
  [state |-> NewState(IF Terminal(e) THEN Untracked ELSE e, tier, verdict),
   tier |-> tier, last_seen |-> as_of]

(***************************************************************************)
(* update(): an evidence update while cooling down changes nothing; a      *)
(* verdict (invalidated or targeted) is recorded in every case.            *)
(***************************************************************************)
Update(e, tier, as_of, verdict) ==
  IF IsCoolingDown(e, as_of) /\ verdict = "none" THEN e
  ELSE [state |-> NewState(Existing(e, as_of), tier, verdict),
        tier |-> tier, last_seen |-> as_of]

\* Slip: no default for the tier of a key the tracker does not hold.
ForceExpireNoDefault(e, as_of) ==
  IF Terminal(e) THEN e
  ELSE [state |-> "EXPIRED", tier |-> IF e = Untracked THEN -1 ELSE e.tier,
        last_seen |-> as_of]

\* Slip: the entry expires with the time it was last seen, as in expire_stale.
ForceExpireKeepingLastSeen(e, as_of) ==
  IF Terminal(e) THEN e
  ELSE [state |-> "EXPIRED", tier |-> e.tier, last_seen |-> e.last_seen]

(***************************************************************************)
(* force_expire(): EXPIRED unless already terminal, cooling down or not.   *)
(***************************************************************************)
ForceExpire(e, as_of) ==
  IF Terminal(e) THEN e
  ELSE [state |-> "EXPIRED", tier |-> e.tier, last_seen |-> as_of]

(***************************************************************************)
(* expire_stale() on one entry: EXPIRED, with its old last_seen.           *)
(***************************************************************************)
IsStale(e, as_of, max_age) ==
  /\ e.state \in PreTriggerStates \cup PostTriggerStates
  /\ as_of - e.last_seen > max_age

ExpireStale(e, as_of, max_age) ==
  IF IsStale(e, as_of, max_age) THEN [e EXCEPT !.state = "EXPIRED"] ELSE e

IsRepeat(e, tier) == e.tier = tier /\ e.state \in PostTriggerStates
=============================================================================
