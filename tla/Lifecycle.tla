------------------------------ MODULE Lifecycle ------------------------------
(***************************************************************************)
(* LifecycleTracker of signals/lifecycle.py: the in-memory dictionary of   *)
(* setup identities the live loop keeps, one action per public method that *)
(* changes it.  Every call carries the time of the tick that makes it; the *)
(* clock never runs backwards between two calls.                           *)
(*                                                                         *)
(* The live loop calls update and force_expire only (LiveSpec).  The class *)
(* also offers expire_stale and reset, which the tests call (Spec).        *)
(***************************************************************************)
EXTENDS LifecycleOps

CONSTANTS
  Keys,                 \* setup identities, as _lifecycle_key builds them
  MaxTier,              \* highest tier (4 in authorization/tiers.py)
  MaxAge,               \* the max_age_seconds expire_stale is called with
  Horizon               \* bound: the clock stops there

ASSUME LifecycleAssumption ==
  /\ MaxTier \in Nat
  /\ MaxAge \in Nat
  /\ Horizon \in Nat

VARIABLES
  tracked,              \* _tracked: entry of every key
  now,                  \* as_of of the next call
  \* Auxiliary, written beside the code's state and read by properties only.
  closedAt,             \* time of the call that last closed the key
  sightings             \* trigger-tier sightings in a row, counted up to 3

vars == <<tracked, now, closedAt, sightings>>

Tiers == 0 .. MaxTier

Init ==
  /\ tracked = [k \in Keys |-> Untracked]
  /\ now = 0
  /\ closedAt = [k \in Keys |-> 0]
  /\ sightings = [k \in Keys |-> 0]

-----------------------------------------------------------------------------
CountSighting(k, tier) ==
  IF tier < 2 THEN 0
  ELSE IF sightings[k] = 3 THEN 3
  ELSE sightings[k] + 1

(***************************************************************************)
(* update(key, tier) with neither flag: this tick's evidence for the key.  *)
(***************************************************************************)
UpdateEvidence(k, tier) ==
  /\ tracked' = [tracked EXCEPT ![k] = Update(@, tier, now, "none")]
  /\ sightings' = IF IsCoolingDown(tracked[k], now) THEN sightings
                  ELSE [sightings EXCEPT ![k] = CountSighting(k, tier)]
  /\ UNCHANGED <<now, closedAt>>

(***************************************************************************)
(* update(key, tier, invalidated=True) or targeted=True: a resolved trade. *)
(***************************************************************************)
UpdateVerdict(k, tier, verdict) ==
  /\ verdict # "none"
  /\ tracked' = [tracked EXCEPT ![k] = Update(@, tier, now, verdict)]
  /\ closedAt' = [closedAt EXCEPT ![k] = now]
  /\ sightings' = [sightings EXCEPT ![k] = 0]
  /\ UNCHANGED now

SessionExpire(k) ==
  /\ tracked' = [tracked EXCEPT ![k] = ForceExpire(@, now)]
  /\ closedAt' = IF Terminal(tracked[k]) THEN closedAt
                 ELSE [closedAt EXCEPT ![k] = now]
  /\ sightings' = [sightings EXCEPT ![k] = 0]
  /\ UNCHANGED now

(***************************************************************************)
(* expire_stale(): every key at once.                                      *)
(***************************************************************************)
ExpireAllStale ==
  LET stale == {k \in Keys : IsStale(tracked[k], now, MaxAge)}
  IN /\ tracked' = [k \in Keys |-> ExpireStale(tracked[k], now, MaxAge)]
     /\ closedAt' = [k \in Keys |-> IF k \in stale THEN now ELSE closedAt[k]]
     /\ sightings' = [k \in Keys |-> IF k \in stale THEN 0 ELSE sightings[k]]
     /\ UNCHANGED now

Reset(k) ==
  /\ tracked' = [tracked EXCEPT ![k] = Untracked]
  /\ closedAt' = [closedAt EXCEPT ![k] = 0]
  /\ sightings' = [sightings EXCEPT ![k] = 0]
  /\ UNCHANGED now

(***************************************************************************)
(* __init__() again: a restarted process starts with an empty dictionary.  *)
(***************************************************************************)
Restart ==
  /\ tracked' = [k \in Keys |-> Untracked]
  /\ closedAt' = [k \in Keys |-> 0]
  /\ sightings' = [k \in Keys |-> 0]
  /\ UNCHANGED now

TimePasses ==
  /\ now < Horizon
  /\ now' \in now + 1 .. Horizon
  /\ UNCHANGED <<tracked, closedAt, sightings>>

LiveNext ==
  \/ \E k \in Keys, tier \in Tiers : UpdateEvidence(k, tier)
  \/ \E k \in Keys, tier \in Tiers, v \in Verdicts : UpdateVerdict(k, tier, v)
  \/ \E k \in Keys : SessionExpire(k)
  \/ Restart
  \/ TimePasses

Next ==
  \/ LiveNext
  \/ ExpireAllStale
  \/ \E k \in Keys : Reset(k)

LiveSpec == Init /\ [][LiveNext]_vars
Spec == Init /\ [][Next]_vars

-----------------------------------------------------------------------------
(***************************************************************************)
(* Type invariant of the tracker.                                          *)
(***************************************************************************)
TypeOK ==
  /\ tracked \in [Keys -> Entries(Tiers, 0 .. now)]
  /\ now \in 0 .. Horizon
  /\ closedAt \in [Keys -> 0 .. now]
  /\ sightings \in [Keys -> 0 .. 3]

(***************************************************************************)
(* The cooldown clock of a closed key starts at the call that closed it    *)
(* and no evidence update ever restarts it: a setup that keeps being seen  *)
(* while it cools down is not locked out for longer than Cooldown.         *)
(***************************************************************************)
CooldownClock ==
  \A k \in Keys : Terminal(tracked[k]) => tracked[k].last_seen = closedAt[k]

(***************************************************************************)
(* A key's rung is the number of trigger-tier sightings in a row since it  *)
(* was last below the trigger tier, closed or forgotten: one sighting is   *)
(* TRIGGERED, two CONFIRMED, three or more ACTIVE.                         *)
(***************************************************************************)
OnRung(count, state) ==
  /\ count = 0 <=> state \notin PostTriggerStates
  /\ count = 1 <=> state = "TRIGGERED"
  /\ count = 2 <=> state = "CONFIRMED"
  /\ count = 3 <=> state = "ACTIVE"

LadderCountsSightings ==
  \A k \in Keys : OnRung(sightings[k], tracked[k].state)

(***************************************************************************)
(* "Even the exact same key may only leave a terminal state after this     *)
(* many seconds have passed since it entered one" (the class docstring).   *)
(* Forgetting the key altogether (Reset, Restart) is not leaving.          *)
(***************************************************************************)
Leaves(k) ==
  /\ Terminal(tracked[k])
  /\ ~Terminal(tracked'[k])
  /\ tracked'[k] # Untracked

ReentryOnlyAfterCooldown ==
  [][\A k \in Keys : Leaves(k) => now - closedAt[k] >= Cooldown]_vars

(***************************************************************************)
(* The tracker as the live loop uses it implements CooldownGuard: terminal *)
(* entries are the closed keys and last_seen is when they were closed.     *)
(***************************************************************************)
Guard == INSTANCE CooldownGuard WITH
           clock    <- now,
           closed   <- {k \in Keys : Terminal(tracked[k])},
           closedAt <- [k \in Keys |-> IF Terminal(tracked[k])
                                       THEN tracked[k].last_seen ELSE 0]

GuardSpec == Guard!Spec
=============================================================================
