-------------------------- MODULE LifecycleProofs ----------------------------
(***************************************************************************)
(* The tracker for every set of keys, every cooldown, every number of      *)
(* tiers and every horizon.                                                *)
(***************************************************************************)
EXTENDS Lifecycle, LifecycleOpsProofs

USE DEF TerminalStates, PreTriggerStates, PostTriggerStates, LifecycleStates

LEMMA TiersAreTiers == Tiers \in SUBSET Int /\ 0 \in Tiers
BY LifecycleAssumption DEF Tiers

-----------------------------------------------------------------------------
(***************************************************************************)
(* Type correctness under every call of the public interface.              *)
(***************************************************************************)
LEMMA NextTypeOK == TypeOK /\ [Next]_vars => TypeOK'
<1> SUFFICES ASSUME TypeOK, [Next]_vars
             PROVE  TypeOK'
  OBVIOUS
<1> USE DEF TypeOK
<1>0. now \in Nat /\ Horizon \in Nat
  BY LifecycleAssumption
<1>1. ASSUME NEW k \in Keys, NEW tier \in Tiers, UpdateEvidence(k, tier)
      PROVE  TypeOK'
  <2>1. Update(tracked[k], tier, now, "none") \in Entries(Tiers, 0 .. now)
    BY <1>0, UpdateType, TiersAreTiers DEF Verdicts
  <2>2. CountSighting(k, tier) \in 0 .. 3
    BY LifecycleAssumption DEF CountSighting, Tiers
  <2>3. QED
    BY <1>1, <2>1, <2>2 DEF UpdateEvidence
<1>2. ASSUME NEW k \in Keys, NEW tier \in Tiers, NEW v \in Verdicts,
             UpdateVerdict(k, tier, v)
      PROVE  TypeOK'
  <2>1. Update(tracked[k], tier, now, v) \in Entries(Tiers, 0 .. now)
    BY <1>0, UpdateType, TiersAreTiers
  <2>2. QED
    BY <1>0, <1>2, <2>1 DEF UpdateVerdict
<1>3. ASSUME NEW k \in Keys, SessionExpire(k)
      PROVE  TypeOK'
  <2>1. ForceExpire(tracked[k], now) \in Entries(Tiers, 0 .. now)
    BY <1>0, ForceExpireType, TiersAreTiers
  <2>2. QED
    BY <1>0, <1>3, <2>1 DEF SessionExpire
<1>4. CASE Restart
  BY <1>0, <1>4 DEF Restart, Entries
<1>5. CASE TimePasses
  BY <1>0, <1>5, LaterEntries, TiersAreTiers DEF TimePasses
<1>6. CASE ExpireAllStale
  <2>1. \A k \in Keys : ExpireStale(tracked[k], now, MaxAge) \in Entries(Tiers, 0 .. now)
    BY <1>0, ExpireStaleType, TiersAreTiers, LifecycleAssumption
  <2>2. QED
    BY <1>0, <1>6, <2>1 DEF ExpireAllStale
<1>7. ASSUME NEW k \in Keys, Reset(k)
      PROVE  TypeOK'
  BY <1>0, <1>7 DEF Reset, Entries
<1>8. CASE UNCHANGED vars
  BY <1>8 DEF vars
<1>9. QED
  BY <1>1, <1>2, <1>3, <1>4, <1>5, <1>6, <1>7, <1>8 DEF Next, LiveNext

LEMMA InitTypeOK == Init => TypeOK
BY LifecycleAssumption DEF Init, TypeOK, Entries

THEOREM TypeCorrect == Spec => []TypeOK
BY InitTypeOK, NextTypeOK, PTL DEF Spec

THEOREM LiveTypeCorrect == LiveSpec => []TypeOK
<1>1. TypeOK /\ [LiveNext]_vars => TypeOK'
  BY NextTypeOK DEF Next
<1>2. QED
  BY <1>1, InitTypeOK, PTL DEF LiveSpec

-----------------------------------------------------------------------------
(***************************************************************************)
(* The rung of a key counts its trigger-tier sightings in a row, under     *)
(* every call of the public interface.                                     *)
(***************************************************************************)
LEMMA LadderStep ==
  TypeOK /\ LadderCountsSightings /\ [Next]_vars => LadderCountsSightings'
<1> SUFFICES ASSUME TypeOK, LadderCountsSightings, [Next]_vars,
                    NEW q \in Keys
             PROVE  OnRung(sightings[q], tracked[q].state)'
  BY DEF LadderCountsSightings
<1>0. /\ OnRung(sightings[q], tracked[q].state)
      /\ tracked \in [Keys -> Entries(Tiers, 0 .. now)]
      /\ sightings \in [Keys -> 0 .. 3]
      /\ tracked[q] \in Entries(Tiers, 0 .. now)
  BY DEF LadderCountsSightings, TypeOK
<1>1. ASSUME NEW k \in Keys, NEW tier \in Tiers, UpdateEvidence(k, tier)
      PROVE  OnRung(sightings[q], tracked[q].state)'
  <2>1. CASE k # q
    BY <1>0, <1>1, <2>1 DEF UpdateEvidence
  <2>2. CASE k = q /\ IsCoolingDown(tracked[k], now)
    BY <1>0, <1>1, <2>2 DEF UpdateEvidence, Update
  <2>3. CASE k = q /\ ~IsCoolingDown(tracked[k], now)
    <3>1. /\ tracked'[q].state = Climb(Existing(tracked[q], now), tier)
          /\ sightings'[q] = CountSighting(q, tier)
      BY <1>0, <1>1, <2>3 DEF UpdateEvidence, Update, NewState
    <3>2. tier \in Int
      BY LifecycleAssumption DEF Tiers
    <3>3. /\ Existing(tracked[q], now).state \in LifecycleStates \cup {"UNTRACKED"}
          /\ OnRung(sightings[q], Existing(tracked[q], now).state)
          /\ Existing(tracked[q], now).state \notin TerminalStates
      BY <1>0, <2>3 DEF Existing, Entries, Untracked, OnRung, Terminal
    <3>4. sightings[q] \in 0 .. 3
      BY <1>0
    <3>5. QED
      BY <3>1, <3>2, <3>3, <3>4 DEF OnRung, Climb, CountSighting
  <2>4. QED
    BY <2>1, <2>2, <2>3
<1>2. ASSUME NEW k \in Keys, NEW tier \in Tiers, NEW v \in Verdicts,
             UpdateVerdict(k, tier, v)
      PROVE  OnRung(sightings[q], tracked[q].state)'
  <2>1. CASE k # q
    BY <1>0, <1>2, <2>1 DEF UpdateVerdict
  <2>2. CASE k = q
    <3>1. /\ tracked'[q].state = NewState(Existing(tracked[q], now), tier, v)
          /\ sightings'[q] = 0
      BY <1>0, <1>2, <2>2 DEF UpdateVerdict, Update
    <3>2. tracked'[q].state \in TerminalStates
      BY <1>2, <3>1 DEF UpdateVerdict, NewState, Verdicts
    <3>3. QED
      BY <3>1, <3>2 DEF OnRung
  <2>3. QED
    BY <2>1, <2>2
<1>3. ASSUME NEW k \in Keys, SessionExpire(k)
      PROVE  OnRung(sightings[q], tracked[q].state)'
  <2>1. CASE k # q
    BY <1>0, <1>3, <2>1 DEF SessionExpire
  <2>2. CASE k = q
    <3>1. tracked'[q].state \in TerminalStates /\ sightings'[q] = 0
      BY <1>0, <1>3, <2>2 DEF SessionExpire, ForceExpire, Terminal
    <3>2. QED
      BY <3>1 DEF OnRung
  <2>3. QED
    BY <2>1, <2>2
<1>4. CASE Restart
  BY <1>4 DEF Restart, OnRung, Untracked
<1>5. CASE TimePasses
  BY <1>0, <1>5 DEF TimePasses
<1>6. CASE ExpireAllStale
  <2>1. CASE IsStale(tracked[q], now, MaxAge)
    <3>1. tracked[q] \in [state : LifecycleStates, tier : Tiers, last_seen : 0 .. now]
      BY <1>0, <2>1 DEF IsStale, Entries, Untracked
    <3>2. tracked'[q].state = "EXPIRED" /\ sightings'[q] = 0
      BY <1>6, <2>1, <3>1 DEF ExpireAllStale, ExpireStale
    <3>3. QED
      BY <3>2 DEF OnRung
  <2>2. CASE ~IsStale(tracked[q], now, MaxAge)
    BY <1>0, <1>6, <2>2 DEF ExpireAllStale, ExpireStale
  <2>3. QED
    BY <2>1, <2>2
<1>7. ASSUME NEW k \in Keys, Reset(k)
      PROVE  OnRung(sightings[q], tracked[q].state)'
  BY <1>0, <1>7 DEF Reset, OnRung, Untracked
<1>8. CASE UNCHANGED vars
  BY <1>0, <1>8 DEF vars
<1>9. QED
  BY <1>1, <1>2, <1>3, <1>4, <1>5, <1>6, <1>7, <1>8 DEF Next, LiveNext

THEOREM LadderCounts == Spec => []LadderCountsSightings
<1>1. Init => LadderCountsSightings
  BY DEF Init, LadderCountsSightings, OnRung, Untracked
<1>2. QED
  BY <1>1, LadderStep, TypeCorrect, PTL DEF Spec

-----------------------------------------------------------------------------
(***************************************************************************)
(* The tracker as the live loop uses it.  What one step of LiveNext does   *)
(* to one key, on which the remaining theorems rest: nothing, an evidence  *)
(* update of a key that is not cooling down, a closing now, or a restart.  *)
(***************************************************************************)
Untouched(q) == tracked'[q] = tracked[q] /\ closedAt'[q] = closedAt[q]

Reassessed(q) ==
  /\ ~IsCoolingDown(tracked[q], now)
  /\ ~Terminal(tracked'[q])
  /\ closedAt'[q] = closedAt[q]

ClosedNow(q) ==
  /\ Terminal(tracked'[q])
  /\ tracked'[q].last_seen = now
  /\ closedAt'[q] = now

LEMMA EvidenceStep ==
  ASSUME TypeOK, NEW k \in Keys, NEW tier \in Tiers, UpdateEvidence(k, tier)
  PROVE  /\ \A q \in Keys \ {k} : Untouched(q)
         /\ Untouched(k) \/ Reassessed(k)
<1>1. tier \in Int /\ tracked \in [Keys -> Entries(Tiers, 0 .. now)]
  BY LifecycleAssumption DEF Tiers, TypeOK
<1>2. \A q \in Keys \ {k} : Untouched(q)
  BY <1>1 DEF UpdateEvidence, Untouched
<1>3. CASE IsCoolingDown(tracked[k], now)
  BY <1>1, <1>2, <1>3 DEF UpdateEvidence, Update, Untouched
<1>4. CASE ~IsCoolingDown(tracked[k], now)
  <2>1. /\ tracked'[k].state = NewState(Existing(tracked[k], now), tier, "none")
        /\ closedAt'[k] = closedAt[k]
    BY <1>1, <1>4 DEF UpdateEvidence, Update
  <2>2. tracked'[k].state \notin TerminalStates
    BY <1>1, <2>1, NewStateType DEF Verdicts
  <2>3. QED
    BY <1>2, <1>4, <2>1, <2>2 DEF Reassessed, Terminal
<1>5. QED
  BY <1>2, <1>3, <1>4

LEMMA VerdictStep ==
  ASSUME TypeOK, NEW k \in Keys, NEW tier \in Tiers, NEW v \in Verdicts,
         UpdateVerdict(k, tier, v)
  PROVE  (\A q \in Keys \ {k} : Untouched(q)) /\ ClosedNow(k)
<1>1. /\ tier \in Int /\ v # "none"
      /\ tracked \in [Keys -> Entries(Tiers, 0 .. now)]
      /\ closedAt \in [Keys -> 0 .. now]
  BY LifecycleAssumption DEF Tiers, TypeOK, UpdateVerdict
<1>2. \A q \in Keys \ {k} : Untouched(q)
  BY <1>1 DEF UpdateVerdict, Untouched
<1>3. /\ tracked'[k].state = NewState(Existing(tracked[k], now), tier, v)
      /\ tracked'[k].last_seen = now
      /\ closedAt'[k] = now
  BY <1>1 DEF UpdateVerdict, Update
<1>4. QED
  BY <1>1, <1>2, <1>3, NewStateType DEF ClosedNow, Terminal

LEMMA ExpireStep ==
  ASSUME TypeOK, NEW k \in Keys, SessionExpire(k)
  PROVE  /\ \A q \in Keys \ {k} : Untouched(q)
         /\ Untouched(k) \/ ClosedNow(k)
<1>1. /\ tracked \in [Keys -> Entries(Tiers, 0 .. now)]
      /\ closedAt \in [Keys -> 0 .. now]
  BY DEF TypeOK
<1>2. \A q \in Keys \ {k} : Untouched(q)
  BY <1>1 DEF SessionExpire, Untouched
<1>3. CASE Terminal(tracked[k])
  BY <1>1, <1>2, <1>3 DEF SessionExpire, ForceExpire, Untouched
<1>4. CASE ~Terminal(tracked[k])
  BY <1>1, <1>2, <1>4 DEF SessionExpire, ForceExpire, ClosedNow, Terminal
<1>5. QED
  BY <1>2, <1>3, <1>4

LEMMA LiveStep ==
  ASSUME TypeOK, [LiveNext]_vars, ~Restart, NEW q \in Keys
  PROVE  Untouched(q) \/ Reassessed(q) \/ ClosedNow(q)
<1>1. ASSUME NEW k \in Keys, NEW tier \in Tiers, UpdateEvidence(k, tier)
      PROVE  Untouched(q) \/ Reassessed(q)
  BY <1>1, EvidenceStep
<1>2. ASSUME NEW k \in Keys, NEW tier \in Tiers, NEW v \in Verdicts,
             UpdateVerdict(k, tier, v)
      PROVE  Untouched(q) \/ ClosedNow(q)
  BY <1>2, VerdictStep
<1>3. ASSUME NEW k \in Keys, SessionExpire(k)
      PROVE  Untouched(q) \/ ClosedNow(q)
  BY <1>3, ExpireStep
<1>4. CASE TimePasses \/ UNCHANGED vars
  BY <1>4 DEF TimePasses, vars, Untouched
<1>5. QED
  BY <1>1, <1>2, <1>3, <1>4 DEF LiveNext

(***************************************************************************)
(* The cooldown of a closed key runs from the call that closed it.         *)
(***************************************************************************)
LEMMA ClockStep == TypeOK /\ CooldownClock /\ [LiveNext]_vars => CooldownClock'
<1> SUFFICES ASSUME TypeOK, CooldownClock, [LiveNext]_vars, NEW q \in Keys,
                    Terminal(tracked'[q])
             PROVE  tracked'[q].last_seen = closedAt'[q]
  BY DEF CooldownClock
<1>1. CASE Restart
  BY <1>1 DEF Restart, Terminal, Untracked
<1>2. CASE ~Restart
  BY <1>2, LiveStep DEF CooldownClock, Untouched, Reassessed, ClosedNow
<1>3. QED
  BY <1>1, <1>2

THEOREM ClockIsKept == LiveSpec => []CooldownClock
<1>1. Init => CooldownClock
  BY DEF Init, CooldownClock, Terminal, Untracked
<1>2. QED
  BY <1>1, ClockStep, LiveTypeCorrect, PTL DEF LiveSpec

(***************************************************************************)
(* A closed setup comes back only after its cooldown.                      *)
(***************************************************************************)
THEOREM ReentryIsGuarded == LiveSpec => ReentryOnlyAfterCooldown
<1>1. TypeOK /\ CooldownClock /\ [LiveNext]_vars
        => [\A k \in Keys : Leaves(k) => now - closedAt[k] >= Cooldown]_vars
  <2> SUFFICES ASSUME TypeOK, CooldownClock, LiveNext, NEW q \in Keys, Leaves(q)
               PROVE  now - closedAt[q] >= Cooldown
    OBVIOUS
  <2>1. ~Restart
    BY DEF Restart, Leaves
  <2>2. Reassessed(q)
    BY <2>1, LiveStep DEF Leaves, Untouched, ClosedNow
  <2>3. tracked[q].last_seen = closedAt[q]
    BY DEF Leaves, CooldownClock
  <2>4. now \in Int /\ closedAt[q] \in Int
    BY LifecycleAssumption DEF TypeOK
  <2>5. QED
    BY <2>2, <2>3, <2>4, CooldownAssumption DEF Reassessed, IsCoolingDown, Leaves
<1>2. QED
  BY <1>1, LiveTypeCorrect, ClockIsKept, PTL DEF LiveSpec, ReentryOnlyAfterCooldown

-----------------------------------------------------------------------------
(***************************************************************************)
(* The tracker implements CooldownGuard.  The mapped state of one key: is  *)
(* it closed, and since when.                                              *)
(***************************************************************************)
ClosedKeys == {k \in Keys : Terminal(tracked[k])}

ClosedSince == [k \in Keys |-> IF Terminal(tracked[k]) THEN tracked[k].last_seen ELSE 0]

LEMMA StepOnOneKey ==
  ASSUME TypeOK, NEW k \in Keys, now' = now,
         \A q \in Keys \ {k} : Untouched(q),
         Untouched(k) \/ Reassessed(k) \/ ClosedNow(k)
  PROVE  [Guard!Next]_Guard!vars
<1>0. /\ \A q \in Keys \ {k} : tracked'[q] = tracked[q]
      /\ Terminal(tracked[k]) => now \in Int /\ tracked[k].last_seen \in Int
  BY LifecycleAssumption DEF Untouched, TypeOK, Entries, Terminal, Untracked
<1>1. CASE Untouched(k)
  <2>1. \A q \in Keys : tracked'[q] = tracked[q]
    BY <1>0, <1>1 DEF Untouched
  <2>2. UNCHANGED Guard!vars
    BY <2>1 DEF Guard!vars
  <2>3. QED
    BY <2>2
<1>2. CASE Reassessed(k) /\ ~Terminal(tracked[k])
  <2>1. /\ ClosedKeys' = ClosedKeys
        /\ ClosedSince' = ClosedSince
    BY <1>0, <1>2 DEF Reassessed, ClosedKeys, ClosedSince
  <2>2. UNCHANGED Guard!vars
    BY <2>1 DEF Guard!vars, ClosedKeys, ClosedSince
  <2>3. QED
    BY <2>2
<1>3. CASE Reassessed(k) /\ Terminal(tracked[k])
  <2>1. /\ ClosedKeys' = ClosedKeys \ {k}
        /\ ClosedSince' = [ClosedSince EXCEPT ![k] = 0]
        /\ k \in ClosedKeys
    BY <1>0, <1>3 DEF Reassessed, ClosedKeys, ClosedSince
  <2>2. now - ClosedSince[k] >= Cooldown
    BY <1>0, <1>3, CooldownAssumption DEF Reassessed, IsCoolingDown, ClosedSince
  <2>3. Guard!Reopen(k)
    BY <2>1, <2>2 DEF Guard!Reopen, ClosedKeys, ClosedSince
  <2>4. QED
    BY <2>3 DEF Guard!Next
<1>4. CASE ClosedNow(k)
  <2>1. /\ ClosedKeys' = ClosedKeys \cup {k}
        /\ ClosedSince' = [ClosedSince EXCEPT ![k] = now]
    BY <1>0, <1>4 DEF ClosedNow, ClosedKeys, ClosedSince
  <2>2. Guard!Close(k)
    BY <2>1 DEF Guard!Close, ClosedKeys, ClosedSince
  <2>3. QED
    BY <2>2 DEF Guard!Next
<1>5. QED
  BY <1>1, <1>2, <1>3, <1>4

(***************************************************************************)
(* Every behaviour of the tracker under the live loop's calls is one of    *)
(* CooldownGuard.                                                          *)
(***************************************************************************)
THEOREM TrackerImplementsGuard == LiveSpec => GuardSpec
<1>1. Init => Guard!Init
  BY DEF Init, Guard!Init, Terminal, Untracked
<1>2. TypeOK /\ TypeOK' /\ [LiveNext]_vars => [Guard!Next]_Guard!vars
  <2> SUFFICES ASSUME TypeOK, TypeOK', [LiveNext]_vars
               PROVE  [Guard!Next]_Guard!vars
    OBVIOUS
  <2>1. ASSUME NEW k \in Keys, NEW tier \in Tiers, UpdateEvidence(k, tier)
        PROVE  [Guard!Next]_Guard!vars
    BY <2>1, EvidenceStep, StepOnOneKey DEF UpdateEvidence
  <2>2. ASSUME NEW k \in Keys, NEW tier \in Tiers, NEW v \in Verdicts,
               UpdateVerdict(k, tier, v)
        PROVE  [Guard!Next]_Guard!vars
    BY <2>2, VerdictStep, StepOnOneKey DEF UpdateVerdict
  <2>3. ASSUME NEW k \in Keys, SessionExpire(k)
        PROVE  [Guard!Next]_Guard!vars
    BY <2>3, ExpireStep, StepOnOneKey DEF SessionExpire
  <2>4. CASE Restart
    <3>1. Guard!Forget
      BY <2>4 DEF Restart, Guard!Forget, Terminal, Untracked
    <3>2. QED
      BY <3>1 DEF Guard!Next
  <2>5. CASE TimePasses
    <3>1. now' \in Nat /\ now' > now
      BY <2>5, LifecycleAssumption DEF TimePasses, TypeOK
    <3>2. Guard!TimePasses
      BY <2>5, <3>1 DEF TimePasses, Guard!TimePasses
    <3>3. QED
      BY <3>2 DEF Guard!Next
  <2>6. CASE UNCHANGED vars
    BY <2>6 DEF vars, Guard!vars
  <2>7. QED
    BY <2>1, <2>2, <2>3, <2>4, <2>5, <2>6 DEF LiveNext
<1>3. QED
  BY <1>1, <1>2, LiveTypeCorrect, PTL DEF LiveSpec, GuardSpec, Guard!Spec

=============================================================================
