------------------------- MODULE LifecycleOpsProofs --------------------------
(***************************************************************************)
(* What the operations on one entry of the tracker return, for every       *)
(* cooldown and every set T of tiers.  The tracker's own proofs and those  *)
(* of the live loop rest on these lemmas.                                  *)
(***************************************************************************)
EXTENDS LifecycleOps, TLAPS

USE DEF TerminalStates, PreTriggerStates, PostTriggerStates, LifecycleStates

(***************************************************************************)
(* A verdict makes an entry terminal, though not EXPIRED; evidence never   *)
(* does.                                                                   *)
(***************************************************************************)
LEMMA NewStateType ==
  ASSUME NEW e, NEW tier \in Int, NEW v \in Verdicts
  PROVE  /\ NewState(e, tier, v) \in LifecycleStates
         /\ v = "none" => NewState(e, tier, v) \notin TerminalStates
         /\ v # "none" => NewState(e, tier, v) \in TerminalStates \ {"EXPIRED"}
BY DEF NewState, Climb, Verdicts

(***************************************************************************)
(* update() keeps entries well-typed.                                      *)
(***************************************************************************)
LEMMA UpdateType ==
  ASSUME NEW T \in SUBSET Int, NEW t \in Nat, NEW e \in Entries(T, 0 .. t),
         NEW tier \in T, NEW v \in Verdicts
  PROVE  Update(e, tier, t, v) \in Entries(T, 0 .. t)
<1>1. NewState(Existing(e, t), tier, v) \in LifecycleStates
  BY NewStateType
<1>2. [state |-> NewState(Existing(e, t), tier, v), tier |-> tier, last_seen |-> t]
        \in Entries(T, 0 .. t)
  BY <1>1 DEF Entries
<1>3. QED
  BY <1>2 DEF Update

(***************************************************************************)
(* update() with a verdict closes the key now, whatever the entry was.     *)
(***************************************************************************)
LEMMA VerdictCloses ==
  ASSUME NEW e, NEW t, NEW tier \in Int, NEW v \in Verdicts \ {"none"}
  PROVE  /\ Terminal(Update(e, tier, t, v)) /\ Update(e, tier, t, v).state # "EXPIRED"
         /\ Update(e, tier, t, v).last_seen = t
<1>1. NewState(Existing(e, t), tier, v) \in TerminalStates \ {"EXPIRED"}
  BY NewStateType
<1>2. QED
  BY <1>1 DEF Update, Terminal

(***************************************************************************)
(* update() with evidence leaves a cooling entry alone and any other open. *)
(***************************************************************************)
LEMMA EvidenceOpens ==
  ASSUME NEW e, NEW t, NEW tier \in Int
  PROVE  /\ IsCoolingDown(e, t) => Update(e, tier, t, "none") = e
         /\ ~IsCoolingDown(e, t) =>
              /\ ~Terminal(Update(e, tier, t, "none"))
              /\ Update(e, tier, t, "none") # Untracked
<1>1. /\ NewState(Existing(e, t), tier, "none") \in LifecycleStates
      /\ NewState(Existing(e, t), tier, "none") \notin TerminalStates
  BY NewStateType DEF Verdicts
<1>2. QED
  BY <1>1 DEF Update, Terminal, Untracked

LEMMA ForceExpireType ==
  ASSUME NEW T \in SUBSET Int, 0 \in T, NEW t \in Nat, NEW e \in Entries(T, 0 .. t)
  PROVE  ForceExpire(e, t) \in Entries(T, 0 .. t)
<1>1. e.tier \in T
  BY DEF Entries, Untracked
<1>2. QED
  BY <1>1 DEF ForceExpire, Entries

(***************************************************************************)
(* force_expire() closes a key now, unless it is closed already.           *)
(***************************************************************************)
LEMMA ForceExpireCloses ==
  ASSUME NEW e, NEW t, ~Terminal(e)
  PROVE  /\ Terminal(ForceExpire(e, t)) /\ ForceExpire(e, t).state = "EXPIRED"
         /\ ForceExpire(e, t).last_seen = t
BY DEF ForceExpire, Terminal

LEMMA ExpireStaleType ==
  ASSUME NEW T \in SUBSET Int, NEW t \in Nat, NEW e \in Entries(T, 0 .. t),
         NEW age \in Nat
  PROVE  ExpireStale(e, t, age) \in Entries(T, 0 .. t)
<1>1. CASE IsStale(e, t, age)
  <2>1. e \in [state : LifecycleStates, tier : T, last_seen : 0 .. t]
    BY <1>1 DEF IsStale, Entries, Untracked
  <2>2. QED
    BY <1>1, <2>1 DEF ExpireStale, Entries
<1>2. CASE ~IsStale(e, t, age)
  BY <1>2 DEF ExpireStale
<1>3. QED
  BY <1>1, <1>2

LEMMA LaterEntries ==
  ASSUME NEW T, NEW s \in Nat, NEW t \in Nat, s <= t
  PROVE  /\ Entries(T, 0 .. s) \subseteq Entries(T, 0 .. t)
         /\ 0 .. s \subseteq 0 .. t
<1>1. 0 .. s \subseteq 0 .. t
  OBVIOUS
<1>2. QED
  BY <1>1 DEF Entries
=============================================================================
