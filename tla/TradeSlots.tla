----------------------------- MODULE TradeSlots ------------------------------
(***************************************************************************)
(* What the live loop promises a reader of its alerts: at most one trade   *)
(* per underlying is monitored at a time; every monitored trade is closed  *)
(* at a definite time; and the setup of a closed trade is not opened again *)
(* until a cooldown has passed.  Opening a slot is the moment of the       *)
(* TRADE_READY alert.  A process restart empties the slots and forgets.    *)
(***************************************************************************)
EXTENDS Integers

CONSTANTS
  Slots,                \* one per underlying
  Keys,                 \* setup identities a trade can have
  NoKey,                \* an empty slot
  Cooldown              \* seconds between a closing and the next opening

VARIABLES
  clock,                \* time stamp of the current tick
  slot,                 \* key of the trade each slot monitors, or NoKey
  closedAt              \* when the key's last trade was closed, -1 if never

vars == <<clock, slot, closedAt>>

Init ==
  /\ clock \in Nat
  /\ slot = [u \in Slots |-> NoKey]
  /\ closedAt = [k \in Keys |-> -1]

CooledDown(k) == closedAt[k] = -1 \/ clock - closedAt[k] >= Cooldown

Open(u, k) ==
  /\ slot[u] = NoKey
  /\ CooledDown(k)
  /\ slot' = [slot EXCEPT ![u] = k]
  /\ UNCHANGED <<clock, closedAt>>

\* Some of the monitored trades are closed in one go.
Close(S) ==
  /\ \A u \in S : slot[u] # NoKey
  /\ slot' = [u \in Slots |-> IF u \in S THEN NoKey ELSE slot[u]]
  /\ closedAt' = [k \in Keys |-> IF k \in {slot[u] : u \in S}
                                 THEN clock ELSE closedAt[k]]
  /\ UNCHANGED clock

\* Keys whose cooldown is over need not be remembered.
Forget(K) ==
  /\ \A k \in K : CooledDown(k)
  /\ closedAt' = [k \in Keys |-> IF k \in K THEN -1 ELSE closedAt[k]]
  /\ UNCHANGED <<clock, slot>>

NextTick ==
  /\ clock' \in Nat
  /\ clock' >= clock
  /\ UNCHANGED <<slot, closedAt>>

Restart ==
  /\ clock' \in Nat
  /\ clock' >= clock
  /\ slot' = [u \in Slots |-> NoKey]
  /\ closedAt' = [k \in Keys |-> -1]

Next ==
  \/ \E u \in Slots, k \in Keys : Open(u, k)
  \/ \E S \in SUBSET Slots : Close(S)
  \/ \E K \in SUBSET Keys : Forget(K)
  \/ NextTick
  \/ Restart

Spec == Init /\ [][Next]_vars
=============================================================================
