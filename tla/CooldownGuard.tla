---------------------------- MODULE CooldownGuard ----------------------------
(***************************************************************************)
(* What the tracker promises about a setup identity, and nothing else: a   *)
(* key is open or closed; closing it starts a cooldown; a closed key opens *)
(* again only when the cooldown since its last closing has run out.  A     *)
(* process restart forgets everything.                                     *)
(***************************************************************************)
EXTENDS Integers

CONSTANTS
  Keys,                 \* setup identities
  Cooldown              \* seconds a closed key stays closed at least

VARIABLES
  clock,                \* time of the latest call
  closed,               \* the closed keys
  closedAt              \* when each closed key was last closed, 0 if open

vars == <<clock, closed, closedAt>>

Init ==
  /\ clock \in Nat
  /\ closed = {}
  /\ closedAt = [k \in Keys |-> 0]

\* Close a key, or close it again: its cooldown runs from now.
Close(k) ==
  /\ closed' = closed \cup {k}
  /\ closedAt' = [closedAt EXCEPT ![k] = clock]
  /\ UNCHANGED clock

Reopen(k) ==
  /\ k \in closed
  /\ clock - closedAt[k] >= Cooldown
  /\ closed' = closed \ {k}
  /\ closedAt' = [closedAt EXCEPT ![k] = 0]
  /\ UNCHANGED clock

TimePasses ==
  /\ clock' \in Nat
  /\ clock' > clock
  /\ UNCHANGED <<closed, closedAt>>

Forget ==
  /\ closed' = {}
  /\ closedAt' = [k \in Keys |-> 0]
  /\ UNCHANGED clock

Next ==
  \/ \E k \in Keys : Close(k) \/ Reopen(k)
  \/ TimePasses
  \/ Forget

Spec == Init /\ [][Next]_vars
=============================================================================
