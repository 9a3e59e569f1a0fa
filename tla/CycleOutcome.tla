---------------------------- MODULE CycleOutcome -----------------------------
(***************************************************************************)
(* What a decision cycle may answer: EngineRuntime.run_cycle seen from the *)
(* live loop.  LiveLoop leaves open which market data lead to which        *)
(* answer; DecisionOutcome shows that the answers of decide() are among    *)
(* these.                                                                  *)
(***************************************************************************)
EXTENDS SessionWindow

CONSTANTS
  Window,               \* the configured session window
  Setups,               \* tradable setups decide() may authorise
  FormingSetups,        \* setups it may report as developing
  NoTrade,              \* no setup
  MaxTier               \* highest tier

Tiers == 0 .. MaxTier

NoSignal == [state |-> "NONE", setup |-> NoTrade, tier |-> 0]

Signals ==
  [state : {"TRADE_READY"}, setup : Setups, tier : Tiers \ {0}]
    \cup [state : {"NO_TRADE"}, setup : FormingSetups, tier : Tiers]
    \cup [state : {"NO_TRADE"}, setup : {NoTrade}, tier : {0}]
    \cup {NoSignal}

\* Slip: entries are gated on the session alone.
MayAuthoriseInSession(t) == IsWithinSession(Window, t % DayLength)

MayAuthorise(t) == IsNewEntryAllowed(Window, t % DayLength)

(***************************************************************************)
(* For underlying u in a tick whose time is t: outside the session there   *)
(* is no signal.  NO_TRADE may name a developing setup, of any tier;       *)
(* TRADE_READY needs an actionable tier and a time at which validate_risk  *)
(* lets a new entry through.                                               *)
(***************************************************************************)
OutcomesAt(u, t) ==
  IF ~IsWithinSession(Window, t % DayLength) THEN {NoSignal}
  ELSE {s \in Signals \ {NoSignal} :
          /\ s.setup # NoTrade => s.setup.underlying = u
          /\ s.state = "TRADE_READY" => MayAuthorise(t)}
=============================================================================
