--------------------------- MODULE DecisionOutcome ---------------------------
(***************************************************************************)
(* Decision seen by the live loop: the setup and the tier its signal       *)
(* names, and that LiveLoop's cycles may answer just that.  The underlying *)
(* and the time of the tick are those run_cycle was called with.           *)
(***************************************************************************)
EXTENDS Decision, SessionWindow

CONSTANTS
  Underlying,
  Window,      \* the configured session window
  Times,       \* times at which a cycle may run
  NoTrade      \* no setup

ASSUME OutcomeAssumption == IsWindow(Window) /\ Times \subseteq Nat

FrameworkNames == {FrameworkOrder[i] : i \in Positions}

Setups ==
  [underlying : {Underlying}, direction : Directions, framework : FrameworkNames, level : Nat]

FormingSetups ==
  [underlying : {Underlying}, direction : Directions, framework : FrameworkNames]

Loop == INSTANCE CycleOutcome WITH MaxTier <- 4

-----------------------------------------------------------------------------
\* best_developing: also of what is not actionable.
BestDeveloping == CHOOSE i \in Applicable : \A j \in Applicable : Ahead(i, j)

\* The opportunity a NO_TRADE is about: the one that failed, or the best developing.
Named == IF Actionable # {} THEN Best ELSE BestDeveloping

\* _trade_ready_signal
ReadySignal ==
  LET f == frameworks[Best]
  IN [state |-> "TRADE_READY", tier |-> tiers[Best],
      setup |-> [underlying |-> Underlying, direction |-> f.direction,
                 framework |-> f.framework, level |-> f.invalidation]]

\* _no_trade_signal
NoTradeSignal ==
  IF Applicable = {} THEN [state |-> "NO_TRADE", tier |-> 0, setup |-> NoTrade]
  ELSE LET f == frameworks[Named]
       IN [state |-> "NO_TRADE", tier |-> tiers[Named],
           setup |-> [underlying |-> Underlying, direction |-> f.direction,
                      framework |-> f.framework]]

Outcome == IF signal = "TRADE_READY" THEN ReadySignal ELSE NoTradeSignal

(***************************************************************************)
(* What decide() returns in a tick of the session is what the live loop    *)
(* expects of a cycle: a TRADE_READY has an actionable tier, a level that  *)
(* is a price but not the current one, and is given only while the window  *)
(* lets entries through; a NO_TRADE names the developing setup if there is *)
(* one.  LiveLoop's SignalsOf and ReadsOf rest on it (decision.py:182-233, *)
(* validation.py:72-77, run_engine.py:169-185).                            *)
(***************************************************************************)
OutcomeIsTheLoops ==
  pc = "done" /\ signal # "RAISED" => \A t \in Times :
    /\ IsWithinSession(Window, t % DayLength)
    /\ entry = IsNewEntryAllowed(Window, t % DayLength)
    => /\ Outcome \in Loop!OutcomesAt(Underlying, t)
       /\ signal = "TRADE_READY" => Outcome.setup.level # ltp
=============================================================================
