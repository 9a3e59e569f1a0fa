------------------------------ MODULE Contracts ------------------------------
(***************************************************************************)
(* From a chain of option legs to a trade plan: options/depth.py and       *)
(* selection.py, execution/engine.py, risk/validation.py and the schema    *)
(* that a TRADE_READY signal must satisfy.                                 *)
(*                                                                         *)
(* A leg of the direction's option type is a record of                     *)
(*   strike  as the chain gives it: only an absent one drops the leg       *)
(*   named   whether the leg has a security_id                             *)
(*   ltp     premium, or None                                              *)
(*   oi      open interest, or None                                        *)
(*   spread  tenths of a percent of the mid price, None without a          *)
(*           two-sided quote; negative when the book is crossed            *)
(*   qty     the smaller of the total quantities in the depth ladder, None *)
(*           when the quote is the chain's own                             *)
(*   delta   hundredths, without sign, or None                             *)
(*   expiry  days to expiry, or None                                       *)
(***************************************************************************)
EXTENDS Evidence

Legs ==
  [strike : Int, named : BOOLEAN,
   ltp : Nat \cup {None}, oi : Nat \cup {None}, spread : Int \cup {None},
   qty : Nat \cup {None}, delta : Nat \cup {None}, expiry : Int \cup {None}]

(***************************************************************************)
(* compute_depth_metrics, and _fallback_depth_from_leg without a ladder.   *)
(***************************************************************************)
LiquidityQuality(leg) ==
  IF leg.spread = None THEN "UNKNOWN"
  ELSE IF leg.qty = None THEN (IF leg.spread <= 50 THEN "FAIR" ELSE "POOR")
  ELSE IF leg.spread <= 10 /\ leg.qty >= 300 THEN "GOOD"
  ELSE IF leg.spread <= 30 /\ leg.qty >= 75 THEN "FAIR" ELSE "POOR"

DeltaDistance(leg) == Distance(leg.delta, 50)

\* _hard_reject_reason finds nothing.  It does not look at the strike.
Survives(leg) ==
  /\ leg.named
  /\ leg.ltp # None /\ leg.ltp > 0
  /\ leg.oi # None /\ leg.oi >= 500
  /\ leg.spread # None /\ leg.spread <= 50
  /\ leg.delta # None => DeltaDistance(leg) <= 15

Least(f, S) == f[CHOOSE i \in S : \A j \in S : f[i] <= f[j]]

Greatest(f, S) == f[CHOOSE i \in S : \A j \in S : f[i] >= f[j]]

\* A position between two ends is Part / Span, and 1 when they coincide.
Span(lo, hi) == IF hi = lo THEN 1 ELSE hi - lo

Part(x, lo, hi) == IF hi = lo THEN 1 ELSE x - lo

\* Slip: the wide spread gets the points for the tight one.
TightnessWide(x, lo, hi) == IF hi = lo THEN 1 ELSE x - lo

Tightness(x, lo, hi) == IF hi = lo THEN 1 ELSE hi - x

(***************************************************************************)
(* The score of select_contract: 0.40 for open interest, 0.35 for a tight  *)
(* spread, 0.25 for delta, over the survivors S; as an integer, with the   *)
(* denominators the survivors share multiplied out.                        *)
(***************************************************************************)
ScoreOf(legs, i, S) ==
  LET oi == [j \in S |-> legs[j].oi]
      spread == [j \in S |-> legs[j].spread]
      oiSpan == Span(Least(oi, S), Greatest(oi, S))
      spreadSpan == Span(Least(spread, S), Greatest(spread, S))
      fit == IF legs[i].delta = None THEN 15 ELSE 30 - 2 * DeltaDistance(legs[i])
  IN 48 * Part(oi[i], Least(oi, S), Greatest(oi, S)) * spreadSpan
     + 42 * Tightness(spread[i], Least(spread, S), Greatest(spread, S)) * oiSpan
     + fit * oiSpan * spreadSpan

(***************************************************************************)
(* The nearest expiry of the chain.  A leg without one is not in it when   *)
(* any other leg has one.                                                  *)
(***************************************************************************)
OfNearestExpiry(legs) ==
  LET dated == {i \in DOMAIN legs : legs[i].expiry # None}
  IN IF dated = {} THEN DOMAIN legs
     ELSE {i \in dated : \A j \in dated : legs[i].expiry <= legs[j].expiry}

Survivors(legs) == {i \in OfNearestExpiry(legs) : Survives(legs[i])}

\* select_contract: the survivor with the highest score, the first of equals.
SelectContract(legs) ==
  LET S == Survivors(legs)
      score == [i \in S |-> ScoreOf(legs, i, S)]
  IN IF S = {} THEN None
     ELSE legs[CHOOSE i \in S : \A j \in S :
                 score[i] > score[j] \/ (score[i] = score[j] /\ i <= j)]

Liquidity(leg) == IF leg = None THEN "UNKNOWN" ELSE LiquidityQuality(leg)

-----------------------------------------------------------------------------
\* The plan's premiums are in units of 1/10000, the safety margin is 1.15.
Unit == 10000

\* Slip: without the safety margin.
StopDistanceBare(leg, risk) == leg.delta * risk * 100

StopDistance(leg, risk) == leg.delta * risk * 115

TargetDistance(leg, reward) == leg.delta * reward * 100

(***************************************************************************)
(* engineer_trade: from distances in the underlying to premiums, or None.  *)
(***************************************************************************)
EngineerTrade(leg, ltp, invalidation, target) ==
  IF target = None \/ leg.delta = None \/ leg.delta = 0 THEN None
  ELSE LET risk == Distance(ltp, invalidation)
           reward == Distance(target, ltp)
           entry == leg.ltp * Unit
       IN IF risk = 0 \/ StopDistance(leg, risk) >= entry \/ reward = 0 THEN None
          ELSE [entry |-> entry, stop_loss |-> entry - StopDistance(leg, risk),
                take_profit |-> entry + TargetDistance(leg, reward),
                invalidation |-> invalidation]

\* risk_reward >= 1.2 of the plan.
PlanPays(plan) ==
  10 * (plan.take_profit - plan.entry) >= 12 * (plan.entry - plan.stop_loss)

\* Slip: the session window is not asked.
RiskPassesAtAnyTime(plan, leg, tier, overall, entryAllowed) ==
  /\ plan # None /\ tier >= 1 /\ overall # "INSUFFICIENT"
  /\ PlanPays(plan) /\ plan.stop_loss > 0 /\ plan.entry < plan.take_profit
  /\ leg.spread # None /\ leg.spread <= 50
  /\ LiquidityQuality(leg) \in {"GOOD", "FAIR"}
  /\ leg.expiry >= 0

(***************************************************************************)
(* validate_risk on a contract that was selected.                          *)
(***************************************************************************)
RiskPasses(plan, leg, tier, overall, entryAllowed) ==
  /\ plan # None /\ tier >= 1 /\ overall # "INSUFFICIENT" /\ entryAllowed
  /\ PlanPays(plan) /\ plan.stop_loss > 0 /\ plan.entry < plan.take_profit
  /\ leg.spread # None /\ leg.spread <= 50
  /\ LiquidityQuality(leg) \in {"GOOD", "FAIR"}
  /\ leg.expiry >= 0

\* Slip: a locked book, with no spread at all, is refused as well.
SchemaAcceptsOpen(plan, leg, tier) ==
  /\ 0 < plan.stop_loss /\ plan.stop_loss < plan.entry /\ plan.entry < plan.take_profit
  /\ leg.spread > 0 /\ leg.strike > 0
  /\ tier \in 1 .. 4

(***************************************************************************)
(* The validators of ContractRef, ExecutionPlan, ExecutionQuality and      *)
(* TradeReadySignal.                                                       *)
(***************************************************************************)
SchemaAccepts(plan, leg, tier) ==
  /\ 0 < plan.stop_loss /\ plan.stop_loss < plan.entry /\ plan.entry < plan.take_profit
  /\ leg.spread >= 0 /\ leg.strike > 0
  /\ tier \in 1 .. 4
=============================================================================
