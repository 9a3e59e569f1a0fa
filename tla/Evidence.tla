------------------------------ MODULE Evidence -------------------------------
(***************************************************************************)
(* The evidence for one direction and the tier it supports:                *)
(* market/momentum.py, futures_analysis.py, breadth.py, context.py,        *)
(* divergence.py, options/chain.py, the evidence part of api/decision.py,  *)
(* authorization/confluence.py and tiers.py.                               *)
(*                                                                         *)
(* The observations, as far as the stances tell their values apart:        *)
(*   price    sign of the change since the open, or None                   *)
(*   futures  None, or [quoted, oi_change]: whether the nearest contract   *)
(*            has a price, and the sign of its OI change or None           *)
(*   pcr      None (no chain or no call OI), "high", "low" or "mid"        *)
(*   breadth  None, "high", "low" or "mid" advance/decline ratio           *)
(*   context  None, "notes" or "event"                                     *)
(***************************************************************************)
EXTENDS Frameworks

Stances == {"SUPPORTIVE", "NEUTRAL", "CONFLICTING", "UNAVAILABLE"}

Signs == {-1, 0, 1}

-----------------------------------------------------------------------------
(***************************************************************************)
(* Momentum.  What compute_impulse may return: without a size there is no  *)
(* direction to follow through and nothing for ATR to scale.               *)
(***************************************************************************)
ImpulseMetrics ==
  {m \in [size : Signs, acceleration : Signs,
          atr : {None, "large", "small"}, volume : {None, "expanded", "plain", "weak"},
          efficiency : {None, "clean", "noisy"}, follow_through : {None, "yes", "no"}] :
     m.size = 0 => m.follow_through = None /\ m.atr # "large"}

Decelerating(m) == m.size # 0 /\ (m.acceleration > 0) # (m.size > 0)

Score(m) ==
  One(m.atr = "large") + One(m.volume = "expanded") + One(m.efficiency = "clean")
    + One(m.follow_through = "yes")
    + (IF m.size = 0 THEN 0 ELSE IF Decelerating(m) THEN -1 ELSE 1)

SignalsAvailable(m) ==
  One(m.atr # None) + One(m.volume # None) + One(m.efficiency # None)
    + One(m.follow_through # None) + One(m.size # 0)

\* assess_momentum_quality: shares of 75%, 40% and 0%.
MomentumQuality(m) ==
  IF m = None THEN None
  ELSE IF SignalsAvailable(m) = 0 THEN None
  ELSE IF 4 * Score(m) >= 3 * SignalsAvailable(m) THEN "STRONG"
  ELSE IF 10 * Score(m) >= 4 * SignalsAvailable(m) THEN "MODERATE"
  ELSE IF Score(m) >= 0 THEN "WEAK" ELSE "DECAYING"

\* A move of size zero counts as a fall.
MomentumStance(m, direction) ==
  LET quality == MomentumQuality(m)
      aligned == (m.size > 0) = (direction = "CALL")
  IN IF quality = None THEN "UNAVAILABLE"
     ELSE IF quality \in {"STRONG", "MODERATE"}
          THEN IF aligned THEN "SUPPORTIVE" ELSE "CONFLICTING"
     ELSE IF quality = "DECAYING" /\ aligned THEN "CONFLICTING" ELSE "NEUTRAL"

-----------------------------------------------------------------------------
(***************************************************************************)
(* The other streams.                                                      *)
(***************************************************************************)
\* The price and OI changes read together; 0 when they say nothing.
FuturesLean(futures, price) ==
  IF price = None \/ futures.oi_change = None \/ futures.oi_change = 0 THEN 0 ELSE price

\* The stance of a stream that leans up (1), down (-1) or neither way.
Leaning(lean, direction) ==
  IF lean = 0 THEN "NEUTRAL"
  ELSE IF (lean > 0) = (direction = "CALL") THEN "SUPPORTIVE" ELSE "CONFLICTING"

FuturesStance(futures, price, direction) ==
  IF futures = None THEN "UNAVAILABLE"
  ELSE Leaning(FuturesLean(futures, price), direction)

Lean(ratio) == IF ratio = "high" THEN 1 ELSE IF ratio = "low" THEN -1 ELSE 0

RatioStance(ratio, direction) ==
  IF ratio = None THEN "UNAVAILABLE" ELSE Leaning(Lean(ratio), direction)

ContextStance(context) ==
  IF context = None THEN "UNAVAILABLE"
  ELSE IF context = "event" THEN "CONFLICTING" ELSE "NEUTRAL"

\* Slip: the quality of the liquidity is taken for a stance.
DepthStanceRaw(quality) == quality

DepthStance(quality) ==
  IF quality = "GOOD" THEN "SUPPORTIVE" ELSE IF quality = "FAIR" THEN "NEUTRAL"
  ELSE IF quality = "POOR" THEN "CONFLICTING" ELSE "UNAVAILABLE"

\* detect_divergences: each one is a conflicting item more.
Divergences(futures, breadth, m, price) ==
  LET moving == m # None /\ price # None /\ price # 0
  IN One(breadth = "CONFLICTING") + One(futures = "CONFLICTING")
       + One(moving /\ m.volume = "weak") + One(moving /\ Decelerating(m))

\* What is kept for a direction: a stance per stream, and the divergences.
EvidenceRecords ==
  [futures : Stances, option_chain : Stances, breadth : Stances, momentum : Stances,
   option_depth : Stances, global_context : Stances, divergences : 0 .. 4]

(***************************************************************************)
(* _direction_evidence: the six streams and the number of divergences.     *)
(***************************************************************************)
DirectionEvidence(seen, m, liquidity, direction) ==
  LET futures == FuturesStance(seen.futures, seen.price, direction)
      breadth == RatioStance(seen.breadth, direction)
  IN [futures |-> futures, option_chain |-> RatioStance(seen.pcr, direction),
      breadth |-> breadth, momentum |-> MomentumStance(m, direction),
      option_depth |-> DepthStance(liquidity),
      global_context |-> ContextStance(seen.context),
      divergences |-> Divergences(futures, breadth, m, seen.price)]

\* Items of a stance among the six streams.
Count(e, stance) ==
  One(e.futures = stance) + One(e.option_chain = stance) + One(e.breadth = stance)
    + One(e.momentum = stance) + One(e.option_depth = stance)
    + One(e.global_context = stance)

\* Slip: a conflict that two detectors report is counted once.
ConflictingOnce(e) == Count(e, "CONFLICTING")

Supportive(e) == Count(e, "SUPPORTIVE")

Conflicting(e) == Count(e, "CONFLICTING") + e.divergences

Unavailable(e) == Count(e, "UNAVAILABLE")

-----------------------------------------------------------------------------
(***************************************************************************)
(* Tiers.  A reward:risk ratio is a record [reward, risk], or None.        *)
(***************************************************************************)
LiquidityRank(quality) == IF quality = "GOOD" THEN 2 ELSE IF quality = "FAIR" THEN 1 ELSE 0

AtLeast(ratio, tenths) == ratio # None /\ 10 * ratio.reward >= tenths * ratio.risk

\* _evaluate of the requirements of TIER_1 and TIER_2.
MeetsTier1(e, ratio, overall, liquidity, streams) ==
  /\ Supportive(e) >= 2 /\ Conflicting(e) <= 1 /\ AtLeast(ratio, 12)
  /\ streams >= 1 /\ overall # "INSUFFICIENT"

MeetsTier2(e, ratio, overall, liquidity, streams) ==
  /\ Supportive(e) >= 3 /\ Conflicting(e) <= 0 /\ AtLeast(ratio, 15)
  /\ streams >= 2 /\ overall # "INSUFFICIENT"
  /\ LiquidityRank(liquidity) >= 1

\* Slip: four of the five streams are enough for TIER_3.
MeetsTier3Four(e, ratio, overall, liquidity, streams) ==
  /\ Supportive(e) >= 4 /\ Conflicting(e) <= 0 /\ AtLeast(ratio, 20)
  /\ streams >= 2 /\ overall = "GOOD"
  /\ LiquidityRank(liquidity) >= 2

MeetsTier3(e, ratio, overall, liquidity, streams) ==
  /\ Supportive(e) >= 5 /\ Conflicting(e) <= 0 /\ AtLeast(ratio, 20)
  /\ streams >= 2 /\ overall = "GOOD"
  /\ LiquidityRank(liquidity) >= 2

MeetsTier4(e, ratio, overall, liquidity, streams) ==
  /\ Supportive(e) >= 7 /\ Conflicting(e) <= 0 /\ AtLeast(ratio, 25)
  /\ streams >= 2 /\ overall = "GOOD"
  /\ LiquidityRank(liquidity) >= 2 /\ Unavailable(e) <= 1

\* assess_tier: the highest tier whose requirements are all met.
AssessTier(e, ratio, overall, liquidity, streams) ==
  IF MeetsTier4(e, ratio, overall, liquidity, streams) THEN 4
  ELSE IF MeetsTier3(e, ratio, overall, liquidity, streams) THEN 3
  ELSE IF MeetsTier2(e, ratio, overall, liquidity, streams) THEN 2
  ELSE IF MeetsTier1(e, ratio, overall, liquidity, streams) THEN 1 ELSE 0
=============================================================================
