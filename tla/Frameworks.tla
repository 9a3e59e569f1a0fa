------------------------------ MODULE Frameworks -----------------------------
(***************************************************************************)
(* authorization/frameworks.py: the eight strategy frameworks.  Each looks *)
(* at the regime first, then at its own prerequisites, and yields a        *)
(* direction, the level that invalidates it and perhaps a target.          *)
(*                                                                         *)
(* A context is a record with the fields                                   *)
(*   regime, bias         of the structure analysis                        *)
(*   invalidation_long,   the last confirmed swing low and swing high, or  *)
(*   invalidation_short   None                                             *)
(*   reactions            at the liquidity zones, a sequence of records    *)
(*                        [kind, level, reaction]                          *)
(*   ltp                  the last traded price                            *)
(*   momentum             its quality, or None                             *)
(*   pullback             its kind, or None                                *)
(*   range                None, or [upper, lower]                          *)
(***************************************************************************)
EXTENDS Regime

FrameworkOrder ==
  <<"TREND_CONTINUATION", "STRUCTURED_PULLBACK", "LIQUIDITY_SWEEP_CONFIRMATION",
    "RANGE_BOUNDARY_REJECTION", "FAILED_BREAKOUT_REVERSAL",
    "CONFIRMED_STRUCTURAL_BREAKOUT", "COMPRESSION_EXPANSION", "STRUCTURAL_REVERSAL">>

Directions == {"CALL", "PUT"}

DirectionIf(bullish) == IF bullish THEN "CALL" ELSE "PUT"

\* A framework that does not apply has no result.
Result(name, bullish, invalidation, target) ==
  IF invalidation = None THEN None
  ELSE [framework |-> name, direction |-> DirectionIf(bullish),
        invalidation |-> invalidation, target |-> target]

Distance(a, b) == IF a < b THEN b - a ELSE a - b

InvalidationFor(ctx, bullish) ==
  IF bullish THEN ctx.invalidation_long ELSE ctx.invalidation_short

BoundaryFor(ctx, bullish) ==
  IF ctx.range = None THEN None
  ELSE IF bullish THEN ctx.range.upper ELSE ctx.range.lower

\* Slip: the stop of the other side.
TrendContinuationCrossed(ctx) ==
  IF ctx.regime \in {"TRENDING_UP", "TRENDING_DOWN"} /\ ctx.momentum \in {"STRONG", "MODERATE"}
  THEN LET bullish == ctx.regime = "TRENDING_UP"
       IN Result("TREND_CONTINUATION", bullish, InvalidationFor(ctx, ~ bullish),
                 BoundaryFor(ctx, bullish))
  ELSE None

TrendContinuation(ctx) ==
  IF ctx.regime \in {"TRENDING_UP", "TRENDING_DOWN"} /\ ctx.momentum \in {"STRONG", "MODERATE"}
  THEN LET bullish == ctx.regime = "TRENDING_UP"
       IN Result("TREND_CONTINUATION", bullish, InvalidationFor(ctx, bullish),
                 BoundaryFor(ctx, bullish))
  ELSE None

\* A framework that trades the structure's bias.
ByBias(ctx, name) ==
  IF ctx.bias = "NEUTRAL" THEN None
  ELSE LET bullish == ctx.bias = "BULLISH"
       IN Result(name, bullish, InvalidationFor(ctx, bullish), None)

StructuredPullback(ctx) ==
  IF /\ ctx.regime \in {"TRENDING_UP", "TRENDING_DOWN", "PULLBACK"}
     /\ ctx.pullback \in {"SHALLOW", "MODERATE"}
  THEN ByBias(ctx, "STRUCTURED_PULLBACK") ELSE None

CompressionExpansion(ctx) ==
  IF ctx.regime = "EXPANSION" THEN ByBias(ctx, "COMPRESSION_EXPANSION") ELSE None

\* _nearest_reaction: the first one at the smallest distance from the price.
NearestIn(reactions, ltp, S) ==
  CHOOSE i \in S : \A j \in S :
    LET di == Distance(reactions[i].level, ltp)
        dj == Distance(reactions[j].level, ltp)
    IN di < dj \/ (di = dj /\ i <= j)

\* Slip: towards the zone instead of away from it.
ByReactionTowards(ctx, name, regime, kind, zones) ==
  LET S == {i \in DOMAIN ctx.reactions : /\ ctx.reactions[i].reaction = kind
                                         /\ ctx.reactions[i].kind \in zones}
      level == ctx.reactions[NearestIn(ctx.reactions, ctx.ltp, S)].level
  IN IF ctx.regime # regime \/ S = {} THEN None
     ELSE Result(name, level > ctx.ltp, level, None)

(***************************************************************************)
(* A framework that trades a reaction at a zone: away from a zone below    *)
(* the price upwards, from any other downwards, with the zone itself as    *)
(* the level that invalidates it.                                          *)
(***************************************************************************)
ByReaction(ctx, name, regime, kind, zones) ==
  LET S == {i \in DOMAIN ctx.reactions : /\ ctx.reactions[i].reaction = kind
                                         /\ ctx.reactions[i].kind \in zones}
      level == ctx.reactions[NearestIn(ctx.reactions, ctx.ltp, S)].level
  IN IF ctx.regime # regime \/ S = {} THEN None
     ELSE Result(name, level < ctx.ltp, level, None)

LiquiditySweepConfirmation(ctx) ==
  ByReaction(ctx, "LIQUIDITY_SWEEP_CONFIRMATION", "LIQUIDITY_SWEEP", "SWEEP", LiquidityKinds)

RangeBoundaryRejection(ctx) ==
  ByReaction(ctx, "RANGE_BOUNDARY_REJECTION", "RANGE", "REJECTION", LiquidityKinds)

FailedBreakoutReversal(ctx) ==
  ByReaction(ctx, "FAILED_BREAKOUT_REVERSAL", "FAILED_BREAKOUT", "FAILED_BREAK", LiquidityKinds)

ConfirmedStructuralBreakout(ctx) ==
  ByReaction(ctx, "CONFIRMED_STRUCTURAL_BREAKOUT", "BREAKOUT_ATTEMPT", "ACCEPTANCE", LiquidityKinds)

StructuralReversal(ctx) ==
  ByReaction(ctx, "STRUCTURAL_REVERSAL", "REVERSAL_ATTEMPT", "REJECTION", MajorLevelKinds)

\* evaluate_frameworks, in its order; None where a framework does not apply.
EvaluateFrameworks(ctx) ==
  <<TrendContinuation(ctx), StructuredPullback(ctx), LiquiditySweepConfirmation(ctx),
    RangeBoundaryRejection(ctx), FailedBreakoutReversal(ctx),
    ConfirmedStructuralBreakout(ctx), CompressionExpansion(ctx), StructuralReversal(ctx)>>

LevelReactionFrameworks ==
  {"LIQUIDITY_SWEEP_CONFIRMATION", "RANGE_BOUNDARY_REJECTION", "FAILED_BREAKOUT_REVERSAL",
   "CONFIRMED_STRUCTURAL_BREAKOUT", "STRUCTURAL_REVERSAL"}
=============================================================================
