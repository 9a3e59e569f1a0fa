----------------------------- MODULE CandleFeed ------------------------------
(***************************************************************************)
(* The bars of one underlying on a day, as the upstream publishes them and *)
(* the engine reads them.  The upstream opens a bar in every period, maybe *)
(* one period late, and may send a bar again with other prices.  A tick of *)
(* the engine takes the boundary as_of; its payload is fetched within the  *)
(* next period, when the upstream may already know more.                   *)
(***************************************************************************)
EXTENDS Structure

CONSTANTS
  Shapes,      \* the [open, high, low, close] records a bar may have
  Periods,     \* periods of the day
  Resends,     \* how often a bar may be sent again
  Correctable, \* and how many bars there may be when it is
  Widths,      \* bucket widths of the aggregation
  Mirror       \* prices p and Mirror - p are mirror images

ASSUME FeedAssumption ==
  /\ Periods \in Nat /\ Resends \in Nat /\ Correctable \in Nat
  /\ Widths \subseteq Nat \ {0}
  /\ Mirror \in Nat
  /\ Shapes \subseteq [open : Nat, high : Nat, low : Nat, close : Nat]
  /\ \A s \in Shapes : s.low <= s.open /\ s.open <= s.high /\ s.low <= s.close
                       /\ s.close <= s.high

VARIABLES
  clock,     \* periods begun since the session open
  asOf,      \* the boundary of the current tick
  payload,   \* the bars the upstream would send now, in the order sent
  resent     \* bars sent again so far

vars == <<clock, asOf, payload, resent>>

Starts == {payload[i].start : i \in DOMAIN payload}

Bar(start, shape) ==
  [start |-> start, open |-> shape.open, high |-> shape.high, low |-> shape.low,
   close |-> shape.close]

Init == clock = 0 /\ asOf = 0 /\ payload = << >> /\ resent = 0

\* The next bar appears, in its period or in the one after it.
OpenBar(shape) ==
  /\ Cardinality(Starts) <= clock /\ Cardinality(Starts) < Periods
  /\ payload' = Append(payload, Bar(Cardinality(Starts), shape))
  /\ UNCHANGED <<clock, asOf, resent>>

\* The newest bar moves on, or the one before it is corrected.
ResendBar(start, shape) ==
  /\ resent < Resends /\ Cardinality(Starts) <= Correctable
  /\ start \in Starts /\ start + 2 >= Cardinality(Starts)
  /\ payload' = Append(payload, Bar(start, shape))
  /\ resent' = resent + 1
  /\ UNCHANGED <<clock, asOf>>

PeriodEnds ==
  /\ clock < Periods
  /\ clock <= Cardinality(Starts) /\ clock = asOf
  /\ clock' = clock + 1
  /\ UNCHANGED <<asOf, payload, resent>>

\* run_engine.py: now = datetime.now(UTC)
Tick ==
  /\ asOf < clock
  /\ asOf' = clock
  /\ UNCHANGED <<clock, payload, resent>>

\* The model ends with the last period.
DayOver == clock = Periods /\ asOf = clock /\ UNCHANGED vars

Next ==
  \/ \E shape \in Shapes : OpenBar(shape)
  \/ \E start \in Starts, shape \in Shapes : ResendBar(start, shape)
  \/ PeriodEnds \/ Tick \/ DayOver

Spec == Init /\ [][Next]_vars

-----------------------------------------------------------------------------
Candles == BuildUnderlying(payload, asOf)

\* The price in the payload is the newest bar's, whatever as_of is.
LtpOf(bars) ==
  LET newest == Max({bars[i].start : i \in DOMAIN bars})
  IN bars[Max({i \in DOMAIN bars : bars[i].start = newest})].close

Analysis == AnalyzeStructure(Candles, asOf, LtpOf(payload))

SwingsOf(candles, b) == ClassifyStructure(FindSwings(candles, b))

Swings == SwingsOf(Candles, asOf)

(***************************************************************************)
(* Types of the variables, and of what the analysis makes of them: one     *)
(* candle per period, in order.                                            *)
(***************************************************************************)
TypeOK ==
  /\ clock \in 0 .. Periods /\ asOf \in 0 .. clock /\ resent \in 0 .. Resends
  /\ \A i \in DOMAIN payload : payload[i].start \in 0 .. clock
  /\ \A i \in DOMAIN Candles : Candles[i].start = i - 1 /\ Candles[i].start <= asOf

(***************************************************************************)
(* No lookahead: nothing in the analysis depends on a bar that had not     *)
(* ended at the boundary, although the payload holds such bars; only the   *)
(* price itself is newer (docs/ARCHITECTURE.md section 3; swings.py:31,    *)
(* liquidity.py:143, levels.py:43-46).                                     *)
(***************************************************************************)
NoLookahead ==
  payload # << >> =>
    LET ended == Picked(payload, {i \in DOMAIN payload : payload[i].start + 1 <= asOf})
    IN Analysis = AnalyzeStructure(BuildUnderlying(ended, asOf), asOf, LtpOf(payload))

\* What was seen one bar or one period ago, or both.
Before(bars, periods) ==
  BuildUnderlying(SubSeq(payload, 1, Len(payload) - bars), asOf - periods)

Uncorrected(before, after) == IsPrefix(Closed(before), Closed(after))

(***************************************************************************)
(* A swing, once confirmed and labelled, stays: what was found a bar or a  *)
(* period earlier is still there, in the same order, with at most new      *)
(* swings after it, unless an ended bar was corrected; so no level that    *)
(* was given as an invalidation is unmade (swings.py:33-61).               *)
(***************************************************************************)
SwingsAreFinal ==
  LET now == Candles
      swings == Swings
  IN \A bars \in 0 .. 1, periods \in 0 .. 1 :
       LET before == Before(bars, periods)
       IN Uncorrected(before, now) => IsPrefix(SwingsOf(before, asOf - periods), swings)

ClosedBuckets(candles, m, b) ==
  LET aggregated == AggregateIntraday(candles, m, b)
  IN {aggregated[i] : i \in {j \in DOMAIN aggregated : aggregated[j].is_closed}}

(***************************************************************************)
(* A higher timeframe candle that is called closed stays as it is, while   *)
(* the upstream corrects nothing and was punctual: every period that had   *)
(* ended had its bar.  After a late bar it does not: a bucket without its  *)
(* last bar is closed by the clock (aggregation.py:95).                    *)
(***************************************************************************)
AggregatesAreFinal ==
  LET now == Candles
  IN \A bars \in 0 .. 1, periods \in 0 .. 1 :
       LET before == Before(bars, periods)
       IN Len(Closed(before)) = asOf - periods /\ Uncorrected(before, now) =>
            \A m \in Widths : ClosedBuckets(before, m, asOf - periods)
                              \subseteq ClosedBuckets(now, m, asOf)

-----------------------------------------------------------------------------
\* The prices that can be levels or extremes.
Levels ==
  {s.high : s \in Shapes} \cup {s.low : s \in Shapes}
    \cup (IF PrevDay = None THEN {} ELSE {PrevDay.high, PrevDay.low})

(***************************************************************************)
(* What makes the turned day comparable: its prices are within the mirror, *)
(* the day before is its own mirror image, and although a sweep is         *)
(* measured in parts of the level, which the mirror changes, no price lies *)
(* between the two measures (liquidity.py:119, 134).                       *)
(***************************************************************************)
Mirrorable ==
  /\ \A s \in Shapes : s.high <= Mirror
  /\ PrevDay # None => PrevDay.high + PrevDay.low = Mirror
  /\ \A price \in Levels, level \in Levels :
       Distance(price, level) * 1000 > level
         <=> Distance(price, level) * 1000 > Mirror - level

MirrorPrice(p) == IF p = None THEN None ELSE Mirror - p

MirrorBar(b) ==
  [start |-> b.start, open |-> Mirror - b.open, high |-> Mirror - b.low,
   low |-> Mirror - b.high, close |-> Mirror - b.close]

MirrorKind ==
  [k \in {"PDH", "PDL", "SESSION_HIGH", "SESSION_LOW", "OPENING_RANGE_HIGH",
          "OPENING_RANGE_LOW"} |->
     IF k = "PDH" THEN "PDL" ELSE IF k = "PDL" THEN "PDH"
     ELSE IF k = "SESSION_HIGH" THEN "SESSION_LOW"
     ELSE IF k = "SESSION_LOW" THEN "SESSION_HIGH"
     ELSE IF k = "OPENING_RANGE_HIGH" THEN "OPENING_RANGE_LOW" ELSE "OPENING_RANGE_HIGH"]

MirrorBias(b) == IF b = "BULLISH" THEN "BEARISH" ELSE IF b = "BEARISH" THEN "BULLISH" ELSE b

\* No bar is a swing of both kinds and no swing repeats the price before it.
Untied(swings) ==
  \A i \in DOMAIN swings, j \in DOMAIN swings : i < j =>
    /\ swings[i].index # swings[j].index
    /\ swings[i].kind = swings[j].kind => swings[i].price # swings[j].price

(***************************************************************************)
(* The analysis favours neither side: turned upside down, the same day     *)
(* gives the opposite bias, the mirrored invalidation levels, the same     *)
(* pullback and the same reaction at every mirrored session level.  Equal  *)
(* swings, which count as bearish, and a level at the very price, which    *)
(* counts as a support, are the exceptions (swings.py:71-80, 90-103,       *)
(* liquidity.py:103-137, 149).                                             *)
(***************************************************************************)
MirrorImage ==
  payload # << >> /\ Untied(Swings) =>
    LET bars == AsSeq([i \in DOMAIN payload |-> MirrorBar(payload[i])])
        image == AnalyzeStructure(BuildUnderlying(bars, asOf), asOf, LtpOf(bars))
        here == Analysis
    IN /\ image.bias = MirrorBias(here.bias)
       /\ image.invalidation_long = MirrorPrice(here.invalidation_short)
       /\ image.invalidation_short = MirrorPrice(here.invalidation_long)
       /\ image.pullback = here.pullback
       /\ \A i \in DOMAIN here.reactions :
            LET r == here.reactions[i]
            IN r.kind \in DOMAIN MirrorKind /\ r.level # here.ltp =>
                 \E j \in DOMAIN image.reactions :
                   image.reactions[j] = [kind |-> MirrorKind[r.kind],
                                         level |-> Mirror - r.level,
                                         reaction |-> r.reaction]

(***************************************************************************)
(* What a pullback framework is given is a pullback: the price is between  *)
(* the two ends of the impulse.  The kind FAILED is never reached, since a *)
(* price past either end is named before the retracement is looked at      *)
(* (pullback.py:52-67, decision.py:266-276).                               *)
(***************************************************************************)
PullbackLiesInTheImpulse ==
  payload # << >> =>
    LET swings == Swings
        i == Impulse(swings)
        ltp == LtpOf(payload)
        pullback == DerivePullback(swings, ltp)
    IN /\ pullback # "FAILED"
       /\ pullback \in {"SHALLOW", "MODERATE", "DEEP"} =>
            /\ Min({i.start, i.end}) <= ltp
            /\ ltp <= Max({i.start, i.end})

-----------------------------------------------------------------------------
\* The frameworks that apply; decide() fills in what is not structure.
Applicable ==
  LET ctx == Analysis
      results == EvaluateFrameworks([ctx EXCEPT !.momentum = "STRONG"])
  IN {results[i] : i \in DOMAIN results} \ {None}

LastClose == Last(Closed(Candles)).close

(***************************************************************************)
(* A framework that fades a level trades with the candles: a sweep, a      *)
(* failed break or a rejection is bought only when the last candle closed  *)
(* not below the level, and sold only when it closed not above, although   *)
(* the direction is taken from a newer price than the reaction             *)
(* (frameworks.py:157-161, 174-178, 191-195, 246-249).  At a level equal   *)
(* to the price the two conventions differ and the direction is wrong.     *)
(***************************************************************************)
FadesTradeWithTheClose ==
  payload # << >> =>
    \A f \in Applicable :
      /\ f.framework \in LevelReactionFrameworks \ {"CONFIRMED_STRUCTURAL_BREAKOUT"}
      /\ f.invalidation # LtpOf(payload)
      => IF f.direction = "CALL" THEN LastClose >= f.invalidation
                                 ELSE LastClose <= f.invalidation

(***************************************************************************)
(* "acceptance above a resistance -> bullish; acceptance below a support   *)
(* -> bearish" (frameworks.py:209).  The code tells a resistance from a    *)
(* support by a newer price than the accepting candle's, so an acceptance  *)
(* is seen only after the price came back, and then traded against.        *)
(***************************************************************************)
AcceptanceTradesTheBreak ==
  payload # << >> =>
    \A f \in Applicable :
      f.framework = "CONFIRMED_STRUCTURAL_BREAKOUT" =>
        f.direction = DirectionIf(LastClose > f.invalidation)
=============================================================================
