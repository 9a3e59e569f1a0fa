------------------------------ MODULE Structure ------------------------------
(***************************************************************************)
(* From the bars in one payload to the structure analysis: the candle part *)
(* of data/snapshot_builder.py, market/aggregation.py, market/pullback.py, *)
(* structure/swings.py, levels.py, liquidity.py and engine.py.             *)
(*                                                                         *)
(* Time is counted in base periods from the session open.  A raw bar is a  *)
(* record [start, open, high, low, close]; prices are integers.  A day has *)
(* fewer bars than ADX (14) and Bollinger bands (40) need, so neither has  *)
(* a value; there is no option chain and no day OHLC in the payload, whose *)
(* session levels are then derived from the bars.                          *)
(***************************************************************************)
EXTENDS Frameworks, SequencesExt, FiniteSetsExt

CONSTANTS
  Lookback,       \* bars on each side a swing must dominate
  OpeningPeriods, \* length of the opening range
  PrevDay         \* None, or [high, low] of the day before

ASSUME StructureAssumption ==
  /\ Lookback \in Nat \ {0}
  /\ OpeningPeriods \in Nat
  /\ PrevDay # None => PrevDay \in [high : Nat, low : Nat]

-----------------------------------------------------------------------------
(***************************************************************************)
(* Candles.                                                                *)
(***************************************************************************)
\* _build_candle: is_closed is relative to the information boundary.
BuildCandle(bar, asOf) ==
  [start |-> bar.start, end |-> bar.start + 1, open |-> bar.open, high |-> bar.high,
   low |-> bar.low, close |-> bar.close, is_closed |-> bar.start + 1 <= asOf]

\* The same sequence; TLC computes its elements once.
AsSeq(f) == f \o << >>

\* The elements of a finite set of integers in order.
InOrder(S) == AsSeq([i \in 1 .. Cardinality(S) |->
                       CHOOSE t \in S : Cardinality({u \in S : u < t}) = i - 1])

\* The elements of s at the indices in I, in order.
Picked(s, I) == LET order == InOrder(I)
                IN AsSeq([k \in DOMAIN order |-> s[order[k]]])

CandlesOf(S, payload, asOf) ==
  LET starts == InOrder(S)
      LastOf(t) == payload[Max({i \in DOMAIN payload : payload[i].start = t})]
  IN AsSeq([k \in DOMAIN starts |-> BuildCandle(LastOf(starts[k]), asOf)])

\* Slip: a bar may start after the boundary.
BuildUnderlyingAll(payload, asOf) ==
  CandlesOf({payload[i].start : i \in DOMAIN payload}, payload, asOf)

(***************************************************************************)
(* _build_underlying and _dedupe_and_sort_candles: no bar that starts      *)
(* after the boundary, one per start (the last one sent), in order.        *)
(***************************************************************************)
BuildUnderlying(payload, asOf) ==
  CandlesOf({payload[i].start : i \in {j \in DOMAIN payload : payload[j].start <= asOf}}, payload, asOf)

Closed(candles) == Picked(candles, {i \in DOMAIN candles : candles[i].is_closed})

Highs(cs) == {cs[i].high : i \in DOMAIN cs}

Lows(cs) == {cs[i].low : i \in DOMAIN cs}

\* The candle of one bucket.
Merge(cs, bucket, m, closed) ==
  [start |-> bucket * m, end |-> (bucket + 1) * m, open |-> Head(cs).open,
   high |-> Max(Highs(cs)), low |-> Min(Lows(cs)), close |-> Last(cs).close,
   is_closed |-> closed]

Buckets(candles, m) == {candles[i].start \div m : i \in DOMAIN candles}

InBucket(candles, m, b) == Picked(candles, {i \in DOMAIN candles : candles[i].start \div m = b})

\* Slip: a bucket is closed once its last candle is.
AggregateIntradayByLast(candles, m, asOf) ==
  LET Merged(b) == LET cs == InBucket(candles, m, b)
                   IN Merge(cs, b, m, Last(cs).is_closed)
      buckets == InOrder(Buckets(candles, m))
  IN AsSeq([k \in DOMAIN buckets |-> Merged(buckets[k])])

(***************************************************************************)
(* aggregate_intraday: buckets of m periods counted from the session open; *)
(* a bucket is closed when its end is not after the boundary and all its   *)
(* candles are closed.                                                     *)
(***************************************************************************)
AggregateIntraday(candles, m, asOf) ==
  LET Merged(b) == LET cs == InBucket(candles, m, b)
                   IN Merge(cs, b, m, /\ (b + 1) * m <= asOf
                                      /\ \A i \in DOMAIN cs : cs[i].is_closed)
      buckets == InOrder(Buckets(candles, m))
  IN AsSeq([k \in DOMAIN buckets |-> Merged(buckets[k])])

-----------------------------------------------------------------------------
(***************************************************************************)
(* Swings.                                                                 *)
(***************************************************************************)
\* What may be a swing, two for each candle: its high, then its low.
Candidate(closed, s) ==
  LET i == (s + 1) \div 2
  IN IF s % 2 = 1 THEN [kind |-> "HIGH", index |-> i, price |-> closed[i].high]
                  ELSE [kind |-> "LOW", index |-> i, price |-> closed[i].low]

Candidates(closed) == AsSeq([s \in 1 .. 2 * Len(closed) |-> Candidate(closed, s)])

\* The extreme of a window, ties included.
IsExtreme(swing, window) ==
  swing.price = IF swing.kind = "HIGH" THEN Max(Highs(window)) ELSE Min(Lows(window))

\* Slip: a swing need not wait for the bars after it.
FindSwingsEarly(candles, asOf) ==
  LET closed == Closed(candles)
      n == Len(closed)
      Window(i) == SubSeq(closed, Max({1, i - Lookback}), Min({n, i + Lookback}))
      all == Candidates(closed)
  IN Picked(all, {s \in DOMAIN all : IsExtreme(all[s], Window(all[s].index))})

(***************************************************************************)
(* find_swings: a closed candle whose high or low is the extreme of the    *)
(* window around it, ties included, confirmed by the end of the window.    *)
(***************************************************************************)
FindSwings(candles, asOf) ==
  LET closed == Closed(candles)
      Window(i) == SubSeq(closed, i - Lookback, i + Lookback)
      Confirmed(i) == /\ i > Lookback /\ i + Lookback <= Len(closed)
                      /\ closed[i + Lookback].end <= asOf
      all == Candidates(closed)
  IN Picked(all, {s \in DOMAIN all : /\ Confirmed(all[s].index)
                                     /\ IsExtreme(all[s], Window(all[s].index))})

SwingLabels == {"HH", "LH", "HL", "LL"}

ASSUME LabelAssumption == None \notin SwingLabels

\* Slip: an equal low counts as a higher low.
LabelTieUp(swings, i) ==
  LET before == {j \in 1 .. (i - 1) : swings[j].kind = swings[i].kind}
  IN IF before = {} THEN None
     ELSE IF swings[i].kind = "HIGH"
          THEN IF swings[i].price > swings[Max(before)].price THEN "HH" ELSE "LH"
          ELSE IF swings[i].price < swings[Max(before)].price THEN "HL" ELSE "LL"

\* classify_structure: against the swing of the same kind before it.
Label(swings, i) ==
  LET before == {j \in 1 .. (i - 1) : swings[j].kind = swings[i].kind}
  IN IF before = {} THEN None
     ELSE IF swings[i].kind = "HIGH"
          THEN IF swings[i].price > swings[Max(before)].price THEN "HH" ELSE "LH"
          ELSE IF swings[i].price > swings[Max(before)].price THEN "HL" ELSE "LL"

ClassifyStructure(swings) ==
  AsSeq([i \in DOMAIN swings |->
           [kind |-> swings[i].kind, index |-> swings[i].index, price |-> swings[i].price,
            label |-> Label(swings, i)]])

LastPrice(swings, kind) ==
  LET S == {i \in DOMAIN swings : swings[i].kind = kind}
  IN IF S = {} THEN None ELSE swings[Max(S)].price

\* build_structure_state: the last four labels vote.
TrendBias(labeled) ==
  LET known == Picked(labeled, {i \in DOMAIN labeled : labeled[i].label # None})
      recent == {i \in DOMAIN known : i > Len(known) - 4}
      up == Cardinality({i \in recent : known[i].label \in {"HH", "HL"}})
      down == Cardinality(recent) - up
  IN IF up > down THEN "BULLISH" ELSE IF down > up THEN "BEARISH" ELSE "NEUTRAL"

-----------------------------------------------------------------------------
(***************************************************************************)
(* Levels, liquidity zones and the reactions at them.                      *)
(***************************************************************************)
Zone(kind, level) == IF level = None THEN << >> ELSE <<[kind |-> kind, level |-> level]>>

Top(cs) == IF cs = << >> THEN None ELSE Max(Highs(cs))

Bottom(cs) == IF cs = << >> THEN None ELSE Min(Lows(cs))

\* compute_session_levels, as the zones made of them.
LevelZones(candles) ==
  LET today == Closed(candles)
      opening == Picked(today, {i \in DOMAIN today : today[i].start < OpeningPeriods})
  IN (IF PrevDay = None THEN << >> ELSE Zone("PDH", PrevDay.high) \o Zone("PDL", PrevDay.low))
     \o Zone("SESSION_HIGH", Top(today)) \o Zone("SESSION_LOW", Bottom(today))
     \o Zone("OPENING_RANGE_HIGH", Top(opening)) \o Zone("OPENING_RANGE_LOW", Bottom(opening))

\* Prices in ascending order.
Ascending(prices) ==
  LET n == Len(prices)
      Precedes(j, i) == prices[j] < prices[i] \/ (prices[j] = prices[i] /\ j < i)
  IN AsSeq([k \in 1 .. n |->
       prices[CHOOSE i \in 1 .. n : Cardinality({j \in 1 .. n : Precedes(j, i)}) = k - 1]])

\* The sum of the first k.
Sums(prices) ==
  LET sum[k \in 0 .. Len(prices)] == IF k = 0 THEN 0 ELSE sum[k - 1] + prices[k]
  IN sum

(***************************************************************************)
(* _equal_level_zones: prices in ascending order; a cluster is what lies   *)
(* within 0.08% of its lowest price, and the next one begins after it; two *)
(* prices make a zone.  The average is rounded down.                       *)
(***************************************************************************)
EqualLevelZones(prices, kind) ==
  LET sorted == Ascending(prices)
      n == Len(sorted)
      sums == Sums(sorted)
      Reach(i) == Max({j \in i .. n : (sorted[j] - sorted[i]) * 10000 <= 8 * sorted[i]})
      Level(i) == (sums[Reach(i)] - sums[i - 1]) \div (Reach(i) - i + 1)
      Begin(C) == 1 \in C /\ \A i \in C : Reach(i) < n => Reach(i) + 1 \in C
      begins == {i \in 1 .. n : \A C \in SUBSET (1 .. n) : Begin(C) => i \in C}
      zones == InOrder({i \in begins : Reach(i) > i})
  IN AsSeq([k \in DOMAIN zones |-> [kind |-> kind, level |-> Level(zones[k])]])

PricesOf(swings, kind) ==
  LET of == Picked(swings, {i \in DOMAIN swings : swings[i].kind = kind})
  IN AsSeq([i \in DOMAIN of |-> of[i].price])

IdentifyLiquidityZones(candles, swings) ==
  LevelZones(candles) \o EqualLevelZones(PricesOf(swings, "HIGH"), "EQUAL_HIGH")
                      \o EqualLevelZones(PricesOf(swings, "LOW"), "EQUAL_LOW")

\* Slip: a wick beyond the level is a sweep wherever the last candle closed.
ClassifyReactionByWick(cs, level, direction) ==
  LET above == direction = "ABOVE"
      excursion == IF above THEN Max(Highs(cs)) - level ELSE level - Min(Lows(cs))
  IN IF cs = << >> \/ excursion < 0 THEN "UNTESTED"
     ELSE IF excursion * 1000 > level THEN "SWEEP" ELSE "REJECTION"

(***************************************************************************)
(* classify_reaction: of closed candles to a level, tested from below as a *)
(* resistance ("ABOVE") or from above as a support ("BELOW").              *)
(***************************************************************************)
ClassifyReaction(cs, level, direction) ==
  LET above == direction = "ABOVE"
      Beyond(p) == IF above THEN p > level ELSE p < level
      Far(c) == IF above THEN c.high ELSE c.low
      Near(c) == IF above THEN c.low ELSE c.high
      last == Last(cs)
      excursion == IF above THEN Max(Highs(cs)) - level ELSE level - Min(Lows(cs))
  IN IF cs = << >> \/ \A i \in DOMAIN cs : Far(cs[i]) # level /\ ~ Beyond(Far(cs[i]))
     THEN "UNTESTED"
     ELSE IF /\ \E i \in 1 .. (Len(cs) - 1) : Beyond(cs[i].close)
             /\ last.close # level /\ ~ Beyond(last.close) THEN "FAILED_BREAK"
     ELSE IF Beyond(last.close)
          THEN IF Beyond(Near(last)) THEN "ACCEPTANCE" ELSE "CONTINUATION"
     ELSE IF excursion * 1000 > level THEN "SWEEP" ELSE "REJECTION"

\* Slip: the bar that is still forming reacts as well.
ClassifyReactionsForming(zones, candles, price) ==
  AsSeq([i \in DOMAIN zones |->
     [kind |-> zones[i].kind, level |-> zones[i].level,
      reaction |-> ClassifyReaction(candles, zones[i].level,
                                    IF zones[i].level <= price THEN "BELOW" ELSE "ABOVE")]])

\* classify_reactions_at_zones: by the last ten closed candles.
ClassifyReactionsAtZones(zones, candles, price) ==
  LET closed == Closed(candles)
      recent == SubSeq(closed, Max({1, Len(closed) - 9}), Len(closed))
  IN AsSeq([i \in DOMAIN zones |->
        [kind |-> zones[i].kind, level |-> zones[i].level,
         reaction |-> ClassifyReaction(recent, zones[i].level,
                                       IF zones[i].level <= price THEN "BELOW" ELSE "ABOVE")]])

NearestReaction(reactions, price) ==
  LET tested == {i \in DOMAIN reactions : reactions[i].reaction # "UNTESTED"}
  IN IF tested = {} THEN None
     ELSE reactions[NearestIn(reactions, price, tested)].reaction

-----------------------------------------------------------------------------
(***************************************************************************)
(* Pullback, from the last swing and the last one of the other kind.       *)
(***************************************************************************)
PullbackKinds == {"NONE", "SHALLOW", "MODERATE", "DEEP", "FAILED", "CONTINUATION",
                  "REVERSAL_STRUCTURE"}

ASSUME PullbackAssumption == None \notin PullbackKinds /\ None \notin [start : Nat, end : Nat]

ClassifyPullback(start, end, price, brokeOrigin, resumed) ==
  LET span == Distance(start, end)
      back == Distance(end, price)
  IN IF span = 0 THEN "NONE"
     ELSE IF brokeOrigin THEN "REVERSAL_STRUCTURE"
     ELSE IF resumed THEN "CONTINUATION"
     ELSE IF back > span THEN "FAILED"
     ELSE IF back * 1000 <= 382 * span THEN "SHALLOW"
     ELSE IF back * 1000 <= 618 * span THEN "MODERATE" ELSE "DEEP"

Impulse(swings) ==
  LET others == {i \in DOMAIN swings : swings[i].kind # Last(swings).kind}
  IN IF swings = << >> \/ others = {} THEN None
     ELSE [start |-> swings[Max(others)].price, end |-> Last(swings).price]

\* Slip: the side of the origin is not told from that of the end.
DerivePullbackOneSided(swings, price) ==
  LET i == Impulse(swings)
      bullish == i.end > i.start
  IN IF i = None THEN None
     ELSE ClassifyPullback(i.start, i.end, price, price < i.start,
                           IF bullish THEN price > i.end ELSE price < i.end)

\* _derive_pullback
DerivePullback(swings, price) ==
  LET i == Impulse(swings)
      bullish == i.end > i.start
  IN IF i = None THEN None
     ELSE ClassifyPullback(i.start, i.end, price,
                           IF bullish THEN price < i.start ELSE price > i.start,
                           IF bullish THEN price > i.end ELSE price < i.end)

-----------------------------------------------------------------------------
(***************************************************************************)
(* analyze_structure, and the context decide() makes of it.                *)
(***************************************************************************)
AnalyzeStructure(candles, asOf, ltp) ==
  LET swings == ClassifyStructure(FindSwings(candles, asOf))
      zones == IdentifyLiquidityZones(candles, swings)
      reactions == ClassifyReactionsAtZones(zones, candles, ltp)
      bias == TrendBias(swings)
  IN [swings |-> swings, bias |-> bias, reactions |-> reactions, ltp |-> ltp,
      invalidation_long |-> LastPrice(swings, "LOW"),
      invalidation_short |-> LastPrice(swings, "HIGH"),
      regime |-> ClassifyRegime(bias, None, None, NearestReaction(reactions, ltp)),
      pullback |-> DerivePullback(swings, ltp), momentum |-> None, range |-> None]
=============================================================================
