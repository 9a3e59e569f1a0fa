-------------------------- MODULE DecisionOpsProofs --------------------------
(***************************************************************************)
(* What the operators of a decision return, for all inputs: the regime     *)
(* vote, the frameworks, the evidence counts, the tiers, the selection of  *)
(* a contract and its plan.                                                *)
(***************************************************************************)
EXTENDS Contracts, TLAPS, WellFoundedInduction, NaturalsInduction

-----------------------------------------------------------------------------
(***************************************************************************)
(* Extremal elements.  The operators below choose a maximum or a minimum;  *)
(* these lemmas say that there is one.                                     *)
(***************************************************************************)
LEMMA NatMin ==
  ASSUME NEW T \in SUBSET Nat, T # {}
  PROVE  \E m \in T : \A n \in T : m <= n
<1>1. PICK m \in T : \A n \in T : ~ (<<n, m>> \in OpToRel(<, Nat))
  BY NatLessThanWellFounded, WFMin
<1>2. \A n \in T : ~ (n < m)
  BY <1>1 DEF OpToRel
<1>3. QED
  BY <1>2

\* i is the first of the indices in S with the greatest value.
FirstBest(f, S, i) ==
  /\ i \in S
  /\ \A j \in S : f[i] > f[j] \/ (f[i] = f[j] /\ i <= j)

LEMMA FirstBestExists ==
  ASSUME NEW n \in Nat, NEW S \in SUBSET (1 .. n), S # {},
         NEW f, \A i \in S : f[i] \in Int
  PROVE  \E i \in S : FirstBest(f, S, i)
<1> DEFINE Upto(m) == S \cap (1 .. m)
           Bad == {m \in Nat : Upto(m) # {} /\ ~ \E i \in Upto(m) : FirstBest(f, Upto(m), i)}
<1>1. SUFFICES ASSUME ~ \E i \in S : FirstBest(f, S, i)
               PROVE  FALSE
  OBVIOUS
<1>2. Upto(n) = S
  OBVIOUS
<1>3. n \in Bad
  BY <1>1, <1>2
<1>4. PICK m \in Bad : \A k \in Bad : m <= k
  BY <1>3, NatMin
<1>5. m \in Nat /\ Upto(m) # {} /\ ~ \E i \in Upto(m) : FirstBest(f, Upto(m), i)
  BY <1>4
<1>6. m # 0
  BY <1>5
<1>7. m - 1 \in Nat /\ m - 1 \notin Bad
  BY <1>4, <1>5, <1>6
<1>8. Upto(m - 1) = {} \/ \E i \in Upto(m - 1) : FirstBest(f, Upto(m - 1), i)
  BY <1>7
<1>9. Upto(m) \subseteq Upto(m - 1) \cup {m} /\ Upto(m - 1) \subseteq Upto(m)
  BY <1>5, <1>6
<1>10. m \in S
  <2>1. CASE m \in S
    BY <2>1
  <2>2. CASE m \notin S
    <3>1. Upto(m) = Upto(m - 1)
      BY <1>9, <2>2
    <3>2. QED
      BY <1>5, <1>8, <3>1
  <2>3. QED
    BY <2>1, <2>2
<1>11. m \in Upto(m) /\ \A j \in Upto(m - 1) : j < m
  BY <1>5, <1>6, <1>10
<1>12. CASE Upto(m - 1) = {}
  <2>1. Upto(m) = {m}
    BY <1>9, <1>11, <1>12
  <2>2. FirstBest(f, Upto(m), m)
    BY <1>5, <1>10, <2>1 DEF FirstBest
  <2>3. QED
    BY <1>5, <1>11, <2>2
<1>13. CASE \E i \in Upto(m - 1) : FirstBest(f, Upto(m - 1), i)
  <2>1. PICK b \in Upto(m - 1) : FirstBest(f, Upto(m - 1), b)
    BY <1>13
  <2>2. b \in Upto(m) /\ b < m /\ f[b] \in Int /\ f[m] \in Int
    BY <1>9, <1>10, <1>11, <2>1
  <2>3. CASE f[m] > f[b]
    <3>1. \A j \in Upto(m - 1) : f[j] \in Int /\ f[j] <= f[b]
      BY <2>1, <2>2 DEF FirstBest
    <3>2. FirstBest(f, Upto(m), m)
      BY <1>9, <1>11, <2>2, <2>3, <3>1 DEF FirstBest
    <3>3. QED
      BY <1>5, <1>11, <3>2
  <2>4. CASE f[m] <= f[b]
    <3>1. f[b] > f[m] \/ (f[b] = f[m] /\ b <= m)
      BY <2>2, <2>4
    <3>2. FirstBest(f, Upto(m), b)
      BY <1>9, <2>1, <2>2, <3>1 DEF FirstBest
    <3>3. QED
      BY <1>5, <2>2, <3>2
  <2>5. QED
    BY <2>2, <2>3, <2>4
<1>14. QED
  BY <1>8, <1>12, <1>13

-----------------------------------------------------------------------------
(***************************************************************************)
(* The regime vote: a trend that wins it agrees with the bias.             *)
(***************************************************************************)
LEMMA PriorityIsSeq == DOMAIN Priority = 1 .. 11 /\ \A i \in 1 .. 11 : Priority[i] \in Regimes
BY DEF Regimes, Priority

LEMMA WinnerWins ==
  ASSUME NEW votes, \A r \in Regimes : votes[r] \in Int
  PROVE  Winner(votes) \in Regimes /\ \A r \in Regimes : votes[r] <= votes[Winner(votes)]
<1> DEFINE f == [i \in 1 .. 11 |-> votes[Priority[i]]]
<1>1. PICK i \in 1 .. 11 : FirstBest(f, 1 .. 11, i)
  <2>1. \A j \in 1 .. 11 : f[j] \in Int
    BY PriorityIsSeq
  <2>2. 1 .. 11 # {} /\ 1 .. 11 \in SUBSET (1 .. 11) /\ 11 \in Nat
    OBVIOUS
  <2> HIDE DEF f
  <2>3. QED
    BY <2>1, <2>2, FirstBestExists
<1>2. \A j \in 1 .. 11 : f[j] = votes[Priority[j]] /\ f[j] \in Int
  BY PriorityIsSeq
<1>3. \A j \in 1 .. 11 : f[i] > f[j] \/ (f[i] = f[j] /\ i <= j)
  BY <1>1 DEF FirstBest
<1> HIDE DEF f
<1>4. /\ \A r \in Regimes : votes[r] <= votes[Priority[i]]
      /\ \A j \in DOMAIN Priority : j < i => votes[Priority[j]] < votes[Priority[i]]
  <2>1. \A j \in 1 .. 11 : f[j] <= f[i]
    BY <1>2, <1>3
  <2>2. \A r \in Regimes : \E j \in 1 .. 11 : r = Priority[j]
    BY PriorityIsSeq DEF Regimes
  <2>3. \A j \in 1 .. 11 : j < i => f[j] < f[i]
    BY <1>2, <1>3
  <2>4. QED
    BY <1>2, <2>1, <2>2, <2>3, PriorityIsSeq
<1>5. \E k \in DOMAIN Priority :
        /\ \A r \in Regimes : votes[r] <= votes[Priority[k]]
        /\ \A j \in DOMAIN Priority : j < k => votes[Priority[j]] < votes[Priority[k]]
  BY <1>4, PriorityIsSeq
<1> DEFINE c == CHOOSE k \in DOMAIN Priority :
                  /\ \A r \in Regimes : votes[r] <= votes[Priority[k]]
                  /\ \A j \in DOMAIN Priority : j < k => votes[Priority[j]] < votes[Priority[k]]
<1>6. c \in DOMAIN Priority /\ \A r \in Regimes : votes[r] <= votes[Priority[c]]
  BY <1>5
<1>7. Winner(votes) = Priority[c]
  BY DEF Winner
<1> HIDE DEF c
<1>8. QED
  BY <1>6, <1>7, PriorityIsSeq

LEMMA RegimesAre ==
  Regimes = {"LIQUIDITY_SWEEP", "FAILED_BREAKOUT", "BREAKOUT_ATTEMPT", "REVERSAL_ATTEMPT",
             "TRENDING_UP", "TRENDING_DOWN", "EXPANSION", "COMPRESSION", "PULLBACK",
             "RANGE", "UNCERTAIN"}
<1>1. \A r : r \in Regimes <=> \E i \in 1 .. 11 : r = Priority[i]
  BY PriorityIsSeq DEF Regimes
<1>2. /\ Priority[1] = "LIQUIDITY_SWEEP" /\ Priority[2] = "FAILED_BREAKOUT"
      /\ Priority[3] = "BREAKOUT_ATTEMPT" /\ Priority[4] = "REVERSAL_ATTEMPT"
      /\ Priority[5] = "TRENDING_UP" /\ Priority[6] = "TRENDING_DOWN"
      /\ Priority[7] = "EXPANSION" /\ Priority[8] = "COMPRESSION" /\ Priority[9] = "PULLBACK"
      /\ Priority[10] = "RANGE" /\ Priority[11] = "UNCERTAIN"
  BY DEF Priority
<1>3. \A i \in 1 .. 11 : i \in {1, 2, 3, 4, 5, 6, 7, 8, 9, 10, 11}
  OBVIOUS
<1>4. QED
  BY <1>1, <1>2, <1>3

\* A trend gets votes from the bias alone, and the bias always votes.
LEMMA TrendVotes ==
  ASSUME NEW bias \in Biases, NEW adx, NEW bands, NEW reaction
  PROVE  /\ \A r \in Regimes : Votes(bias, adx, bands, reaction)[r] \in Int
         /\ Votes(bias, adx, bands, reaction)[Trending(bias)] >= 1
         /\ Trending(bias) \in Regimes
         /\ \A r \in {"TRENDING_UP", "TRENDING_DOWN"} :
              Votes(bias, adx, bands, reaction)[r] >= 1 => r = Trending(bias)
<1> DEFINE V == Votes(bias, adx, bands, reaction)
           a == AdxRegime(bias, adx)
           b == BandRegime(bands)
           c == ReactionRegime(reaction)
           strong == reaction \in {"SWEEP", "FAILED_BREAK"}
<1>1. \A r \in Regimes : V[r] = One(r = Trending(bias)) + One(r = a) + One(r = b) + One(r = c)
                                 + One(r = c /\ strong)
  BY DEF Votes
<1>2. \A r \in Regimes :
        /\ One(r = Trending(bias)) \in {0, 1} /\ One(r = a) \in {0, 1} /\ One(r = b) \in {0, 1}
        /\ One(r = c) \in {0, 1} /\ One(r = c /\ strong) \in {0, 1}
  BY DEF One
<1>3. Trending(bias) \in Regimes
  BY RegimesAre DEF Trending
<1>4. One(Trending(bias) = Trending(bias)) = 1
  BY DEF One
<1>5. ASSUME NEW r \in {"TRENDING_UP", "TRENDING_DOWN"}, r # Trending(bias)
      PROVE  /\ One(r = Trending(bias)) = 0 /\ One(r = a) = 0 /\ One(r = b) = 0
             /\ One(r = c) = 0 /\ One(r = c /\ strong) = 0
  <2>1. r # None
    BY NoneAssumption, RegimesAre
  <2>2. r # a
    BY <1>5, <2>1 DEF AdxRegime, Trending
  <2>3. r # b
    BY <2>1 DEF BandRegime
  <2>4. r # c
    BY <2>1 DEF ReactionRegime
  <2>5. QED
    BY <1>5, <2>2, <2>3, <2>4 DEF One
<1> HIDE DEF V, a, b, c, strong
<1>6. \A r \in Regimes : V[r] \in Int
  BY <1>1, <1>2
<1>7. V[Trending(bias)] >= 1
  BY <1>1, <1>2, <1>3, <1>4
<1>8. ASSUME NEW r \in {"TRENDING_UP", "TRENDING_DOWN"}, V[r] >= 1
      PROVE  r = Trending(bias)
  <2>1. SUFFICES ASSUME r # Trending(bias)
                 PROVE  FALSE
    OBVIOUS
  <2>2. r \in Regimes
    BY RegimesAre
  <2>3. V[r] = 0
    BY <1>1, <1>5, <2>1, <2>2
  <2>4. QED
    BY <1>8, <2>3
<1>9. QED
  BY <1>3, <1>6, <1>7, <1>8 DEF V

LEMMA TrendAgreesWithBias ==
  ASSUME NEW bias \in Biases, NEW adx, NEW bands, NEW reaction
  PROVE  LET regime == ClassifyRegime(bias, adx, bands, reaction)
         IN /\ regime \in Regimes
            /\ regime = "TRENDING_UP" => bias = "BULLISH"
            /\ regime = "TRENDING_DOWN" => bias = "BEARISH"
<1> DEFINE V == Votes(bias, adx, bands, reaction)
           w == Winner(V)
<1>1. /\ \A r \in Regimes : V[r] \in Int
      /\ V[Trending(bias)] >= 1 /\ Trending(bias) \in Regimes
      /\ \A r \in {"TRENDING_UP", "TRENDING_DOWN"} : V[r] >= 1 => r = Trending(bias)
  BY TrendVotes
<1> HIDE DEF V
<1>2. w \in Regimes /\ \A r \in Regimes : V[r] <= V[w]
  BY <1>1, WinnerWins
<1> HIDE DEF w
<1>3. V[w] >= 1
  BY <1>1, <1>2
<1>4. w \in {"TRENDING_UP", "TRENDING_DOWN"} => w = Trending(bias)
  BY <1>1, <1>3
<1>5. /\ w = "TRENDING_UP" => bias = "BULLISH"
      /\ w = "TRENDING_DOWN" => bias = "BEARISH"
  BY <1>4 DEF Trending
<1>6. ClassifyRegime(bias, adx, bands, reaction) \in {"UNCERTAIN", w}
  BY DEF ClassifyRegime, V, w
<1>7. QED
  BY <1>2, <1>5, <1>6, RegimesAre

-----------------------------------------------------------------------------
(***************************************************************************)
(* The frameworks.                                                         *)
(***************************************************************************)
LEMMA DistanceType ==
  ASSUME NEW a \in Int, NEW b \in Int
  PROVE  Distance(a, b) \in Nat /\ (Distance(a, b) = 0 <=> a = b)
BY DEF Distance

Reactions == Seq([kind : LiquidityKinds, level : Nat, reaction : ReactionKinds])

ContextOk(ctx) ==
  /\ ctx.regime \in Regimes /\ ctx.bias \in Biases
  /\ ctx.regime = "TRENDING_UP" => ctx.bias = "BULLISH"
  /\ ctx.regime = "TRENDING_DOWN" => ctx.bias = "BEARISH"
  /\ ctx.ltp \in Nat /\ ctx.reactions \in Reactions
  /\ ctx.invalidation_long \in Nat \cup {None}
  /\ ctx.invalidation_short \in Nat \cup {None}
  /\ ctx.range # None => ctx.range.upper \in Int /\ ctx.range.lower \in Int

LEMMA ReactionLevels ==
  ASSUME NEW reactions \in Reactions, NEW i \in DOMAIN reactions
  PROVE  reactions[i].level \in Nat
<1> DEFINE R == [kind : LiquidityKinds, level : Nat, reaction : ReactionKinds]
<1>1. reactions \in Seq(R)
  BY DEF Reactions
<1> HIDE DEF R
<1>2. reactions[i] \in R
  BY <1>1
<1>3. QED
  BY <1>2 DEF R

LEMMA NearestIsIn ==
  ASSUME NEW reactions \in Reactions, NEW ltp \in Nat,
         NEW S \in SUBSET DOMAIN reactions, S # {}
  PROVE  NearestIn(reactions, ltp, S) \in S
<1> DEFINE d(i) == Distance(reactions[i].level, ltp)
           f == [i \in S |-> 0 - d(i)]
<1>1. Len(reactions) \in Nat /\ S \in SUBSET (1 .. Len(reactions))
  BY DEF Reactions
<1>2. \A i \in S : reactions[i].level \in Nat
  BY ReactionLevels
<1>3. \A i \in S : d(i) \in Nat
  <2>1. \A a, b \in Nat : Distance(a, b) \in Nat
    BY DistanceType
  <2>2. QED
    BY <1>2, <2>1
<1>4. \A i \in S : f[i] = 0 - d(i)
  OBVIOUS
<1> HIDE DEF d, f
<1>5. \A i \in S : f[i] \in Int
  BY <1>3, <1>4
<1>6. PICK i \in S : FirstBest(f, S, i)
  BY <1>1, <1>5, FirstBestExists
<1>7. \A j \in S : f[i] > f[j] \/ (f[i] = f[j] /\ i <= j)
  BY <1>6 DEF FirstBest
<1>8. \A j \in S : d(i) < d(j) \/ (d(i) = d(j) /\ i <= j)
  BY <1>3, <1>4, <1>7
<1>9. \E k \in S : \A j \in S : d(k) < d(j) \/ (d(k) = d(j) /\ k <= j)
  BY <1>8
<1>10. NearestIn(reactions, ltp, S)
         = CHOOSE k \in S : \A j \in S : d(k) < d(j) \/ (d(k) = d(j) /\ k <= j)
  BY DEF NearestIn, d
<1>11. QED
  BY <1>9, <1>10

\* A level that was reacted to is a level, and the trade is away from it.
AwayFromLevel(r, ctx) ==
  /\ r.invalidation \in Nat /\ r.target = None
  /\ r.direction = DirectionIf(r.invalidation < ctx.ltp)

LEMMA ReactionResult ==
  ASSUME NEW ctx, ContextOk(ctx), NEW name, NEW regime, NEW kind, NEW zones,
         ByReaction(ctx, name, regime, kind, zones) # None
  PROVE  LET r == ByReaction(ctx, name, regime, kind, zones)
         IN /\ r.framework = name /\ ctx.regime = regime /\ AwayFromLevel(r, ctx)
<1> DEFINE S == {i \in DOMAIN ctx.reactions : /\ ctx.reactions[i].reaction = kind
                                              /\ ctx.reactions[i].kind \in zones}
           k == NearestIn(ctx.reactions, ctx.ltp, S)
           level == ctx.reactions[k].level
<1>1. ctx.regime = regime /\ S # {}
  BY DEF ByReaction
<1>2. k \in S
  <2>1. ctx.reactions \in Reactions /\ ctx.ltp \in Nat /\ S \in SUBSET DOMAIN ctx.reactions
    BY DEF ContextOk
  <2>2. S # {}
    BY <1>1
  <2> HIDE DEF S
  <2>3. QED
    BY <2>1, <2>2, NearestIsIn
<1>3. level \in Nat
  <2>1. ctx.reactions \in Reactions /\ k \in DOMAIN ctx.reactions
    BY <1>2 DEF ContextOk
  <2>2. QED
    BY <2>1, ReactionLevels
<1>4. ByReaction(ctx, name, regime, kind, zones) = Result(name, level < ctx.ltp, level, None)
  BY <1>1 DEF ByReaction
<1>5. level # None
  BY <1>3, NoneAssumption
<1> HIDE DEF level
<1>6. Result(name, level < ctx.ltp, level, None)
        = [framework |-> name, direction |-> DirectionIf(level < ctx.ltp),
           invalidation |-> level, target |-> None]
  BY <1>5 DEF Result
<1>7. QED
  BY <1>1, <1>3, <1>4, <1>6 DEF AwayFromLevel

\* A trade along the bias, stopped where the structure breaks.
WithBias(r, ctx) ==
  /\ r.direction = DirectionIf(ctx.bias = "BULLISH")
  /\ r.invalidation = InvalidationFor(ctx, ctx.bias = "BULLISH")
  /\ r.invalidation \in Nat

LEMMA BiasResult ==
  ASSUME NEW ctx, ContextOk(ctx), NEW name, ByBias(ctx, name) # None
  PROVE  LET r == ByBias(ctx, name)
         IN r.framework = name /\ r.target = None /\ WithBias(r, ctx)
<1> DEFINE bullish == ctx.bias = "BULLISH"
           inv == InvalidationFor(ctx, bullish)
<1>1. ByBias(ctx, name) = Result(name, bullish, inv, None)
  BY DEF ByBias
<1>2. inv # None
  BY <1>1 DEF Result
<1>3. inv \in Nat
  BY <1>2 DEF ContextOk, InvalidationFor
<1>4. Result(name, bullish, inv, None)
        = [framework |-> name, direction |-> DirectionIf(bullish),
           invalidation |-> inv, target |-> None]
  BY <1>2 DEF Result
<1>5. QED
  BY <1>1, <1>3, <1>4 DEF WithBias

LEMMA TrendResult ==
  ASSUME NEW ctx, ContextOk(ctx), TrendContinuation(ctx) # None
  PROVE  LET r == TrendContinuation(ctx)
         IN /\ r.framework = "TREND_CONTINUATION" /\ WithBias(r, ctx)
            /\ ctx.regime \in {"TRENDING_UP", "TRENDING_DOWN"}
            /\ r.target = BoundaryFor(ctx, ctx.bias = "BULLISH")
            /\ r.target \in Int \cup {None}
<1> DEFINE bullish == ctx.regime = "TRENDING_UP"
           inv == InvalidationFor(ctx, bullish)
           t == BoundaryFor(ctx, bullish)
<1>1. ctx.regime \in {"TRENDING_UP", "TRENDING_DOWN"}
      /\ TrendContinuation(ctx) = Result("TREND_CONTINUATION", bullish, inv, t)
  BY DEF TrendContinuation
<1>2. bullish = (ctx.bias = "BULLISH")
  BY <1>1 DEF ContextOk
<1>3. inv # None
  BY <1>1 DEF Result
<1>4. inv \in Nat /\ t \in Int \cup {None}
  BY <1>3 DEF ContextOk, InvalidationFor, BoundaryFor
<1>5. Result("TREND_CONTINUATION", bullish, inv, t)
        = [framework |-> "TREND_CONTINUATION", direction |-> DirectionIf(bullish),
           invalidation |-> inv, target |-> t]
  BY <1>3 DEF Result
<1>6. QED
  BY <1>1, <1>2, <1>4, <1>5 DEF WithBias

\* The regimes in which the i-th framework applies.
RegimesOf(i) ==
  IF i = 1 THEN {"TRENDING_UP", "TRENDING_DOWN"}
  ELSE IF i = 2 THEN {"TRENDING_UP", "TRENDING_DOWN", "PULLBACK"}
  ELSE IF i = 3 THEN {"LIQUIDITY_SWEEP"}
  ELSE IF i = 4 THEN {"RANGE"}
  ELSE IF i = 5 THEN {"FAILED_BREAKOUT"}
  ELSE IF i = 6 THEN {"BREAKOUT_ATTEMPT"}
  ELSE IF i = 7 THEN {"EXPANSION"} ELSE {"REVERSAL_ATTEMPT"}

FrameworkOk(r, i, ctx) ==
  /\ r.framework = FrameworkOrder[i] /\ ctx.regime \in RegimesOf(i)
  /\ r.invalidation \in Nat /\ r.target \in Int \cup {None}
  /\ r.direction \in Directions
  /\ i \in {1, 2, 7} => WithBias(r, ctx)
  /\ i \notin {1, 2, 7} => AwayFromLevel(r, ctx)
  /\ i # 1 => r.target = None
  /\ i = 1 => r.target = BoundaryFor(ctx, ctx.bias = "BULLISH")

LEMMA FrameworksAreOk ==
  ASSUME NEW ctx, ContextOk(ctx), NEW i \in 1 .. 8, EvaluateFrameworks(ctx)[i] # None
  PROVE  FrameworkOk(EvaluateFrameworks(ctx)[i], i, ctx)
<1> DEFINE r == EvaluateFrameworks(ctx)[i]
<1>1. \A b : DirectionIf(b) \in Directions
  BY DEF DirectionIf, Directions
<1>2. CASE i = 1
  <2>1. r = TrendContinuation(ctx) /\ FrameworkOrder[i] = "TREND_CONTINUATION"
    BY <1>2 DEF EvaluateFrameworks, FrameworkOrder
  <2>2. QED
    BY <1>1, <1>2, <2>1, TrendResult DEF FrameworkOk, RegimesOf, WithBias
<1>3. CASE i = 2
  <2>1. r = ByBias(ctx, "STRUCTURED_PULLBACK") /\ FrameworkOrder[i] = "STRUCTURED_PULLBACK"
        /\ ctx.regime \in {"TRENDING_UP", "TRENDING_DOWN", "PULLBACK"}
    BY <1>3 DEF EvaluateFrameworks, FrameworkOrder, StructuredPullback
  <2>2. QED
    BY <1>1, <1>3, <2>1, BiasResult DEF FrameworkOk, RegimesOf, WithBias
<1>4. CASE i = 7
  <2>1. r = ByBias(ctx, "COMPRESSION_EXPANSION") /\ FrameworkOrder[i] = "COMPRESSION_EXPANSION"
        /\ ctx.regime = "EXPANSION"
    BY <1>4 DEF EvaluateFrameworks, FrameworkOrder, CompressionExpansion
  <2>2. QED
    BY <1>1, <1>4, <2>1, BiasResult DEF FrameworkOk, RegimesOf, WithBias
<1>a. ASSUME NEW name, NEW regime, NEW kind, NEW zones,
             i \notin {1, 2, 7}, FrameworkOrder[i] = name, RegimesOf(i) = {regime},
             r = ByReaction(ctx, name, regime, kind, zones)
      PROVE  FrameworkOk(r, i, ctx)
  BY <1>1, <1>a, ReactionResult DEF FrameworkOk, AwayFromLevel
<1>5. CASE i = 3
  BY <1>5, <1>a DEF EvaluateFrameworks, FrameworkOrder, RegimesOf, LiquiditySweepConfirmation
<1>6. CASE i = 4
  BY <1>6, <1>a DEF EvaluateFrameworks, FrameworkOrder, RegimesOf, RangeBoundaryRejection
<1>7. CASE i = 5
  BY <1>7, <1>a DEF EvaluateFrameworks, FrameworkOrder, RegimesOf, FailedBreakoutReversal
<1>8. CASE i = 6
  BY <1>8, <1>a DEF EvaluateFrameworks, FrameworkOrder, RegimesOf, ConfirmedStructuralBreakout
<1>9. CASE i = 8
  BY <1>9, <1>a DEF EvaluateFrameworks, FrameworkOrder, RegimesOf, StructuralReversal
<1>10. QED
  BY <1>2, <1>3, <1>4, <1>5, <1>6, <1>7, <1>8, <1>9

(***************************************************************************)
(* Two frameworks apply together only in a trend, and then they propose    *)
(* the same direction and the same invalidation (frameworks.py:106-268).   *)
(***************************************************************************)
LEMMA OnlyTrendsShare ==
  ASSUME NEW ctx, ContextOk(ctx), NEW i \in 1 .. 8, NEW j \in 1 .. 8, i # j,
         EvaluateFrameworks(ctx)[i] # None, EvaluateFrameworks(ctx)[j] # None
  PROVE  /\ i \in {1, 2} /\ j \in {1, 2}
         /\ EvaluateFrameworks(ctx)[i].direction = EvaluateFrameworks(ctx)[j].direction
         /\ EvaluateFrameworks(ctx)[i].invalidation = EvaluateFrameworks(ctx)[j].invalidation
<1>1. FrameworkOk(EvaluateFrameworks(ctx)[i], i, ctx) /\ FrameworkOk(EvaluateFrameworks(ctx)[j], j, ctx)
  BY FrameworksAreOk
<1>2. ctx.regime \in RegimesOf(i) /\ ctx.regime \in RegimesOf(j)
  BY <1>1 DEF FrameworkOk
<1>3. i \in {1, 2} /\ j \in {1, 2}
  BY <1>2 DEF RegimesOf
<1>4. WithBias(EvaluateFrameworks(ctx)[i], ctx) /\ WithBias(EvaluateFrameworks(ctx)[j], ctx)
  BY <1>1, <1>3 DEF FrameworkOk
<1>5. QED
  BY <1>3, <1>4 DEF WithBias

-----------------------------------------------------------------------------
(***************************************************************************)
(* Evidence and tiers.                                                     *)
(***************************************************************************)
LEMMA OneIsBit == \A b : One(b) \in {0, 1}
BY DEF One

LEMMA EvidenceFacts ==
  ASSUME NEW seen, NEW m, NEW quality, NEW d
  PROVE  LET e == DirectionEvidence(seen, m, quality, d)
         IN /\ e \in EvidenceRecords /\ e.global_context # "SUPPORTIVE"
            /\ e.futures = "CONFLICTING" => e.divergences >= 1
            /\ e.breadth = "CONFLICTING" => e.divergences >= 1
            /\ e.option_depth = DepthStance(quality)
<1> DEFINE futures == FuturesStance(seen.futures, seen.price, d)
           breadth == RatioStance(seen.breadth, d)
           chain == RatioStance(seen.pcr, d)
           momentum == MomentumStance(m, d)
           depth == DepthStance(quality)
           context == ContextStance(seen.context)
           moving == m # None /\ seen.price # None /\ seen.price # 0
           weak == One(moving /\ m.volume = "weak")
           slow == One(moving /\ Decelerating(m))
           n == Divergences(futures, breadth, m, seen.price)
<1>1. futures \in Stances /\ breadth \in Stances /\ chain \in Stances
  BY DEF FuturesStance, RatioStance, Leaning, Stances
<1>2. momentum \in Stances
  BY DEF MomentumStance, Stances
<1>3. depth \in Stances /\ context \in Stances /\ context # "SUPPORTIVE"
  BY DEF DepthStance, ContextStance, Stances
<1>4. n = One(breadth = "CONFLICTING") + One(futures = "CONFLICTING") + weak + slow
  BY DEF Divergences
<1>5. weak \in {0, 1} /\ slow \in {0, 1}
      /\ One(breadth = "CONFLICTING") \in {0, 1} /\ One(futures = "CONFLICTING") \in {0, 1}
  BY OneIsBit
<1>6. /\ breadth = "CONFLICTING" => One(breadth = "CONFLICTING") = 1
      /\ futures = "CONFLICTING" => One(futures = "CONFLICTING") = 1
  BY DEF One
<1>7. DirectionEvidence(seen, m, quality, d)
        = [futures |-> futures, option_chain |-> chain, breadth |-> breadth,
           momentum |-> momentum, option_depth |-> depth, global_context |-> context,
           divergences |-> n]
  BY DEF DirectionEvidence
<1> HIDE DEF futures, breadth, chain, momentum, depth, context, weak, slow, n
<1>8. n \in 0 .. 4
  BY <1>4, <1>5
<1>9. (breadth = "CONFLICTING" => n >= 1) /\ (futures = "CONFLICTING" => n >= 1)
  BY <1>4, <1>5, <1>6
<1>10. depth = DepthStance(quality)
  BY DEF depth
<1>11. QED
  BY <1>1, <1>2, <1>3, <1>7, <1>8, <1>9, <1>10 DEF EvidenceRecords

\* Five streams can support: all five do, or fewer than five.
LEMMA SupportiveBound ==
  ASSUME NEW e \in EvidenceRecords, e.global_context # "SUPPORTIVE"
  PROVE  /\ Supportive(e) \in 0 .. 5
         /\ Supportive(e) = 5 =>
              \A s \in {e.futures, e.option_chain, e.breadth, e.momentum, e.option_depth} :
                s = "SUPPORTIVE"
<1> DEFINE a == One(e.futures = "SUPPORTIVE")
           b == One(e.option_chain = "SUPPORTIVE")
           c == One(e.breadth = "SUPPORTIVE")
           f == One(e.momentum = "SUPPORTIVE")
           g == One(e.option_depth = "SUPPORTIVE")
           h == One(e.global_context = "SUPPORTIVE")
<1>1. Supportive(e) = a + b + c + f + g + h
  BY DEF Supportive, Count
<1>2. h = 0
  BY DEF One
<1>3. /\ a \in {0, 1} /\ b \in {0, 1} /\ c \in {0, 1} /\ f \in {0, 1} /\ g \in {0, 1}
      /\ a = 1 => e.futures = "SUPPORTIVE"
      /\ b = 1 => e.option_chain = "SUPPORTIVE"
      /\ c = 1 => e.breadth = "SUPPORTIVE"
      /\ f = 1 => e.momentum = "SUPPORTIVE"
      /\ g = 1 => e.option_depth = "SUPPORTIVE"
  BY DEF One
<1> HIDE DEF a, b, c, f, g, h
<1>4. Supportive(e) \in 0 .. 5
  BY <1>1, <1>2, <1>3
<1>5. Supportive(e) = 5 => a = 1 /\ b = 1 /\ c = 1 /\ f = 1 /\ g = 1
  BY <1>1, <1>2, <1>3
<1>6. QED
  BY <1>3, <1>4, <1>5

\* A conflicting stream is counted, and so is every divergence.
LEMMA ConflictingBound ==
  ASSUME NEW e \in EvidenceRecords
  PROVE  /\ Conflicting(e) \in Nat
         /\ (e.futures = "CONFLICTING" \/ e.breadth = "CONFLICTING") =>
              Conflicting(e) >= 1 + e.divergences
<1> DEFINE a == One(e.futures = "CONFLICTING")
           b == One(e.option_chain = "CONFLICTING")
           c == One(e.breadth = "CONFLICTING")
           f == One(e.momentum = "CONFLICTING")
           g == One(e.option_depth = "CONFLICTING")
           h == One(e.global_context = "CONFLICTING")
<1>1. Conflicting(e) = (a + b + c + f + g + h) + e.divergences
  BY DEF Conflicting, Count
<1>2. /\ a \in {0, 1} /\ b \in {0, 1} /\ c \in {0, 1} /\ f \in {0, 1} /\ g \in {0, 1}
      /\ h \in {0, 1} /\ e.divergences \in Nat
  BY OneIsBit DEF EvidenceRecords
<1>3. /\ e.futures = "CONFLICTING" => a = 1
      /\ e.breadth = "CONFLICTING" => c = 1
  BY DEF One
<1> HIDE DEF a, b, c, f, g, h
<1>4. QED
  BY <1>1, <1>2, <1>3

LEMMA TierType ==
  ASSUME NEW e, NEW ratio, NEW overall, NEW quality, NEW streams
  PROVE  AssessTier(e, ratio, overall, quality, streams) \in 0 .. 4
BY DEF AssessTier

\* What a tier says of its evidence.
LEMMA TierFacts ==
  ASSUME NEW e \in EvidenceRecords, e.global_context # "SUPPORTIVE",
         NEW ratio, NEW overall, NEW quality, NEW streams
  PROVE  LET t == AssessTier(e, ratio, overall, quality, streams)
         IN /\ t \in 0 .. 3
            /\ t >= 1 => Conflicting(e) <= 1
            /\ t = 3 => Supportive(e) = 5 /\ overall = "GOOD" /\ quality = "GOOD"
<1> DEFINE n == Supportive(e)
           k == Conflicting(e)
<1>1. n \in 0 .. 5 /\ k \in Nat
  BY SupportiveBound, ConflictingBound
<1>2. ~ MeetsTier4(e, ratio, overall, quality, streams)
  BY <1>1 DEF MeetsTier4
<1>3. MeetsTier3(e, ratio, overall, quality, streams) =>
        n = 5 /\ k <= 1 /\ overall = "GOOD" /\ quality = "GOOD"
  BY <1>1 DEF MeetsTier3, LiquidityRank
<1>4. MeetsTier2(e, ratio, overall, quality, streams) => k <= 1
  BY <1>1 DEF MeetsTier2
<1>5. MeetsTier1(e, ratio, overall, quality, streams) => k <= 1
  BY DEF MeetsTier1
<1> HIDE DEF n, k
<1>6. QED
  BY <1>2, <1>3, <1>4, <1>5 DEF AssessTier, n, k

-----------------------------------------------------------------------------
(***************************************************************************)
(* The selection of a contract.                                            *)
(***************************************************************************)
LEMMA ChainLegs ==
  ASSUME NEW legs \in Seq(Legs)
  PROVE  /\ Len(legs) \in Nat /\ Survivors(legs) \in SUBSET (1 .. Len(legs))
         /\ \A i \in Survivors(legs) :
              /\ legs[i] \in Legs /\ Survives(legs[i])
              /\ legs[i].ltp \in Nat /\ legs[i].oi \in Nat /\ legs[i].spread \in Int
              /\ legs[i].delta \in Nat \cup {None}
<1>1. Len(legs) \in Nat /\ DOMAIN legs = 1 .. Len(legs)
  OBVIOUS
<1>2. OfNearestExpiry(legs) \subseteq DOMAIN legs
  BY DEF OfNearestExpiry
<1>3. Survivors(legs) \in SUBSET (1 .. Len(legs))
  BY <1>1, <1>2 DEF Survivors
<1>4. ASSUME NEW i \in Survivors(legs)
      PROVE  /\ legs[i] \in Legs /\ Survives(legs[i])
             /\ legs[i].ltp \in Nat /\ legs[i].oi \in Nat /\ legs[i].spread \in Int
             /\ legs[i].delta \in Nat \cup {None}
  <2>1. legs[i] \in Legs
    BY <1>1, <1>3
  <2>2. Survives(legs[i])
    BY DEF Survivors
  <2>3. QED
    BY <2>1, <2>2 DEF Legs, Survives
<1>5. QED
  BY <1>1, <1>3, <1>4

\* The ends between which open interest and spread are normalised.
LEMMA LeastAndGreatest ==
  ASSUME NEW n \in Nat, NEW S \in SUBSET (1 .. n), S # {},
         NEW f, \A i \in S : f[i] \in Int
  PROVE  /\ Least(f, S) \in Int /\ Greatest(f, S) \in Int
         /\ \A i \in S : Least(f, S) <= f[i] /\ f[i] <= Greatest(f, S)
<1> DEFINE g == [i \in S |-> 0 - f[i]]
<1>1. PICK p \in S : FirstBest(f, S, p)
  BY FirstBestExists
<1>2. \A i \in S : g[i] = 0 - f[i] /\ g[i] \in Int
  OBVIOUS
<1> HIDE DEF g
<1>3. PICK q \in S : FirstBest(g, S, q)
  BY <1>2, FirstBestExists
<1>4. \E i \in S : \A j \in S : f[i] >= f[j]
  BY <1>1 DEF FirstBest
<1>5. \E i \in S : \A j \in S : f[i] <= f[j]
  BY <1>2, <1>3 DEF FirstBest
<1> DEFINE hi == CHOOSE i \in S : \A j \in S : f[i] >= f[j]
           lo == CHOOSE i \in S : \A j \in S : f[i] <= f[j]
<1>6. hi \in S /\ \A j \in S : f[hi] >= f[j]
  BY <1>4
<1>7. lo \in S /\ \A j \in S : f[lo] <= f[j]
  BY <1>5
<1>8. Greatest(f, S) = f[hi] /\ Least(f, S) = f[lo]
  BY DEF Greatest, Least
<1> HIDE DEF hi, lo
<1>9. QED
  BY <1>6, <1>7, <1>8

LEMMA PartFacts ==
  ASSUME NEW lo \in Int, NEW hi \in Int, lo <= hi, NEW x \in Int, lo <= x, x <= hi
  PROVE  /\ Span(lo, hi) \in Nat \ {0}
         /\ Part(x, lo, hi) \in Nat /\ Tightness(x, lo, hi) \in Nat
         /\ \A y \in lo .. hi :
              /\ x >= y => /\ Part(x, lo, hi) >= Part(y, lo, hi)
                           /\ Part(x, lo, hi) = Part(y, lo, hi) => x = y
              /\ x <= y => /\ Tightness(x, lo, hi) >= Tightness(y, lo, hi)
                           /\ Tightness(x, lo, hi) = Tightness(y, lo, hi) => x = y
BY DEF Span, Part, Tightness

\* Points for the delta: 15 without one, more the closer it is to 50.
Fit(leg) == IF leg.delta = None THEN 15 ELSE 30 - 2 * DeltaDistance(leg)

LEMMA FitType ==
  ASSUME NEW leg, leg.delta \in Nat \cup {None}
  PROVE  /\ Fit(leg) \in Int
         /\ leg.delta # None => DeltaDistance(leg) \in Nat
<1>1. CASE leg.delta = None
  BY <1>1 DEF Fit
<1>2. CASE leg.delta # None
  <2>1. leg.delta \in Nat
    BY <1>2
  <2>2. DeltaDistance(leg) \in Nat
    BY <2>1 DEF DeltaDistance, Distance
  <2>3. QED
    BY <1>2, <2>2 DEF Fit
<1>3. QED
  BY <1>1, <1>2

\* A sum of three products that share their factors.
LEMMA Monotone ==
  ASSUME NEW a \in Nat \ {0}, NEW b \in Nat \ {0},
         NEW p \in Int, NEW q \in Int, NEW t \in Int, NEW u \in Int,
         NEW f \in Int, NEW g \in Int, p >= q, t >= u, f >= g
  PROVE  /\ 48 * p * b + 42 * t * a + f * a * b \in Int
         /\ 48 * p * b + 42 * t * a + f * a * b >= 48 * q * b + 42 * u * a + g * a * b
         /\ 48 * p * b + 42 * t * a + f * a * b = 48 * q * b + 42 * u * a + g * a * b
              => p = q /\ t = u /\ f = g
<1>a. ASSUME NEW x \in Int, NEW y \in Int, NEW c \in Nat \ {0}, x >= y
      PROVE  /\ x * c \in Int /\ y * c \in Int /\ x * c >= y * c
             /\ x * c = y * c => x = y
  BY <1>a
<1>1. /\ (48 * p) * b \in Int /\ (48 * q) * b \in Int /\ (48 * p) * b >= (48 * q) * b
      /\ (48 * p) * b = (48 * q) * b => p = q
  <2>1. 48 * p \in Int /\ 48 * q \in Int /\ 48 * p >= 48 * q /\ (48 * p = 48 * q => p = q)
    OBVIOUS
  <2> DEFINE x == 48 * p
             y == 48 * q
  <2> HIDE DEF x, y
  <2>2. x * b \in Int /\ y * b \in Int /\ x * b >= y * b /\ (x * b = y * b => x = y)
    BY <1>a, <2>1 DEF x, y
  <2>3. QED
    BY <2>1, <2>2 DEF x, y
<1>2. /\ (42 * t) * a \in Int /\ (42 * u) * a \in Int /\ (42 * t) * a >= (42 * u) * a
      /\ (42 * t) * a = (42 * u) * a => t = u
  <2>1. 42 * t \in Int /\ 42 * u \in Int /\ 42 * t >= 42 * u /\ (42 * t = 42 * u => t = u)
    OBVIOUS
  <2> DEFINE x == 42 * t
             y == 42 * u
  <2> HIDE DEF x, y
  <2>2. x * a \in Int /\ y * a \in Int /\ x * a >= y * a /\ (x * a = y * a => x = y)
    BY <1>a, <2>1 DEF x, y
  <2>3. QED
    BY <2>1, <2>2 DEF x, y
<1>3. /\ (f * a) * b \in Int /\ (g * a) * b \in Int /\ (f * a) * b >= (g * a) * b
      /\ (f * a) * b = (g * a) * b => f = g
  <2>1. f * a \in Int /\ g * a \in Int /\ f * a >= g * a /\ (f * a = g * a => f = g)
    BY <1>a
  <2> DEFINE x == f * a
             y == g * a
  <2> HIDE DEF x, y
  <2>2. x * b \in Int /\ y * b \in Int /\ x * b >= y * b /\ (x * b = y * b => x = y)
    BY <1>a, <2>1 DEF x, y
  <2>3. QED
    BY <2>1, <2>2 DEF x, y
<1> DEFINE p1 == (48 * p) * b
           q1 == (48 * q) * b
           t1 == (42 * t) * a
           u1 == (42 * u) * a
           f1 == (f * a) * b
           g1 == (g * a) * b
<1>4. /\ 48 * p * b + 42 * t * a + f * a * b = p1 + t1 + f1
      /\ 48 * q * b + 42 * u * a + g * a * b = q1 + u1 + g1
  OBVIOUS
<1>5. /\ p1 \in Int /\ q1 \in Int /\ t1 \in Int /\ u1 \in Int /\ f1 \in Int /\ g1 \in Int
      /\ p1 >= q1 /\ t1 >= u1 /\ f1 >= g1
  BY <1>1, <1>2, <1>3
<1> HIDE DEF p1, q1, t1, u1, f1, g1
<1>6. p1 + t1 + f1 \in Int /\ p1 + t1 + f1 >= q1 + u1 + g1
      /\ (p1 + t1 + f1 = q1 + u1 + g1 => p1 = q1 /\ t1 = u1 /\ f1 = g1)
  BY <1>5
<1>7. QED
  BY <1>1, <1>2, <1>3, <1>4, <1>6 DEF p1, q1, t1, u1, f1, g1

(***************************************************************************)
(* A survivor at least as good as another in open interest, spread and     *)
(* delta has at least its score, and the same score only if it is no       *)
(* better in any of them (selection.py:127-158).                           *)
(***************************************************************************)
LEMMA BetterScoresMore ==
  ASSUME NEW legs \in Seq(Legs), NEW i \in Survivors(legs), NEW j \in Survivors(legs),
         legs[i].oi >= legs[j].oi, legs[i].spread <= legs[j].spread,
         Fit(legs[i]) >= Fit(legs[j])
  PROVE  LET S == Survivors(legs)
         IN /\ ScoreOf(legs, i, S) \in Int /\ ScoreOf(legs, i, S) >= ScoreOf(legs, j, S)
            /\ ScoreOf(legs, i, S) = ScoreOf(legs, j, S) =>
                 /\ legs[i].oi = legs[j].oi /\ legs[i].spread = legs[j].spread
                 /\ Fit(legs[i]) = Fit(legs[j])
<1> DEFINE S == Survivors(legs)
           oi == [k \in S |-> legs[k].oi]
           spread == [k \in S |-> legs[k].spread]
           a == Span(Least(oi, S), Greatest(oi, S))
           b == Span(Least(spread, S), Greatest(spread, S))
           P(k) == Part(oi[k], Least(oi, S), Greatest(oi, S))
           T(k) == Tightness(spread[k], Least(spread, S), Greatest(spread, S))
<1>1. Len(legs) \in Nat /\ S \in SUBSET (1 .. Len(legs)) /\ S # {} /\ i \in S /\ j \in S
  BY ChainLegs
<1>2. \A k \in S : /\ oi[k] = legs[k].oi /\ spread[k] = legs[k].spread
                   /\ oi[k] \in Int /\ spread[k] \in Int
                   /\ legs[k].delta \in Nat \cup {None}
  BY ChainLegs
<1>3. ASSUME NEW k \in S
      PROVE  ScoreOf(legs, k, S) = 48 * P(k) * b + 42 * T(k) * a + Fit(legs[k]) * a * b
  BY DEF ScoreOf, Fit
<1> HIDE DEF oi, spread
<1>4. /\ Least(oi, S) \in Int /\ Greatest(oi, S) \in Int
      /\ \A k \in S : Least(oi, S) <= oi[k] /\ oi[k] <= Greatest(oi, S)
  <2> HIDE DEF S
  <2>1. QED
    BY <1>1, <1>2, LeastAndGreatest
<1>5. /\ Least(spread, S) \in Int /\ Greatest(spread, S) \in Int
      /\ \A k \in S : Least(spread, S) <= spread[k] /\ spread[k] <= Greatest(spread, S)
  <2> HIDE DEF S
  <2>1. QED
    BY <1>1, <1>2, LeastAndGreatest
<1>6. /\ a \in Nat \ {0} /\ P(i) \in Int /\ P(j) \in Int /\ P(i) >= P(j)
      /\ P(i) = P(j) => oi[i] = oi[j]
  <2> DEFINE lo == Least(oi, S)
             hi == Greatest(oi, S)
  <2>1. lo \in Int /\ hi \in Int /\ lo <= oi[i] /\ oi[i] <= hi /\ oi[j] \in lo .. hi
        /\ oi[i] \in Int /\ oi[j] \in Int /\ lo <= hi
    BY <1>1, <1>2, <1>4
  <2>2. oi[i] >= oi[j]
    BY <1>1, <1>2
  <2> HIDE DEF S, lo, hi
  <2>3. Span(lo, hi) \in Nat \ {0} /\ Part(oi[i], lo, hi) \in Nat
    BY <2>1, PartFacts
  <2>4. Part(oi[j], lo, hi) \in Nat
    <3>1. lo <= oi[j] /\ oi[j] <= hi
      BY <2>1
    <3>2. QED
      BY <2>1, <3>1, PartFacts
  <2>5. Part(oi[i], lo, hi) >= Part(oi[j], lo, hi)
        /\ (Part(oi[i], lo, hi) = Part(oi[j], lo, hi) => oi[i] = oi[j])
    BY <2>1, <2>2, PartFacts
  <2>6. QED
    BY <2>3, <2>4, <2>5 DEF lo, hi
<1>7. /\ b \in Nat \ {0} /\ T(i) \in Int /\ T(j) \in Int /\ T(i) >= T(j)
      /\ T(i) = T(j) => spread[i] = spread[j]
  <2> DEFINE lo == Least(spread, S)
             hi == Greatest(spread, S)
  <2>1. lo \in Int /\ hi \in Int /\ lo <= spread[i] /\ spread[i] <= hi
        /\ spread[j] \in lo .. hi /\ spread[i] \in Int /\ spread[j] \in Int /\ lo <= hi
    BY <1>1, <1>2, <1>5
  <2>2. spread[i] <= spread[j]
    BY <1>1, <1>2
  <2> HIDE DEF S, lo, hi
  <2>3. Span(lo, hi) \in Nat \ {0} /\ Tightness(spread[i], lo, hi) \in Nat
    BY <2>1, PartFacts
  <2>4. Tightness(spread[j], lo, hi) \in Nat
    <3>1. lo <= spread[j] /\ spread[j] <= hi
      BY <2>1
    <3>2. QED
      BY <2>1, <3>1, PartFacts
  <2>5. Tightness(spread[i], lo, hi) >= Tightness(spread[j], lo, hi)
        /\ (Tightness(spread[i], lo, hi) = Tightness(spread[j], lo, hi)
              => spread[i] = spread[j])
    BY <2>1, <2>2, PartFacts
  <2>6. QED
    BY <2>3, <2>4, <2>5 DEF lo, hi
<1>8. Fit(legs[i]) \in Int /\ Fit(legs[j]) \in Int
  BY <1>1, <1>2, FitType
<1>9. ScoreOf(legs, i, S) = 48 * P(i) * b + 42 * T(i) * a + Fit(legs[i]) * a * b
      /\ ScoreOf(legs, j, S) = 48 * P(j) * b + 42 * T(j) * a + Fit(legs[j]) * a * b
  BY <1>1, <1>3
<1> DEFINE fi == Fit(legs[i])
           fj == Fit(legs[j])
           pi == P(i)
           pj == P(j)
           ti == T(i)
           tj == T(j)
<1> HIDE DEF S, P, T, a, b, fi, fj, pi, pj, ti, tj
<1>10. /\ ScoreOf(legs, i, S) = 48 * pi * b + 42 * ti * a + fi * a * b
       /\ ScoreOf(legs, j, S) = 48 * pj * b + 42 * tj * a + fj * a * b
  BY <1>9 DEF fi, fj, pi, pj, ti, tj
<1>11. /\ a \in Nat \ {0} /\ b \in Nat \ {0} /\ pi \in Int /\ pj \in Int /\ ti \in Int
       /\ tj \in Int /\ fi \in Int /\ fj \in Int /\ pi >= pj /\ ti >= tj /\ fi >= fj
  BY <1>6, <1>7, <1>8 DEF fi, fj, pi, pj, ti, tj
<1>12. /\ 48 * pi * b + 42 * ti * a + fi * a * b \in Int
       /\ 48 * pi * b + 42 * ti * a + fi * a * b >= 48 * pj * b + 42 * tj * a + fj * a * b
       /\ 48 * pi * b + 42 * ti * a + fi * a * b = 48 * pj * b + 42 * tj * a + fj * a * b
            => pi = pj /\ ti = tj /\ fi = fj
  BY <1>11, Monotone
<1>13. pi = pj => legs[i].oi = legs[j].oi
  BY <1>1, <1>2, <1>6 DEF pi, pj
<1>14. ti = tj => legs[i].spread = legs[j].spread
  BY <1>1, <1>2, <1>7 DEF ti, tj
<1>15. QED
  BY <1>10, <1>12, <1>13, <1>14 DEF S, fi, fj

\* The selected contract is a survivor with the highest score.
LEMMA SelectionIsBest ==
  ASSUME NEW legs \in Seq(Legs), SelectContract(legs) # None
  PROVE  \E i \in Survivors(legs) :
           /\ SelectContract(legs) = legs[i]
           /\ \A j \in Survivors(legs) :
                ScoreOf(legs, i, Survivors(legs)) >= ScoreOf(legs, j, Survivors(legs))
<1> DEFINE S == Survivors(legs)
           score == [i \in S |-> ScoreOf(legs, i, S)]
           best == CHOOSE i \in S : \A j \in S :
                     score[i] > score[j] \/ (score[i] = score[j] /\ i <= j)
<1>1. S # {} /\ SelectContract(legs) = legs[best]
  BY DEF SelectContract
<1>2. Len(legs) \in Nat /\ S \in SUBSET (1 .. Len(legs))
  BY ChainLegs
<1>3. \A i \in S : score[i] = ScoreOf(legs, i, S) /\ score[i] \in Int
  <2>1. ASSUME NEW i \in S
        PROVE  ScoreOf(legs, i, S) \in Int
    <3>1. legs[i].oi \in Nat /\ legs[i].spread \in Int /\ legs[i].delta \in Nat \cup {None}
      BY ChainLegs
    <3>2. Fit(legs[i]) \in Int
      BY <3>1, FitType
    <3>3. QED
      BY <3>1, <3>2, BetterScoresMore
  <2>2. QED
    BY <2>1
<1> HIDE DEF score, S
<1>4. \E i \in S : FirstBest(score, S, i)
  BY <1>1, <1>2, <1>3, FirstBestExists
<1>5. \E i \in S : \A j \in S : score[i] > score[j] \/ (score[i] = score[j] /\ i <= j)
  BY <1>4 DEF FirstBest
<1>6. best \in S /\ \A j \in S : score[best] > score[j]
                                 \/ (score[best] = score[j] /\ best <= j)
  BY <1>5
<1> HIDE DEF best
<1>7. \A j \in S : ScoreOf(legs, best, S) >= ScoreOf(legs, j, S)
  BY <1>3, <1>6
<1>8. QED
  BY <1>1, <1>6, <1>7 DEF S

-----------------------------------------------------------------------------
(***************************************************************************)
(* The trade plan.                                                         *)
(***************************************************************************)
LEMMA Cancel ==
  ASSUME NEW d \in Nat \ {0}, NEW x \in Int, NEW y \in Int, d * x >= d * y
  PROVE  x >= y
OBVIOUS

(***************************************************************************)
(* A plan that passes the risk gate: the distances in the underlying are   *)
(* at least 1.38 to 1, since both scale with the same delta and the stop   *)
(* with the safety margin as well; and the premiums are in order.          *)
(***************************************************************************)
LEMMA PlanFacts ==
  ASSUME NEW leg \in Legs, leg.ltp \in Nat, NEW ltp \in Nat, NEW invalidation \in Nat,
         NEW target \in Int \cup {None}, NEW tier, NEW overall, NEW allowed,
         RiskPasses(EngineerTrade(leg, ltp, invalidation, target), leg, tier, overall, allowed)
  PROVE  /\ target \in Int /\ ltp # invalidation /\ leg.spread \in Int
         /\ 100 * Distance(target, ltp) >= 138 * Distance(ltp, invalidation)
         /\ tier \in 1 .. 4 /\ leg.spread >= 0 /\ leg.strike > 0 =>
              SchemaAccepts(EngineerTrade(leg, ltp, invalidation, target), leg, tier)
<1> DEFINE plan == EngineerTrade(leg, ltp, invalidation, target)
           risk == Distance(ltp, invalidation)
           reward == Distance(target, ltp)
           entry == leg.ltp * Unit
           down == StopDistance(leg, risk)
           up == TargetDistance(leg, reward)
<1>1. plan # None /\ PlanPays(plan) /\ plan.stop_loss > 0 /\ plan.entry < plan.take_profit
      /\ leg.spread # None
  BY DEF RiskPasses
<1>2. target # None /\ leg.delta # None /\ leg.delta # 0
      /\ ~ (risk = 0 \/ down >= entry \/ reward = 0)
  BY <1>1 DEF EngineerTrade
<1>3. plan = [entry |-> entry, stop_loss |-> entry - down, take_profit |-> entry + up,
              invalidation |-> invalidation]
  BY <1>2 DEF EngineerTrade
<1>4. leg.delta \in Nat \ {0} /\ leg.spread \in Int /\ target \in Int
  BY <1>1, <1>2 DEF Legs
<1>5. risk \in Nat \ {0} /\ reward \in Nat \ {0} /\ (risk = 0 <=> ltp = invalidation)
  BY <1>2, <1>4, DistanceType
<1>6. entry \in Nat
  BY DEF Unit
<1> DEFINE d == leg.delta
<1> HIDE DEF d, risk, reward, entry
<1>7. d * risk \in Nat /\ d * reward \in Nat
  BY <1>4, <1>5 DEF d
<1>8. down = (d * risk) * 115 /\ up = (d * reward) * 100
  BY DEF StopDistance, TargetDistance, d
<1> HIDE DEF down, up, plan
<1>9. down \in Nat /\ up \in Nat /\ down < entry
  <2>1. down \in Nat /\ up \in Nat
    BY <1>7, <1>8
  <2>2. QED
    BY <1>2, <1>6, <2>1
<1>10. /\ plan.entry = entry /\ plan.stop_loss = entry - down
       /\ plan.take_profit = entry + up
  BY <1>3
<1>11. 10 * up >= 12 * down
  <2>1. 10 * (plan.take_profit - plan.entry) >= 12 * (plan.entry - plan.stop_loss)
    BY <1>1 DEF PlanPays
  <2>2. QED
    BY <1>6, <1>9, <1>10, <2>1
<1>12. 1000 * (d * reward) >= 1380 * (d * risk)
  BY <1>7, <1>8, <1>11
<1>13. d * (1000 * reward) >= d * (1380 * risk)
  BY <1>4, <1>5, <1>12 DEF d
<1>14. 1000 * reward >= 1380 * risk
  <2>1. 1000 * reward \in Int /\ 1380 * risk \in Int /\ d \in Nat \ {0}
    BY <1>4, <1>5 DEF d
  <2>2. QED
    BY <1>13, <2>1, Cancel
<1>15. 100 * reward >= 138 * risk
  BY <1>5, <1>14
<1>16. down # 0
  BY <1>4, <1>5, <1>8 DEF d
<1>17. 0 < plan.stop_loss /\ plan.stop_loss < plan.entry /\ plan.entry < plan.take_profit
  BY <1>1, <1>6, <1>9, <1>10, <1>16
<1>18. tier \in 1 .. 4 /\ leg.spread >= 0 /\ leg.strike > 0 =>
         SchemaAccepts(plan, leg, tier)
  BY <1>17 DEF SchemaAccepts
<1>19. QED
  BY <1>4, <1>5, <1>15, <1>18 DEF plan, risk, reward
=============================================================================
