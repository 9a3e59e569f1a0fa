----------------------------- MODULE DecisionProofs ---------------------------
(***************************************************************************)
(* Theorems about Decision, for every set of prices, levels, zones,        *)
(* chains and observations.                                                *)
(***************************************************************************)
EXTENDS DecisionOutcome, DecisionOpsProofs

Rest == [i \in Positions |-> 0]

-----------------------------------------------------------------------------
(***************************************************************************)
(* The invariant: what each stage leaves for the later ones.               *)
(***************************************************************************)
StageInv ==
  /\ pc \in {"structure", "frameworks", "contracts", "evidence", "risk", "done"}
  /\ ltp \in Nat
  /\ signal \in {"none", "NO_TRADE", "TRADE_READY", "RAISED"}
  /\ pc # "done" => signal = "none"
  /\ pc \in {"structure", "frameworks"} => frameworks = Nowhere
  /\ pc \notin {"risk", "done"} => tiers = Rest /\ evidence = << >>

\* A trend agrees with the bias.
ViewInv ==
  pc = "frameworks" =>
    /\ view.regime \in Regimes /\ view.bias \in Biases /\ view.reactions \in Reactions
    /\ view.regime = "TRENDING_UP" => view.bias = "BULLISH"
    /\ view.regime = "TRENDING_DOWN" => view.bias = "BEARISH"

\* What applies, and that two that apply together are the same trade.
FrameInv ==
  /\ \A i \in Applicable :
       /\ frameworks[i].framework = FrameworkOrder[i]
       /\ frameworks[i].direction \in Directions
       /\ frameworks[i].invalidation \in Nat
       /\ Target(frameworks[i]) \in Int \cup {None}
       /\ i \notin {1, 2, 7} =>
            frameworks[i].direction = DirectionIf(frameworks[i].invalidation < ltp)
  /\ \A i, j \in Applicable :
       /\ frameworks[i].direction = frameworks[j].direction
       /\ frameworks[i].invalidation = frameworks[j].invalidation
       /\ Target(frameworks[i]) = Target(frameworks[j])

ContractInv ==
  /\ pc = "evidence" => \A d \in Asked : /\ chain[d] \in Seq(Legs)
                                         /\ selected[d] = SelectContract(chain[d])
  /\ pc \in {"evidence", "risk", "done"} => \A d \in Asked :
       selected[d] # None => selected[d] \in Legs /\ selected[d].ltp \in Nat

RatedInv ==
  /\ tiers \in [Positions -> 0 .. 3]
  /\ \A d \in DOMAIN evidence : evidence[d] \in EvidenceRecords
  /\ \A i \in Applicable : tiers[i] >= 1 =>
       LET e == evidence[frameworks[i].direction]
       IN /\ e \in EvidenceRecords /\ e.global_context # "SUPPORTIVE"
          /\ e.futures # "CONFLICTING" /\ e.breadth # "CONFLICTING"
          /\ tiers[i] = 3 =>
               /\ Supportive(e) = 5
               /\ overall = "GOOD" /\ Liquidity(selected[frameworks[i].direction]) = "GOOD"

Gate(allowed) == Actionable # {} /\ Ready(Best, allowed)

ConcludedInv ==
  /\ signal = "TRADE_READY" => Gate(entry)
  /\ signal = "NO_TRADE" => ~ Gate(entry)
  /\ signal = "RAISED" =>
       \/ ltp = 0
       \/ /\ Gate(entry)
          /\ ~ SchemaAccepts(PlanFor(Best), selected[frameworks[Best].direction], tiers[Best])

DecisionInv ==
  StageInv /\ ViewInv /\ FrameInv /\ ContractInv /\ RatedInv /\ ConcludedInv

-----------------------------------------------------------------------------
LEMMA NothingYet ==
  ASSUME frameworks = Nowhere, tiers = Rest, evidence = << >>
  PROVE  FrameInv /\ RatedInv
<1>1. Applicable = {}
  BY DEF Applicable, Nowhere, Positions
<1>2. DOMAIN evidence = {}
  OBVIOUS
<1>3. FrameInv
  BY <1>1 DEF FrameInv
<1>4. tiers \in [Positions -> 0 .. 3]
  BY DEF Rest
<1>5. RatedInv
  BY <1>1, <1>2, <1>4 DEF RatedInv
<1>6. QED
  BY <1>3, <1>5

LEMMA InitInv == Init => DecisionInv
<1> SUFFICES ASSUME Init
             PROVE  DecisionInv
  OBVIOUS
<1>1. StageInv
  BY DEF Init, StageInv, Rest
<1>2. ViewInv /\ ContractInv /\ ConcludedInv
  BY DEF Init, ViewInv, ContractInv, ConcludedInv
<1>3. FrameInv /\ RatedInv
  BY NothingYet DEF Init, Rest
<1>4. QED
  BY <1>1, <1>2, <1>3 DEF DecisionInv

LEMMA StructureStep ==
  ASSUME DecisionInv, AnalyzeStructure
  PROVE  DecisionInv'
<1>1. /\ pc = "structure" /\ pc' = "frameworks" /\ frameworks' = frameworks
      /\ tiers' = tiers /\ evidence' = evidence /\ signal' = signal
  BY DEF AnalyzeStructure
<1>2. frameworks = Nowhere /\ tiers = Rest /\ evidence = << >> /\ signal = "none"
  BY <1>1 DEF DecisionInv, StageInv
<1>3. PICK price \in Prices, bias \in Biases, adx \in {None, "trending", "flat"},
           bands \in {None, "wide", "narrow", "steady"}, reactions \in Zones :
        LET nearest == NearestTested(reactions, price)
        IN /\ ltp' = price
           /\ view' = [regime |-> ClassifyRegime(bias, adx, bands, nearest), bias |-> bias,
                       streams |-> Streams(adx, bands, nearest),
                       reactions |-> reactions]
  BY DEF AnalyzeStructure
<1> DEFINE regime == ClassifyRegime(bias, adx, bands, NearestTested(reactions, price))
<1>4. /\ regime \in Regimes
      /\ regime = "TRENDING_UP" => bias = "BULLISH"
      /\ regime = "TRENDING_DOWN" => bias = "BEARISH"
  BY TrendAgreesWithBias
<1>5. view'.regime = regime /\ view'.bias = bias /\ view'.reactions = reactions
  BY <1>3
<1> HIDE DEF regime
<1>6. reactions \in Reactions
  BY DecisionAssumption DEF Reactions
<1>7. ViewInv'
  BY <1>4, <1>5, <1>6 DEF ViewInv
<1>8. ltp' \in Nat
  BY <1>3, DecisionAssumption
<1>9. StageInv'
  BY <1>1, <1>2, <1>8 DEF StageInv, Nowhere, Rest
<1>10. FrameInv' /\ RatedInv'
  <2>1. frameworks' = Nowhere' /\ tiers' = Rest' /\ evidence' = << >>
    BY <1>1, <1>2 DEF Nowhere, Rest
  <2>2. Applicable' = {}
    BY <2>1 DEF Applicable, Nowhere, Positions
  <2>3. QED
    BY <2>1, <2>2 DEF FrameInv, RatedInv, Rest
<1>11. ContractInv' /\ ConcludedInv'
  BY <1>1, <1>2 DEF ContractInv, ConcludedInv
<1>12. QED
  BY <1>7, <1>9, <1>10, <1>11 DEF DecisionInv

\* _effective_target for a given range.
TargetIn(f, r) ==
  IF f.target # None THEN f.target
  ELSE IF r = None THEN None
  ELSE IF f.direction = "CALL" THEN r.upper ELSE r.lower

\* Targets of what applies in one context.
LEMMA ContextTargets ==
  ASSUME NEW ctx, ContextOk(ctx), NEW i \in 1 .. 8, EvaluateFrameworks(ctx)[i] # None
  PROVE  LET t == TargetIn(EvaluateFrameworks(ctx)[i], ctx.range)
         IN /\ t \in Int \cup {None}
            /\ i \in {1, 2} => t = BoundaryFor(ctx, ctx.bias = "BULLISH")
<1> DEFINE f == EvaluateFrameworks(ctx)[i]
<1>1. FrameworkOk(f, i, ctx)
  BY FrameworksAreOk
<1> HIDE DEF f
<1>2. f.target \in Int \cup {None} /\ (i # 1 => f.target = None)
      /\ (i = 1 => f.target = BoundaryFor(ctx, ctx.bias = "BULLISH"))
      /\ (i \in {1, 2} => f.direction = DirectionIf(ctx.bias = "BULLISH"))
  BY <1>1 DEF FrameworkOk, WithBias
<1>3. ctx.range # None => ctx.range.upper \in Int /\ ctx.range.lower \in Int
  BY DEF ContextOk
<1>4. TargetIn(f, ctx.range) \in Int \cup {None}
  BY <1>2, <1>3 DEF TargetIn
<1>5. ASSUME i \in {1, 2}
      PROVE  TargetIn(f, ctx.range) = BoundaryFor(ctx, ctx.bias = "BULLISH")
  BY <1>2, <1>3, <1>5, NoneAssumption DEF TargetIn, BoundaryFor, DirectionIf
<1>6. QED
  BY <1>4, <1>5 DEF f

LEMMA ContextStep ==
  ASSUME DecisionInv, EvaluateContext
  PROVE  DecisionInv'
<1>1. /\ pc = "frameworks" /\ pc' = "contracts" /\ ltp' = ltp /\ tiers' = tiers
      /\ evidence' = evidence /\ signal' = signal /\ selected' = selected
  BY DEF EvaluateContext
<1>2. tiers = Rest /\ evidence = << >> /\ signal = "none" /\ ltp \in Nat
  BY <1>1 DEF DecisionInv, StageInv
<1>3. /\ view.regime \in Regimes /\ view.bias \in Biases /\ view.reactions \in Reactions
      /\ view.regime = "TRENDING_UP" => view.bias = "BULLISH"
      /\ view.regime = "TRENDING_DOWN" => view.bias = "BEARISH"
  BY <1>1 DEF DecisionInv, ViewInv
<1>4. PICK long \in Invalidations, short \in Invalidations, m \in Impulses,
           half \in HalfRanges, pullback \in {None, "SHALLOW", "DEEP"} :
        /\ range' = Boundaries(half)
        /\ frameworks' = EvaluateFrameworks(
             [regime |-> view.regime, bias |-> view.bias, reactions |-> view.reactions,
              ltp |-> ltp, invalidation_long |-> long, invalidation_short |-> short,
              momentum |-> MomentumQuality(m), pullback |-> pullback,
              range |-> Boundaries(half)])
  BY DEF EvaluateContext
<1> DEFINE ctx == [regime |-> view.regime, bias |-> view.bias, reactions |-> view.reactions,
                   ltp |-> ltp, invalidation_long |-> long, invalidation_short |-> short,
                   momentum |-> MomentumQuality(m), pullback |-> pullback,
                   range |-> Boundaries(half)]
<1>5. Boundaries(half) # None =>
        Boundaries(half).upper \in Int /\ Boundaries(half).lower \in Int
  <2>1. half # None => half \in Nat
    BY DecisionAssumption
  <2>2. QED
    BY <1>2, <2>1 DEF Boundaries
<1>6. ContextOk(ctx)
  <2>1. long \in Nat \cup {None} /\ short \in Nat \cup {None}
    BY DecisionAssumption
  <2>2. QED
    BY <1>2, <1>3, <1>5, <2>1 DEF ContextOk
<1>7. ctx.range = range' /\ ctx.ltp = ltp' /\ frameworks' = EvaluateFrameworks(ctx)
  BY <1>1, <1>4
<1> HIDE DEF ctx
<1>8. \A i \in Positions : frameworks'[i] # None => FrameworkOk(frameworks'[i], i, ctx)
  BY <1>6, <1>7, FrameworksAreOk DEF Positions
<1>9. \A i \in Applicable' : i \in 1 .. 8 /\ frameworks'[i] # None
  BY DEF Applicable, Positions
<1>10. \A i \in Applicable' : Target(frameworks[i])' = TargetIn(frameworks'[i], range')
  BY DEF Target, TargetIn
<1>11. ASSUME NEW i \in Applicable'
       PROVE  /\ frameworks'[i].framework = FrameworkOrder[i]
              /\ frameworks'[i].direction \in Directions
              /\ frameworks'[i].invalidation \in Nat
              /\ Target(frameworks[i])' \in Int \cup {None}
              /\ i \notin {1, 2, 7} => frameworks'[i].direction
                                         = DirectionIf(frameworks'[i].invalidation < ltp')
  <2>1. FrameworkOk(frameworks'[i], i, ctx) /\ i \in 1 .. 8
    BY <1>8, <1>9 DEF Positions
  <2>2. Target(frameworks[i])' \in Int \cup {None}
    BY <1>6, <1>7, <1>9, <1>10, ContextTargets
  <2>3. QED
    BY <1>7, <2>1, <2>2 DEF FrameworkOk, AwayFromLevel
<1>12. ASSUME NEW i \in Applicable', NEW j \in Applicable'
       PROVE  /\ frameworks'[i].direction = frameworks'[j].direction
              /\ frameworks'[i].invalidation = frameworks'[j].invalidation
              /\ Target(frameworks[i])' = Target(frameworks[j])'
  <2>1. CASE i = j
    BY <2>1
  <2>2. CASE i # j
    <3>1. i \in 1 .. 8 /\ j \in 1 .. 8
          /\ EvaluateFrameworks(ctx)[i] # None /\ EvaluateFrameworks(ctx)[j] # None
      BY <1>7, <1>9
    <3>2. i \in {1, 2} /\ j \in {1, 2}
          /\ EvaluateFrameworks(ctx)[i].direction = EvaluateFrameworks(ctx)[j].direction
          /\ EvaluateFrameworks(ctx)[i].invalidation = EvaluateFrameworks(ctx)[j].invalidation
      BY <1>6, <2>2, <3>1, OnlyTrendsShare
    <3>3. /\ TargetIn(EvaluateFrameworks(ctx)[i], ctx.range)
               = BoundaryFor(ctx, ctx.bias = "BULLISH")
          /\ TargetIn(EvaluateFrameworks(ctx)[j], ctx.range)
               = BoundaryFor(ctx, ctx.bias = "BULLISH")
      BY <1>6, <3>1, <3>2, ContextTargets
    <3>4. Target(frameworks[i])' = Target(frameworks[j])'
      BY <1>7, <1>10, <3>3
    <3>5. QED
      BY <1>7, <3>2, <3>4
  <2>3. QED
    BY <2>1, <2>2
<1>13. FrameInv'
  BY <1>11, <1>12 DEF FrameInv
<1>14. StageInv'
  BY <1>1, <1>2 DEF StageInv, Rest
<1>15. RatedInv'
  <2>1. tiers' = Rest /\ evidence' = << >> /\ DOMAIN evidence' = {}
    BY <1>1, <1>2
  <2>2. \A i \in Applicable' : i \in Positions /\ ~ (tiers'[i] >= 1)
    BY <2>1 DEF Applicable, Rest
  <2>3. QED
    BY <2>1, <2>2 DEF RatedInv, Rest
<1>16. ViewInv' /\ ContractInv' /\ ConcludedInv'
  BY <1>1, <1>2 DEF ViewInv, ContractInv, ConcludedInv
<1>17. QED
  BY <1>13, <1>14, <1>15, <1>16 DEF DecisionInv

\* A later stage leaves what applies as it is.
LEMMA FramesStay ==
  ASSUME FrameInv, ltp' = ltp, range' = range, frameworks' = frameworks
  PROVE  /\ FrameInv' /\ Applicable' = Applicable /\ Asked' = Asked
         /\ \A i \in Applicable : Target(frameworks[i])' = Target(frameworks[i])
<1>1. Applicable' = Applicable
  BY DEF Applicable, Positions
<1>2. Asked' = Asked
  BY <1>1 DEF Asked
<1>3. \A i \in Applicable : Target(frameworks[i])' = Target(frameworks[i])
  BY DEF Target
<1>4. FrameInv'
  BY <1>1, <1>3 DEF FrameInv
<1>5. QED
  BY <1>1, <1>2, <1>3, <1>4

LEMMA ContractsStep ==
  ASSUME DecisionInv, SelectContracts
  PROVE  DecisionInv'
<1>1. /\ pc = "contracts" /\ pc' = "evidence" /\ ltp' = ltp /\ tiers' = tiers
      /\ evidence' = evidence /\ signal' = signal /\ range' = range
      /\ frameworks' = frameworks
  BY DEF SelectContracts
<1>2. tiers = Rest /\ evidence = << >> /\ signal = "none" /\ ltp \in Nat
  BY <1>1 DEF DecisionInv, StageInv
<1>3. FrameInv' /\ Asked' = Asked
  BY <1>1, FramesStay DEF DecisionInv
<1>4. ASSUME NEW d \in Asked
      PROVE  chain'[d] \in Seq(Legs) /\ selected'[d] = SelectContract(chain'[d])
  <2>1. chain'[d] \in Chains /\ selected'[d] = SelectContract(chain'[d])
    BY DEF SelectContracts
  <2>2. QED
    BY <2>1, DecisionAssumption
<1>5. ASSUME NEW legs \in Seq(Legs), SelectContract(legs) # None
      PROVE  SelectContract(legs) \in Legs /\ SelectContract(legs).ltp \in Nat
  BY <1>5, SelectionIsBest, ChainLegs
<1>6. ContractInv'
  BY <1>1, <1>3, <1>4, <1>5 DEF ContractInv
<1>7. StageInv'
  BY <1>1, <1>2 DEF StageInv, Rest
<1>8. RatedInv'
  <2>1. tiers' = Rest /\ evidence' = << >> /\ DOMAIN evidence' = {}
    BY <1>1, <1>2
  <2>2. \A i \in Applicable' : i \in Positions /\ ~ (tiers'[i] >= 1)
    BY <2>1 DEF Applicable, Rest
  <2>3. QED
    BY <2>1, <2>2 DEF RatedInv, Rest
<1>9. ViewInv' /\ ConcludedInv'
  BY <1>1, <1>2 DEF ViewInv, ConcludedInv
<1>10. QED
  BY <1>3, <1>6, <1>7, <1>8, <1>9 DEF DecisionInv

LEMMA EvidenceStep ==
  ASSUME DecisionInv, WeighEvidence
  PROVE  DecisionInv'
<1>1. /\ pc = "evidence" /\ ltp' = ltp /\ range' = range /\ frameworks' = frameworks
      /\ selected' = selected
  BY DEF WeighEvidence
<1>2. tiers = Rest /\ evidence = << >> /\ signal = "none" /\ ltp \in Nat
  BY <1>1 DEF DecisionInv, StageInv
<1>3. FrameInv' /\ Asked' = Asked /\ Applicable' = Applicable
  BY <1>1, FramesStay DEF DecisionInv
<1>4. \A d \in Asked : selected'[d] # None =>
        selected'[d] \in Legs /\ selected'[d].ltp \in Nat
  BY <1>1 DEF DecisionInv, ContractInv
<1>5. CASE /\ ltp = 0 /\ pc' = "done" /\ signal' = "RAISED"
           /\ evidence' = evidence /\ tiers' = tiers
  <2>1. StageInv' /\ ViewInv' /\ ConcludedInv'
    BY <1>1, <1>2, <1>5 DEF StageInv, ViewInv, ConcludedInv
  <2>2. ContractInv'
    BY <1>3, <1>4, <1>5 DEF ContractInv
  <2>3. RatedInv'
    <3>1. tiers' = Rest /\ evidence' = << >> /\ DOMAIN evidence' = {}
      BY <1>2, <1>5
    <3>2. \A i \in Applicable' : i \in Positions /\ ~ (tiers'[i] >= 1)
      BY <3>1 DEF Applicable, Rest
    <3>3. QED
      BY <3>1, <3>2 DEF RatedInv, Rest
  <2>4. QED
    BY <1>3, <2>1, <2>2, <2>3 DEF DecisionInv
<1>6. CASE ~ (ltp = 0 /\ pc' = "done" /\ signal' = "RAISED"
              /\ evidence' = evidence /\ tiers' = tiers)
  <2>1. PICK seen \in Observations, quality \in {"GOOD", "DEGRADED"} :
          /\ pc' = "risk" /\ overall' = quality /\ signal' = signal
          /\ evidence' = [d \in Asked |->
               DirectionEvidence(seen, impulse, Liquidity(selected[d]), d)]
          /\ tiers' = [i \in Positions |->
               IF frameworks[i] = None THEN 0
               ELSE LET d == frameworks[i].direction
                    IN AssessTier(evidence'[d], RiskReward(frameworks[i]), quality,
                                  Liquidity(selected[d]), IndependentStreams(seen))]
    BY <1>6 DEF WeighEvidence
  <2>2. \A i \in Applicable : frameworks[i].direction \in Asked /\ i \in Positions
                              /\ frameworks[i] # None
    BY DEF Applicable, Asked
  <2>3. ASSUME NEW d \in Asked
        PROVE  /\ evidence'[d] \in EvidenceRecords
               /\ evidence'[d].global_context # "SUPPORTIVE"
               /\ evidence'[d].futures = "CONFLICTING" => evidence'[d].divergences >= 1
               /\ evidence'[d].breadth = "CONFLICTING" => evidence'[d].divergences >= 1
    <3>1. evidence'[d] = DirectionEvidence(seen, impulse, Liquidity(selected[d]), d)
      BY <2>1
    <3>2. QED
      BY <3>1, EvidenceFacts
  <2>4. ASSUME NEW i \in Applicable
        PROVE  LET e == evidence'[frameworks[i].direction]
               IN /\ tiers'[i] \in 0 .. 3
                  /\ tiers'[i] >= 1 => e.futures # "CONFLICTING" /\ e.breadth # "CONFLICTING"
                  /\ tiers'[i] = 3 =>
                       /\ Supportive(e) = 5 /\ overall' = "GOOD"
                       /\ Liquidity(selected[frameworks[i].direction]) = "GOOD"
    <3> DEFINE d == frameworks[i].direction
               e == evidence'[d]
    <3>1. d \in Asked /\ i \in Positions /\ frameworks[i] # None
      BY <2>2
    <3>2. /\ e \in EvidenceRecords /\ e.global_context # "SUPPORTIVE"
          /\ e.futures = "CONFLICTING" => e.divergences >= 1
          /\ e.breadth = "CONFLICTING" => e.divergences >= 1
      BY <2>3, <3>1
    <3>3. tiers'[i] = AssessTier(e, RiskReward(frameworks[i]), quality,
                                 Liquidity(selected[d]), IndependentStreams(seen))
      BY <2>1, <3>1
    <3> HIDE DEF e, d
    <3>4. /\ tiers'[i] \in 0 .. 3
          /\ tiers'[i] >= 1 => Conflicting(e) <= 1
          /\ tiers'[i] = 3 => /\ Supportive(e) = 5 /\ quality = "GOOD"
                              /\ Liquidity(selected[d]) = "GOOD"
      BY <3>2, <3>3, TierFacts
    <3>5. e.futures = "CONFLICTING" \/ e.breadth = "CONFLICTING" => Conflicting(e) >= 2
      <4>1. /\ e.divergences \in Nat /\ Conflicting(e) \in Nat
            /\ (e.futures = "CONFLICTING" \/ e.breadth = "CONFLICTING") =>
                 Conflicting(e) >= 1 + e.divergences
        BY <3>2, ConflictingBound DEF EvidenceRecords
      <4>2. QED
        BY <3>2, <4>1
    <3>6. Conflicting(e) \in Nat
      BY <3>2, ConflictingBound
    <3>7. tiers'[i] >= 1 => e.futures # "CONFLICTING" /\ e.breadth # "CONFLICTING"
      BY <3>4, <3>5, <3>6
    <3>8. QED
      BY <2>1, <3>4, <3>7 DEF e, d
  <2>5. tiers' \in [Positions -> 0 .. 3]
    <3>1. \A i \in Positions : frameworks[i] # None => i \in Applicable
      BY DEF Applicable
    <3>2. \A i \in Positions : tiers'[i] \in 0 .. 3
      <4>1. \A i \in Applicable : tiers'[i] \in 0 .. 3
        BY <2>4
      <4>2. \A i \in Positions : frameworks[i] = None => tiers'[i] = 0
        BY <2>1
      <4>3. QED
        BY <3>1, <4>1, <4>2
    <3>3. DOMAIN tiers' = Positions /\ tiers' = [i \in Positions |-> tiers'[i]]
      BY <2>1
    <3>4. QED
      BY <3>2, <3>3
  <2>6. DOMAIN evidence' = Asked
    BY <2>1
  <2>7. RatedInv'
    BY <1>1, <1>3, <2>2, <2>3, <2>4, <2>5, <2>6 DEF RatedInv
  <2>8. StageInv' /\ ViewInv' /\ ConcludedInv'
    BY <1>1, <1>2, <2>1 DEF StageInv, ViewInv, ConcludedInv
  <2>9. ContractInv'
    BY <1>3, <1>4, <2>1 DEF ContractInv
  <2>10. QED
    BY <1>3, <2>7, <2>8, <2>9 DEF DecisionInv
<1>7. QED
  BY <1>5, <1>6

\* However the streams stand, their supportive ones can be counted.
LEMMA SupportiveIsCount ==
  ASSUME NEW e
  PROVE  Supportive(e) \in 0 .. 6
<1> DEFINE a == One(e.futures = "SUPPORTIVE")
           b == One(e.option_chain = "SUPPORTIVE")
           c == One(e.breadth = "SUPPORTIVE")
           f == One(e.momentum = "SUPPORTIVE")
           g == One(e.option_depth = "SUPPORTIVE")
           h == One(e.global_context = "SUPPORTIVE")
<1>1. Supportive(e) = a + b + c + f + g + h
  BY DEF Supportive, Count
<1>2. a \in {0, 1} /\ b \in {0, 1} /\ c \in {0, 1} /\ f \in {0, 1} /\ g \in {0, 1} /\ h \in {0, 1}
  BY DEF One
<1> HIDE DEF a, b, c, f, g, h
<1>3. QED
  BY <1>1, <1>2

\* Among opportunities there is a first one with the most (tier, supportive).
LEMMA SomeIsAhead ==
  ASSUME DecisionInv, NEW S \in SUBSET Applicable, S # {}
  PROVE  \E k \in S : \A j \in S : Ahead(k, j)
<1> DEFINE s(i) == Supportive(evidence[frameworks[i].direction])
           f == [i \in S |-> 7 * tiers[i] + s(i)]
<1>1. S \in SUBSET (1 .. 8)
  BY DEF Applicable, Positions
<1>2. \A i \in S : tiers[i] \in 0 .. 3
  BY <1>1 DEF DecisionInv, RatedInv, Positions
<1>3. \A i \in S : s(i) \in 0 .. 6
  BY SupportiveIsCount
<1>4. \A i \in S : f[i] = 7 * tiers[i] + s(i)
  OBVIOUS
<1>5. \A i, j \in S :
        Ahead(i, j) <=> \/ tiers[i] > tiers[j]
                        \/ tiers[i] = tiers[j] /\ s(i) > s(j)
                        \/ tiers[i] = tiers[j] /\ s(i) = s(j) /\ i <= j
  BY DEF Ahead
<1> HIDE DEF s, f
<1>6. \A i \in S : f[i] \in Int
  BY <1>2, <1>3, <1>4
<1>7. PICK i \in S : FirstBest(f, S, i)
  BY <1>1, <1>6, FirstBestExists
<1>8. ASSUME NEW j \in S
      PROVE  Ahead(i, j)
  <2>1. f[i] > f[j] \/ (f[i] = f[j] /\ i <= j)
    BY <1>7 DEF FirstBest
  <2>2. /\ f[i] = 7 * tiers[i] + s(i) /\ f[j] = 7 * tiers[j] + s(j)
        /\ tiers[i] \in 0 .. 3 /\ tiers[j] \in 0 .. 3 /\ s(i) \in 0 .. 6 /\ s(j) \in 0 .. 6
    BY <1>2, <1>3, <1>4
  <2>3. QED
    BY <1>5, <2>1, <2>2
<1>9. QED
  BY <1>8

\* The best opportunity is one of the actionable ones.
LEMMA BestIsBest ==
  ASSUME DecisionInv, Actionable # {}
  PROVE  Best \in Actionable /\ Best \in Applicable /\ Best \in Positions
<1>1. Actionable \in SUBSET Applicable /\ Applicable \in SUBSET Positions
  BY DEF Actionable, Applicable
<1>2. \E k \in Actionable : \A j \in Actionable : Ahead(k, j)
  BY <1>1, SomeIsAhead
<1>3. Best \in Actionable
  BY <1>2 DEF Best
<1>4. QED
  BY <1>1, <1>3

LEMMA ConcludeStep ==
  ASSUME DecisionInv, Conclude
  PROVE  DecisionInv'
<1>1. /\ pc = "risk" /\ pc' = "done" /\ ltp' = ltp /\ range' = range
      /\ frameworks' = frameworks /\ selected' = selected /\ evidence' = evidence
      /\ tiers' = tiers /\ overall' = overall
  BY DEF Conclude
<1>2. ltp \in Nat
  BY DEF DecisionInv, StageInv
<1>3. FrameInv' /\ Asked' = Asked /\ Applicable' = Applicable
      /\ \A i \in Applicable : Target(frameworks[i])' = Target(frameworks[i])
  BY <1>1, FramesStay DEF DecisionInv
<1>4. Actionable' = Actionable /\ Best' = Best
  <2>1. Actionable' = Actionable
    BY <1>1, <1>3 DEF Actionable
  <2>2. QED
    BY <1>1, <2>1 DEF Best, Ahead
<1>5. ASSUME Actionable # {}
      PROVE  /\ PlanFor(Best)' = PlanFor(Best)
             /\ Gate(entry)' = Gate(entry')
  <2>1. Best \in Applicable
    BY <1>5, BestIsBest
  <2>2. Target(frameworks[Best])' = Target(frameworks[Best])
    BY <1>1, <1>4 DEF Target
  <2>3. PlanFor(Best)' = PlanFor(Best)
    BY <1>1, <1>4, <2>2 DEF PlanFor
  <2>4. Ready(Best, entry)' = Ready(Best, entry')
    BY <1>1, <1>4, <2>3 DEF Ready
  <2>5. QED
    BY <1>4, <2>3, <2>4 DEF Gate
<1>6. \/ /\ Gate(entry') /\ plan' = PlanFor(Best)
         /\ signal' = IF SchemaAccepts(plan', selected[frameworks[Best].direction], tiers[Best])
                      THEN "TRADE_READY" ELSE "RAISED"
      \/ ~ Gate(entry') /\ signal' = "NO_TRADE"
  BY DEF Conclude, Gate
<1>7. ConcludedInv'
  <2>1. CASE Gate(entry')
    <3>1. Actionable # {}
      BY <2>1 DEF Gate
    <3>2. Gate(entry)' /\ PlanFor(Best)' = PlanFor(Best)
      BY <1>5, <2>1, <3>1
    <3>3. signal' = IF SchemaAccepts(PlanFor(Best), selected[frameworks[Best].direction],
                                     tiers[Best])
                    THEN "TRADE_READY" ELSE "RAISED"
      BY <1>6, <2>1
    <3>4. QED
      BY <1>1, <1>4, <3>2, <3>3 DEF ConcludedInv
  <2>2. CASE ~ Gate(entry')
    <3>1. signal' = "NO_TRADE"
      BY <1>6, <2>2
    <3>2. ~ Gate(entry)'
      <4>1. CASE Actionable # {}
        BY <1>5, <2>2, <4>1
      <4>2. CASE Actionable = {}
        BY <1>4, <4>2 DEF Gate
      <4>3. QED
        BY <4>1, <4>2
    <3>3. QED
      BY <3>1, <3>2 DEF ConcludedInv
  <2>3. QED
    BY <2>1, <2>2
<1>8. StageInv' /\ ViewInv'
  BY <1>1, <1>2, <1>6 DEF StageInv, ViewInv
<1>9. ContractInv'
  BY <1>1, <1>3 DEF DecisionInv, ContractInv
<1>10. RatedInv'
  BY <1>1, <1>3 DEF DecisionInv, RatedInv
<1>11. QED
  BY <1>3, <1>7, <1>8, <1>9, <1>10 DEF DecisionInv

LEMMA StutterStep ==
  ASSUME DecisionInv, UNCHANGED vars
  PROVE  DecisionInv'
<1>1. /\ pc' = pc /\ ltp' = ltp /\ view' = view /\ range' = range /\ chain' = chain
      /\ frameworks' = frameworks /\ selected' = selected /\ evidence' = evidence
      /\ tiers' = tiers /\ overall' = overall /\ entry' = entry /\ signal' = signal
  BY DEF vars
<1>2. FrameInv' /\ Asked' = Asked /\ Applicable' = Applicable
  BY <1>1, FramesStay DEF DecisionInv
<1>3. StageInv' /\ ViewInv'
  BY <1>1 DEF DecisionInv, StageInv, ViewInv, Nowhere, Rest
<1>4. ContractInv' /\ RatedInv'
  BY <1>1, <1>2 DEF DecisionInv, ContractInv, RatedInv
<1>5. ConcludedInv'
  <2>1. Actionable' = Actionable
    BY <1>1, <1>2 DEF Actionable
  <2>2. Best' = Best
    BY <1>1, <2>1 DEF Best, Ahead
  <2>3. PlanFor(Best)' = PlanFor(Best)
    BY <1>1, <2>2 DEF PlanFor, Target
  <2>4. Gate(entry)' = Gate(entry)
    BY <1>1, <2>1, <2>2, <2>3 DEF Gate, Ready
  <2>5. QED
    BY <1>1, <2>2, <2>3, <2>4 DEF DecisionInv, ConcludedInv
<1>6. QED
  BY <1>2, <1>3, <1>4, <1>5 DEF DecisionInv

LEMMA Invariance == Spec => []DecisionInv
<1>1. DecisionInv /\ [Next]_vars => DecisionInv'
  BY StructureStep, ContextStep, ContractsStep, EvidenceStep, ConcludeStep, StutterStep
     DEF Next, Returned
<1>2. QED
  BY <1>1, InitInv, PTL DEF Spec

-----------------------------------------------------------------------------
(***************************************************************************)
(* The theorems.                                                           *)
(***************************************************************************)

(***************************************************************************)
(* What the stages pass on has its type, for every set of inputs: eight    *)
(* positions in the order of the frameworks, stances and tiers (api/       *)
(* decision.py:56-230).                                                    *)
(***************************************************************************)
THEOREM DecisionTypeCorrect == Spec => []TypeOK
<1>1. DecisionInv => TypeOK
  BY DEF DecisionInv, StageInv, FrameInv, RatedInv, TypeOK
<1>2. QED
  BY <1>1, Invariance, PTL

(***************************************************************************)
(* No opportunity is ever rated above TIER_3, and one rated TIER_3 has all *)
(* five streams that can support it (tiers.py:51-56).                      *)
(***************************************************************************)
THEOREM TiersAreCapped == Spec => []TierCeiling
<1>1. ASSUME DecisionInv, NEW i \in Applicable
      PROVE  /\ tiers[i] <= 3
             /\ tiers[i] = 3 =>
                  LET d == frameworks[i].direction
                      e == evidence[d]
                  IN /\ \A s \in {e.futures, e.option_chain, e.breadth, e.momentum,
                                  e.option_depth} : s = "SUPPORTIVE"
                     /\ overall = "GOOD" /\ Liquidity(selected[d]) = "GOOD"
  <2> DEFINE d == frameworks[i].direction
             e == evidence[d]
  <2>1. tiers[i] \in 0 .. 3
    BY <1>1 DEF DecisionInv, RatedInv, Applicable
  <2>2. tiers[i] = 3 => /\ e \in EvidenceRecords /\ e.global_context # "SUPPORTIVE"
                        /\ Supportive(e) = 5
                        /\ overall = "GOOD" /\ Liquidity(selected[d]) = "GOOD"
    BY <1>1, <2>1 DEF DecisionInv, RatedInv
  <2> HIDE DEF e, d
  <2>3. tiers[i] = 3 => \A s \in {e.futures, e.option_chain, e.breadth, e.momentum,
                                  e.option_depth} : s = "SUPPORTIVE"
    BY <2>2, SupportiveBound
  <2>4. QED
    BY <2>1, <2>2, <2>3 DEF e, d
<1>2. DecisionInv => TierCeiling
  BY <1>1 DEF TierCeiling
<1>3. QED
  BY <1>2, Invariance, PTL

(***************************************************************************)
(* When the best opportunity fails, every other one would have failed: two *)
(* that apply together are one trade (decision.py:179-228).                *)
(***************************************************************************)
THEOREM NothingIsLost == Spec => []NoSecondChanceLost
<1>1. ASSUME DecisionInv, signal = "NO_TRADE", NEW i \in Actionable, Ready(i, entry)
      PROVE  FALSE
  <2>1. Actionable # {} /\ ~ Ready(Best, entry)
    BY <1>1 DEF DecisionInv, ConcludedInv, Gate
  <2>2. Best \in Actionable /\ Best \in Applicable /\ i \in Applicable
    BY <1>1, <2>1, BestIsBest DEF Actionable
  <2>3. /\ frameworks[Best].direction = frameworks[i].direction
        /\ frameworks[Best].invalidation = frameworks[i].invalidation
        /\ Target(frameworks[Best]) = Target(frameworks[i])
    BY <1>1, <2>2 DEF DecisionInv, FrameInv
  <2>4. PlanFor(Best) = PlanFor(i)
    BY <2>3 DEF PlanFor
  <2>5. tiers[Best] >= 1
    BY <2>2 DEF Actionable
  <2>6. Ready(Best, entry)
    BY <1>1, <2>3, <2>4, <2>5 DEF Ready, RiskPasses
  <2>7. QED
    BY <2>1, <2>6
<1>2. DecisionInv => NoSecondChanceLost
  BY <1>1 DEF NoSecondChanceLost
<1>3. QED
  BY <1>2, Invariance, PTL

\* What is known of the opportunity that passed the gate.
LEMMA GateFacts ==
  ASSUME DecisionInv, Gate(entry), pc = "done"
  PROVE  LET f == frameworks[Best]
             leg == selected[f.direction]
         IN /\ Best \in Applicable /\ tiers[Best] \in 1 .. 3
            /\ f.framework = FrameworkOrder[Best] /\ f.invalidation \in Nat
            /\ Best \notin {1, 2, 7} => f.direction = DirectionIf(f.invalidation < ltp)
            /\ ltp \in Nat /\ ltp # f.invalidation
            /\ leg.spread \in Int /\ leg.strike \in Int
            /\ 100 * Distance(Target(f), ltp) >= 138 * Distance(ltp, f.invalidation)
            /\ leg.spread >= 0 /\ leg.strike > 0 =>
                 SchemaAccepts(PlanFor(Best), leg, tiers[Best])
<1> DEFINE f == frameworks[Best]
           leg == selected[f.direction]
<1>1. Best \in Applicable /\ Best \in Positions /\ Best \in Actionable
  BY BestIsBest DEF Gate
<1>2. /\ f.framework = FrameworkOrder[Best] /\ f.invalidation \in Nat
      /\ Target(f) \in Int \cup {None}
      /\ Best \notin {1, 2, 7} => f.direction = DirectionIf(f.invalidation < ltp)
      /\ ltp \in Nat
  BY <1>1 DEF DecisionInv, FrameInv, StageInv
<1>3. tiers[Best] \in 1 .. 3
  <2>1. tiers[Best] \in 0 .. 3 /\ tiers[Best] >= 1
    BY <1>1 DEF DecisionInv, RatedInv, Actionable
  <2>2. QED
    BY <2>1
<1>4. f.direction \in Asked
  BY <1>1 DEF Asked
<1>5. leg # None /\ RiskPasses(PlanFor(Best), leg, tiers[Best], overall, entry)
  BY DEF Gate, Ready
<1>6. leg \in Legs /\ leg.ltp \in Nat
  BY <1>4, <1>5 DEF DecisionInv, ContractInv
<1>7. PlanFor(Best) = EngineerTrade(leg, ltp, f.invalidation, Target(f))
  BY DEF PlanFor
<1> DEFINE inv == f.invalidation
           target == Target(f)
           n == tiers[Best]
<1> HIDE DEF f, leg, inv, target, n
<1>8. /\ leg \in Legs /\ leg.ltp \in Nat /\ ltp \in Nat /\ inv \in Nat
      /\ target \in Int \cup {None}
      /\ RiskPasses(EngineerTrade(leg, ltp, inv, target), leg, n, overall, entry)
  BY <1>2, <1>5, <1>6, <1>7 DEF inv, target, n
<1>9. /\ target \in Int /\ ltp # inv /\ leg.spread \in Int
      /\ 100 * Distance(target, ltp) >= 138 * Distance(ltp, inv)
      /\ n \in 1 .. 4 /\ leg.spread >= 0 /\ leg.strike > 0 =>
           SchemaAccepts(EngineerTrade(leg, ltp, inv, target), leg, n)
  BY <1>8, PlanFacts
<1>10. n \in 1 .. 4
  BY <1>3 DEF n
<1>11. leg.strike \in Int
  BY <1>6 DEF Legs
<1>12. QED
  BY <1>1, <1>2, <1>3, <1>7, <1>9, <1>10, <1>11 DEF f, leg, inv, target, n

(***************************************************************************)
(* A trade's reward is at least 1.38 of its risk in the underlying, for    *)
(* every delta and premium (engine.py:78-93, validation.py:80-84).         *)
(***************************************************************************)
THEOREM MarginIsNeeded == Spec => []ReadyNeedsMargin
<1>1. DecisionInv => ReadyNeedsMargin
  <2>1. ASSUME DecisionInv, signal = "TRADE_READY"
        PROVE  Gate(entry) /\ pc = "done"
    BY <2>1 DEF DecisionInv, ConcludedInv, StageInv
  <2>2. QED
    BY <2>1, GateFacts DEF ReadyNeedsMargin
<1>2. QED
  BY <1>1, Invariance, PTL

(***************************************************************************)
(* Futures or breadth against the direction veto every trade, because each *)
(* is counted twice (decision.py:360-373, divergence.py:47-54, 76-84).     *)
(***************************************************************************)
THEOREM ConflictsVeto == Spec => []DoubleCountedConflictVetoes
<1>1. ASSUME DecisionInv, signal = "TRADE_READY"
      PROVE  LET e == evidence[frameworks[Best].direction]
             IN e.futures # "CONFLICTING" /\ e.breadth # "CONFLICTING"
  <2>1. Gate(entry) /\ pc = "done"
    BY <1>1 DEF DecisionInv, ConcludedInv, StageInv
  <2>2. Best \in Applicable /\ tiers[Best] \in 1 .. 3
    BY <1>1, <2>1, GateFacts
  <2>3. QED
    BY <1>1, <2>2 DEF DecisionInv, RatedInv
<1>2. DecisionInv => DoubleCountedConflictVetoes
  BY <1>1 DEF DoubleCountedConflictVetoes
<1>3. QED
  BY <1>2, Invariance, PTL

(***************************************************************************)
(* A trade on a reaction at a level has the level strictly behind it       *)
(* (frameworks.py:149-214, opportunity.py:76-79).                          *)
(***************************************************************************)
THEOREM LevelsAreBehind == Spec => []LevelTradesAreAlive
<1>1. ASSUME DecisionInv, signal = "TRADE_READY",
             frameworks[Best].framework \in LevelReactionFrameworks
      PROVE  IF frameworks[Best].direction = "CALL" THEN frameworks[Best].invalidation < ltp
                                                    ELSE frameworks[Best].invalidation > ltp
  <2> DEFINE f == frameworks[Best]
  <2>1. Gate(entry) /\ pc = "done"
    BY <1>1 DEF DecisionInv, ConcludedInv, StageInv
  <2>2. /\ f.framework = FrameworkOrder[Best] /\ f.invalidation \in Nat /\ ltp \in Nat
        /\ Best \notin {1, 2, 7} => f.direction = DirectionIf(f.invalidation < ltp)
        /\ ltp # f.invalidation
    BY <1>1, <2>1, GateFacts
  <2>3. Best \notin {1, 2, 7}
    BY <1>1, <2>2 DEF LevelReactionFrameworks, FrameworkOrder
  <2> HIDE DEF f
  <2>4. IF f.direction = "CALL" THEN f.invalidation < ltp ELSE f.invalidation > ltp
    <3>1. CASE f.invalidation < ltp
      BY <2>2, <2>3, <3>1 DEF DirectionIf
    <3>2. CASE ~ (f.invalidation < ltp)
      <4>1. f.direction = "PUT" /\ f.invalidation > ltp
        BY <2>2, <2>3, <3>2 DEF DirectionIf
      <4>2. QED
        BY <4>1
    <3>3. QED
      BY <3>1, <3>2
  <2>5. QED
    BY <2>4 DEF f
<1>2. DecisionInv => LevelTradesAreAlive
  BY <1>1 DEF LevelTradesAreAlive
<1>3. QED
  BY <1>2, Invariance, PTL

(***************************************************************************)
(* decide() raises only on a zero price of the underlying, or a crossed    *)
(* book or a strike that is not positive of the selected contract: every   *)
(* plan that passes the risk gate satisfies the schema otherwise           *)
(* (schema.py:48-88, 139-148).                                             *)
(***************************************************************************)
THEOREM OnlyBadQuotesRaise == Spec => []RaisesOnlyForBadQuotes
<1>1. ASSUME DecisionInv, signal = "RAISED", ltp # 0
      PROVE  LET leg == selected[frameworks[Best].direction]
             IN leg.spread < 0 \/ leg.strike <= 0
  <2> DEFINE leg == selected[frameworks[Best].direction]
  <2>1. /\ Gate(entry) /\ pc = "done"
        /\ ~ SchemaAccepts(PlanFor(Best), leg, tiers[Best])
    BY <1>1 DEF DecisionInv, ConcludedInv, StageInv
  <2>2. /\ leg.spread \in Int /\ leg.strike \in Int
        /\ leg.spread >= 0 /\ leg.strike > 0 =>
             SchemaAccepts(PlanFor(Best), leg, tiers[Best])
    BY <1>1, <2>1, GateFacts
  <2>3. QED
    BY <2>1, <2>2
<1>2. DecisionInv => RaisesOnlyForBadQuotes
  BY <1>1 DEF RaisesOnlyForBadQuotes
<1>3. QED
  BY <1>2, Invariance, PTL

(***************************************************************************)
(* No survivor beats the selected contract in open interest, spread and    *)
(* delta at once, whatever the ends they are normalised between            *)
(* (selection.py:127-158).                                                 *)
(***************************************************************************)
THEOREM SelectionIsUndominated == Spec => []NoDominatedContract
<1>1. ASSUME NEW legs \in Seq(Legs), SelectContract(legs) # None,
             NEW i \in Survivors(legs), AsGood(legs[i], SelectContract(legs))
      PROVE  AsGood(SelectContract(legs), legs[i])
  <2>1. PICK k \in Survivors(legs) :
          /\ SelectContract(legs) = legs[k]
          /\ \A j \in Survivors(legs) :
               ScoreOf(legs, k, Survivors(legs)) >= ScoreOf(legs, j, Survivors(legs))
    BY <1>1, SelectionIsBest
  <2>2. /\ legs[i].oi >= legs[k].oi /\ legs[i].spread <= legs[k].spread
        /\ legs[i].delta # None /\ legs[k].delta # None
        /\ DeltaDistance(legs[i]) <= DeltaDistance(legs[k])
    BY <1>1, <2>1 DEF AsGood
  <2>3. /\ legs[i].oi \in Nat /\ legs[k].oi \in Nat /\ legs[i].spread \in Int
        /\ legs[k].spread \in Int /\ legs[i].delta \in Nat \cup {None}
        /\ legs[k].delta \in Nat \cup {None}
    BY ChainLegs
  <2>4. DeltaDistance(legs[i]) \in Nat /\ DeltaDistance(legs[k]) \in Nat
    BY <2>2, <2>3, FitType
  <2>5. /\ Fit(legs[i]) = 30 - 2 * DeltaDistance(legs[i])
        /\ Fit(legs[k]) = 30 - 2 * DeltaDistance(legs[k])
    BY <2>2 DEF Fit
  <2>6. Fit(legs[i]) >= Fit(legs[k])
    BY <2>2, <2>4, <2>5
  <2>7. /\ ScoreOf(legs, i, Survivors(legs)) \in Int
        /\ ScoreOf(legs, i, Survivors(legs)) >= ScoreOf(legs, k, Survivors(legs))
        /\ ScoreOf(legs, i, Survivors(legs)) = ScoreOf(legs, k, Survivors(legs)) =>
             /\ legs[i].oi = legs[k].oi /\ legs[i].spread = legs[k].spread
             /\ Fit(legs[i]) = Fit(legs[k])
    BY <2>2, <2>6, BetterScoresMore
  <2>8. ScoreOf(legs, k, Survivors(legs)) \in Int
    <3>1. \A x \in Int : x >= x /\ x <= x
      OBVIOUS
    <3>2. Fit(legs[k]) \in Int
      BY <2>4, <2>5
    <3>3. Fit(legs[k]) >= Fit(legs[k]) /\ legs[k].oi >= legs[k].oi
          /\ legs[k].spread <= legs[k].spread
      BY <2>3, <3>1, <3>2
    <3>4. QED
      BY <3>3, BetterScoresMore
  <2>9. ScoreOf(legs, i, Survivors(legs)) = ScoreOf(legs, k, Survivors(legs))
    BY <2>1, <2>7, <2>8
  <2>10. /\ legs[i].oi = legs[k].oi /\ legs[i].spread = legs[k].spread
         /\ DeltaDistance(legs[i]) = DeltaDistance(legs[k])
    BY <2>4, <2>5, <2>7, <2>9
  <2>11. AsGood(legs[k], legs[i])
    BY <2>2, <2>3, <2>4, <2>10 DEF AsGood
  <2>12. QED
    BY <2>1, <2>11
<1>2. ASSUME DecisionInv, pc = "evidence", NEW d \in Asked, selected[d] # None,
             NEW i \in Survivors(chain[d]), AsGood(chain[d][i], selected[d])
      PROVE  AsGood(selected[d], chain[d][i])
  <2>1. chain[d] \in Seq(Legs) /\ selected[d] = SelectContract(chain[d])
    BY <1>2 DEF DecisionInv, ContractInv
  <2>2. QED
    BY <1>1, <1>2, <2>1
<1>3. DecisionInv => NoDominatedContract
  BY <1>2 DEF NoDominatedContract
<1>4. QED
  BY <1>3, Invariance, PTL

-----------------------------------------------------------------------------
\* A setup that is named has the fields the loop knows setups by.
LEMMA NamedSetup ==
  ASSUME DecisionInv, NEW i \in Applicable
  PROVE  /\ frameworks[i].direction \in Directions
         /\ frameworks[i].framework \in FrameworkNames
         /\ tiers[i] \in 0 .. 4
<1>1. i \in Positions
  BY DEF Applicable
<1>2. /\ frameworks[i].framework = FrameworkOrder[i] /\ frameworks[i].direction \in Directions
      /\ tiers[i] \in 0 .. 3
  BY <1>1 DEF DecisionInv, FrameInv, RatedInv
<1>3. QED
  BY <1>1, <1>2 DEF FrameworkNames

\* A TRADE_READY was given at a time that lets entries through, for an
\* actionable setup at a level the price is not on.
LEMMA ReadyOutcome ==
  ASSUME DecisionInv, signal = "TRADE_READY"
  PROVE  /\ ReadySignal \in [state : {"TRADE_READY"}, setup : Setups, tier : 1 .. 4]
         /\ ReadySignal.setup.underlying = Underlying
         /\ ReadySignal.setup.level # ltp
         /\ entry
<1> DEFINE f == frameworks[Best]
           setup == [underlying |-> Underlying, direction |-> f.direction,
                     framework |-> f.framework, level |-> f.invalidation]
           n == tiers[Best]
<1>1. Gate(entry) /\ pc = "done"
  BY DEF DecisionInv, ConcludedInv, StageInv
<1>2. Best \in Applicable /\ n \in 1 .. 3 /\ f.invalidation \in Nat /\ ltp # f.invalidation
  BY <1>1, GateFacts
<1>3. f.direction \in Directions /\ f.framework \in FrameworkNames
  BY <1>2, NamedSetup
<1>4. entry
  BY <1>1 DEF Gate, Ready, RiskPasses
<1>5. ReadySignal = [state |-> "TRADE_READY", tier |-> n, setup |-> setup]
  BY DEF ReadySignal
<1>6. setup \in Setups /\ setup.underlying = Underlying /\ setup.level = f.invalidation
  BY <1>2, <1>3 DEF Setups
<1> HIDE DEF f, setup, n
<1>7. QED
  BY <1>2, <1>4, <1>5, <1>6

\* A NO_TRADE names a setup that applies, or none.
LEMMA NoTradeOutcome ==
  ASSUME DecisionInv
  PROVE  \/ NoTradeSignal \in [state : {"NO_TRADE"}, setup : {NoTrade}, tier : {0}]
         \/ /\ NoTradeSignal \in [state : {"NO_TRADE"}, setup : FormingSetups, tier : 0 .. 4]
            /\ NoTradeSignal.setup.underlying = Underlying
<1>1. CASE Applicable = {}
  BY <1>1 DEF NoTradeSignal
<1>2. CASE Applicable # {}
  <2> DEFINE f == frameworks[Named]
             setup == [underlying |-> Underlying, direction |-> f.direction,
                       framework |-> f.framework]
             n == tiers[Named]
  <2>1. Named \in Applicable
    <3>1. \E i \in Applicable : \A j \in Applicable : Ahead(i, j)
      BY <1>2, SomeIsAhead
    <3>2. BestDeveloping \in Applicable
      BY <3>1 DEF BestDeveloping
    <3>3. QED
      BY <3>2, BestIsBest DEF Named
  <2>2. f.direction \in Directions /\ f.framework \in FrameworkNames /\ n \in 0 .. 4
    BY <2>1, NamedSetup
  <2>3. NoTradeSignal = [state |-> "NO_TRADE", tier |-> n, setup |-> setup]
    BY <1>2 DEF NoTradeSignal
  <2>4. setup \in FormingSetups /\ setup.underlying = Underlying
    BY <2>2 DEF FormingSetups
  <2> HIDE DEF f, setup, n
  <2>5. QED
    BY <2>2, <2>3, <2>4
<1>3. QED
  BY <1>1, <1>2

(***************************************************************************)
(* Whatever decide() answers in the session is one of the answers LiveLoop *)
(* gives its cycles (decision.py:182-233, run_engine.py:169-185), so what  *)
(* is proved of the loop holds of a loop around this decide(), for every   *)
(* window and time.                                                        *)
(***************************************************************************)
THEOREM OutcomesAreTheLoops == Spec => []OutcomeIsTheLoops
<1>1. DecisionInv => OutcomeIsTheLoops
  <2> SUFFICES ASSUME DecisionInv, NEW t \in Times,
                      IsWithinSession(Window, t % DayLength),
                      entry = IsNewEntryAllowed(Window, t % DayLength)
               PROVE  /\ Outcome \in Loop!OutcomesAt(Underlying, t)
                      /\ signal = "TRADE_READY" => Outcome.setup.level # ltp
    BY DEF OutcomeIsTheLoops
  <2>1. ASSUME NEW o, \/ o \in [state : {"TRADE_READY"}, setup : Setups, tier : 1 .. 4]
                      \/ o \in [state : {"NO_TRADE"}, setup : FormingSetups, tier : 0 .. 4]
                      \/ o \in [state : {"NO_TRADE"}, setup : {NoTrade}, tier : {0}]
        PROVE  o \in Loop!Signals \ {Loop!NoSignal}
    <3>1. Loop!Tiers = 0 .. 4 /\ Loop!Tiers \ {0} = 1 .. 4
      BY DEF Loop!Tiers
    <3>2. o \in Loop!Signals
      BY <2>1, <3>1 DEF Loop!Signals
    <3>3. o.state # Loop!NoSignal.state
      BY <2>1 DEF Loop!NoSignal
    <3>4. QED
      BY <3>2, <3>3
  <2>2. ASSUME NEW o \in Loop!Signals \ {Loop!NoSignal},
               o.setup # NoTrade => o.setup.underlying = Underlying,
               o.state = "TRADE_READY" => entry
        PROVE  o \in Loop!OutcomesAt(Underlying, t)
    <3>1. /\ IsWithinSession(Window, t % DayLength) <=> Loop!IsWithinSession(Window, t % DayLength)
          /\ IsNewEntryAllowed(Window, t % DayLength) <=> Loop!IsNewEntryAllowed(Window, t % DayLength)
      BY DEF IsWithinSession, IsNewEntryAllowed, PhaseAt, OpeningEnd, AddMinutes,
             Loop!IsWithinSession, Loop!IsNewEntryAllowed, Loop!PhaseAt, Loop!OpeningEnd,
             Loop!AddMinutes
    <3>2. QED
      BY <2>2, <3>1 DEF Loop!OutcomesAt, Loop!MayAuthorise
  <2>3. CASE signal = "TRADE_READY"
    <3>1. Outcome = ReadySignal
      BY <2>3 DEF Outcome
    <3>2. /\ ReadySignal \in [state : {"TRADE_READY"}, setup : Setups, tier : 1 .. 4]
          /\ ReadySignal.setup.underlying = Underlying
          /\ ReadySignal.setup.level # ltp
          /\ entry
      BY <2>3, ReadyOutcome
    <3>3. QED
      BY <2>1, <2>2, <3>1, <3>2
  <2>4. CASE signal # "TRADE_READY"
    <3>1. Outcome = NoTradeSignal
      BY <2>4 DEF Outcome
    <3>2. QED
      BY <2>1, <2>2, <2>4, <3>1, NoTradeOutcome
  <2>5. QED
    BY <2>3, <2>4
<1>2. QED
  BY <1>1, Invariance, PTL
=============================================================================
