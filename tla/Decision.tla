------------------------------- MODULE Decision ------------------------------
(***************************************************************************)
(* One call of api/decision.py's decide() with authorization/              *)
(* opportunity.py, from a snapshot whose critical data are sound to its    *)
(* signal.  Each stage reads more of the snapshot, in the order of the     *)
(* code, and forgets what no later stage needs.  CandleFeed has the        *)
(* structure analysis in detail, FetchCycle the way to the snapshot.       *)
(*                                                                         *)
(* The code evaluates both directions before it knows which one a          *)
(* framework asks for; what belongs to a direction none asks for reaches   *)
(* no result and is left out.                                              *)
(***************************************************************************)
EXTENDS Contracts

CONSTANTS
  Prices,        \* last traded prices
  Invalidations, \* swing levels, None among them
  Zones,         \* sequences of reactions at liquidity zones
  Impulses,      \* impulse metrics, None among them
  HalfRanges,    \* half the expected remaining range, None among them
  Chains,        \* sequences of legs of one option type
  Observations   \* [price, futures, pcr, breadth, context]

ASSUME DecisionAssumption ==
  /\ Prices \subseteq Nat
  /\ Invalidations \subseteq Nat \cup {None}
  /\ Zones \subseteq Seq([kind : LiquidityKinds, level : Nat, reaction : ReactionKinds])
  /\ Impulses \subseteq ImpulseMetrics \cup {None}
  /\ HalfRanges \subseteq Nat \cup {None}
  /\ Chains \subseteq Seq(Legs)
  /\ \A seen \in Observations : seen.price \in Signs \cup {None}

VARIABLES
  pc,         \* "structure", "frameworks", "contracts", "evidence", "risk", "done"
  ltp,
  view,       \* of the structure analysis: [regime, streams, bias, reactions],
              \* the streams being the regime's
  range,      \* boundaries [upper, lower] of the range model, or None
  impulse,
  frameworks, \* EvaluateFrameworks
  chain,      \* the legs offered for each direction asked for
  selected,   \* and the one selected
  evidence,   \* for each direction asked for
  tiers,      \* of the opportunities, 0 where no framework applies
  overall,    \* data quality
  entry,      \* is_new_entry_allowed(as_of)
  plan,
  signal      \* "none", "NO_TRADE", "TRADE_READY"; "RAISED" when decide() raises

vars == <<pc, ltp, view, range, impulse, frameworks, chain, selected, evidence,
          tiers, overall, entry, plan, signal>>

Positions == 1 .. 8

Applicable == {i \in Positions : frameworks[i] # None}

Asked == {frameworks[i].direction : i \in Applicable}

Nowhere == [i \in Positions |-> None]

Init ==
  /\ pc = "structure" /\ ltp = 0 /\ view = None /\ range = None /\ impulse = None
  /\ frameworks = Nowhere /\ chain = << >> /\ selected = << >> /\ evidence = << >>
  /\ tiers = [i \in Positions |-> 0] /\ overall = None /\ entry = FALSE
  /\ plan = None /\ signal = "none"

-----------------------------------------------------------------------------
NearestTested(reactions, price) ==
  LET tested == {i \in DOMAIN reactions : reactions[i].reaction # "UNTESTED"}
  IN IF tested = {} THEN None ELSE reactions[NearestIn(reactions, price, tested)].reaction

(***************************************************************************)
(* analyze_structure.                                                      *)
(***************************************************************************)
AnalyzeStructure ==
  /\ pc = "structure" /\ pc' = "frameworks"
  /\ \E price \in Prices, bias \in Biases, adx \in {None, "trending", "flat"},
        bands \in {None, "wide", "narrow", "steady"}, reactions \in Zones :
       LET nearest == NearestTested(reactions, price)
       IN /\ ltp' = price
          /\ view' = [regime |-> ClassifyRegime(bias, adx, bands, nearest), bias |-> bias,
                      streams |-> Streams(adx, bands, nearest),
                      reactions |-> reactions]
  /\ UNCHANGED <<range, impulse, frameworks, chain, selected, evidence, tiers,
                 overall, entry, plan, signal>>

Boundaries(half) ==
  IF half = None THEN None ELSE [upper |-> ltp + half, lower |-> ltp - half]

(***************************************************************************)
(* compute_impulse, _derive_pullback, compute_range_model, and the         *)
(* frameworks on the context made of them.  A bias needs two swings of a   *)
(* kind, hence one of the two invalidation levels.                         *)
(***************************************************************************)
EvaluateContext ==
  /\ pc = "frameworks" /\ pc' = "contracts"
  /\ \E long \in Invalidations, short \in Invalidations, m \in Impulses,
        half \in HalfRanges, pullback \in {None, "SHALLOW", "DEEP"} :
       /\ view.bias # "NEUTRAL" => long # None \/ short # None
       /\ range' = Boundaries(half) /\ impulse' = m
       /\ frameworks' = EvaluateFrameworks(
            [regime |-> view.regime, bias |-> view.bias, reactions |-> view.reactions,
             ltp |-> ltp, invalidation_long |-> long, invalidation_short |-> short,
             momentum |-> MomentumQuality(m), pullback |-> pullback,
             range |-> Boundaries(half)])
  /\ view' = [view EXCEPT !.reactions = << >>]
  /\ UNCHANGED <<ltp, chain, selected, evidence, tiers, overall, entry, plan, signal>>

\* select_contract, for each direction asked for.
SelectContracts ==
  /\ pc = "contracts" /\ pc' = "evidence"
  /\ chain' \in [Asked -> Chains]
  /\ selected' = [d \in Asked |-> SelectContract(chain'[d])]
  /\ UNCHANGED <<ltp, view, range, impulse, frameworks, evidence, tiers, overall,
                 entry, plan, signal>>

-----------------------------------------------------------------------------
\* _effective_target
Target(f) ==
  IF f.target # None THEN f.target
  ELSE IF range = None THEN None
  ELSE IF f.direction = "CALL" THEN range.upper ELSE range.lower

\* _risk_reward_proxy
RiskReward(f) ==
  IF Target(f) = None \/ Distance(ltp, f.invalidation) = 0 THEN None
  ELSE [reward |-> Distance(Target(f), ltp), risk |-> Distance(ltp, f.invalidation)]

(***************************************************************************)
(* independent_streams: the regime's, futures, the option chain (which has *)
(* legs, or the data were not sound), breadth and momentum.  In the code a *)
(* payload without the fields the stances need counts as well; here it     *)
(* counts as absent, which changes no tier: a framework applies only with  *)
(* two of the regime's streams, and no tier asks for more.                 *)
(***************************************************************************)
IndependentStreams(seen) ==
  view.streams + One(seen.futures # None) + 1 + One(seen.breadth # None)
    + One(impulse # None)

(***************************************************************************)
(* _direction_evidence and build_opportunities.  The basis is divided by   *)
(* the price of the underlying: decide() raises when that is zero.         *)
(***************************************************************************)
WeighEvidence ==
  /\ pc = "evidence"
  /\ \E seen \in Observations, quality \in {"GOOD", "DEGRADED"} :
       IF seen.futures # None /\ seen.futures.quoted /\ ltp = 0
       THEN /\ pc' = "done" /\ signal' = "RAISED"
            /\ UNCHANGED <<evidence, overall, tiers>>
       ELSE /\ pc' = "risk" /\ overall' = quality
            /\ evidence' = [d \in Asked |->
                 DirectionEvidence(seen, impulse, Liquidity(selected[d]), d)]
            /\ tiers' = [i \in Positions |->
                 IF frameworks[i] = None THEN 0
                 ELSE LET d == frameworks[i].direction
                      IN AssessTier(evidence'[d], RiskReward(frameworks[i]), quality,
                                    Liquidity(selected[d]), IndependentStreams(seen))]
            /\ UNCHANGED signal
  /\ impulse' = None /\ chain' = << >>
  /\ UNCHANGED <<ltp, view, range, frameworks, selected, entry, plan>>

\* The first of the applicable frameworks with the most (tier, supportive).
Ahead(i, j) ==
  LET si == Supportive(evidence[frameworks[i].direction])
      sj == Supportive(evidence[frameworks[j].direction])
  IN \/ tiers[i] > tiers[j]
     \/ tiers[i] = tiers[j] /\ si > sj
     \/ tiers[i] = tiers[j] /\ si = sj /\ i <= j

Actionable == {i \in Applicable : tiers[i] >= 1}

Best == CHOOSE i \in Actionable : \A j \in Actionable : Ahead(i, j)

PlanFor(i) ==
  EngineerTrade(selected[frameworks[i].direction], ltp, frameworks[i].invalidation,
                Target(frameworks[i]))

Ready(i, allowed) ==
  LET leg == selected[frameworks[i].direction]
  IN /\ leg # None /\ leg.expiry # None
     /\ RiskPasses(PlanFor(i), leg, tiers[i], overall, allowed)

(***************************************************************************)
(* The rest of decide(): only the best opportunity is tried.               *)
(***************************************************************************)
Conclude ==
  /\ pc = "risk" /\ pc' = "done"
  /\ entry' \in BOOLEAN
  /\ IF Actionable # {} /\ Ready(Best, entry')
     THEN /\ plan' = PlanFor(Best)
          /\ signal' = IF SchemaAccepts(plan', selected[frameworks[Best].direction],
                                        tiers[Best])
                       THEN "TRADE_READY" ELSE "RAISED"
     ELSE plan' = None /\ signal' = "NO_TRADE"
  /\ UNCHANGED <<ltp, view, range, impulse, frameworks, chain, selected, evidence,
                 tiers, overall>>

Returned == pc = "done" /\ UNCHANGED vars

Next ==
  AnalyzeStructure \/ EvaluateContext \/ SelectContracts \/ WeighEvidence
    \/ Conclude \/ Returned

Spec == Init /\ [][Next]_vars

-----------------------------------------------------------------------------
(***************************************************************************)
(* Types of what the stages pass on.                                       *)
(***************************************************************************)
TypeOK ==
  /\ pc \in {"structure", "frameworks", "contracts", "evidence", "risk", "done"}
  /\ ltp \in Nat
  /\ \A i \in Applicable : /\ frameworks[i].framework = FrameworkOrder[i]
                           /\ frameworks[i].direction \in Directions
  /\ \A d \in DOMAIN evidence : evidence[d] \in EvidenceRecords
  /\ tiers \in [Positions -> 0 .. 4]
  /\ signal \in {"none", "NO_TRADE", "TRADE_READY", "RAISED"}

(***************************************************************************)
(* TIER_4 is out of reach: it asks for seven supportive items and five of  *)
(* the six streams can support at all.  TIER_3 therefore means every one   *)
(* of them supports, and that the data and the contract's liquidity are    *)
(* GOOD (tiers.py:51-56, context.py:46, decision.py:360-367).              *)
(***************************************************************************)
TierCeiling ==
  pc \in {"risk", "done"} => \A i \in Applicable :
    /\ tiers[i] <= 3
    /\ tiers[i] = 3 =>
         LET d == frameworks[i].direction
             e == evidence[d]
         IN /\ \A s \in {e.futures, e.option_chain, e.breadth, e.momentum, e.option_depth} :
                 s = "SUPPORTIVE"
            /\ overall = "GOOD" /\ Liquidity(selected[d]) = "GOOD"

(***************************************************************************)
(* Trying only the best opportunity loses none: when it fails selection,   *)
(* engineering or the risk gate, no other actionable opportunity would     *)
(* have passed.  Nothing in decide() says so; it holds because two         *)
(* frameworks apply together only in a trend, and then with one direction, *)
(* invalidation and target (decision.py:179-228, opportunity.py:137-139).  *)
(***************************************************************************)
NoSecondChanceLost ==
  pc = "done" /\ signal = "NO_TRADE" => \A i \in Actionable : ~ Ready(i, entry)

(***************************************************************************)
(* The tier gate takes 1.2 for the reward:risk of the underlying.  What is *)
(* traded has at least 1.38: the stop is widened by the safety margin      *)
(* before the risk gate asks for 1.2 again (engine.py:78-93,               *)
(* validation.py:80-84).                                                   *)
(***************************************************************************)
ReadyNeedsMargin ==
  signal = "TRADE_READY" =>
    100 * Distance(Target(frameworks[Best]), ltp)
      >= 138 * Distance(ltp, frameworks[Best].invalidation)

(***************************************************************************)
(* Futures or breadth against the direction veto a trade although TIER_1   *)
(* forgives one conflict: each is counted as a stream and once more as a   *)
(* divergence (decision.py:360-373, divergence.py:47-54, 76-84,            *)
(* tiers.py:52).                                                           *)
(***************************************************************************)
DoubleCountedConflictVetoes ==
  signal = "TRADE_READY" =>
    LET e == evidence[frameworks[Best].direction]
    IN e.futures # "CONFLICTING" /\ e.breadth # "CONFLICTING"

(***************************************************************************)
(* A trade on a reaction at a level is never invalidated from the start:   *)
(* a CALL's level is below the price and a PUT's above it, strictly; at    *)
(* the price itself there is no risk to divide by (frameworks.py:149-214,  *)
(* opportunity.py:76-79).                                                  *)
(***************************************************************************)
LevelTradesAreAlive ==
  signal = "TRADE_READY" /\ frameworks[Best].framework \in LevelReactionFrameworks =>
    IF frameworks[Best].direction = "CALL" THEN frameworks[Best].invalidation < ltp
                                           ELSE frameworks[Best].invalidation > ltp

(***************************************************************************)
(* Where no price of the underlying is negative, decide() fails with an    *)
(* exception only if that price is zero, or if the selected contract has a *)
(* crossed book or a strike that is not positive: the plans it builds      *)
(* always satisfy the schema (schema.py:48-88, 139-148, selection.py:      *)
(* 165-190, futures_analysis.py:56).                                       *)
(***************************************************************************)
RaisesOnlyForBadQuotes ==
  signal = "RAISED" =>
    \/ ltp = 0
    \/ LET leg == selected[frameworks[Best].direction]
       IN leg.spread < 0 \/ leg.strike <= 0

\* Leg a is at least as good as leg b in all the score looks at.
AsGood(a, b) ==
  /\ a.oi >= b.oi /\ a.spread <= b.spread
  /\ a.delta # None /\ b.delta # None /\ DeltaDistance(a) <= DeltaDistance(b)

(***************************************************************************)
(* The selected contract is not beaten by another survivor in open         *)
(* interest, spread and delta at once, although each is normalised over    *)
(* the survivors (selection.py:127-158).                                   *)
(***************************************************************************)
NoDominatedContract ==
  pc = "evidence" => \A d \in Asked :
    selected[d] # None => \A i \in Survivors(chain[d]) :
      AsGood(chain[d][i], selected[d]) => AsGood(selected[d], chain[d][i])

-----------------------------------------------------------------------------
(***************************************************************************)
(* "break below here invalidates a bullish thesis", "break above here      *)
(* invalidates a bearish thesis" (structure/types.py:51-52): a trade's     *)
(* thesis is not invalid already when it is proposed.  The code measures   *)
(* only the distance to the level.                                         *)
(***************************************************************************)
ReadyThesisIsAlive ==
  signal = "TRADE_READY" =>
    IF frameworks[Best].direction = "CALL" THEN ltp >= frameworks[Best].invalidation
                                           ELSE ltp <= frameworks[Best].invalidation

(***************************************************************************)
(* "`run_cycle` never raises for upstream data problems" (runtime.py:39).  *)
(* A crossed book, a strike that is not positive or a zero price, in a     *)
(* critical source that counts as OK, makes decide() raise, and nothing in *)
(* run_cycle catches it.                                                   *)
(***************************************************************************)
NeverRaises == signal # "RAISED"
=============================================================================
