------------------------------- MODULE Regime --------------------------------
(***************************************************************************)
(* structure/types.py and structure/regime.py: the vocabulary of the       *)
(* structure analysis, and the vote that names the market regime.          *)
(*                                                                         *)
(* The streams of evidence, as far as the vote tells their values apart:   *)
(*   bias      of the swing sequence; it always votes                      *)
(*   adx       None, "trending" (25 or more) or "flat"                     *)
(*   bands     None, "wide", "narrow" or "steady": the band width against  *)
(*             its recent average                                          *)
(*   reaction  at the tested zone nearest to the price, or None            *)
(***************************************************************************)
EXTENDS Integers, Sequences, FiniteSets

CONSTANT None   \* Python's None

Biases == {"BULLISH", "BEARISH", "NEUTRAL"}

ReactionKinds == {"UNTESTED", "ACCEPTANCE", "REJECTION", "FAILED_BREAK",
                  "SWEEP", "CONTINUATION"}

MajorLevelKinds == {"PDH", "PDL", "PWH", "PWL", "SESSION_HIGH", "SESSION_LOW"}

LiquidityKinds == MajorLevelKinds \cup
  {"OPENING_RANGE_HIGH", "OPENING_RANGE_LOW", "EQUAL_HIGH", "EQUAL_LOW",
   "OI_WALL_CE", "OI_WALL_PE"}

\* _PRIORITY: of the regimes with the most votes the first one here wins.
Priority == <<"LIQUIDITY_SWEEP", "FAILED_BREAKOUT", "BREAKOUT_ATTEMPT",
              "REVERSAL_ATTEMPT", "TRENDING_UP", "TRENDING_DOWN", "EXPANSION",
              "COMPRESSION", "PULLBACK", "RANGE", "UNCERTAIN">>

Regimes == {Priority[i] : i \in DOMAIN Priority}

ASSUME NoneAssumption == None \notin Int /\ None \notin Regimes

One(condition) == IF condition THEN 1 ELSE 0

Trending(bias) == IF bias = "BULLISH" THEN "TRENDING_UP"
                  ELSE IF bias = "BEARISH" THEN "TRENDING_DOWN" ELSE "RANGE"

\* Strong ADX confirms a direction; it votes for nothing when there is none.
AdxRegime(bias, adx) ==
  IF adx = "flat" THEN "RANGE"
  ELSE IF adx = "trending" /\ bias # "NEUTRAL" THEN Trending(bias) ELSE None

BandRegime(bands) == IF bands = "wide" THEN "EXPANSION"
                     ELSE IF bands = "narrow" THEN "COMPRESSION" ELSE None

ReactionRegime(reaction) ==
  IF reaction = "SWEEP" THEN "LIQUIDITY_SWEEP"
  ELSE IF reaction = "FAILED_BREAK" THEN "FAILED_BREAKOUT"
  ELSE IF reaction = "ACCEPTANCE" THEN "BREAKOUT_ATTEMPT"
  ELSE IF reaction = "REJECTION" THEN "REVERSAL_ATTEMPT" ELSE None

\* A sweep and a failed break count twice.
Votes(bias, adx, bands, reaction) ==
  [r \in Regimes |->
     One(r = Trending(bias)) + One(r = AdxRegime(bias, adx)) + One(r = BandRegime(bands))
       + One(r = ReactionRegime(reaction))
       + One(r = ReactionRegime(reaction) /\ reaction \in {"SWEEP", "FAILED_BREAK"})]

Streams(adx, bands, reaction) ==
  1 + One(adx # None) + One(bands # None) + One(reaction # None)

\* The regime that gets the most votes, the first of them in Priority.
Winner(votes) ==
  Priority[CHOOSE i \in DOMAIN Priority :
             /\ \A r \in Regimes : votes[r] <= votes[Priority[i]]
             /\ \A j \in DOMAIN Priority : j < i => votes[Priority[j]] < votes[Priority[i]]]

\* classify_regime: no regime on one stream of evidence alone.
ClassifyRegime(bias, adx, bands, reaction) ==
  IF Streams(adx, bands, reaction) < 2 THEN "UNCERTAIN"
  ELSE Winner(Votes(bias, adx, bands, reaction))
=============================================================================
