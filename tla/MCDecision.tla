------------------------------ MODULE MCDecision -----------------------------
(***************************************************************************)
(* Prices around 100.  Risks of 4 and 8 against half a range of 5, 6 or 11 *)
(* give reward:risk ratios on every side of 1.2, 1.38, 1.5, 2 and 2.5.     *)
(***************************************************************************)
EXTENDS DecisionOutcome

Zone(kind, level, reaction) == [kind |-> kind, level |-> level, reaction |-> reaction]

MCInvalidations == {None, 96, 108}

MCHalfRanges == {None, 5, 6, 11}

\* Every reaction alone on both sides of the price and at it, and two zones
\* of which the nearer is no major level.
MCZones ==
  {<< >>} \cup
  {<<Zone("SESSION_HIGH", level, reaction)>> :
     level \in {96, 100, 104}, reaction \in ReactionKinds} \cup
  {<<Zone("PDL", 95, "REJECTION"), Zone("EQUAL_HIGH", 104, reaction)>> :
     reaction \in {"REJECTION", "SWEEP"}}

Impulse(size, acceleration, volume, follow) ==
  [size |-> size, acceleration |-> acceleration, atr |-> None, volume |-> volume,
   efficiency |-> "clean", follow_through |-> follow]

\* Strong both ways, slowing down, on weak volume, and flat.
MCImpulses ==
  {None, Impulse(1, 1, "expanded", "yes"), Impulse(-1, -1, "expanded", "yes"),
   Impulse(1, -1, "expanded", "yes"), Impulse(1, 1, "weak", "yes"),
   Impulse(0, 0, "expanded", None)}

Leg(premium, oi, spread, qty, delta, expiry) ==
  [strike |-> 100, named |-> TRUE, ltp |-> premium, oi |-> oi, spread |-> spread,
   qty |-> qty, delta |-> delta, expiry |-> expiry]

Good == Leg(20, 900, 5, 400, 50, 2)

\* A sound contract; one of each way to fail later; choices between two; and
\* a leg without a security_id that would win.
MCChains ==
  {<< >>, <<Good>>, <<Leg(20, 900, 20, None, 50, 2)>>, <<Leg(20, 900, 40, 400, 50, 2)>>,
   <<Leg(20, 900, -5, 400, 50, 2)>>, <<Leg(20, 900, 0, 400, 50, 2)>>,
   <<Leg(2, 900, 5, 400, 50, 2)>>,
   <<Leg(20, 900, 5, 400, None, 2)>>, <<Leg(20, 900, 5, 400, 50, None)>>,
   <<Leg(20, 900, 5, 400, 50, -1)>>, <<[Good EXCEPT !.strike = 0]>>,
   <<Leg(20, 600, 30, 400, 50, 2), Good>>, <<Leg(20, 900, 30, 400, 50, 2), Good>>,
   <<Leg(20, 5000, 5, 400, 40, 2), Leg(20, 400, 5, 400, 50, 2), Good>>,
   <<[Good EXCEPT !.named = FALSE, !.oi = 5000], Leg(20, 900, 20, 400, 40, 2)>>}

Seen(price, futures, pcr, breadth, context) ==
  [price |-> price, futures |-> futures, pcr |-> pcr, breadth |-> breadth,
   context |-> context]

Oi(change) == [quoted |-> TRUE, oi_change |-> change]

\* All in favour of one side; one stream missing, neutral or against it.
MCObservations ==
  {Seen(1, Oi(1), "high", "high", "notes"), Seen(-1, Oi(1), "low", "low", "notes"),
   Seen(1, Oi(1), "low", "high", None), Seen(-1, Oi(1), "high", "high", "notes"),
   Seen(1, Oi(1), "high", "low", "notes"), Seen(-1, Oi(1), "low", "mid", "event"),
   Seen(None, [quoted |-> FALSE, oi_change |-> None], "high", "high", "notes"),
   Seen(1, None, None, "high", None), Seen(1, Oi(0), "high", None, "notes")}

\* Entries from 2 to 5 of a session from 1 to 7.
MCWindow == [market_open |-> 1, opening_period |-> 1, late_session_start |-> 4,
             entry_cutoff |-> 5, market_close |-> 7]
=============================================================================
