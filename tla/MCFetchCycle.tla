---------------------------- MODULE MCFetchCycle -----------------------------
(***************************************************************************)
(* Two underlyings in one tick.  Three endpoints stand for eleven, one of  *)
(* each kind: critical with usable content checked, critical without, and  *)
(* optional.                                                               *)
(***************************************************************************)
EXTENDS FetchCycle

MCEndpoints == <<"underlying", "depth", "india_vix">>

MCTolerance == [underlying |-> 1, depth |-> 0, india_vix |-> 1]

\* Open from the second unit of the day on; the first one is before the market.
MCWindow ==
  [market_open |-> 1, market_close |-> 3, entry_cutoff |-> 2,
   late_session_start |-> 2, opening_period |-> 0]
=============================================================================
