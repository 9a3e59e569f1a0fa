----------------------------- MODULE MCLiveLoop ------------------------------
(***************************************************************************)
(* Instances of LiveLoop for TLC.  A day has eight time units: closed      *)
(* before 1, opening at 1, normal from 2, late session at 4, entry cutoff  *)
(* at 5, close at 7.                                                       *)
(***************************************************************************)
EXTENDS LiveLoop

CONSTANTS NIFTY, SENSEX

MCOne == <<NIFTY>>
MCTwo == <<NIFTY, SENSEX>>

MCWindow == [market_open |-> 1, opening_period |-> 1, late_session_start |-> 4,
             entry_cutoff |-> 5, market_close |-> 7]

\* A day of seven units: entry cutoff at 4, close at 6.
MCShortWindow == [market_open |-> 1, opening_period |-> 1, late_session_start |-> 3,
                  entry_cutoff |-> 4, market_close |-> 6]

Setup(u, d, f, l) == [underlying |-> u, direction |-> d, framework |-> f, level |-> l]

\* One tradable setup per underlying.
MCTwoSetups == {Setup(NIFTY, "CALL", "sweep", 1), Setup(SENSEX, "PUT", "sweep", 2)}

\* Two setups of one underlying, on both sides of the price.
MCOneSetups == {Setup(NIFTY, "CALL", "sweep", 1), Setup(NIFTY, "PUT", "trend", 3)}

MCNone == {}
MCForming == {Setup(NIFTY, "CALL", "sweep", 0)}
=============================================================================
