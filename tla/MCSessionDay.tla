---------------------------- MODULE MCSessionDay -----------------------------
(***************************************************************************)
(* Every window of a six-unit day, ordered or not, with opening periods up *)
(* to one that wraps past midnight.                                        *)
(***************************************************************************)
EXTENDS SessionDay

MCWindows ==
  [market_open : TimeOfDay, market_close : TimeOfDay, entry_cutoff : TimeOfDay,
   late_session_start : TimeOfDay, opening_period : 0 .. DayLength + 1]
=============================================================================
