----------------------------- MODULE SessionDay ------------------------------
(***************************************************************************)
(* One trading day going by under an arbitrary configured window.  The     *)
(* window is fixed by Settings when the process starts; the only thing     *)
(* that moves is the wall clock the loop reads at each tick, by steps of   *)
(* any length.                                                             *)
(***************************************************************************)
EXTENDS SessionWindow

CONSTANT Windows        \* the configurations under study

ASSUME WindowsAssumption == \A w \in Windows : IsWindow(w)

VARIABLES
  window,               \* Settings.session_window()
  tod                   \* IST time of day of the latest tick

vars == <<window, tod>>

Init ==
  /\ window \in Windows
  /\ tod = 0

\* Slip: the time of day runs on past midnight.
TickUnwrapped ==
  \E d \in 1 .. DayLength :
    /\ tod < DayLength
    /\ tod' = tod + d
    /\ UNCHANGED window

\* The next tick reads a later time of the same day.
Tick ==
  \E t \in TimeOfDay :
    /\ t > tod
    /\ tod' = t
    /\ UNCHANGED window

Spec == Init /\ [][Tick]_vars

-----------------------------------------------------------------------------
Phase == PhaseAt(window, tod)

Rank(phase) ==
  IF phase = "PRE_MARKET" THEN 0
  ELSE IF phase = "OPENING" THEN 1
  ELSE IF phase = "NORMAL" THEN 2
  ELSE IF phase = "LATE_SESSION" THEN 3
  ELSE IF phase = "POST_ENTRY_CUTOFF" THEN 4
  ELSE 5

(***************************************************************************)
(* Type invariant of the day.                                              *)
(***************************************************************************)
TypeOK ==
  /\ IsWindow(window)
  /\ tod \in TimeOfDay
  /\ Phase \in SessionPhases

(***************************************************************************)
(* phase_at walks through the day in one direction whatever the            *)
(* configuration is: also for windows whose boundaries are out of order,   *)
(* or whose opening period wraps past midnight, a later tick of the day    *)
(* never finds an earlier phase.                                           *)
(***************************************************************************)
PhasesOnlyAdvance == [][Rank(Phase') >= Rank(Phase)]_vars

(***************************************************************************)
(* The entry window is one interval of the day: after it has been seen     *)
(* shut past the open, is_new_entry_allowed never answers yes again that   *)
(* day.  The live loop relies on it when it clears its trades once.        *)
(***************************************************************************)
EntryShutForTheDay ==
  [][(Phase \in {"POST_ENTRY_CUTOFF", "CLOSED"})
       => ~IsNewEntryAllowed(window', tod')]_vars

(***************************************************************************)
(* is_new_entry_allowed answers no from entry_cutoff on, provided the      *)
(* opening period ends no later than the cutoff (as the defaults do).      *)
(***************************************************************************)
NoEntryPastCutoffIfOrdered ==
  OpeningEnd(window) <= window.entry_cutoff
    => (IsNewEntryAllowed(window, tod) => tod < window.entry_cutoff)
=============================================================================
