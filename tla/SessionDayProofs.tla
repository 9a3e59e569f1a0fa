-------------------------- MODULE SessionDayProofs ---------------------------
(***************************************************************************)
(* What holds of every session window Settings accepts, its boundaries in  *)
(* order or not, and of every sequence of tick times of a day.             *)
(***************************************************************************)
EXTENDS SessionDay, TLAPS

(***************************************************************************)
(* The end of the opening period is a time of the day: _add_minutes wraps. *)
(***************************************************************************)
LEMMA OpeningEndIsATime ==
  ASSUME NEW w, IsWindow(w)
  PROVE  OpeningEnd(w) \in TimeOfDay
<1>1. w.market_open + w.opening_period \in Nat
  BY DEF IsWindow, TimeOfDay
<1>2. QED
  BY <1>1, DayLengthAssumption DEF OpeningEnd, AddMinutes, TimeOfDay

(***************************************************************************)
(* phase_at is monotone in the time of day, for any window.                *)
(***************************************************************************)
LEMMA PhaseIsMonotone ==
  ASSUME NEW w, IsWindow(w), NEW s \in TimeOfDay, NEW t \in TimeOfDay, s <= t
  PROVE  Rank(PhaseAt(w, s)) <= Rank(PhaseAt(w, t))
<1>1. /\ OpeningEnd(w) \in Int /\ w.market_open \in Int
      /\ w.market_close \in Int /\ w.entry_cutoff \in Int
      /\ w.late_session_start \in Int /\ s \in Int /\ t \in Int
  BY OpeningEndIsATime, DayLengthAssumption DEF IsWindow, TimeOfDay
<1>2. QED
  BY <1>1 DEF Rank, PhaseAt

(***************************************************************************)
(* The day's type invariant.                                               *)
(***************************************************************************)
THEOREM DayTypeCorrect == Spec => []TypeOK
<1>1. Init => TypeOK
  BY WindowsAssumption, DayLengthAssumption
  DEF Init, TypeOK, TimeOfDay, Phase, PhaseAt, SessionPhases
<1>2. TypeOK /\ [Tick]_vars => TypeOK'
  BY DEF TypeOK, Tick, vars, Phase, PhaseAt, SessionPhases
<1>3. QED
  BY <1>1, <1>2, PTL DEF Spec

(***************************************************************************)
(* A later tick of the day never finds an earlier phase.                   *)
(***************************************************************************)
THEOREM PhasesAdvance == Spec => PhasesOnlyAdvance
<1>1. TypeOK /\ TypeOK' /\ [Tick]_vars => [Rank(Phase') >= Rank(Phase)]_vars
  <2>1. SUFFICES ASSUME TypeOK, TypeOK', Tick
                 PROVE  Rank(Phase') >= Rank(Phase)
    OBVIOUS
  <2>2. tod \in TimeOfDay /\ tod' \in TimeOfDay /\ tod <= tod' /\ window' = window
    BY <2>1, DayLengthAssumption DEF TypeOK, Tick, TimeOfDay
  <2>3. Rank(PhaseAt(window, tod)) <= Rank(PhaseAt(window, tod'))
    BY <2>1, <2>2, PhaseIsMonotone DEF TypeOK
  <2>4. \A p : Rank(p) \in Int
    BY DEF Rank
  <2>5. QED
    BY <2>2, <2>3, <2>4 DEF Phase
<1>2. QED
  BY <1>1, DayTypeCorrect, PTL DEF Spec, PhasesOnlyAdvance

(***************************************************************************)
(* Once shut past the open, the entry window stays shut for the day.       *)
(***************************************************************************)
THEOREM EntryStaysShut == Spec => EntryShutForTheDay
<1>1. TypeOK /\ TypeOK' /\ [Rank(Phase') >= Rank(Phase)]_vars
        => [(Phase \in {"POST_ENTRY_CUTOFF", "CLOSED"})
              => ~IsNewEntryAllowed(window', tod')]_vars
  BY DEF Phase, Rank, IsNewEntryAllowed, TypeOK, SessionPhases
<1>2. QED
  BY <1>1, DayTypeCorrect, PhasesAdvance, PTL DEF PhasesOnlyAdvance, EntryShutForTheDay

(***************************************************************************)
(* No entry at or after the cutoff, if the opening period ends by then.    *)
(***************************************************************************)
THEOREM CutoffIsKept == Spec => []NoEntryPastCutoffIfOrdered
<1>1. TypeOK => NoEntryPastCutoffIfOrdered
  <2>1. SUFFICES ASSUME TypeOK, OpeningEnd(window) <= window.entry_cutoff,
                        tod >= window.entry_cutoff
                 PROVE  ~IsNewEntryAllowed(window, tod)
    BY DayLengthAssumption DEF NoEntryPastCutoffIfOrdered, TypeOK, IsWindow, TimeOfDay
  <2>2. OpeningEnd(window) \in Int /\ tod \in Int /\ window.entry_cutoff \in Int
    BY <2>1, OpeningEndIsATime, DayLengthAssumption DEF TypeOK, IsWindow, TimeOfDay
  <2>3. QED
    BY <2>1, <2>2 DEF IsNewEntryAllowed, PhaseAt
<1>2. QED
  BY <1>1, DayTypeCorrect, PTL
=============================================================================
