---------------------------- MODULE SessionWindow ----------------------------
(***************************************************************************)
(* The trading-day rules of config/session.py: which phase of the session  *)
(* an IST wall-clock time falls in, and whether a new entry may be made.   *)
(* A window is the frozen dataclass SessionWindow; times of day are        *)
(* minutes after midnight IST (or any coarser unit: only their order and   *)
(* the length of the day matter).                                          *)
(*                                                                         *)
(* A definition marked "Slip", here and in the other modules, is a         *)
(* plausible mistake in the definition that follows it.  No specification  *)
(* uses it: a mutation run puts it in that definition's place, to see      *)
(* which property would have noticed.                                      *)
(***************************************************************************)
EXTENDS Integers

CONSTANT DayLength      \* minutes in a day, 24 * 60 in the code

ASSUME DayLengthAssumption == DayLength \in Nat \ {0}

TimeOfDay == 0 .. DayLength - 1

(***************************************************************************)
(* Every window Settings accepts.  The fields are parsed one by one        *)
(* ("HH:MM", opening_period_minutes >= 0) and never compared: nothing says *)
(* that the market opens before it closes or that the cutoff lies between. *)
(***************************************************************************)
IsWindow(w) ==
  /\ w.market_open \in TimeOfDay
  /\ w.market_close \in TimeOfDay
  /\ w.entry_cutoff \in TimeOfDay
  /\ w.late_session_start \in TimeOfDay
  /\ w.opening_period \in Nat

SessionPhases == {"PRE_MARKET", "OPENING", "NORMAL", "LATE_SESSION",
                  "POST_ENTRY_CUTOFF", "CLOSED"}

AddMinutes(t, minutes) == (t + minutes) % DayLength

OpeningEnd(w) == AddMinutes(w.market_open, w.opening_period)

\* Slip: the late session is tested before the entry cutoff.
PhaseAtLateFirst(w, t) ==
  IF t < w.market_open              THEN "PRE_MARKET"
  ELSE IF t >= w.market_close       THEN "CLOSED"
  ELSE IF t < OpeningEnd(w)         THEN "OPENING"
  ELSE IF t >= w.late_session_start THEN "LATE_SESSION"
  ELSE IF t >= w.entry_cutoff       THEN "POST_ENTRY_CUTOFF"
  ELSE "NORMAL"

\* Slip: the cutoff minute itself still lets an entry through.
PhaseAtLateCutoff(w, t) ==
  IF t < w.market_open              THEN "PRE_MARKET"
  ELSE IF t >= w.market_close       THEN "CLOSED"
  ELSE IF t < OpeningEnd(w)         THEN "OPENING"
  ELSE IF t > w.entry_cutoff        THEN "POST_ENTRY_CUTOFF"
  ELSE IF t >= w.late_session_start THEN "LATE_SESSION"
  ELSE "NORMAL"

(***************************************************************************)
(* phase_at: the first boundary that applies, in the order of the code.    *)
(* The opening period is tested before the entry cutoff.                   *)
(***************************************************************************)
PhaseAt(w, t) ==
  IF t < w.market_open              THEN "PRE_MARKET"
  ELSE IF t >= w.market_close       THEN "CLOSED"
  ELSE IF t < OpeningEnd(w)         THEN "OPENING"
  ELSE IF t >= w.entry_cutoff       THEN "POST_ENTRY_CUTOFF"
  ELSE IF t >= w.late_session_start THEN "LATE_SESSION"
  ELSE "NORMAL"

IsNewEntryAllowed(w, t) == PhaseAt(w, t) \in {"OPENING", "NORMAL", "LATE_SESSION"}

IsWithinSession(w, t) == PhaseAt(w, t) \notin {"PRE_MARKET", "CLOSED"}
=============================================================================
