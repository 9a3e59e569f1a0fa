------------------------------ MODULE LiveLoop -------------------------------
(***************************************************************************)
(* The --live loop of run_engine.py.  One tick reads the clock once, runs  *)
(* a decision cycle for every underlying with that time stamp, expires     *)
(* monitored trades at the session cutoff, checks the others against the   *)
(* data just fetched, registers new TRADE_READY signals (which sends the   *)
(* Telegram alert), feeds the lifecycle tracker, reports, and sleeps.      *)
(*                                                                         *)
(* The process is single-threaded.  What interleaves with it is the wall   *)
(* clock, which moves while the loop fetches, posts and sleeps, the market *)
(* data a fetch happens to return, and crashes: the tracker and the        *)
(* monitored trades live in memory and systemd restarts the process.       *)
(***************************************************************************)
EXTENDS LifecycleOps, CycleOutcome, Sequences

CONSTANTS
  Underlyings,          \* sequence: the underlyings in the order of a tick
  Prices,               \* prices of an underlying
  NoPrice,              \* market_state has no "ltp"
  KeyGrain,             \* levels closer than this share a key: ":g" keeps
                        \* six significant digits
  Interval,             \* seconds slept between ticks
  MaxGap,               \* bound: seconds between two ticks' clock readings
  MaxCrashes,           \* bound: crashes of the process
  Horizon               \* bound: the clock stops there

Names == {Underlyings[i] : i \in 1 .. Len(Underlyings)}

Directions == {"CALL", "PUT"}

ASSUME LiveLoopAssumption ==
  /\ Underlyings \in Seq(Names) /\ Len(Underlyings) > 0
  /\ IsWindow(Window)
  /\ \A s \in Setups : /\ s.underlying \in Names
                       /\ s.direction \in Directions
                       /\ s.level \in Nat
  /\ \A s \in FormingSetups : s.underlying \in Names
  /\ Prices \subseteq Nat /\ NoPrice \notin Nat
  /\ NoTrade \notin Setups
  /\ KeyGrain \in Nat \ {0}
  /\ MaxTier \in Nat
  /\ Interval \in Nat \ {0}
  /\ MaxGap \in Nat /\ MaxGap > Interval
  /\ MaxCrashes \in Nat
  /\ Horizon \in Nat

VARIABLES
  now,                  \* the wall clock, in seconds since the first midnight
  as_of,                \* the clock reading of the current tick (its "now")
  pc,                   \* next stage of the tick
  idx,                  \* position in Underlyings of the stage's loop
  signal,               \* the tick's signal per underlying
  read,                 \* what the tick's data say of a monitored trade
  active,               \* active_trades: the monitored setup, or NoTrade
  tracked,              \* LifecycleTracker._tracked
  changed,              \* something was resolved in this tick
  report,               \* the last tick's output: "none", "status" or "full"
  wakeAt,               \* time at which the sleep ends
  crashes,
  \* Auxiliary, read by properties only.
  lastAlert             \* latest alert per key in this process life

loopVars == <<as_of, pc, idx, signal, read, changed, report, wakeAt>>
vars == <<now, loopVars, active, tracked, crashes, lastAlert>>

-----------------------------------------------------------------------------
(***************************************************************************)
(* Setup identities (_lifecycle_key).  A TRADE_READY key carries the       *)
(* invalidation level as printed by ":g", a developing setup's key has no  *)
(* level, and an underlying without any setup has a key of its own.        *)
(***************************************************************************)
KeyLevel(level) == (level + KeyGrain \div 2) \div KeyGrain

ReadyKey(s) == [underlying |-> s.underlying, direction |-> s.direction,
                framework |-> s.framework, level |-> KeyLevel(s.level)]

FormingKey(s) == [underlying |-> s.underlying, direction |-> s.direction,
                  framework |-> s.framework, level |-> -1]

NoneKey(u) == [underlying |-> u, direction |-> "NONE",
               framework |-> "NONE", level |-> -1]

TradeKeys == {ReadyKey(s) : s \in Setups}

Keys == TradeKeys \cup {FormingKey(s) : s \in FormingSetups}
                  \cup {NoneKey(u) : u \in Names}

LifecycleKey(u) ==
  IF signal[u].state = "TRADE_READY" THEN ReadyKey(signal[u].setup)
  ELSE IF signal[u].setup # NoTrade  THEN FormingKey(signal[u].setup)
  ELSE NoneKey(u)

\* What run_cycle answers for an underlying in this tick.
SignalsOf(u) == OutcomesAt(u, as_of)

Phase(t) == PhaseAt(Window, t % DayLength)

(***************************************************************************)
(* What the tick's data say of the trade monitored for the underlying: the *)
(* ltp in the signal's market_state and where the contract's premium lies  *)
(* between stop loss and take profit (_current_premium; "none" if the leg  *)
(* is not in the bundle).  Where nothing is monitored nothing is read.     *)
(* A cycle that names a setup has a price, and engineer_trade refuses a    *)
(* level the price sits on.                                                *)
(***************************************************************************)
Premiums == {"none", "stop", "between", "target"}

Reads == [ltp : Prices \cup {NoPrice}, premium : Premiums]

Unread == [ltp |-> NoPrice, premium |-> "none"]

ReadsOf(u, s) ==
  IF active[u] = NoTrade \/ s = NoSignal THEN {Unread}
  ELSE {r \in Reads :
          /\ s.setup # NoTrade => r.ltp # NoPrice
          /\ s.state = "TRADE_READY" => r.ltp # s.setup.level}

-----------------------------------------------------------------------------
Init ==
  /\ now = 0
  /\ as_of = 0
  /\ pc = "sleep"
  /\ idx = 1
  /\ signal = [u \in Names |-> NoSignal]
  /\ read = [u \in Names |-> Unread]
  /\ active = [u \in Names |-> NoTrade]
  /\ tracked = [k \in Keys |-> Untracked]
  /\ changed = FALSE
  /\ report = "none"
  /\ wakeAt = 0
  /\ crashes = 0
  /\ lastAlert = [k \in TradeKeys |-> [at |-> -1, setup |-> NoTrade]]

\* Slip: the stage's loop runs one past the last underlying.
NextUnderlyingOffByOne(next) ==
  IF idx <= Len(Underlyings)
  THEN idx' = idx + 1 /\ UNCHANGED pc
  ELSE idx' = 1 /\ pc' = next

\* The stage's loop goes on with the next underlying or the next stage begins.
NextUnderlying(next) ==
  IF idx < Len(Underlyings)
  THEN idx' = idx + 1 /\ UNCHANGED pc
  ELSE idx' = 1 /\ pc' = next

StartTick ==
  /\ pc = "sleep"
  /\ now >= wakeAt
  /\ as_of' = now
  /\ pc' = "cycle"
  /\ UNCHANGED <<now, idx, signal, read, active, tracked, changed, report,
                 wakeAt, crashes, lastAlert>>

(***************************************************************************)
(* run_cycle for one underlying, with the tick's own time stamp however    *)
(* long the fetches before it took.                                        *)
(***************************************************************************)
RunCycle ==
  /\ pc = "cycle"
  /\ LET u == Underlyings[idx] IN
       \E s \in SignalsOf(u) : \E r \in ReadsOf(u, s) :
         /\ signal' = [signal EXCEPT ![u] = s]
         /\ read' = [read EXCEPT ![u] = r]
  /\ NextUnderlying("exit")
  /\ UNCHANGED <<now, as_of, active, tracked, changed, report, wakeAt,
                 crashes, lastAlert>>

\* Slip: only one of the trades that are dropped together is recorded.
CloseTradesRecordingOne(outcome) ==
  LET closed == DOMAIN outcome
      first == CHOOSE u \in closed : TRUE
  IN /\ tracked' = [k \in Keys |->
                      IF closed # {} /\ k = ReadyKey(active[first])
                      THEN outcome[first] ELSE tracked[k]]
     /\ active' = [u \in Names |-> IF u \in closed THEN NoTrade ELSE active[u]]
     /\ changed' = (changed \/ closed # {})

(***************************************************************************)
(* Close the trades of the underlyings in the domain of outcome, which     *)
(* gives the tracker's new entry for each.  The key of an underlying's     *)
(* trade is a key of that underlying.                                      *)
(***************************************************************************)
CloseTrades(outcome) ==
  LET closed == DOMAIN outcome
  IN /\ tracked' = [k \in Keys |->
                      IF k \in {ReadyKey(active[u]) : u \in closed}
                      THEN outcome[k.underlying] ELSE tracked[k]]
     /\ active' = [u \in Names |-> IF u \in closed THEN NoTrade ELSE active[u]]
     /\ changed' = (changed \/ closed # {})

Monitored == {u \in Names : active[u] # NoTrade}

\* Slip: the exit is a moment instead of a phase.
SessionExitAtCutoff == as_of % DayLength = Window.entry_cutoff

(***************************************************************************)
(* _force_session_exit: in the phase between cutoff and close, and in no   *)
(* other, every monitored trade expires.                                   *)
(***************************************************************************)
SessionExitDue == Phase(as_of) = "POST_ENTRY_CUTOFF"

ExpireOutcome(u) == ForceExpire(tracked[ReadyKey(active[u])], as_of)

ForceSessionExit ==
  /\ pc = "exit"
  /\ IF SessionExitDue
     THEN CloseTrades([u \in Monitored |-> ExpireOutcome(u)])
     ELSE UNCHANGED <<tracked, active, changed>>
  /\ pc' = "check"
  /\ UNCHANGED <<now, as_of, idx, signal, read, report, wakeAt, crashes,
                 lastAlert>>

(***************************************************************************)
(* _check_active_trades: the structural stop, then the premium's stop,     *)
(* then its target; no verdict without a signal.                           *)
(***************************************************************************)
StructuralHit(u) ==
  /\ read[u].ltp # NoPrice
  /\ IF active[u].direction = "CALL" THEN read[u].ltp <= active[u].level
                                     ELSE read[u].ltp >= active[u].level

Invalidated(u) ==
  /\ active[u] # NoTrade
  /\ signal[u] # NoSignal
  /\ StructuralHit(u) \/ read[u].premium = "stop"

Targeted(u) ==
  /\ active[u] # NoTrade
  /\ signal[u] # NoSignal
  /\ ~Invalidated(u)
  /\ read[u].premium = "target"

Resolved == {u \in Names : Invalidated(u) \/ Targeted(u)}

\* Slip: a target hit is handed to the tracker without its flag.
VerdictOutcomeUntargeted(u) ==
  Update(tracked[ReadyKey(active[u])], 0, as_of,
         IF Invalidated(u) THEN "invalidated" ELSE "none")

VerdictOutcome(u) ==
  Update(tracked[ReadyKey(active[u])], 0, as_of,
         IF Invalidated(u) THEN "invalidated" ELSE "targeted")

CheckActiveTrades ==
  /\ pc = "check"
  /\ CloseTrades([u \in Resolved |-> VerdictOutcome(u)])
  /\ read' = [u \in Names |-> Unread]
  /\ pc' = "register"
  /\ UNCHANGED <<now, as_of, idx, signal, report, wakeAt, crashes, lastAlert>>

(***************************************************************************)
(* _register_new_active_trades for one underlying: start monitoring a      *)
(* TRADE_READY setup that is not cooling down and send its alert, or leave *)
(* the underlying as it is.  Whether Telegram takes the message changes    *)
(* nothing here.                                                           *)
(***************************************************************************)
\* Slip, the loop's original behaviour: no look at the tracker.
RegistrableUnguarded(u) ==
  /\ active[u] = NoTrade
  /\ signal[u].state = "TRADE_READY"

\* Slip: a newer signal replaces the monitored trade.
RegistrableReplacing(u) ==
  /\ signal[u].state = "TRADE_READY"
  /\ ~IsCoolingDown(tracked[ReadyKey(signal[u].setup)], as_of)

Registrable(u) ==
  /\ active[u] = NoTrade
  /\ signal[u].state = "TRADE_READY"
  /\ ~IsCoolingDown(tracked[ReadyKey(signal[u].setup)], as_of)

Register ==
  /\ pc = "register"
  /\ LET u == Underlyings[idx] IN
       /\ Registrable(u)
       /\ active' = [active EXCEPT ![u] = signal[u].setup]
       /\ lastAlert' = [lastAlert EXCEPT ![ReadyKey(signal[u].setup)] =
                          [at |-> as_of, setup |-> signal[u].setup]]
  /\ NextUnderlying("track")
  /\ UNCHANGED <<now, as_of, signal, read, tracked, changed, report, wakeAt,
                 crashes>>

SkipRegistration ==
  /\ pc = "register"
  /\ ~Registrable(Underlyings[idx])
  /\ NextUnderlying("track")
  /\ UNCHANGED <<now, as_of, signal, read, active, tracked, changed, report,
                 wakeAt, crashes, lastAlert>>

(***************************************************************************)
(* The rest of the tick: feed every signal to the tracker, print the full  *)
(* report if anything was resolved or any setup is not a repeat (asked     *)
(* after the update), go to sleep.                                         *)
(***************************************************************************)
Signalled == {u \in Names : signal[u] # NoSignal}

TrackAndReport ==
  /\ pc = "track"
  /\ tracked' = [k \in Keys |->
                   IF k \in {LifecycleKey(u) : u \in Signalled}
                   THEN Update(tracked[k], signal[k.underlying].tier, as_of, "none")
                   ELSE tracked[k]]
  /\ report' = IF changed \/ \E u \in Signalled :
                               ~IsRepeat(tracked'[LifecycleKey(u)], signal[u].tier)
               THEN "full" ELSE "status"
  /\ changed' = FALSE
  /\ signal' = [u \in Names |-> NoSignal]
  /\ wakeAt' = now + Interval
  /\ pc' = "sleep"
  /\ UNCHANGED <<now, as_of, idx, read, active, crashes, lastAlert>>

LoopStep ==
  \/ StartTick
  \/ RunCycle
  \/ ForceSessionExit
  \/ CheckActiveTrades
  \/ Register
  \/ SkipRegistration
  \/ TrackAndReport

(***************************************************************************)
(* The wall clock.  MaxGap bounds the time from one tick's clock reading   *)
(* to the next: the loop's own work takes at most MaxGap - Interval, and   *)
(* the sleep may overrun up to MaxGap.                                     *)
(***************************************************************************)
ClockAdvances ==
  /\ now < Horizon
  /\ pc \in {"cycle", "register"} => now - as_of < MaxGap - Interval
  /\ pc = "sleep" => now - as_of < MaxGap
  /\ pc \in {"cycle", "register", "sleep", "down"}
  /\ now' = now + 1
  /\ UNCHANGED <<loopVars, active, tracked, crashes, lastAlert>>

ClockStopped == now = Horizon /\ UNCHANGED vars

(***************************************************************************)
(* The process dies: an exception out of the loop, a deployment, Ctrl+C.   *)
(* Everything the loop knows is gone.                                      *)
(***************************************************************************)
Crash ==
  /\ pc # "down"
  /\ crashes < MaxCrashes
  /\ pc' = "down"
  /\ crashes' = crashes + 1
  /\ idx' = 1
  /\ signal' = [u \in Names |-> NoSignal]
  /\ read' = [u \in Names |-> Unread]
  /\ active' = [u \in Names |-> NoTrade]
  /\ tracked' = [k \in Keys |-> Untracked]
  /\ changed' = FALSE
  /\ report' = "none"
  /\ lastAlert' = [k \in TradeKeys |-> [at |-> -1, setup |-> NoTrade]]
  /\ UNCHANGED <<now, as_of, wakeAt>>

\* systemd starts it again (Restart=always); the first tick is immediate.
Restart ==
  /\ pc = "down"
  /\ pc' = "sleep"
  /\ as_of' = now
  /\ wakeAt' = now
  /\ UNCHANGED <<now, idx, signal, read, active, tracked, changed, report,
                 crashes, lastAlert>>

Next ==
  \/ LoopStep
  \/ ClockAdvances
  \/ ClockStopped
  \/ Crash
  \/ Restart

(***************************************************************************)
(* `while True`, bounded request timeouts and a finite sleep: the loop     *)
(* keeps taking its steps, time goes on, and systemd restarts the process. *)
(* Nothing makes it crash.                                                 *)
(***************************************************************************)
Fairness ==
  /\ WF_vars(LoopStep)
  /\ WF_vars(ClockAdvances)
  /\ WF_vars(Restart)

Spec == Init /\ [][Next]_vars

FairSpec == Spec /\ Fairness

-----------------------------------------------------------------------------
(***************************************************************************)
(* Type invariant of the loop.                                             *)
(***************************************************************************)
TypeOK ==
  /\ now \in 0 .. Horizon
  /\ as_of \in 0 .. now
  /\ pc \in {"sleep", "cycle", "exit", "check", "register", "track", "down"}
  /\ idx \in 1 .. Len(Underlyings)
  /\ signal \in [Names -> Signals]
  /\ read \in [Names -> Reads]
  /\ active \in [Names -> Setups \cup {NoTrade}]
  /\ tracked \in [Keys -> Entries(Tiers, 0 .. now)]
  /\ changed \in BOOLEAN
  /\ report \in {"none", "status", "full"}
  /\ wakeAt \in 0 .. Horizon + Interval
  /\ crashes \in 0 .. MaxCrashes
  /\ lastAlert \in [TradeKeys -> [at : -1 .. now, setup : Setups \cup {NoTrade}]]

(***************************************************************************)
(* A tick that falls between cutoff and close ends with nothing monitored: *)
(* what the session exit closed is not opened again by the same tick, nor  *)
(* by any later tick of that phase.                                        *)
(***************************************************************************)
SessionExitHolds ==
  (Phase(as_of) = "POST_ENTRY_CUTOFF" /\ pc \in {"check", "register", "track", "sleep"})
    => Monitored = {}

(***************************************************************************)
(* No trade is monitored outside the session: neither after the close nor  *)
(* before the next open (docs/PHASES.md: "at/after the 15:00 IST entry     *)
(* cutoff").  It depends on a tick falling between cutoff and close: on    *)
(* MaxGap being no longer than that phase of the window.                   *)
(***************************************************************************)
NothingHeldOutsideSession ==
  (~IsWithinSession(Window, as_of % DayLength) /\ pc = "sleep") => Monitored = {}

(***************************************************************************)
(* Between registration and resolution the tracker agrees that the setup   *)
(* is live: whenever a trade is checked, expired or slept on, its key is   *)
(* tracked and not terminal.  Otherwise force_expire would be a no-op and  *)
(* the cooldown of the setup would never start.                            *)
(***************************************************************************)
MonitoredKeyIsOpen ==
  \A u \in Monitored :
    LET e == tracked[ReadyKey(active[u])] IN
      IF pc \in {"register", "track"}
      THEN ~IsCoolingDown(e, as_of)
      ELSE e # Untracked /\ ~Terminal(e)

(***************************************************************************)
(* A trade stops being monitored only by a verdict the tracker holds: in   *)
(* the step that drops it, its key becomes terminal with this tick's time, *)
(* so that the cooldown runs from the closing.  The verdict is EXPIRED for *)
(* all that is closed by a tick of the phase after the cutoff, whatever    *)
(* else that tick saw, and for nothing closed earlier (docs/PHASES.md:     *)
(* 160-163, run_engine.py:352-353).                                        *)
(***************************************************************************)
ClosureIsRecorded ==
  [][\A u \in Names :
       (u \in Monitored /\ active'[u] = NoTrade /\ pc' # "down")
         => LET e == tracked'[ReadyKey(active[u])]
            IN /\ Terminal(e) /\ e.last_seen = as_of
               /\ e.state = "EXPIRED" <=> Phase(as_of) = "POST_ENTRY_CUTOFF"]_vars

(***************************************************************************)
(* Two alerts for the same setup identity in one process life are at least *)
(* a cooldown apart, and never of one tick: the second one needs the first *)
(* trade resolved and the cooldown run out since.                          *)
(***************************************************************************)
AlertsAreSpaced ==
  [][\A k \in TradeKeys :
       (lastAlert'[k] # lastAlert[k] /\ lastAlert[k].at # -1 /\ pc' # "down")
         => as_of - lastAlert[k].at >= Cooldown /\ as_of > lastAlert[k].at]_vars

(***************************************************************************)
(* Every monitored trade is eventually let go: by a verdict, by the        *)
(* session exit of the same day, or with the process that knew of it.      *)
(***************************************************************************)
EveryTradeConcludes ==
  \A u \in Names : u \in Monitored ~> u \notin Monitored

(***************************************************************************)
(* The loop implements TradeSlots: a slot shows the key of the monitored   *)
(* trade, and the tracker's terminal entries are the remembered closings.  *)
(***************************************************************************)
NoKey == NoneKey("")

Abstract == INSTANCE TradeSlots WITH
  Slots    <- Names,
  Keys     <- TradeKeys,
  clock    <- as_of,
  slot     <- [u \in Names |-> IF active[u] = NoTrade THEN NoKey
                                ELSE ReadyKey(active[u])],
  closedAt <- [k \in TradeKeys |-> IF Terminal(tracked[k])
                                   THEN tracked[k].last_seen ELSE -1]

SlotSpec == Abstract!Spec

-----------------------------------------------------------------------------
(***************************************************************************)
(* A statement of a docstring that the code does not keep; its run         *)
(* exhibits it.                                                            *)
(***************************************************************************)

(***************************************************************************)
(* is_repeat: "True if this (key, tier) was already reported in an         *)
(* already-confirmed/active state".  When the loop takes a signal for a    *)
(* repeat, the setup was at this tier and past its trigger before the      *)
(* tick.                                                                   *)
(***************************************************************************)
RepeatWasSeenBefore ==
  [][(pc = "track" /\ pc' = "sleep") =>
       \A u \in Signalled :
         LET k == LifecycleKey(u) IN
           IsRepeat(tracked'[k], signal[u].tier) => IsRepeat(tracked[k], signal[u].tier)]_vars
=============================================================================
