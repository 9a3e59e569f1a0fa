----------------------------- MODULE FetchCycle ------------------------------
(***************************************************************************)
(* The data side of one tick of run_engine.py --live: `now` is read once,  *)
(* then api/runtime.py's run_cycle is called for one underlying after the  *)
(* other with that time as the information boundary as_of.  Each call      *)
(* fetches the endpoints one by one through data/client.py, with retries,  *)
(* while the clock goes on and the upstream keeps publishing; builds and   *)
(* judges the snapshot (DataQuality); and walks the engine states of       *)
(* api/state_machine.py to a signal.                                       *)
(*                                                                         *)
(* replay/engine.py judges a captured bundle again, at the bundle's own    *)
(* requested_at instead of the tick's now: ReplayAccepts.                  *)
(*                                                                         *)
(* The clock moves only while the code waits: between ticks, for a         *)
(* response, and between two attempts.                                     *)
(***************************************************************************)
EXTENDS DataQuality, SessionWindow

CONSTANTS
  Underlyings,   \* how many underlyings one tick serves
  Attempts,      \* max_retries + 1
  Timeout,       \* longest time one attempt takes
  MaxBackoff,    \* longest wait between two attempts
  Window,        \* the session window
  Past, Skew,    \* a payload answered at t is stamped t - Past .. t + Skew
  Answers,       \* fates of a response the model lets the upstream give
  Horizon        \* no tick starts after this time

ASSUME CycleAssumption ==
  /\ Underlyings \in Nat \ {0}
  /\ Attempts \in Nat \ {0}
  /\ Timeout \in Nat
  /\ MaxBackoff \in Nat
  /\ IsWindow(Window)
  /\ Past \in Nat /\ Skew \in Nat
  /\ Answers \subseteq Fates \ {"lost", "rejected"}
  /\ Horizon \in Nat

VARIABLES
  clock,
  pc,            \* "idle", "enter", "request", "backoff", "assess", "decide", "done"
  asOf,          \* now of the tick
  left,          \* underlyings of the tick not served yet, the current one included
  requestedAt,   \* bundle.requested_at
  results,       \* bundle.results, as far as fetched
  attempt,       \* attempts made for the current endpoint
  began,         \* when the current request or wait began
  path,          \* engine states of the current cycle, in order
  signal         \* state of the cycle's signal, "none" before there is one

vars == <<clock, pc, asOf, left, requestedAt, results, attempt, began, path, signal>>

-----------------------------------------------------------------------------
(***************************************************************************)
(* api/state_machine.py.                                                   *)
(***************************************************************************)
EngineStates ==
  {"STARTUP", "DATA_LOADING", "DATA_VALIDATION", "WARMING_UP", "MARKET_ANALYSIS",
   "STRUCTURE_ANALYSIS", "AUTHORIZATION", "CONTRACT_SELECTION",
   "TRADE_ENGINEERING", "RISK_VALIDATION", "TRADE_READY", "NO_TRADE",
   "INVALIDATED", "SESSION_COMPLETE", "ERROR"}

TerminalStates == {"TRADE_READY", "NO_TRADE", "SESSION_COMPLETE", "ERROR"}

Transitions ==
  [s \in EngineStates |->
     IF s = "STARTUP" THEN {"DATA_LOADING", "ERROR"}
     ELSE IF s = "DATA_LOADING" THEN {"DATA_VALIDATION", "ERROR"}
     ELSE IF s = "DATA_VALIDATION"
          THEN {"SESSION_COMPLETE", "NO_TRADE", "WARMING_UP", "MARKET_ANALYSIS"}
     ELSE IF s = "WARMING_UP" THEN {"MARKET_ANALYSIS", "SESSION_COMPLETE"}
     ELSE IF s = "MARKET_ANALYSIS" THEN {"STRUCTURE_ANALYSIS", "NO_TRADE"}
     ELSE IF s = "STRUCTURE_ANALYSIS" THEN {"AUTHORIZATION"}
     ELSE IF s = "AUTHORIZATION" THEN {"CONTRACT_SELECTION", "NO_TRADE"}
     ELSE IF s = "CONTRACT_SELECTION" THEN {"TRADE_ENGINEERING", "NO_TRADE"}
     ELSE IF s = "TRADE_ENGINEERING" THEN {"RISK_VALIDATION", "NO_TRADE"}
     ELSE IF s = "RISK_VALIDATION" THEN {"TRADE_READY", "NO_TRADE"}
     ELSE {}]

AnalysisPath == <<"MARKET_ANALYSIS", "STRUCTURE_ANALYSIS", "AUTHORIZATION">>

ReadyPath == <<"CONTRACT_SELECTION", "TRADE_ENGINEERING", "RISK_VALIDATION",
               "TRADE_READY">>

-----------------------------------------------------------------------------
Init ==
  /\ clock = 0 /\ pc = "idle" /\ asOf = 0 /\ left = 0
  /\ requestedAt = 0 /\ results = << >> /\ attempt = 0 /\ began = 0
  /\ path = << >> /\ signal = "none"

(***************************************************************************)
(* The tick reads the time once and hands it to every cycle.               *)
(***************************************************************************)
StartTick ==
  /\ pc = "idle" /\ clock <= Horizon
  /\ asOf' = clock /\ left' = Underlyings /\ pc' = "enter"
  /\ UNCHANGED <<clock, requestedAt, results, attempt, began, path, signal>>

(***************************************************************************)
(* run_cycle up to the first request.  Outside the session it returns      *)
(* without fetching.                                                       *)
(***************************************************************************)
EnterCycle ==
  /\ pc = "enter"
  /\ IF IsWithinSession(Window, asOf % DayLength)
     THEN /\ path' = <<"STARTUP", "DATA_LOADING">>
          /\ requestedAt' = clock /\ attempt' = 1 /\ began' = clock
          /\ pc' = "request"
     ELSE /\ path' = <<"STARTUP", "DATA_LOADING", "DATA_VALIDATION",
                        "SESSION_COMPLETE">>
          /\ pc' = "done"
          /\ UNCHANGED <<requestedAt, attempt, began>>
  /\ UNCHANGED <<clock, asOf, left, results, signal>>

(***************************************************************************)
(* fetch_endpoint returns r: the next endpoint is asked at once, and after *)
(* the last one the bundle is complete.                                    *)
(***************************************************************************)
Fetched(r) ==
  /\ results' = Append(results, r)
  /\ began' = clock
  /\ IF Len(results) + 1 = Len(Endpoints)
     THEN pc' = "assess" /\ attempt' = 0
     ELSE pc' = "request" /\ attempt' = 1
  /\ UNCHANGED <<clock, asOf, left, requestedAt, path, signal>>

StampsAt(t) == {NoStamp} \cup ((t - Past) .. (t + Skew))

\* A response with a body; a body that does not parse carries no stamp.
Answer ==
  /\ pc = "request"
  /\ \E fate \in Answers, stamp \in StampsAt(clock) :
       /\ fate \notin Parsed => stamp = NoStamp
       /\ Fetched([fate |-> fate, stamp |-> stamp])

\* A client error status is not retried.
Reject ==
  /\ pc = "request"
  /\ Fetched([fate |-> "rejected", stamp |-> NoStamp])

\* Slip: max_retries is taken for the number of attempts after the second.
MayRetryOnceMore == attempt < Attempts + 1

\* stop_after_attempt(max_retries + 1)
MayRetry == attempt < Attempts

\* A server error, a timeout or a transport error with attempts left.
Retry ==
  /\ pc = "request" /\ MayRetry
  /\ pc' = "backoff" /\ began' = clock
  /\ UNCHANGED <<clock, asOf, left, requestedAt, results, attempt, path, signal>>

\* Slip: the attempts are not counted.
TryAgainUncounted ==
  /\ pc = "backoff"
  /\ pc' = "request" /\ began' = clock
  /\ UNCHANGED <<clock, asOf, left, requestedAt, results, attempt, path, signal>>

\* The wait between two attempts is over, however long it was.
TryAgain ==
  /\ pc = "backoff"
  /\ pc' = "request" /\ attempt' = attempt + 1 /\ began' = clock
  /\ UNCHANGED <<clock, asOf, left, requestedAt, results, path, signal>>

\* The last attempt failed as well: a status, or nothing at all.
GiveUp ==
  /\ pc = "request" /\ ~ MayRetry
  /\ \E fate \in {"lost", "rejected"} : Fetched([fate |-> fate, stamp |-> NoStamp])

\* Slip: the boundary is the time of the judgement instead of the tick's.
AssessLate ==
  /\ pc = "assess"
  /\ IF CriticalEndpointsOk(results, clock)
     THEN /\ path' = path \o <<"DATA_VALIDATION">> \o AnalysisPath
          /\ pc' = "decide" /\ UNCHANGED signal
     ELSE /\ path' = path \o <<"DATA_VALIDATION", "NO_TRADE">>
          /\ pc' = "done" /\ signal' = "NO_TRADE"
  /\ UNCHANGED <<clock, asOf, left, requestedAt, results, attempt, began>>

(***************************************************************************)
(* build_market_snapshot and the gate of run_cycle.  Without sound         *)
(* critical data decide() is called only to word the NO_TRADE.             *)
(***************************************************************************)
Assess ==
  /\ pc = "assess"
  /\ IF CriticalEndpointsOk(results, asOf)
     THEN /\ path' = path \o <<"DATA_VALIDATION">> \o AnalysisPath
          /\ pc' = "decide" /\ UNCHANGED signal
     ELSE /\ path' = path \o <<"DATA_VALIDATION", "NO_TRADE">>
          /\ pc' = "done" /\ signal' = "NO_TRADE"
  /\ UNCHANGED <<clock, asOf, left, requestedAt, results, attempt, began>>

\* Slip: the walk to a TRADE_READY starts one state too late.
DecideSkippingSelection ==
  /\ pc = "decide" /\ pc' = "done"
  /\ \/ signal' = "TRADE_READY" /\ path' = path \o Tail(ReadyPath)
     \/ signal' = "NO_TRADE" /\ path' = Append(path, "NO_TRADE")
  /\ UNCHANGED <<clock, asOf, left, requestedAt, results, attempt, began>>

(***************************************************************************)
(* decide() (module Decision) yields one of the two signals, if any.       *)
(***************************************************************************)
Decide ==
  /\ pc = "decide" /\ pc' = "done"
  /\ \/ signal' = "TRADE_READY" /\ path' = path \o ReadyPath
     \/ signal' = "NO_TRADE" /\ path' = Append(path, "NO_TRADE")
  /\ UNCHANGED <<clock, asOf, left, requestedAt, results, attempt, began>>

(***************************************************************************)
(* build_market_snapshot or decide() raises.  Nothing in run_cycle or in   *)
(* the loop catches it: the rest of the tick is lost with the process, and *)
(* the next tick is the first one after the restart.                       *)
(***************************************************************************)
Raise ==
  /\ pc \in {"assess", "decide"}
  /\ pc' = "idle" /\ left' = 0
  /\ requestedAt' = 0 /\ results' = << >> /\ attempt' = 0 /\ began' = 0
  /\ path' = << >> /\ signal' = "none"
  /\ UNCHANGED <<clock, asOf>>

\* Slip: the tick ends one underlying too late.
NextCycleOneMore ==
  /\ pc = "done"
  /\ left' = left - 1
  /\ pc' = IF left = 0 THEN "idle" ELSE "enter"
  /\ requestedAt' = 0 /\ results' = << >> /\ attempt' = 0 /\ began' = 0
  /\ path' = << >> /\ signal' = "none"
  /\ UNCHANGED <<clock, asOf>>

(***************************************************************************)
(* run_cycle returns; the tick goes on with the next underlying or ends.   *)
(***************************************************************************)
NextCycle ==
  /\ pc = "done"
  /\ left' = left - 1
  /\ pc' = IF left = 1 THEN "idle" ELSE "enter"
  /\ requestedAt' = 0 /\ results' = << >> /\ attempt' = 0 /\ began' = 0
  /\ path' = << >> /\ signal' = "none"
  /\ UNCHANGED <<clock, asOf>>

\* A request ends within Timeout, a wait within MaxBackoff.
ClockAdvances ==
  /\ \/ pc = "idle" /\ clock < Horizon
     \/ pc = "request" /\ clock < began + Timeout
     \/ pc = "backoff" /\ clock < began + MaxBackoff
  /\ clock' = clock + 1
  /\ UNCHANGED <<pc, asOf, left, requestedAt, results, attempt, began, path, signal>>

Steps ==
  \/ EnterCycle \/ Answer \/ Reject \/ Retry \/ TryAgain \/ GiveUp
  \/ Assess \/ Decide \/ Raise \/ NextCycle

\* The model serves no tick past Horizon.
Finished == pc = "idle" /\ clock > Horizon /\ UNCHANGED vars

Next == StartTick \/ Steps \/ ClockAdvances \/ Finished

Spec == Init /\ [][Next]_vars

\* A blocking call ends in the end, one way or another.
FairSpec == Spec /\ WF_vars(Steps)

-----------------------------------------------------------------------------
(***************************************************************************)
(* replay(): the same bundle judged at the time it was asked for.          *)
(***************************************************************************)
LiveAccepts == CriticalEndpointsOk(results, asOf)

ReplayAccepts == CriticalEndpointsOk(results, requestedAt)

(***************************************************************************)
(* Types of the variables; a bundle is never longer than the registry and  *)
(* no request is made more often than allowed.                             *)
(***************************************************************************)
TypeOK ==
  /\ clock \in Nat /\ asOf \in Nat /\ requestedAt \in Nat /\ began \in Nat
  /\ pc \in {"idle", "enter", "request", "backoff", "assess", "decide", "done"}
  /\ left \in 0 .. Underlyings
  /\ results \in Seq(Results) /\ Len(results) <= Len(Endpoints)
  /\ attempt \in 0 .. Attempts
  /\ path \in Seq(EngineStates)
  /\ signal \in {"none", "NO_TRADE", "TRADE_READY"}

PerEndpoint == Attempts * Timeout + (Attempts - 1) * MaxBackoff

PerBundle == Len(Endpoints) * PerEndpoint

TickBound == Underlyings * PerBundle

(***************************************************************************)
(* However the upstream fails, the tick's work is over a known time after  *)
(* its `now`: every attempt of every endpoint of every underlying timing   *)
(* out, and the waits between them.  This is the MaxGap that LiveLoop      *)
(* takes as a constant (client.py:81-86, run_engine.py:349-350).           *)
(***************************************************************************)
TickIsBounded == pc # "idle" => clock - asOf <= TickBound

\* What run_cycle calls sound data, in terms of what was fetched.
SoundAt(i, slack) ==
  /\ results[i].fate \in {"hollow", "whole"}
  /\ Endpoints[i] \in Extracted => results[i].fate = "whole"
  /\ results[i].stamp # NoStamp =>
       /\ results[i].stamp <= asOf
       /\ clock - results[i].stamp <= Tolerance[Endpoints[i]] + slack

(***************************************************************************)
(* Where a TRADE_READY comes from: a complete bundle whose critical        *)
(* payloads were all usable, observed no later than the tick's `now`       *)
(* although fetched after it, and no older when the signal is there than   *)
(* their tolerance and the longest tick together.  The age the code checks *)
(* is the one at `now`; the last clause is the age that counts             *)
(* (validation.py:248-279, 318-325, runtime.py:96-109).                    *)
(***************************************************************************)
ReadyRestsOnSoundData ==
  signal = "TRADE_READY" =>
    /\ Len(results) = Len(Endpoints)
    /\ \A i \in CriticalIn(results) : SoundAt(i, TickBound)

(***************************************************************************)
(* A captured bundle is judged at its requested_at in a replay and at the  *)
(* earlier `now` of its tick live.  The two verdicts differ only through a *)
(* critical payload observed between the two times, which replay accepts   *)
(* and live does not, or through one whose tolerance ends between them     *)
(* (replay/engine.py:38, runtime.py:96).                                   *)
(***************************************************************************)
ReplayDiffersOnlyInTheGap ==
  pc \in {"decide", "done"} /\ results # << >> =>
    /\ ReplayAccepts /\ ~ LiveAccepts =>
         \E i \in CriticalIn(results) :
           /\ results[i].stamp # NoStamp
           /\ asOf < results[i].stamp /\ results[i].stamp <= requestedAt
    /\ LiveAccepts /\ ~ ReplayAccepts =>
         \E i \in CriticalIn(results) :
           /\ results[i].stamp # NoStamp
           /\ Age(results[i], asOf) \in 0 .. Tolerance[Endpoints[i]]
           /\ Age(results[i], requestedAt) > Tolerance[Endpoints[i]]

(***************************************************************************)
(* Every step of a cycle is an edge of TRANSITIONS (assert_valid_transition *)
(* never raises), a finished cycle is in a terminal state that tells what  *)
(* its signal tells, it has a signal exactly when the tick's time is in    *)
(* the session, and no analysis state is entered for a bundle the gate     *)
(* refuses (runtime.py:71-137, state_machine.py:45-73).                    *)
(***************************************************************************)
PathIsDocumented ==
  /\ \A k \in 1 .. Len(path) - 1 : path[k + 1] \in Transitions[path[k]]
  /\ pc = "done" =>
       /\ path[Len(path)] \in TerminalStates
       /\ (path[Len(path)] = "SESSION_COMPLETE") <=> (signal = "none")
       /\ signal # "none" => path[Len(path)] = signal
       /\ (signal = "none") <=> ~ IsWithinSession(Window, asOf % DayLength)
  /\ "MARKET_ANALYSIS" \in {path[k] : k \in DOMAIN path} => LiveAccepts

(***************************************************************************)
(* A snapshot is "built from a RawFetchBundle that was itself fetched at   *)
(* or before as_of" (domain/snapshot.py:176-178).                          *)
(***************************************************************************)
FetchedByAsOf == results # << >> => requestedAt <= asOf

(***************************************************************************)
(* A tick always gets to its end, whatever the upstream does.              *)
(***************************************************************************)
EveryTickEnds == (pc # "idle") ~> (pc = "idle")
=============================================================================
