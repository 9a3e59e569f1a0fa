--------------------------- MODULE LiveLoopProofs ----------------------------
(***************************************************************************)
(* The live loop for every set of setups, every window, any number of      *)
(* underlyings, any cooldown and any number of crashes.                    *)
(***************************************************************************)
EXTENDS LiveLoop, LifecycleOpsProofs

(***************************************************************************)
(* Keys.                                                                   *)
(***************************************************************************)
LEMMA ReadyKeyFacts ==
  ASSUME NEW s \in Setups
  PROVE  /\ ReadyKey(s) \in TradeKeys
         /\ ReadyKey(s) \in Keys
         /\ ReadyKey(s).underlying = s.underlying
         /\ s.underlying \in Names
         /\ s # NoTrade
         /\ ReadyKey(s) # NoneKey("")
<1>1. s.direction \in {"CALL", "PUT"} /\ s.underlying \in Names /\ s # NoTrade
  BY LiveLoopAssumption DEF Directions
<1>2. QED
  BY <1>1 DEF ReadyKey, NoneKey, TradeKeys, Keys

LEMMA NamesFacts ==
  /\ Len(Underlyings) \in Nat \ {0}
  /\ \A i \in 1 .. Len(Underlyings) : Underlyings[i] \in Names
<1>1. Len(Underlyings) \in Nat
  BY LiveLoopAssumption
<1>2. QED
  BY <1>1, LiveLoopAssumption DEF Names

LEMMA TradeKeysAreOwn ==
  \A k \in TradeKeys : k \in Keys /\ k.underlying \in Names
BY ReadyKeyFacts DEF TradeKeys

(***************************************************************************)
(* The key a signal is tracked under is one of the underlying's own.       *)
(***************************************************************************)
SignalIsOwn(u) ==
  signal[u].setup # NoTrade => signal[u].setup.underlying = u

LEMMA LifecycleKeyFacts ==
  ASSUME NEW u \in Names, signal[u] \in Signals, SignalIsOwn(u)
  PROVE  LifecycleKey(u) \in Keys /\ LifecycleKey(u).underlying = u
<1>1. CASE signal[u].state = "TRADE_READY"
  <2>1. signal[u].setup \in Setups
    BY <1>1 DEF Signals, NoSignal
  <2>2. QED
    BY <1>1, <2>1, ReadyKeyFacts DEF LifecycleKey, SignalIsOwn
<1>2. CASE signal[u].state # "TRADE_READY" /\ signal[u].setup # NoTrade
  <2>1. signal[u].setup \in FormingSetups
    BY <1>2 DEF Signals, NoSignal
  <2>2. FormingKey(signal[u].setup) \in Keys
    BY <2>1 DEF Keys
  <2>3. FormingKey(signal[u].setup).underlying = u
    BY <1>2 DEF FormingKey, SignalIsOwn
  <2>4. QED
    BY <1>2, <2>2, <2>3 DEF LifecycleKey
<1>3. CASE signal[u].state # "TRADE_READY" /\ signal[u].setup = NoTrade
  BY <1>3 DEF LifecycleKey, NoneKey, Keys
<1>4. QED
  BY <1>1, <1>2, <1>3

LEMMA TiersAreTiers == Tiers \in SUBSET Int /\ 0 \in Tiers
BY LiveLoopAssumption DEF Tiers

-----------------------------------------------------------------------------
(***************************************************************************)
(* The inductive invariant.  Beside the types: a signal names a setup of   *)
(* its own underlying; a TRADE_READY signal is one that could be authorised *)
(* at the tick's time and exists during the tick only; a process that is   *)
(* down monitors nothing; the session exit holds; and the tracker agrees   *)
(* with the monitored trades, except that between registration and the     *)
(* tick's update a trade may rest on its signal alone.                     *)
(***************************************************************************)
IsReady(u) == signal[u].state = "TRADE_READY"

SignalsAreOwn == \A u \in Names : SignalIsOwn(u)

ReadyIsAuthorised ==
  \A u \in Names : IsReady(u) => MayAuthorise(as_of) /\ pc \notin {"sleep", "down"}

TradesAreOwn == \A u \in Monitored : active[u].underlying = u

DownIsEmpty == pc = "down" => Monitored = {}

Open(e) == e # Untracked /\ ~Terminal(e)

TradeIsOpen(u) == Open(tracked[ReadyKey(active[u])])

TradeIsNew(u) ==
  /\ pc \in {"register", "track"}
  /\ IsReady(u)
  /\ signal[u].setup = active[u]
  /\ ~IsCoolingDown(tracked[ReadyKey(active[u])], as_of)

TradesAreTracked == \A u \in Monitored : TradeIsOpen(u) \/ TradeIsNew(u)

LoopInv ==
  /\ TypeOK
  /\ SignalsAreOwn
  /\ ReadyIsAuthorised
  /\ TradesAreOwn
  /\ DownIsEmpty
  /\ SessionExitHolds
  /\ TradesAreTracked

LEMMA BasicTypes ==
  ASSUME TypeOK
  PROVE  /\ now \in Nat /\ as_of \in Nat /\ as_of <= now
         /\ Horizon \in Nat /\ Interval \in Nat
         /\ idx \in 1 .. Len(Underlyings)
         /\ Underlyings[idx] \in Names
         /\ \A u \in Monitored : active[u] \in Setups
         /\ \A u \in Names : IsReady(u) => signal[u].setup \in Setups /\ signal[u].tier \in Tiers
         /\ \A u \in Names : signal[u].tier \in Tiers
<1>1. now \in Nat /\ as_of \in Nat /\ as_of <= now /\ Horizon \in Nat /\ Interval \in Nat
  BY LiveLoopAssumption DEF TypeOK
<1>2. idx \in 1 .. Len(Underlyings) /\ Underlyings[idx] \in Names
  BY NamesFacts DEF TypeOK
<1>3. \A u \in Monitored : active[u] \in Setups
  BY DEF Monitored, TypeOK
<1>4. \A u \in Names : signal[u] \in Signals
  BY DEF TypeOK
<1>5. 0 \in Tiers
  BY TiersAreTiers
<1>6. \A u \in Names : signal[u].tier \in Tiers
  BY <1>4, <1>5 DEF Signals, NoSignal
<1>7. \A u \in Names : IsReady(u) => signal[u].setup \in Setups
  BY <1>4 DEF Signals, NoSignal, IsReady
<1>8. QED
  BY <1>1, <1>2, <1>3, <1>6, <1>7

(***************************************************************************)
(* The loop over the underlyings keeps its index in range.                 *)
(***************************************************************************)
LEMMA NextUnderlyingType ==
  ASSUME TypeOK, NEW next, NextUnderlying(next)
  PROVE  idx' \in 1 .. Len(Underlyings) /\ (pc' = pc \/ pc' = next)
BY NamesFacts DEF TypeOK, NextUnderlying

-----------------------------------------------------------------------------
LEMMA InitInv == Init => LoopInv
<1> SUFFICES ASSUME Init PROVE LoopInv
  OBVIOUS
<1>1. TypeOK
  <2>1. Untracked \in Entries(Tiers, 0 .. 0) /\ Unread \in Reads /\ NoSignal \in Signals
    BY DEF Entries, Unread, Reads, Premiums, Signals
  <2>2. wakeAt \in 0 .. Horizon + Interval /\ crashes \in 0 .. MaxCrashes
        /\ now \in 0 .. Horizon /\ as_of \in 0 .. now /\ idx \in 1 .. Len(Underlyings)
    BY NamesFacts, LiveLoopAssumption DEF Init
  <2>3. signal \in [Names -> Signals] /\ read \in [Names -> Reads]
        /\ active \in [Names -> Setups \cup {NoTrade}]
    BY <2>1 DEF Init
  <2>4. now = 0 /\ tracked \in [Keys -> Entries(Tiers, 0 .. 0)]
    BY <2>1 DEF Init
  <2>5. lastAlert \in [TradeKeys -> [at : -1 .. now, setup : Setups \cup {NoTrade}]]
    BY <2>4 DEF Init
  <2>6. pc = "sleep" /\ changed = FALSE /\ report = "none"
    BY DEF Init
  <2>7. QED
    BY <2>2, <2>3, <2>4, <2>5, <2>6 DEF TypeOK
<1>2. Monitored = {}
  BY DEF Init, Monitored
<1>3. \A u \in Names : signal[u] = NoSignal
  BY DEF Init
<1>4. SignalsAreOwn /\ ReadyIsAuthorised
  BY <1>3 DEF SignalsAreOwn, SignalIsOwn, ReadyIsAuthorised, IsReady, NoSignal
<1>5. QED
  BY <1>1, <1>2, <1>4 DEF LoopInv, TradesAreOwn, DownIsEmpty, SessionExitHolds,
                          TradesAreTracked

LEMMA StartTickInv == LoopInv /\ StartTick => LoopInv'
<1> SUFFICES ASSUME LoopInv, StartTick PROVE LoopInv'
  OBVIOUS
<1> USE DEF StartTick
<1>1. TypeOK'
  BY BasicTypes DEF LoopInv, TypeOK
<1>2. SignalsAreOwn'
  BY DEF LoopInv, SignalsAreOwn, SignalIsOwn
<1>3. ReadyIsAuthorised'
  BY DEF LoopInv, ReadyIsAuthorised, IsReady
<1>4. Monitored' = Monitored
  BY DEF Monitored
<1>5. (TradesAreOwn /\ DownIsEmpty /\ SessionExitHolds)'
  BY <1>4 DEF LoopInv, TradesAreOwn, DownIsEmpty, SessionExitHolds
<1>6. TradesAreTracked'
  BY <1>4 DEF LoopInv, TradesAreTracked, TradeIsOpen, TradeIsNew
<1>7. QED
  BY <1>1, <1>2, <1>3, <1>5, <1>6 DEF LoopInv

LEMMA RunCycleInv == LoopInv /\ RunCycle => LoopInv'
<1> SUFFICES ASSUME LoopInv, RunCycle PROVE LoopInv'
  OBVIOUS
<1> DEFINE u == Underlyings[idx]
<1> USE DEF LoopInv
<1>0. TypeOK /\ u \in Names
  BY BasicTypes
<1>1. PICK s \in SignalsOf(u) : \E r \in ReadsOf(u, s) :
         /\ signal' = [signal EXCEPT ![u] = s]
         /\ read' = [read EXCEPT ![u] = r]
  BY DEF RunCycle
<1>2. PICK r \in ReadsOf(u, s) :
         /\ signal' = [signal EXCEPT ![u] = s]
         /\ read' = [read EXCEPT ![u] = r]
  BY <1>1
<1>3. /\ s \in Signals
      /\ s.setup # NoTrade => s.setup.underlying = u
      /\ s.state = "TRADE_READY" => MayAuthorise(as_of)
  BY DEF SignalsOf, OutcomesAt, Signals, NoSignal
<1>4. r \in Reads
  BY DEF ReadsOf, Reads, Unread, Premiums
<1>5. idx' \in 1 .. Len(Underlyings) /\ (pc' = "cycle" \/ pc' = "exit")
  BY <1>0, NextUnderlyingType DEF RunCycle
<1>6. TypeOK'
  BY <1>0, <1>2, <1>3, <1>4, <1>5 DEF TypeOK, RunCycle
<1>7. \A v \in Names : signal'[v] = IF v = u THEN s ELSE signal[v]
  BY <1>0, <1>2 DEF TypeOK
<1>8. SignalsAreOwn'
  BY <1>3, <1>7 DEF SignalsAreOwn, SignalIsOwn
<1>9. ReadyIsAuthorised'
  BY <1>3, <1>5, <1>7 DEF ReadyIsAuthorised, IsReady, RunCycle
<1>10. Monitored' = Monitored
  BY DEF Monitored, RunCycle
<1>11. (TradesAreOwn /\ DownIsEmpty /\ SessionExitHolds)'
  BY <1>5, <1>10 DEF TradesAreOwn, DownIsEmpty, SessionExitHolds, RunCycle
<1>12. TradesAreTracked'
  BY <1>5, <1>10 DEF TradesAreTracked, TradeIsOpen, TradeIsNew, RunCycle
<1>13. QED
  BY <1>6, <1>8, <1>9, <1>11, <1>12

LEMMA ClockInv == LoopInv /\ ClockAdvances => LoopInv'
<1> SUFFICES ASSUME LoopInv, ClockAdvances PROVE LoopInv'
  OBVIOUS
<1> USE DEF ClockAdvances, loopVars
<1>0. now' \in 0 .. Horizon /\ now \in Nat /\ now <= now' /\ as_of \in 0 .. now'
  BY BasicTypes, LiveLoopAssumption DEF LoopInv, TypeOK
<1>1. tracked' \in [Keys -> Entries(Tiers, 0 .. now')]
  BY <1>0, LaterEntries DEF LoopInv, TypeOK
<1>2. lastAlert' \in [TradeKeys -> [at : -1 .. now', setup : Setups \cup {NoTrade}]]
  BY <1>0 DEF LoopInv, TypeOK
<1>3. TypeOK'
  BY <1>0, <1>1, <1>2 DEF LoopInv, TypeOK
<1>4. Monitored' = Monitored
  BY DEF Monitored
<1>5. (SignalsAreOwn /\ ReadyIsAuthorised /\ TradesAreOwn /\ DownIsEmpty /\ SessionExitHolds)'
  BY <1>4 DEF LoopInv, SignalsAreOwn, SignalIsOwn, ReadyIsAuthorised, IsReady,
              TradesAreOwn, DownIsEmpty, SessionExitHolds
<1>6. TradesAreTracked'
  BY <1>4 DEF LoopInv, TradesAreTracked, TradeIsOpen, TradeIsNew, IsReady
<1>7. QED
  BY <1>3, <1>5, <1>6 DEF LoopInv

(***************************************************************************)
(* Closing trades.  Its two users differ in which trades they close and in *)
(* the entry each closing leaves; both leave terminal entries of this tick. *)
(***************************************************************************)
ClosesNow(outcome) ==
  /\ DOMAIN outcome \subseteq Monitored
  /\ \A u \in DOMAIN outcome : /\ outcome[u] \in Entries(Tiers, 0 .. now)
                               /\ Terminal(outcome[u])
                               /\ outcome[u].last_seen = as_of
                               /\ outcome[u].state = "EXPIRED" <=> SessionExitDue

LEMMA CloseFacts ==
  ASSUME TypeOK, TradesAreOwn, NEW outcome, ClosesNow(outcome), CloseTrades(outcome)
  PROVE  /\ active' \in [Names -> Setups \cup {NoTrade}]
         /\ tracked' \in [Keys -> Entries(Tiers, 0 .. now)]
         /\ changed' \in BOOLEAN
         /\ Monitored' = Monitored \ DOMAIN outcome
         /\ \A u \in Monitored' : active'[u] = active[u]
         /\ \A u \in Monitored' : tracked'[ReadyKey(active[u])] = tracked[ReadyKey(active[u])]
         /\ \A u \in DOMAIN outcome : tracked'[ReadyKey(active[u])] = outcome[u]
<1> DEFINE closed == DOMAIN outcome
           closedKeys == {ReadyKey(active[u]) : u \in closed}
<1>1. \A u \in Monitored : /\ u \in Names
                           /\ active[u] \in Setups
                           /\ ReadyKey(active[u]) \in Keys
                           /\ ReadyKey(active[u]).underlying = u
  BY BasicTypes, ReadyKeyFacts DEF Monitored, TradesAreOwn
<1>2. \A u \in closed : u \in Monitored
  BY DEF ClosesNow
<1>3. \A k \in closedKeys : k.underlying \in closed
  BY <1>1, <1>2
<1>4. active' = [u \in Names |-> IF u \in closed THEN NoTrade ELSE active[u]]
  BY DEF CloseTrades
<1>5. tracked' = [k \in Keys |-> IF k \in closedKeys THEN outcome[k.underlying] ELSE tracked[k]]
  BY DEF CloseTrades
<1>6. active' \in [Names -> Setups \cup {NoTrade}]
  BY <1>4 DEF TypeOK
<1>7. tracked' \in [Keys -> Entries(Tiers, 0 .. now)]
  <2>1. \A k \in closedKeys : outcome[k.underlying] \in Entries(Tiers, 0 .. now)
    BY <1>3 DEF ClosesNow
  <2>2. QED
    BY <1>5, <2>1 DEF TypeOK
<1>8. changed' \in BOOLEAN
  BY DEF CloseTrades, TypeOK
<1>9. Monitored' = Monitored \ closed
  BY <1>4 DEF Monitored
<1>10. \A u \in Monitored' : active'[u] = active[u]
  BY <1>4, <1>9, <1>1
<1>11. ASSUME NEW u \in Monitored'
       PROVE  tracked'[ReadyKey(active[u])] = tracked[ReadyKey(active[u])]
  <2>1. u \in Monitored /\ u \notin closed
    BY <1>9
  <2>2. ReadyKey(active[u]) \notin closedKeys
    BY <2>1, <1>1, <1>3
  <2>3. QED
    BY <1>1, <1>5, <2>1, <2>2
<1>12. \A u \in closed : tracked'[ReadyKey(active[u])] = outcome[u]
  BY <1>1, <1>2, <1>5
<1>13. QED
  BY <1>6, <1>7, <1>8, <1>9, <1>10, <1>11, <1>12

LEMMA ExpireClosesNow ==
  ASSUME LoopInv, pc = "exit", SessionExitDue
  PROVE  ClosesNow([u \in Monitored |-> ExpireOutcome(u)])
<1>1. ASSUME NEW u \in Monitored
      PROVE  /\ ExpireOutcome(u) \in Entries(Tiers, 0 .. now)
             /\ Terminal(ExpireOutcome(u))
             /\ ExpireOutcome(u).last_seen = as_of
             /\ ExpireOutcome(u).state = "EXPIRED"
  <2>1. ReadyKey(active[u]) \in Keys /\ as_of \in Nat /\ as_of <= now /\ now \in Nat
    BY BasicTypes, ReadyKeyFacts DEF LoopInv
  <2> DEFINE e == tracked[ReadyKey(active[u])]
  <2>2. e \in Entries(Tiers, 0 .. now)
    BY <2>1 DEF LoopInv, TypeOK
  <2>3. ~Terminal(e)
    BY DEF LoopInv, TradesAreTracked, TradeIsOpen, TradeIsNew, Open
  <2>4. /\ Terminal(ForceExpire(e, as_of)) /\ ForceExpire(e, as_of).last_seen = as_of
        /\ ForceExpire(e, as_of).state = "EXPIRED"
    BY <2>3, ForceExpireCloses
  <2>5. ForceExpire(e, as_of) \in Entries(Tiers, 0 .. now)
    BY <2>1, <2>2, TiersAreTiers
       DEF ForceExpire, Entries, Untracked, LifecycleStates, TerminalStates
  <2>6. QED
    BY <2>4, <2>5 DEF ExpireOutcome
<1>2. QED
  BY <1>1 DEF ClosesNow

LEMMA VerdictClosesNow ==
  ASSUME LoopInv, pc = "check"
  PROVE  ClosesNow([u \in Resolved |-> VerdictOutcome(u)])
<1>1. Resolved \subseteq Monitored
  BY DEF Resolved, Monitored, Invalidated, Targeted
<1>2. ASSUME NEW u \in Resolved
      PROVE  /\ VerdictOutcome(u) \in Entries(Tiers, 0 .. now)
             /\ Terminal(VerdictOutcome(u))
             /\ VerdictOutcome(u).last_seen = as_of
             /\ VerdictOutcome(u).state # "EXPIRED"
  <2>1. ReadyKey(active[u]) \in Keys /\ as_of \in Nat /\ as_of <= now /\ now \in Nat
    BY <1>1, BasicTypes, ReadyKeyFacts DEF LoopInv
  <2> DEFINE e == tracked[ReadyKey(active[u])]
  <2>2. PICK v \in Verdicts \ {"none"} : VerdictOutcome(u) = Update(e, 0, as_of, v)
    BY DEF VerdictOutcome, Verdicts
  <2>3. /\ Terminal(VerdictOutcome(u)) /\ VerdictOutcome(u).last_seen = as_of
        /\ VerdictOutcome(u).state # "EXPIRED"
    BY <2>2, VerdictCloses
  <2>4. VerdictOutcome(u) = [state |-> NewState(Existing(e, as_of), 0, v),
                             tier |-> 0, last_seen |-> as_of]
    BY <2>2 DEF Update
  <2>5. NewState(Existing(e, as_of), 0, v) \in LifecycleStates
    BY <2>2, NewStateType
  <2>6. VerdictOutcome(u) \in Entries(Tiers, 0 .. now)
    BY <2>1, <2>4, <2>5, TiersAreTiers DEF Entries
  <2>7. QED
    BY <2>3, <2>6
<1>3. SessionExitDue => Resolved = {}
  BY <1>1 DEF LoopInv, SessionExitHolds, SessionExitDue
<1>4. QED
  BY <1>1, <1>2, <1>3 DEF ClosesNow

LEMMA ForceSessionExitInv == LoopInv /\ ForceSessionExit => LoopInv'
<1> SUFFICES ASSUME LoopInv, ForceSessionExit PROVE LoopInv'
  OBVIOUS
<1> USE DEF ForceSessionExit
<1>1. /\ active' \in [Names -> Setups \cup {NoTrade}]
      /\ tracked' \in [Keys -> Entries(Tiers, 0 .. now)]
      /\ changed' \in BOOLEAN
      /\ Monitored' = IF SessionExitDue THEN {} ELSE Monitored
      /\ \A u \in Monitored' : /\ active'[u] = active[u]
                               /\ tracked'[ReadyKey(active[u])] = tracked[ReadyKey(active[u])]
  <2>1. CASE SessionExitDue
    BY <2>1, CloseFacts, ExpireClosesNow DEF LoopInv
  <2>2. CASE ~SessionExitDue
    BY <2>2 DEF LoopInv, TypeOK, Monitored
  <2>3. QED
    BY <2>1, <2>2
<1>2. TypeOK'
  BY <1>1 DEF LoopInv, TypeOK
<1>3. (SignalsAreOwn /\ ReadyIsAuthorised)'
  BY DEF LoopInv, SignalsAreOwn, SignalIsOwn, ReadyIsAuthorised, IsReady
<1>4. (TradesAreOwn /\ DownIsEmpty /\ SessionExitHolds)'
  BY <1>1 DEF LoopInv, TradesAreOwn, DownIsEmpty, SessionExitHolds, SessionExitDue
<1>5. TradesAreTracked'
  BY <1>1 DEF LoopInv, TradesAreTracked, TradeIsOpen, TradeIsNew
<1>6. QED
  BY <1>2, <1>3, <1>4, <1>5 DEF LoopInv

LEMMA CheckActiveTradesInv == LoopInv /\ CheckActiveTrades => LoopInv'
<1> SUFFICES ASSUME LoopInv, CheckActiveTrades PROVE LoopInv'
  OBVIOUS
<1> USE DEF CheckActiveTrades
<1>1. /\ active' \in [Names -> Setups \cup {NoTrade}]
      /\ tracked' \in [Keys -> Entries(Tiers, 0 .. now)]
      /\ changed' \in BOOLEAN
      /\ Monitored' \subseteq Monitored
      /\ \A u \in Monitored' : /\ active'[u] = active[u]
                               /\ tracked'[ReadyKey(active[u])] = tracked[ReadyKey(active[u])]
  BY CloseFacts, VerdictClosesNow DEF LoopInv
<1>2. read' \in [Names -> Reads]
  BY DEF Unread, Reads, Premiums
<1>3. TypeOK'
  BY <1>1, <1>2 DEF LoopInv, TypeOK
<1>4. (SignalsAreOwn /\ ReadyIsAuthorised)'
  BY DEF LoopInv, SignalsAreOwn, SignalIsOwn, ReadyIsAuthorised, IsReady
<1>5. (TradesAreOwn /\ DownIsEmpty /\ SessionExitHolds)'
  BY <1>1 DEF LoopInv, TradesAreOwn, DownIsEmpty, SessionExitHolds
<1>6. TradesAreTracked'
  BY <1>1 DEF LoopInv, TradesAreTracked, TradeIsOpen, TradeIsNew
<1>7. QED
  BY <1>3, <1>4, <1>5, <1>6 DEF LoopInv

LEMMA RegisterInv == LoopInv /\ Register => LoopInv'
<1> SUFFICES ASSUME LoopInv, Register PROVE LoopInv'
  OBVIOUS
<1> DEFINE u == Underlyings[idx]
           s == signal[u].setup
<1>1. /\ u \in Names /\ as_of \in Nat /\ as_of <= now /\ now \in Nat
      /\ u \notin Monitored
      /\ IsReady(u)
      /\ ~IsCoolingDown(tracked[ReadyKey(s)], as_of)
      /\ active' = [active EXCEPT ![u] = s]
      /\ lastAlert' = [lastAlert EXCEPT ![ReadyKey(s)] = [at |-> as_of, setup |-> s]]
      /\ pc = "register"
  BY BasicTypes DEF LoopInv, Register, Registrable, Monitored, IsReady
<1>2. /\ s \in Setups /\ ReadyKey(s) \in TradeKeys /\ s # NoTrade
      /\ s.underlying = u
  BY <1>1, BasicTypes, ReadyKeyFacts DEF LoopInv, SignalsAreOwn, SignalIsOwn
<1>3. idx' \in 1 .. Len(Underlyings) /\ (pc' = "register" \/ pc' = "track")
  BY <1>1, NextUnderlyingType DEF LoopInv, Register
<1>4. lastAlert' \in [TradeKeys -> [at : -1 .. now, setup : Setups \cup {NoTrade}]]
  BY <1>1, <1>2 DEF LoopInv, TypeOK
<1>5. active' \in [Names -> Setups \cup {NoTrade}]
  BY <1>1, <1>2 DEF LoopInv, TypeOK
<1>6. TypeOK'
  BY <1>3, <1>4, <1>5 DEF LoopInv, TypeOK, Register
<1>7. SignalsAreOwn' /\ ReadyIsAuthorised'
  BY <1>3 DEF LoopInv, SignalsAreOwn, SignalIsOwn, ReadyIsAuthorised, IsReady, Register
<1>8. /\ Monitored' = Monitored \cup {u}
      /\ \A v \in Monitored' : active'[v] = IF v = u THEN s ELSE active[v]
  BY <1>1, <1>2 DEF LoopInv, TypeOK, Monitored
<1>9. TradesAreOwn' /\ DownIsEmpty'
  BY <1>2, <1>3, <1>8 DEF LoopInv, TradesAreOwn, DownIsEmpty
<1>10. SessionExitHolds'
  <2>1. MayAuthorise(as_of)
    BY <1>1 DEF LoopInv, ReadyIsAuthorised
  <2>2. Phase(as_of) # "POST_ENTRY_CUTOFF"
    BY <2>1 DEF MayAuthorise, IsNewEntryAllowed, Phase
  <2>3. as_of' = as_of
    BY DEF Register
  <2>4. QED
    BY <2>2, <2>3 DEF SessionExitHolds, Phase
<1>11. TradesAreTracked'
  <2>1. tracked' = tracked /\ signal' = signal /\ as_of' = as_of
    BY DEF Register
  <2>2. ASSUME NEW v \in Monitored' PROVE (TradeIsOpen(v) \/ TradeIsNew(v))'
    <3>1. CASE v = u
      BY <1>1, <1>3, <1>8, <2>1, <2>2, <3>1 DEF TradeIsNew, IsReady
    <3>2. CASE v # u
      BY <1>1, <1>3, <1>8, <2>1, <2>2, <3>2
         DEF LoopInv, TradesAreTracked, TradeIsOpen, TradeIsNew, IsReady
    <3>3. QED
      BY <3>1, <3>2
  <2>3. QED
    BY <2>2 DEF TradesAreTracked
<1>12. QED
  BY <1>6, <1>7, <1>9, <1>10, <1>11 DEF LoopInv

LEMMA SkipRegistrationInv == LoopInv /\ SkipRegistration => LoopInv'
<1> SUFFICES ASSUME LoopInv, SkipRegistration PROVE LoopInv'
  OBVIOUS
<1>1. idx' \in 1 .. Len(Underlyings) /\ pc = "register" /\ (pc' = "register" \/ pc' = "track")
  BY NextUnderlyingType DEF LoopInv, SkipRegistration
<1>2. TypeOK'
  BY <1>1 DEF LoopInv, TypeOK, SkipRegistration
<1>3. Monitored' = Monitored
  BY DEF Monitored, SkipRegistration
<1>4. (SignalsAreOwn /\ ReadyIsAuthorised /\ TradesAreOwn /\ DownIsEmpty /\ SessionExitHolds)'
  BY <1>1, <1>3 DEF LoopInv, SignalsAreOwn, SignalIsOwn, ReadyIsAuthorised, IsReady,
              TradesAreOwn, DownIsEmpty, SessionExitHolds, SkipRegistration
<1>5. TradesAreTracked'
  BY <1>1, <1>3
     DEF LoopInv, TradesAreTracked, TradeIsOpen, TradeIsNew, IsReady, SkipRegistration
<1>6. QED
  BY <1>2, <1>4, <1>5 DEF LoopInv

(***************************************************************************)
(* The tick's update of the tracker, key by key.                           *)
(***************************************************************************)
SignalledKeys == {LifecycleKey(u) : u \in Signalled}

LEMMA TrackFacts ==
  ASSUME LoopInv, TrackAndReport
  PROVE  \A k \in Keys :
           /\ k \in SignalledKeys =>
                /\ k.underlying \in Names
                /\ tracked'[k] = Update(tracked[k], signal[k.underlying].tier, as_of, "none")
                /\ tracked'[k] \in Entries(Tiers, 0 .. now)
                /\ IsCoolingDown(tracked[k], as_of) => tracked'[k] = tracked[k]
                /\ ~IsCoolingDown(tracked[k], as_of) => Open(tracked'[k])
           /\ k \notin SignalledKeys => tracked'[k] = tracked[k]
<1>1. \A u \in Signalled : u \in Names /\ LifecycleKey(u) \in Keys /\ LifecycleKey(u).underlying = u
  BY LifecycleKeyFacts DEF LoopInv, TypeOK, SignalsAreOwn, Signalled
<1>2. tracked' = [k \in Keys |->
                   IF k \in SignalledKeys
                   THEN Update(tracked[k], signal[k.underlying].tier, as_of, "none")
                   ELSE tracked[k]]
  BY DEF TrackAndReport, SignalledKeys
<1>3. ASSUME NEW k \in Keys, k \in SignalledKeys
      PROVE  /\ k.underlying \in Names
             /\ tracked'[k] = Update(tracked[k], signal[k.underlying].tier, as_of, "none")
             /\ tracked'[k] \in Entries(Tiers, 0 .. now)
             /\ IsCoolingDown(tracked[k], as_of) => tracked'[k] = tracked[k]
             /\ ~IsCoolingDown(tracked[k], as_of) => Open(tracked'[k])
  <2> DEFINE tier == signal[k.underlying].tier
             e == tracked[k]
  <2>1. k.underlying \in Names
    BY <1>1, <1>3 DEF SignalledKeys
  <2>2. tier \in Tiers /\ tier \in Int
    BY <2>1, BasicTypes, TiersAreTiers DEF LoopInv
  <2>3. tracked'[k] = Update(e, tier, as_of, "none")
    BY <1>2, <1>3
  <2>4. e \in Entries(Tiers, 0 .. now)
    BY DEF LoopInv, TypeOK
  <2>5. Update(e, tier, as_of, "none") \in Entries(Tiers, 0 .. now)
    <3>1. NewState(Existing(e, as_of), tier, "none") \in LifecycleStates
      BY <2>2, NewStateType DEF Verdicts
    <3>2. as_of \in 0 .. now
      BY DEF LoopInv, TypeOK
    <3>3. QED
      BY <2>2, <2>4, <3>1, <3>2 DEF Update, Entries
  <2>6. /\ IsCoolingDown(e, as_of) => Update(e, tier, as_of, "none") = e
        /\ ~IsCoolingDown(e, as_of) => Open(Update(e, tier, as_of, "none"))
    BY <2>2, EvidenceOpens DEF Open
  <2>7. QED
    BY <2>1, <2>3, <2>5, <2>6
<1>4. \A k \in Keys : k \notin SignalledKeys => tracked'[k] = tracked[k]
  BY <1>2
<1>5. QED
  BY <1>3, <1>4

LEMMA TrackAndReportInv == LoopInv /\ TrackAndReport => LoopInv'
<1> SUFFICES ASSUME LoopInv, TrackAndReport PROVE LoopInv'
  OBVIOUS
<1>1. tracked' \in [Keys -> Entries(Tiers, 0 .. now)]
  <2>1. \A k \in Keys : tracked'[k] \in Entries(Tiers, 0 .. now)
    BY TrackFacts DEF LoopInv, TypeOK
  <2>2. tracked' = [k \in Keys |-> tracked'[k]]
    BY DEF TrackAndReport
  <2>3. QED
    BY <2>1, <2>2
<1>2. signal' = [u \in Names |-> NoSignal] /\ pc = "track" /\ pc' = "sleep"
  BY DEF TrackAndReport
<1>3. wakeAt' \in 0 .. Horizon + Interval
  BY BasicTypes, LiveLoopAssumption DEF LoopInv, TypeOK, TrackAndReport
<1>4. report' \in {"none", "status", "full"} /\ changed' \in BOOLEAN
  BY DEF TrackAndReport
<1>5. TypeOK'
  <2>1. signal' \in [Names -> Signals]
    BY <1>2 DEF Signals
  <2>2. QED
    BY <1>1, <1>2, <1>3, <1>4, <2>1 DEF LoopInv, TypeOK, TrackAndReport
<1>6. SignalsAreOwn' /\ ReadyIsAuthorised'
  BY <1>2 DEF SignalsAreOwn, SignalIsOwn, ReadyIsAuthorised, IsReady, NoSignal
<1>7. Monitored' = Monitored /\ active' = active /\ as_of' = as_of
  BY DEF Monitored, TrackAndReport
<1>8. (TradesAreOwn /\ DownIsEmpty /\ SessionExitHolds)'
  BY <1>2, <1>7 DEF LoopInv, TradesAreOwn, DownIsEmpty, SessionExitHolds
<1>9. ASSUME NEW u \in Monitored PROVE Open(tracked'[ReadyKey(active[u])])
  <2> DEFINE k == ReadyKey(active[u])
  <2>1. k \in Keys /\ u \in Names
    BY BasicTypes, ReadyKeyFacts DEF LoopInv, Monitored
  <2>2. CASE TradeIsOpen(u)
    <3>1. ~IsCoolingDown(tracked[k], as_of)
      BY <2>2 DEF TradeIsOpen, Open, IsCoolingDown
    <3>2. QED
      BY <2>1, <2>2, <3>1, TrackFacts DEF TradeIsOpen
  <2>3. CASE TradeIsNew(u)
    <3>1. ~IsCoolingDown(tracked[k], as_of)
      BY <2>3 DEF TradeIsNew
    <3>2. k \in SignalledKeys
      <4>1. LifecycleKey(u) = k
        BY <2>3 DEF TradeIsNew, IsReady, LifecycleKey
      <4>2. u \in Signalled
        BY <2>1, <2>3 DEF TradeIsNew, IsReady, Signalled, NoSignal
      <4>3. QED
        BY <4>1, <4>2 DEF SignalledKeys
    <3>3. QED
      BY <2>1, <3>1, <3>2, TrackFacts
  <2>4. QED
    BY <2>2, <2>3 DEF LoopInv, TradesAreTracked
<1>10. TradesAreTracked'
  BY <1>7, <1>9 DEF TradesAreTracked, TradeIsOpen
<1>11. QED
  BY <1>5, <1>6, <1>8, <1>10 DEF LoopInv

LEMMA CrashInv == LoopInv /\ Crash => LoopInv'
<1> SUFFICES ASSUME LoopInv, Crash PROVE LoopInv'
  OBVIOUS
<1> USE DEF Crash
<1>1. /\ Untracked \in Entries(Tiers, 0 .. now) /\ Unread \in Reads /\ NoSignal \in Signals
      /\ [at |-> -1, setup |-> NoTrade] \in [at : -1 .. now, setup : Setups \cup {NoTrade}]
      /\ now \in Nat /\ 1 \in 1 .. Len(Underlyings)
      /\ crashes' \in 0 .. MaxCrashes
  BY BasicTypes, NamesFacts, LiveLoopAssumption
     DEF LoopInv, TypeOK, Entries, Unread, Reads, Premiums, Signals
<1>2. TypeOK'
  BY <1>1 DEF LoopInv, TypeOK
<1>3. Monitored' = {}
  BY DEF Monitored
<1>4. \A u \in Names : signal'[u] = NoSignal
  OBVIOUS
<1>5. SignalsAreOwn' /\ ReadyIsAuthorised'
  BY <1>4 DEF SignalsAreOwn, SignalIsOwn, ReadyIsAuthorised, IsReady, NoSignal
<1>6. QED
  BY <1>2, <1>3, <1>5
     DEF LoopInv, TradesAreOwn, DownIsEmpty, SessionExitHolds, TradesAreTracked

LEMMA RestartInv == LoopInv /\ Restart => LoopInv'
<1> SUFFICES ASSUME LoopInv, Restart PROVE LoopInv'
  OBVIOUS
<1> USE DEF Restart
<1>1. /\ as_of' \in 0 .. now /\ wakeAt' \in 0 .. Horizon + Interval
  BY BasicTypes DEF LoopInv, TypeOK
<1>2. TypeOK'
  BY <1>1 DEF LoopInv, TypeOK
<1>3. Monitored' = {}
  BY DEF LoopInv, DownIsEmpty, Monitored
<1>4. SignalsAreOwn' /\ ReadyIsAuthorised'
  BY DEF LoopInv, SignalsAreOwn, SignalIsOwn, ReadyIsAuthorised, IsReady
<1>5. QED
  BY <1>2, <1>3, <1>4
     DEF LoopInv, TradesAreOwn, DownIsEmpty, SessionExitHolds, TradesAreTracked

LEMMA StutterInv == LoopInv /\ UNCHANGED vars => LoopInv'
<1> SUFFICES ASSUME LoopInv, UNCHANGED vars PROVE LoopInv'
  OBVIOUS
<1> USE DEF vars, loopVars
<1>1. TypeOK'
  BY DEF LoopInv, TypeOK
<1>2. Monitored' = Monitored
  BY DEF Monitored
<1>3. (SignalsAreOwn /\ ReadyIsAuthorised /\ TradesAreOwn /\ DownIsEmpty /\ SessionExitHolds)'
  BY <1>2 DEF LoopInv, SignalsAreOwn, SignalIsOwn, ReadyIsAuthorised, IsReady,
              TradesAreOwn, DownIsEmpty, SessionExitHolds
<1>4. TradesAreTracked'
  BY <1>2 DEF LoopInv, TradesAreTracked, TradeIsOpen, TradeIsNew, IsReady
<1>5. QED
  BY <1>1, <1>3, <1>4 DEF LoopInv

LEMMA NextInv == LoopInv /\ [Next]_vars => LoopInv'
BY StartTickInv, RunCycleInv, ForceSessionExitInv, CheckActiveTradesInv, RegisterInv,
   SkipRegistrationInv, TrackAndReportInv, ClockInv, CrashInv, RestartInv, StutterInv
   DEF Next, LoopStep, ClockStopped

LEMMA InvAlways == Spec => []LoopInv
BY InitInv, NextInv, PTL DEF Spec

-----------------------------------------------------------------------------
(***************************************************************************)
(* The loop's variables keep their types.                                  *)
(***************************************************************************)
THEOREM LoopTypeCorrect == Spec => []TypeOK
<1>1. LoopInv => TypeOK
  BY DEF LoopInv
<1>2. QED
  BY <1>1, InvAlways, PTL

(***************************************************************************)
(* _force_session_exit: a tick between cutoff and close leaves nothing     *)
(* monitored, whatever the fetches return and however the clock moves.     *)
(***************************************************************************)
THEOREM SessionExitIsFinal == Spec => []SessionExitHolds
<1>1. LoopInv => SessionExitHolds
  BY DEF LoopInv
<1>2. QED
  BY <1>1, InvAlways, PTL

(***************************************************************************)
(* The tracker agrees that a monitored setup is live, so that the closing  *)
(* of the trade starts a cooldown.                                         *)
(***************************************************************************)
THEOREM MonitoredIsOpen == Spec => []MonitoredKeyIsOpen
<1>1. LoopInv => MonitoredKeyIsOpen
  BY DEF LoopInv, TradesAreTracked, TradeIsOpen, TradeIsNew, Open, MonitoredKeyIsOpen,
         IsCoolingDown
<1>2. QED
  BY <1>1, InvAlways, PTL

-----------------------------------------------------------------------------
(***************************************************************************)
(* Closings.  Only the session exit and the check of the trades close any. *)
(***************************************************************************)
Closing == ForceSessionExit \/ CheckActiveTrades

LEMMA ClosingStep ==
  ASSUME LoopInv, Closing
  PROVE  \E S \in SUBSET Monitored :
           /\ Monitored' = Monitored \ S
           /\ \A u \in Monitored' : active'[u] = active[u]
           /\ as_of' = as_of
           /\ \A u \in S : LET e == tracked'[ReadyKey(active[u])]
                           IN /\ Terminal(e) /\ e.last_seen = as_of
                              /\ e.state = "EXPIRED" <=> SessionExitDue
           /\ \A k \in TradeKeys : k \notin {ReadyKey(active[u]) : u \in S}
                                     => tracked'[k] = tracked[k]
<1>1. ASSUME NEW outcome, ClosesNow(outcome), CloseTrades(outcome), as_of' = as_of
      PROVE  \E S \in SUBSET Monitored :
               /\ Monitored' = Monitored \ S
               /\ \A u \in Monitored' : active'[u] = active[u]
               /\ as_of' = as_of
               /\ \A u \in S : LET e == tracked'[ReadyKey(active[u])]
                               IN /\ Terminal(e) /\ e.last_seen = as_of
                                  /\ e.state = "EXPIRED" <=> SessionExitDue
               /\ \A k \in TradeKeys : k \notin {ReadyKey(active[u]) : u \in S}
                                         => tracked'[k] = tracked[k]
  <2> DEFINE S == DOMAIN outcome
  <2>1. \A u \in S : LET e == tracked'[ReadyKey(active[u])]
                     IN /\ Terminal(e) /\ e.last_seen = as_of
                        /\ e.state = "EXPIRED" <=> SessionExitDue
    BY <1>1, CloseFacts DEF LoopInv, ClosesNow
  <2>2. \A k \in TradeKeys : k \notin {ReadyKey(active[u]) : u \in S}
                               => tracked'[k] = tracked[k]
    BY <1>1, TradeKeysAreOwn DEF CloseTrades
  <2>3. /\ S \in SUBSET Monitored
        /\ Monitored' = Monitored \ S
        /\ \A u \in Monitored' : active'[u] = active[u]
    BY <1>1, CloseFacts DEF LoopInv, ClosesNow
  <2>4. QED
    BY <1>1, <2>1, <2>2, <2>3
<1>2. CASE ForceSessionExit /\ SessionExitDue
  BY <1>1, <1>2, ExpireClosesNow DEF ForceSessionExit
<1>3. CASE ForceSessionExit /\ ~SessionExitDue
  <2>1. /\ {} \in SUBSET Monitored
        /\ Monitored' = Monitored \ {}
        /\ \A u \in Monitored' : active'[u] = active[u]
        /\ as_of' = as_of
        /\ \A k \in TradeKeys : tracked'[k] = tracked[k]
    BY <1>3 DEF ForceSessionExit, Monitored
  <2>2. QED
    BY <2>1
<1>4. CASE CheckActiveTrades
  BY <1>1, <1>4, VerdictClosesNow DEF CheckActiveTrades
<1>5. QED
  BY <1>2, <1>3, <1>4 DEF Closing

LEMMA OnlyClosingsClose ==
  ASSUME LoopInv, [Next]_vars, ~Closing, pc' # "down"
  PROVE  \A u \in Monitored : active'[u] # NoTrade
<1>1. CASE Register
  <2>1. /\ Underlyings[idx] \in Names
        /\ signal[Underlyings[idx]].setup # NoTrade
    BY <1>1, BasicTypes, ReadyKeyFacts DEF LoopInv, Register, Registrable, IsReady
  <2>2. QED
    BY <1>1, <2>1 DEF Register, Monitored, LoopInv, TypeOK
<1>2. CASE UNCHANGED active
  BY <1>2 DEF Monitored
<1>3. QED
  BY <1>1, <1>2 DEF Next, LoopStep, Closing, StartTick, RunCycle, SkipRegistration,
     TrackAndReport, ClockAdvances, ClockStopped, Crash, Restart, vars

(***************************************************************************)
(* A trade stops being monitored only by a verdict that the tracker holds, *)
(* with this tick's time: EXPIRED in the phase after the cutoff and only   *)
(* there.                                                                  *)
(***************************************************************************)
THEOREM ClosuresAreRecorded == Spec => ClosureIsRecorded
<1> DEFINE A == \A u \in Names :
                  (u \in Monitored /\ active'[u] = NoTrade /\ pc' # "down")
                    => LET e == tracked'[ReadyKey(active[u])]
                       IN /\ Terminal(e) /\ e.last_seen = as_of
                          /\ e.state = "EXPIRED" <=> Phase(as_of) = "POST_ENTRY_CUTOFF"
<1>1. LoopInv /\ [Next]_vars => A
  <2> SUFFICES ASSUME LoopInv, [Next]_vars,
                      NEW u \in Monitored, active'[u] = NoTrade, pc' # "down"
               PROVE  LET e == tracked'[ReadyKey(active[u])]
                      IN /\ Terminal(e) /\ e.last_seen = as_of
                         /\ e.state = "EXPIRED" <=> Phase(as_of) = "POST_ENTRY_CUTOFF"
    OBVIOUS
  <2>1. Closing
    BY OnlyClosingsClose
  <2>2. u \notin Monitored'
    BY DEF Monitored
  <2>3. QED
    BY <2>1, <2>2, ClosingStep DEF SessionExitDue
<1>2. LoopInv /\ [Next]_vars => [A]_vars
  BY <1>1
<1> HIDE DEF A
<1>3. Spec => [][A]_vars
  BY <1>2, InvAlways, PTL DEF Spec
<1>4. QED
  BY <1>3 DEF A, ClosureIsRecorded

-----------------------------------------------------------------------------
(***************************************************************************)
(* Refinement.  slotView and closedView are the mapping of LiveLoop.       *)
(***************************************************************************)
slotView == [u \in Names |-> IF active[u] = NoTrade THEN NoKey ELSE ReadyKey(active[u])]

closedView == [k \in TradeKeys |-> IF Terminal(tracked[k]) THEN tracked[k].last_seen ELSE -1]

LEMMA ViewFacts ==
  ASSUME LoopInv
  PROVE  /\ \A u \in Names : slotView[u] = NoKey <=> u \notin Monitored
         /\ \A u \in Monitored : slotView[u] = ReadyKey(active[u])
         /\ \A u \in Monitored : slotView[u] \in TradeKeys
BY BasicTypes, ReadyKeyFacts DEF LoopInv, slotView, NoKey, Monitored

(***************************************************************************)
(* Without a closing, an opening or the tracker's update a step is NextTick *)
(* or a stutter.                                                           *)
(***************************************************************************)
LEMMA QuietStep ==
  ASSUME LoopInv, active' = active, tracked' = tracked, as_of' = as_of \/ as_of' = now
  PROVE  [Abstract!Next]_(Abstract!vars)
<1>1. slotView' = slotView /\ closedView' = closedView
  BY DEF slotView, closedView
<1>2. as_of' \in Nat /\ as_of' >= as_of
  BY BasicTypes DEF LoopInv
<1>3. Abstract!NextTick
  BY <1>1, <1>2 DEF Abstract!NextTick, slotView, closedView
<1>4. QED
  BY <1>3 DEF Abstract!Next

LEMMA ClosingImplements ==
  ASSUME LoopInv, LoopInv', Closing
  PROVE  [Abstract!Next]_(Abstract!vars)
<1>1. PICK S \in SUBSET Monitored :
        /\ Monitored' = Monitored \ S
        /\ \A u \in Monitored' : active'[u] = active[u]
        /\ as_of' = as_of
        /\ \A u \in S : LET e == tracked'[ReadyKey(active[u])]
                        IN Terminal(e) /\ e.last_seen = as_of
        /\ \A k \in TradeKeys : k \notin {ReadyKey(active[u]) : u \in S}
                                  => tracked'[k] = tracked[k]
  BY ClosingStep
<1>2. S \in SUBSET Names /\ \A u \in S : slotView[u] # NoKey
  BY ViewFacts DEF Monitored
<1>3. slotView' = [u \in Names |-> IF u \in S THEN NoKey ELSE slotView[u]]
  <2>1. ASSUME NEW u \in Names
        PROVE  slotView'[u] = IF u \in S THEN NoKey ELSE slotView[u]
    <3>1. CASE u \in Monitored'
      BY <1>1, <3>1 DEF slotView, Monitored
    <3>2. CASE u \notin Monitored'
      BY <1>1, <3>2 DEF slotView, Monitored
    <3>3. QED
      BY <3>1, <3>2
  <2>2. slotView' = [u \in Names |-> slotView'[u]]
    BY DEF slotView
  <2>3. QED
    BY <2>1, <2>2
<1>4. {slotView[u] : u \in S} = {ReadyKey(active[u]) : u \in S}
  BY ViewFacts
<1>5. closedView' = [k \in TradeKeys |-> IF k \in {slotView[u] : u \in S}
                                         THEN as_of ELSE closedView[k]]
  <2>1. ASSUME NEW k \in TradeKeys
        PROVE  closedView'[k] = IF k \in {ReadyKey(active[u]) : u \in S}
                                THEN as_of ELSE closedView[k]
    BY <1>1 DEF closedView
  <2>2. closedView' = [k \in TradeKeys |-> closedView'[k]]
    BY DEF closedView
  <2>3. QED
    BY <1>4, <2>1, <2>2
<1>6. Abstract!Close(S)
  BY <1>1, <1>2, <1>3, <1>5 DEF Abstract!Close, slotView, closedView
<1>7. QED
  BY <1>2, <1>6 DEF Abstract!Next

LEMMA RegisterImplements ==
  ASSUME LoopInv, Register
  PROVE  [Abstract!Next]_(Abstract!vars)
<1>0. PICK u \in Names, k \in TradeKeys :
        u = Underlyings[idx] /\ k = ReadyKey(signal[u].setup)
  BY BasicTypes, ReadyKeyFacts DEF LoopInv, Register, Registrable, IsReady
<1>1. /\ u \in Names /\ active[u] = NoTrade
      /\ signal[u].setup \in Setups /\ signal[u].setup # NoTrade
      /\ k \in TradeKeys
      /\ ~IsCoolingDown(tracked[k], as_of)
      /\ active' = [active EXCEPT ![u] = signal[u].setup]
      /\ tracked' = tracked /\ as_of' = as_of
  BY <1>0, BasicTypes, ReadyKeyFacts DEF LoopInv, Register, Registrable, IsReady
<1>2. slotView[u] = NoKey
  BY <1>1 DEF slotView
<1>3. closedView[k] = -1 \/ as_of - closedView[k] >= Cooldown
  <2>1. tracked[k].last_seen \in Nat
    BY <1>1, TradeKeysAreOwn DEF LoopInv, TypeOK, Entries, Untracked
  <2>2. as_of \in Nat /\ Cooldown \in Nat
    BY BasicTypes, CooldownAssumption DEF LoopInv
  <2>3. QED
    BY <1>1, <2>1, <2>2 DEF closedView, IsCoolingDown
<1>4. slotView' = [slotView EXCEPT ![u] = k]
  <2>1. \A v \in Names : slotView'[v] = IF v = u THEN k ELSE slotView[v]
    BY <1>0, <1>1 DEF slotView, LoopInv, TypeOK
  <2>2. slotView' = [v \in Names |-> slotView'[v]]
    BY DEF slotView
  <2>3. slotView = [v \in Names |-> slotView[v]]
    BY DEF slotView
  <2>4. QED
    BY <2>1, <2>2, <2>3
<1>5. closedView' = closedView
  BY <1>1 DEF closedView
<1>6. Abstract!Open(u, k)
  BY <1>1, <1>2, <1>3, <1>4, <1>5
     DEF Abstract!Open, Abstract!CooledDown, slotView, closedView
<1>7. QED
  BY <1>1, <1>6 DEF Abstract!Next

LEMMA TrackImplements ==
  ASSUME LoopInv, TrackAndReport
  PROVE  [Abstract!Next]_(Abstract!vars)
<1>0. PICK K \in SUBSET TradeKeys :
        K = {k \in TradeKeys : Terminal(tracked[k]) /\ ~Terminal(tracked'[k])}
  OBVIOUS
<1>1. slotView' = slotView /\ as_of' = as_of
  BY DEF TrackAndReport, slotView
<1>2. ASSUME NEW k \in TradeKeys
      PROVE  /\ k \in K => ~IsCoolingDown(tracked[k], as_of)
             /\ k \notin K => closedView'[k] = closedView[k]
             /\ k \in K => closedView'[k] = -1
  <2>1. k \in Keys
    BY TradeKeysAreOwn
  <2>2. tracked'[k] = tracked[k] \/ (~IsCoolingDown(tracked[k], as_of) /\ Open(tracked'[k]))
    BY <2>1, TrackFacts
  <2>3. QED
    BY <1>0, <2>2 DEF closedView, Open
<1>3. \A k \in K : closedView[k] = -1 \/ as_of - closedView[k] >= Cooldown
  <2>1. \A k \in TradeKeys : tracked[k].last_seen \in Nat
    BY TradeKeysAreOwn DEF LoopInv, TypeOK, Entries, Untracked
  <2>2. as_of \in Nat /\ Cooldown \in Nat
    BY BasicTypes, CooldownAssumption DEF LoopInv
  <2>3. QED
    BY <1>0, <1>2, <2>1, <2>2 DEF closedView, IsCoolingDown
<1>4. closedView' = [k \in TradeKeys |-> IF k \in K THEN -1 ELSE closedView[k]]
  <2>1. closedView' = [k \in TradeKeys |-> closedView'[k]]
    BY DEF closedView
  <2>2. QED
    BY <1>2, <2>1
<1>5. Abstract!Forget(K)
  BY <1>1, <1>3, <1>4 DEF Abstract!Forget, Abstract!CooledDown, slotView, closedView
<1>6. QED
  BY <1>5 DEF Abstract!Next

LEMMA CrashImplements ==
  ASSUME LoopInv, Crash
  PROVE  [Abstract!Next]_(Abstract!vars)
<1>1. slotView' = [u \in Names |-> NoKey]
  BY DEF Crash, slotView
<1>2. closedView' = [k \in TradeKeys |-> -1]
  <2>1. \A k \in TradeKeys : ~Terminal(tracked'[k])
    BY TradeKeysAreOwn DEF Crash, Terminal, Untracked, TerminalStates
  <2>2. QED
    BY <2>1 DEF closedView
<1>3. as_of' \in Nat /\ as_of' >= as_of
  BY BasicTypes DEF LoopInv, Crash
<1>4. Abstract!Restart
  BY <1>1, <1>2, <1>3 DEF Abstract!Restart, slotView, closedView
<1>5. QED
  BY <1>4 DEF Abstract!Next

(***************************************************************************)
(* The loop implements TradeSlots: at most one trade per underlying, every *)
(* closing at a definite time, no reopening of a setup before its cooldown *)
(* is over, within one life of the process.                                *)
(***************************************************************************)
THEOREM LoopImplementsSlots == Spec => SlotSpec
<1>1. Init => Abstract!Init
  <2> SUFFICES ASSUME Init PROVE Abstract!Init
    OBVIOUS
  <2>1. \A k \in TradeKeys : ~Terminal(tracked[k])
    BY TradeKeysAreOwn DEF Init, Terminal, Untracked, TerminalStates
  <2>2. QED
    BY <2>1 DEF Init, Abstract!Init
<1>2. LoopInv /\ LoopInv' /\ [Next]_vars => [Abstract!Next]_(Abstract!vars)
  <2> SUFFICES ASSUME LoopInv, LoopInv', [Next]_vars
               PROVE  [Abstract!Next]_(Abstract!vars)
    OBVIOUS
  <2>1. CASE Closing
    BY <2>1, ClosingImplements
  <2>2. CASE Register
    BY <2>2, RegisterImplements
  <2>3. CASE TrackAndReport
    BY <2>3, TrackImplements
  <2>4. CASE Crash
    BY <2>4, CrashImplements
  <2>5. CASE active' = active /\ tracked' = tracked /\ (as_of' = as_of \/ as_of' = now)
    BY <2>5, QuietStep
  <2>6. QED
    BY <2>1, <2>2, <2>3, <2>4, <2>5 DEF Next, LoopStep, Closing, StartTick, RunCycle,
       SkipRegistration, ClockAdvances, ClockStopped, Restart, vars, loopVars
<1>3. QED
  BY <1>1, <1>2, InvAlways, PTL DEF Spec, SlotSpec, Abstract!Spec

-----------------------------------------------------------------------------
(***************************************************************************)
(* Alerts.  An alerted key is monitored, or was closed no earlier than its *)
(* alert and is still remembered, or its cooldown has run out.             *)
(***************************************************************************)
IsMonitoredKey(k) == \E u \in Monitored : ReadyKey(active[u]) = k

AlertIsAccounted(k) ==
  lastAlert[k].at = -1
    \/ /\ lastAlert[k].at <= as_of
       /\ \/ IsMonitoredKey(k)
          \/ Terminal(tracked[k]) /\ tracked[k].last_seen >= lastAlert[k].at
          \/ as_of - lastAlert[k].at >= Cooldown

AlertInv == \A k \in TradeKeys : AlertIsAccounted(k)

LEMMA AlertTypes ==
  ASSUME LoopInv, NEW k \in TradeKeys
  PROVE  /\ lastAlert[k].at \in Int /\ as_of \in Nat /\ Cooldown \in Nat
         /\ k \in Keys /\ tracked[k].last_seen \in Nat
BY BasicTypes, TradeKeysAreOwn, CooldownAssumption
   DEF LoopInv, TypeOK, Entries, Untracked

LEMMA RegisterSpacesAlerts ==
  ASSUME LoopInv, AlertInv, Register, NEW k \in TradeKeys, lastAlert'[k] # lastAlert[k]
  PROVE  /\ k = ReadyKey(signal[Underlyings[idx]].setup)
         /\ lastAlert'[k].at = as_of
         /\ lastAlert[k].at # -1 => as_of - lastAlert[k].at >= Cooldown
<1> DEFINE u == Underlyings[idx]
           s == signal[u].setup
<1>1. /\ u \in Names /\ u \notin Monitored
      /\ s \in Setups /\ s.underlying = u /\ ReadyKey(s).underlying = u
      /\ ~IsCoolingDown(tracked[ReadyKey(s)], as_of)
      /\ lastAlert' = [lastAlert EXCEPT ![ReadyKey(s)] = [at |-> as_of, setup |-> s]]
  BY BasicTypes, ReadyKeyFacts
     DEF LoopInv, Register, Registrable, IsReady, Monitored, SignalsAreOwn, SignalIsOwn
<1>2. k = ReadyKey(s) /\ lastAlert'[k].at = as_of
  BY <1>1 DEF LoopInv, TypeOK
<1>3. ~IsMonitoredKey(k)
  <2>1. \A v \in Monitored : ReadyKey(active[v]).underlying = v
    BY BasicTypes, ReadyKeyFacts DEF LoopInv, TradesAreOwn
  <2>2. k.underlying = u
    BY <1>1, <1>2
  <2>3. QED
    BY <1>1, <2>1, <2>2 DEF IsMonitoredKey
<1>4. lastAlert[k].at # -1 => as_of - lastAlert[k].at >= Cooldown
  BY <1>1, <1>2, <1>3, AlertTypes DEF AlertInv, AlertIsAccounted, IsCoolingDown
<1>5. QED
  BY <1>2, <1>4

LEMMA AlertStep == LoopInv /\ LoopInv' /\ AlertInv /\ [Next]_vars => AlertInv'
<1> SUFFICES ASSUME LoopInv, LoopInv', AlertInv, [Next]_vars, NEW k \in TradeKeys
             PROVE  AlertIsAccounted(k)'
  BY DEF AlertInv
<1> USE DEF AlertIsAccounted
<1>0. /\ AlertIsAccounted(k)
      /\ lastAlert[k].at \in Int /\ as_of \in Nat /\ Cooldown \in Nat
      /\ k \in Keys /\ tracked[k].last_seen \in Nat
  BY AlertTypes DEF AlertInv
<1>1. CASE Closing
  <2>1. PICK S \in SUBSET Monitored :
          /\ Monitored' = Monitored \ S
          /\ \A u \in Monitored' : active'[u] = active[u]
          /\ as_of' = as_of
          /\ \A u \in S : LET e == tracked'[ReadyKey(active[u])]
                          IN Terminal(e) /\ e.last_seen = as_of
          /\ \A key \in TradeKeys : key \notin {ReadyKey(active[u]) : u \in S}
                                      => tracked'[key] = tracked[key]
    BY <1>1, ClosingStep
  <2>2. lastAlert' = lastAlert
    BY <1>1 DEF Closing, ForceSessionExit, CheckActiveTrades
  <2>3. CASE k \in {ReadyKey(active[u]) : u \in S}
    BY <1>0, <2>1, <2>2, <2>3
  <2>4. CASE k \notin {ReadyKey(active[u]) : u \in S}
    <3>1. IsMonitoredKey(k) => IsMonitoredKey(k)'
      BY <2>1, <2>4 DEF IsMonitoredKey
    <3>2. tracked'[k] = tracked[k]
      BY <2>1, <2>4
    <3>3. QED
      BY <1>0, <2>1, <2>2, <3>1, <3>2
  <2>5. QED
    BY <2>3, <2>4
<1>2. CASE Register
  <2>0. PICK u \in Names, s \in Setups : u = Underlyings[idx] /\ s = signal[u].setup
    BY <1>2, BasicTypes DEF LoopInv, Register, Registrable, IsReady
  <2>1. /\ u \notin Monitored
        /\ s # NoTrade
        /\ active' = [active EXCEPT ![u] = s]
        /\ active \in [Names -> Setups \cup {NoTrade}]
        /\ as_of' = as_of /\ tracked' = tracked
    BY <1>2, <2>0, ReadyKeyFacts DEF LoopInv, TypeOK, Register, Registrable, Monitored
  <2>2. IsMonitoredKey(k) => IsMonitoredKey(k)'
    BY <2>1 DEF IsMonitoredKey, Monitored
  <2>3. IsMonitoredKey(ReadyKey(s))'
    BY <2>1 DEF IsMonitoredKey, Monitored
  <2>4. CASE lastAlert'[k] # lastAlert[k]
    BY <1>0, <1>2, <2>0, <2>1, <2>3, <2>4, RegisterSpacesAlerts
  <2>5. CASE lastAlert'[k] = lastAlert[k]
    BY <1>0, <2>1, <2>2, <2>5
  <2>6. QED
    BY <2>4, <2>5
<1>3. CASE TrackAndReport
  <2>1. /\ active' = active /\ lastAlert' = lastAlert /\ as_of' = as_of
        /\ Monitored' = Monitored
    BY <1>3 DEF TrackAndReport, Monitored
  <2>2. tracked'[k] = tracked[k] \/ ~IsCoolingDown(tracked[k], as_of)
    BY <1>0, <1>3, TrackFacts
  <2>3. IsMonitoredKey(k)' <=> IsMonitoredKey(k)
    BY <2>1 DEF IsMonitoredKey
  <2>4. QED
    BY <1>0, <2>1, <2>2, <2>3 DEF IsCoolingDown
<1>4. CASE Crash
  BY <1>4 DEF Crash
<1>5. CASE /\ active' = active /\ tracked' = tracked /\ lastAlert' = lastAlert
           /\ (as_of' = as_of \/ as_of' = now)
  <2>1. as_of' \in Nat /\ as_of' >= as_of
    BY <1>5, BasicTypes DEF LoopInv
  <2>2. IsMonitoredKey(k)' <=> IsMonitoredKey(k)
    BY <1>5 DEF IsMonitoredKey, Monitored
  <2>3. QED
    BY <1>0, <1>5, <2>1, <2>2
<1>6. QED
  BY <1>1, <1>2, <1>3, <1>4, <1>5 DEF Next, LoopStep, Closing, StartTick, RunCycle,
     SkipRegistration, ClockAdvances, ClockStopped, Restart, vars, loopVars

(***************************************************************************)
(* Two alerts for one setup identity are at least a cooldown apart, in one *)
(* life of the process and for every positive cooldown.                    *)
(***************************************************************************)
THEOREM AlertsSpaced == Cooldown > 0 => (Spec => AlertsAreSpaced)
<1> SUFFICES ASSUME Cooldown > 0 PROVE Spec => AlertsAreSpaced
  OBVIOUS
<1> DEFINE A == \A k \in TradeKeys :
                  (lastAlert'[k] # lastAlert[k] /\ lastAlert[k].at # -1 /\ pc' # "down")
                    => as_of - lastAlert[k].at >= Cooldown /\ as_of > lastAlert[k].at
<1>1. LoopInv /\ AlertInv /\ [Next]_vars => A
  <2> SUFFICES ASSUME LoopInv, AlertInv, [Next]_vars, NEW k \in TradeKeys,
                      lastAlert'[k] # lastAlert[k], lastAlert[k].at # -1, pc' # "down"
               PROVE  as_of - lastAlert[k].at >= Cooldown /\ as_of > lastAlert[k].at
    OBVIOUS
  <2>1. Register
    BY DEF Next, LoopStep, StartTick, RunCycle, ForceSessionExit, CheckActiveTrades,
       SkipRegistration, TrackAndReport, ClockAdvances, ClockStopped, Crash, Restart, vars
  <2>2. as_of - lastAlert[k].at >= Cooldown
    BY <2>1, RegisterSpacesAlerts
  <2>3. QED
    BY <2>2, AlertTypes
<1>2. Init => AlertInv
  BY DEF Init, AlertInv, AlertIsAccounted
<1>3. LoopInv /\ AlertInv /\ [Next]_vars => [A]_vars
  BY <1>1
<1> HIDE DEF A
<1>4. Spec => [][A]_vars
  BY <1>2, <1>3, AlertStep, InvAlways, PTL DEF Spec
<1>5. QED
  BY <1>4 DEF A, AlertsAreSpaced

-----------------------------------------------------------------------------
(***************************************************************************)
(* Arithmetic of the time of day.                                          *)
(***************************************************************************)
LEMMA RemainderIsUnique ==
  ASSUME NEW D \in Nat \ {0}, NEW q \in Int, NEW p \in Int,
         NEW r \in 0 .. D - 1, NEW s \in 0 .. D - 1, D * q + r = D * p + s
  PROVE  r = s
<1>1. \A x \in Int : x >= 1 => D * x >= D
  OBVIOUS
<1>2. D * (q - p) = s - r /\ D * (p - q) = r - s
  OBVIOUS
<1>3. CASE q - p >= 1
  BY <1>1, <1>2, <1>3
<1>4. CASE p - q >= 1
  BY <1>1, <1>2, <1>4
<1>5. CASE p = q
  BY <1>2, <1>5
<1>6. QED
  BY <1>3, <1>4, <1>5

LEMMA TimeOfDayMoves ==
  ASSUME NEW t \in Nat, NEW d \in Nat, NEW D \in Nat \ {0}, (t % D) + d < D
  PROVE  (t + d) % D = (t % D) + d
<1>1. /\ t % D \in 0 .. D - 1 /\ (t + d) % D \in 0 .. D - 1
      /\ t \div D \in Int /\ (t + d) \div D \in Int
  OBVIOUS
<1>2. t = D * (t \div D) + (t % D)
  OBVIOUS
<1>3. t + d = D * ((t + d) \div D) + ((t + d) % D)
  OBVIOUS
<1>4. D * (t \div D) + ((t % D) + d) = D * ((t + d) \div D) + ((t + d) % D)
  BY <1>1, <1>2, <1>3
<1>5. (t % D) + d \in 0 .. D - 1
  BY <1>1
<1>6. QED
  BY <1>1, <1>4, <1>5, RemainderIsUnique

(***************************************************************************)
(* The windows and gaps under which the session exit cannot be missed: the *)
(* opening period ends by the cutoff, and no two ticks are further apart   *)
(* than cutoff and close.                                                  *)
(***************************************************************************)
ExitIsReached ==
  /\ OpeningEnd(Window) <= Window.entry_cutoff
  /\ MaxGap <= Window.market_close - Window.entry_cutoff

HeldInSession ==
  /\ pc # "down" => now - as_of <= MaxGap
  /\ Monitored # {} => IsWithinSession(Window, as_of % DayLength)

LEMMA WindowTypes ==
  /\ DayLength \in Nat \ {0}
  /\ Window.market_open \in Nat /\ Window.market_close \in Nat /\ Window.entry_cutoff \in Nat
  /\ Window.market_close < DayLength
  /\ OpeningEnd(Window) \in Nat
  /\ MaxGap \in Nat /\ Interval \in Nat
BY DayLengthAssumption, LiveLoopAssumption DEF IsWindow, TimeOfDay, OpeningEnd, AddMinutes

LEMMA NextTickInSession ==
  ASSUME LoopInv, ExitIsReached, HeldInSession, StartTick, Monitored # {}
  PROVE  IsWithinSession(Window, now % DayLength)
<1> DEFINE t == as_of % DayLength
           d == now - as_of
<1>1. as_of \in Nat /\ now \in Nat /\ d \in Nat /\ d <= MaxGap /\ now = as_of + d
  BY BasicTypes, WindowTypes DEF LoopInv, HeldInSession, StartTick
<1>2. t \in Nat
  BY <1>1, WindowTypes
<1>3. PhaseAt(Window, t) \notin {"PRE_MARKET", "CLOSED", "POST_ENTRY_CUTOFF"}
  BY DEF LoopInv, SessionExitHolds, StartTick, HeldInSession, IsWithinSession, Phase
<1>4. t >= Window.market_open /\ t < Window.entry_cutoff
  BY <1>2, <1>3, WindowTypes DEF PhaseAt, ExitIsReached
<1>5. t + d < Window.market_close
  BY <1>1, <1>2, <1>4, WindowTypes DEF ExitIsReached
<1>6. now % DayLength = t + d
  <2>1. t + d < DayLength
    BY <1>1, <1>2, <1>5, WindowTypes
  <2> HIDE DEF d
  <2>2. QED
    BY <1>1, <2>1, TimeOfDayMoves, WindowTypes
<1>7. now % DayLength >= Window.market_open /\ now % DayLength < Window.market_close
  BY <1>1, <1>2, <1>4, <1>5, <1>6, WindowTypes
<1>8. now % DayLength \in Nat
  BY <1>1, WindowTypes
<1>9. QED
  BY <1>7, <1>8, WindowTypes DEF IsWithinSession, PhaseAt

LEMMA HeldStep == LoopInv /\ LoopInv' /\ ExitIsReached /\ HeldInSession /\ [Next]_vars
                    => HeldInSession'
<1> SUFFICES ASSUME LoopInv, LoopInv', ExitIsReached, HeldInSession, [Next]_vars
             PROVE  HeldInSession'
  OBVIOUS
<1>0. now \in Nat /\ as_of \in Nat /\ MaxGap \in Nat /\ Interval \in Nat
  BY BasicTypes, WindowTypes DEF LoopInv
<1>1. CASE StartTick
  <2>1. Monitored' = Monitored /\ as_of' = now /\ now' = now
    BY <1>1 DEF StartTick, Monitored
  <2>2. QED
    BY <1>0, <1>1, <2>1, NextTickInSession DEF HeldInSession
<1>2. CASE Closing
  <2>1. Monitored' \subseteq Monitored /\ as_of' = as_of
    BY <1>2, ClosingStep
  <2>2. now' = now /\ pc # "down" /\ pc' # "down"
    BY <1>2 DEF Closing, ForceSessionExit, CheckActiveTrades
  <2>3. QED
    BY <2>1, <2>2 DEF HeldInSession
<1>3. CASE Register
  <2>1. IsWithinSession(Window, as_of % DayLength)
    BY <1>3, BasicTypes DEF LoopInv, Register, Registrable, ReadyIsAuthorised, IsReady,
       MayAuthorise, IsNewEntryAllowed, IsWithinSession
  <2>2. as_of' = as_of /\ now' = now /\ pc # "down"
    BY <1>3 DEF Register
  <2>3. QED
    BY <2>1, <2>2 DEF HeldInSession
<1>4. CASE ClockAdvances
  <2>1. as_of' = as_of /\ Monitored' = Monitored /\ now' = now + 1 /\ pc' = pc
    BY <1>4 DEF ClockAdvances, loopVars, Monitored
  <2>2. pc # "down" => now + 1 - as_of <= MaxGap
    BY <1>0, <1>4 DEF ClockAdvances
  <2>3. (pc # "down" => now - as_of <= MaxGap)'
    BY <1>0, <2>1, <2>2
  <2>4. (Monitored # {} => IsWithinSession(Window, as_of % DayLength))'
    BY <2>1 DEF HeldInSession
  <2>5. QED
    BY <2>3, <2>4 DEF HeldInSession
<1>5. CASE Crash
  BY <1>5 DEF Crash, HeldInSession, Monitored
<1>6. CASE Restart
  <2>1. Monitored' = {} /\ as_of' = now /\ now' = now
    BY <1>6 DEF Restart, Monitored, LoopInv, DownIsEmpty
  <2>2. QED
    BY <1>0, <2>1 DEF HeldInSession
<1>7. CASE /\ active' = active /\ as_of' = as_of /\ now' = now
           /\ (pc = "down" <=> pc' = "down")
  BY <1>7 DEF HeldInSession, Monitored
<1>8. CASE RunCycle \/ SkipRegistration
  <2>1. pc # "down" /\ active' = active /\ as_of' = as_of /\ now' = now
    BY <1>8 DEF RunCycle, SkipRegistration
  <2>2. QED
    BY <2>1 DEF HeldInSession, Monitored
<1>9. QED
  BY <1>1, <1>2, <1>3, <1>4, <1>5, <1>6, <1>7, <1>8 DEF Next, LoopStep, Closing,
     TrackAndReport, ClockStopped, vars, loopVars

(***************************************************************************)
(* If the opening period ends by the cutoff and the ticks are no further   *)
(* apart than cutoff and close, no trade is monitored outside the session. *)
(***************************************************************************)
THEOREM NothingIsHeldOutside == ExitIsReached => (Spec => []NothingHeldOutsideSession)
<1> SUFFICES ASSUME ExitIsReached PROVE Spec => []NothingHeldOutsideSession
  OBVIOUS
<1>1. Init => HeldInSession
  BY WindowTypes DEF Init, HeldInSession, Monitored
<1>2. LoopInv /\ LoopInv' /\ HeldInSession /\ [Next]_vars => HeldInSession'
  BY HeldStep
<1>3. HeldInSession => NothingHeldOutsideSession
  BY DEF HeldInSession, NothingHeldOutsideSession
<1>4. QED
  BY <1>1, <1>2, <1>3, InvAlways, PTL DEF Spec
=============================================================================
