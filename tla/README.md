# Verification of the PSYGRID option engine

TLA+ models, model-checking runs and machine-checked proofs for the option
engine in `src/`. The engine fetches market data for NIFTY, BANKNIFTY and
SENSEX, decides for each whether there is a trade, and in `--live` mode watches
the trades it has announced until they are resolved. It places no orders: its
product is a stream of reports and Telegram alerts, and what can go wrong is
that the stream says something it should not - an alert twice, an alert too
late, a trade that is watched for ever or forgotten without a verdict.

Contents: [parts](#parts-of-the-system) ·
[hard behaviours](#what-is-hard-here) · [modules](#modules) ·
[runs](#runs) · [bounds](#bounds) · [fairness](#fairness) ·
[proofs](#proofs) · [divergences](#where-code-and-documentation-disagree) ·
[not modelled](#what-is-not-modelled) · [plan](#plan)

## Parts of the system

| part | state | operations | talks to |
|---|---|---|---|
| Live loop, `run_engine.py` | `active_trades`, the tick's `now` and results | `_run_live` tick: run_cycle per underlying, `_force_session_exit`, `_check_active_trades`, `_register_new_active_trades`, tracker update, report, sleep | runtime, tracker, session window, notifier |
| Lifecycle tracker, `signals/lifecycle.py` | `_tracked`: setup identity to state, tier, times | `update`, `force_expire`, `expire_stale`, `reset`, `is_repeat`, `is_cooling_down` | called by the loop |
| Session window, `config/session.py` | frozen configuration | `phase_at`, `is_new_entry_allowed`, `is_within_session` | loop, risk gate, runtime |
| Cycle runtime, `api/runtime.py`, `api/state_machine.py` | state path of a cycle | `run_cycle`: session gate, load, validate, decide | client, validation, decision |
| Upstream client, `data/client.py` | connection pool | one GET per endpoint, in sequence, with timeouts, retries and backoff | upstream service |
| Data quality and snapshot, `data/validation.py`, `data/snapshot_builder.py` | none | source status against the tick's time; parsing | decision |
| Decision, `api/decision.py` | none | evidence, regime, opportunity, selection, engineering, risk; TRADE_READY or NO_TRADE with reasons | all analysis modules |
| Authorization, `authorization/*` | none | frameworks, confluence counts, tiers, best opportunity | decision |
| Option selection, execution, risk | none | contract choice, stop and targets, gates | decision |
| Structure and market evidence | none | swings, levels, regime, indicators, aggregation | decision |
| Replay, notifier, schema | capture files; an HTTP client; none | capture and replay a bundle; send; validate a signal | runtime; loop; decision |

Everything runs in one thread. Within a process the only shared mutable state
is the loop's own (`active_trades`, the tracker). Concurrency comes from
outside: the wall clock moves while the loop fetches, posts and sleeps; the
upstream publishes while it is being read; systemd kills and restarts the
process.

What makes each part correct:

* **Session window** - phases walk through the day in one direction, new
  entries are allowed in one interval that ends at the cutoff.
* **Tracker** - a closed identity stays closed for a cooldown counted from its
  closing, however often the setup is seen meanwhile; the ladder
  TRIGGERED, CONFIRMED, ACTIVE counts consecutive sightings.
* **Live loop** - one trade per underlying; every trade let go leaves a
  verdict in the tracker; no identity is alerted twice within a cooldown;
  nothing is watched past the session exit; every watched trade is let go.
* **Client and data quality** - a tick ends in bounded time whatever the
  upstream does; a decision rests on complete, sound, timely critical data, and
  a replay of the same bundle differs from it only for reasons that can be named.
* **Runtime** - a cycle's path is one the documented state machine allows.
* **Structure** - nothing depends on a bar that had not ended; what was found
  stays found; neither side of the market is favoured; a level is traded on the
  side the candles say.
* **Decision and authorization** - TRADE_READY only if every gate agreed; a tier
  is the highest whose requirements hold; trying one opportunity loses none;
  a thesis is alive when it is announced.
* **Selection, execution, risk** - stop and target lie on the right sides of
  the entry; no offered contract is better in everything than the one taken;
  what passes the gates also passes the schema.

## What is hard here

`PROJECT.json` lists the hazards with their lines. The important ones:

* One clock reading per tick (`run_engine.py:349`). It decides the entry check,
  the cooldown and the session exit, after fetches that may have taken long.
* Two memories of one trade. `active_trades` says what is watched, the tracker
  says what is closed; a tick writes the first in `_register_new_active_trades`
  and the second only at its end, and a closing has to find them consistent.
* The session exit is a phase, not an event: it needs a tick to fall between
  cutoff and close.
* An identity is a string. Its level is printed with `:g`, so two levels can
  have one identity.
* All of it is in memory: a restart forgets trades and cooldowns.
* The boundary `as_of` is older than the data judged by it, and later
  underlyings of a tick are fetched later still.
* The payload always holds the bar still forming, may hold bars newer than the
  boundary, and may send a bar late or again with other prices.
* A support is told from a resistance by a price that is newer than the candles
  the reaction at it was read from.
* The same ratios are asked for twice, by the tier gate of the underlying's
  distances and by the risk gate of the premium's; the same conflict is counted
  twice; each gate is a pure function, but what they let through together is
  written nowhere.

## Modules

| module | models | state and actions |
|---|---|---|
| `SessionWindow` | `config/session.py`, the fields of `Settings` | operators only: `PhaseAt` tests the boundaries in the code's order, `AddMinutes` wraps at midnight, `IsWindow` admits every window `Settings` accepts, ordered or not |
| `SessionDay` | a day going by under such a window | `tod`, `window`; `Tick` reads any later time of the day |
| `LifecycleOps` | the tracker's methods on one entry | operators only: `Update`, `ForceExpire`, `ExpireStale`, `IsCoolingDown`, `IsRepeat` |
| `Lifecycle` | `LifecycleTracker` | `tracked`; one action per public method. `LiveSpec` has the calls the loop makes, `Spec` adds `expire_stale` and `reset`, which only tests call |
| `CooldownGuard` | what the tracker promises | abstract: a set of closed keys and when each was closed |
| `LiveLoop` | `_run_live` and its helpers, restart by systemd | below |
| `CycleOutcome` | what a cycle may answer the loop: the signals of `run_cycle` seen from `run_engine.py` | operators only: `Signals`, `MayAuthorise`, `OutcomesAt` |
| `TradeSlots` | what the loop promises | abstract: a slot per underlying, closings and cooldowns |
| `DataQuality` | `data/validation.py`, `EndpointFetchResult` and `RawFetchBundle` | operators only: `AssessSourceStatus` in the code's order, `CriticalEndpointsOk` with the extraction check of `build_market_snapshot` |
| `FetchCycle` | one tick's data side: `data/client.py`, `api/runtime.py`, `api/state_machine.py`, the boundary of `replay/engine.py` | below |
| `Regime`, `Frameworks` | `structure/regime.py`, `authorization/frameworks.py` | operators only: the vote and its priorities; the eight frameworks |
| `Structure` | candles of `data/snapshot_builder.py`, `market/aggregation.py`, `market/pullback.py`, `structure/*` | operators only: `BuildUnderlying`, `FindSwings`, `ClassifyReaction`, `DerivePullback`, `AnalyzeStructure` ... |
| `CandleFeed` | the upstream's bars and the ticks that read them | `payload`, `asOf`, `clock`; bars open punctually or late and are sent again, ticks take a boundary |
| `Evidence` | `market/momentum.py`, `futures_analysis.py`, `breadth.py`, `context.py`, `divergence.py`, `options/chain.py`, `authorization/confluence.py`, `tiers.py` | operators only: stances, counts, tiers |
| `Contracts` | `options/depth.py`, `selection.py`, `execution/engine.py`, `risk/validation.py`, the validators of `signals/schema.py` | operators only: `SelectContract`, `EngineerTrade`, `RiskPasses`, `SchemaAccepts` |
| `Decision` | `decide()` of `api/decision.py`, `authorization/opportunity.py` | one stage per part of the function: `AnalyzeStructure`, `EvaluateContext`, `SelectContracts`, `WeighEvidence`, `Conclude` |
| `DecisionOutcome` | what `decide()` returns to the loop: the two signal constructors, `best_developing` | operators only: `Outcome`, compared with `CycleOutcome`'s answers |
| `MC*` | instances for TLC | constants only |
| `*Proofs` | theorems | see [proofs](#proofs) |

Four compositions hold these together.

* `LiveLoop` is built from the tracker's and the session window's operators, and
  from `CycleOutcome`, the answers a cycle may give.
* `DecisionOutcome` shows that `Decision` gives no other answers:
  `OutcomeIsTheLoops` compares the signal `decide()` ends with, its setup and its
  tier with `CycleOutcome`'s, taken by `INSTANCE` with the decision's constants.
* `FetchCycle` is built from `DataQuality` and the session window. It has a signal
  exactly in the session (`PathIsDocumented`), which is when `CycleOutcome` has
  one; what it leaves open, the answer of `decide()`, is `Decision`'s subject;
  and the longest tick it allows (`TickBound`) is what `LiveLoop` assumes in
  `MaxGap`.
* `Decision` and `CandleFeed` share `Frameworks`: the former feeds it abstract
  reactions and everything else a decision takes, the latter the reactions real
  sequences of bars produce.

`LiveLoop` uses the operators of `LifecycleOps` and `SessionWindow`, as the code
does. A tick is a sequence of stages, kept in `pc`; a stage that takes real time
(`cycle`, `register`, `sleep`, `down`) lets the clock move, the others do not.

| action | code |
|---|---|
| `StartTick` | `now = datetime.now(UTC)` |
| `RunCycle` | one `runtime.run_cycle(u, now=now)` of the dict comprehension |
| `ForceSessionExit` | `_force_session_exit` |
| `CheckActiveTrades` | `_check_active_trades`, `_current_premium` |
| `Register`, `SkipRegistration` | one round of `_register_new_active_trades`, the alert included |
| `TrackAndReport` | the update and `is_repeat` loop, the report, the sleep |
| `ClockAdvances` | fetches, posts and sleep taking time |
| `Crash`, `Restart` | an exception out of the loop, a deployment; `Restart=always` |

`FetchCycle` keeps the program counter of the client inside the runtime inside
the tick:

| action | code |
|---|---|
| `StartTick` | `now = datetime.now(UTC)` |
| `EnterCycle` | `run_cycle`: the session gate; outside the session the cycle is complete, else `fetch_snapshot` reads `requested_at` |
| `Answer`, `Reject` | a response with some payload and time stamp; a status that is not retried |
| `Retry`, `TryAgain`, `GiveUp` | an attempt fails in a way that is retried; the wait is over; the attempts are used up |
| `Assess` | `build_market_snapshot` and the gate on critical data |
| `Decide` | `decide()` and the walk to the terminal state |
| `Raise` | `build_market_snapshot` or `decide()` raises: nothing catches it, the tick is lost with the process |
| `NextCycle` | the dict comprehension goes on |
| `ClockAdvances` | between ticks, during a request for at most `Timeout`, between attempts for at most `MaxBackoff` |

Abstractions, and why they lose nothing the properties tell apart:

* A cycle is its outcome: no signal outside the session, NO_TRADE with or
  without a developing setup, TRADE_READY with an actionable tier while
  `validate_risk` lets entries through (`CycleOutcome`). Which market data lead to
  which outcome is left open, so every sequence of outcomes is explored; that
  `decide()` has no other outcome is `OutcomesAreTheLoops`.
* Of the data only two things are read by the loop: the ltp in `market_state`
  (or its absence, `NoPrice`) and where the premium lies between stop and
  target (or that the leg is missing). Both are chosen when the cycle runs, and
  only for a trade that is watched. The premium carries no data-quality verdict
  in the code either.
* `engineer_trade` refuses a level the price sits on, so a TRADE_READY signal
  never comes with that price.
* A setup is a record of underlying, direction, framework and level. Levels are
  integers, and `KeyGrain` is the distance below which `:g` prints two of them
  alike (`KeyGrain = 1`: all distinct).
* `TrackedSetup.first_seen` is written and never read; entries leave it out.
* The clock never runs backwards. The code compares `datetime` values and
  has no defence against a clock set back.
* A payload is a fate - lost, rejected, no JSON, empty, of the wrong shape,
  marked synthetic, hollow (well-formed, with nothing the snapshot needs),
  whole - and a time stamp. These are the distinctions `validation.py` makes.
* Prices are integers. In `Structure` the fractions of the code (0.1% pierced,
  0.08% equal, 38.2% and 61.8% retraced) are compared by cross multiplication;
  the average of a cluster of equal levels is rounded down. In `Contracts`
  premiums are counted in ten-thousandths and the score of a contract is
  compared over a common denominator, so nothing is rounded there.
* Indicators enter as classes: ADX as trending, flat or absent; band width as
  wide, narrow, steady or absent; sizes and ratios as the intervals the code
  compares them with.
* A leg has its strike, and of its `security_id` whether there is one
  (`selection.py:175`); its other names are reports. The wording of a signal and
  the fields pydantic merely types (dates, the literal of the underlying) cannot
  fail on what the pipeline passes and are left out.
* `Decision` evaluates contracts and evidence only for a direction a framework
  asks for; the code computes both, and the other reaches no result.
* `frameworks.py` takes a level for a support when it is below the price,
  `liquidity.py` when it is not above it. Both are kept.
* `aggregate_intraday` is modelled although only tests call it: the engine reads
  the upstream's own timeframes.
* Printing and Telegram are events: a full report, a status line, an alert.
  Whether a post succeeds changes no state in the code (`telegram.py:76`).
* `lastAlert`, `closedAt` and `sightings` are auxiliary: written beside the
  code's state and read by properties only.

Operators commented *Slip* are plausible mistakes in the operator that follows
them. No specification uses them; putting one in the place of its operator
makes a named property fail, which shows that the property notices. The
pairs are `mutants` in `PROJECT.json`.

## Runs

Each is `tlc -config X.cfg M` in this directory.

| run | configuration | shows |
|---|---|---|
| `session_day` | `MCSessionDay.cfg` | every window of a six-unit day: phases only advance; the entry window is one interval and never reopens; the cutoff is kept if the opening period ends by then |
| `tracker_live` | `MCLifecycleLive.cfg` | two keys under the loop's calls: cooldown clock, ladder, re-entry, and `CooldownGuard` implemented |
| `loop_day` | `MCLiveLoopDay.cfg` | one underlying with two rival setups and a developing one, a whole day into the closed market: all safety properties of the loop and `TradeSlots` implemented |
| `loop_two` | `MCLiveLoopTwo.cfg` | two underlyings in one tick, a crash anywhere: trades closed together, `TradeSlots`, and that every watched trade is let go |
| `fetch_cycle` | `MCFetchCycle.cfg` | a tick over two underlyings with every failure of every request: its length, what a TRADE_READY rests on, replay against live, the state machine, and that it ends |
| `candle_feed` | `MCCandleFeed.cfg` | every day of five bars, punctual or late, one of them sent again: the structure analysis |
| `decision` | `MCDecision.cfg` | `decide()` over every combination of structure, evidence, contracts and range of the instance |
| `loop_repeat`, `fetch_boundary`, `candle_break`, `decision_thesis`, `decision_raises` | `MCLiveLoopRepeat.cfg`, `MCFetchCycleAsOf.cfg`, `MCCandleFeedBreak.cfg`, `MCDecisionThesis.cfg`, `MCDecisionRaises.cfg` | **violated**: five statements of the documentation, see [divergences](#where-code-and-documentation-disagree) |

The properties of the loop, in the order in which they build on each other:

* `ClosureIsRecorded` - a trade leaves `active_trades` only in a step that makes
  its key terminal with this tick's time, EXPIRED exactly in the phase after the
  cutoff, where the session exit comes before the check of the trades. `force_expire` on a terminal key is a
  no-op, so this needs
* `MonitoredKeyIsOpen` - the tracker holds a watched setup as live whenever the
  loop may close it, although registration does not touch the tracker. Between
  registration and the end of the tick the key may still be an expired terminal
  one; that window closes because the same tick feeds the same signal.
* `AlertsAreSpaced` - two alerts for one identity are a cooldown apart, also when
  the signal that resolved a trade would open it again in the same tick.
* `SessionExitHolds`, `NothingHeldOutsideSession` - the session exit empties the
  watch list, later ticks of the phase do not refill it, and no trade is carried
  past the close.
* `SlotSpec` - the loop implements `TradeSlots`. The slot of an underlying shows
  the key of its trade; the remembered closings are the tracker's terminal
  entries. `StartTick` is the abstract `NextTick`, both closing stages are
  `Close`, `Register` is `Open`, the update that drops expired closings is
  `Forget`, `Crash` is the abstract `Restart`.
* `EveryTradeConcludes` - every watched trade is let go, by a verdict, by the
  session exit or with the process.

The properties of the data side:

* `TickIsBounded` - every attempt of every endpoint of every underlying timing
  out, and the waits between: no tick is longer. `EveryTickEnds` - and each ends,
  with its cycles or with an exception.
* `ReadyRestsOnSoundData` - behind every TRADE_READY is a complete bundle whose
  critical payloads were usable, observed no later than `now` although fetched
  after it, and no older at the signal than tolerance and tick together. The
  code checks the age at `now` only; this is the age that counts.
* `ReplayDiffersOnlyInTheGap` - live and replay judge one bundle at different
  boundaries; where they disagree, a critical stamp lies between the two, or a
  tolerance ends there.
* `PathIsDocumented` - every step of a cycle is in `TRANSITIONS`, its last state
  tells what its signal tells, it has a signal exactly when the tick's time is in
  the session, and no analysis is entered past a closed gate.

Those of the structure analysis:

* `NoLookahead` - dropping every bar that had not ended at the boundary changes
  nothing in the analysis but the price.
* `SwingsAreFinal`, `AggregatesAreFinal` - what was found a bar or a period ago
  is still there, unless the upstream corrected an ended bar; for aggregates
  also only while it was punctual, since a bucket is closed by the clock.
* `MirrorImage` - the day turned upside down gives the opposite bias, mirrored
  levels and the same reactions, ties excepted (equal swings count as bearish).
  It speaks of days that can be turned (`Mirrorable`): a sweep is measured in
  parts of the level, which the mirror changes, so no price may lie between the
  two measures. The instance is one (`DaysAreMirrorable`, evaluated by TLC).
* `PullbackLiesInTheImpulse` - what is called a pullback has the price between
  the ends of the impulse; `FAILED` is out of reach.
* `FadesTradeWithTheClose` - a sweep, a failed break or a rejection is bought
  only if the last candle closed not below the level, and sold only if not above.

Those of the decision:

* `TierCeiling` - TIER_4 asks for seven supportive items, and five can be had.
* `NoSecondChanceLost` - only the best opportunity is tried, and when it fails
  no other would have passed: two frameworks apply together only in a trend,
  and then with one direction, invalidation and target.
* `ReadyNeedsMargin` - the tier gate's 1.2 and the risk gate's 1.2 of distances
  that differ by the safety margin come to 1.38.
* `DoubleCountedConflictVetoes` - one conflict is forgiven by TIER_1, but futures
  and breadth are counted twice.
* `LevelTradesAreAlive` - a trade on a level reaction has the level strictly
  behind the price (a trend's invalidation need not be, see `decision_thesis`).
* `RaisesOnlyForBadQuotes` - what passes the gates passes the schema, but for a
  contract with a crossed book or a strike that is not positive, which no gate
  looks at; a zero price is the only other exception of `decide()` where no price
  of the underlying is negative.
* `NoDominatedContract` - no survivor beats the selected contract in open
  interest, spread and delta at once.
* `OutcomeIsTheLoops` - in a tick of the session, `decide()` answers what the loop
  expects of a cycle: a TRADE_READY has an actionable tier and a level that is
  not the current price, and comes only while new entries are let through; a
  NO_TRADE names a developing setup of this underlying, or none.

## Bounds

| bound | value | why it is enough |
|---|---|---|
| day | 6, 7 or 8 units | every phase occurs, and the cutoff phase is as long as the largest gap between ticks |
| `Horizon` | the clock stops there | `loop_day` runs past the close to midnight; `loop_two` to the close |
| `Interval`, `MaxGap` | 1, 2 | a tick may straddle any boundary; two ticks may skip a unit |
| `Cooldown` | 1 or 2 | shorter and longer than a gap; several closings of a key fit into a day |
| underlyings | 1 or 2 | the loop's state is per underlying except for what one stage does to several at once |
| `MaxCrashes` | 0 or 1 | a crash erases all state, so a second one adds no new history |
| tiers | 0 to 1 or 2 | below the trigger tier, at WATCH, at the trigger: the branches of `update` |
| tracker keys | 2 | a call could disturb another key only |
| endpoints | 3 of 11 | one of each kind: critical with content that must be extracted, critical without, optional |
| `Attempts`, `Timeout`, `MaxBackoff` | 2, 1, 1 | one retry, and time passing in each kind of wait |
| `Answers`, `Past`, `Skew` | whole, hollow, no JSON; stamps up to one unit old | one fate of each kind the gate tells apart; stamps on both sides of `now` and of the tolerances, since later requests are answered up to several units after it |
| `Horizon` of `fetch_cycle` | 1 | ticks before the market opens and in it |
| bars of `candle_feed` | 5, of four shapes, `Lookback` 1 | two swings of each kind; every kind of reaction and pullback the code can give (`MCCandleFeed` says which shape is for what); one correction among the first two bars |
| `Widths` | 2, 4 | buckets that end within the day and after it |
| `decision` | prices 0 and 100, two invalidation levels, three ranges, levels on both sides of and at the price, fifteen chains, nine sets of observations; ticks before the session, in the entry window and after the cutoff | ratios on every side of each threshold; a contract for each way to fail; each stream absent, neutral, for and against |

`MaxGap` deserves care. It says how far apart the clock readings of two ticks may
be: the loop's own work takes at most `MaxGap - Interval`. `FetchCycle` justifies
it for the fetches: they take at most `TickBound`, the number of underlyings
times endpoints times what `Attempts` time-outs and the waits between them take
(`TicksAreBounded`). With the defaults (three underlyings, eleven
endpoints, four attempts of five seconds, waits of at most ten) that is 27
minutes, just below the half hour between cutoff and close; a suspended host is
not in it. `NothingHeldOutsideSession` is true only while `MaxGap` is no longer than
the time from cutoff to close (half an hour by default) and the opening period
ends by the cutoff; with `entry_cutoff` at or after `market_close` there is no
such phase, no session exit, and a trade is carried to the next day. The proof
states exactly this condition (`ExitIsReached`).

The window's units are minutes in the code; the models use one unit for the
clock, the window and the cooldown.

## Fairness

`FairSpec` has weak fairness on the loop's steps (`while True` in a single
thread whose blocking calls time out), on the clock, and on `Restart`
(`Restart=always` in the systemd unit written by `deploy-oracle.yml`). Crashes
get none: nothing makes the process die. The request timeouts of the HTTP
client are per phase of a request, so an upstream that keeps dripping bytes
could hold a tick longer than assumed; the fairness rests on that not going on
for ever. Liveness is checked with the clock stopping at `Horizon` after the
cutoff phase has gone by (`ClockStopped` keeps that from being a deadlock).

`FetchCycle`'s `FairSpec` has weak fairness on the steps of a tick only, not on
the clock: a request that waits is answered, refused or timed out by a step of
its own, and the attempts are counted, so the tick ends however slowly. The
remaining specifications state none: their properties are about what is done,
not that something is.

## Proofs

Checked by TLAPS, for every value of the constants that satisfies the named
assumptions (`DayLengthAssumption`, `WindowsAssumption`, `CooldownAssumption`,
`LifecycleAssumption`, `LiveLoopAssumption`, `EndpointsAssumption`,
`CycleAssumption`, `NoneAssumption`, `DecisionAssumption`, `OutcomeAssumption`,
`StructureAssumption`, `LabelAssumption`, `PullbackAssumption`,
`FeedAssumption`). They say what type a constant has, that a setup belongs to a
configured underlying, that a bar's open and close lie between its low and its
high, and that an absent value is told from a present one. Two theorems have a
hypothesis of their own beside them: `NothingIsHeldOutside` (`ExitIsReached`) and
`NeitherSideFavoured` (`Mirrorable`).

`SessionDayProofs`: `DayTypeCorrect`, `PhasesAdvance`, `EntryStaysShut`,
`CutoffIsKept`. Case analysis over the order of the boundaries; no order among
them is assumed.

`LifecycleOpsProofs`: what `Update` and `ForceExpire` return. A verdict makes an
entry terminal now; evidence never makes one terminal, leaves a cooling entry
as it is and opens any other.

`LifecycleProofs`: `TypeCorrect`, `LadderCounts` (under every public method),
`ClockIsKept`, `ReentryIsGuarded`, `TrackerImplementsGuard` (under the loop's
calls). The last three rest on `CooldownClock`, the fact that a terminal
entry's `last_seen` is the time it was closed; it is inductive with the types,
and false once `expire_stale` is called.

`LiveLoopProofs`: `LoopTypeCorrect`, `SessionExitIsFinal`, `MonitoredIsOpen`,
`ClosuresAreRecorded`, `AlertsSpaced`, `LoopImplementsSlots`,
`NothingIsHeldOutside`. None of the properties is inductive. The invariant
`LoopInv` adds

* `SignalsAreOwn`, `TradesAreOwn` - signals and trades name their own
  underlying, so keys of different underlyings differ and a closing of one
  cannot disturb the other's entry;
* `ReadyIsAuthorised` - a TRADE_READY signal was authorised for this tick's time
  and lives no longer than the tick. This is why registration cannot undo the
  session exit of the same tick;
* `DownIsEmpty` - a process that is down watches nothing;
* `TradesAreTracked` - a watched trade's key is open, or the trade was
  registered in this tick and its signal, still to be fed to the tracker, has
  the same key and finds no cooldown.

There is one lemma per action. The two closing stages share `CloseFacts`
(a closing changes the closed underlyings' keys and no others) and
`ClosingStep`, from which `ClosuresAreRecorded` and the abstract `Close` follow.
`AlertsSpaced` needs a second invariant, `AlertInv`: an alerted key is watched,
or was closed after its alert and is remembered, or its cooldown is over.
It assumes `Cooldown > 0`. `NothingIsHeldOutside` assumes `ExitIsReached` and
uses that the time of day moves without wrapping inside the session.

`FetchCycleProofs`: `TickTypeCorrect`, `TicksAreBounded`, `TicksRunOut`,
`CyclesWalkTheStateMachine`, `ReadySignalsAreSound`, `ReplayDiffersInTheGap`.
Four invariants, each relying on the ones before:

* `TypeInv` - the types, and that a request is only open for an endpoint that is
  still to be fetched and an attempt that is allowed;
* `TickInv` - the budget: at every point of the tick the time gone since `now` is
  at most what the served underlyings, the fetched endpoints and the attempts
  made so far may have taken. `TickIsBounded` is its value at the end;
* `WalkInv` - the path is one of a few, known by stage and by whether the tick's
  time is in the session;
* `BundleInv` - a bundle is complete when it is judged, and its times are in
  order. What a status OK means (`OkMeans`) does the rest.

`TicksRunOut` is the part of `EveryTickEnds` that can be proved: `StepsLeft`, the
requests, waits and stages still to come at most plus what is left of
`TickBound`, is a natural number during a tick and falls with every step, of the
code or of the clock. What it leaves to TLC is that a step is always possible.

`DecisionOpsProofs`: the operators below `decide()`. An element with the greatest
rating exists and the first one is well defined (`FirstBestExists`, from the
well-foundedness of the naturals); a trend regime agrees with the bias
(`TrendAgreesWithBias`), so only two frameworks can apply together
(`OnlyTrendsShare`); what the counts can come to (`SupportiveBound`,
`ConflictingBound`, `TierFacts`); the score grows with each of its parts
(`BetterScoresMore`); what a plan satisfies (`PlanFacts`).

`DecisionProofs`: `DecisionTypeCorrect`, `TiersAreCapped`, `NothingIsLost`,
`MarginIsNeeded`, `ConflictsVeto`, `LevelsAreBehind`, `OnlyBadQuotesRaise`,
`SelectionIsUndominated`, `OutcomesAreTheLoops` - every property of `Decision`
that holds. The last one composes the models: what `decide()` answers is, for
every window and time, among the answers `LiveLoop` gives its cycles; it uses
that an actionable opportunity is an applicable one, that the risk gate asks for
an open entry window, and that a level at the price leaves no plan. The
invariant `DecisionInv` carries from stage to stage what the properties need of
variables that are forgotten later: the regime agrees with the bias (`ViewInv`),
what applies together is one trade (`FrameInv`), the selected contract is
`SelectContract`'s (`ContractInv`), what a tier implies of the evidence
(`RatedInv`), and the gate a signal passed or failed (`ConcludedInv`).

`CandleFeedProofs`: every property of `CandleFeed` that holds, for every day
length, lookback, opening range, previous day, set of shapes, number of
corrections and bucket width.

* `FeedInvariant`: bars arrive in sequence. Each bar of the payload comes after one
  of every earlier period, so their starts are 0 to n - 1, and candles are the
  last bars sent for the periods seen. The type of the feed alone does not say
  so, and without it no two ticks could be compared.
* `TypeCorrect`: one candle per period, in order.
* `NothingAhead`, `SwingsStay`, `SwingsAreNeverRevoked`, `AggregatesStayClosed`:
  closed candles are a prefix that depends on ended bars alone
  (`ClosedUnderlying`), swings of a prefix are a prefix of the swings
  (`SwingsExtend`, `LabelsExtend`), and a closed bucket has all its bars.
  `SwingsAreNeverRevoked` is an action property and says more than the invariant
  `SwingsAreFinal`, which looks one bar and one period back: no step at all, but
  the correction of an ended bar, takes a swing back.
* `BarsKeepTheirShape`: every bar is one of `Shapes`; the next two need it.
* `PullbacksArePullbacks`: the impulse runs between two swings, and every ratio
  the code takes for a pullback lies between its ends.
* `FadesFollowTheClose`: the zones, level by level; the reactions that fade put the
  close on the side they are traded to; the framework's direction agrees unless
  the level is the price.
* `NeitherSideFavoured`: turned upside down, candles turn, the swings of a candle
  change places and kinds, labels, bias and invalidations flip, retracements stay,
  and each reaction at a level is the same seen from the other side.

What a sequence holds in order (`InOrder`, `Picked`) is characterised once, by
counting; sums over a list, which the clusters of equal levels use, by the
least index at which a claim would fail, since the library's induction rule
cannot be instantiated.

Only model-checked:

* `EveryTradeConcludes` and `EveryTickEnds`: liveness under fairness is out of the
  prover's reach (see `TicksRunOut` for what of the second is not).
* The runs that exhibit a violation.

## Where code and documentation disagree

| run | statement | code |
|---|---|---|
| `loop_repeat` | a repeat "was already reported" (`lifecycle.py:147`) | the loop updates first and asks afterwards (`run_engine.py:361`): the tick in which a setup first triggers is taken for a repeat |
| `fetch_boundary` | a snapshot is built from a bundle "fetched at or before `as_of`" (`domain/snapshot.py:176-178`) | `as_of` is read before the first fetch (`run_engine.py:349`, `runtime.py:91-96`) |
| `candle_break` | "acceptance above a resistance -> bullish" (`frameworks.py:209`) | resistance means above the current price (`liquidity.py:149`), so acceptance above it is seen after the price came back, and then sold (`frameworks.py:210`) |
| `decision_thesis` | "break below here invalidates a bullish thesis" (`structure/types.py:51-52`) | risk is a distance without a side (`opportunity.py:76`, `execution/engine.py:69`): a CALL is announced below its invalidation |
| `decision_raises` | "`run_cycle` never raises for upstream data problems" (`runtime.py:39`) | a crossed book passes the risk gate and fails the schema (`schema.py:86`); so does a strike of zero or below (`schema.py:55`); a zero price is divided by (`futures_analysis.py:56`) |

Others that follow from the models and have no run of their own:

* `is_new_entry_allowed` is "False once past entry_cutoff" (`session.py:66`), but
  the opening period is tested first (`session.py:57`) and wins if configured
  long enough; hence the proviso of `NoEntryPastCutoffIfOrdered`.
* A key leaves a terminal state only a cooldown after it entered one
  (`lifecycle.py:59`); `expire_stale` keeps the old `last_seen`
  (`lifecycle.py:161`), so the cooldown counts from the last sighting. The loop
  never calls it, hence `LiveSpec`.
* The loop prints "only when something actually changed" (`run_engine.py:11`);
  `is_repeat` is never true below the trigger tier (`run_engine.py:362`).
* "No new trade entries at/after this IST time" (`docs/CONFIG.md:20`) is true of
  the tick's time stamp; the alert may leave after the cutoff.
* A different structural level has a key of its own (`run_engine.py:172`); levels
  alike in six significant digits share one (`run_engine.py:181`).

## What is not modelled

* `market/indicators.py` and the statistics of `options/chain.py` (max pain, IV
  skew): arithmetic over reals. What is decided on them is modelled, from their
  classes.
* The alias-tolerant parsing of payloads in `data/snapshot_builder.py`, other than
  candles: what it may yield is enumerated, how it finds it is not.
* Levels from open-interest walls, the week before and the payload's own day
  OHLC; they are further zones with the same treatment.
* Daily and weekly aggregation (used by tests only), `_run_once`, argument parsing,
  reasons, summaries and the wording of reports and messages.
* The capture file of `replay/snapshot_store.py`, the probe script, `__main__.py`
  and the CI workflow: straight-line I/O.
* Negative prices of the underlying: the analysis is meant for prices of an index.
  With one a level could be zero, and `liquidity.py:118` and `:133` divide by it.
* Delivery of Telegram messages: best effort by design, nothing is promised.
* Growth of the tracker's dictionary: nothing in the code bounds it.

## Plan

What would come next, in order:

1. A rank for `EveryTradeConcludes` as `TicksRunOut` has one for a tick: steps
   of the loop left until the session exit, under `ExitIsReached`.
2. `FetchCycle` with two ticks whose bundles are compared, for what a stalled
   upstream looks like from one tick to the next.
3. `Decision` fed by `CandleFeed`'s analysis instead of abstract reactions.
4. The remaining levels, and longer days in `candle_feed`.
