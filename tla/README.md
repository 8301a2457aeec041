# A verification project for quantpaca

quantpaca is a trading server: one Node process (`server.ts` with the modules of
`src/server/`) that reads newsletter mails, videos and market regimes, turns them
into signals, submits orders to the Alpaca broker, and watches what it holds. It
keeps its state in SQLite. It is operated over HTTP and Telegram and supervised by
Docker. This directory holds TLA+ modules of the parts where order, failure and
restart matter, the TLC configurations that check them on small instances, and
theorems that TLAPS proves for every instance.

    tlc -config BreakerLatch.cfg MCBreakerLatch     # model-check
    tlapm PersistedHaltProofs.tla                   # proofs

## Inventory

Paths are relative to the repository; line numbers are in `PROJECT.json`.

| Part | State | Operations | What is hard |
|---|---|---|---|
| Order submission (`server.ts` executeTradeIntent, placeAlpacaOrder; `tradingSafety.ts`) | `trade_intents`, `symbol_cooldowns` | review, submit with a content-derived client id, plain retry of a refused bracket, save, arm the cooldown | lost answers, a crash between any two steps, repeated attempts of one content |
| Drawdown breaker (`breakerEngine.ts`, `breakerLatch.ts`) | `breaker_states` (latch, high-water mark) | evaluate per order, escalate on a mismatch, admin reset | evaluations on an account answer awaited before, corrupt or missing records |
| Order-status poller (`orderStatusPoller.ts`) | trade rows, leg states, synthetic sells | poll rows and bracket legs, cancel stale partial fills | whole-row saves of rows read before the awaits; two pollers, one outside the mutex |
| Liquidation (`server.ts` cancelBracketLegsBeforeSell, then a sell) | same rows | cancel each leg, re-poll on 422, sell or give up | legs fill between the snapshot, the cancel and the sell; half of it done |
| Startup reconciliation (`startupReconciliation.ts`) | tradingReady, orphan list (memory) | poll, sweep open orders, retry, gate BUYs, clear orphans | retries interleave with orders; the retry chain must end |
| Position reconciliation (`reconciliationEngine.ts`, cycle module 1.6) | acknowledged baselines, alert state, latch | poll rows, compare ledger and account, latch, alert once per window, reset | fills between the poll and the fetch; false alarms, missed drift, lost alerts |
| Signal pipeline (`signalReviewStep.ts`, `bearishMapping.ts`, the cycle) | `reviewed_signals`, thesis invalidations, do-not-buy list | analyse, whipsaw gate, cross-source check, dedup, bearish mapping, automated order | the same mail is listed again after crashes, failures and rewordings |
| Exit monitor (`exitMonitor.ts`, `exitEngine.ts`, cycle modules 2.5 and 3) | exit plans with high-water marks, persisted regime, trades of the day | assess the regime, choose the governing plan, choose an exit reason, sell | marks survive restarts, outages must not liquidate, retries use up the day's trades |
| Telegram runtime (`telegramEngine.ts`, `server.ts`) | pending and consumed confirmations, update offset (memory) | poll, pause, resume, breaker reset, confirm | polls overlap and handle the same updates; a restart repeats them |
| Scheduler and watchdog (`scheduler.ts`, `heartbeat.ts`) | timers (memory), failure count, last completion, alerted gap | tick, auto-pause, overdue alert, stop | the timer chain, a hanging cycle, failures during shutdown |
| Store and mutex (`appStore.ts`) | FIFO mutex, configuration | acquire, updateConfig, db.json migration | a cycle holds the mutex for minutes; not reentrant |
| Process and crash-loop guards (`processGuards.ts`, `crashLoopGuard.ts`) | restart history, clean-shutdown marker | boot check, stay down, graceful stop | every store operation may fail, the process may die in the boot check |
| Risk engine (`riskEngine.ts`, `riskLimits.ts`, `tradabilityGuard.ts`) | none | one verdict per intent | stale portfolio and open-order snapshots |
| Sources, e-mail, sizing, market data, Google tokens, backups, UI | mostly none | parse, score, fetch, copy | text and numbers rather than order |

Interactions. Sync cycles, manual syncs, manual trades, Telegram commands, resets
and changes of the configuration run one at a time under the appStore mutex. The
exceptions are the retries of startup reconciliation, which poll and save trade
rows outside it, and the watchdog, the crash-loop check and the signal handlers,
which touch only `app_state`. Each order passes reconciliation's BUY gate, the
cooldown, the breaker and the risk engine in that order. The poller feeds the
ledger from which the position reconciliation decides whether to trip the breaker;
the exit monitor reads the same rows for its plans and hands its sells to the
liquidation. The broker, Telegram, Claude, the price feed, Docker and the operator
are external and modelled by what the code relies on.

## Modules

| Module | Models | State in the code |
|---|---|---|
| `TradeStates` | local trade states, status sets, mapping of broker statuses | constants of `tradingSafety.ts`, `orderStatusPoller.ts`, `server.ts` |
| `StoreMutex` | abstract: what the mutex and the configuration behind it promise to whoever shares them | (implemented by `SyncScheduler`) |
| `BreakerLatch` | breaker evaluation, latch, its three callers, mutex, restart | `latest` = newest `breaker_states` row, `lock` = mutex, `op` = the handler between awaits |
| `BracketPosition` | one bracket order from entry to liquidation, both pollers | `rows` = trade rows with leg states, `synth` = synthetic leg sells, `poll`, `sell` = local variables across awaits, `broker` = broker truth |
| `OrderSubmission` | repeated attempts of one order content, and the boot's reconciliation | `rows`, `cooldown` = tables, `att`, `recon` = local variables, `tradingReady`, `orphanOrders` = module state |
| `PositionReconciliation` | module 1.6 of the cycle for one symbol: poll, fetch, compare, latch, alert, reset | `row` = trade rows, `baseline`, `latched`, `alertState` = stored, `pc`, `unpolled`, `report` = the cycle |
| `SignalPipeline` | mails through analysis, dedup and consequence | `accepted` = `reviewed_signals` by key, `invalidated`, `doNotBuy` = tables, `cycle` = the loop's position and the call at hand |
| `ExitMonitor` | regime, exit plans, exit reasons, the sells of a cycle under the gates a sell has to pass | `plans` = `exit_plans` joined with their BUY's status, `assessed` = newest regime row, `tradesToday`, `cycle` |
| `TelegramControl` | overlapping polls, commands, confirmation tokens, the mutex | `offset`, `pending` = module state, `poll` = one run of the timer, `queue` = mutex |
| `SyncScheduler` | tick chain, FIFO mutex, auto-pause, watchdog, stop and restart | `timers`, `cycle` = scheduler closure, `queue` = mutex, the persisted configuration and counters |
| `CrashLoopGuard` | boot check, graceful and other ends of the process, restarts | `restart_history`, `clean_shutdown_marker` = `app_state` |
| `PersistedHaltProofs` | theorems about `BreakerLatch` and `CrashLoopGuard`, the two halts that outlive the process | |
| `*Proofs` | theorems about the module they are named for | |
| `MC*` | the sets the configurations give to the constants | |

An action is one stretch of code between two awaits (or two points where the
process may die), so everything the code does without yielding is one step. Broker
calls are steps of their own, taken at the broker and answered or not. Names follow
the source where TLA+ allows it. Operators marked "mutant of X" are variants of X
with a plausible bug; no specification uses them, and every property is shown to
fail with one of them in place of the original.

Variables marked "history" record what happened for the properties and influence
nothing.

How the modules fit together. `BracketPosition`, `OrderSubmission` and
`PositionReconciliation` share the statuses of `TradeStates` and look at the same
rows from three sides: what becomes of one bracket, of one content, and of the sum.
`PositionReconciliation` trips the latch whose drawdown side is `BreakerLatch`.
`SyncScheduler` justifies what the others take for granted: that cycles keep coming
and that the configuration a cycle read stays put. This is the refinement
`ImplementsStore`: queue, head and autoTrading of `SyncScheduler` implement
`StoreMutex` (served in order, one inside at a time with the value it read, no write
while somebody is inside); it is model-checked and proved.

## Runs

Ten runs pass:

| Run | Question | Bounds, and why they are enough |
|---|---|---|
| `breaker` | Does the latch stick, and does no BUY pass a tripped breaker? | Two symmetric processes (the mutex pairs any two), four equities that fall on each side of the three limits, unbounded restarts |
| `bracket_ledger` | Do rows end equal to the account, is no fill invented, and are the legs dead before a sell? | Four sets of conditions: both pollers on one share that nobody but the sell cancels (every order of two whole-row saves; that orders may also expire under two pollers is left to the theorems), one poller on two shares with a crash (partial fills), every adverse broker behaviour on two shares with a crash, and adverse but truthful DELETE answers; one sell |
| `bracket_partial` | Does nothing but the end of an order cost a partly filled entry its plan; is every leg fill booked? | Two shares, one sell, one crash, one poller, with and without stale cancels and deaths of partly filled orders; fair |
| `submit` | What does a second order of one content take; one row for an order, never ahead of it; no BUY before the reconciliation is over; a reconciliation that concludes? | Three attempts (one to lose, one to repeat, one after a restart), two reconciliation tries; either side through two crashes and lost answers on a cooldown that expires; a BUY under every fault (flaky broker, store that throws, reads that hang) through a crash, cooled for the day; and one cooled for less; fair |
| `scheduler` | Timer chain, pause, strikes, stall report, the abstract store | Limit 3, two requests (a pause and a resume, or a manual sync and either), one restart; cycles and manual syncs may hang; fair |
| `crash_loop` | No thrashing; clean restarts never trip | Limit 3, a window of three ticks, six boots remembered, marker writes that fail |
| `signals` | Is each call acted on once, none lost, none bought against another source? | Two mails of two sources a window apart, one of them reworded or not, one symbol, one crash, a store that may fail, time for both mails to age out |
| `exits` | Does the trailing stop remember, does no outage liquidate, does a due exit go out? | A bought symbol with a plan and a hand-opened one without, an account that may refuse the latter's exit in any cycle, three prices on either side of stop and target, a trade count of one, one failure of any kind; fair |
| `reconciliation` | Does a mismatch halt BUYs, has every alarm a named cause, is lasting drift caught and told? | One BUY and one SELL of 100 shares that fill at 50, two shares by hand (beyond tolerance beside 0 or 50 shares, within it at 100), one crash, polls, fetches and alerts that fail; fair |
| `telegram` | Does a confirmation reset once; is no command lost but those the store threw on? | Two overlapping polls, three updates of five kinds by three users, one token, one crash, a store that throws and a cycle that hangs; fair |

Two runs violate one property each; they set what the code says beside what it does:

* `bracket_oversell` (NeverShort). The liquidation's quantity comes from a snapshot
  taken before a leg filled. The cancel answers 422, the re-poll says Filled, and
  the sell goes out: the account is short, although "this system is long-only and
  never opens shorts".
* `signals_reaccepted` (ActedOnce). A rejected duplicate that Claude words as before
  has the id of the accepted row and a null key, and replaces it. The key is gone, so
  the third listing of the mail is accepted and executed again, although "signal dedup
  fires a given email exactly once".

More configurations reproduce counterexamples that are kept beside the runs:

| Configuration | Property | What happens |
|---|---|---|
| `BracketStalePartial.cfg` | FilledPortionKeepsPlan | The remainder of a stale partial fill is canceled; the next poll makes the whole row Canceled, and the plan look-up no longer returns it, against "the filled portion keeps its exit plan" (orderStatusPoller.ts:517) |
| `BracketSkippedSell.cfg` | SkippedSellStaysProtected | A sell is skipped after its first leg, or both, are gone |
| `SubmitUnknownState.cfg` | TradingOnKnownState | The orphan sweep accepts any row with the client id of an open order: a row rejected while reconciliation was pending hides the order the crash lost (startupReconciliation.ts:1-3) |
| `SubmitTwoOrders.cfg` | OneOrderAtMost | A crash before the cooldown is stored, or one that expires, and a broker that takes the bracket form only the second time: the plain order of the first attempt and the bracket of the second carry different client ids and both exist, which the id is there to prevent (tradingSafety.ts:211, "any retry/race/double-submit of the same intent creates a second real order" without it) |
| `SubmitFalseOrphan.cfg` | OrphansAreUnknown | A SELL is not gated; a reconciliation retry that sweeps between its POST and its row takes it for an orphan, and BUYs are blocked until an admin clears it |
| `SubmitReconEnds.cfg` | ReadyOrGaveUp | The records of the first reconciliation try cannot be stored: the caller catches the throw, and the chain ends with neither trading enabled nor the give-up alert, although it is "documented to never throw" (server.ts:4321) |
| `SubmitClobber.cfg` | EveryOrderStaysTracked | A second SELL whose POST fails overwrites the row of the filled one |
| `ReconciliationLateFill.cfg` | LateFillsAreHarmless | An order fills between its poll and the fetch of the positions: the mismatch is reported and the breaker latched until an admin's reset (server.ts:2267) |
| `CrashLoopRecovery.cfg` | FixedProcessBoots | The runbook says a fixed process boots fine with two of three crash-boots in the window (OPS_RUNBOOK.md:225-226); that boot is itself the third, and stays down |
| `BreakerPeak.cfg` | BuysRespectPeakDrawdown | One unusable account answer erases the high-water mark |
| `SchedulerAudit.cfg` | FreshStrikes | The audit event of an auto-pause cannot be stored: the pause stands, the failure count is not reset, and a resumed loop is paused again by one failure, against "a resumed loop gets a fresh ... strike budget" (scheduler.ts:210) |
| `TelegramOrder.cfg` | LastCommandStands | Three overlapping polls handle /pause and /resume out of order; the earlier one stands |

OverdueReported in `SyncScheduler` fails after a save of the settings form, which
empties the bot token that alerts need.

Deadlock is checked wherever the system always has something to do. It is switched
off in the bracket runs, which end when every order is terminal and the bounds on
sells and crashes are used up, in `scheduler`, where a stopped process whose restarts
are used up really stops, and in `telegram`, which ends when every update the bound
allows was handled.

### Fairness

* `OrderSubmission`: steps of reconciliation that are enabled are taken, its retries sit
  on timers, and the synchronous stretch that saves an attempt ends. Its broker reads are
  a bare fetch without a timeout (startupReconciliation.ts:230): that one never ends is
  an action of its own, after which nothing of the reconciliation is enabled, and so is
  a store that throws. Nothing is assumed of the broker's orders, the operator, or new
  attempts.
* `BracketPosition`: the poller and a started liquidation go on. Strong fairness of
  the poll of each order says that the GET of an order is answered every now and
  then; weak fairness would allow it to fail for ever.
* `PositionReconciliation`: cycles go on and the alert window passes. Strong fairness
  of each order's poll, of the comparison and of the delivery of an alert says that
  what is tried again and again succeeds in the end.
* `ExitMonitor`: the steps of a cycle are taken and days pass; the market fills market
  orders. Nothing is assumed of prices, market hours, of what the account refuses, which
  may last for ever, or of failures, which are bounded. The trades of a day that the
  model does not show are finitely many.
* `TelegramControl`: each poll goes on (the timer ticks, calls end or time out) and a
  cycle that does not hang releases the mutex. A cycle reads the broker with a bare fetch
  (server.ts:2203), so that it hangs is an action of its own, after which it never
  releases. Nothing is assumed of the users.
* `SyncScheduler`: armed timers fire, started work goes on unless it hangs, time
  passes, and Telegram takes an alert in the end. A hanging cycle is an action of
  its own after which nothing of the cycle is enabled, so fairness does not mend it.

`BreakerLatch`, `SignalPipeline` and `CrashLoopGuard` state only safety and assume none.

### What the abstractions leave out

* `BreakerLatch`: percentages are exact integers; the account answer carries equity
  and last equity only. Peak 0 stands for null.
* `BracketPosition`: one symbol, distinct content keys. A leg that fills in part is
  one of the adverse conditions, because the code keeps no leg quantities.
* `OrderSubmission`: one content per behaviour. The individual risk gates are one
  verdict, except the duplicate-open-order gate, whose read may degrade to empty. A
  cooldown of less than a day may expire between two attempts. A store that throws
  between the answer and the cooldown leaves the order without one (server.ts:684-709).
* `PositionReconciliation`: one symbol; only the alert's fingerprint joins symbols. An
  order accepted but not filled counts whole in the expected position, so a SELL queued
  overnight is a cause of an alarm, the shares of an order that died part-filled count
  not at all, and a fill between poll and fetch is seen on one side only: `Causes` names
  them, and each raises the alarm in the model as in the code. A report that cannot be
  stored skips the latch as well while BUYs go on (server.ts:2282): the fault
  `storeFails` is in the module and left out of the run.
* `SignalPipeline`: newsletter mails only, YouTube targets differ in their listing
  alone. The window of 1000 remembered keys is not reached. `Reworded` names the mails
  whose analysis Claude may word as it did before: one of the two in `signals`, both in
  `signals_reaccepted`. ActedOncePerKey counts executions since the key was last lost,
  ActedOnce all of them. A skipped SELL is not re-evaluated by the next cycle, as
  server.ts:3553 says, because the mail is then a duplicate; NoCallLost is about the
  lists, which do keep it. A neutral stance with the decision BUY trades, although
  bearishMapping.ts:30 says neutral never does.
* `ExitMonitor`: all plans have one entry price and ages count in staleness limits. A
  plan that fails its numeric validation is a failed look-up. autoTrading is on. Daily
  loss and buying power are a choice of each cycle among the symbols in `Gateable`: the
  account fetched for the cycle refuses them or not, and may do so for ever. ExitGoesOut
  then says that the account's refusal is the only reason left why a due exit is not
  placed. The count of the day's trades stops at the limit, and stands for that many or
  more: the code only ever asks whether the limit is reached.
* `TelegramControl`: read-only replies and /close_all, whose confirmation executes
  nothing, are left out. A crash loses a command whose update a later poll of the dead
  process had acknowledged, and a store that throws under the lock loses the one at
  hand, because the offset has moved on (server.ts:1562) and the error is caught for the
  whole poll (1565): it is recorded in `lost`. So EveryCommandHandled speaks of one
  process life, and says that nothing else of a batch or of another poll is lost with
  it. /pause only stops the automatic cycle (server.ts:1499): a manual BUY still goes
  through.
* `SyncScheduler`: a cycle is its mutex, its copy of autoTrading and its outcome. A
  manual sync and a configuration request are one each at a time. The backup,
  heartbeat and interval parsing are left out.
* `CrashLoopGuard`: ages instead of clock values; a boot check takes no time at the
  scale of the window.
* No model holds as many orders as the poller's 25 targets or the ledger's 250 rows.

## Proofs

Each theorem holds for every value of the constants that satisfies the assumption of
its module: any number of processes, orders, mails, polls, attempts, crashes and
restarts. No fact about the program is assumed.

Two ways of writing the models come from the proofs. Sums are `SumFunction` of a
function (order |-> quantity), so that equal quantities give equal sums without
unfolding the sum: an invariant that each order is booked as it filled gives
`NetBooked = Position`. And `Within` of `CrashLoopGuard` is the suffix of a list kept
oldest first, which is all that pruning by age leaves; that such a suffix exists, and
which one it is, is shown with a least element (`LeastNumber`, from the
well-foundedness of < on Nat), the one form of induction that needs no operator as a
parameter.

`PersistedHaltProofs`: the latch and the restart guard, in one module because both are
a stored halt that must survive restarts and be lifted by nobody but an operator.

* `LockCorrect` (TypeOK and HolderOnly). `LockInv == TypeOK /\ HolderOnly` is
  inductive; the type of the record needs the types of the evaluation functions.
* `LatchSticks` (TripSticks) and `BuyGate` (ApprovedBuyIsUntripped). `StickInv`
  joins both on top of `LockInv`: an approved BUY stays untripped only because
  another evaluation would need the mutex the BUY's process holds.
* `NoDeescalation` (LatchNeverDeescalates), from monotonicity of `applyBreakerLatch`
  under `STATUS_RANK`.
* `PeakRespected` (BuysRespectPeakDrawdown), under `UnparsableReads = {}`. `PeakInv`
  says that the persisted peak is the highest equity ever evaluated. The premise is
  needed: `BreakerPeak.cfg` shows the violation without it.
* `GuardTypes`, and `ListsInv`: history, boots that served and causes are lists kept
  oldest first, and grow old together.
* `StayDownHasCauses` (CleanRestartsNeverTrip), whatever parts of the store fail.
  `Followed(history, causes, k)`: every young boot of the history but the last k was
  followed by a cause of its own, no older than the boot. k is 0 exactly where a boot
  that counts is about to begin (`Counts`), so when the guard counts to the limit, all
  boots but the newest have a cause within the window.
* `FewBootsServe` (NoThrash), with a history that can be read and written.
  `Covers(history, served, k)`: aligned at the newest end, the history has an entry for
  every boot that served, no older, so fewer served than the guard counted. The premise
  is needed: a boot whose entry is lost goes on to serve without being counted.

`BracketPositionProofs`

* `Typed` holds the types without their bounds, that the legs of an entry that died are
  dead too, and that a sell's id is free until its POST. `BrokerKeeps` sums up what any
  step may do to the broker: a final order never changes, no fill is taken back, and a
  dead leg stays dead.
* `FillsAreReal` (RecordedFillsAreReal), from `FillInv`: not only each stored row but
  each working copy of each poller fits the broker. This is what makes a stale
  whole-row save harmless.
* `LegsClear` (LegsClearedBeforeSell), from `LegInv`: a leg state recorded terminal, in
  a row or a working copy, is the leg's final one; an entry row that a plan look-up
  skips belongs to an entry that is over, so its legs are dead; and during a
  liquidation each leg is on the list or dead.
* `PlanKept` (PlanLostOnlyAtTheEnd), without a premise, from `FillInv` and `LegInv`: a row
  or a working copy recorded terminal belongs to an order that is over, and one that is
  not terminal but has a fill has a status of success. That the plan is lost when a
  part-filled order ends is what `BracketStalePartial.cfg` shows. The case of both pollers
  on two shares is too large for TLC's five minutes and rests on the theorem.
* `LedgerTracks` (LedgerTracksBroker), from five invariants about rows and the pollers'
  working copies alike. `OrderInv`: orders fill whole. `PastInv`: only a sell whose one
  POST is behind it has a row or is polled, so no poller writes over a row still to
  come. `EntryRecorded`: the entry's row never disappears. `ToldInv`: a row no longer
  polled tells its order's final fill. `BookedInv`: a leg recorded Filled is booked by
  its synthetic sale in the same step.

`OrderSubmissionProofs`

* `OneOrder` (OneOrderPerIntent), without a premise. With a broker that does not change its
  mind `OnePath` says that only one of the two client ids is ever posted, and the broker
  takes an id once; with one that does, `CooledInv` says that the first attempt that
  reached it armed the cooldown, which keeps the next from the POST until it is lost.
* `RowsFollow` (RowsFollowBroker), from `FollowInv`, which extends the property to the
  working rows of a reconciliation and the answer of an attempt.
* `CooldownArmed`, `OneRow`, `RecordsAreKept` (PlacedOrderArmsCooldown, OneRowPerOrder,
  TrackedOrderStaysTracked) from `CooledInv` as well, across crashes: as long as no attempt
  that reached the broker came to nothing before its cooldown was stored (`lapsed`), one
  attempt of a BUY that cools for the day passes the review; before its answer nothing
  exists and no row names an order, after it no attempt gets as far as a POST.
* `BuysWait` (BuyAwaitsReconciliation), from `GateInv`: an attempt past its review still
  finds the gate open, because only a restart, which ends the attempt, closes it again.
* `TypesCorrect` (TypeOK), from `Bounded`: a failed reconciliation waits for a retry
  only while it has one left.

`PositionReconciliationProofs`

* `MismatchHalts` (MismatchHaltsBuys), from `HaltInv`: a mismatch without a reset is
  latched, and the report and its latch are one step for every cycle that goes on.
* `SilenceIsEarned` (SilencedOnlyByDelivery).
* `NoAlarmWithoutCause` (AlarmsHaveACause), from `LedgerInv`: nothing is recorded of an
  order before it is placed, a row that is terminal has the broker's own count, and in a
  cycle whose polls succeeded the row of an order that was polled and did not move since
  (`missed`) says what the broker says. Without a cause, each BUY, each SELL and the
  acknowledged baseline then count on both sides of the comparison alike, whatever moved
  before the poll, in earlier cycles or across crashes.

`SignalPipelineProofs`

* `TypesHold` (TypeOK), inductive as it stands.
* `NoBearishCallLost` (NoCallLost), from the type invariant and the cycle's call at hand.
* `ActedAtMostOnce` (ActedOncePerKey), without a premise, from `ActedInv`: a call at hand or
  acted on since its key was last lost has its row stored, and a call at hand was not
  acted on under its key. `signals_reaccepted` shows the key being lost.
* `OpposedCallsWait` (OpposedCallNeedsHuman), from `CheckStands`: the cross-source check
  of the call at hand still stands when its order goes out, because mails only grow
  older and no other row is accepted meanwhile.

`ExitMonitorProofs`

* `TrailingStopHolds` (TrailingStopRemembers), from `MarkInv`: the stored mark of every
  plan is at least the highest price it was evaluated at. That a higher mark only makes
  the stop easier to hit is a lemma on the percentage arithmetic.
* `OutagesDoNotSell` (OutageNeverLiquidates), from `FreshMeansSeen`.
* `TypesCorrect` (TypeOK): the types the two results above rest on, with `MarkInv`.

`TelegramControlProofs`

* `TokensResetOnce` (OneResetPerToken), from `ControlInv`: each token is not yet issued,
  pending, carried by exactly one poll, or spent (`TokenInv`), and polls handle only
  updates that were sent.
* `TypesCorrect` (TypeOK), from `ControlInv` and `Counted`, which bounds the offset and
  the dropped, handled and lost updates by those sent.

`SyncSchedulerProofs`

* `TypesCorrect` (TypeOK). Its clause that an agent stands in the queue at most
  once, and only while in flight, needs `MutexInv`: a cycle or manual sync past its
  wait is the head of the queue. Then who leaves is the head, and `JoinQueue` and
  `LeaveQueue` (lemmas on sequences) give the rest. `TypeInv` joins the two.
* `ChainNeverBreaks` (TickChainAlive). `ChainInv` adds what the property leaves open:
  before the start no timer is armed and no cycle in flight, after the stop no timer
  is armed. Without it a start or a late end of a cycle could double the chain.
* `StopIsFinal` (NoCycleAfterStop), from `ChainInv`.
* `PauseRespected` (PausedMeansQuiet), relative to `TypeInv`: whoever writes
  autoTrading is the head of the queue, so no running cycle or manual sync is.
* `SchedulerImplementsStore` (ImplementsStore): under the refinement mapping the initial
  states are initial states of `StoreMutex`, and every step is one of its steps or a
  stutter.
* `BudgetIsFresh` (FreshStrikes), where the audit event of a pause is always stored.
  `StrikeInv`: in a process that was not restarted the persisted count is at most the
  failures since the last success or pause, save while a pause is being completed, and a
  pause is only asked for at the limit. The premise is needed: onAutoPause pauses first
  and stores the event then, and when that throws, scheduler.ts:212 does not reset the
  count, so that a resumed loop is paused again by its next failure
  (`SchedulerAudit.cfg`).

Only model-checked. All eight liveness properties (LegFillEventuallyBooked,
ReconciliationConcludes, FailuresPauseTrading, StallReported, ExitGoesOut,
DriftIsCaught, OperatorIsTold, EveryCommandHandled): fairness and ENABLED are out of the
prover's reach. Every other property of a passing run is proved, three of them on a
premise that the text above names and that the code's own behaviour makes necessary:
BuysRespectPeakDrawdown, FreshStrikes and NoThrash. What the other properties except,
they say themselves. Of the type invariants, `BracketTypes` and `OrderTypes` stand for
those of `BracketPosition` and `PositionReconciliation`: that a sum of shares is bounded
by the shares of the entry is an induction over the fold that computes it, which the
prover cannot do.

Left for the next proofs: the bounds of `BracketPosition` that need no sum, and
`TelegramControl` as a second implementation of `StoreMutex`.

## Not modelled

* E-mail and video parsing, the sender policy and the source registry's file; sizing,
  regime and risk arithmetic; market data indicators. They are functions without state,
  total and covered by unit tests; the models take every outcome they may have.
* The token broker of the Google accounts and the rate limiter: a fetch yields usable
  data or nothing.
* The migration of db.json: it runs once, before anything else of the program.
* Backups: file copies and pruning by age that no trading state depends on.
* Authorization and validation of HTTP requests, the web UI.
* SQLite's schema and additive migrations; a statement is atomic.
* Wall-clock steps: the latest breaker record is the one with the greatest timestamp
  text, so a clock that steps back would make an older record current.

`PROJECT.json` gives each component's status and the hazards, with the properties that
cover them or the reason why none does.
