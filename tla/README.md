# TLA+ models of a crypto-futures trading system

The repository is a Python/asyncio system of agents that trades crypto futures
on OKX. This directory models the parts of it that hold state over time: what
decides *whether money is at risk, who is responsible for it, and what becomes
of its profit*. The code was read together with the tests, `docs/runbook.md`,
`docs/architecture.md` and the design documents under `docs/superpowers/`; every
definition follows the code, and `PROJECT.json` (`map`) names the lines each one
stands for.

Contents: 1 the system · 2 modules · 3 runs and bounds · 4 fairness ·
5 proofs · 6 where code and documents disagree · 7 abstractions ·
8 not modelled · 9 plan.

## 1. The system

`run_agents.py` starts agents that talk over an in-process message bus. Every
agent (`agents/base.py` 52-70) first runs `setup`, then two loops on the one
event loop: a message loop and a tick loop, each serial. What blocks goes to a
worker thread (`asyncio.to_thread`), so two handlers of one agent, one per
loop, interleave at every `await`. Research agents choose the symbols, analysts
score them, the judge decides, the executor trades. The executor has two lanes
on one account: *Main*, with orders of the judge, and *Tactical V2*, with intents
of its own controller. A sidecar process once traded the shadow plans of the
second lane and must be drained before that lane goes live.

| component | state | operations | interacts with | what is hard | what makes it correct |
|---|---|---|---|---|---|
| **controller** `utils/tactical_v2/controller.py` | records of intents, claimed entry I/O, recovery queues, receipts of candidates | admit, start, reconcile, cancel, settle, protect, recheck a halt, close, handle a final, recover | governor, registry, store, exchange adapter, executor agent | two loops on one record over awaits; lost answers; crash at every step | an order is sent once; exposure keeps its slot; protection is real; entries and closes settle; a candidate is answered once |
| **exchange adapter** `utils/tactical_v2/exchange.py`, `executor.py` 482-1069 | none: order, algos and position are at the exchange | submit, query, cancel, settle a fill, verify, close | exchange, governor | fills between query and cancel; partial failures | no remainder behind a protected position, exact quantity |
| **governor** `governor.py` | finals, consumed streaks, pauses, integrity halt, cached sum | `apply_final`, `can_open`, halts, `rebuild` | store | two appends in one call, corrections, a cached sum over a moving window | a loss streak is paid for once; a restart decides as before |
| **episode registry** `episodes.py` | current episode per symbol and side, earlier ones | assign, observe, mark terminal, restore | tech analyst, store | late structures and ends, renewals of two appends | one attempt per episode, renewed on fresh evidence |
| **ledger store** `store.py` | file, append marker, lock | append with rollback, tail repair, open | all of the lane | crash, power loss, raising fsync | accepted events stay; failed ones never show |
| **Main lane** `executor.py` (`ContractExecutor`, `MultiExecutor`) | record and file of a position, stop orders, symbol halt | open, poll, verify, add, reduce, close, move the stop, sync, migrate | exchange, judge, halts | two worker threads on one dict; stop replaced by two calls; throttled moves | the record claims what happened; sync repairs the rest; the stop ratchets |
| **executor agent** `agents/trading/executor.py` | queues, tasks, its halt flag | loops, commands, PnL resolution and replay | every other part | order of messages, redelivery | a final is delivered and absorbed once |
| **halts** `utils/halt_state.py`, `executor.py`, notifier | shared file, symbol halts, flag | halt, clear, resume, force | executor, guard, paper, operator | one cause for many halts; check in a thread, act later | healing one symbol never frees another |
| **judge** `agents/trading/judge.py` | slots, reservations, ranking buffer, cooldowns, deferred entries, streaks | score, gate, plan, defer, rank, dispatch, count results | executor, reviewer | three ways to an order with the same gates written thrice; results late or lost | caps, one dispatch per entry, no gate bypassed, budget |
| **live ledger and resolver** `utils/live_ledger.py`, `realized_pnl_resolver.py`, `reconciliation.py` | pending and final rows, outbox, trade history | book, resolve, correct, replay, review | executor agent, reviewer | two resolvers, ambiguous fills, corrections | a fill counts once, a close is answered |
| **risk guard** `portfolio_risk_guard.py`, reviewer | copy of the positions, throttles, latch | track, warn, drawdown, hard stop, cross-check | executor, bus | a copy kept from messages and files | what is held is watched; danger is acted on |
| **paper executor** `paper_executor.py` | two books, waiting limit entry | enter, add, halve, close, fall back | judge | many ways through one equity | money balances |
| **research** `orchestrator.py`, `agents/research/` | cycle, watch, collectors' data, barrier | trigger, collect, select, challenge, retry | bus, router | cycle and retry overlap, lost reports | no cycle ends in silence |
| **message bus** `message_bus.py`, `base.py` | priority inbox, dead letters | publish, drop, take, handle | all agents | back-pressure | urgent messages first and never dropped |
| **sidecar** `scripts/shadow_tactical_live_sidecar.py`, `cutover.py` | owner registry, positions file, admission | run, monitor, stop, stop-admission, drain report | exchange, cutover | commands in processes of their own on the same files | drained means flat |
| reducers, shadow lane, regime, cooldowns, router, analysts, tools | prompts, market data, parameters | numeric or I/O | | see section 8 | not modelled |

## 2. Modules

```
TacticalExchange ── TacticalLive ──┬─ MCTacticalLive
                                   └─ TacticalLiveProofs ── TacticalLaneProofs
LossGuard ──┬─ MCOperations ──┬─ (INSTANCE) TradingHalts, PnlLedger, SidecarOwners
            │                 └─ OperationsProofs
            └─ (INSTANCE) TacticalGovernor ──┬─ MCTacticalGovernor
                                             └─ TacticalGovernorProofs
EpisodeRegistry ── MCLedgers ──┬─ (INSTANCE) TacticalStore, CandidateReceipts,
                               │             PaperBooks, MessageBus
                               └─ LedgersProofs
MainPosition ── MCMainLane ──┬─ (INSTANCE) ExitLadder
                             └─ MainLaneProofs
JudgeSlots ── MCJudge ──┬─ (INSTANCE) JudgeGates, JudgePlan, JudgeScore
                        └─ JudgeProofs
RiskGuard ──┬─ MCAgents ── (INSTANCE) ResearchCycle
            └─ RiskGuardProofs
```

`MCLedgers`, `MCAgents`, `MCMainLane`, `MCJudge` and `MCOperations` check components that share no state. Each chooses in
`Init` which one moves (`part`); the others stand in their initial state, and the
fairness of a component is required while it is the one that moves. Every
property is thereby checked on the component it is about, alone; where two
components do meet (the executor and the guard, a position and its stop, the
resolver and the reviewer) both sides are in one module.

### Tactical V2

**TacticalExchange.** Order, filled and held lots, algos and close order of
each intent, and one relation per primitive of `ContractExecutor`: it moves the
exchange and names the answer its caller will read. An exception, a lookup that
misses an order, an unconfirmed cancel are *faults*; the exchange also fills,
triggers algos and ends orders by itself.

**TacticalLive.** The controller's live lane. A record is its state (`st`), its
integrity reason (`why`) and the durable fields that steer it (`memo`); `spent`
is the consumed episode, `io` the claimed entry I/O. `call[a]` is the handler
loop `a` is in: a handler is a chain of steps, each of which changes records and
awaits a primitive, the primitive acts in a step of its own, and the handler
resumes on its answer. So everything that can happen over an `await` does:
the other loop, fills, a crash. `halt` is the integrity halt in the ledger and
`seen` the copy in the governor object the controller holds; they differ because
a candidate reloads the governor while adapter calls in flight keep the old
object (`call[a].old`). `local`, `resync`, `active` are `executor.positions` and
the position sync, `pnl` the way of a final from the removed-positions queue
through the trade ledger to its acknowledgement. `Crash` restarts from what is
durable; `CutShort` crashes between two appends of one step.

| actions | code |
|---|---|
| `Admit`, `TurnAway`, `DropReady` | `handle_candidate*`, `_reload_candidate_read_model_if_stale`, `handle_structure` |
| `StartEntry`, `Submitted` | `_start_live_entry` |
| `ReconcileEntry`, `EntryMissing`, `EntryFound` | `_reconcile_live_entry(_owned)` |
| `RequestCancel`, `EntryCanceled` | `_cancel_live_entry(_owned)` |
| `RemainderCanceled`, `Unverified`, `Unguarded`, `Secured`, `Protected` | `settle_fill`, `_fail_closed`, `_settle_live_fill` |
| `Recheck*`, `SafeClose*` | `_recheck_entry_integrity_halt*` and its three recoveries |
| `CheckProtected`, `RecoverProtected`, `StillOpen`, `RecoverOpen`, `Recovered` | `_reconcile_protected`, `_recover_protected` |
| `CloseForSafety`, `CheckClosing`, `FoundFlat`, `ClosedFlat`, `SendClose`, `CloseAnswered`, `Raised` | `_close_intent`, `_reconcile_closing` and the callers of `_mark_exchange_closed` |
| `SyncFetch`, `SyncApply`, `Notify` | `sync_positions`, `_notify_removed_positions` |
| `Resolve`, `PnlMismatch`, `DeliverFinal`, `AckFinal` | PnL resolver tasks, `_route_pnl_event`, `handle_pnl_resolution` |

**CandidateReceipts.** How `handle_candidate` answers a candidate once. `log` is
the ledger, `memory` the read model folded from it, `stale` that another append
made the fold old, `pending` the gaps an interrupted decision left, `told` what
callers were answered. A delivery is one action that folds again if it must,
looks for a receipt by message and by payload, quarantines what contradicts
itself, decides, and appends intent and receipt; any append may fail and the
process may die between two. `AnswersStable` and `OneIntentEach` are its promise.

**LossGuard** is what the governor promises: every close counts once with its
latest final, `LossStreak` losses in a row pause admission for `PauseLen` and
are consumed, the losses of the last `Window` hold admission back. No ledger, no
restart, no cache. **TacticalGovernor** is the code: events appended one by one,
`mem` folded from them, `rolling` cached, restart as a fold from the ledger, a
crash between the two appends of `apply_final`, halts. It refines LossGuard
(`ImplementsLossGuard`) when no crash falls between those appends.

**EpisodeRegistry.** `current` and `episodes` are the registry's memory,
`ledger` what `_restore` would fold from the file. A renewal appends its
evidence and then the new episode; `AssignCut` stops between the two. `grants`,
`shown` and `cut` are history, kept for the properties only.

**TacticalStore.** The ledger file row by row, the marker file, the lock and one
append in its steps. `mayFind` and `mayMark` are the contents a loss of power
may leave: everything written since the last fsync. A process may die at every
step, any system call may raise. `LedgerHonest` names four promises: accepted
events stay, failed ones never show, no reader finds a malformed row, an
unconfirmed row is fenced by its marker.

### Main lane

**MainPosition.** One symbol. `held`, `stops`, `resting` are the truth at the
exchange; `pos` the record, with the `born` number of its dict; `op[t]` what
each of the two threads is in the middle of. A thread that took a dict before an
`await` writes into the dict it holds, which may no longer be the record: a write
by the wrong birth goes nowhere. `Exit` walks through close and reduce call by
call, under the lock the code takes; `SyncFetch` and `SyncApply` are the two ends
of a sync; `Migrate` is the stop migration at start-up. `RecordHonest` is safety;
`SyncRepairs` says that everything the races do is mended in the end.

**ExitLadder.** The prices: entry drift gate, stop, break-even, partial targets,
trailing, early review, time and thesis exits, in the order `Check` tests them.
`pos` is the record, `saved` the file, `exStop` the trigger at the exchange;
`recent` says the throttle holds the next move of the exchange's stop back.

**TradingHalts.** The shared halt with its one cause, symbol halts, the
executor's flag and the way of a `/resume` through reconciliation. `OtherLost`
is looked up in the thread (`BeginClear`) and acted on later (`FinishClear`).

### Judge

**JudgeSlots**: `open`, `pending` (reservations), `state` and `file` (cooldown,
deferred entry), `buffer` (five seconds of ranking); the executor as the judge
sees it (`orders`, `held`, `results`, `finals`). **JudgeGates**: one operator per
gate, and the three paths composed of them as the code orders them: straight,
deferred for confirmation, deferred for a pullback. **JudgePlan**: stop, targets,
leverage, ladder risk/reward, the pullback policy that rewrites them, and the
expected-value gate, in exact rational arithmetic scaled to integers.
**JudgeScore**: votes, cap by RSI, decays, streak, threshold; the code writes
each out for long and short, and `SidesAgree` mirrors every input.

### What is told and booked

**PnlLedger.** A close becomes a pending row, is resolved by its background task
or by the reconciler from the fills visible at that time (or left for a human
after a day), is corrected, put in the outbox, told and acknowledged, and
reviewed into the trade history. `Resolve` reads and `ApplyAnswer` writes, so two
resolvers cross. An amount is the set of fills it sums: counting twice is then a
fact about sets. **RiskGuard**: what the executor holds (`held`) against what the
guard watches (`tracked`), with the queues between them in bus order, alert
throttles, the reviewer's latch, and the three copies of the halt.
**PaperBooks**: both books of one symbol; `BooksBalance` ties equity to recorded
profit and fees. **ResearchCycle**: a cycle and the retry that overlaps it,
barrier against deadline, challenge, and the watch that gives up aloud.
**MessageBus**: one inbox between its soft and hard limits. **SidecarOwners**: run
loop, monitor on a copy of the registry, `stop` and `stop-admission` as processes
of their own, and the drain report.

## 3. Runs and bounds

Sizes are distinct states. The two runs that are violations exhibit
disagreements of section 6.

| run | question | bounds | size |
|---|---|---|---|
| `live_episode` | order sent once, claim exclusive, exposure keeps its slot, guard in place, freed means spent and never retried, admission heeds the ledger's halt | 2 faults, 1 crash; 2 intents of which one goes on the exchange and the other is admitted with one fault or crash at most (`OneUnderWay`) | 845 k |
| `live_capacity` | exposure at the exchange never exceeds the slots; protected only with the remainder gone and for the exact quantity | 2 intents, 1 slot, 2 lots; an intent alone with one fault or crash, two in competition with one fault and one of them filling (`AloneOrOneFills`, `PairFillsWhole`) | 1.14 M |
| `live_settles` | liveness: entries and closes settle, PnL arrives | 1 intent, one fault or one crash | 116 k |
| `governor_losses` | restart decides as before; admitted only within the limits | 3 closes, 3 finals, times 0..2, 1 halt, 1 crash, 1 cut | 467 k |
| `governor_promise` | the governor implements LossGuard; a streak is paid once | 3 closes, 4 finals (so a correction at least), times 0..1, 1 crash | 330 k |
| `ledgers` | episodes, ledger file, candidate receipts, paper books, inbox | registry: 1 side, 2 tokens, 2 bars, 2 episodes, 1 crash; store: 2 processes, 4 appends, 2 raising calls, 2 crashes; receipts: 2 messages and payloads (one of the two at a time), 2 episodes, 6 events; paper: 2 positions, 1 restart; bus: 4 messages, limits 1 and 2 | 475 k |
| `main_lane` | record honest, sync repairs, stops agree and hold | position: entries of 2 units, 3 at most, 2 acts, 1 fault; ladder: 5 prices, 4 plans, 1 add, 1 fault | 360 k |
| `judge` | caps, one dispatch, reservations end; gates; plan; score | slots: 2 symbols, caps 1 and 1 (and 1 and 0: `Crowd`), 2 entries, 1 close; gates: every market of the bands; plan and score: values on both sides of every threshold | 481 k |
| `agents` | positions tracked, danger acted on; cycles not silent | guard: 1 symbol opened twice, 1 fault; research: 2 cycles, 1 retry, 2 lost answers | 271 k |
| `operations` | LossGuard's own promise; halts heal; fills counted once, closes answered; sidecar drains | losses: 2 closes, 3 finals, times 0..2; halts: 2 symbols, 3 halts or restarts; PnL: 1 close in either lane, 1 crash or lost write; sidecar: 2 opposite plans of one symbol, 1 fault, 1 stop command | 190 k |
| `live_remainder`, `judge_loss` | disagreements | smallest that show them | |

Why the bounds are enough. *Tactical V2*: intents are symmetric and meet only in
the slot count, the halt and the two loops: two of them give every pair, a third
adds no new kind of meeting. With one fault every single call of every handler
fails in some behaviour; with two the call that answers a failure fails as well.
Two lots are the smallest entry that fills in part and leaves a remainder. A
crash falls between any two steps and, with `CutShort`, between two appends of
one. `PairFillsWhole` keeps two competing intents from the case `live_remainder`
shows. For the governor two losses make a streak in the model (three in the
code: `LossStreak` is a parameter), three closes reach a streak plus one, and
four finals on them reach a correction before and after a pause. Results are -2
and +1 against a limit of -4, so two losses reach it and a win moves it; the
window is two ticks, so the first tick's results leave it at the last. In the
registry two bars give older, equal and newer, two tokens changed and unchanged.
In the store four appends allow a success before and after every kind of
failure. A receipt meets another by its message or by its payload, which is why
one of the two may be single.

*Main lane*: a record and its dict differ as soon as one thread drops what the
other holds, so two acts and one fault reach every crossing; three units allow
an add and a reduce that leaves something. The ladder's prices lie below the
stop, near the entry, past break-even, past the first and past the second target.
*Judge*: with a cap of one the second symbol already contends; the second slot
type is there because each type is counted alone. *PnL*: the resolvers of a close
meet on that close; the case of a second close, whose pending row a fallback may
take, was explored with two closes and is in section 6. Crashes are given to the
tactical close only, since only its finals are replayed. *Guard*: one symbol
opened a second time is the smallest history in which an old message can be
taken for the new position. *Sidecar*: two opposite plans of one symbol are the
smallest netted position with two owners. *Research*: a cycle and one retry
overlap in every order.

Symmetry is used for intents, closes, tokens, messages and payloads: no
property and no CHOOSE distinguishes them, and it is never used with a liveness
property. `ReservationEnds` is checked (`OneReservationEnds`) for one symbol of two, since they differ
by name only.

`CHECK_DEADLOCK FALSE` is set where the system may stop: clocks and finals that
are used up, a store whose marker an operator must remove (`store.py` 97-110), a
composition whose part has used its bounds.

Also stated in the modules, examined while modelling, and not among the runs
because a stronger or a deeper property stands for them: the type invariants of
the composed modules; `IncidentsStand` (receipts), `HeldIsCounted` and
`OneHitPerStop` (slots), `VotesCount` and `TurnStartsOver` (score),
`SparseNeverHelps` (plan), `TacticalWhole`, `OneRecord` and `AckedStaysSent`
(PnL), `LimitResolved` (paper), `OnePreliminary` and `MarketUsed` (research).

## 4. Fairness

*TacticalLive*: `Fairness` is what `BaseAgent.run` and `ExecutorAgent.tick`
(1373-1389) do: both loops go on and the threads they await return (weak
fairness of each loop's step); `tick` visits every record again and again and
finds an entry past its TTL in the end, every sixth tick syncs positions, the
resolver is retried until the fills are there (strong fairness, since another
handler may hold the claim or the loop each time weak fairness would look).
Messages, the market, faults and crashes owe nothing: no property depends on a
fill, a candidate, or an operator. `live_settles` allows one fault or crash,
because two of them reach states that wait for an operator by design.

*MainPosition*: the sync and the migration run on the tick again and again
(`SF_vars(SyncFetch)`: it is skipped while an exit holds the position), a thread
inside an exit goes on, and the two-minute cooldown ends. *TradingHalts*: the
clearing thread returns, and the check of each tick finds a stop that is there.
*JudgeSlots*: time passes and every symbol is analysed again, which is what
sweeps an old reservation; the executor owes no result. *PnlLedger*: tasks, the
reconciler and the replay of each tick go on, a day passes; the exchange owes no
fill. *RiskGuard*: each agent takes its messages, the price monitor warns every
tick, a cooldown ends. Closes may fail. *ResearchCycle*: handlers, deadlines and
the watch go on; a collector owes no answer. *SidecarOwners*: the run loop goes
on, and a stop command that was started ends; nobody owes a command.
*PaperBooks* and *MessageBus* state the fairness of their loops for properties that
are not among the runs.

## 5. Proofs

All theorems are checked by TLAPS from nothing but assumptions on constants:
the ASSUMEs named in the modules that declare them, each evaluated by a run, and
what some theorems state themselves: `Lot \in Int` and `NoSymbol \notin Symbols`
for constants no proof otherwise asks anything of, and `Lots = 1` and `MaxCuts = 0`
where the property is false with partial fills and with a cut final. The
assumptions on the markets a plan, a score or the ladder meets are in `MCJudge`
and `MCMainLane`, those on amounts, stores, the names of candidates, closes and
sidecar plans in `MCLedgers` and `MCOperations`.

*TacticalLiveProofs*, types and claims: `TypeCorrect`, `ClaimsExclusive`. The invariant `TypeInv`
is TypeOK plus the shape of a call: which primitive a handler may await, which
answers it can get (`CallFine`), and that a handler that owns an entry has an
intent. The steps are grouped by what they do to each group of variables
(calls, records, hosts, exchange), so each action is looked at once per group.
`ClaimInv` adds that a handler on an entry holds its claim; exclusiveness
follows.

*TacticalLiveProofs*, the entry order: `EntrySentOnce`, `RemainderProvenGone`,
`ProtectedQuantityExact`, `FillSettledExactly`, `FreedEpisodeSpent`. `EntryInv`
says that a fresh intent (no record yet, or `ready_for_quote`) was never sent,
that an intent never sent has no order and no fill, and that only the message
loop submits, having taken the freshness away before it does; no handler gives it
back. `FillInv` says what a handler that has seen a fill knows: a call whose fill
is settled (the order found terminal, or its cancel or the cancel of its
remainder proven, and every verification) has its order dead and its quantity
equal to the lots filled; protected and closing records have dead orders. A
handler that has not settled its fill knows only a lower bound of it.
`FillSettledExactly` joins both halves into the invariant `SettledExactly` of
`live_capacity`, for any number of lots, faults and crashes.

*TacticalLaneProofs*: `ProtectedStaysGuarded` and `AdmissionReadsTheHalt` for any
number of lots, `SlotsCoverExposure`, `LaneAdmitsSoundly` and
`ExposureStaysBounded` for `Lots = 1`, an entry that fills whole or not at all. With
more lots the three are false of the code: `live_remainder` and the settlement
after a close of section 6 say how. Three invariants carry them, each on top
of the one before:

* `WorkInv`: a handler awaits, and what it decided on may change meanwhile. It says
  in which states the record a handler works on can still be (`CallWork`), that
  the entry of an intent and its position are never worked on at once (`Apart`),
  and that a protected record has both algos with no excuse for a handler at work
  (`Guarded`), which is more than `ProtectedHasGuard` asks.
* `LotInv`: what a handler knows of the position (`CallLot`), and what the record,
  the common books and the final PnL say of it together (`RecordLot`): a record
  that gave its slot back is not exposed, a final on its way means the position
  is gone, an entry not yet protected is not in the common books.
  `SlotsCoverExposure` is its first conjunct; the rest is what keeps it.
* `SlotInv`: finitely many intents are admitted, and the records that hold a slot
  for something not yet over are at most `MaxConcurrent`. Admission counts
  records, the bound is of orders and positions; `SlotsCoverExposure` makes every
  exposure one of the counted, so the cardinality of the exposed is bounded for
  any number of intents. A record becoming an entry again after it gave its slot
  back would break the count: that it never does is `LaneAdmitsSoundly`.

Each was checked by TLC as an invariant of a small instance before it was proved.

*OperationsProofs*, the loss guard: `StreakAlwaysPaid`, `PauseIsKept` and both as `PromiseKept`: a
complete streak is paid for in the step that completes it, for every streak
length, set of closes and results. `GuardInv` says consumed closes are booked
closes; the core lemma is that the streak over consumed closes is empty.

*LedgersProofs*, the episodes: `OneGrantPerEpisode`, `LedgerIsMemory`, `CutRenewalStays`,
`RenewalsAreEarned`, `RenewalsAreFresh` and the three last as
`RenewalsAreJustified`, all from one invariant `RegInv`: the ledger folds to the
memory (`Shape`), epochs beyond the current one were never granted (`Counted`),
what a side was shown is what its current episode noted of it (`Noted`), and a
cut renewal still resets (`CutOpen`). `Noted` is what makes the two action
properties provable: they speak of the history, `_reset_reason` of the episode.

*JudgeProofs*, the slots: `DispatchedOnce`, the invariant `EnteredOnce` of `judge`. A
deferred entry has a number; the file of a restart may hold an entry the memory
has already dropped, so the invariant speaks of both: `Known[s]` is what `s` has
deferred in memory or on file, and `Numbered` says that numbers in use were given
out, were not dispatched and belong to one symbol. Every step either forgets,
uses up, or numbers anew (`ForgettingIsFine`, `UsingIsFine`, `GivingIsFine`), and the
rest of the proof shows which step does which.

`CapsAreKept`, the invariant `CapsHold`, from `SlotsAssumption` (a finite set of
symbols, caps in Nat): the judge counts its reservations, the cap is of what is
open and ordered. `Agreed` relates, symbol by symbol, the slot in memory, the
reservation, the position, and the orders and results under way; `CapsInv` says
that it holds of every symbol and that the symbols the judge counts of each slot
are within its cap, as long as nothing slipped; the symbols with a position or
an order are then among the counted.

*JudgeProofs*, the gates: `GatesHold`, the invariant `NoGateBypassed`. The gates are
written three times in the code, so the proof follows an order backwards: what is
sent is an order (`OrdersAreGated`), and each operator on the way to it
(`Tracks`, `Sized`, `Floored`, the regime policy) lets an order through only with
the gate that the others have (`TrackOnItsWay`, `SizeIsEarned`, `FlooredIsEarned`,
`PolicyIsEarned`). It holds in every market the module names, with and without the
tactical track.

*JudgeProofs*, the plan: `PlansPay`, the invariant `PlanPays`, from `PlanMarkets`
(distances in Nat, levels any sequence of them, margins of at most 10 % of the
balance). `StopBounds` bounds the stop by the widest level and its half percent,
`LeverageKeepsBudget` shows that rounding to an allowed step goes down,
`TargetPays` that the first target pays, whichever of the four ways it was found in. A
plan that the pullback policy rewrote keeps the target half and loses the budget
half; `judge_loss` shows that.

*JudgeProofs*, the score: `BothSidesAlike`, the invariant `SidesAgree`, from
`ScoreMarkets`. Every part of `_compute_score` is shown to be odd or even under
the mirror (`RuleIsOdd`, `TrendIsOdd`, `CapIsEven`, ...), then their composition
(`ScoreIsOdd`, `FinalIsOdd`, `EntersIsOdd`). Division rounds towards minus infinity in the
model's integers, so the lemmas on tenths (`TenthsAreOdd`) are where a bias between the sides would show.

*RiskGuardProofs*: `GuardTracksPositions`, the invariant `PositionsTracked` of
`agents`, from no assumption at all. The property only says that a message is on
its way; inductive is what the queue says in order (`Consistent`): after a
`closed` of a symbol that is held there is a later `opened`, and the reverse, so
the last message of a symbol tells the truth. Closes whose result a crash
swallowed (`stranded`) are the one error the property allows.

*MainLaneProofs*, the position: `RecordTellsTheTruth`, the invariant `RecordHonest` of
`main_lane`, for every integer lot. A record never claims a level that was not
sold, although two threads carry levels across awaits: `GoodWorks` bounds what
each thread may still write. A thread whose record is the youngest (`born =
births`) carries at most the next level; a thread with an older one writes into
a dict nobody reads. `UnknownIsHalted` is inductive beside it.

*MainLaneProofs*, the ladder: `LadderAgrees` and `LadderHolds`, the invariant
`StopsAgree` and the action property `StopHolds`, from `LadderAssumption`. The
properties speak of a position that was not added to; inductive is `LadderInv`,
which says of it that record and file agree on what the moves of the stop read
(`Alike`), that 1R is wide enough for break-even to lie above the entry (`Steep`), and
how the three copies of the stop are ordered (`Unadded`). `LevelsAbove` is the
arithmetic: the stop of a level a position has earned is above its entry. It is
false when 1R is a handful of price units, since the thousandths of the model then round
break-even down to the entry, which is why the assumption asks for prices of a thousand
units and stops farther than one percent; a plan the pullback policy rewrote in a
market that hardly moves can have a nearer stop, and is outside the theorem.

*LedgersProofs*, the store: `LedgerIsHonest`, the invariant `LedgerHonest`, from
`StoreBounds` (how many appends; the name for nobody). What the property asks of the file, `StoreInv`
asks of every content a loss of power could leave (`storeMayFind`): each is
`Truthful` to what the callers were told. `PhaseInv` says for each step of an
append which content that is, with the row or without it; `FenceInv`, that a file
which a loss of power could still change has its marker durably, so the next
opening refuses it; `AskedInv`, that appends are begun in order. Each system call
may return, raise, or be the last.

*LedgersProofs*, the receipts: `AnswersAreHonest`, the invariant `ReceiptsHonest`, from
`ReceiptNames` (a message id is no payload's hash, as the controller keeps them in sets
of their own). The run takes candidates of one message or of one payload, the theorem any
mixture of them. The read model is a fold of the ledger by a recursive function, so the
proof first shows that the fold absorbs one appended event (`ApplyOneMore`), from the
least place where two such folds would differ. What `_remember_candidate_receipt` can do is one of six
effects (`Remembered`). `Good` is inductive, of a read model, a ledger and the answers
given: a message has one receipt (`OneReceiptEach`), the receipts of a payload that nothing
contradicts agree (`Agreed`), an answer that could be given again still has its receipt
(`AnswersKept`), intents belong to episodes and deliveries of their own (`IntentsApart`),
an accepted receipt has the intent of its delivery (`AcceptedBacked`); and the memory
reads the same as the restored one in all an answer rests on (`Same`), so a restart is
no step at all. Each prefix of a decision keeps it (`DecisionKeeps`): that is the crash
between two appends. A receipt refused leaves its message and payload in quarantine,
which is why an answer never changes even when the ledger contradicts it.

*LedgersProofs*, the paper books: `EquityAccounted`, the invariant `BooksBalance`,
from `PaperAmounts`. `PaperInv` adds that a flat book owes no fee and that a limit
entry waits for a flat book only: whatever enters, enters a flat book, so no fee
is forgotten.

*LedgersProofs*, the inbox: `UrgencyAlwaysRespected`, the invariant
`UrgencyRespected`, for every limit. `BusInv` says that what waits is no older than
the last message taken of its priority.

*OperationsProofs*, the ledger of closes: `FillsCountedOnce`, the invariant
`CountedOnce`, from `PnlAssumption`: the closes are numbered from one. The property counts rows; `PnlInv` says
of each close that is not excused that one resolver at most is at work on it
(`OneHolder`) and that once a final is written its pending row is superseded,
nobody is at work on it and there is no other final (`OneFinal`), so the set counted
is empty or a singleton. A close the process booked by itself is never notified
(`BookedClosed`). `Newest` is an induction over Nat, from the well-foundedness of
`<`: the fallback that takes the newest pending row has one to take.

*OperationsProofs*, the sidecar: `ReportIsHonest` and `NothingOpensAfter`, the two
safety parts of `SidecarDrains`, from `SidecarAssumption`. An event under way saw
the admission flag as it is (`FlagSeen`), because the command that clears it waits
for the lock the event holds; a pass of the monitor works on a copy of the rows,
which can only lag as long as no stop command wrote over them (`CopyExact`).

*OperationsProofs*, the halts of the main lane: `LiftsAreSafe` and `HealsAreEarned`, the
two safety halves of `HaltsHeal`. The thread that clears a halt acts on what it looked up earlier;
`ClearingSound` says that as long as the halt is still the one it would lift,
what it found still holds - the atomic compare of `auto_clear_if_reason` is what
this rests on. `NoSymbol \notin Symbols` is assumed.

*TacticalGovernorProofs*, from `GovernorAssumption` (finitely many closes, integer
results and limit, positive streak, pause and window):

* `RestartsAreExact`, the invariant `RestoreExact`. `GovernorInv` says that the ledger
  is well typed, that the memory is what `_restore` folds it to, and what such a
  memory says of the ledger without folding it (`Told`): a close is booked at its
  first final with the result of its latest, the pause is no earlier than any
  written, a halt is forgotten only for a later clearing.
* `AdmissionsAreWithinLimits`, the invariant `AdmissionWithinLimits`: it asks the
  ledger and never the memory, so `Told` is what connects the two.
* `CooldownsPaidOnce`: no loss pays for two cooldowns, also when `apply_final` is cut
  between its appends. `Paid` counts, in the memory, the closes first booked between the triggers of two cooldowns in a row:
  at least a whole streak of them. It stands because a close keeps its first
  booking through every correction.
* `LossesArePaidOnce`, the invariant `LossesPaidOnce`, and `GovernorImplementsGuard`,
  the refinement `ImplementsLossGuard`, for `MaxCuts = 0`. `StreakPaid` says that no
  complete streak stands in the memory; a cut breaks exactly this, and section 6
  reports it. The refinement maps the book with its turns to the guard's book, the
  turns at or below the trigger to its consumed closes, and the finals seen to
  those it heard; each action of the governor is then a step of the guard or a
  stutter, a restart and a redelivery among the latter (`GuardSteps`).

The library's induction theorems cannot be used here, since they take an operator.
The ledger is a sequence of any length and its fold a recursive function; that
the fold absorbs one event after another (`RestoreAppend`) is shown from the least
place where it would not, which `LeastOne` takes from the well-foundedness of
strict inclusion among finite sets. The sum of the rolling window is an integer
(`TotalInt`) by the same argument over sets of closes.

Only model-checked:

* liveness, since fairness is out of the prover's reach;
* `SlotCoversExposure` and `ExposureBounded` with partial fills, within the bounds
  of `live_capacity`;
* `HaltHandedOn`, the third part of `HaltsHeal`, and `SyncRepairs`, `DangerActed`,
  `OneReservationEnds`, which are liveness too;
* `FlatFreesSlot`, the third part of `SidecarDrains`, and `ClosesAnswered`, liveness
  as well.

## 6. Where the code and the documents disagree

As runs:

* `live_remainder` - the recheck of a halted entry that filled and went flat
  (controller.py 3557) queues its final without cancelling the rest of the
  order; the final frees the slot while the order can still fill.
* `judge_loss` - `_build_plan` sizes leverage so that the loss at the stop stays
  within 5 % of the balance; `_apply_pullback_atr_policy` (judge.py 4926) then
  replaces the stop by a wider one and keeps the leverage.

Met while proving: the proof attempt stopped at a step, and TLC found the
behaviour.

* A recheck that reads a halted entry's fill goes on to settle it after its await
  without reading the record again (`_recover_exact_filled_entry_halt`,
  controller.py 3527; `_settle_live_fill`, 4012). When the part that had filled
  went flat, its final was delivered and freed the record meanwhile, and the rest
  of the order then filled to the very quantity asked for, the recheck takes the
  freed record as an entry again. This needs a partial fill, so the theorems on
  admission and slots assume `Lots = 1`.
* The judge's symbol list pops the state of a removed symbol and nothing else
  (judge.py 427-439): a reservation of it stays, and when the symbol is added
  again a second order, of another slot, hides the first. `JudgeSlots` counts this
  with the reservations that were let go (`slipped`); `CapsHold` excludes both.

Stated in their modules as properties that are false of the code, with the place
that says otherwise:

| property | module | what happens |
|---|---|---|
| `ManualHaltStays` | TacticalLive | `_fail_closed` (exchange.py 175, governor.py 204) replaces whatever halt is set, also one only an operator may clear; the recovery of the new one then lifts it. Against `runbook.md` 418 and `tests/test_tactical_v2_exit.py` 958 |
| `OwnerIsolation` | TacticalLive | `sync_positions` (executor.py 4053, 4119) adopts a V2 position as Main's when the record is protected but the common position was lost. Against `runbook.md` 381 |
| `AckedIsFinal` | TacticalLive | `_close_intent` writes its state after an await (controller.py 4222) although a final was handled meanwhile. Against `runbook.md` 385 |
| `HaltHasRecovery` | TacticalLive | the recheck appends `protected` and the lifting of the halt separately (3614); a crash between leaves a halt nobody revisits |
| `CancelRemembered` | TacticalLive | a crash while an entry is being cancelled makes it an ordinary `pending_entry` again (3337) |
| `FinalPnlArrives` | TacticalLive | `_mark_exchange_closed` (4333) routes a close to PnL only if `executor.positions` has it; after a crash between the `protected` append and `_persist_common_position` (4068) it has not |
| `NoUnpaidStreak` with a cut | TacticalGovernor | `apply_final` appends the final and then the cooldown (governor.py 143); stopped between the two, the streak is never paid |
| `AcknowledgementSurvives` | CandidateReceipts | an acknowledged ambiguity is raised again when the ledger is folded anew (controller.py 576-590, 1777-1818). Against `tests/test_tactical_v2_candidate_receipts.py` 2567 |
| `OrderedStopStands` | TradingHalts | the halt of a symbol that lost its stop overwrites the cause of an ordered stop, and the symbol's healing then lifts it. Against the docstring of `auto_clear_if_reason` (halt_state.py 93-97). Likewise a `/resume` confirmed for an older halt lifts a newer one |
| `ResidueHalts` | MainPosition | the migration removes a stop that has no record and halts nothing, also when the position is there and not yet adopted. Against its docstring (executor.py 1299-1301) |
| `DroppedMeansFlat` | MainPosition | `_fetch_okx_position_state` answers `None` for a flat symbol and for a failed call; an exit then drops the record as closed outside. Against the docstring of `_mark_external_closed` (executor.py 1752) |
| `StopRatchets` | ExitLadder | a partial target places the stop of its level, also where trailing or the early review had raised it further. Against `docs/architecture.md` 49 and executor.py 2878 |
| `NotLate` | JudgeSlots | a deferred pullback is tested for its price (judge.py 907) before its timeout (1180): one that is late and hit is entered. Against `docs/architecture.md` 506 |
| `RsiBanned` | JudgeGates | the deferred paths (judge.py 813-905) lack the RSI bans of the main path (932, 1070) |
| `LadderAscends` | JudgePlan | a wall's target is put behind the levels found before it, and nothing sorts them (judge.py 4868-4880). Against the docstring at 4500, whose ladder risk/reward expects them ascending |
| `SupersedesOwn` | PnlLedger | without an id match the final supersedes the newest pending row of the symbol and side, which may be another close's (live_ledger.py 1048-1072). Against its docstring (345) |
| `GuardWatches` | RiskGuard | the guard hears `halt` and `resume` but not `force_resume` (portfolio_risk_guard.py 179-187; telegram_notifier.py 979): trading goes on with its alerts silent |
| `HaltedOpensNothing` | PaperBooks | a limit entry that waits fills, or falls back to market, while the halt stands (paper_executor.py 276-344). Against its line 14 |
| `FinalIsOfItsCycle` | ResearchCycle | the preliminary result is one variable (synthesizer.py 248-306): a challenge of an earlier cycle is decided over the selection of the one that came meanwhile. Against 251, which drops what is not of the current cycle |
| `GrowthTold` | MessageBus | growth is the difference of two lengths of a bounded queue: once it is full nothing more is told. Against the docstring at orchestrator.py 371 |
| `DrainMeansFlat` | SidecarOwners | the report looks at symbols the registry or the positions file names; an order whose stop was not verified is in neither (sidecar.py 867-1001). Against the promotion design, line 244 |

Behaviours met while modelling that no document contradicts, worth a reader's
attention: two symbols halted one after the other share one cause, and the
overwritten one is not healed; a stop moved twice in one check stays behind at
the exchange, as do creeping moves under 0.3 % (executor.py 3058-3076); an add
lowers a stop that had locked profit; the same-direction cooldown is not asked on
the ranked and deferred paths; a deferred short without a bearish daily bias
becomes a probe in any regime; `stop` of the sidecar saves a registry it read
before the run loop wrote its owner (`DrainHonest` therefore speaks of histories
without a stop command), cancels the stop-loss before a close that may fail, and
leaves admission on; a close after a reduce stays ambiguous and goes to a human,
or counts the fill of the reduce again when the two are close together; a final
written over the pending row of another close, and two resolutions under way
together, count a fill twice (`CountedOnce` excludes both); corrections of PnL
travel as ordinary messages and are dropped by a full inbox.

## 7. Abstractions

*Tactical V2*

* Handlers of the message loop run one at a time; the `gather` over positions
  in `_close_all_positions` is not modelled. A boot retry after an exception is
  a restart.
* Clock comparisons (visibility deadline, TTL, max hold, recheck interval) are
  free choices; only the governor has a clock. `tick` works on the states it
  took at its start; the model's `RequestCancel` guard reads the current one,
  which the claim and the re-read of the record make the same choice.
* A delayed submit still under way is an open order whose query misses it.
* Episode states are one bit (`spent`) in TacticalLive; EpisodeRegistry has the
  rest. Loss gates are in TacticalGovernor only. `partial_fill` is a state name
  the live lane never writes.
* Governor: a final is issued with the ledger's time, never in the future
  (`agents/trading/executor.py` 424, 1696). Refused and invalid finals are not
  issued. `NotRefused` prunes states after a refusal, whose successors are those
  of the state it was asked in.
* Registry: one symbol (symbols do not interact); digests are epochs; terminal
  reasons are one bit; `current_bias` is written and never read. An available
  structure always carries its bar (`tech_analyst.py` 363-379).
* Store: an event is the number of its append. `write_snapshot` and `rebuild`
  have no callers outside tests and the replay script and are left out. A store
  of another process that is already open does not look at the marker; the
  2026-08-12 parity report (line 145) rules two Main processes out, so only
  opening checks it here.
* Receipts: a payload is its hash; registry and governor decide, so any decision
  they can give is a choice; a failed append leaves nothing (TacticalStore). The
  ledger may start with contradicting receipts of an older version; the evidence
  that rejects payloads of other formats (controller.py 732-1134) is left out.

*Main lane*

* MainPosition: one symbol and side, no other owner of it, no OCO orders, no
  testnet branch, a limit order fills whole; the window of idempotent order
  names is left out; the migration is one step. Amounts are units, prices do
  not appear.
* ExitLadder: a long position; prices as integers, ratios in thousandths. The
  throttle is one bit that time may clear.
* TradingHalts: a position is its recorded protection state.

*Judge*

* JudgeSlots: the signal is a choice among outcomes of `_make_decision`; two slot
  types for five, because each type is counted alone. Times are bits that age.
  Chase entries are left out: every entry the code defers has `chase_eligible`
  false. Positions found by a sync, adds of the position analyst and failing
  saves of the state are left out. `CapsHold` holds as long as no reservation
  was let go (120 s) or hidden behind another while its order stood (`slipped`).
* JudgeGates: what a single gate reads is a choice there; risk/reward is a band.
* JudgePlan: rounding of prices for display is left out; win rates in percent.
* JudgeScore: integer points in thousandths, inputs on both sides of every
  threshold.

*Told and booked*

* PnlLedger: closes of one symbol and side; amounts are sets of fills; a day is a
  bit. Re-emission after a final is idempotent in the trade ledger
  (`live_ledger.py` 354-360, 492-504) and left out. A ledger write that fails is
  swallowed (`_write_event`); that is modelled for the acknowledgement, where it
  makes a final be sent again.
* RiskGuard: danger is one fact per symbol, whichever of the dimensions decides
  it; correlation, stale-position warnings and amounts are left out.
* PaperBooks: long positions, prices in steps, margin in units; averaging is kept
  as lots.
* ResearchCycle: sentiment goes the way of news; what a model answers is a
  choice, for a rule takes over where it fails; the router's cooldown is left out.
* SidecarOwners: stop orders, partial exits, prices and PnL are left out; the
  report is read at once, though the exchange may not answer it.

## 8. Not modelled

Entry and exit reducers (pure functions of a quote; TacticalLive takes their
answer as a choice); the shadow lane (the same controller with simulated fills);
cutover evidence over parity reports (comparison of documents); status
projection; archetype cooldowns, regime and ranking scores (numeric); the symbol
router; the comparison reports of reconciliation. Models, wrappers,
configuration, journals, numeric indicators, collectors, language model agents,
backtest and counterfactual tools hold no protocol state; the legacy core is not
started by `run_agents.py`. The reason of each stands in `PROJECT.json`.

Hazards without a property are those whose property is false of the code
(section 6) or whose state the models abstract; each says which.

## 9. Plan

1. **Done**: Tactical V2 (live lane, receipts, governor, registry, store), Main
   position and its stop, halts, judge, PnL, guard, paper books, research cycle,
   bus, sidecar.
2. **Entry and exit reducers** with the shadow lane; live/shadow parity as a
   refinement.
3. **Regime hysteresis and archetype cooldowns** in front of JudgeSlots; the
   judge's sync of positions it did not open.
4. **Composition** of RiskGuard with MainPosition: alerts against exits under way.
5. **Proofs**: `SlotCoversExposure` with partial fills once the recheck of a halted
   entry reads the record again.
