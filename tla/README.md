# A verification model of the bot service

TLA+ modules for the trading-bot service of this repository (`app/`): what its
tasks, request handlers and database do to each other, checked by TLC on small
instances, and proved by TLAPS for every instance where a proof is given.
`PROJECT.json` lists the runs, the lines each definition models, the hazards and
the findings.

    tlc -workers 2 -config MCRaces.cfg MCBotSessions      # one run
    tlapm BotSessionsProofs.tla                           # the proofs of one component

- [1 The system](#1-the-system) · [2 The modules](#2-the-modules) ·
  [3 The runs](#3-the-runs) · [4 The proofs](#4-the-proofs) ·
  [5 Where code and texts disagree](#5-where-code-and-texts-disagree) ·
  [6 Only model-checked, and not modelled](#6-only-model-checked-and-not-modelled) ·
  [7 The plan](#7-the-plan)

---------------------------------------------------------------------------
## 1 The system

One FastAPI process, one asyncio event loop, one PostgreSQL database, and a
broker behind HTTP and a WebSocket. A user activates a *session* for a symbol;
a *task* then ticks about once a second, looks at the market, lets one of three
strategies decide, and sends orders in the user's name.

    clients ──HTTP──> routers/bots, admin_bots ──start/stop──> bot_manager
                            │ status                             │ creates, cancels
                            v                                    v
                       bot_sessions <──load, commit──── bot_engine task ──> ws_feed
                            ^                             │    │   │
                 main: restore after a restart            │    │   └─> strategies, selector,
                                                          │    │       risk_manager, indicators
                                           bot_trades <───┘    └─> broker_client ──HTTP──> broker
                                        activity log, Kafka          market_data (shared cache)

| component | state | operations | what is hard | what makes it correct |
|---|---|---|---|---|
| `bot_manager` | `_tasks`, `_user_sessions`, activation locks | start, stop, stop all | a cancelled task lives on until it unwinds, and for good if the cancel reaches it in a broker call; two dictionaries | a stop reaches the task that trades for a session, and a start leaves no other; the dictionaries agree |
| `routers/bots`, `routers/admin_bots` | `bot_sessions.status` | activate (single, bulk), deactivate, start, stop, pause, resume, restart, configure, remove, bulk forms, admin forms | requests interleave with each other and with ticks at every await; a commit fails between stop and start | one live session per user and symbol; a live session has a task; a stopped one stays stopped |
| `main` lifespan | – | restore live sessions, prune logs | runs on whatever the crash left | every live session with a usable token has a task again |
| `bot_engine._bot_loop` | ladder, grid, strategy, daily counters (locals of the task); position columns of the row | one tick; forced close | one transaction around many broker calls; failures after orders were accepted; a restart loses the locals | row, trades and broker tell the same story; limits hold |
| `risk_manager` | – | gates on daily loss, drawdown, open orders, stop-loss | the counters it is given | no trade past a limit; a limit pause lasts its day and no longer |
| `strategy_selector`, `strategies/*` | ladder, grid | select, generate signals | thresholds that interact; state that outlives its strategy | three levels at most; every ladder ends; orders of a left grid are cancelled |
| `broker_client` | – | one request with retries | an answer lost after the request took effect | what an order may come to is bounded, and nothing is sent once the call is over |
| `market_data` | cache with expiry, shared by all tasks | prices, halt, event | two tasks miss at once | an answer never passes for younger than it is |
| `ws_feed` | price buffer, order updates, an event | run, stop, wait, pop | reconnection, events lost between wait and set | a price that woke the loop is news; a fill troubles one tick; the feed ends with its task |
| `activity_logger` | throttle per session | log event, log decision | rows live in the caller's transaction | a decision is left out only next to a logged one |
| `kafka_producer`, `runtime_state`, schemas, `crypto`, `security`, config, migrations | a producer; display values | – | – | – |

The semantics all modules share, read off `database.py` and SQLAlchemy's use:

- **Await points are action boundaries.** Code between two awaits cannot be
  interleaved; every database or broker call can.
- **A commit writes changed columns only**: those whose value differs from the
  one that the *same* ORM object loaded. Two transactions on a row can each
  leave their half of it. A commit takes effect or fails as a whole, and a
  block left without one rolls back.
- **Memory is not rolled back**, and does not survive a restart. Orders at the
  broker survive everything.
- **A cancel is an exception at the await where the task stands.** At a database
  call, in the backoff of a retry or in the wait for a price it ends the task
  (`bot_engine.py:783`, `:184`). In the HTTP call of `_request` it is lost: to match
  it Python evaluates `httpx.TransientError` (`broker_client.py:62`), which httpx does
  not have, and the `AttributeError` that takes its place is a failed tick like any
  other (`:787`). The task goes on, and the registry has forgotten it. Each module
  below has this cancel as an action of its own: `CancelLost` of `BotSessions`,
  `OrderFeed` and `SessionRun`, `Outlives` of `TradingTick`, `Restart` with a task
  `beside` it in `RiskGate`.

---------------------------------------------------------------------------
## 2 The modules

Three of the modules compose components: `SessionRun` the status handling of a
tick with the shared cache and the clients (EXTENDS `MarketCache`), `OrderFeed` the
loop, its feed and the attempts of its orders (EXTENDS `BrokerRequest`), `Decisions`
the strategies and the log of what they decide (EXTENDS `Strategies`). One is
abstract: `BrokerCall`, which `BrokerRequest` and `OrderFeed` implement. `RiskGate` and `TradingTick` stand by
themselves: the first takes the profit of a close as an input, the second the
decisions of the ladder. `BotSessions` has ticks that change the status but do not
trade.

    MarketCache <──EXTENDS── SessionRun            BrokerCall <──implements── BrokerRequest
    Strategies <──EXTENDS── Decisions                                            ^ EXTENDS
    BotSessions    RiskGate    TradingTick                                   OrderFeed

### BotSessions: tasks, statuses and requests

| variable | code |
|---|---|
| `status`, `symbol`, `token` | the columns of `bot_sessions`; a token is valid, opaque (not a JWT), expired, or unreadable with the present key |
| `tasks`, `userSessions` | `bot_manager._tasks`, `_user_sessions` |
| `task[t]` | an asyncio task: its session, where it is, the status its transaction loaded, whether a CancelledError is on its way to it |
| `adrift` | history: the tasks that lost a cancel |
| `lock` | who holds the user's activation lock |
| `req[r]` | a request in flight: its endpoint, the rows it read and still has to act on, the status it loaded and the one it wants |

An endpoint is a record (`Plan[op]`): which rows it selects, which it refuses,
whether it calls `stop_bot` before its commit and `start_bot` after it, and the
status it assigns. The handlers differ in this data; their control is the same
and is written once: `ReadRows`, `Act` (checks, stop, assign), `Commit` or
`Abort`, `StartOne`. Activation has its own path (`TakeLock`, `CheckSymbol` with
`DuplicateFound` or `AddSession`, `Commit`, `StartOne`), under the lock. A tick is
`TickLoad`, then one of the status changes (`HaltDetected`, `HaltCleared`,
`RiskPause`, `BrokerRejectsToken`, ...) or none, and `TickCommit`. A cancel
first marks the task, and its next step is how it ends: `TaskUnwinds` and `FeedEnds` end
the task in two steps, as `_bot_tick` waits for its feed; `CancelLost`, possible while
the tick awaits the broker (`loaded`, `trading`), sets it adrift and lets it go on.
`Restart` is a crash with the restore that follows it.

### RiskGate: daily counters and limit pauses

`dailyPnl`, `peak`, `lastReset` are the locals of the task; `status` the row's;
`day` the UTC date, which moves on at any await. A tick loads, may resume a
paused row (`AutoResume`, `CommitResume`), evaluates both gates in one action
(`Gate`: reset, peak, daily loss, drawdown), commits a pause or goes on to
trade and closes positions with some profit or loss (`Close`). `lost`, `highest`,
`replaced` and `pausedOn` are history variables: what really happened on the
trading day, independent of the counters that are to be checked against it;
`replaced` says that the task did not have the day for itself: a new one, which knows
nothing of it, took over, or a second one ran beside it. `others` is that second task,
one that lost its cancel: it keeps counters of its own, so it may pause the row for
the limits of any day it has seen (`OtherPauses`), resume it (`OtherResumes`) and
realise profits and losses that the modelled task does not count (`OtherCloses`).
The flags `Restarts` and `Faults` let new tasks take over and commits fail.

### Strategies: the selector, the ladder and the grid

`mart` is `MartingaleState` (level, hold ticks, weak ticks), `grid` is `GridState`
(active, levels sold, order ids, the two exit counters), `out` the signals of the
last tick. A tick takes a market (`event`, `momentum`, `ema`, `volatility`,
`pressure`), selects, drops what the old strategy leaves (`LadderKept`,
`GridKept`), and runs one strategy, or ends after the switch (`SwitchOnly`).
Numbers stand for the intervals the thresholds of the code separate.

### TradingTick: the position, its orders and its transaction

| variable | code |
|---|---|
| `row` | `position_side` and `entry_quantity` of the row (`entry_price` is set and cleared with them), quantities in tenths of a share |
| `tx` | the transaction of the tick: the columns as loaded, the ORM object as it is now, the sum of the trades added, whether the broker accepted an order in it |
| `exposure` | what the orders the broker accepted for the position add up to, in whole shares |
| `open` | the open orders of the session at the broker |
| `strategy`, `ladder` | `current_strategy`, `mart_state` |
| `market`, `signal`, `count` | locals of the tick: what it selected by, the order it is placing, the open orders it counts |
| `forcePc`, `forceTx` | `force_close_position`, beside the tick, with its own transaction |
| `happened` | history: the broker accepted an order that no commit records, executed an order twice, a forced close and a tick overlapped, or a task outlived its cancel |

`Load`, then `EndsBeforeSelection`, or `Select` (with `SwitchCloses` and
`SwitchClosed` if a position is left behind), `StopLoss`, `SignalsMade` on an
answer of `get_orders`, `Closed`, and for each signal `Skip`, `Placed` or
`PlacementRefused`; then `Commit`. The other ends are `RollsBack`,
`PlacementUnauthorized` with `Part` (the commit on a 401), `Unanswered` (the
connection breaks, the order may have been executed), `Rebooted` (the process dies, or
a cancel finds the task outside a broker call) and `Outlives`: the cancel is lost in a
broker call, and from then on (`shared`) the ticks of two tasks come between each
other. Theirs are not followed one by one: `SharedCommit` writes some of the columns
they can write, `SharedOrder` is an order of one of them. `Written` is the
column-wise commit.
The constant `Trouble` says which of the ten things in `Troubles` may go wrong, so
that a run can show what a property needs: `tick_trouble` allows all of them.

### SessionRun and MarketCache: halts, pauses and a shared answer

`entry` is `_halt[symbol]`, `fetch[r]` a reader that has missed and waits, `halted`
the market and `ago` (history) how long ago it was halted and was not; ages are
whole steps that stop at `MaxAge`. A reader takes the time before it asks (`Asks`),
is answered at some time (`AnswerMade`) and stores the answer under the time it
took (`Remembers`). In `SessionRun` each session has its `row` and its `tick`: what
it has loaded and what its commit in flight writes. `TickLoads` ends the tick of a
paused row, and otherwise decides by the entry or asks; `Decides` writes "halted" or
"active" or goes on; `CheckFails` goes on as the code does. `Pauses`, `Resumes` and
`Stops` interleave with all of it; a stop whose cancel is lost is `CancelLost`, a failed
tick, and `Deactivates`, its commit, in either order. `blind` and `firm` are history.

### OrderFeed, BrokerRequest and BrokerCall: one task, its feed, its orders

| variable | code |
|---|---|
| `phase`, `attempt` | where each `_request` is, and the `attempt` of its loop |
| `wire`, `done` | the attempts the broker may still execute, and has executed |
| `loop`, `feed` | where `_bot_loop` and `BotWebSocketFeed.run` are |
| `stopped`, `event`, `updates` | `_stop`, `_price_events[symbol]`, `_order_updates` |
| `unread`, `news`, `gone` | history: a price no tick has looked at; fills still to be reported; fills popped or missed |

The broker executes an attempt before, after or without its answer reaching the
client, and the relay may report the fill before the answer. `ServerError` retries,
`Refused` raises at once, `Broken` is the clause that never catches; `Cancelled` is
`stop_bot` in the call or in its backoff: the request is over in both, but the loop is
left in the second only (`TaskCancelled`), and goes on in the first (`CancelLost`).
The loop goes from `reading` over `listing` to `trading` (and `calling`), then waits; it leaves by `draining`, in which it awaits
the feed. `BrokerCall` is what remains for the caller: begin, executions, one verdict.

### Decisions: the throttle and the transaction

`stamped` is the age of `_last_decision_write[session_id]`, set when the row is added;
`kept` (history) the age of the last row that was committed; `missing` (history) that
a later one was rolled back. A tick of `Strategies` ends with `DecisionKept`,
`DecisionLost`, or before it has logged anything.

---------------------------------------------------------------------------
## 3 The runs

Every property is paired in `PROJECT.json` with a mutant: a plausible slip of the
code (the `Slip...` definitions) that makes TLC find it violated.

| run | properties | what it shows | instance | states |
|---|---|---|---|---|
| `sessions_one_by_one` | TypeOK, LiveStatusHasTask, StopStays, DeactivationTakesEffect | endpoints that pair status and task leave no live row without a task; no tick brings a deactivated session back but that of a task that lost its cancel, and such a task ends too | 1 session, 2 tasks, 1 request, lost cancels, key rotation, fair tasks | 152 k |
| `sessions_races` | DriverIsStoppable, StartedAfterCommit, IndexMatchesRegistry, StrandsOnlyAtStart | a task out of stop_bot's reach is one whose cancel was lost: no interleaving of starts, stops and restarts leaves another; the index follows the registry; a failing database strands a live row only at the first read of a task | 1 session, 2 tasks, 2 requests, lost cancels, faults | 842 k |
| `sessions_activate` | UniqueLive | the lock keeps one live session per symbol | 3 rows, 2 symbols, 2 tasks, 2 requests | 435 k |
| `risk_gates` | TypeOK, DailyLossGate, ArmedDrawdownGate, PauseHoldsToday, LimitPauseExpires | no trade past a limit on a day that one task had for itself, over midnights, client resumes and failing commits; a limit pause lasts its day, and ends on a later one | 3 days, new tasks, second tasks, faults, fair ticks | 574 k |
| `decisions` | TypeOK, NothingOutlivesSwitch, HoldBounded, ExitsNeverCount, GridWithinSlots, LadderEnds, SuppressedForReason | what the task remembers of ladder and grid, what a grid asks for, that every ladder ends, and that the log has no gap but a rolled-back tick's | every interval of the thresholds, fair ticks | 6 k |
| `tick_calm` | PositionIsExposure, LadderCapped | row and broker agree between ticks, whatever orders are refused | whole shares, both sides, no trouble | 4 k |
| `tick_trouble` | TypeOK, OpenOrdersBounded, PositionWhole, PositionLeavesByTrade | the limit on open orders; a position comes and goes whole, and goes with its trade | all ten troubles | 2.0 M |
| `session_run` | NeverYounger, HaltTradesOnlyBlind, FirmPauseHolds, GoesOnByRecentAnswer, HaltClears | no tick trades on a halt answer that is older than it looks; a halted row trades only after a failed check and is active again once the symbol trades; a pause is lost only to a tick under way | 2 sessions of a symbol, expiry of 1, ages up to 2, lost cancels, faults, fair ticks | 158 k |
| `feed` | NothingBehindFirstRefusal, SentWhileAwaited, WokenByNews, FillFailsOneTick, OrdersAreCalls, StopDrains | what may become of an order however its attempts go and whether a cancel is lost; the loop wakes for news only; a fill troubles one tick; a task that left its loop ends | 2 orders, 1 retry, fair loop and feed | 702 k |

Some properties are stated *until* something happens, and the code does fail
them afterwards: the gates on a day with a new or a second task, the order limit once
an order was executed twice, the limit and the position once two tasks tick for the
session, the position once a forced close and a tick overlap, the pause
once the task has forgotten its day or has another beside it, the grid with more open
orders than slots. `DriverIsStoppable`, `StopStays` and `LiveStatusHasTask` name the
tasks adrift as their exception. Section 5 has the reasons. And some
hold on their instance only for what it leaves out: `sessions_one_by_one` has one
request at a time, no failing commit, JWTs only, and no endpoint that assigns a
status beside the task (pause, resume, configure); in `sessions_activate` nothing is
cancelled; `decisions` has the means to double; `tick_calm` has no bull event, no fraction
of a share and nothing that fails but entries.

The violation runs are in section 5.

**Bounds.** *BotSessions*: a race needs two requests, or a request and a tick, on
one session; two tasks per session cover the old one, unwinding or adrift, and its
successor (tasks are recycled when they have finished; with one adrift and one
registered, a further start waits until one has ended). Uniqueness needs a
third row, so that two requests can race while a live one exists. The runs take
one endpoint of each shape: those left out (`remove_session`, `admin_stop`, ...)
have the plan of one that is there. Symmetry is
used on tasks and requests only, in runs without a liveness property; the rows
and users stay distinguishable because `Owner` names them. *RiskGate*: three days
give a day before, of and after a pause; totals of 0, 80, 100 and 200 lie on both
sides of each limit and include the guarded zero; losses of 5 and 3 reach the
limit at once and in two steps; `PnlBound` (8) caps what a day can realise.
*Strategies*: one value for each interval between thresholds;
`MaxHold` is 4 in place of 60, the code treats no number between them apart; 0, 4,
5 and 7 open orders leave all slots, one, none and less than none. *Decisions*: a
`Throttle` of 2 steps tells a fresh row, an ageing one and an expired one apart.
*TradingTick*: `Bound` limits exposure
and recorded position in shares (7 is one full ladder of 1 + 2 + 4; 11 lets a
new ladder start on top; 3 in `tick_trouble`, one doubling, where the question is
which transaction and which order, not how large), and twice `MaxOpen` what two tasks
have open together; `MaxOpen` (2, and 1 in
`tick_trouble`) bites between the signals of one tick, which has up to five.
*SessionRun*: two readers are enough for an answer to overtake another; an age
of 1 has expired, one of 2 is older than any the cache gives out. *OrderFeed*: two
calls, so that a fill of the first can meet the second; one retry in place of two
has a first, a last and a repeated attempt.

**Fairness.** `sessions_one_by_one` assumes weak fairness of each task's
steps: asyncio runs every ready task, and every await of a tick has a timeout (10 s
for HTTP, `TICK_INTERVAL` for the feed). It assumes none of requests, of the broker
or of the feed's end. `risk_gates` assumes weak fairness of the tick, and
nothing of the clock: the property speaks of days that have come. `decisions`
assumes that ticks that reach the strategies keep coming and that orders get some
answer (`AnsweredTick`), since a market that never opens again cannot close a
ladder. `session_run` assumes ticks, answers (or the client's timeout) and time,
nothing of clients or of the market. `feed` assumes the loop, connection attempts
(`open_timeout`) and the end of each backoff, and nothing of the relay:
`StopDrains` has the prices that it needs as its hypothesis.

---------------------------------------------------------------------------
## 4 The proofs

All for every value of the constants, from the named assumptions of the modules
and what is listed.

| theorem | module | assumes |
|---|---|---|
| TypeCorrect, StoppableCorrect, StartedAfterCommitCorrect, IndexCorrect | BotSessionsProofs | – |
| OneDriverCorrect | BotSessionsProofs | `adrift = {}` in the state |
| DecidedCorrect, PlannedCorrect, StrandsCorrect | BotRowsProofs | – |
| StopStaysCorrect | BotRowsProofs | `[]NoSharedRow` |
| ActivationsAreUnique | BotRowsProofs | no endpoints but activations |
| UniqueLiveCorrect | BotRowsProofs | `OnlyActivationsMakeLive`, `[]NoSharedRow`, `[](adrift = {})` |
| LiveStatusCorrect | BotRowsProofs | `PairsStatusAndTask`, `[]NoSharedRow` |
| TypeCorrect, PauseHoldsTodayCorrect, DailyLossGateCorrect, ArmedDrawdownGateCorrect | RiskGateProofs | – |
| TypeCorrect, NothingOutlivesSwitchCorrect, ExitsNeverCountCorrect, GridWithinSlotsCorrect | DecisionsProofs | – |
| HoldBoundedCorrect | DecisionsProofs | the means to double (`Funds` is TRUE only) |
| TicksCorrect, LogCorrect | DecisionsProofs | – |
| TypeCorrect, OpenOrdersCorrect, PositionWholeCorrect, PositionLeavesByTradeCorrect | TradingTickProofs | – |
| LadderCappedCorrect | TradingTickProofs | `Calm`: no trouble but rejected closes |
| PositionIsExposureCorrect | TradingTickProofs | `Trouble = {}`, `WholeOrders` |
| TypeCorrect, CacheCorrect, HaltCorrect, PauseCorrect, AnswerCorrect | SessionRunProofs | – |
| TypeCorrect, FirstRefusalCorrect, SentCorrect, WakeCorrect, FillCorrect, CallsCorrect | OrderFeedProofs | – |

**BotSessions.** That a running task is registered or adrift is not inductive: a start
replaces the registered task, and nothing in the conclusion says that the one replaced
is cancelled. The inductive invariant

    IInv == TypeOK /\ Writing /\ RegistryOK /\ RowsExist /\ IndexMatchesRegistry

says that every task in its loop with no cancel on its way is the one the registry
names or one adrift (`RegistryOK`), that a request past its checks wants a status
(`Writing`), and that requests and tasks refer to rows that exist (`RowsExist`, from
which `StartedAfterCommit` follows). `DriverIsStoppable` is read off it, and `OneDriver`
holds while nothing is adrift, because the registry is a function: the theorem says
that in each such state, the run `lost_cancel` that it fails in others. The proof goes
action by action; those that cancel or start share lemmas about `CancelKeys` and
`StartBot`.

**Rows and tasks.** `BotRowsProofs` starts from the drivers: the tasks that execute
statements of their loop with no cancel on its way, those adrift among them. Each kind
of step has a lemma on which drivers it leaves (a tick's, a stop's, a start's, a
restart's), and `StrandsCorrect` is read off them; it assumes nothing. The others need
to know what a step will write later, so

    RowsInv == IInv /\ Decided /\ Planned /\ Asleep /\ RowsKnown

says that a tick writes what follows from what it read (`Decided`), that a request
keeps to the plan of its endpoint (`Planned`), and that a deactivated row has no
driver but one adrift (`Asleep`). `Asleep` is what two requests
on one row break: a stop that acted before another request's `start_bot` ran commits
"deactivated" under the new task, whose tick has loaded the row and writes a live
status over it. So `NoSharedRow`, no two requests with a row in common, is a
hypothesis: one request at a time meets it, and so do any number of clients that each
keep to their own sessions. It says nothing of ticks, lost cancels, failures and
restarts, which interleave with the requests as they like. Activations alone meet it by
their lock (`NextDistinct`), so `ActivationsAreUnique` does not assume it.

`LiveStatusCorrect` adds `PairInv`: a live row has a driver, or a request in hand that
will start or deactivate it (`LiveDriven`); a deactivated row that is live again was
revived by a task adrift, which drives it (`RowsRevived`); and a task that is about to
give up on a token leaves "error" behind (`DyingLeavesError`). Lost cancels need no
hypothesis here. `PairsStatusAndTask` lists what it
cannot do without: endpoints that start a task or deactivate; no failing database,
since a failed first read strands the row (`StrandsOnlyAtStart`); JWTs only, since a
restart skips other tokens. `UniqueLiveCorrect` adds `ClaimInv`: a row claims its symbol
from its insert on, committed or not, under the lock of its user, and no symbol is
claimed twice. `OnlyActivationsMakeLive` excludes the endpoints of the finding in
section 5, and `[](adrift = {})` the task that revives a session after another has been
activated on its symbol.

**RiskGate.** The gates look at counters, the properties at history. `Calendar`
orders the days (last reset, pause and clock); `Ledger` says that on the day of the
last reset `dailyPnl` is what was really lost and `peak`, if recorded, what was
really highest. `Ledger` breaks when a new task starts with empty counters or a second
one counts for itself, which is why both gates are stated for days that one task had for
itself (`replaced`); such a day may follow others, as the counters are reset at its
first gate. `PauseHoldsTodayCorrect` rests on `Calendar` alone, so it allows new tasks;
it does not hold beside a second one, whose own last reset decides when it resumes.

**Strategies.** `IInv` is the conjunction of the types, `NothingOutlivesSwitch` and
`ExitsNeverCount`; a strategy is entered with its fresh state, and the intervals
that would start the weak, low-volatility or high-pressure counters make the
selector leave first. `HoldBounded` needs one more fact: below the stop a tick
either doubles, which raises the bound, or closes. `GridWithinSlots` is a lemma on
slices: `SlotSlice(n)` cuts as many levels as `MaxOrders - n` leaves, from the wrong
end below zero. `TicksCorrect` carries all of it
over to `Decisions`, whose steps are ticks or leave the strategy alone; `LogCorrect`
goes step by step, as both ages grow together and a throttle that is set
without a row being kept is recorded as missing.

**TradingTick.** For the orders: while signals are being placed, `open` is at most
the `count` the tick goes by, because both grow by the answered order and fills
only lower `open`; with the guard `count < MaxOpen` the limit follows. An
unanswered order ends the tick, so it cannot be followed by a second. For the
position: while a tick runs, its loaded columns are those of the row, so the
column-wise commit writes the object, which is whole; `Balanced` says that until
orders are placed the trades added equal the change of the object, so an
object without a position has sold what was loaded (`Sold`). The same holds of
the transaction of a forced close, and one of the two is at rest (`Alone`). All
of it breaks when both run at once, or when a task that outlived its cancel ticks beside
its successor, so `PositionInv` claims it until then; `SharedSince` says that the second
is on record as soon as the ticks are shared.

That the row is what the broker executed holds of no instance with trouble: TLC finds
it violated under each of the ten alone, as each can keep a position that the broker
closed, lose an order, or take the ladder from under its position. The cap of the ladder
survives one of them, closes that are rejected (`Calm`), and none of the other nine.
Entries and doublings may be refused and skipped all the same. `LedgerInv` says
that the position a tick works on, or the next one will load (`OnBooks`), is one that
its strategy may have at the present level of the ladder (`Fits`: none for grid and
hold, at most `Cap(level)` on the ladder's side for martingale), and that the order
being placed is the next it may add (`Asked`); the level moves when the order is
asked for, so after a refusal the position is below its cap and stays there.
`LadderCapped` follows, and `ExposureInv` adds what it is worth. `WholeOrders` names
the two cases that break it without any trouble (section 5): a bull event buys again
each tick and the row remembers the last buy, and fractions are cut off order by order.

**SessionRun.** `NeverYounger` is not inductive: an answer on its way may be stored over
the entry at any time. `AnswersInv` therefore says the same of every reader that
waits, its age counted from before it asked, and that the age of what the market
says now is 0; two readers that overwrite each other then cannot do harm. `TicksInv`
says that a tick which has yet to decide wants nothing, so only `TickCommits`
disturbs a pause, and a firm one has no tick beside it. A lost cancel is one more tick
that ends early.

**OrderFeed.** `RequestInv` places the attempts: all that are executed or on the wire
are among those made, none is both, and a call that was refused at its first attempt
has neither. `LoopInv` says that at most one call is under way, only while the loop is
`calling`, and that a loop told to stop is past calling; `FillInv` that a fill is in
one place. `CallsCorrect` maps each action to `Begin`, `Execute`, `End` or a stutter:
a retry stutters, because the verdict is pending and what is on the wire does not
show until the call is over.

---------------------------------------------------------------------------
## 5 Where code and texts disagree

| run | property | in short |
|---|---|---|
| `lost_cancel` | OneDriver | a cancel that reaches a task in a broker call is lost, and the task goes on beside the one that replaces it (`broker_client.py:62` against `bot_manager.py:42`: "Cancel a stale task for this session if one exists (e.g. restart)") |
| `resume_duplicates` | UniqueLive | resume, start, restart, pause and configure make a session live without the duplicate check (`bots.py:428` against `bots.py:83`) |
| `tick_listing` | TradesComplete | a failing `get_orders` rolls back a close that the broker executed (`bot_engine.py:520` against `README.md:185`) |

The lost cancel reaches far. A tick spends most of its time in broker calls, so it is
what a stop or a restart will usually meet. After a restart of the bot the row is active,
so both tasks trade: each keeps its own daily counters, ladder and open-order count, and
both write the position columns of one row (the exceptions `replaced`, `others` and
"outlived" of the properties). After a stop the task ends at its next load of the row
(`DeactivationTakesEffect`), unless it loads before the commit of the stop has landed
and then writes "halted", "paused" or "active" over it; it then goes on, unknown to
the registry (`StopStays`, `DriverIsStoppable`), until the row is deactivated again. The
shutdown of the process cancels all tasks in the same way (`main.py:145`), and a task
can take its cancel for a failed tick there too.

Noticed while modelling, and visible in the actions named, without a run of
their own:

- *Sessions.* A stop that falls between the commit and the `start_bot` of an
  activation finds no task; the one started afterwards can still write "halted"
  over the deactivated row (`HaltDetected`, `bot_engine.py:287`). `admin_resume` of
  a session without a task makes the reactivation its answer advises impossible
  (`admin_bots.py:696`, `:709`). Restore decodes tokens with the expiry check off,
  so it starts sessions with expired ones (`main.py:42`, against `:25`), and leaves
  a live row without a task when the token is no JWT (`Restart`).
- *Limits.* A new task starts the day at zero (`bot_engine.py:219`; `Restart` of
  `RiskGate`). The daily limit is a share of the present balance, not of the
  starting balance (`risk_manager.py:50`, against `README.md:92`). A task that was
  started on a paused row never resumes it (`bot_engine.py:246`, against `:242`),
  and a failing commit of the automatic resume costs a day. After the automatic resume
  no peak is recorded until midnight, so the drawdown gate is off for the rest of the day (`bot_engine.py:248`, against `README.md:93`:
  "Max drawdown | 10% from equity peak | Skip all signals this tick").
- *Strategies.* The exits of the martingale ladder on weak momentum and of the grid on
  low volatility or high pressure cannot fire: in every market in which their counters
  would start, the selector has already left the strategy (`ExitsNeverCount`, against
  `README.md:73`, `:75` and `martingale.py:5`). A negative number of free slots slices from the end
  (`grid_trading.py:95`). A grid that dissolves forgets the ids the engine should
  cancel (`bot_engine.py:599`, against `:484`). Without the means to double, neither
  stop nor timeout is reached (`martingale.py:89`, against `README.md:73`).
- *Positions.* Each bull tick buys again and the row remembers the last buy
  (`bot_engine.py:700`). Orders are truncated to whole shares one by one, the
  position is closed by its sum (`broker_client.py:125`). A failed close resets the
  ladder and keeps the position (`bot_engine.py:609`). A forced close and a tick's
  close both sell (`:849`). A rejected close is booked as a close (`:143`). An
  executed order that was answered 5xx is sent again (`broker_client.py:55`).
- *Feed.* Once its buffer holds enough prices the loop never returns to REST, also
  when the feed has been disconnected for long, and trades on the last price it has
  (`bot_engine.py:331`, against `ws_feed.py:8`). A stopped feed notices at the next
  message only (`ws_feed.py:137`). After a clean close `_connected` stays True until
  the next failure or the end (`ws_feed.py:143`).
- *Log and Kafka.* After a rolled-back tick the throttle suppresses decisions of
  which none was kept, and a strategy switch of that tick is never logged
  (`activity_logger.py:112`; `DecisionLost`). `main.py:132` says that a failed
  warm-up is retried on the first publish; the producer that failed to start is kept
  and never started again (`kafka_producer.py:39`).
- *Others.* `README.md:94` says that the order limit skips buys only, the code
  skips both sides (`bot_engine.py:622`). A market event selects `event_driven`
  whatever its magnitude, which is looked at in the strategy (`event_driven.py:27`).
  `select` is not imported in `bot_engine.py`, so every FILLED update ends its tick
  in a rollback (`:542`; the trouble `fills`, `TickLists` of `OrderFeed`).
  `httpx.TransientError` does not exist, so no network error is retried either (`broker_client.py:62`; `Broken` of
  `BrokerRequest`, the trouble `unanswered`).

---------------------------------------------------------------------------
## 6 Only model-checked, and not modelled

*Liveness* (`DeactivationTakesEffect`, `LimitPauseExpires`, `LadderEnds`, `HaltClears`,
`StopDrains`) is beyond the prover; TLC checks it on the instances above. Every other
property of a passing run is a theorem, with the hypotheses that section 4 lists.

*Abstracted*: prices, balances and confidence to the intervals the thresholds
separate; messages and payloads; the rows of `bot_trades` to their sum in
a transaction (their status and fill price would be set by a query that raises);
the portfolio is worth the same throughout a ladder, so its sizes are 1, 2 and 4
times the first. In `TradingTick` a grid's orders are no part of the position, as
in the code, and of the grid's ids only "some of its orders are cancelled" is kept;
`Strategies` has the ids. Of the price buffer, `OrderFeed` keeps whether it has a
price that no tick has read, and of the doubling backoff that it ends. Prices and
market events are cached like the halt flag and are inputs.

*Not modelled*: the indicators of `strategy.py` (floating-point arithmetic without
state; their results are inputs); the Kafka producer, runtime snapshots, views
and schemas (nothing reads them back, or they only read); the pruner, which deletes
rows nothing else reads; token encryption and caller identity
(pure; their outcomes are inputs of `BotSessions`); configuration and migrations
(declarations).

---------------------------------------------------------------------------
## 7 The plan

Written, in the order of importance: (1) `BotSessions`, (2) `RiskGate`,
(3) `Strategies`, (4) `TradingTick`, (5) `BrokerRequest` under `BrokerCall`,
(6) `OrderFeed`, (7) `MarketCache`, (8) `Decisions`, (9) `SessionRun`, each with its
proofs.

To come:

- *Theorems*: what of `StopStays` and `LiveStatusHasTask` is left when two requests
  share a row.
- *Two tasks*: `RiskGate` and `TradingTick` follow the second task of a session by the
  effects it can have; two full ticks on one row would show what limits still hold for
  their sum.
- *Composition*: `RiskGate` with the pauses of `SessionRun`, so that a halt commit
  that overwrites a limit pause shows in the counters; `TradingTick` with the calls
  of `OrderFeed`, so that the troubles `unanswered` and `resent` are derived from
  `BrokerCall` in place of being listed.
- *Closes* in `OrderFeed`: the calls of a switch or a stop-loss come before the orders
  are listed, and are left to `TradingTick` now.
