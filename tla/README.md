# FxScalpBot in TLA+

A verification development for the trading engine in `src/`: models of its
components in TLA+, runs of the model checker TLC on small instances, and proofs
checked by TLAPS. Line numbers refer to the files under `src/rust_core/src/`
(`*.rs`) and `src/python_strategy/src/` (`*.py`).

## The system

FxScalpBot is a scalping bot in two processes.

* **The Rust engine** (`rust_core`) owns the decisions. One task runs the loop of
  `main.rs`: check the kill switch, drain market and account messages, drain
  asynchronous execution results, scan every symbol for an opportunity
  (`scanner.rs`), manage every trade (`trade_manager.rs`), drop the finished ones,
  sleep 20 ms.
* **The Python service** (`python_strategy`) owns the broker connection. It streams
  ticks and the account, answers signal requests, and executes orders and closes on
  a pool of four threads. An order is answered `pending` at once; its result is
  pushed on another socket when it is there.

### Inventory

| Component | State | Operations | Talks to |
|---|---|---|---|
| main loop `main.rs` | phase of the turn | account sync, kill check, drains, the phases | everything, through `AppState` |
| scanner `scanner.rs` | none of its own | capacity, cooldown, loss and pyramiding checks; spawns a trade | `AppState`, signal requests |
| trade manager `trade_manager.rs` | none of its own | one branch per state: filter, submit, manage, close, cool down; cleanup | state machine, risk enforcer, bridge client |
| state machine `state_machine.rs` | one of seven states | `process_event` | called by main loop, scanner, manager |
| risk enforcer `risk_enforcer.rs` | limits, account | `can_enter`, sizing, reversal, stall, daily limit | called by manager and main loop |
| kill switch `kill_switch.rs` | flag, reason, event log | `trigger`, `is_active`, `get_reason` | any thread |
| bridge client `bridge_client.rs` | request queue, REQ socket, two channels | `request` with its timeout, send, receive with a timeout of its own, relay of replies, ticks and results | the service |
| trading service `trading_service.py` | job queue and thread pool, REP, PUB and PUSH sockets, time of the last tick per symbol | answer, submit, execute, push results, stream ticks and account, stop | the engine, the connector |
| MT5 connector `mt5_connector.py` | session | execute, iceberg in up to five chunks, look up a ticket, close | the broker |
| order executor `order_executor.rs` | pending orders, fills, positions | create, cancel, fill, close all | nothing in the running program |
| tick ingestion `tick_ingestion.rs` | ring buffer, spread average per symbol | push, latest, averages, latency, abnormal spread | written by the drain, read by scanner and manager |
| application state and configuration `lib.rs`, `config/` | trades, account, daily profit | constructors | shared by all |
| journal, Python fallback bridge, detectors, qualifier, filter, scale calculator | | | not modelled, see below |

### What is hard about it

* **The loop against the thread pool.** Results arrive at any time and in any order.
  A result carries an id and no word of what it answers: `main.rs:167` decides that
  it confirms a close because its trade is `Exiting` *when the result is read*. This
  is right only if no id outlives the question it was given for, and if the id a trade
  has is that of its own request.
* **Two sets of books.** The engine's trades and the broker's positions are changed
  by different processes, and agree only through results.
* **Two clocks for one request.** The bridge waits five seconds for a reply, its caller
  six for the bridge. After a wait that was given up the socket still owes a reply, and
  nobody compares the `req_id` of the one that comes next.
* **Several deals for one order.** An order above one lot is up to five deals, those of
  two jobs interleave, any of them may fail, and one ticket is reported for all.
* **Stale data in decisions.** The capacity is read once for a scan that spawns
  several trades; `can_enter` counts the positions of an account message up to a
  second old; the kill check uses the balance of the previous turn.
* **Failure.** A lost answer, a broken connection, a refused close, a fill without its
  data, a result that could not be pushed, a tick that PUB dropped, a service that is
  started again.
* **Things that must happen.** Orders resolve, exits complete, losses stop the loop.
* **Boundaries.** Limits at capacity; ratios that mix dollars, lots and pips.

### What makes each component correct

| Component | Properties |
|---|---|
| state machine | a position's size, identity and existence survive any order of events |
| main loop and manager | a result meets the trade and the question it answers; an order is sent once; engine and broker agree; orders resolve, exits complete |
| scanner and risk enforcer | a bound on trades in play; no entry beyond the daily loss; only paid or stopped-out trades are closed |
| kill switch | one recorded kill, final, explained |
| order executor | positions are the net of the fills; no order is booked twice; close-all flattens |
| bridge client | every call returns; a call that finds the bridge idle is answered in its time, and so are all after it; no reply is given twice or out of order, and none to the wrong call unless a wait was given up |
| connector and thread pool | the result of an order accounts for its deals; no more is opened than was asked for; a close closes, and a confirmed one completely |
| tick ingestion | ticks arrive in order; the newest in the buffer is the newest sent unless one was lost; average, spike and latency are what the filters take them for; what was quoted arrives, to the millisecond |

`PROJECT.json` lists the hazards line by line, each with the properties that would
catch it going wrong.

## The modules

| Module | Models | Lines of code it stands for |
|---|---|---|
| `TradingStates` | the states and each event as a function from state to state | `state_machine.rs` |
| `TradingStateMachine` | one machine that may meet any event at any time: the abstract life cycle | `state_machine.rs` |
| `RiskEnforcer` | the decisions and the run kept per position, as operators | `risk_enforcer.rs`, `trade_manager.rs:96-112` |
| `TradeEngine` | the loop, scanner and manager with service and broker; extends the two above | `main.rs`, `scanner.rs`, `trade_manager.rs`, `lib.rs`, and the parts of `bridge_client.rs`, `trading_service.py`, `mt5_connector.py` it talks to |
| `BridgeClient` | the request path: caller, bridge thread, connection, REP socket, with both timeouts | `bridge_client.rs`, `trading_service.py:88-111` |
| `RequestReply` | what the loop may expect of `request`: abstract, implemented by `BridgeClient` | |
| `MT5Connector` | jobs, pool, deals, results, `stop` | `mt5_connector.py`, `trading_service.py` |
| `TickIngestion` | the way of a tick from the broker into the buffer | `tick_ingestion.rs`, `trading_service.py:239-264`, the drain of `main.rs` |
| `KillSwitch` | `trigger` as three separate writes by any threads | `kill_switch.rs` |
| `OrderExecutor` | the order book and its positions | `order_executor.rs` |
| `MC…` | values of the constants for TLC | |
| `…_proofs` | theorems and their proofs | |

`TradeEngine` composes the components. Each trade's state is changed by the same
operators that `TradingStateMachine` is built from, and `TradesFollowLifeCycle`
states that the engine *implements* the life cycle once per trade, with
`INSTANCE TradingStateMachine WITH current <- state[i], ...`.

### How the engine's model corresponds to the code

* `pc` is where the loop is: `kill`, `messages`, `results`, `scan`, `manage`,
  `cleanup`, `sleep`, `halted`. A phase that visits symbols or trades keeps the set
  still to visit (`unscanned`, `unmanaged`) and takes one step each, so that the
  service may act between two of them, as the awaits in the code allow.
* One action per branch of the manager: `Qualify`, `SubmitOrder` or `AwaitFill`,
  `UpdateOpen`, `SubmitClose` or `AwaitClose`, `FinishCooldown`, `SkipIdle`. A request
  and its reply are one step: the loop waits for the reply and the `AppState` lock
  is not contended. What the service does after accepting is separate (`jobs`,
  `results`).
* `RepMessage` is what the socket hands over as the answer, `Relay` what
  `bridge_client.rs:182-194` makes of it. The relay hands over `data` with `status`
  put into it and drops the rest of the message. Nobody compares ids, so that after a
  wait that was given up the message may be another request's: that of a signal request
  (`stale`), or the pending reply to an earlier order or close (`late`), with its id.
  `owed` is what the socket still owes. A trade that takes a `late` reply waits for
  another request's result, and nobody waits for its own: `unseen` is the history of such
  requests, and of results that were lost; no guard reads it.
* `Value` is the profit or loss of `trade_manager.rs:301-303`: the distance in points at
  the tick's value, or ten dollars a pip and lot if the tick carries no point. Both
  belong to the tick, so that the worth of a pip may change while a trade is open.
* `ExecuteOrder` and `ClosePosition` are the pool and the broker: a job is executed
  or refused and its result pushed, or the push fails. `PublishAccount` is the
  account thread; only its last message counts.
* Scan order is arbitrary (the code iterates a map's keys); trades are managed in the
  order of the Vec, which is the order of their ids.

### How the other models correspond to the code

* **`BridgeClient`.** `Request` and `CallTimesOut` are the caller: `request` puts the
  message into `order_rx` and waits with a timeout. The bridge's thread is `ConnectOk`
  or `ConnectFails`, then `TakeRequest` and one of `ReceiveReply`, `ReceiveError`,
  `ReplyTimesOut`: the REQ branch of its `select!`, which does nothing else while it
  waits. `wire` and `back` are the two directions of the connection; `Disconnect`
  empties them. The replies carry what they answer so that properties can speak of it;
  the code does not look. `RequestReply` has calls and answers and nothing in between;
  the engine's one-step request stands on it: `error` and `lost` are its `Fail`,
  `stale` and `late` replies to earlier calls.
* **`MT5Connector`.** A thread of the pool is at one of three places: it looks up a
  ticket, makes a deal, or pushes the result. Each deal is a step, so that those of two
  jobs interleave as `order_send` lets them. `ThisVolume` is the chunk of the iceberg
  loop with both roundings. `SubmitClose` asks as the engine does: once per order
  reported filled, with the volume that was asked for (not what was filled) and the
  ticket that was reported, or none. `Stop` closes the sockets, then the session, while
  the threads go on.
* **`TickIngestion`.** `Poll` is one pass of the streamer at one symbol, `DrainTick` the
  drain of `main.rs` with `process_tick` and `TickBuffer::push`. `Restart` starts the
  service again with an empty `last_tick_time`.

### Abstractions

* **Time** passes in the sleep; a deadline is the time left to it. A turn takes any
  duration of `TimeSteps`.
* **A quote** is one record: price, spread, average spread, latency, points in a pip, tick
  value. The buffer is "has no tick" or its latest quote. The scan's 50-tick minimum is part of whether a
  detector reports a signal, and any signal of `Signals`, or none, may be reported.
* **Numbers** are integers: prices in pips, lots in hundredths, money in cents,
  ratios in percent. `InitialLots` rounds as the code does.
* **The answers** are those `trade_manager.rs` handles. The shipped `trading_service.py`
  accepts with `pending_bare` only (`pending`, with the id beside `data` and not in it).
  With it no id ever reaches a trade: the result of an order is dropped
  (`main.rs:203`), its trade stays `EntryReady` and sends the order again in every turn,
  no trade becomes an open position, and if one did, its close would be sent again in
  every turn too and its exit never complete. Runs *resend* and *unresolved* show the
  first two. The passing runs of the engine use `pending_id`, which is what the manager reads
  (`trade_manager.rs:165`): **what they show of orders and exits is what a repaired pair
  would do, not what the shipped pair does.** The theorems are for all answers,
  `pending_bare` among them.
* **The broker** does not close a position by itself: orders are sent with
  `sl` and `tp` 0.0 (`mt5_connector.py:219-220`).
* **The broker of `MT5Connector`** does a deal in full, in part, or not at all; in part is
  not `TRADE_RETCODE_DONE` and counts as a failure, though a position is there. It takes
  a closing deal of no more than the position has, in whole steps and not below the
  minimum. A deal on the position's own side it refuses or opens another position with.
* **The type of a close.** `close_position` is written for the type of the position
  (`mt5_connector.py:138`), `trade_manager.rs:228` always asks with the other. Run
  `connector` asks with either, run `close_side` with the other. `TradeEngine` has a
  close do what it is for: `ClosePosition` closes its ticket, fails, or finds it gone.
  With the shipped pair each close would fail or open a second position.
* **An exception** in the middle of an order (`trading_service.py:193`) is answered as an
  error whatever was done before; in `MT5Connector` it has a status of its own,
  `raised`, which on the wire is `error` too, so that `AnswerCoversDeals` can except it.
  The call that raises opens nothing; the chunks before it stay open.
* **Loss.** A push or a tick is delivered or not, at every send. Whether a REQ socket
  takes another request after a wait that was given up is the library's affair:
  `refuses` is chosen at the start, and both answers are checked.
* **Units.** `BridgeClient` counts seconds, which pass only when neither thread has
  anything left to do; `TickIngestion` counts milliseconds, and spreads in hundredths of
  a pip.
* **The cleanup** books and drops one trade per step; nothing reads in between.
* `CanEnter` is the conjunction of the checks; their order picks only the veto that is
  logged.

### Bounds

Each bound is a constant or is marked "bound" where it stands in a guard.

| Bound | Where | Why it is enough |
|---|---|---|
| `MaxTrades` (1 to 3) | `Spawn` | two trades meet each other in every way the code compares them: shared symbol, shared limit, mixed-up answers. Three exceed the parallel bound by one if it is wrong |
| `ReqIds` (4, 6), `Tickets` (3) | id pools | an id returns to the pool only when nothing holds it. The least free one is used, which is no loss: ids are only compared |
| `Cardinality(FreshReqs) + Cardinality(Waiting) >= MaxTrades` | `StartScan` | limits the backlog of the service to what the pool of ids allows: a turn begins with an id for every trade that may ask. Results that were pushed and are not yet forwarded stay out of the drain as they like |
| `idle_ms` stops at timeout + 1 | `Sleep` | `CheckStall` tells nothing more apart |
| timers of 1 and 3 units | `CooldownMs`, `EntryTimeoutMs`, `ExecCooldownMs` | each timer is seen running, at its end and over. `ExecCooldownMs` is 0 in `faults` and `live`, where it would only keep the scan from a symbol |
| `MaxLots` (6) | `ScaleIn` | five scale-ins after the first fill of one |
| `MaxOrders` (4) | order book | open, reduce or reverse, and close-all for both symbols |
| two or four quotes | `Quotes` | in `faults` three prices, one at two tick values and one without a point: take profit, stop, reversal, stall and hold are all reached, as a property that denies each has shown |
| `MaxReqs` (5) | `Request` of `BridgeClient` | two waits given up in a row, and calls before, between and after them; the timeouts are those of the code |
| `MaxJobs` (3), two workers | `Submit` | two orders and a close, or an order and two closes (one by ticket, one by symbol), any two of them at once |
| `MaxLarge` (1) | `SubmitOrder` | an iceberg beside small jobs; two have no state in common but positions, which small ones show |
| `Volumes` (25, 104, 107) | | below a minimum; chunks rounded up (104) and down (107); the total rounded up to a step of 10 (107) and to the even one of two (25) |
| `MaxQuotes` (3), `MaxTime` (2), `MaxRestarts` (1) | `TickIngestion` | one symbol overflows a buffer of `MaxSize` (2); two quotes in one millisecond; a restart between any two steps |

`SYMMETRY` over the symbols is used where every symbol has the same limits and the
run has no liveness property, and over the threads of the pool. Deadlock is checked in
every run of the engine, the machine and the order book. It is not in `kill_switch`,
where all threads may have returned, nor in `bridge`, `connector`, `close_side` and
`ticks`, where requests, jobs or quotes are bounded and may be used up, nor in `live`, where
no account is published and a halted loop has nothing left to do. In `engine` the
account thread goes on, and in `faults` the limit is too wide for a halt.

### Fairness

`FairSpec` assumes weak fairness of the loop and of the pool: the loop's thread never
blocks for good (requests have timeouts) and the pool executes what was submitted. A
result that was pushed is handled under strong fairness: the loop passes its drain in every turn
and takes all there is, and the bridge forwards what was pushed, since its event loop
comes back from every wait (`ForwardingResumes` of `BridgeClient`). The account thread
and the market owe nothing. Results may be lost in `live`: `EntriesResolve` and
`ExitsComplete` excuse a trade that comes to wait for a lost result or for another
request's (`Excused`), because nothing in the engine reads a deadline and such a trade
waits for ever. Without the excuse they would be false; with it they say that nothing
else holds a trade up, the losses of other trades included. In `KillSwitch` each
thread inside `trigger` goes on: it holds a mutex for one write only.

`BridgeClient` assumes that time passes and that caller and bridge take the steps they
are due; service and network owe nothing, not even an answer. `TickIngestion` assumes
that the streamer polls every symbol again and again and that the loop drains; publishing
may lose every message, which is why `QuotedTimesArrive` has loss as an outcome.

## The runs

Passing:

| Run | Question | Shows |
|---|---|---|
| `life_cycle` | one machine, any event at any time | `SizeIsWhatWasFilled`, `ExposureEndsByClose`, `PositionIdentity` |
| `kill_switch` | three threads trigger at once | `OneRecordedKill`, `TriggerIsFinal`, `TriggerIsExplained` |
| `order_book` | four orders, two symbols, any order of fills, reports and cancels | `PositionIsNet`, `FilledOnce`, `CloseAllFlattens` |
| `engine` | three trades, two symbols, a limit of one, two balances; pending answers with their id, orders that may be refused, closes that succeed; short trades | `TypeOK`, `BooksMatchBroker`, `NoResend`, `ParallelBound`, `TradesFollowLifeCycle`, `NoEntryPastLimit` |
| `faults` | two long trades, three prices and changing tick values; answers lost, answers of earlier requests (`stale`, `late`), synchronous fills, fills without data, results lost, refused orders and closes | `AnswersMatch`, `OpenTradesArePositions`, `ClosedTradesArePaid`, `NoResendOnceTold` |
| `live` | two trades, the answers of `faults` and refusals, results that get lost, fairness | `AwaitedIsInFlight`, `EntriesResolve`, `ExitsComplete`, `LossStopsTrading` |
| `bridge` | five requests, a connection that is late, breaks and comes back | `PromptCallsStayPrompt`, `StaleOnlyAfterTimeout`, `ImplementsCalls`, `RequestsReturn`, `ForwardingResumes` |
| `connector` | three jobs on two threads, an iceberg among them, closes asked for with either type, deals done, in part, refused or ended by an exception, a service that may stop | `AnswerCoversDeals`, `NeverMoreThanAsked`, `NotMuchLessThanAsked`, `CloseTypeDecides`, `ConfirmedCloseIsComplete` |
| `ticks` | three quotes, two symbols, a feed that loses and a service that restarts | `TimesAscend`, `AverageWithinSeen`, `SpikeIsAbnormal`, `StaleOnlyByLoss`, `LatencyShowsDelay`, `QuotedTimesArrive` |

`TypeOK` of `KillSwitch`, `OrderExecutor`, `BridgeClient`, `MT5Connector` and
`TickIngestion` is proved and part of no run.

The engine's three runs divide the answers between them. `BooksMatchBroker` and `NoResend`
hold only where every answer comes in time with its id and every close succeeds, and
the code is meant to be used so: in `engine`. What is left of them when answers are
late or lost is checked in `faults`: of `BooksMatchBroker` the half that an open trade has
its own position. The other half, that every position has its trade, must fail there: a
fill without data is taken for a timeout (`main.rs:186`), **a failed close counts as a
completed exit** (`main.rs:193`, `trade_manager.rs:250-260`; its position stays at the
broker and nobody looks after it), and an order whose reply was lost may be executed. Of
`NoResend` it is the part about orders whose id got to their trade (`NoResendOnceTold`).
`OpenTradesArePositions` excepts a trade that, after a late reply, took the confirmation of a
close for its fill (`main.rs:174`): its ticket is the closing order's, and no position.
Results without any data object (`none`) and the answer `ok_bare` are in no run and in
every theorem.

In `connector`, `CloseTypeDecides` says what a close by ticket comes to with each type it
may be asked with; with the type the engine asks with it closes nothing. A close that
looks its position up by the symbol may close another trade's, and says so to nobody:
nothing is claimed of it but that it does not upset those by ticket.

`QuotedTimesArrive` speaks of times and not of quotes: of two quotes in one millisecond the
second is never published (`trading_service.py:258`).

Violations, each a comment against what the code does:

| Run | Property | What TLC finds |
|---|---|---|
| `resend` | `NoResend` | the guard of `trade_manager.rs:128` against sending an order again needs the request id, which never reaches the trade: its order is sent in one turn and again in the next, while the first waits in the pool |
| `unresolved` | `EntriesResolve` | "the async result processor in main.rs will fire OrderFilled" (`trade_manager.rs:172`), but it finds no trade for any result; the trade stays `EntryReady` and sends for ever |
| `close_side` | `CloseDealOpposes` | the side of a close is inverted by the manager and again by the connector: the deal that is to close a position is on its own side |

Further disagreements met while reading, which no run checks: the entry's "5s timeout"
(`state_machine.rs:229`) is read by nothing; "max 3 times" of scaling
(`state_machine.rs:48`) is counted by nothing; the "mandatory cooldown"
(`state_machine.rs:70`) binds only the machine that closed, and another trade may
enter on its symbol; a loss is booked only when its trade's cooldown ends
(`trade_manager.rs:367`), and entries pass until then; the kill switch's exit names
ticket 0 and lots 0 (`state_machine.rs:402`), though no caller sends the event;
`pull_pending_submissions` returns cancelled orders too (`order_executor.rs:193`);
`cooldown_seconds = 15` of the configuration is ignored for a constant 30 s; `daily_pnl`
is never reset; "HARD LIMITS enforced by Rust. No exceptions."
(`config/risk_limits.toml:2`), but two symbols that signal in the same turn exceed the
parallel limit (`ParallelBound` says by how much); the kill switch "Cancels all pending
orders" and "Closes all positions at market" (`kill_switch.rs:3-5`), but the loop just
returns; the reversal exit "Only triggers if peak profit was significant"
(`risk_enforcer.rs:332-336`), but the peak is a ratio to a quantity of another unit, and
any profit passes; of an iceberg the engine learns one ticket (`mt5_connector.py:283`), so
that its close leaves the other chunks open; the second of two quotes within a
millisecond is never published (`trading_service.py:258`); the latency filter reads the
latency of the last tick, so that a dead feed looks as fast as it was; the repository's README gives other limits than
`config/risk_limits.toml`.

### Mutants

A definition commented "Mutant" is a plausible wrong version of the one that follows
it: a dropped guard, a marker not cleared, a swapped side. `PROJECT.json` pairs each
property of a passing run with one that TLC must refute when it stands in for the
original. They are not part of the model.

## The proofs

TLAPS proves, for every value of the constants that satisfies the named assumptions
(`EngineAssumption`, `RiskAssumption`, `TimersAssumption`, ...):

| Theorem | Says | By |
|---|---|---|
| `TradingStateMachine_proofs!TypeCorrect` | every event yields a state | `TradingStates_proofs`: each event is typed |
| `SizesCorrect` | sizes are what was filled, over any number of scale-ins | induction with the type |
| `ExposureCorrect`, `IdentityCorrect` | exposure ends by a close; a position keeps its identity | case analysis of the events |
| `KillSwitch_proofs!TypeCorrect`, `KillRecordedOnce`, `KillIsFinal` | types; one kill, for any set of threads, and for good | at most one thread is past the exchange |
| `OrderExecutor_proofs!TypeCorrect`, `NetCorrect`, `FilledOnceCorrect` | types; the order book is the net of the fills | ids are fresh (`IdsInv`) |
| `CloseAllCorrect` | close-all flattens | `CloseInv`: one closing order per open symbol, of its size and the other side |
| `TradeEngine_proofs!TypeCorrect` | types of the whole engine | `IInv` below |
| `AnswersMatchCorrect` | a result meets its trade and question, whatever the service answers, late answers of earlier orders and closes included | `Awaiting` |
| `InFlightCorrect` | what a trade waits for is one job or one result, never both or neither, or the result was lost | `UniqueIds`, `InFlight` |
| `NoResendCorrect` | an order whose id got to its trade is not sent again (`NoResendOnceTold`) | `TellsOfOrders` |
| `OpenTradesCorrect` | an open trade has its own position | `Custody` |
| `ParallelCorrect` | how far the parallel limit may be exceeded | `JudgedInTime`, `LiveBound` |
| `PaidCorrect` | only paid or stopped-out trades are closed | `Dormant`, `SizedWell` |
| `LossStopsEntries` | no entry past the daily loss | `LimitInv` |
| `LifeCycleCorrect` | the engine implements `TradingStateMachine` once per trade | `FromOutside` |
| `BridgeClient_proofs!TypeCorrect` | types; neither wait outlasts its timeout | time passes only when nothing is due |
| `PromptCorrect` | prompt calls stay prompt, for any two timeouts of which the bridge's is the shorter | `PromptInv` |
| `StaleCorrect` | a stale reply needs a wait that was given up | `LinkInv`, `StaleInv` |
| `CallsCorrect` | `BridgeClient` implements `RequestReply` | `TransitInv` |
| `TickIngestion_proofs!TypeCorrect` | types of the tick's way | each action |
| `TimesCorrect` | ticks arrive in the order of their times | `OrderInv` |
| `AverageCorrect`, `SpikeCorrect` | the average lies within what was seen; a spike stands out of an average it is part of | `BufferInv` |
| `TickIngestion_proofs!StaleCorrect` | the buffer's newest is the newest sent, or a message was lost | `LatestSent` |
| `LatencyCorrect` | the latency of an arriving tick shows its delay | `PolledBehind` |
| `MT5Connector_proofs!TypeCorrect` | types of pool, connector and broker | `TaskInv` |
| `CoversCorrect` | the result of an order accounts for its deals | `Orders` |
| `FitsCorrect`, `ServedCorrect` | an iceberg opens less than a minimal deal too much, and no more than two steps too little | `Orders` and the lemmas on rounding |
| `ClosesCorrect`, `CompleteCorrect` | a close by ticket closes or opens, as its type says (`CloseTypeDecides`); a confirmed one with the right type leaves nothing | `Closes` |

Every safety property and every action property of a passing run is among them, and both
refinements, except `BooksMatchBroker` and `NoResend`: they hold only for a choice of
answers that the shipped service does not give, and are left to TLC. Each strengthening was checked by TLC before it was proved.

### Hypotheses

The theorems assume nothing but the named assumptions of their modules, which say what
kind of value each constant has: no theorem leaves out an answer, a loss, a refusal or
a type of close. `ParallelCorrect` assumes finitely many symbols and at least one, as the
bound counts them. What a property excepts stands in the property: `unseen` in
`AwaitedIsInFlight` and `NoResendOnceTold`, the ticket of no position in
`OpenTradesArePositions`, the status `raised` in `AnswerCoversDeals`, the type asked for
(`AskedRight`) in `CloseTypeDecides` and `ConfirmedCloseIsComplete`.

### The inductive invariants

**Engine, `IInv`.** `TypeOK` is not inductive: the clock of a run is read off the limit
of its trade's symbol. `Bookkeeping` adds that trades in the Vec have a symbol, that
only they have a run, and that the pass visits only them. Two step lemmas carry the rest:
`TradeSteps` lists what a step may do to the state of one trade, `QueueSteps` what it may do to requests,
jobs and results, so that the invariants below treat a handful of cases instead of
every action.

**`Awaiting`.** `AnswersMatch` speaks of ids a trade waits for. Its induction needs that
ids in use, those still owed included, are not handed out again (`FreshIsNew`), that no
trade waits for an id whose reply is still owed, so that a late reply gives an id to
one trade only (`AwaitsRight`), and that no step of the loop moves a waiting trade: only the
result does, and clears the marker (`AwaitingQuiet`, `AwaitingResult`).

**`UniqueIds`, `InFlight`, `TellsOfOrders`.** An id is that of one job or one result:
an execution replaces the one by the other. That what is awaited is somewhere is then a
matter of following the job. For `NoResendOnceTold` the direction is reversed: every order
at the service whose id got to its trade is awaited by a trade ready to enter, and by one
only, so that these orders map one to one into those trades and their numbers compare.

**`Custody`.** A ticket is in one pair of hands: of the result that reports the fill, then
of the trade that took it. No job names it before its trade begins to exit, and a job
only ever names the ticket of an exiting trade or of one that is gone, so that whatever
becomes of a close, it takes no open trade's position.

**`JudgedInTime`, `LiveBound`.** The limit is read once per scan, so the bound must hold in
the middle of one: trades in play, plus new ones not yet judged, plus symbols still to
visit. It starts below the limit plus the number of symbols, and each spawn takes a symbol from what
is left. No trade of the last scan is still unjudged at the next.

**`SizedWell`.** What decides an exit is fixed on entry: at least a hundredth of a lot, a stop
of at least 30 pips and twice that as take profit (`SizingFloors`), and the run measures
from the entry and by the stop of its position. Then a gain in pips is no loss in money,
whatever a pip is worth (`ValueOfGain`). `Dormant` says
that a trade id outside the Vec is unused.

**`LimitInv`.** The kill check and `can_enter` use different balances. The invariant
relates the enforcer's limit, set with each account message, to the balance: before
the first message the limit is 0, the strictest. `EntersByFilters` shows that
entering means having passed `can_enter`.

**`FromOutside`.** A step of the engine is a step of each trade's machine only if what it
feeds to the machine is what the machine expects: prices, tickets and sizes of its own
constants. The invariant keeps the equity that sizes an order and the fills on their way
within what the broker may publish; `LivesStep` then maps each kind of `TradeSteps` to an
event of the machine or a stutter.

**Bridge.** Every step leaves calls alone, asks, refuses, fails or replies (`CallSteps`),
and `CallInv` says what each leaves behind. `PromptInv` holds what makes a prompt call
prompt: the bridge has that request to attend to and no other, and the two waits are
equally long (`Attended`). For stale replies, `QueueInv` says that what the bridge
still has is the call that is blocked or one that was given up, and `LinkInv` that, as
long as no wait was given up, the connection holds at most the request in flight. For
the refinement, `TransitInv` orders everything in transit: replies before requests
before the queue, each ascending, and all of it younger than the replies given. So the
next reply is new and in order; that it is not too far behind is a count: the replies
given answer distinct calls before this one, so that of the other calls so far as many
have ended in an error as the reply is behind (`BehindByErrors`).

**Ticks.** `OrderInv`: nothing in the feed or received is newer than the market's last
quote, nor, without a restart, than `last_tick_time`, which a restart sets back. Received
ticks come before those in the feed, and both are in order. `BufferInv`: the newest tick of the
buffer is the newest received, though the buffer drops others, and a new spread weighs no
more than a hundredth beside one that came before, rounding included; a spike of twice all
others is then above 1.5 times the average. `LatestSent` follows the last message of a
symbol from the feed into the buffer: it is the last of its symbol in the feed, or the
newest received while none is in the feed. `PolledBehind`: what is polled was quoted before.

**Connector.** `TaskInv`: a thread works on a job that was taken; one with deals to make
has not made its last chunk, and one that pushes has an answer, as has every request whose
result went out. Without it no bound on chunks and tickets is inductive. `Owned` makes a request
one thread's: no two are at it, it has no answer while one runs it, and nothing is done for
it before. `Orders` adds what its thread has counted (`Filling`: whole chunks so far, what
is left, what was missed) and what follows for its answer (`Accounted`). That five chunks
suffice is arithmetic for any step and minimum, the minimum no multiple of the step
included: rounding is monotone, a first chunk is the largest, and each chunk is within half a
step of a fifth (`RoundedNear`, `FirstIsLargest`, `ChunksSuffice`, `DealAccounts`).
`Closes` says for a close by ticket what its thread has closed or, asked with the other type,
opened (`Decided`), that nobody opens a ticket a second time, and that no position grows
(`PositionsStep`): so a volume confirmed closed is gone for good.

### Left to TLC

* Liveness and everything under fairness, as the prover does not reason about `ENABLED`:
  `EntriesResolve`, `ExitsComplete`, `LossStopsTrading`, `TriggerIsExplained`,
  `RequestsReturn`, `ForwardingResumes`, `QuotedTimesArrive`.
* `BooksMatchBroker` and `NoResend`, which hold for the answers of run `engine` only.
* That the three violations are reached (`resend`, `unresolved`, `close_side`).
* Nothing here declares a `RECURSIVE` operator; what folds over sets compute for every
  input is out of the prover's reach, and no theorem depends on it.

## Not modelled

* Floating point: sizes and money are exact here. Rounding residues of lots
  (`order_executor.rs:287`) are a listed hazard.
* The detectors: statistics over ticks; the engine sees a signal or none. The
  reversion detector needs 300 ticks and is sent 50.
* The trade journal (output only), the Python fallback bridge, trade qualifier,
  volatility filter and scale calculator (called by nothing in the running program),
  socket set-up and shutdown, `load_config` beyond the values it yields.
* `can_scale`, risk-based lots and `validate_lot_size` of the enforcer,
  `price_velocity` and `price_acceleration` of the buffer: called by nothing.
* The service's methods that answer with data (`get_tick`, `get_symbol_info`, the
  signals): they change no state. The connector's session set-up and its metadata cache.
* Some listed hazards have no property, each with a note that says why. In a few the
  model leaves the cause out: a wall clock that steps back wraps the stall
  clock (`risk_enforcer.rs:369`), but time only goes forward here; two threads race inside one
  PUB socket (`trading_service.py:262`), which here loses messages. In most the code allows
  the harm and no property that holds could say otherwise: what is left open by a halt
  (`main.rs:126`), a failed close that counts as one (`main.rs:193`), a fill without data
  (`main.rs:186`), a close that finds another trade's position (`mt5_connector.py:148`), a
  loss that is not booked before the cooldown ends (`trade_manager.rs:367`), the latency of a
  dead feed (`tick_ingestion.rs:142`).
* Forced transitions (`transition_to`), for tests.

## Plan

Done: the engine, its components, and the service's side of every exchange between the
two processes. What is left, in this order:

1. **Composition**: `MT5Connector` as a refinement of the engine's `ExecuteOrder` and
   `ClosePosition`. It needs the side of a close to be settled first (run `close_side`),
   and an order of several tickets.
2. **Engine and bridge**: `RequestReply`'s calls, which `BridgeClient` is proved to implement,
   against the answers the engine is modelled with: `owed` and the kinds `stale` and `late` are
   its late replies.
3. **The per-symbol rule** of `scanner.rs` by itself; at present it is bounded through the
   parallel limit.
4. **Scale sizing**: `can_scale` and `calculate_scale_lots` against `scale_calculator.py`
   over bounded inputs. Neither is called by the running program.
