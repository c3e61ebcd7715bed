# A TLA+ model of roboinvest

roboinvest trades Japanese equities with a chain of services: a feeder turns
the broker's stream into market data, the feature engine turns market data into
features, strategies turn features into signals, the aggregator pairs signals,
the gateway turns signals into sized orders, and two order management services
(`oms-paper`, `oms-live`) execute them. The services run as separate processes,
talk through Google Pub/Sub (at least once, unordered) and share Postgres
tables behind Supabase. This directory holds TLA+ modules for the parts of the
system where interleaving, retries and crashes decide correctness, the TLC
configurations that check them, and proofs checked by TLAPS.

`PROJECT.json` lists the components, the runs, the hazards, the theorems, the
source lines behind every definition and the mutants that show that each
property can fail.

## Inventory

| Component | State it keeps | Operations | Hard behaviour | What makes it correct |
|---|---|---|---|---|
| paper ledger, `contracts/sql/018`, `021` | `positions`, `trades_paper` | `oms_paper_apply_fill`, `oms_paper_update_stop_loss` | called by two processes, called twice, called late | one trade per order, signal and attempt; shares conserved per holding period; stops never fall |
| `oms-paper` | book cache, position caches, tried books, retry counters | stream loop (books, swing pass, day pass, orders), closeout scheduler, opening exits | two asyncio tasks and a second process on one ledger; lost replies; crash before acknowledgement | an exit hits the position it was decided on; a complete closeout is flat; every order settles |
| `feature-engine` | pending exits, trailing peaks, last tick per symbol, position prices | tick batch, exit orders, PnL reset at nine | publish fails after marking; redelivered ticks; second writer of positions | one pending exit per symbol and reason; no exit lost |
| aggregator | pairing buffer | pull two topics, drain, merge, filter sales, publish, log, acknowledge | a batch breaks off between any two of these; redelivery after publication; windows that pass | what is acknowledged was decided, published and logged; nothing is left over for ever |
| gateway | caches of status and positions, cooldowns; in Postgres the risk reservations (`contracts/sql/016`), the kill switch (`015`) and the dispatch journal | validate, reserve, build, publish, resume a dispatch | redelivery at every step, two readers of the same budget, calls executed late | open orders cannot lose more than the limits leave (not so after a failed publication, see Findings); after a stop each worker delivers one more order at most; one command per signal |
| event-paper dispatch journal, `contracts/sql/020`, `023` | `event_paper_stage_dispatches` | prepare, read, begin, confirm, ambiguous | lost replies, calls executed after their caller died, redelivery with changed inputs | one command and one attempt per signal and stage; a receipt only for what was published |
| event-paper publisher | claims in `strategy_logs` (compare and swap, `contracts/sql/019`) | read, claim, attempt, publish, checkpoint | overlapping runs, crash around the publication, writes executed late | one message per candidate; receipts tell the truth |
| `oms-live` | orders at the broker, live positions and trades, pending symbols, profit of the day, cached positions | order, poll, cancel, record, stop monitor, closeout | late and partial fills, three writes per fill, two asyncio tasks on one row, crash after `sendorder` | trades were filled; rows follow trades; after the closeout flat or halted |
| feeder | token and its shared file, registrations, watchlist generator, records on their way | token, unregister, register, websocket task, watchlist task, reconnect | one task ends while the other waits or is in a call; stale tokens; sessions that end | the broker has the watchlist; a clean close loses nothing |
| strategy-rule | per rule and symbol: last difference, band touched, opening range and cooldown of the day | evaluate, publish signals, publish a trigger, log | the memory moves on before anything is published; redelivery meets it again | what is acknowledged was said |
| strategy-ai | time of the last call per symbol | limit, ask, publish, log, acknowledge | a trigger delivered again, an answer that is none | it speaks only after a confident rule |
| universe scanner | - | one numeric batch a day | - | - |
| opportunity router | an append-only file of decisions | evaluate a cohort, resolve its capacity, append | a write that breaks off; candidates in any order, twice, again | the best enter; what was returned stays |
| dashboard, scripts, infrastructure | - | views, reports, deployment | - | - |

How they interact: feeder -> (raw-market-data) -> feature engine and oms-paper;
feature engine -> (features) -> strategies -> (strategy-signals-a, -b) -> aggregator ->
(trade-signals) -> gateway -> (paper-orders, live-orders) -> OMS. The feature
engine also publishes SELL orders of its own on the order topics. The OMSs write
`positions`; the feature engine, the gateway and the OMSs read it.

## Modules

| Module | Models | How it corresponds to the code |
|---|---|---|
| `PaperAccount` | what the ledger promises | an abstract long-only account: an order is bought or sold once, nothing is sold that is not held |
| `PaperLedger` | the two Postgres functions (the overload of `contracts/sql/022` delegates to the first and stores one more field of the plan in the same transaction) | `FillOutcome` is the functions' sequence of early returns, `ApplyFill` and `UpdateStopLoss` their effects. A call is one atomic step: the function holds a transaction-scoped advisory lock on its symbol, and the unique indexes cover the ids it reads across symbols |
| `LedgerClients` | any client of the ledger | any request of a set in any order, any number of times. What is shown of it holds for every service that writes through the functions; that `OmsPaper` is one is a theorem |
| `OmsPaper` | the service `oms-paper` | one action per stretch of code between two awaits; the tasks `stream`, `closeout`, `opening` interleave at awaits. It EXTENDS `PaperLedger` and executes the writes of its tasks with `ApplyFill` and `UpdateStopLoss` |
| `ExitMonitor` | the feature engine's tick loop, its session, its exit orders and price updates | one action per stretch between two awaits of `StreamRunner._process_batch`; the order management services are actions that write the rows the loop reads |
| `DispatchPromise` | what the event-paper path promises | per stage and signal one command is chosen, one attempt is made, and only that attempt delivers |
| `DispatchJournal` | the Postgres function `event_paper_stage_dispatch` | for each of its actions the row it leaves and the outcome it reports; a call is atomic, since it locks the row |
| `EventPaperDispatch` | the aggregator and the gateway on the event-paper path, with the topics between them | one action per stretch between two awaits of `_publish_event_paper_unified`, `_resume_event_paper_dispatch`, `_start_event_paper_dispatch` and `_publish_prepared_event_paper_order`. It EXTENDS `DispatchJournal` |
| `SignalPairing` | the aggregator's ordinary path | one action per stretch between two awaits of `run_once` and `_emit` |
| `StrategyStream` | `strategy-rule` and `strategy-ai` with the two topics they write | rules as operators, one action per stretch between two awaits of the two `StreamRunner`s |
| `GatewayRisk` | the functions of SQL 015 and 016 and the gateway's way from a signal to a published order | a call of a function is one step (it locks the row of `system_status`); a signal stands for its order, whose id is computed from it |
| `EventPaperClaim` | the one-shot publisher, the source of `EventPaperDispatch` | a run's reads, compare-and-swaps and single publication, with the calls it gave up |
| `LiveTrading` | `oms-live`, its tables and the broker | one action per stretch between two awaits; the broker from how the service uses it |
| `FeederSession` | the feeder, its websocket and watchlist tasks, token file and broker | the same |
| `OpportunityRouter` | routing of a cohort and the decision file | routing as operators, `append_all` as one action, a write that breaks off as another |
| `MC...` | - | the constants of the runs, and in `MCSharedStores`, `MCSettles`, `MCAggregator` their composition |
| `..._proofs` | - | the proofs about these modules, one component or group of components each |
| `SumTheorems` | - | induction over a finite set as a theorem, and the sums over finite sets it gives |

`MCSharedStores`, `MCSettles` and `MCAggregator` each hold several modules
that share no variable. A variable `part` says which of them moves, and a
behaviour is a behaviour of that one; the union is a way to check them in one
run and claims nothing of their interaction. Where components do interact, they
are in one module (`OmsPaper` with `PaperLedger`; aggregator and gateway with
`DispatchJournal`; the strategies with each other).

### OmsPaper, state and actions

| Variables | Code |
|---|---|
| `position`, `trades` | the tables `positions` (paper rows) and `trades_paper` |
| `bookCache`, `posCache`, `cacheAt`, `attempted` | `book_cache`, the swing and the day position cache (a row is in the one its `holding_type` names), `swing_cache_loaded_at`, `_closeout_attempted_book_at` |
| `task` | local variables and program point of each task between awaits |
| `closeout` | progress of `run_closeout_scheduler` over one day |
| `wire` | writes that were sent and not yet executed by the database |
| `acked` | order messages acknowledged to Pub/Sub |
| `now`, `faults` | the clock, and the faults left to the behaviour |

`Execute` and `ExecuteRead` are the database. `ConsumeBook` ... `Acknowledge`
are `StreamRunner.run_once`, split at its awaits; `CloseoutFires` ...
`CloseoutRunEnds` are the closeout scheduler and `run_closeout`; `Opening...`
are the one-shot process. `Retry` is the client's timeout and repeated attempt
(the abandoned attempt stays in `wire` and may execute much later), `GiveUp` an
attempt that ends in `SupabaseError`. `Crash` stands for every way the stream
process ends, including a transport error that no handler catches; the
supervisor starts it again. Symbols and orders that a loop only skips before its
next await are visited together with the next one that is served.

Abstractions: a book is one level per side instead of a ladder; prices are whole
yen; the system status always says `trading_style = day`; one trading day; the
plan of a position (`holding`, `target`, `due`, `trail`) is a record of what the
monitors compare. Fresh `uuid4` values are numbers that no trade and no call
carries.

### ExitMonitor, state and actions

| Variables | Code |
|---|---|
| `rows` | the open rows of `positions`, one per symbol and trade type |
| `lastAt` | `TickSession._last_ts` |
| `pending`, `peaks` | `ExitOrderMonitor._pending` and `_trailing_peaks` |
| `loop` | local variables and program point of the tick loop: the batch, the messages to acknowledge, the tick, the exits to publish and the rows to update |
| `acked` | messages acknowledged to Pub/Sub |
| `handled`, `standing`, `seen` | history: ticks processed to the end; exits published since their condition last failed; prices since a position was first watched |

`Drop` and `Accept` are `TickSession.observe`; `Collect` is `fetch_positions`
followed, without an await, by `collect_triggers`; `PublishExit`, `UpdatePrice`
are the awaits of the loop; `ProcessError` is the exception any of them raises,
after which the message is left out of the acknowledgement. A failed
publication may have been delivered and a failed update applied. `WriteRow` is
an OMS that opens, replaces or closes a position at any moment.

Abstractions: the session's window and the features computed from the tick are
left out (no exit depends on them), as are order books and archives; an update
that executes after its failure was reported is left out. Prices are
whole numbers and the trailing distance is in per cent.

### EventPaperDispatch, state and actions

| Variables | Code |
|---|---|
| `journal` | the table `event_paper_stage_dispatches`, a row per stage and signal |
| `published`, `acked` | the messages on the strategies' topics, `trade-signals` and `paper-orders`, and those acknowledged by the stage that reads them |
| `job` | local variables and program point of each worker: the message taken, the arguments of the next call, the messages decided in this batch |
| `late` | calls whose caller does not wait any more and that may still be executed |
| `uuid` | the last `attempt_id` drawn with `uuid4` |
| `faults` | faults left to the behaviour |
| `refused`, `failed` | history: messages a gate refused, messages that met the hard failure for a changed payload |

`Take` and `Redeliver` hand a message to a worker. The aggregator computes its
payload at once (`_emit`), the gateway passes its gates, reads the journal
(`Resume`) and only builds an order (`BuildOrder`) if no row is there. `Prepare`,
`Begin`, `Publish`, `Confirm` and `Mark` are the calls with what the worker does
on the answer; `Log` is the aggregator's insertion of log rows before its
attempt. `Retry` repeats a call whose reply was lost (three attempts in the
clients of Postgres and Pub/Sub alike), `GiveUp` is the exception after the last
one, `Crash` the end of the process. In each case the abandoned call goes to
`late`. An error that no handler catches ends the process: the messages it had
decided and not acknowledged come again.

There is one worker per stage in the deployment, and in the runs; the theorems
are for any number of workers, and so cover a second process that overlaps the
first while it is replaced. Abstractions: a payload stands for the JSON value
and its hash; the merge of a redelivered bucket may yield another payload (the
header of the migration names that case); the gates are reduced to the fact that
they may refuse, before and after the journal is read; pairing and the risk
reservation are left out. An abandoned call has an effect at most once, so `late`
is a set.

### SignalPairing, state and actions

`sent` and `settled` are what was published for and acknowledged on the two
subscriptions, `buffer` is `PairingBuffer._entries`, `emit` the batch in hand
and how far `_emit` got with it, `unified` and `logs` the topic `trade-signals`
and the table `aggregator_logs`; `decisions` is history. `PullHalves`, `Drain`,
`Filter`, `PublishUnified`, `InsertLogs`, `AckHalves` follow `run_once`;
`Breakdown` is an error or a crash anywhere, with or without the effect of the
call in hand. `Merge` is `aggregate` with its dominant opinion per source. A
bucket stands for symbol, time and candidate, and its window may pass at any
moment. Left out: weights that differ, messages that do not parse.

### StrategyStream, state and actions

| Variables | Code |
|---|---|
| `offered`, `read` | features published, and acknowledged by strategy-rule |
| `desk` | the batch of strategy-rule, the message in hand, its signals and how many are out |
| `memory` | `StrategyEngine._state`, for all rules of a symbol |
| `signalsA`, `triggers`, `signalsB` | `strategy-signals-a`, `strategy-ai-triggers`, `strategy-signals-b` |
| `heeded`, `bench`, `asked` | triggers acknowledged by strategy-ai, where it stands, `last_call_at` |
| `strategyLogs` | the table of that name |

`Sma`, `Rsi`, `Bollinger`, `Breakout`, `Momentum` are the `evaluate` functions
of the five rules, `Remembered` what they leave in their state. `EvaluateRules`
is a message up to its first await; `PublishSignal`, `PublishTrigger`,
`InsertStrategyLogs` are the awaits that follow, `HandlingFails` any of them
failing; `AskModel` is `AiStrategy.evaluate` with its limit on calls.

Abstractions: indicators are compared with their thresholds before (a feature
says on which side it is and which entry filters it passes); copies of a signal
that differ only in their `signal_id` are one; the opening volume, the alert on
silence, the prompt and exceptions inside a rule are left out.

What the rules' memory means for redelivery is worth knowing. `last_call_at`
(`strategy_ai/strategy.py:68`) and the rules' `traded_today` and `prev_diff` are
noted before anything is published. When the publication then fails, the message
comes again, meets the new memory, produces nothing and is acknowledged, although
`strategy_ai/streaming/runner.py:61` leaves it to redelivery. `AckedWasSaid`
therefore claims only rules without a memory (RSI, and Bollinger without the
reclaim). Besides: a feature older than the last call passes the limit (the
elapsed time is negative); a late message of another day resets the opening
range of today; and since a `signal_id` is drawn per evaluation, a redelivery
writes second log rows, contrary to the docstring of `insert_strategy_logs`.

### GatewayRisk, state and actions

`pnl` and `trading` are the profits and `is_trading_allowed` of `system_status`,
`reservation` the table of reservations, `order` where the order of each signal is
(away, open at `oms-live`, filled), what was reported of its publications and what
it lost, `worker` where each gateway process stands, `adrift` reserve calls whose
caller stopped waiting, `after` the orders delivered since trading was stopped
(history). `Receive` includes the kill switch,
`Reserve`/`ReserveUnanswered`/`ReserveLate` the reservation, `Publish`,
`PublishFails` and `Release` the end of the way, `Settle` the loss that `oms-live`
books and `Unfilled` an order it refuses or gives up.

`build_order` passes the signal's id, and `OrderRequest.populate_order_id`
(`contracts/python/trade_contracts/order.py:63`) computes the order id from it, the
mode and the side. A signal that is delivered again therefore has the order and the
row it had (`test_order_builder.py:211` asserts it), and the model indexes both by
the signal. `gateway_check_and_reserve_risk` does not look at that row: an active
one is counted in the sum beside the order itself, and a released one lets the
call pass without becoming active (`on conflict (order_id) do nothing`).

The published promise, that worst-case risk is reserved before an order is
published, is `WorstCaseWithinLimit`, and the code breaks it (Findings). What the
code does keep is `ReservedWithinLimit`: the same without orders of which a
publication was reported failed. The two leave out different orders, since a
publication that is reported failed may have reached the topic: the first only those
whose delivery the gateway was never told of, the second all that ever met a
failure. That reservations of published orders are never released makes the budget
shrink over a day; it does not endanger the limit.

One trading date, live mode; gates between the calls only refuse; lot sizes and
price rules are not modelled. An order risks the same each time it is built: in the
code a redelivery may be built at another price, or on another date, while its row
keeps the first amount and date. A message at `oms-live` fills once; that it may
fill twice after a crash is the finding of `LiveTrading`.

### EventPaperClaim, state and actions

`claim` is the row, `run` where each invocation stands with the claim it read,
`calls` the writes given up that may be executed yet. `BeginAttempt` and
`Checkpoint` are the compare-and-swaps, `ReplyLost` a call that was, or will be,
executed without its caller knowing. Whether the window, the preflight or the
age of a quote refuses is a failure that may happen at every step.

### LiveTrading, state and actions

| Variables | Code |
|---|---|
| `broker` | the broker's orders: quantity, filled, working |
| `position`, `trades`, `profit`, `allowed` | live rows of `positions`, `trades_live`, `daily_pnl` and `is_trading_allowed` |
| `job` | local variables and program point of the stream, the closeout and the closeout's task per symbol |
| `batch`, `pending`, `cache`, `closeout` | the messages in hand, `_pending_broker_order_deadlines`, the position cache, the progress of `run_closeout` |
| `torn` | history: symbols with a trade whose row was not written |

An order goes `Check`, `Send`, `Poll` (or `PollTimesOut`, `Cancel`),
`ReadPosition`, `InsertTrade`, `WritePosition`, `ReadProfit`, `AddProfit`; a
stop exit and the closeout's tasks enter at `Send`. `BrokerFills` and
`BrokerEnds` happen when the broker likes, also after a poll timed out. A
database call may fail with (`"lost"`) or without (`"error"`) its effect; most
failures of the stream end the process, and the container restarts it.

Abstractions: prices (a stop may fire at any moment; the profit of a sale is the
number of its shares), trailing updates, dry runs, the reconciliation command.

`PositionsFollowTrades` has exceptions, each of which is a behaviour of the
code: shares that were bought but never recorded (a late or partial fill), rows
that a failure left behind their trade, and symbols bought a second time. With
unrecorded purchases the closeout's comparison of rows and broker may agree by
accident while the stream records a sale, and then sells a second time. With a
second purchase (two BUYs published before the first is recorded) a stop exit or
a task of the closeout may sell what it knew of before, and its
`existing - fill` is then written over the larger row: the trades leave shares
that no row shows (the closeout's last look at the broker notices, see
`FlatOrHalted`). The attempt to prove the property without that exception is
what showed this case; the instance of the run buys a symbol once.

### FeederSession, state and actions

`kabu` are the broker's registrations, `registered` what the session believes,
`cached` and `token` the token in the shared file and in the process, `feed` the
generator of the watchlist, `step` where the cycle and its watchlist task stand,
`ws`, `pushed`, `sends`, `orphans`, `sent` the websocket task and the records
on their way. `EnsureToken` ... `Connect` are `_run_one_cycle` up to the
websocket; `Reconnect` and `Quit` are what its errors lead to, as `run` sorts
them; `StreamDone` and `WatchlistDone` are the end of one task with the other
cancelled. Calls that take effect after they were reported failed, the length of
the backoff, parsing, the replay mode and the broker's limit of 50 symbols are
left out, as is a second client of the token file that erases what the first
fetched.

Behaviours the model shows and that no property forbids: a reconnection while
the watchlist task waits for its generator closes that generator, so that the
next cycle finds the watchlist exhausted and the process returns 0 and has to be
restarted by its container, while `run` and the docstring of `subscribe` describe
an endless loop; a `SupabaseError` of the watchlist is not caught and ends the
process as well; a refusal of `unregister_all` is passed over, so old
registrations may stay (`uncleared`); with an empty watchlist a stale token in
the file is never found out, and the feeder restarts until something is listed
(hence the premise of `WatchlistServed`).

### OpportunityRouter, state and actions

`file` and `newline` are the ledger file, `returned` and `routed` history.
`Checks` are the checks of `evaluate_candidate` in their order, `Resolved` the
capacity rule, `AppendAll` routing and `append_all` under its lock,
`AppendBreaks` a write of which only the beginning reaches the file. The service
is a library so far: nothing in the repository calls it at run time. The chain
of hashes is left out (nobody else writes the file).

`ReturnedIsKept` has one exception: a broken write may leave a whole line without
its newline. The line is read as a record and returned, the next append runs into
it, and the file cannot be read from there on (it fails closed), whereas the
feature document calls the ledger immutable and idempotent
(`docs/features/policy-authorized-opportunity-router-v0.md:184`, `:312`). Also
as the code has it: the limit per instrument applies only above capacity,
repetitions of a candidate count against the capacity, and a candidate routed
again in another cohort may end in a conflict.

`EntriesAreTheBest` says what a rule means without the order in which `Admit`
goes through the entries (`Best`): of the entries of an instrument the foremost,
as many as its limit; of those the foremost of each sector, as many as its limit,
an entry without a sector being its own; of those the foremost, as many as there
are places. The greedy pass with its three counters gives that set when a
candidate is known by its id and an instrument has one sector
(`CohortsAreNamed`, which `MCSharedStores` states of its cohorts and the theorem
takes as a hypothesis). The router does not compare two candidates of one id,
nor the sectors of one instrument: that they agree is up to who makes the
candidates. The last part of the hypothesis is a finding of the proof: with a
limit of more than one per instrument, a candidate handed over twice without its
mark as a duplicate counts twice against the instrument and its sector, and may
turn away another that is among the best. With the limit of one, the default
(`same_instrument_limit`), it finds its own instrument taken, and nothing is
asked.

## Runs

| Run | Question | Bounds |
|---|---|---|
| `SharedStores` | Do stores keep their promises whatever their clients do? The paper ledger (types, no double fill, lineage, conservation, entry price between its BUYs, stops only rise, implements the account); the loss limits, but for orders whose publication failed, and the stop; the claim; the router's file; the exit monitor's pending exits and peaks | ledger: one symbol, BUY and SELL requests that share order, signal and trade ids in conflicting ways, stop updates of two generations; claim: three overlapping runs, three books of which two have one time; router: five candidates on three instruments, two of which share a sector, one place per instrument and sector, two places in all, seven cohorts, two broken writes; risk: two gateways, two purchases and a sale, a limit of the day that the two purchases reach exactly, one of the week that they do not reach although it began with a loss, one trouble (a lost reply, a failed publication, a crash); exits: one symbol, live and paper rows, four ticks, two writes by an OMS, one failure or crash |
| `OmsDay` | Is a closeout that says complete really flat, while the stream fills two BUYs and trails the stop of the position? | one symbol, two orders, three books, one timeout, failed write or redelivery, one retry of the closeout |
| `OmsDue` | May the swing monitor and the opening-exit process sell one due position while a BUY reopens it? Every exit hits the holding it was decided on | two orders, two books, one timeout or crash |
| `Aggregator` | The way of a signal. Strategies: what is acknowledged was said, the model follows a rule, everything is answered. Event-paper signals: the promise, nothing acknowledged unattempted, everything in the end. Ordinary signals: nothing acknowledged undecided, everything in the end | strategies: two features of one symbol, five rules, one hitch; event-paper: one signal, one worker per stage, two payloads per stage, two faults of any kind, two attempts per call; pairing: a pair and a lone sale, one error or crash |
| `Settles` | Two services that end on errors and are restarted. `oms-paper`: do orders settle and does the closeout end? Does `opened_at` tell holdings apart? Feeder: is the watchlist kept registered, and is nothing lost before a clean close? | oms-paper: two orders, one book, one failure, crash or redelivery; feeder: two instruments, two records, two changes of the watchlist, three disturbances, registrations and a token left from an earlier run |
| `LiveTrading` | Were recorded trades filled, do rows follow trades, is the closeout flat or trading halted, is every order answered? | one symbol, a BUY and a SELL, three broker orders, one failure or crash |
| `ExitTwoSymbols` | Violated: exits with a second symbol, see Findings | two symbols, three ticks, no fault |
| `ExitRedelivered` | Violated: is every acknowledged tick processed? | one symbol, four ticks, one fault |
| `RiskReleased` | Violated: is the worst case of published orders within the limits? | two gateways, two purchases and a sale, one trouble |
| `DispatchRetried` | Violated: is a command published once? | one signal, one lost reply |
| `LiveRefilled` | Violated: does a message fill once? | one symbol, one failed write |
| `LiveProfit` | Violated: does the profit of the day add up? | two symbols with a position, no fault |

Why the bounds are enough to be of interest: two orders allow a position to be
opened, closed and opened again, which is what a stale decision needs; one
timeout allows the same write to be in flight twice; one crash falls between any
two steps; the thin book makes fills partial, so that a closeout needs its
retry. Two gateways and two purchases that reach the limit of the day exactly are what
it takes to overshoot by reading the same profit; one trouble makes a reservation
late or repeated, or fails a publication, after which the process ends anyway and
the signal comes again.
Three runs let one own the attempt while two others read, insert and begin. Three
disturbances of the feeder let a token be lost, a socket close and a call fail
in one behaviour. In the pairing, one break falls between any two of the calls
that publish, log and acknowledge a batch of two buckets; of the two features of
the strategies, the second makes every rule with a memory speak that the first
has armed, and is close enough in time to meet the limit on the model's calls.

The names of the bounds: `MaxTime` bounds the clock, `Faults` the number of
faults, `Attempts` the client's attempts (`Tries` in `EventPaperDispatch`; three
in the code), `CloseoutRetries` the retries of a closeout,
`Troubles` those of `GatewayRisk`, `MaxSent` the orders the
broker accepts, `Relistings`, `Disturbances` and `MaxSends` (`max_pending_sends`)
those of the feeder, `Breaks`, `Hitches`, `WriteBreaks` the failures of pairing,
strategies and router, `Writes` those of an OMS that `ExitMonitor` sees. In
the event-paper part, signals meet only in the batch that acknowledges them
(rows, messages and gates are per signal), and what a batch that fails does to
the others in it is a crash between their decision and their acknowledgement.

The runs of `OmsPaper`, `Settles` among them, check for deadlock. The other passing runs do not: their messages, books or
attempts are finite sets, and what has dealt with them all waits for more, or, as
a publisher's run, has ended.

What is shown of the ledger for arbitrary clients in `SharedStores` holds for
`OmsPaper`, which changes it with the same operators only; the OMS runs do not
check it again, nor do they state the types of `OmsPaper` and `LiveTrading` as
invariants of their own.

Every property is tested by a mutant: a faulty form of a definition (named
`X_Fault` beside the definition `X`) under which TLC must find that property
violated.

### Fairness

`Settles` gives `oms-paper` the fairness of `OmsPaper!Fairness`, where it is the part
that moves (hence `PaperOrdersSettle` and `PaperCloseoutEnds`, which say of those
behaviours what `OrdersSettle` and `CloseoutEnds` say). Weak fairness of the tasks' actions:
the event loop runs every task that is ready, and each step is between two
awaits. Weak fairness of `Execute` and `ExecuteRead` per task: the database
answers what is sent to it. Weak fairness of `Tick`: time passes. Strong fairness
of pulling each order: Pub/Sub keeps redelivering a message that is not
acknowledged, and the stream loop pulls between its passes, though not at every
moment. No fairness is given to books, retries, faults or the opening process.
Crashes and errors are bounded by `Faults`; a system that fails forever settles
nothing. `CloseoutEnds` counts a closeout put off by a restart after its time
(`missed`) as ended: that is what `scheduler.py` does.

`Aggregator`: weak fairness of each event-paper worker's own work (its event loop
is scheduled, Postgres and Pub/Sub answer a call that is not abandoned, and a
message that was not acknowledged is delivered again). `EventuallyAcknowledged`
excepts signals for which the aggregator met the hard failure for a changed
payload: it meets it again at every redelivery, as the migration intends. For
the pairing, weak fairness of the steps of `_emit` with the restart, and of
draining; strong fairness of pulling something and of draining something: as
long as signals are not acknowledged some are delivered again, and windows pass.
For the strategies, weak fairness of each service's own steps, restart and pull
of something unacknowledged included. Nothing is assumed of late calls, of gates,
of the model's answer or of faults.

`LiveTrading!FairSpec`: weak fairness of the stream and of the restart, strong
fairness of pulling something. The broker owes nothing (polls time out), and
neither does the closeout. The feeder in `Settles`: weak fairness of the feeder's own steps
and of the broker's refusal of a stale token, which is an answer and not a fault.

## Findings

- **Exits of one symbol are forgotten at a tick of another.** The comment of
  `ExitOrderMonitor` (`exit_orders.py:28`) promises at most one pending exit
  per symbol, trade type and reason while the condition remains true.
  `collect_triggers` is called with the positions of the tick's symbol, and
  `_clear_gone_positions` (`exit_orders.py:87`) drops the state of every
  position that is not among them: those of all other symbols. The run
  `ExitTwoSymbols` publishes an exit for `a`, processes a tick of `b`, and
  publishes the exit for `a` again. Trailing peaks are lost in the same way.
  With one symbol the property holds (`SharedStores`, theorem `ExitOnce`).
- **A redelivered tick is acknowledged unprocessed.** The comment of the stream
  runner (`runner.py:66`) leaves a tick whose processing failed to redelivery.
  `TickSession.observe` has recorded its timestamp by then, so the redelivered
  message is dropped as a duplicate (`runner.py:185`) and acknowledged: its
  features, exits and price update never happen. The run `ExitRedelivered`
  shows it with one failure.
- **One attempt may publish twice.** `_publish_prepared_event_paper_order` says
  that it publishes an order once (`gateway/streaming/runner.py:567`), and the
  header of SQL 020 that an uncheckpointed attempt is never automatically
  published again. Both stages call `PubSubPublisher.publish`, which repeats a
  failed call up to three times (`pubsub_client.py:109`), and do not pass
  `disable_internal_retry` or `before_attempt` as the event-paper publisher does.
  A publication that was accepted and whose reply was lost is sent again: the
  run `DispatchRetried` puts two messages on the topic. Both carry the frozen
  command and the one attempt (`KeepsPromise` holds), and the consumers
  recognise it, the gateway by its journal and `oms-paper` by the order id.
- **A redelivered order is published with nothing reserved.** SQL 016 (lines 1-3)
  says that worst-case risk is reserved before an order is published, so that
  gateways which read the same profit do not overshoot a limit together. After a
  failed publication the gateway releases the row and ends
  (`gateway/streaming/runner.py:440`). The signal is delivered again and gives the
  same order id, so that the insert does nothing
  (`016_gateway_risk_reservations.sql:119`) while the function answers that it
  passed and reserved: the order is published with its row released. No other
  reservation counts it. The run `RiskReleased` needs one failed publication and a
  second purchase, and both together may lose the limit of the day.
- **A live order may fill twice.** The header of `contracts/sql/010` says that
  when `sendorder` succeeded and the write to the tables did not, so that the
  message is delivered again, the existence check and the unique index prevent a
  double fill. The check (`oms_live/streaming/runner.py:395`) looks in
  `trades_live`, which is what was not written, and the index speaks after the
  second `sendorder`. The failed write ends the process, the mark of the pending
  symbol with it. The run `LiveRefilled` fills one order twice with one failure.
- **The profit of the day loses a sale.** The docstring of `add_realized_pnl`
  (`oms_live/clients/supabase.py:104`) says there is no race since the service is
  a single process. The stream and the closeout are two tasks of it, and both
  await between the read and the write. The run `LiveProfit` needs no fault. The
  kill switch reads this number.

## Theorems

The proofs are for every value of the constants that meets the named
assumptions of the modules. They say what the code and its tables guarantee of
the inputs (quantities, prices and times are positive numbers, workers belong to
stages, null values are not values, a limit is not negative) and nothing about
their number. One is more than a type: `OmsAssumption` says that no two orders
of one symbol and side carry the same creation time, which the opening time of
a generation relies on.

**`SumTheorems`.** No prover here can use the library's induction theorems, whose
parameter is an operator. `SubsetInduction` states induction over a finite set
with a set of its subsets instead of a predicate, and is proved from the
library's theorem of the minimal element. With it: a sum over a finite set is
well defined, is that of its parts, changes by what one element changes, and is
monotonic. Conservation, the sum of the risks and the broker's fills rest
on it. `Places` numbers the elements of a finite ordered set, and `SmallestNumber`
and `LargestNumber` say that a set of numbers has an end; the router's sort and
its selection rest on them. That is also how a fold of the community modules is
reasoned about here: along the sets of places already seen, not along the data.

**`PaperLedger_proofs`** (any quantities, prices, times and requests). The
inductive invariant is `LedgerInv == LedgerTypeOK /\ NoDoubleFill /\ Lineage`.
Type correctness needs that an average of positive prices is positive; the type
invariant makes the comparison of quantities meaningful; `NoDoubleFill` follows
since a request that shares an id with a trade is never applied; `Lineage` needs
both, since a top-up keeps the generation of the row and a sale may remove the
row but never a trade. There is one lemma per function and conjunct, and on them:

- `LedgerSafe`, `LedgerTypes`, `LedgerNoDoubleFill`, `LedgerLineage`:
  `LedgerSpec => []...`;
- `LedgerConserved`: what is held is what was bought less what was sold, per
  generation (`LedgerBooks` adds finiteness of the trades, so that the sums are
  sums);
- `LedgerEntries`: the entry price lies between the prices of its BUYs (the
  average is compared through products, hence `AverageBetween`);
- `LedgerStopsOnlyRise`: the action property, from the same invariant;
- `LedgerIsAccount`: `LedgerSpec => Account!AccountSpec` with
  `holding <- [s |-> Held(s)]` and `filled <- {t.order : t \in trades}`: every
  applied fill is a `Bought` or a `Sold`, everything else a stutter.

**`OmsPaper_proofs`** (any requests, signals, books and interleavings of the three
tasks). `OmsInv` says that every row known to a task, a cache or an unfinished
call is of a generation some trade opened, and that calls carry that generation's
opening time; that only a BUY order opens a generation, with its own creation
time; that a generation that is gone stays gone, since a call with an identity
the ledger knows changes nothing; and (`RunForm`) what the closeout has made sure
of at each of its awaits. From it:

- `OpenedAtIsUnique` (`OpenedAtIdentifiesGeneration`): the comparison of times by
  which a sale finds its generation finds no other;
- `CompleteIsFlat` (`CompleteCloseoutIsFlat`): a closeout that reports completion
  has left no row behind;
- `DecisionsHit`: a sale decided on one generation never sells another.

The service is also a client of the ledger: `OmsIsClient`, `Spec => LedgerSpec`.
`OmsClient` adds to `OmsInv` the type of whatever a later call is made from
(`OmsTypes`: the caches, the lists, the rows and the book a task carries, its
clock, the answers it awaits), so that every call in `wire` is a request of the
ledger and its execution, however late, a step of `LedgerNext`; nothing else
touches the tables (`OthersLeaveLedger`). `OmsKeepsLedger` collects what follows
for the running service from the theorems about any clients: no double fill,
lineage, conservation, bounded averages, rising stops and the account. The
hypothesis is `Domains`: identities, times and quantities are all positive
numbers, so that a fresh one always exists (`FreshIsNumber`, `LargestNumber`), and
a trailed stop rounds to a price, as any trailing percentage up to one half does.

**`EventPaperDispatch_proofs`** (any signals, payloads, workers, attempts and
faults). `DispatchInv` says, of every worker's next call and of every abandoned
one, that the journal backs it: its command is on record, from `publish` on its
attempt is, and what the gateway takes as input is what the aggregator froze.
`DispatchTypeOK` alone is not inductive, since a late `begin` or `confirm` keeps
the CHECK constraint only because of what its caller had seen. The argument is
by growth (`Grows`): a row keeps its payloads, and once attempted its attempt, so
whatever was backed stays backed, and every step has to justify only the
worker's new job. There is one lemma per action, and on top of them:

- `DispatchSafe`, `DispatchTypes`, `DispatchConfirmed`, `DispatchAttempted`,
  `DispatchReplays`: `Spec => []...`;
- `DispatchKeepsPromise`: `Spec => Promise!PromiseSpec`. Every step leaves the
  database alone or executes one backed call (`NextExecutes`), and a call maps to
  `Choose`, `Attempt`, `Deliver` or a stutter (`ExecutedIsPromised`).

**`SharedStores_proofs`** (any workers, signals, risks, limits, runs, books,
cohorts and breaks).

- Gateway: `RiskTypes` (a worker about to publish an order that risks something
  finds a row for it, released only after a publication was reported failed),
  `RiskStopsAtOnce`, `RiskReserved` (`ReservedWithinLimit`). `RowsHold` says that a
  row, once there, stays, and is released only after such a report, so that an open
  order without one has its active row, whichever worker published it and however
  often; `StopHolds`, the measure, that orders delivered since the stop and workers
  that may still deliver one are together at most as many as the workers.
  `AccountInv` carries the sums: the losses of filled orders and the risks of active
  rows stay within the limit, orders with a failed publication aside, since a
  reservation is made against the sum of all others and a loss is at most what was
  reserved. `WorstCaseWithinLimit` is false and not proved.
- Claim: `ClaimPublishesOnce` and `ClaimReceiptsAreTrue`. `ClaimInv` says what
  each run may rely on at its program point (the claim it read at `begin` has no
  attempt; at `send` and `checkpoint` it is the row, and the attempt on record is
  its own), and of every call left behind that its caller has ended. The row only
  advances, so a compare-and-swap with an old expectation does nothing.
- Router: `RouterKeeps` (`ReturnedIsKept`). `FileForm` says that the file is a
  sequence of lines whose last one is there when its newline is missing; a write
  changes no line but that one, and that one only into the line the property
  excepts.
- Router: `RouterEntersTheBest` (`EntriesAreTheBest`), for any policy, limits,
  cohorts and breaks, under `CohortsAreNamed`. Half of it is about the routing
  alone. `PickedIs` and `SortedIs` say what the list comprehension and Python's
  stable sort give; both rest on `Places` of `SumTheorems`, that each element of a
  finite ordered set has a place. `TakenAreTheBest` goes along the ranked entries:
  those taken so far are the best of those seen (`TakenFirst`), for the three
  counters of `Admit` count exactly the better ones that stand in an entry's way
  (`AdmitIs`), and an entry is one of the best exactly when the best that are
  better leave it room under each limit (`BestAreLetIn`). `RoutedIs` carries that to a batch, with the
  cohorts that have room, no rule, or an entry the rule does not rank. The other
  half is the file (`RouterInv`, checked by TLC on the run's instance before it
  was proved): `RoutedForm` says that each decision of an answered cohort was
  returned, that whatever was returned or is in the file was decided for some
  cohort, and that an id has one decision. The last is why another cohort does
  not disturb the entries of this one: a different decision on the same id is a
  conflict, and nothing is appended.

**`MarketData_proofs`** (any instruments, records, ticks, failures and bounds).

- Feeder: `FeederIsFollowed` (`BrokerFollows`) and `FeederClosesClean`
  (`CleanCloseKeepsRecords`). `Follows` states what the broker holds from the
  clearing of a cycle until one of its tasks has ended; `Accounted` that every
  received record is published, on its way or failed.
- Exits: `ExitTypes`, `ExitPeaks` and `ExitOnce`. That one condition makes one
  exit is proved, as it is checked, under the hypothesis that there is one
  symbol: with two it is false (the run `ExitTwoSymbols`, see Findings), since
  what is cleared between the two reads of a batch may be of the other symbol.

**`Signals_proofs`** (any signals, features, rules, thresholds and failures).

- Pairing: `PairingLosesNothing` (`AckedWasDecided`). `BatchKept` says of the
  batch in hand, at each point of `_emit`, that what became of its buckets is on
  its way; at the last point that is what the property asks.
- Strategies: `StrategyLosesNothing` (`AckedWasSaid`) and `StrategyModelFollows`
  (`ModelFollowsRules`). `HandInv` says of the message in hand what was made of
  it and how much of that is on its topic; with it, `TriggersBacked` (a confident
  signal precedes every trigger) and `AllSettled` are inductive. The lemma
  `SteadyForgets` is where rules with a memory drop out.

**`LiveTrading_proofs`** (any orders, symbols, fills, failures and crashes).
`LiveInv` says that the broker's log only grows, that a task between its order and
the record of its fill has a place of the log that no other task and no trade
refers to, and what the closeout has seen of it. `LiveTradesFilled`
(`TradesWereFilled`: a trade is backed by a fill of its own, of no less) and
`LiveFlatOrHalted` (`FlatOrHalted`) follow; the second sums the log.

`LiveRowsFollow` (`PositionsFollowTrades`) needs more: `RowsInv`. Of a symbol that
is none of the property's exceptions (`Regular`, which no step restores) it says
that nothing is known yet (`Blank`: no row, cache, list or sale of it before the
purchase's row is written) or that its row is accounted for (`Owned`: the row is
what the trades leave, but for the fill of a sale whose row is being written;
whatever is cached, listed, asked or decided to be sold is no less than the row;
at most one sale has been accepted and is not settled). The last part is the
heart of it, and is the broker's doing (`AcceptedAlone`): it accepts no sale of
more than `Free`, which with an unsettled sale is less than what the trades leave
(`FreeIsLeft`), hence less than the row and less than any other task would sell.
That is how a sale may be written from an old quantity. Most steps change neither
rows nor trades (`CalmRows`); accepting, inserting and writing do
(`AcceptRows`, `InsertedRows`, `WroteRows`).

Every safety invariant and action property of a passing run is stated by a
theorem. Only model-checked:

- liveness (`OrdersSettle`, `CloseoutEnds`, `EventuallyAcknowledged`,
  `HalvesAcknowledged`, `FeaturesAnswered`, `OrdersAnswered`, `WatchlistServed`),
  which is outside the prover's reach, as is `ENABLED`.

## Left for later

1. The multi-level fill of `fill_simulator.py` as a function against a reference
   definition (`OmsPaper` has one level per side).
2. The gateway's gates as such: cooldowns, caches of positions, budgets, lot sizes.
3. The session window and the daily reset of the profits in the feature engine;
   the reconciliation command of `oms-live`.

## Not modelled, and why

- Indicators (`feature_state.py`) and the universe scanner are numeric formulas
  over decimals and price histories; they hold no state that another component
  could meet half-changed.
- The backtests replay archives sequentially with the code that is modelled.
- The message types and the Pub/Sub client are modelled where they are used:
  the fields a property tells apart, three attempts per call, a lost reply.
- The dashboard reads, but for the manual stop of trading (`StopTrading`).
- Scripts, research and infrastructure hold no trading state: reports, studies,
  audits and deployment. They are most of the repository's lines, which is why
  the mapped share of the whole is small; of the services' code and the SQL it is
  a little more than a quarter.

The operations of a component that are left out are named with the component in
`PROJECT.json`.
