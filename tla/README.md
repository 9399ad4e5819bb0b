# Formal models of the trading bot

This directory holds TLA+ specifications of the parts of the bot that decide
what is bought and sold, of what it remembers of it, and of the threads and
processes around them: the order flow from an intent to a booked fill, the
ledger, order submission under persistent client order ids, the legacy exit
path, the price anchor and its trigger, the market data feed, the connection to
the exchange, the start with its portfolio reset, the end of the process, and
the persistence of pending intents. TLC checks them on small instances. Every
safety property that a run finds to hold is also proved with TLAPS, for every
value of the constants; what has no proof is liveness.

Everything is read off the Python source. Where a document or a comment promises
something the code does not do, section 4.2 or 4.3 says so.

Contents: 1. the system; 2. the modules; 3. how state and actions correspond to
the code; 4. what the runs check; 5. fairness; 6. what is proved; 7. what is not
modelled; 8. plan.

## 1. The system

### 1.1 Processes and interaction

The bot is one Python process that trades spot pairs on a centralised exchange
through ccxt.

* **Main thread** (`main.py`). Sets everything up, sells what an earlier run left
  (`trading/portfolio_reset.py` with the settlement manager of `core/utils/utils.py`), waits for a budget,
  starts the engine, waits for a shutdown request and cleans up. Signal handlers
  run on it.
* **Trading thread** (`engine/engine.py`, `_main_loop`). One thread scans the
  market, decides on buys (`engine/buy_decision.py`) and exits
  (`engine/exit_engine.py`, `_maybe_scan_exits`), publishes `order.intent`,
  manages positions and drains the queue of exit signals.
* **Polling loop** of the market data (`services/market_data.py`). Runs the same
  `update_market_data` as the trading thread, with its own timing and a pool of
  workers.
* **Callers** of `TradingEngine.exit_position`: user interface and commands.
* **Event bus** (`core/events.py`). `publish` calls every subscriber in turn in
  the publishing thread. Publishing an intent therefore runs the router, the
  reconciler and the engine's own handlers to the end before it returns: at most
  one intent is being handled at a time.
* **Connection monitor** (`services/connection_recovery.py`). Tests the
  connection through the same adapter the others trade with.
* **Exchange**. Acts on its own: it fills, cancels, refuses and expires orders
  while the bot looks elsewhere, and calls to it fail or lose their answers.
* **State writer threads** (`core/state_writer.py`). Write the dictionary of
  pending intents some time after it changed, while the trading thread goes on
  changing it.
* **Stop** (`TradingEngine.stop`, called by `services/shutdown_coordinator.py`).
  Joins the threads with a time limit, and writes once more.
* **Restart**. `core/coid.py` reads its store of client order ids, the anchor manager its
  anchors, the portfolio manager its file; the start sells and forgets what it finds.
  `TradingEngine` looks for an intent file, too, but its path lies in the directory of the
  session, which every start makes anew (`config.py:48-53,70`), so no intent comes back.

### 1.2 Components

State, operations, what is hard, and what makes the component correct. The file
`PROJECT.json` has the same list with the source files of every part and what of
it is left out.

| component | state | operations | what is hard | what makes it correct | module |
|---|---|---|---|---|---|
| Order router | `_seen`, `_order_meta`, locals of `handle_intent` | reserve, place, poll, retry, publish outcome, release | a retry follows an answer that was lost; the last order of several is published | one outcome per intent, bounded attempts, a filled intent had an order | `OrderRouter` |
| Portfolio ledger | budget, reserved budget (total and per symbol), reservations, positions, held assets | reserve, release, commit, apply fills | the same reservation is recorded three times and released from several places; clamped subtractions hide double releases | nothing negative, nothing reserved between intents, budget equals the account's cash | `Portfolio` |
| Engine | `pending_buy_intents`, `positions` | submit buy, submit exit, `_on_order_filled`, `_on_order_failed`, `clear_intent`, stale sweep, eviction | an intent is cleared by whoever comes first | nothing stays pending for ever | `OrderRouter` |
| Reconciler | none | `reconcile_order` | trades cannot be fetched | positions are what the exchange executed | `OrderRouter` |
| Exchange wrapper | none | place, wait for fill, fetch trades | every poll may fail; an answer without a status | what it reports was executed | `OrderRouter` |
| Sizing and risk limits | none | size of a position, limits | counts what the portfolio believes, not what the account holds | MAX_TRADES holds of the account | `OrderRouter` |
| Order submission, client order ids | store of ids, its file | make or reuse an id, record an answer, reconcile at start, submit with retries | two threads, lost and late requests, a crash between sending and recording, a save or load that fails | a decision executes once, or the exception is one that startup or a restart made | `OrderSubmission` |
| State persistence | dirty flag, state reference, file | update, periodic write, shutdown | the dictionary changes while it is dumped; threads outlive the join | the file is never a mixture; what was reported is written | `StateWriter` |
| Legacy exit path | signal queue, exit registry, results of a batch | evaluate, queue, IOC then market, book | two threads sell; amounts are read when the signal is raised; the position may be a later one when the sale is booked | a position is forgotten only for an order that sold it | `LegacyExit` |
| Position manager, trailing | `meta` of a position and a copy of it | place, switch and restore take-profit and stop-loss | cancel and replace race a fill; the copy is thrown away | at most one protective order per position | `LegacyExit` |
| Signals and guards | tick file, window, session high, anchors, snapshots | note, compute, publish, trigger, save, load, warm start | two threads without a common lock; anchors of earlier runs | a buy follows a drop that was seen; a lasting drop is not missed | `BuySignal` |
| Market data, coalescing | ticker cache, requests in flight, failure counts, delays, skip list | batches, workers, retries, get price | all wait for one fetch; a request is never forgotten | every cycle ends; only symbols that deserve it are delayed; what is old is known to be | `MarketData` |
| Connection recovery | state, failure counts, breaker | test, reconnect, retry | every call reconnects first, which zeroes the counters that are to start the recovery | the state follows the exchange; an order is taken twice only if an answer was lost | `Connection` |
| Startup: sanity check, reset, settlements | held assets and their file, budget, pending settlements, balance cache | cancel, value, sell through a ladder of orders, await proceeds, clear, wait for money | errors that look like an empty account; state cleared although a sale failed; a crash between any two steps | what is forgotten is explained; trading starts once there is money | `Startup` |
| Shutdown coordinator | event, request, threads | request, run clean-up, end | signal handlers run inside the code they interrupt; threads that are no daemons | a requested shutdown ends; the process does not end before its state is saved | `Lifecycle` |
| Event bus | subscribers | publish | re-entrancy | synchronous delivery | in `OrderRouter` |
| Legacy `trading/` | none | settlement, reset, dust | only `get_free` and precision helpers have a live caller | - | in `Startup` |
| FSM engine (`core/fsm`, `engine/fsm_engine.py`) | phase and context per symbol, snapshots | transitions, timeouts, recovery | cannot run as it is (section 7) | only table transitions | - |
| Order FSM | state of one order | transitions | none: no caller but tests | terminal states are final | - |
| Idempotency store | SQLite table of requests | register, update, look up | every exit asks it for a new id | one order per request | - |
| Symbol locks | lock per symbol | look up, acquire, clean up | clean-up has no caller | mutual exclusion | - |
| Buy and sell services | none of their own | submit through the order service | own client ids the store does not know | as order submission | - |
| Order and trade caches | cached answers | get, invalidate | stale answers | age limit | - |
| Double-entry ledger, P&L | accounts, trades | record | rounding | sums balance | - |
| Memory manager | bounded queues | evict | - | bounds | - |
| Logging, telemetry, user interface, Telegram, ML veto, configuration, tools | output, constants | - | - | - | - |

### 1.3 What is hard to test here

`PROJECT.json` lists each hazard at its line with the properties that cover it.
In short: an order that executes although its answer, its polls or its trades are
lost; a retry of an order that executed; two records of one reservation that
drift apart; three copies of the list of positions; an exit signal that outlives
its position; a protective order replaced while it fills; two threads that write
one anchor; a fetch that everybody waits for; counters that are reset by those
who should read them; an intent file that is written while it changes; threads
that outlive their join; a signal that interrupts the thread that must answer it;
a store of ids whose save failed before a crash; a crash between selling the
portfolio and noting it. Some hazards are listed without a property: the note says where
the code gets them wrong, or which property names them as its exception and so cannot
catch them.

## 2. Modules

| module | models |
|---|---|
| `Portfolio` | the money and position part of `core/portfolio/portfolio.py`, as functions from a ledger to a ledger |
| `OrderRouter` (extends `Portfolio`) | engine intents, `services/order_router.py`, `services/reconciler.py`, the ledger and an exchange that acts on its own |
| `IntentContract` | the abstract promise of `handle_intent` |
| `MCOrderRouter` (extends `OrderRouter`) | `OrderRouter` for TLC: the symmetry of the symbols |
| `OrderSubmission` | `core/coid.py`, `services/order_service.py`, `core/startup_reconcile.py` |
| `LegacyExit` | `services/exits.py`, `services/signals.py`, `engine/exit_handler.py`, `engine/position_manager.py`, `exit_position` |
| `BuySignal` | `market/anchor_manager.py`, `services/buy_signals.py` and the pipeline of `services/market_data.py` that feeds them |
| `MarketData` | `services/market_data.py`, `services/market_data/coalescing.py`, `services/cache_ttl.py` |
| `Connection` | `adapters/exchange.py`, `services/connection_recovery.py` |
| `Startup` | from `main` to the first trade: `PortfolioManager.__init__`, sanity check, `full_portfolio_reset`, `SettlementManager`, budget |
| `Lifecycle` | `main.py`, `services/shutdown_coordinator.py`, threads started and stopped by the engine |
| `StateWriter` | `core/state_writer.py` with the engine's calls of it, `TradingEngine.stop` and the next start |
| `OrderRouterProofs` | theorems about `OrderRouter` and `Portfolio` |
| `OrderSubmissionProofs`, `LegacyExitProofs`, `BuySignalProofs`, `MarketDataProofs`, `ConnectionProofs` | theorems about the module of that name |
| `ProcessProofs` | theorems about the start and the end: `Startup`, `Lifecycle`, `StateWriter` |
| `SumTheorems` | lemmas on sums of amounts over a finite set, for `OrderRouterProofs` and `ProcessProofs` |

`OrderRouter` is a composition: engine, router, reconciler, ledger and exchange
interact through the variables they share, and the handler of an event is part of
the action that publishes it, as on the synchronous bus. It is shown to implement
`IntentContract`, in TLC and in TLAPS.

The other modules stand alone, because what connects them in the code is narrow:
the router places its orders through the exchange wrapper and not through the
order service; the writer sees no more of the order flow than the dictionary it
dumps; `BuySignal` and `MarketData` look at the same cycle, one at what becomes of
a price and one at how a price is come by; `Startup` is over before the first
thread of the engine exists; `Lifecycle` needs of each thread only when it ends.

Some definitions begin with the comment "Mutant:". They are the mutated forms of the
definition that follows them, a plausible slip in the same code; no specification
uses them. Each property is known to fail for one of them. `Startup`, `Lifecycle` and
`StateWriter` are proved about in one module, which extends the three, so names they would
share carry a prefix: `StartupInit`, `WriterTypeOK`.

## 3. How the models correspond to the code

### 3.1 Portfolio

The record `Ledger` has the attributes of `PortfolioManager` that money lives in,
under their own names. A missing dictionary entry is 0. Each function is named
after the method it is the effect of. Quantities are counted in units whose
reservation price is one quote unit, so the notional of a reservation is its
quantity; a price that moves between reservation and execution is `Slip`, the
rounding of a quantity is `Drift`. Every subtraction is clamped at zero as in the
code (`Monus`); that a reservation can be released twice without a negative number
is what makes `ReservationsAddUp` worth stating.

### 3.2 OrderRouter

| code | model |
|---|---|
| `execute_buy_order`, `_evaluate_buy_opportunities`, sizing, `RiskLimitChecker` | `SubmitBuy`, `BuyAllowed`, `calculate_position_size` |
| `_maybe_scan_exits` | `SubmitExit` |
| a repeated `order.intent` | `Redeliver`, `IgnoreDuplicate` |
| `_check_stale_intents` | `StaleSweep` |
| `handle_intent`: idempotency check, `_reserve_budget` | `ReserveBudget`, `RefuseIntent` |
| retry loop: place, exception handler | `SendOrder`, `PlaceFails` |
| `wait_for_fill` and the branches on its status | `WaitForFill`, `Observations` |
| `order.filled`: `reconcile_order`, `apply_fills`, `_on_order_filled`, `handle_router_fill` | `PublishFilled`, `Reconciled`, `ReportFilled`, `handle_router_fill` |
| PARTIAL_SUCCESS | `PartialSuccess` |
| FAILED_FINAL, `order.failed`, `_on_order_failed`, `clear_intent` | `FailedFinal`, `RefuseIntent`, `ReportFailed` |
| entry hook of `handle_router_fill`, `place_or_replace_exit_protection` | `PlaceTakeProfit` |
| the exchange | `AcceptOrder`, `ExchangeFill`, `ExchangeCancel`, `TakeProfitFills` |

`handle_intent` is cut where it calls the exchange; between two such calls nothing
else can run on the trading thread, so each piece is one action. `pc`, `cur`,
`attempt`, `filled_qty`, `order_id` are its program point and locals. `account` is
what the bot really owns, which no code reads; `outcome` is a history variable.
`Faults` selects what the link to the exchange may do in an instance:
`lost_response` (an order is accepted and the answer lost), `poll_outage` (all polls
of `wait_for_fill` fail, which then returns its default of an open order),
`no_trades` (`fetch_order_trades` fails), `expired` (an IOC order ends as `expired`,
which the router retries, and not as `canceled`, which it does not).

After a buy whose fill the engine handles, the engine places a take-profit order of its
own (`PlaceTakeProfit`). It is not an order of the router: nobody polls it, nobody
reconciles its trades, and an exit intent does not cancel it. `account.resting` is the base
currency that such orders offer; other sells cannot use it. `TakeProfit` says whether the
exchange takes these orders in an instance (post-only orders may be refused, and
`place_limit_gtc` then returns nothing, which is only logged).

Abstractions: which symbol is bought or sold, and when, is a free choice within the
guards of the code. Prices are `Slip` and `Drift`. Buys are taken for coverable by
the account, as a spot exchange does. Intent ids are numbers; in the code they hold
a time stamp and a random part (`decision/assembler.py`), so no two are equal. Every trade
is taken to carry its fee in quote currency (`apply_fills` charges `fee_rate` when a trade
reports none, which is the same to the ledger). The exchange may accept or refuse the
`clientOrderId` that all attempts of an intent share; `OrderSubmission`, whose code rests
on the refusal, assumes it. A sweep that clears several intents in one pass is several
`StaleSweep` steps in a row. The profit of a take-profit order over the entry price is left
out: cash is only compared in instances without these orders.

### 3.3 IntentContract

Intents are worked on one at a time; at most `Limit` orders are sent for an intent,
and only while it is worked on; it ends once; a filled one had an order. The mapping
is `status <- StatusMap` (from `outcome` and `seen`), `sent <- SentMap` (orders of the
intent at the exchange), `Limit <- MaxRetries + 1`.

### 3.4 OrderSubmission

Every operation of `COIDManager` holds its lock and tries to save before it returns, so
each is one action, with `Save` or `SaveEach` at its end: `NextCoid` (`next_client_order_id`), `Record` (`update_status` after an
answer), `Reconcile` (`reconcile_pending_coids` with `cleanup_old_entries`), `Crash`
(the process dies, the store is read back). An error while saving is swallowed
(`coid.py:421`), so with `save_fails` the file may stay at an earlier store; a file that
cannot be read makes an empty store and an entry that cannot be parsed is skipped
(`coid.py:395-403`), so with `load_fails` a crash keeps any part of the file. `lapsed` is
history: the ids that a restart forgot while they were unfinished, or took up again after
they had ended. A save counts as failed or done as a whole: the file is replaced by a rename.
`submit_limit` and `submit_market` are
cut at the call of the exchange: `Submit`, then `SendAnswered`, `SendRefused` or
`SendFails` per attempt, then `Record`. A request that timed out may still arrive
(`inflight`, `Arrive`). The exchange refuses a client order id that it has seen; that
is an assumption about the exchange on which the code rests
(`order_service.py` reuses the id for exactly this reason).

At this commit nothing in the running bot calls the service: `sell_service.py` would, and
has no caller itself, and `reconcile_pending_coids` is called by tests only. The model is of
what the two modules promise to whoever uses them.

### 3.5 StateWriter

`live` is the engine's dictionary and at the same time the writer's state: `update`
is handed the dictionary itself, not a copy. `Change` and `Update` are two steps of the
trading thread, since the change is made without the writer's lock. A write is a
`StartDump`, one `DumpKey` per entry, and `DumpDone` or `DumpFails`: Python's iteration
over a dictionary raises when its size has changed, which is `SameSize`. `Tick` and
`LeaveLoop` are the writer's loop; `BeginStop`, `JoinTrading`, `StopPersists`,
`JoinWriter` are `TradingEngine.stop` and `shutdown`. `Restart` is a new process, with a new
file in a new session directory: `_recover_transient_state` finds nothing to read, so that
`fresh`, `file` and `past` begin anew as well. (Two starts within one second would share a
directory; that is left out.)

### 3.6 LegacyExit

| code | model |
|---|---|
| a filled buy, `place_or_replace_exit_protection` | `Buy`, `PlaceProtection` |
| `manage_positions`: `_get_position_data`, `manage_dynamic_tp_sl_switch` | `ManageSwitch`, `SwitchToSL`, `SwitchToTP` |
| `restore_exit_protections` | `ManageRestore` |
| `evaluate_position_exits`, `add_signal` | `ManageEvaluate` |
| `process_exit_signals` of the queue | `PopSignal` |
| `TradingEngine.exit_position` | `ExitPosition` |
| `execute_exit_order`: registry, idempotency, `_try_limit_ioc_exit`, `_try_market_exit`, `finally` | `BeginSale`, `LimitIOC`, `SkipThin`, `MarketExit`, `Finish` |
| `ExitHandler.process_exit_signals`, `handle_exit_fill` | `BookResult`, `BookedPositions`, `BookedHeld` |
| the exchange and the adapter's retries | `Place`, `Cancel`, `ProtectiveFill` |
| the market, the clock | `MarketMoves`, `Tick` |

One pair, two sellers: the engine's loop and a caller of `exit_position`. Each has a
program point; between two of its actions it holds the lock the code holds there.
Prices are the five levels the code tells apart. `gen` numbers the positions opened, so
that a signal of an earlier position can be told from one of this position; no guard
reads it. `Faults` selects an exchange whose IOC orders fill in part, which refuses orders,
fails to cancel, or loses an answer after which the adapter sends the order again.

`meta` is the dictionary of the position and `data` the copy `manage_positions` works on:
what the switch writes to the copy only (that the old order is gone) is lost at the end
of the round, and that is in the model. The limit orders of the exit carry an id of the reason
and the second; the market attempt has no id. Half a fill of an IOC order is not booked
and the whole amount offered again (`exits.py:419`).

Left out: the stop-loss and take-profit orders of other pairs, priorities (all reasons that
are raised have the default rank), trailing stops (never enabled by the engine's own buys),
and the exits through the router, which are in `OrderRouter`.

### 3.7 MarketData

| code | model |
|---|---|
| `get_price` | `GetPrice` |
| `get_ticker` under the provider's lock, `CoalescingCache.get_or_fetch` | `Enter`, `Joined`, `Role` |
| the fetch ends | `FetchAnswers`, `FetchRaises` |
| `request.wait(timeout_s=5)` ends | `Wake`, `WaitTimesOut`, `LeftRequest` |
| `update_market_data`: degraded symbols, batches | `StartCycle`, `BatchAnswers`, `BatchRaises` |
| the pool: `fetch_single_ticker` with its retries | `StartFallback`, `Look`, `Collect` |
| `_record_success`, `_record_failure`, skip list, delays | `RecordSuccess`, `RecordFailure` |
| the results are handed on | `Publish` |

A ticker is the time at which the exchange answered it, so a property can say how old it is.
Each provider has one lock, but the coalescing cache is global: a thread of the second
provider (`Foreign`) shares requests with threads of the first. A fetcher counts itself
among the waiters and is never taken off, so a request is only forgotten when a
waiter leaves it and nobody else is counted, which cannot happen: the outcome of the first single
fetch of a symbol, a ticker or an error, answers every later one (proved: `FeedKeepsRequests`). A failed batch drops
the batches after it.

### 3.8 Connection

`_retry_request` is cut at each request it makes: `Check` (is the connection good, else
`force_reconnect`), `Markets` and `Balance` (the reconnection's own requests), then
`Answered`, `Unreachable`, `AnswerLost` or `ClockDiffers` for the request itself. A test
(`BeginTest`) is a call of the adapter whose end is `OnSuccess` or `OnFailure` in the recovery
service; `BeginCall` is a call that trades or reads; `Exchange` lets the exchange come and go.

The recovery thread with its growing delays, the behaviour of the monitor while it runs,
and the open breaker are not modelled, and that is a result and not a choice:
`force_reconnect` sets the failure counters to zero, it is called before every attempt of a call while the connection is
not good, and the tests go through the same calls. So the three failures in a row that would start
the recovery thread are never counted (`BackoffNeverStarts`, `RecoveryUnreachable`).

### 3.9 Startup

| code | model |
|---|---|
| `PortfolioManager.__init__`: `load_state`, `initialize_budget` | `Boot` |
| `sanity_check_and_reconcile` | `SanityCheck`, `Pruned` |
| `full_portfolio_reset`: markets and balance, cancels, value, ladder of orders | `ResetStarts`, `CancelOpenOrders`, `ValueAsset`, `Sell`, `SellRefused`, `SellUnanswered`, `AssetsDone` |
| `wait_for_all_settlements` | `CheckSettlements`, `StopWaiting` |
| the rest of `perform_startup_reset` | `RefreshAfterReset`, `ClearState` |
| the budget check of `main` | `CheckStartupBudget`, `WaitForBudget`, `ShutdownWhileWaiting` |
| the exchange | `RestingFills`, `Arrive` |
| the process dies and is started again, anywhere | `StartAgain` |

`get_free` turns every error into 0.0, and `refresh_budget_from_exchange_safe` caches that
0.0 as an answer; `FreeReads` and the operator of that name say so. A worker that its caller
has given up on may write the cache later, with what it read then or reads now
(`LateCacheWrite`; of several such workers the last is followed). What a sale is taken to have
fetched may be less or more than it did: the amount of the order, or all trades of the last
ninety seconds (`Revenue`); a difference counts as a disturbance. `Asset` are the currencies
the reset sells: the stablecoins it leaves alone (`portfolio_reset.py:137`) are not among
them, and what is held of those is forgotten like everything else. The return value of
`full_portfolio_reset` is not looked at, so `ClearState` follows whatever happened.
`excused`, `disturbed` and `announced` are history: for which assets a call failed, whether
money moved that no settlement announced, and what the settlements promised together.

Prices are one and amounts whole numbers. The assets are looked at in a fixed order. What
the exchange does between two looks of the program is taken to happen just before the
second. `StartupInit` is any account, open orders and file that an earlier run can leave.

### 3.10 BuySignal

| code | model |
|---|---|
| `update_market_data`, price and tick file | `Fetch` |
| rolling window, `note_price` | `Note`, `WriteHigh` |
| `compute_anchor`, `_apply_clamps` | `Compute`, `Raised`, `Clamped` |
| snapshot, store, save | `Publish` |
| `_load`, warm start | `Starts`, `Loaded`, `WarmStart` |
| `evaluate_buy_signal`, a fill with `reset_anchor` | `Trigger`, `Triggered`, `PassOver`, `SkipUpdate` |
| an exit, the end of the process, the market | `Sold`, `Ends`, `Passes` |

One pair; two threads, the engine's loop ("main") and the polling loop ("loop"), run the same
pipeline without a common lock, and each is cut where the other may come between: `note_price`
reads the session high, computes, and writes (`Note`, `WriteHigh`). Prices are levels of a
logarithmic scale, where a percentage is a distance. What the rolling window may
return as its peak is any price it may have been told (`Observed`).

Left out: slots and budget (the trigger may have no effect), the market guards (all switched
off), the stabilizer (`CONFIRM_TICKS` is 0), the other three modes of the anchor.

### 3.11 Lifecycle

The main thread's program points are `main`; `BuildEngine`, `StartServers`, `StartEngine` set
up, `Loop`, `Wait`, `Wake`, `Return`, `Beat`, `BeatFails` are the loop around
`wait_for_shutdown`, and `LookWhetherInProgress` to `SetEvent` are `request_shutdown`
cut at each of its assignments. `Signal` is the whole handler between two steps of the main
thread, because that is where Python runs it. `ExecuteShutdown`, `CleanupCallbacks`,
`StopEngine`, `PersistState` are the clean-up, `End` a thread that sees it is to end, and
`ProcessEnds` the interpreter, which waits for all threads that are no daemons.

The coordinator's lock is reentrant and does not hold up a handler; the lock inside
`threading.Event` is not reentrant, and a handler that calls `set` while the main thread is
inside `wait` or `set` with that lock held waits for ever (`stuck`): the engine trades on.

## 4. Runs

### 4.1 What holds

| run | asks | bounds | distinct states |
|---|---|---|---|
| `router_clean` | with an exchange that answers: do positions, cash and reservations agree with the account after every intent, does MAX_TRADES hold of the account? | 3 symbols, 3 intents, budget 5, IOC, one retry, drift 1, slip 0 or 1, 2 trades, 2 positions, 1 pending, no take-profit orders | 154 330 |
| `router_faults` | with every answer that can be lost lost, GTC orders that go on executing after the router gave up, and take-profit orders: one outcome, no invented fill, reservations that add up, the contract | 2 symbols, 2 intents, budget 4, GTC, one retry, slip 1 | 328 697 |
| `router_live` | does every intent get an outcome, does no pending intent stay? | 2 symbols, 2 intents, IOC, drift 1, `no_trades`, `expired` | 80 191 |
| `submission_safe` | with two threads submitting one decision, lost and late requests, crashes anywhere, saves and loads that fail: one unfinished id and one open order at a time, no unexplained second execution, ended ids stay ended | 2 threads, 1 decision, 2 ids, 2 attempts, all five faults | 2 427 425 |
| `legacy_exit` | two sellers, stale signals, half-filled orders and protective orders that are switched: is a position only forgotten for an order that sold it, does one protective order rest at most, does the registry end with the sale? | 2 positions one after the other, 3 signals queued, 3 orders, 2 per cycle, one unit the bot did not buy, `partial`, `refused`, `cancel_fails` | 3 631 436 |
| `signal_trigger` | do two threads, restarts and old anchors ever make the bot buy without a drop, or miss a lasting one? | 2 price levels, drop 1, 3 times, 2 runs of the program, all ages of the code 0 or 1 | about 687 000 |
| `market_feed` | does every cycle end, is only an unsuccessful symbol delayed, is an old price always the frozen first answer? | 1 symbol, 1 cycler, 2 readers, one of the other provider, 1 retry, threshold 2, 3 times | 148 829 |
| `connection_outage` | does the state follow the exchange, is the recovery ever started, is an order sent twice only after a lost answer? | set-up thread, monitor, 2 traders, 2 attempts, thresholds 3 and 5 | 82 660 |
| `startup_reset` | what is forgotten, what has not come when the wait ends, is the wait ever needed twice, does trading start once there is money? | 2 assets of 2 units or none, free or tied up, 1 or 400 of money, orders that execute or rest in part, 2 starts, 2 checks of which 1 before expiry | 1 324 150 |
| `lifecycle_end` | does a requested shutdown end, is the state saved before the process is gone? | 2 signals, 2 failed heartbeats, all threads | 2 538 |
| `writer_safe` | with the dictionary changing under the dump, disk errors, crashes and threads outliving the stop: does the file only ever hold a state the dictionary was in, and does a report reach the disk? | 3 intents | 196 825 |

Why these bounds reach the interesting cases.

* `OrderRouter`. Three symbols with MAX_TRADES 2 are the fewest that let the limit bind
  while another symbol could still be bought; three intents buy, buy and meet the limit,
  or buy, sell and buy again. A budget of 5 with positions of 2 (drift 1) lets the
  third reservation fail for want of budget. One retry already gives an intent two
  orders, the first one executed, lost or half filled. A position size of 2 has a
  partial fill; `MaxPerSymbol` 3 makes the limit per symbol bind. `MaxPending` 1 makes
  every second buy evict the first, so the eviction of an intent whose fill was missed
  is reached in every run.
* `OrderSubmission`. Two ids per decision are the fewest for a second execution; two
  threads may hold the same one. Decisions share nothing in the store but the clock, so
  one is enough. Two ids also let a restart that lost the first one's entry, or its end, make the second.
* `LegacyExit`. Two positions let a signal of the first be worked on in the second, with its
  amount; the spare unit lets such a sale succeed. Two signals queued sell one position twice in
  a batch, and a third is there to be left for the next. Three orders are a protective order,
  its replacement and a sale, or an IOC order, its fallback and the other seller's. A buy of one
  unit is half filled when the position bought again is entered with what was left of the one
  before. The level between the switches does nothing in the code and is left out. The clock
  matters for no property of the run and stays at 0. With lost answers as well the instance has
  9 562 082 states, and the properties hold of it too.
* `BuySignal`. Two levels and a drop of one have a peak, a trigger and nothing between, which a clamp of 0
  allows (it only has to be smaller than the drop). Ages of 0 and 1 let an anchor or a
  snapshot be fresh, stale, or too old within three times; two runs of the program load
  what the first one saved. `BuyIsADrop` is proved for every value, so that the bounds
  only matter for `DropTriggers`.
* `MarketData`. The failures of one symbol do not touch another's, and the lock serialises
  a provider's calls, so one symbol suffices. Two readers, one of them foreign: a reader of the same
  provider is a second waiter, and the foreign one can own the fetch and hang. One retry and a threshold of two
  failures let a delay begin; time 2 lets it end.
* `Connection`. A third failure in a row is the first that would start the recovery; two
  testers and two traders, each with two attempts, can interleave their resets with it.
  `BackoffNeverStarts` is proved for any number.
* `Startup`. Two assets are the fewest for settlements that are confused with one another;
  a part of one unit is smaller than what can be sold. Money of 1 is less than the budget
  demanded, so trading needs the proceeds; of 400 it is a hundred times the proceeds, so that the tolerance of one
  percent swallows them. Two starts have a crash in one of them.
* `Lifecycle`. The first signal may hit any step of the main thread, its own request included;
  after it a shutdown is in progress and the handler changes nothing, as the second signal
  shows. Two failed heartbeats (three in the code) have one that is forgiven.
* `StateWriter`. Three intents let the dictionary lose one key and gain another between
  two steps of a dump, with one more that stays: the case in which equal size hides a
  change. Here the code is right only because `Change` is followed by `Update` before the
  next `Change`, and `Update` waits for the lock: one change at most falls into a
  dump, and one change always changes the size. The mutant `UpdateUnlocked` shows it.

Deadlock is checked in all runs but four, whose instances really stop: `submission_safe` when all
ids are used up, `lifecycle_end` when the process is gone or stuck, `startup_reset` when the program
trades or has left, and `signal_trigger` after the last run. `router_clean` and `router_reality` use
the symmetry of the symbols; none of their properties is temporal.

### 4.2 What does not hold

`router_reality` checks `PositionMatchesAccount` with orders that expire, and TLC finds a
behaviour of the code that violates it. `services/reconciler.py:6` promises that positions always reflect exchange
reality; after an expired, partly filled order and a retry only the last order is
published and reconciled, and the first one's trades are never fetched. `router_clean` shows what the property needs: with an exchange that
answers, without expired orders and without take-profit orders, positions, cash and
reservations agree with the account.

### 4.3 What else does not hold

Each of these was stated, and TLC found it violated; there is no run for it here. Those with a
name are definitions of the module, marked as such; to see the behaviour, add the name to
the configuration of the run.

| statement | promised by | what happens |
|---|---|---|
| `FillSettled` (`OrderRouter`) | `docs/INTENT_SYSTEM.md:121`: the fill handler pops the pending intent | a canceled, partly filled buy loses its metadata before its fill is published (`order_router.py:738`): the intent stays pending, `engine.positions` does not learn of it |
| `HeldMatchesPosition` (`OrderRouter`) | `core/portfolio/portfolio.py:1525`: `held_assets` is kept for compatibility | the whole position is added again on every fill that leaves it long |
| `PositionMatchesAccount` with take-profit orders | `services/reconciler.py:6` | the take-profit order placed after a buy executes; its trades are never fetched |
| an intent is executed once | `docs/ORDER_ROUTER_README.md:116` | all polls of a filled order fail, and the retry buys the whole quantity again |
| nothing stays reserved after an intent | `docs/ORDER_ROUTER_README.md:123` | an order fills, its trades cannot be fetched, `reconcile_order` returns at `reconciler.py:70`, and its reservation is neither committed nor released |
| `NoDuplicateExecution` (`OrderSubmission`) | `core/startup_reconcile.py:6`: no duplicate orders after a restart | an executed order is no longer among the open ones, its id is marked expired, and the decision executes again. A save or a load that fails before a crash does the same: the entry is gone, or its end is. `SecondExecutionExplained` shows that there is no third way, and `SubmissionNothingLapses` that the second needs such a failure |
| `TerminalIsFinal` without its exception (`OrderSubmission`) | `core/coid.py:101`, `is_terminal`: a final status | the save of the end fails (`coid.py:421`), and after a crash the id is pending again and is reused |
| `StopSaves` (`StateWriter`) | `core/state_writer.py:6`: clean persistence on shutdown | the trading thread outlives the five seconds of its join, and its last change is never written |
| `OneExitPerId` (`LegacyExit`) | `services/exits.py:304` looks for an order with the same id | the request id is made anew for every exit and the look at the exchange fails silently: two limit orders of one reason and one second carry the same id |
| `AnswerIsCurrent` (`MarketData`) | `services/market_data/coalescing.py`, `get_or_fetch`: only a fetch in progress is joined | a request is never forgotten, so the first answer or error of a single fetch is given to all later ones. `StaleIsFirstAnswer` shows that there is no other reason for an old price |
| `EmergencyEnds` (`Lifecycle`) | `shutdown_coordinator.py:492`, `_force_shutdown` | an emergency request stops no thread, and the threads that are no daemons keep the process alive |

Stated nowhere as a promise, or of no consequence for a decision:

* While a take-profit order rests, its base currency is not free at the exchange, and a
  router exit of the same position can only be refused.
* `portfolio.py:26` draws CLOSED as the end of a position's life; buying again leaves the
  state CLOSED with a quantity (`portfolio.py:1444`). PARTIAL_EXIT is never reached:
  `_is_reducing` (`portfolio.py:1554-1565`) wants both sides among the trades of one order.
* `engine.positions` is not reduced by exits that go through the router, so a symbol
  that was sold is not bought again before a restart (`BuyAllowed`).
* A write the disk refuses is logged and the dirty flag is cleared (`state_writer.py:131`), so it is
  not tried again before the next change: `FileFollows` and `UpdatesReachDisk` name the refused
  write as an exception.
* After trades were missed the per-symbol reservations can add up to more than the
  budget, since `reserved_budget` is clamped on its own. The other direction holds
  (`ReservationsAddUp`): the total is never more than what the symbols reserve, so the
  free budget never looks smaller than it is.
* `_recover_transient_state` (`engine.py:415`) never finds an intent to recover: the path of
  its file is new with every start (`config.py:48-53,70`).
* `order_service.py:46` says an unknown error is retried once; the loop retries it
  `max_retries` times.
* An entry reconciled to
  `unknown` (`coid.py:428`) is never reconciled again and its id is reused.
* `reconcile_pending_coids` has no caller but tests; the model uses it as its docstring
  says, before anything is submitted.
* An anchor reset to the price paid is undone by the next `compute_anchor`, whose base is at least the
  session high. A stale anchor is never reset below the session high, and every cycle makes
  it fresh again. An anchor older than `ANCHOR_STALE_MINUTES` and younger than
  `ANCHOR_MAX_AGE_HOURS` is loaded and reset by the first computation.
* `COOLDOWN_MIN` is never enforced: `set_cooldown` and `is_symbol_on_cooldown` have no caller.
  `buy_decision.py:240` hands `stabilizer.step` the condition in place of the symbol, which is
  harmless while `CONFIRM_TICKS` is 0.
* The interface's fallback feed overwrites the snapshot of one pair every 1.5 s with one
  without an anchor (`engine.py:1640-1647`).
* `wait_for_all_settlements` says it waits until all pending settlements have arrived (`utils.py:396`). It confirms
  them when the balance is within a hundredth of balance and proceeds together (line 421), so with
  ninety-nine times the proceeds in the account it confirms before anything has come; and it clears a
  settlement when half of what is awaited came (line 446). `ShortfallExplained` shows that there is no
  third way while nothing disturbs the start.
* `restore_exit_protections` never places an order: no price is ever remembered without its order
  (`LegacyNothingMissing`).
* `full_portfolio_reset` returns whether it succeeded, and nobody looks. `wait_for_all_settlements` ignores its
  `timeout` and always succeeds, for what has not come in 180 s is given up before the 240 s are over.
* The trading thread may die unnoticed: the heartbeat looks at `running` only. `main` that
  returns or raises during setup leaves the heartbeat logger and the state writers
  running. Telegram's `/stop` calls `engine.request_shutdown`, which does not exist.
* A signal between the look and the note of `request_shutdown` has two requests granted.

## 5. Fairness

* `OrderRouter!Fairness`: weak fairness of `HandleIntent`. The trading thread runs
  `handle_intent` to its end; every call it makes of the exchange has a time-out.
  Strong fairness of `StaleSweep`: the main loop sweeps when `cycle_start % 30 < 1.0`;
  we assume that some pass of the loop falls into this window again and again while no
  intent is in flight. Weak fairness would not do, as new intents keep disabling the
  sweep, and the code takes no note of a window that it missed. Nobody has to submit
  an intent, and the exchange owes nothing.
* `StateWriter!Fairness`: weak fairness of each step of a thread that can go on
  (`Update`, `Tick`, `Dump`, the steps of the stop). Nobody has to change an intent or
  to stop or restart the process.
* `MarketData!Fairness`: strong fairness of `Enter` for the provider the cyclers belong to, as a lock that is
  given back again and again is got in the end; weak fairness of the end of their fetches, which
  the client runs with a time-out, of their waits, and of the steps of a cycle. The other
  provider's fetch may hang for ever, and no reader has to read.
* `Connection!Fairness`: weak fairness of the two testers. The monitor is a loop with a
  sleep; calls end. The traders owe nothing, and neither does the exchange:
  `StateFollowsExchange` supposes one that has come, or gone, for good.
* `Startup!Fairness`: weak fairness of the main thread, and of a read of the budget that succeeds while
  the program waits for money: a balance that is never answered keeps it waiting.
* `BuySignal!Fairness`: weak fairness of each of the two threads while the process runs.
* `Lifecycle!Fairness`: weak fairness of the main thread, whose waits and joins have time-outs, and of
  each thread's look at its condition to end. A main thread that is stuck does not go on.
* `OrderSubmission` and `LegacyExit` have no liveness property: the repository promises none, and an
  exit may be refused for ever.

## 6. What is proved

The theorems are checked by TLAPS for every value of the constants that satisfies the assumption
of the module: any sets of symbols, threads, assets, decisions or intents, any budgets, limits,
times and bounds, and every subset of the faults. TLC evaluates the assumptions in every run.

| theorem | states |
|---|---|
| `ApplyFillsType` | booking any fills on a well-formed ledger gives a well-formed ledger, whatever was reserved or released before |
| `RouterTypes` | `Spec => []TypeOK`: no balance, reservation or counter ever becomes negative |
| `RouterConsistent` | `Spec => []Consistent` |
| `RouterTellsOnce` | `Spec => []ToldOnce` |
| `RouterAttemptsBounded` | `Spec => []AttemptsBounded` |
| `RouterImplementsContract` | `Spec => ImplementsContract` |
| `RouterFilledIsBacked` | `Spec => []FilledIsBacked`: what the router believes filled was executed, over all orders of the intent |
| `RouterReservationsAddUp` | `Spec => []ReservationsAddUp` |
| `RouterNeverShort` | `Spec => []NeverShort`: an exit never sells more of a position than the portfolio has |
| `RouterHandlingEnds` | `Spec => [][HandlingEnds]_vars`: every step of the thread brings `handle_intent` nearer to its end, at most `2 * MaxRetries + 4` steps away |
| `RouterPositionMatchesAccount`, `RouterLedgerSettled`, `RouterPositionLimit` | if `Answers`: `Spec => []PositionMatchesAccount`, `[]LedgerSettled`, `[]PositionLimit` |
| `SubmissionTypes` | `Spec => []TypeOK`, with failing saves and loads |
| `SubmissionOneAtATime` | `Spec => []OneAtATime`: one unfinished id of a decision, and one open order unless startup presumed the older one expired or a restart lost its entry or its end |
| `SubmissionExplained` | `Spec => []SecondExecutionExplained` |
| `SubmissionFinal` | `Spec => TerminalIsFinal`: only a restart takes an ended id back, to what the file says, and only if the file lacks the end |
| `SubmissionNothingLapses` | if `FilesWork`: `Spec => [](lapsed = {})`: where saves and loads work the exceptions of a lost id are empty |
| `WriterTypes`, `WriterFollows` | `WriterSpec => []WriterTypeOK`, `[]FileFollows` |
| `SignalTypes`, `SignalGrounded` | `Spec => []TypeOK`, `Spec => []Grounded` |
| `BuyFollowsDrop` | `Spec => BuyIsADrop` for every drop larger than the clamp |
| `TypeCorrect`, `RecoveryUnreachable`, `OneOrderPerAnswer` | `Spec => []TypeOK`, `[]BackoffNeverStarts`, `[]OrderTakenTwiceIsLost` |
| `LegacyTypes`, `LegacyOneProtection`, `LegacyIntentEnds` | `Spec => []TypeOK`, `[]OneProtection`, `[]IntentEndsWithSale` |
| `LegacyForgottenIsSold` | `Spec => ForgottenIsSold`, an action property |
| `LegacyHeldCovers` | `Spec => []HeldCovers`: while the pair has a position, `held_assets` covers it and every sale that waits to be booked, so the floor of `handle_exit_fill` is not met |
| `LegacyOneSeller`, `LegacyNothingMissing` | engine and caller never sell at once; no price is remembered without its order |
| `FeedTypes`, `FeedStale`, `FeedDelay` | `Spec => []TypeOK`, `[]StaleIsFirstAnswer`, `[]DelayIsDeserved` |
| `FeedKeepsRequests` | `Spec => [][RequestKept]_vars`: a request is never forgotten, and one that is over never changes |
| `FeedCycleEnds` | `Spec => [][FeedEnds]_vars`: whatever changes a cycle that has begun, or a worker's task that is not done, brings it nearer to its end |
| `StartupTypes`, `StartupForgets`, `StartupWaitsOnce`, `StartupShortfall` | `StartupSpec => []StartupTypeOK`, `[]ForgottenExplained`, `[]NoSecondWait`, `[]ShortfallExplained` |
| `StartupOutstanding` | `StartupSpec => []Outstanding`: the money that is due and what has been noted of it agree |
| `StartupEnds` | `StartupSpec => [][StartEnds]_startupVars`: the start gets to its look at the budget in at most `8 + WaitTicks + 6 * Cardinality(Asset)` steps of the main thread |
| `LifecycleTypes`, `EndsSaved` | `Spec => []TypeOK`, `[]EndedMeansSaved` |

Assumptions: `PortfolioAssumption`, `RouterAssumption`, `BuySignalAssumption`,
`ConnectionAssumption`, `LegacyAssumption`, `FeedAssumption`, `StartupAssumption`, `LifecycleAssumption` and those of
`OrderSubmission` and `StateWriter` say that amounts and times are natural numbers, that certain of them are positive, and
that enumerations have the values listed; symbols and assets are finite sets where amounts are summed over them. Four of them say more, and the configuration justifies them:
the clamp is smaller than the drop (0.5 % and 1.5 %); a settlement expires (180 s) before the
wait for it ends (8 times 30 s); three failures in a row are wanted before the recovery starts, and at least as many
for the breaker; the monitor is not the thread that sets the adapter up.

`SubmissionNothingLapses` has a hypothesis, `FilesWork`: no save and no load fails. Three theorems have the hypothesis `Answers`: no faults, IOC orders, and no take-profit order taken. That is the instance of
`router_clean` for any number of symbols and intents, any budget, limits, slip, drift and retries. It cannot be
left out: `router_reality` and section 4.3 have a counterexample for an expired order, a resting order, a lost answer,
trades that cannot be fetched, and a take-profit order.

### The arguments

`OrderRouter`. Neither `ToldOnce` nor `AttemptsBounded` is inductive: a state with a told
intent in flight, or with more orders than attempts, satisfies both and steps out of them.
The inductive invariant is `TypeOK /\ Consistent`, where `Consistent` has three parts:

* `Referential`: what names an intent or an order names one that exists, and the current
  order belongs to the current intent;
* `Serial`: the intent in flight is seen, and it is the only one seen whose outcome is
  not yet told;
* `Counted`: the attempts made bound the number of orders of the intent in flight from
  above, and `MaxRetries + 1` bounds that number for every intent.

Each part has a step lemma (`ReferentialStep`, `SerialStep`, `CountedStep`) with one case
per action; `TypeStep` is the lemma for the types and rests on the ledger lemmas.
`Counted` needs cardinalities of sets of orders: `OrdersOfAppend` says that sending an
order adds one to its intent's set and to no other, `OrdersOfKept` that exchange steps
change none. The account is well-formed when no symbol offers more than it owns; `ExecuteType`
and `PlaceTakeProfitType` show that every execution and every take-profit order keeps it so.
`ContractStep` maps each action to a step of `IntentContract` or a stutter:
`ReserveBudget` is `Begin`, `RefuseIntent` is `Refuse`, an accepted order is `SendOrder`
(also one whose answer was lost), the publications are `Fill` and `Fail`.

The ledger needs more. `FillsBounded` says that an order has executed no more than it is for, and that is no
more than the intent wants; `Backed`, that what the router has counted, with what the order it waits for has executed, is
at most what all orders of the intent executed. `Sound` says that the total reserved is at most the sum over
symbols, that each symbol keeps its limit, and that the intent in flight was checked against
the ledger as it is now. Each function of `Portfolio` keeps the sum: it takes from a symbol at least what it
takes from the total, or adds the same to both, and a clamp only helps. If `Answers`, the invariant is `Clean`: at each
program point, how the ledger differs from the account (`Matches` between intents, `OnlyReserved` while one is in flight,
`WillMatch` once an order is answered and not yet booked), and that a buy in flight was let through with fewer than `MAX_TRADES` assets.

Sums are folds (`SumFunctionOnSet`), which the provers cannot unfold: a fold over a set chooses an element and goes on with
the rest. `SumTheorems` proves that this recursion has one solution, by an induction over the subsets of a finite set. The
library's induction theorems take an operator and cannot be used; `SubsetInduction` speaks of the set of the subsets that are
good, and rests on a set of subsets having a minimal member. What follows is
what one change of the summand does to the sum, that a sum is zero only if all are, and that no summand exceeds the sum.

`OrderSubmission`. An unfinished id is the youngest of its decision; every older one that was
used is settled, that is told of and no longer open, or presumed by a reconciliation; the id of an
answered call is unfinished and no other answered call holds it. Ids that a restart has lost are
excepted (`lapsed`). Of the file, which may lag, it is enough that it has at most one unfinished id
of a decision, and that an end it has is the one the store has (`FileSound`). These, with what a
call may hold and which requests can still arrive, are the inductive invariant. A second execution
needs a second id, which is only made when the first one has ended; ended means answered or
presumed, or lost by a restart. Where files work, the file is always the store (`Current`), and
nothing is lost.

`StateWriter`. What a dump has collected is what the dictionary was when it started, except for
one change that may have fallen into it, and then the size differs (`DumpSound`, with lemmas on
cardinalities); the writer remembers every report it has not written (`Remembered`); and if
nothing is dirty the file holds the dictionary (`CleanIsSaved`).

`LegacyExit`. `handle_router_fill` adds the whole position to what is held and a sale takes away what it sold, so that while
a position is there, held covers it; queued amounts, jobs and results are of no more than was ever bought (`Covered`). Whether the registry holds the pair says whether one of the threads sells it, and never both do
(`Exclusive`), so that results waiting to be booked are of orders that exist and, if a success, sold everything (`Waiting`). All that carries the number of
the position of the day carries its quantity (`Sized`): then an order that sold all of its quantity sold all of the
position, or is of an earlier one. `OneProtection` holds because the bot still remembers every resting order of the position but those in doubt
(`Remembered`); that includes that nothing is ever missing, as `restore_exit_protections` would place a second order beside the first.

`MarketData`. The holder of a provider's lock is the only one of it in `get_or_fetch`; so the waiters of a request are its
fetcher, who never takes himself off, and at most one thread of each provider (`WaitersCounted`). The count therefore
never comes down to zero, the request is kept, and every later answer is the first one (`IsFirst`), wherever it has been carried since:
cache, worker, reader, cycle. Failures counted are exactly the failures in a row (`FailuresCounted`).

`BuySignal`. `Grounded` is inductive with the types: session high, session start, whatever a
thread carries and the anchor published are bounded by a price that was observed, plus the
clamp. Clamping from below is by the session start, which is itself such a price, so that
neither an anchor of an earlier run nor a lost update of the session high can raise a bound.

`Connection`. Every tester whose failure the counter still holds is in `counted`, and a tester that tests
again has been reconnected by its own call, which empties it. So failures never exceed the
number of testers, which is two, and the threshold is larger.

`Startup`. Outside the wait nothing is pending (`NoSecondWait`); an asset the reset is through with is forgotten,
sold or excused (`Progress`); the asset at hand, unless excused, has nothing locked and no more free than the
amount about to be sold (`AtHand`). An amount below the minimum is an excuse, a failed call too. For the shortfall: while
assets are sold, what is under way is what is pending and what was announced (`AllNoted`); during the wait,
the money there and under way together (`Due`) does not change, and the balance last verified with what is still pending
is not below it (`Counted`). So a confirmation leaves a hundredth at most, and whatever is cleared otherwise was half of what was awaited and came.

`Lifecycle`. The threads of the writers run from the construction of the engine until the writers are shut
down, all threads are awaited, and the order of clean-up, stop and save is that of the program points; so a process that is gone after a
clean-up has saved. `Forgiven`, `Noted` and `Ordered` carry the counter of heartbeats and the request through the
steps between.

Ends. Of three liveness properties the part that needs no fairness is proved: a natural number that every step of the
thread makes smaller and that nothing else changes or, for the feed, makes larger. `StepsLeft` counts what is left
of the attempts of an intent, two steps each (part of `EveryIntentTold`); `StartLeft` the assets still to sell, up to six steps each,
and the polls of the wait (part of `StartsWhenFunded`); `CycleLeft` and `TaskLeft` the symbols a cycle has still to ask for and the
retries of a worker, three steps each (part of `CycleEnds`; at most `2 + 2 * Cardinality(Sym)` and `3 * MaxRetries + 3`, lemma `LeftBounds`).
What fairness adds, and TLC checks, is that those steps are taken: that no thread waits for ever.

### Only model-checked

The liveness properties `EveryIntentTold`, `PendingCleared`, `UpdatesReachDisk`, `OrderlyEnds`, `CycleEnds`,
`StartsWhenFunded`, `DropTriggers` and `StateFollowsExchange`: fairness and ENABLED are out of the prover's reach.
How far three of them reach without fairness is proved (`RouterHandlingEnds`, `FeedCycleEnds`, `StartupEnds`).
All invariants and action properties of the runs that pass are proved.

## 7. What is not modelled, and why

* **FSM engine**: switched off by the configuration (`FSM_MODE = "legacy"`), and it cannot run as it is: every call of
  `_process_symbol` raises a TypeError, its recovery imports a module that does not exist, and its
  documents name other phases than its code. A model would be of the documents.
* **Order FSM, buy and sell services, order and trade caches, ring buffer, rollup, symbol lock
  clean-up (`locks.py:57`), the writer's `set`/`remove`/`flush`**: without callers outside tests and
  examples. Where a lock is taken, the models treat it as one.
* **Idempotency store**: the legacy exits ask it for ids that are new each time, so its answer is always that
  it knows nothing; `LegacyExit` uses that.
* **Both exit paths at once** (`engine.py:850`): in one cycle the legacy handler and the
  exit engine may both sell a position, under registries that do not know of each other. `LegacyExit` and `OrderRouter` are not
  composed; their product is beyond what TLC can do at the bounds that matter.
* **Market guards, stabilizer, sizing details, ML veto**: switched off, or arithmetic that decides
  whether and when to trade. The order flow takes the decision as a free choice.
* **Candles, order books, token buckets, `RobustMarketData`**: a token bucket is one more way for a
  fetch to fail.
* **Recovery thread and circuit breaker**: unreachable (section 3.8).
* **Backup of the state file**: read when the state file cannot be parsed; the file is
  replaced atomically, so a crash of the process does not tear it.
* **Double-entry ledger and P&L, memory manager**: bookkeeping that no decision depends on.
* **Router TTL clean-up, metadata file, counters**: `_cleanup_old_orders` bounds the
  memory of an idle router and does not change what a live intent does.
* **Logging, telemetry, user interface, Telegram, tools, configuration**: no trading state.

The models stand for about an eighth of the implementation's lines. The rest is what this
list names: configuration, logging, output and code that nothing calls make up most of the
repository; more of it could be written down, and nothing about trading could be learnt from it.

## 8. Plan

Done: ledger, order flow and its contract, submission, legacy exits, signal, market data, connection,
start, end and persistence; theorems about all of them, for every safety property that is checked.

Next, in this order:

1. `LegacyExit` composed with `OrderRouter` for one position, with both reduced to the
   steps that sell.
2. The steps on which the other liveness properties rest, as lemmas without fairness, as it is done for the
   handling of an intent, the start and a cycle of the feed: what a step of the sweep and of the shutdown decreases.
