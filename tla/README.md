# A verification project for the Stock-System backend

TLA+ models, TLC configurations and TLAPS proofs for the backend of this repository. Paths are
relative to the repository's root; `pool` is `backend/fubon_realtime_pool.py`, `provider` is
`backend/fubon_provider.py`, and `pool:1266` is a line of it.

- [1. The system](#1-the-system): components, state, operations, interaction, what is hard
- [2. Plan](#2-plan): modules, order, runs, theorems; what exists and what comes next
- [3. The modules](#3-the-modules): how state and actions correspond to the code
- [4. The runs](#4-the-runs): what is checked, with which bounds and which fairness
- [5. The proofs](#5-the-proofs): what holds for every value of the constants, and why
- [6. Findings](#6-findings): where the code and its documents disagree
- [7. What is not covered](#7-what-is-not-covered)

## 1. The system

A FastAPI process (Python 3.12) receives Taiwanese stock and futures ticks over websockets of
several Fubon Neo accounts, keeps the latest quotes in memory, writes them to MySQL in the
background, pushes them to browsers, records candles, runs paper-trading bots and serves backtests
and reports to a Vue front end. On Windows a separate supervisor process restarts it.

Almost all concurrency is asyncio: a coroutine runs alone from one `await` to the next, so an
interleaving can only happen at an await. Real threads appear at three borders: the SDK's websocket
callbacks (they post to the loop or take the manager's locks), logins and blocking database calls
(`asyncio.to_thread`), and the executors of backtests. The order of startup and shutdown is
`lifespan` in `backend/main.py:612-655`.

### 1.1 Components

| Component | State it keeps | Operations | Talks to |
|---|---|---|---|
| **Subscription pool, assignments** (`pool`) | `_source_tickers`, `_assignments`, `_physical_subscriptions` (reference counts), `_resolved_to_requested` (aliases), `_assignment_lock`, `_pending_tasks` | `track_ticker`, `untrack_ticker`, `set_source_tickers`, `ensure_source_tickers`, `_ensure_assignment`, `_remove_assignment`, `_rebalance_assignments` | SDK sessions (subscribe), websocket manager (hooks), bots and recorder (sources) |
| **Subscription pool, recovery** (`pool`) | `_reconnect_tasks`, `_account_recovery` (backoff, configuration block), `_reload_lock`, `_orphan_recovery_last_attempt` | `reconnect_account`, `reload_from_db`, `_recover_manager_notification`, `refresh_session_assignments` (watchdog) | SDK sessions (shutdown, login), account table, scheduler |
| **SDK session** (`provider`) | `connected`, SDK and websockets with a generation, `_subscriptions`, pending acks, `_ws_state` per market, `_ws_recovery_pending` | `init_from_db`, `_init_with_account`, `shutdown`, `subscribe_*_async`, `unsubscribe_*`, callbacks `_handle_ws_*`, `ensure_marketdata_ready` (REST) | Fubon SDK, pool (recovery handler) |
| **Quote buffer** (`realtime_quote_persistence.py`) | `_pending` (ordered), `_event`, `_closing`, worker | `enqueue`, `flush_once`, `_run`, `shutdown` | `upsert_market_quote` in `repositories/market_data.py` |
| **Workload executor** (`workload_executor.py`) | semaphore, `_executor`, `_active` | `run`, `startup`, `shutdown` | backtest and screener routes |
| **TTL cache** (`cache.py`) | `_entries` (ordered), `_inflight` | `get_or_load`, `invalidate` | read-only API routes |
| **Websocket manager** (`ws_manager.py`) | connections, subscriptions, hooks | `connect`, `subscribe`, `broadcast`, `disconnect` | pool (first/last subscriber hooks), browsers |
| **Listener and bridge** (`scheduler.py:783-907`) | listener queues, watchdog clock | route a tick to its aliases, broadcast, call the watchdog every 30 s | pool, buffer, websocket manager, bots |
| **Clock loops** (`scheduler.py`) | the next run, the open window, the outage episode | daily syncs, the window of the Taiwan history sync, the maintenance restart | every service they call, supervisor markers |
| **Quote refresh** (`quote_refresh_service.py`) | in-flight tasks, per-ticker and provider-wide backoff | `get_for_api`, `refresh`, `refresh_due` | quote providers, table of quotes |
| **Futures history, candle recorder** (`futopt_history_service.py`) | refresh tasks by key, bounded candle queue, worker | `begin`, `backfill`, `start_ws`, `stop_ws`, `_consume` | SDK, pool (source), database |
| **Paper trading** (`paper_trading/`, `routers/paper_trading.py`) | position, cash, pending orders, cooldowns, daily loss; active bots and their rows | `process_candle`: fills, flatten, strategy, risk, orders; start, stop, delete, autostart | candles, database, pool |
| **Backtest engine** (`backtest_engine.py`) | none between runs | signals, entries, exits, curve, summary | workload executor |
| **Service supervisor** (`service_supervisor.py`) | child process, crash window, backoff, marker files | start, health probe, restart, stop | the backend process, operators |
| **Backups, storage maintenance** (`mysql_backup.py`, `storage_maintenance.py`) | dumps with SHA-256 manifests, archives, daily summaries | back up, verify, prune, restore drill, archive, clean up | MySQL, scheduler, command line |
| **Migrations** (`database/migrations.py`, `database/core.py`) | `schema_migrations` with checksums | plan, apply, record | MySQL |
| **Asset ledger** (`asset_tracking_service.py`, `asset_use_cases/`) | ledger entries, holdings, import batches | book, import CSV, roll back, value | database, FX rates |
| **Alerts** (`alert_engine.py`) | rules, baselines, last trigger, notifications | `evaluate_active_alerts`, the alert routes | quotes, notifications |
| **Share history** (`taiwan_history_backfill_service.py`) | universe, bars, sync status of each share | `sync_universe`, `sync_history` | provider, scheduler, routes |
| Adapters, intelligence, reports, metrics, HTTP wiring, front end | none that several actors change together | fetch, parse, score, format, validate | everything above |

Every component in bold has a module. `PROJECT.json` lists them with their files, status and the reason for
what is left out.

### 1.2 What is hard in it, and what makes each component correct

*Subscription pool.* Every subscribe sequence awaits websocket starts and acknowledgements while
other coroutines track, untrack, roll contracts over and rebuild accounts; tasks are cancelled in
the middle; late acknowledgements come after a time-out. Correct means: the three tables agree at
every await, one ticker's end never silences another that shares its contract, a ticker nobody
wants is let go, a wanted one ends up on its current contract, and what the pool believes to be
subscribed is subscribed.

*Account recovery.* A websocket failure, the watchdog, an operator and a configuration reload all
ask for the same login. Requests are joined, deferred by a backoff, or hidden from one another by
recovery markers. Correct means: no two rebuilds at once, no marker without somebody who will
remove it, no websocket missing from a session that claims tickers, and an end to every outage
once the world behaves.

*Quote buffer.* Part of a batch fails while newer quotes of the same tickers arrive, writes may be
done although they raised, and shutdown meets a flush. Correct means: accepted quotes reach the
table or are counted as dropped, and the table never goes back in time.

*Workload executor.* A request may be given up while its work goes on. Correct means: slots follow
the work and not the request, and none is lost, doubled or idle.

*TTL cache.* A load is shared by callers that may all be cancelled. Correct means: no load is
awaited by nobody, and data older than an invalidation is not served after it.

*Live quotes.* A broadcast awaits one socket after another while browsers come, go and change what they
watch, and a failed send removes a browser in the middle. Correct means: tables, hooks and pool agree on who
watches what, and a browser never sees a ticker go back in time because of the listener.

*Quote and history refreshes.* Flights are shared and can be cancelled by any of those who wait; rate limits
arrive while other flights wait for a slot; a finished task reports after its successor has begun. Correct
means: one flight per key, respected backoffs, an outcome that is the newest one's.

*Candle recorder.* SDK threads post candles while the recorder starts, stops or drains. Correct means:
every candle has a fate that can be named, and an open session is recorded.

*Paper trading.* A bar fills orders decided on an earlier bar, against a position that the forced close or a
stop may have changed in between. Correct means: cash is explained by the fills, orders suit the position,
the strategy knows the position it has. Around it, start, stop, delete, autostart and shutdown overlap;
correct means that every running bot has its row and is reachable.

*Backtest.* Correct means: no decision uses a price that was not known, and more data changes nothing that
was reported before.

*Supervisor.* Two processes talk through files that either may remove, and judge a backend that takes its
time to shut down by its port. Correct means: no backend is left to itself, stop and restart orders are neither
lost nor obeyed twice, the breaker ends crash loops.

*Backups and maintenance.* The loop, the command line and a crash meet on the same files and rows. Correct
means: the newest backup survives, nothing leaves a table that is not kept elsewhere.

*Migrations.* MySQL commits every statement of a schema on its own. Correct means: a crash or a
race leaves a database from which the next run gets to the end.

*Asset ledger.* Late bookings change the past; a trade and its cash legs are written in several
transactions, and the legs can be edited by hand beside it. Correct means: positions follow from the ledger, legs
from the trade, and importing a file twice changes nothing.

*Alerts.* The evaluator reads, awaits and writes back rows that a user edits. Correct means: what fires is
told once, and what the user asked last is what counts.

*Clock loops and share history.* Loops wake early, runs last too long, snapshots are of the day before, a run
dies between a delete and an insert. Correct means: every time and window is served, on its day, and a run
without trouble repairs what earlier ones have left.

The `hazards` of `PROJECT.json` are the foremost of these behaviours at the lines where they bite, with the
properties that cover them.

## 2. Plan

| # | Module | Subject | State of the plan |
|---|---|---|---|
| 1 | `SubscriptionPool` (+ `_proofs`) | assignments, counts, aliases, lock, cancellations over SDK sessions | done, proved: types, lock, counts, aliases, no orphan at rest, channels kept while sessions last |
| 2 | `QuotePersistence` (+ `_proofs`) | buffer, worker, upsert, shutdown | done, proved: types, nothing lost, no regression |
| 3 | `WorkerCap` ⊒ `BoundedWorkload` (+ `Backend_proofs`) | abstract worker cap, and the executor that implements it | done, proved: slots, count, refinement |
| 4 | `TTLCache` (+ `_proofs`) | single flight, expiry, invalidation | done, proved: bound, awaited loads, freshness |
| 5 | `AccountRecovery` (+ `_proofs`) | notifications, rebuilds, reload, watchdog | done, proved: types, markers backed, single flight, assigned tickers served |
| 6 | `LiveQuotes` (+ `MarketData_proofs`) | websocket manager, endpoint, listener, poller | done, proved: tables and hooks, order of messages |
| 7 | `QuoteRefresh`, `FutoptRefresh` (+ `Services_proofs`) | flights without a shield, two backoffs; the refresh coordinator | done, proved: single flights, slots, backoffs; work listed, outcomes |
| 8 | `FutoptRecorder` (+ `MarketData_proofs`) | bounded queue, drop-oldest, drain on stop | done, proved: fate of every candle, count, handler |
| 9 | `PaperTrading` (+ `Records_proofs`), `BotRuntime` (+ `Backend_proofs`) | account, broker, risk and strategy on a stream of bars; the life of the bots | done, proved: books, orders, strategy, forced closes, limits; instances, handlers, rows, fills |
| 10 | `Supervisor` (+ `Backend_proofs`) | breaker, backoff, markers, stop command | done, proved: nothing left behind, breaker, files, restarts, stop |
| 11 | `Backups`, `ChipArchive` (+ `Services_proofs`), `SyncLog` (+ `Records_proofs`) | pruning and drills with crashes; archive and clean-up; log retention | done, proved: newest backup, drills; payloads readable; what is deleted is summarised |
| 12 | `Migrations` (+ `Records_proofs`) | versioned plans of different releases, with crashes | done, proved: recorded versions are there, in order; only races fail |
| 13 | `AssetPositions`, `AssetLedger` (+ `Records_proofs`) | what follows from a ledger; trades, legs and imports under concurrent requests | done, ledger proved: legs, keys, batches; positions model-checked |
| 14 | `Alerts` (+ `Services_proofs`) | evaluate, await, record | done, proved: once per arming, told, changes kept, baseline |
| 15 | `Backtest` | entries, exits, curve, drawdown | done, model-checked |
| 16 | `Schedules`, `HistoryBackfill` (+ `Services_proofs`) | loops that keep to the clock; the bars of all shares | done, proved: clean runs repair, bars stay; times and windows served, restarts justified |
| 17 | `FubonSession` | generations, two-phase initialisation with concurrent callers, REST re-login | left |
| 18 | `Lifecycle` | startup and shutdown of `main.py:612-655` over the components | left |

The order is by what an error costs and how badly a test would find it: the pool and its recovery
decide whether any data arrive at all, the buffer whether they are kept. Modules compose through
their abstractions: `AccountRecovery` takes from `SubscriptionPool` only that a ticker is placed on
one of the open sessions or on none; `SubscriptionPool` takes from `AccountRecovery` only that the
holder of `_reload_lock` logs accounts in one after another and then rebalances; `LiveQuotes` and
`FutoptRecorder` take from the pool that a source's tickers are tracked and that a subscription
succeeds or not; `BotRuntime` takes from `PaperTrading` that fills are kept in the instance until
they are stored; `Supervisor` answers the marker that `Schedules` decides to write.

The theorem worth proving next: `BooksBalance` of `AssetPositions`, where induction over the ledger can be had.

## 3. The modules

Conventions. An action is the code a coroutine runs from one `await` to the next, a callback that
arrives from an SDK thread, or a whole call that never awaits. A variable is named after the field
it stands for, with the field's name in its comment; `PROJECT.json` maps each definition to its
lines. `pc` of a process record is the await the coroutine is suspended in, the other fields are
the locals it still needs. Definitions marked `mutant` in a comment are not part of the model: they
are the plausible bugs against which the properties are tested.

### 3.1 SubscriptionPool

Processes: the task `_pending_tasks[t]` of each ticker `t`; `Consumers`, coroutines that await
`ensure_source_tickers`; `Watchdogs`, the assignment loops of `refresh_session_assignments`; and
`Rebuilder`, whoever holds `_reload_lock`.

| State | Code |
|---|---|
| `source`, `assign`, `phys`, `aliases` | `_source_tickers`, `_assignments`, `_physical_subscriptions`, `_resolved_to_requested` |
| `holder`, `waiting` | `_assignment_lock`, an `asyncio.Lock` that is handed over first come first served |
| `resolve` | what the contract lookup would answer now; `Roll` changes it |
| `session`, `sdk`, `late` | phase, mode and websocket of a session; `_subscriptions`; requests given up that the server may still acknowledge |
| `rebuild` | progress of `reconnect_account` or `reload_from_db` |

| Actions | Code |
|---|---|
| `TrackTicker`, `UntrackTicker`, `SetSourceTickers`, `EnsureSourceTickers` | the public methods, with the cancellation `_schedule_task` makes (`ScheduleTasks`, `Leave`) |
| `RefreshTickerAssignment`, `ResolveTarget`, `ChooseManagers`, `StartWs`, `SubscribeTarget`, `NextChannel`, `AckSubscribe`, `FailSubscribe` | `_ensure_assignment` and `_subscribe_target_on_manager` with `_subscribe_async` underneath, one action per await |
| `RemoveAssignment` | `_remove_assignment` with `_remove_assignment_locked` |
| `LateAck`, `Disconnect`, `InvalidateSession` | the SDK's callbacks |
| `RestReinitialize`, `RestLogin` | `ensure_marketdata_ready` called by a REST request |
| `StartRebuild`, `BeginLogin`, `EndLogin`, `RebalanceAssignments`, `LoopTurn` | a rebuild or reload: shut down, log in, then remove and ensure every ticker |

Choices. Cancellation takes effect at once, at the await where the task is suspended (asyncio does
it at the next turn of the loop, before anything else can run for that task). A login takes long
compared to a turn of the loop, so a coroutine that was ready when it began has run when it ends
(guard of `EndLogin`). A websocket start whose coroutine was cancelled is not followed further.
Ranking of accounts is complete (`CandidateRank`): health, mode preference, an existing
subscription, load, primary account, id. A session serves one market; a contract stands for
`(symbol, after_hours)`. The opening quote of a rolling contract, the shortage notification,
account removal and `shutdown_async` are left out.

### 3.2 AccountRecovery

Processes: slots for `_recover_manager_notification` tasks (`Notes`), the watchdog (`Dog`), an
operator's request (`User`), one rebuild per account (`task`), and `reload_from_db` (`reload`).

| State | Code |
|---|---|
| `up`, `ws`, `chan` | `connected`; the websockets of the current SDK session; `_ws_state`, which survives `_reset_runtime_state` |
| `handler`, `pending` | whether the owner callback is attached; `_ws_recovery_pending` |
| `serve` | the account a channel's ticker is assigned to |
| `rec` | `_account_recovery`: `ready`, `backoff` (a time), `blocked` (a configuration error) |
| `task`, `lockq`, `proc` | `_reconnect_tasks`; holder and queue of `_reload_lock`; who awaits which rebuild |
| `dog`, `cooling` | the watchdog's position and the rest of the list it iterates over; `_orphan_recovery_last_attempt` |

| Actions | Code |
|---|---|
| `ChannelFails`, `InvalidateSession`, `Message` | `_handle_ws_disconnect`, `_handle_ws_error`, `_dispatch_ws_message`, with `_request_ws_recovery` |
| `RecoverNotification`, `NotificationReturns` | `_recover_manager_notification`, before and after its await |
| `ManualReconnect`, `ManualReturns` | `reconnect_account` from the API |
| `BeginRebuild`, `EndLogin`, `StatusNotStored`, `RebalanceAfterLogin` | `_reconnect_account_once`, with its exceptions |
| `RequestReload`, `BeginReload`, `ReloadLogin`, `RebalanceAfterReload` | `reload_from_db` |
| `RefreshSessions`, `RefreshRolling`, `AssignMissing`, `RecoverMissing`, `RefreshOver`, `WatchdogReturns` | the four loops of `refresh_session_assignments` |
| `BackoffOver`, `CooldownOver` | time |

Choices. A channel (`stock`, `futopt`) carries one ticker; placing it is one step, `Assign`, whose
outcome is any open session or none (section 3.1 has the detail). Backoff lengths are abstracted to
"not yet" and "over". Database queries and logins take long: they end only when no coroutine is
ready to run (`InputOutputOver`). The task's owner registered its callback before any joiner did,
so it resumes first and records the outcome (`Returns`). The SDK callback's generation check and
its effect are one step. Replacement of a manager, disabling an account, a cancelled owner and the
shutdown are left out.

### 3.3 QuotePersistence

| State | Code |
|---|---|
| `order`, `pending` | `_pending`, an ordered dictionary: its key order and its payloads |
| `worker`, `batch`, `failed`, `taken` | the await of `_run`; the locals of `flush_once` |
| `event`, `closing`, `shut` | `_event`, `_closing`, progress of `shutdown()` |
| `db` | `market_quotes_latest` |
| `truth`, `lost` | history: the merge of everything accepted; tickers of which a quote was dropped or abandoned |

`Enqueue` is the method with its eviction; `WakeUp`, `SleepOver`, `PersistOk`, `PersistFails` are the
worker, the last two with the requeue that ends a flush; `Shutdown`, `ShutdownReturns`,
`ShutdownTimesOut` are `shutdown()`. `Merge` is `merge_quote_updates`, `Upsert` the same rule in the
SQL of `upsert_market_quote`. A quote is reduced to its event time, a field that follows the newest
quote (`last`) and a session extremum (`high`; `low` is its mirror image). The buffer's lock guards
sections without an await, so it is never contended and does not appear. Metrics are left out.
Every quote has an event time; quotes without one are ordered by arrival, which is the same rule.

### 3.4 BoundedWorkload and WorkerCap

`WorkerCap` says what is promised: a set of running calls that never exceeds the cap.
`BoundedWorkload` is `run()`, `startup()` and `shutdown()` over a model of `asyncio.Semaphore` as
Python 3.12 implements it (`Locked`, `ShareOut`, `ReleaseSlot`; marked external): a newcomer queues
behind a woken waiter, a cancelled waiter that was already woken passes its slot on. A call is `idle`,
`waiting`, `granted` (woken, not yet run), `running` or `left` (gave up while its work goes on).
`shutdown()` starts a second generation of executor and semaphore; calls of the first keep the
semaphore they captured and hand their work to `_executor` as it is then, or to the loop's default
executor (`host = 0`). An idle call has no
generation or executor of its own (`Forgets`). The refinement mapping is `running <- Working(1)`: the calls working in the
executor of the lifespan.

### 3.5 TTLCache

`entries` is the ordered dictionary with its expiry reduced to "still fresh", `inflight` the shared
loads, `task` the loader tasks, `awaits` the callers. `Hit` and `Miss` are `get_or_load` up to its
await, `Loaded` and `Raised` from the await on (failure or cancellation), `Invalidate` and `Clear`
are the methods of those names. A loader reads the data (`LoaderReads`) some time before it ends
(`LoaderEnds`); `Write` changes the data; `floor` is a history variable, the version at the last
invalidation that met no load in flight. A cancelled caller removes the load it awaited from
`_inflight` although the shielded load runs on: the next caller starts a second load, against the
"collapse concurrent misses" of the class docstring but harmless, which is what
`FreshAfterInvalidate` shows.

### 3.6 LiveQuotes

| State | Code |
|---|---|
| `watches`, `watchers` | `_clients` and `_ticker_subs` of the websocket manager |
| `endpoint` | where the coroutine of each socket stands (`routers/system.py`) |
| `tracked` | what the hooks keep in the pool under the source `ws` (`providers.py`) |
| `queue`, `handling`, `caster` | the listener's queue, its registration with the pool, and what listener and poller are sending |
| `asked`, `seen` | history: what each browser asked for, the newest message it got |

`Connect`, `Subscribe`, `Unsubscribe`, `Garbled`, `Notices` are the endpoint; `BrowserLeaves` is the
manager's method, which the endpoint's end and a failed send both call. `Ingress`, `Take`, `Stores`,
`Send`, `Sent` are `fubon_ws_listener_loop` with `broadcast_quote`; `PollRound`, `Fetched`,
`NextTicker` the polling loop. A broadcast sends to the sockets that watched when it began, one
await each. A send has no time-out in the code, so one stalled browser holds up the listener:
nothing here is live, and no liveness is claimed.

### 3.7 QuoteRefresh and FutoptRefresh

`QuoteRefresh` has a clock, because its two backoffs are compared with it: `quote` is the refresh
state of a ticker, `provider` the backoff of the provider, `flight` and `flights` the tasks and the
one in flight for each ticker, `call` whoever awaits one (requests and the children of the scan).
`Refresh` is the method up to its await, `FlightBegins`, `GetsSlot`, `Succeeds`, `Fails`, `Broadcasts`
are the task, `Returns` and `Cancel` the await. A cancelled caller cancels the flight, since nothing
shields it. `warned` remembers the flights that were under way when a rate limit was answered: the
backoff is looked at before the semaphore, so those still reach the provider.

`FutoptRefresh` is the coordinator (`work`, `listed`, `outcome`, `stage`) and the reads that begin or
join a refresh. A task that is done reports by a callback that runs later (`reports`, `Finish`), and
a new refresh of the same key may begin in between; `OwnEntry` is the comparison that keeps the late
report from removing the newer task.

### 3.8 FutoptRecorder

| State | Code |
|---|---|
| `recorder` | `_active`, `_handler_registered`, `_source_registered`, `_subscribed`, `_queue` |
| `loop`, `consumer` | the await of `run()` and of `_consume` |
| `callbacks`, `queue`, `unfinished` | candles posted from the SDK's thread; the bounded queue; its count for `join()` |
| `ready`, `held`, `handlers` | what the pool answers and keeps for the recorder |
| `fate`, `late` | history: what became of each candle; the ones that came without a handler |

`Poll`, `StartBegins`, `StartEnds`, `Check`, `Renew` are the loop; `Finally`, `Released`, `Drained`,
`Stops` are `stop_ws`; `PutCandle` drops the oldest candle when the queue is full and counts it off.
An exception of the start ends the task for good, which `Raises` keeps.

### 3.9 PaperTrading and BotRuntime

`PaperTrading` is one run: `Bar(open, close)` is `process_candle` as a whole: matching of the pending
orders, the account's mark, the forced close, the strategy's decision, the risk engine's permission
and the new orders. `PartialBar` is a candle that is not finished, `ReplayEnd` the last close of a
replay. Prices, fees and margins are whole units; the average price is kept as the position's total
cost, so nothing is rounded away; the clock counts the minutes to the close. Indicators are left
out: the strategy may give any signal its engine can give for the position it was told of
(`believed`, from `set_position_info`).

`BotRuntime` is what surrounds it: rows, the table of active bots, instances and their handlers.
`StartBegins` … `StartFails` and `BotStopBegins` … `StopFails` are the handlers between their awaits,
`AutoWakes` … `AutoAttemptEnds` the autostart task, `LosesMemory`, `Boot` and `Down` the process. Two
history variables keep apart what the code does not promise: `raced`, bots whose requests
overlapped, and `halfStopped`, bots whose stop failed after the instance was stopped.

### 3.10 Supervisor

`sup` is `run()` with its crash window, `child` the processes, `marks` the stop, restart and breaker
files, `stateFile` the state file, `stopper` the stop command. A backend is starting, serving, hung,
closing or dead: one that shuts down, by itself or on the CTRL_BREAK of its supervisor, lets the port go
(`Closes`) before its process ends (`Exits`), and a supervisor's preflight and the stop command, which see the
port only, may act in between.

`RunBegins`, `Spawn`, `Watch`, `Ends`, `Forces`, `PlannedRestart`, `PlannedStop`, `Crashed`, `WaitBackoff` are
the supervisor. `Ends` and `Forces` are the two ways out of `_terminate_started_process`: the backend ended and
the port is free, or the ten seconds are over and whoever listens is killed with `taskkill` and the backend
with `kill`. The code looks at the success of neither; a backend that is still there goes into the history
variable `unkilled`. `Interrupted` is a keyboard interrupt: a planned stop while a backend is watched or
terminated, and the end of a run that has none. `RequestRestart`, `StopBegins`, `StopMarks` are the commands;
the stop ends with `StopSees`, when the port is free, or `StopForces`, where a kill that fails while somebody
listens is refused and leaves the marker. Nothing keeps a second supervisor from being run while the port is
free, so the model has two. `scenario` is chosen at the start and says how many runs, backends, stops,
restarts and ticks a behaviour may have and whether kills may fail and runs be interrupted. Unready is whoever
gets no answer to the readiness probe, and another supervisor's backend answers it as well as one's own
(`Ready`).

### 3.11 Backups, ChipArchive, SyncLog

`Backups` has one action per file operation or MySQL call of `create_backup` (`Begin`, `Dump`, `Move`,
`WriteManifest`, `Verify`, `PruneStep`, `Finished`), for the loop and the command line at once, with a
process that may die between two of them. A dump is whole, cut short, or altered at its full size;
contents are versions of the database. `DrillBegins` … `DropTarget` are a restore drill. `bound` is
chosen at the start like `scenario` above.

`ChipArchive` is the archive of branch payloads: `StartArchive`, `ChooseGroup`, `ListRows`,
`StoreArchive` and `StartCleanup`, `CheckCleanup`, `ClearOnline` are the two commands, one action per
query; `SyncRow` is the daily sync that writes a row in between, `Readable` the reader that falls
back to the archive. A payload is its version. Two history variables, `rewritten` and `again`, hold
the rows for which the code loses a payload (section 6). No call is taken to span midnight.

`SyncLog` is the retention of `sync_log` in the same way: `StartSummary`, `Summarize`; `StartBatch`,
`LookUpExecution`, `Recount`, `DeleteBatch`, `RecordRun`. An entry is its id and its kind (ticker and status). `deleted` counts what is gone; `recounted`
keeps the days that were summarised again after entries were gone (section 6). The cutoff is taken
to be after every day and the backup both commands ask for to be there.

### 3.12 AssetPositions and AssetLedger

`AssetPositions` is a pure computation over a ledger that grows and shrinks entry by entry:
`Booked` is `compute_asset_positions`, `PriceAt` the price of a day with its overrides, `Point` a point
of the curve and `Performance` the figures between two. Amounts are integers in the base currency,
days stand for times.

`AssetLedger` is the ledger under concurrent requests: an action is a repository call, or a whole
transaction. `CreateTrade`, `PatchTrade`, `DeleteTrade` with `SyncLists`, `SyncPlans`, `SyncWrites`,
`SyncDrops` are the trades and their two cash legs; `ImportChecks` … `ImportFails` and
`RollbackReads`, `RollbackCommits` the imports. A leg is also an entry of the cash ledger, and neither
`PATCH` nor `DELETE /cash-ledger/{id}` asks whether it is linked to a trade: `PatchLegReads`,
`PatchLegWrites`, `PatchLegFails` and `DeleteLeg` change its amount or its account, write an old amount back, or
take it out. Three history variables keep apart that for which the code promises nothing: `torn`, the trades
whose requests overlapped or failed on the way, `racedKeys`, the journal keys two imports brought in at once, and
`edited`, the trades whose legs were changed by hand since a request last listed them. `LegsMatchTrade` says
that the next request on the trade puts hand-made changes right, and that even before it no leg is doubled or of
the other side.

### 3.13 Alerts

`evaluator` is the loop with its copy of one alert; `ListActive`, `FetchValue`, `ReadRow`, `WriteRow`,
`CreateTriggerLog`, `CreateNotification` are its steps, `PatchReads` and `PatchWrites` a request that
changes an alert. Both updates read the row and then write all of it. `wanted`, `armed`, `told`,
`observed` are history for the properties; `clobbered`, `overlooked` and `cutShort` hold the alerts
that met one of the losses of section 6.

### 3.14 Backtest

`Backtest(plan, bars)` is `run_backtest`, a function of the bars: `StrategySignal` the cross of two
averages with the rolling sums of the code, `Traded` and `RiskExit` one bar of the loop,
`OpenPosition` and `ClosePosition` with fees, slippage and sizing, `ClosedAtEnd` the close at the last
bar, `MaxDrawdown` the loop over the curve. The only action is one more bar, so that a run can be
compared with the run of a day later, and with runs whose last bar differs. Rates are in tenths and
prices such that all amounts are whole; the division that sizes an entry rounds down as in the code.

### 3.15 Schedules

A behaviour is about one loop of `scheduler.py`. `loop` is where it stands and until when it sleeps, `runs`
what it has run. `DailyBegins`, `DailyRuns`, `DailyEnds` are the daily loops; `WindowLoopBegins`,
`WindowOpens`, `AttemptEnds`, `AttemptsAgain` the sync of Taiwan history with its retries;
`ObservationFails`, `SeesHealthy`, `SeesOutage`, `RequestsRestart` the maintenance loop, whose request
the supervisor takes or does not. `Wakes` says how long a sleep lasts: it is truncated to whole seconds
and never shorter than a minimum, so a loop may wake a unit early. `looks` is history. Days count from 1, so
that the day before the first has a number too. A window that ends at the minute it begins is left out: the code takes
it for a whole day, and a sync that lasts until its end skips the next one.

### 3.16 HistoryBackfill

`filler[p]` is a run of runner `p`: `Snapshot`, `NoSnapshot` and `Deactivate` are `sync_universe`, `Lists`
chooses and orders the shares (ties in any order, where the code takes the ticker), `StartsShare`, `Fetches`, `DeletesRange`, `StoresRows`, `RecordsStatus` are one
share, `ShareFails` an exception anywhere in it and `RunnerDies` the end of the process. `DeletesRange`
and `StoresRows` are two transactions in the code. `clean` marks a run that was alone and met no
trouble, `stored` the bars a run stored less those that went with a failed one: both are
history, for the two things the code does not promise (section 6).

### 3.17 Migrations

`schema` holds the tables, and the columns and indexes of tables, as tuples; `recorded` is
`schema_migrations`. `Inspect` reads the schema, `MakesPlan` reads the versions, checks them against the code
of the process (`release`) and plans; `Execute` and `Record` are one statement each, since MySQL commits
each; `Dies` may come between any two. An index needs its columns, a column its table, and a statement
fails where MySQL would refuse it. `Registry(v)` lists what version `v` adds; a statement of a plan is the place of an
object in it, and the place after the last records the version. `alone` is history: nobody else was at work during the run. The default owner
that `create_tables` makes at the end is left out.

`Common` holds the helpers several modules need (`Least`, `Greatest`, `Floor0`, `Abs`).

## 4. The runs

| Run | Question | Properties | Instance |
|---|---|---|---|
| `pool_tables` | Do the tables agree while two aliases of one contract come, go and roll over? | `PlacingSound`, `AliasIndexExact`, `RefCountExact`, `NoSilencedAlias` | 2 tickers, 2 contracts, active and passive source, 1 account, 1 channel; refusals, time-outs with late acks, rollovers |
| `pool_recovery` | At rest, is everything assigned also subscribed, and everything wanted? | `NoPhantomSubscription`, `NoOrphanAssignment` | 1 ticker, 2 accounts of different modes, 2 channels, a task and an awaiting consumer; disconnects, invalidations, refusals, reloads |
| `pool_live` | Do assignments converge once the world is calm? | `Converges`, `EventuallyReleased` | 1 ticker, 2 contracts, watchdog; disconnects, invalidations, rollovers, REST re-logins |
| `pool_cancel_leak` | Finding 1 | `NoLeakedSubscription` violated | 1 ticker, no faults |
| `pool_rest_phantom` | Finding 2 | `NoPhantomSubscription` violated | 1 ticker; invalidation, REST |
| `recovery_all` | Do notifications, watchdog, reload and operator together neither collide nor give up? | `MarkerBacked`, `RebuildsSound`, `ServedBySession`, `Recovers` | 2 accounts, 2 channels, 2 notifications, 3 events from outside, all kinds |
| `recovery_once` | Finding 5 | `RebuiltOnce` violated | 1 account with both channels |
| `quote_buffer` | Is every accepted quote stored or counted as dropped? Has every candle a fate, and is an open session recorded? Do browsers, tables and hooks agree while broadcasts are under way? | `BufferSound`, `NoRegression`, `EventuallyPersisted`; `CandlesAccounted`, `RecordsSession`; `WatchersServed`, `SeenInOrder` | buffer: 2 tickers, capacity 1, quotes out of order; writes that fail, are done although they fail, hang. Recorder: 2 candles, queue of 1, 2 sessions. Browsers: 2 sockets, 2 tickers of one contract |
| `quote_drained` | Finding 3 | `DrainedAtShutdown` violated | 2 tickers, buffer of 2, no faults |
| `workload_slots` | Do slots follow the work? Does every bot have a row and an owner? Do supervisor and commands agree? | `SlotsExact`, `CapRespected`, `EventuallyAdmitted`; `BotsOwned`, `AutostartEnds`; `SupervisionExact`, `StopEndsRun` | 3 requests, 2 workers, 2 generations; 1 bot with a request and the autostart; 1 or 2 supervisors |
| `workload_broken` | Finding 4 | `NoLeakedSlot` violated | 3 requests, 1 worker |
| `cache_loads` | What each of fourteen components promises of single states and steps | `LoadsExact`, `TradingSound`, `LimitsEnforced`, `LedgerSound`, `QuotesOrderly`, `HistoryOrderly`, `BackupsHonest`, `BackfillSound`, `ArchiveKeeps`, `AlertsHonest`, `LogSound`, `SchemaSound`, `SchedulesKept`, `ResultsExplained` | section 4.1 |

Components that share no state share a run: `focus`, chosen at the start and never changed, says which of
them a behaviour is about, and the others keep their initial state (`MCMarketData`, `MCBackend`, `MCServices`). The state space is the sum of the components' and not their product; the `VIEW` of
`cache_loads` drops what is constant. It also counts the callers of the cache, and the requests to the ledger, by what
they are doing: they differ by name alone, as no action and no invariant of `TTLCache` or `AssetLedger` picks one of
them. The names in the table are conjunctions of invariants stated in the components'
modules. Those about one component that a theorem states are defined in its module, the others where the components
are composed:

| Conjunction | Of |
|---|---|
| `PlacingSound` | `SubscriptionPool`: types, `LockDiscipline` |
| `RebuildsSound` | `AccountRecovery`: types, `SingleFlight` |
| `BufferSound` | `QuotePersistence`: types, `NothingLost` |
| `SlotsExact` | `BoundedWorkload`: types, `SlotsConserved`, `ActiveExact` |
| `LoadsExact` | `TTLCache`: types, `Bounded`, `InflightAwaited`, `FreshAfterInvalidate` |
| `CandlesAccounted` | `FutoptRecorder`: types, `HandlerOwned`, `QueueCounted`, `StopStoresAll`, `NoneOvertakes` |
| `WatchersServed` | `LiveQuotes`: `TablesMatch`, `TrackedWhileWatched`, `AskedIsWatched`, `DeadLeave` |
| `BotsOwned` | `BotRuntime`: `HandlersOwned`, `TradingBotHasRow`, `RowHasInstance`, `FillsStoredOnce` |
| `SupervisionExact` | `Supervisor`: `NothingLeftBehind`, `BreakerExact`, `StateNamesChild`, `RestartsReported`, `StopFreesPort` |
| `TradingSound` | `PaperTrading`: types, `LedgerAgrees`, `CashExplained`, `OrdersSuitPosition`, `StrategyAgrees`, `FlatBeforeClose` |
| `LedgerSound` | `AssetLedger`: types, `LegsMatchTrade`, `NoOrphanLegs`, `ImportedOnce`, `BatchTellsTruth` |
| `QuotesOrderly` | `QuoteRefresh`: types, `OneFlight`, `SlotsKept`, `FlightsLand`, `TickerRests`, `ProviderRests` |
| `HistoryOrderly` | `FutoptRefresh`: types, `OneRefresh`, `WorkListed`, `ReadsCancelNothing`, `OutcomeIsNewest`, `ClosedIsQuiet` |
| `BackupsHonest` | `Backups`: types, `NewestSurvives`, `NoStrayDump`, `DrillHonest`, `CopyMeansFailure`, `LimitKept` |
| `BackfillSound` | `HistoryBackfill`: types, `CleanRunRepairs`, `StoredStays` |
| `ArchiveKeeps` | `ChipArchive`: types, `NothingUnreadable` |
| `AlertsHonest` | `Alerts`: `OncePerArming`, `TriggerIsTold`, `ChangesKept`, `BaselineKept` |
| `LogSound` | `SyncLog`: types, `DeletedIsSummarized` |
| `SchemaSound` | `Migrations`: types, `RecordedIsThere`, `OnlyRacesFail`, `DoneIsComplete` |
| `SchedulesKept` | `Schedules`: types, `DailyServed`, `DatesRight`, `WindowsServed`, `RestartJustified`, `OutageEndsInRestart` |
| `ResultsExplained` | `Backtest`: types, `EquityExplained`, `TradesInTurn`, `NoLookAhead`, `HistoryStands`, `DrawdownExact`; `AssetPositions`: types, `BooksBalance`, `RefusedLeavesNoTrace`, `GainExplained`, `PastUnchanged` |

`CapRespected` is a refinement: the run checks that every step of the executor is a step of
`WorkerCap` or leaves its variable alone. `LimitsEnforced` and `SeenInOrder` are action properties. Every
property of a passing run has a mutant of a mapped definition under which TLC finds it violated with
the same configuration.

### 4.1 Bounds and why they are enough

- `pool_tables`. Aliases need two tickers of one contract; a rollover needs a second contract; the
  preference for a mode needs one active and one passive source. A third ticker would only repeat
  the count of two. Rebuilds are left to `pool_recovery`.
- `pool_recovery` has one ticker, because with two aliases the join of a stale count (section 7)
  violates `NoPhantomSubscription`; two accounts and two channels give failover in the middle of a
  subscribe sequence and the cleanup of its first half. 1.7 million states.
- `pool_live` needs one ticker, one account and a watchdog: every retry of the pool is the
  watchdog's. Two contracts let the ticker roll over while it is being placed.
- `recovery_all`. `MaxFaults = 3` events from outside in all, of any kind: two failures of different
  kinds and a third while the first is being repaired. `Notes` bounds the notification tasks; a
  channel has one at most, so the two channels need two. Two accounts give orphan recovery a choice
  and the lock a queue.
- `quote_buffer` sets `Capacity = 1` with two tickers, so every second quote evicts, also after a
  requeue has exceeded the capacity. Two event times and two prices give every order and every tie
  of two quotes. *Recorder*: two candles for a queue of one overflow it; two sessions
  (`MaxSessions`), one change of contract (`MaxShifts`) and one exception (`MaxRaises`) meet start and stop. *Browsers*: two sockets, two messages, two commands, one poll and one lost connection
  put a command, a message and a loss inside a broadcast.
- `workload_slots`: three requests on two workers are the smallest instance with a waiter, a woken
  waiter and a newcomer at once; `Generations` bounds restarts to one. *Bots*: one bot, one request beside
  the autostart, two instances, two attempts, two boots: a start meets a start, a stop, a failed stop and a
  restart of the process. *Supervisor*: `Scenarios` are one supervisor with three spawns, a stop, a
  restart and interrupts, two supervisors with two spawns and a stop, and, where kills may fail, one supervisor
  with a stop or two without; `MaxCrashes = 2` in a window of one opens the breaker, a time of 3 lets a backoff
  double once and end, and two ticks are enough for two supervisors to meet.
- `cache_loads`, by component:
  - *cache*: one place for two keys makes every store an eviction; two tasks let an abandoned
    load run beside the current one. `MaxVersion = 1`: one write behind a load's back.
  - *trading*: five bars of one session of four minutes at two prices more than a stop apart, sizes of up to
    two contracts: entry, stop, cool-down, forced close.
  - *positions*: nineteen entries with a split, a change of ticker and one to the same ticker, a transfer, price overrides, a sale of more than
    there is and an entry of an account that is gone, up to four booked at once, over three days.
  - *ledger*: two requests at once and three in all, counting changes of legs by hand, two trades, four legs, two
    batches, one fault: every pair of handlers interleaves, and one of them may fail in the middle.
  - *quotes*: two tickers, one slot, three flights, one request, one scan, one cancellation, a clock to 2. *history*:
    one history, two readers, three tasks, one refresh that follows another.
  - *shares*: one share of each market, of which one may be listed late or leave, two days, two runs of the loop and the
    manual route, one trouble, a period of one day: a day is missed and lies outside the period.
  - *backups*: `Bounds` are three backups with a write and an act of damage, or two with a restore drill;
    two makers, two days. *branches*: two rows of one date, two operators, three syncs, two
    versions. *log*: two kinds, two operators, three entries, batches of one.
  - *alerts*: one alert, two values, a level and a crossing rule, two rounds, two edits, one mishap.
  - *backtest*: four shapes of bar (flat, rising, falling through the stop, reaching both limits), six bars, averages of one
    and two, with and without risk exits: two trades, and one that is open at the end.
  - *schedules*: days of six units, five loops (two daily, a window within a day, one across midnight, the restart),
    two starts, 14 units: more than two days, one of them on a weekend.
  - *schema*: two migrators and three runs over an unversioned database or one of version 3; the current release beside
    the release before, one with an edited migration, or one that may not migrate.

A run takes one to four and a half minutes on two workers; one more ticker, account or task in the pool
multiplies its states by ten and more.

### 4.2 Fairness

- Event loop: a coroutine that is ready runs (weak fairness of its actions). This is what asyncio
  does; there is no priority.
- Input and output: an SDK request is acknowledged, refused or timed out (`_subscribe_async` has a
  time-out), a login call returns, a worker's function ends, a flush's sleep is over. A database
  that is asked again and again answers at last (`SF` of `PersistOk`): without it the retries of the
  buffer prove nothing.
- Watchdog: `fubon_ws_listener_loop` calls it every 30 seconds and catches its exceptions.
- Recorder, bots, supervisor: the recorder's loop, the autostart task with the starts it makes while the
  process is up, each supervisor's loop and time itself (`LoopStep`, `AutoStep`, `SupStep`, `SvTick`).
- Nothing that comes from outside is owed: no tick, no callback, no caller, no operator. `Converges` and
  `EventuallyReleased` assume that callers and faults stop at some time (`Settled`); `Recovers` is
  bounded by `MaxFaults`. `EventuallyReleased` does not need the watchdog.
- In the shared runs every condition is restricted to the behaviours about its component.

`CHECK_DEADLOCK FALSE` appears in the two configurations of `QuotePersistence`: after `shutdown()`
has returned the buffer really has nothing left to do, and the browsers that share its run may all be gone.
In the other shared runs the components that may stop have an explicit step of rest (`BackendRests`,
`ServicesRest`), and deadlock is checked for the executor and the cache, which may not, as it is for the
pool and the recovery.

## 5. The proofs

Checked by `tlapm` for every value of the constants that satisfies the module's `ASSUME`.

| Theorem | Module | Says |
|---|---|---|
| `TypeCorrect` | `SubscriptionPool_proofs` | `Spec => []TypeOK` |
| `LockSafety`, `RefCountCorrect`, `AliasCorrect` | `SubscriptionPool_proofs` | `PlacingSound`, `RefCountExact`, `AliasIndexExact` always hold |
| `NoOrphanCorrect` | `SubscriptionPool_proofs` | `NoOrphanAssignment` always holds |
| `AliasesKeepChannels` | `SubscriptionPool_proofs` | `SessionsLast` implies `Spec => NoSilencedAlias`, an action property |
| `BufferCorrect` | `QuotePersistence_proofs` | `BufferSound` always holds |
| `NoRegressionCorrect` | `QuotePersistence_proofs` | `Spec => NoRegression`, an action property |
| `MarkerCorrect`, `RebuildsCorrect` | `AccountRecovery_proofs` | `MarkerBacked`, `RebuildsSound` always hold |
| `ServedCorrect` | `AccountRecovery_proofs` | `ServedBySession` always holds |
| `SlotsCorrect` | `Backend_proofs` | `SlotsExact` always holds |
| `CapCorrect` | `Backend_proofs` | `Spec => CapRespected`: `BoundedWorkload` implements `WorkerCap` |
| `LoadsCorrect` | `TTLCache_proofs` | `LoadsExact` always holds |
| `WatchersCorrect` | `MarketData_proofs` | `WatchersServed` always holds |
| `OrderCorrect` | `MarketData_proofs` | `LqSpec => SeenInOrder`, an action property |
| `CandlesCorrect` | `MarketData_proofs` | `CandlesAccounted` always holds |
| `BotsCorrect` | `Backend_proofs` | `BotsOwned` always holds |
| `SupervisionCorrect` | `Backend_proofs` | `SupervisionExact` always holds |
| `ArchiveCorrect` | `Services_proofs` | `ArchiveKeeps` always holds |
| `AlertsCorrect` | `Services_proofs` | `AlertsHonest` always holds |
| `QuotesCorrect`, `HistoryCorrect` | `Services_proofs` | `QuotesOrderly`, `HistoryOrderly` always hold |
| `BackupsCorrect` | `Services_proofs` | `BackupsHonest` always holds |
| `BackfillCorrect` | `Services_proofs` | `BackfillSound` always holds |
| `SchedulesCorrect` | `Services_proofs` | `SchedulesKept` always holds |
| `LedgerCorrect` | `Records_proofs` | `LedgerSound` always holds |
| `TradingCorrect` | `Records_proofs` | `TradingSound` always holds |
| `LimitsCorrect` | `Records_proofs` | `PtSpec => LimitsEnforced`, an action property |
| `LogCorrect` | `Records_proofs` | `LogSound` always holds |
| `SchemaCorrect` | `Records_proofs` | `SchemaSound` always holds |

**SubscriptionPool.** Assumptions: finite sets of tickers, coroutines and accounts, every mode with
at least one channel, and the special values distinct (`PoolAssumption`). `RefCountExact` is not
inductive: a step that records an assignment adds one to a count, and this is right only if the
ticker had no assignment before. The code establishes that before the awaits of the subscribe
sequence and uses it after them. The invariant therefore is
`TypeOK /\ LockDiscipline /\ RefCountExact /\ AliasIndexExact`: whoever is in the locked part owns
`_assignment_lock` and its ticker is unassigned. A step of the owner keeps it because no other
coroutine can be in the locked part; a cancellation keeps it because the cancelled coroutine leaves
the part and the lock together, and the lock goes to a waiter that has not chosen accounts yet; a
rebuild keeps it because it resets sessions and never assignments. `RemoveExact` and `RecordExact`
say how the two bookkeeping operations move count, alias index and assignment together; the lemmas
`HelperSafe` and `OthersSafe` go through the actions.

`NoOrphanAssignment` speaks of the pool at rest. Its invariant, `OrphanInv`, says what keeps the promise until then:
whenever a ticker without source holds an assignment, somebody still has to remove it (`RemovalOwed`): its own task,
which has not come past the removal, or the holder of `_reload_lock`, which has yet to come to that ticker. `OwnTicker`
and `RebuilderRests` say that a coroutine works for the ticker it was made for and that the rebuilder is idle when no
rebuild is under way.

`NoSilencedAlias` is proved where sessions last: `SessionsLast` excludes disconnects, invalidations, REST logins and
reloads, which is the environment of `pool_tables`. Refusals, time-outs, late acknowledgements, cancellations and
rollovers stay. `CalmInv` says that then a session is never reset, that a contract is used in one mode on an account, and that a
channel is requested once, so the clean-up of a failed attempt (pool:1585) meets no channel of an
assignment. The hypothesis is needed: with two tickers, one account and a reload TLC finds an assignment recorded in mode
"Speed" while the session is rebuilt in mode "Normal"; the modes share the channel "books", which the
clean-up after the next refused attempt takes away from it.

**QuotePersistence.** Event times and prices are any integers. The type invariant includes what links the key
lists to the payloads: every pending ticker is in `order`, every payload still held is in `batch` or
`failed`. With `NothingLost` it is inductive. The argument rests on three lemmas about `Merge`: it is
well-typed, associative (`MergeAssoc`: a failed payload may be merged below what came since) and
absorbs a repetition (`MergeTwice`: a write that was done although it failed may be done again). The
merge is not commutative, which is why the requeue must put the old payload below the new one; the
mutant `RequeueOver` of the run shows the difference. `NoRegression` follows for each step from the
type invariant, since the table changes only through `Merge`.

**AccountRecovery.** Assumptions: finitely many accounts and channels, the watchdog, the operator and
the reload distinct from them and from one another (`RecoveryAssumption`). `SingleFlight` counts, and
the code keeps the count through two tables it never compares: `_reconnect_tasks` and the queue of
`_reload_lock`. The invariant relates them. `Queueing`: nobody is in the queue twice, an account is in
it exactly while its rebuild runs, and whoever is logging in or rebalancing is at its head.
`Owned`: a running rebuild has an owner, only one, and only a running one is awaited. A request that
finds a rebuild joins it and changes neither; one that finds none joins the queue and becomes the
owner in one step (`JoinsFlight`); the end of a rebuild leaves the queue and answers everyone who
awaited it in one step (`TaskEndsFlight`). `MarkerBacked` is kept by three facts: a marker is set
together with the notification that is posted, a notification that goes away has released its marker
(`MarkerReleased`), and everything else only takes markers away (`MarkersStay`). The type invariant
carries what the steps need besides: a rebuild that rebalances knows its outcome, a reload that logs
in has an account left.

`ServedBySession` is inductive with one more fact, `Detached`: while the login of a rebuild runs, the
session has no owner callback. A rebuild that fails there leaves the account deaf, which the property exempts and the
watchdog cannot see, rather than unserved behind a session that looks sound. A step keeps the promise where it assigns
(`AssignServes`: the websockets of what it places are open) or takes no websocket from a settled session
(`ServedStays`).

**BoundedWorkload.** Assumption: finitely many requests, at least one worker. The slots of a semaphore that are free, those
granted to a woken waiter and those held by work add up to `max_workers`, or to less once a pool is broken. The queue is listed once and knows who waits (`QueuedOnce`); an
executor that is used was built (`KnowsBuilt`). The lemmas about `Woken`, `SlotsAfter` and `QueueAfter` say that
waking moves slots and makes none; `SlotsExact` follows for each action by what it does to one call, with
`ShareOut` where the semaphore is left. For the refinement each step changes `Working(1)` by one call that starts while
a slot of the executor is free, or by calls that end.

**TTLCache.** `entries` is an ordered dictionary, so the lemmas are about sequences with one entry per key:
`Without` removes at most one, an eviction keeps the newest. `InflightAwaited` is inductive with the type
invariant. `FreshAfterInvalidate` needs `FloorReached`: the floor of a key is never above the data, so what a load reads
is at least the floor; an invalidation raises the floor only when it met no load in flight, and a load that
was given up stores nothing.

**LiveQuotes.** The two tables of the manager are inverse relations; `LeavesTables` says that
every removal, also the one in the middle of a broadcast (`SendSafe`), takes a socket from both. `AskedIsWatched` needs that
whoever a broadcast counts as dead is really gone (`CastersOK`). For `SeenInOrder` the invariant `NumbersOK` orders the
messages of a contract: what a browser has seen is not newer than what the listener is sending, and that not
newer than what waits in the queue.

**FutoptRecorder.** The invariant `RecorderOK` relates the recorder's flags to the awaits of its two coroutines and the
candles to their places: a candle has a fate exactly when it is neither queued, held nor posted (`FatesFollow`); the
queue rises, above everything stored (`OrderKept`); a candle without a handler came after the
unregistration (`LossesLate`). The exceptions of the pool and the cancellation of the task at every await are cases of their own.

**ChipArchive.** The archive is checked in one query and written or cleared in a later one, with a sync, a clean-up, another
operator or the loss of the backup in between. `ArchiveOK` therefore says of each suspended call what still stands of what
it read: a group it may archive was not cleaned meanwhile (`MayArchive`), a list it made shows rows that are
online and their latest payload unless they were written again (`ListStands`), and a clean-up that checked its
group has counted exactly the archived rows (`MayClear`). Then a clean-up that finds as many rows online as it
counted clears the archived rows and no other: a finite set that contains another of the same size is that set
(`ClearOnlineKeeps`). The exempted rows `rewritten` and `again` are the two losses of section 6.

**BotRuntime.** Assumptions: there is a bot, the autostart task is not a request, and it tries at least once.
A handler checks the table of active bots, awaits, and acts on what it found. `BotsOK` says for each caller
what still stands after its await (`CallerFits`), which needs that a bot that is not `raced` has one caller at
a time (`OneAtATime`); in the code nothing but the user sees to that, and `raced` is where it fails.
`InstancesFit` and `StopOwed` link the table to the instances: what is active was built for its bot, its fills
are still to be stored, and if it is stopped some request is about to store them, so `FillsStoredOnce` holds
when the table forgets it. `RowHasInstance` follows from `Covered`: in an attempt without a failure, a row
that says "running" belongs to a bot that is active, is being started or is still on the list.

**Supervisor.** Assumptions: a run that clears the crash list is at least as long as the window
(`StableRuntime >= CrashWindow`; both are 300 seconds in the code), every backoff takes time, the breaker
needs a crash, and a scenario allows no more backends than there are. `BreakerExact` compares the list of the
code, cut and cleared as it goes, with everything that happened. `LogFits` keeps what makes the two equal: the
last crash is in the log, the list is the window before it, and every crash is earlier than the start of the
backend that is watched, because a backoff lies between them, so a run long enough to clear the list has left
the window behind. Without a backoff a crash exactly one window after the last would be miscounted. `FileFits`
says that the state file names a backend some supervisor watches, `PendingFits` that a restart under way is no
longer the one in the request file, and `InOrder` that backends are numbered as they start, so that no step of
one supervisor starts a backend another one has. `Tended` is `NothingLeftBehind` with what its proof needs: a
backend that is alive is watched, terminated or just done with by a supervisor, and `ChildFits` says that a
supervisor that is done with one leaves it dead or in `unkilled`. `StopperFits` follows the backend a stop confirmed:
it was bound once, and what closes or is dead never listens again.

**Alerts.** Assumptions: no value is 0, which stands for none, and the rules are those of the code. Each time
an alert is made active pays for one notification: `AlertCounted` adds up those given, the one on its way and
the one that may still come because the row is active or a copy of it waits to be evaluated, and keeps the sum
below the number of armings. A round evaluates an alert once (`ListedOnce`), so no second copy waits.
`ReadsFit` says what the read before a write still means. A write over a row that changed since its read puts
the alert into `clobbered`, for which nothing is claimed (section 6).

**QuoteRefresh.** Assumptions: there is a ticker and a slot, requests are not tickers, and a rate limit rests at
least as long as an error. `flights[t]` is read before an await and removed after it. `Flying` says what the table is
worth: a flight under way is the one on the list of its ticker, a listed flight exists and is awaited, and flights are
numbered as they start, so a new one is nobody's. `Permitted` carries the check of the two backoffs from the start of a
flight to its request: no backoff of its ticker has begun since, and one of the provider only with a
warning, which is the case section 6 describes. `FailuresCounted` bounds the failure counts by the flights that are
over.

**FutoptRefresh.** Assumption: a slot and a history. Tasks are numbered as they are created, and only the newest task of a
key is not done (`OlderDone`), so one is under way. Reports come after the end of a task, in the order of the ends
(`ReportsInOrder`): the outcome of a key is that of its newest task unless that is under way or has yet to report
(`NewestReported`).

**Backups.** Assumptions: at least one backup is kept, of all and of each scope, and the automatic scope is one of the
scopes. `Protected` is read, the prune list made, and the files removed one at a time, while other makers finish and
prune. The proof needs that what is on a list stays outside `Protected` (`Expendable`): a newer backup only makes
more of the old ones expendable (`ProtectedGrow`), and removing what is not protected protects nothing else
(`ProtectedShrink`, `ProtectedDrop`). `LimitComes` says what the limit holds of before everyone has pruned: what no list
names is within the limit or protected, or somebody who has just brought in a backup has yet to prune. `ToPruneFits`
shows that one pass of the pruning is enough, from the number of backups to be pruned oldest first. Who owns an
unfinished file (`PartOwned`, `DumpOwned`) is stated while nobody died, and soundness of dumps while none was damaged: the
history `harm` says which.

**HistoryBackfill.** Assumptions: finitely many shares, each of one of the markets asked, and one that is traded every day. A
range is deleted and inserted in two transactions. `RowsFit` says that the rows in hand are all the days of their
range on which the share was traded, so the insert brings back whatever the delete took; `StoredStays` follows, also for
two runs at the same share. For `CleanRunRepairs` the invariant `Undisturbed` follows a clean run phase by phase
(`Progress`): the markets asked so far have their shares of today listed, the list names every share that is active and
has a gap, and a share not named any more is up to date. Nobody else is at work, and the step of anybody else ends the
claim.

**AssetLedger.** Assumption: files are finite sets of keys. A request reads the trade and its legs, awaits, and inserts,
patches or deletes legs one at a time. `Fits` says of a trade that is not in `torn` (section 6 names how it gets there)
either that nobody works at it and its legs are those of its side and version (`AtRest`), or how far the one request has
come (`InStep`): what it knows of the legs is what there is, a role it no longer has to write is written, and what it
has to drop is of no role of the trade. `LegIds` keeps an id that was read long ago from meaning another trade's
leg. A trade whose legs were changed by hand is in `edited` until a request lists them; what that
request then knows is what there is again, and a change by hand in the middle of it sends the trade back to `edited`,
for which `Fits` only keeps the roles apart. `KeysFit` relates the keys of a file under way to the rows; a journal key whose imports overlapped is
exempt (`racedKeys`). `BatchesFit` says that an open batch is one request's.

**PaperTrading.** Assumptions: a point value, a margin, stop and stress distances above zero, prices and the other sizes natural
numbers, and the closing minutes within those without new positions. The average-cost books are kept in five numbers that
every fill changes. `AccountOK` is what they have to do with each other: the cash is what the fills paid and received and
what the open contracts cost (`Booked`), the fees not yet shared are those of the open contracts
(`FeesOpen`), and cash is realized profit less those (`Explained`). A partial close divides twice, cost and fees; the
division of the fees is exact because of `FeesOpen`, and that of the cost cancels between cash and position (`ClosedKeeps`,
`EnteredKeeps`, `FillKeeps`). `OrdersSuit` shows that what the broker takes suits the position it was
sized for, and `PtInv` that nothing changes that position before the bar that fills it, or removes the order with it.
`LimitsCorrect` follows for each bar from the same invariant: the forced close is the last word of the bar.

**SyncLog.** Assumptions: finitely many kinds of entries, a grace time of at least a day, batches of at least one, and the
entries come within the days there are. The code compares totals only: a day is summarised when the counts of its summary
add up to its entries. `SameSum` says why that is enough: the counts of the summary are nowhere below those of the
entries, and counts of which none is smaller and whose sums are equal are equal (counted as a finite set of pairs that
contains another). `DayInv` adds what makes the deletion safe: entries are added to the day that is today, and entries go
only of days that are over, because a summary has to rest; so what was counted stays counted. A day with a
recorded clean-up has lost entries, hence whoever finds no record and recounts after a batch puts the day into
`recounted`, which the property exempts (section 6). `RunInv` carries this from the look at the record to the deletion:
who is about to delete holds a summary that counts everything, or one of an exempt day. `EntriesCounted` and `BatchTakes`
keep the sums in step with the sets.

**Migrations.** Assumptions: a database has the objects of the versions recorded in it, which are the first few, and every
release knows the baseline. The schema is read before the plan is made and every statement is a transaction, so a plan is
out of date as soon as somebody else works. What stays true of it nevertheless is `Owed` (each object of a
version it will record is there or still to be made before the record, and so are the earlier versions) and
`Covers` (it will record every version of its release, and makes the table of versions first), because objects and
rows only ever come. `RecordedIsThere` and `DoneIsComplete` follow. `OnlyRacesFail` needs more, `RunsAlone`, of a plan that
nobody else works at: what it makes is not there and is made once, what a statement needs is there or is made by an earlier one,
and what it records is not recorded. That holds of the plan (`PlanRunsAlone`) by three facts about the
registry of the five versions: an object belongs to one place (`EachOnce`), what an addition needs is of an earlier
version or earlier in its own (`NeedsOfAddition`), and a table of the baseline is created whole. The registry is a
finite list, so these are evaluated; numbers of processes, runs and releases are any.

**Schedules.** Assumptions: a day is longer than the shortest sleep, times of day lie within a day, retries and looks
take time, the days without a window are finitely many (those a behaviour may reach), and a window is at least as long as the shortest sleep. The
lemmas give the calendar: times of a job are days apart (`TimesApart`), a sleep aims at the first time after it begins
(`NextAtIs`) and ends between a unit before that time and a shortest sleep after it (`WakesWhen`), a loop that finds a
window open is in it (`ActiveIs`), and the day a loop wakes on does not matter for the end of a window, even when it
wakes a unit early and before midnight (`StopIs`). `SchedInv` says for each kind of loop what has been done up to its next
time: every daily time before the one it sleeps until, or up to now while it runs, was served, and every window before
its own was left with a complete attempt or one too late to repeat. A time that passes during a run is served by
that run, and a window cannot pass during an attempt, since an attempt stops with its window and windows are days apart.
For the restart, the window of an episode is later than every request, and each earlier window of the episode has
had its request: hence one request for each window, and none missing.

Only model-checked: liveness (`Converges`, `EventuallyReleased`, `Recovers`, `EventuallyPersisted`,
`EventuallyAdmitted`, `RecordsSession`, `AutostartEnds`, `StopEndsRun`), because the proof system reasons neither about
fairness nor about `ENABLED`. `NoPhantomSubscription`, which finding 2 and the join of a stale count violate outside
the instance of `pool_recovery`, so there is no theorem to prove. And `ResultsExplained`: `Backtest` and
`AssetPositions` compute over whole sequences of bars and entries, so that their proofs would need induction over
data.

## 6. Findings

Each is a run that expects a violation, with the line of the code and the line of the document or
comment in `PROJECT.json`.

1. `pool_cancel_leak`. `untrack_ticker` cancels the task that awaits a subscribe acknowledgement.
   `_subscribe_async` and `_subscribe_target_on_manager` clean up in `except Exception`, which does not
   catch `CancelledError`; the subscription stays on the session, counted by nobody (provider:1419,
   pool:1585).
2. `pool_rest_phantom`. A REST request that meets an invalidated session logs in again without the
   pool (provider:552). The pool's assignments then refer to a session without subscriptions, which
   reports connected, so neither the watchdog nor a later `track_ticker` subscribes again.
3. `quote_drained`. The worker leaves its loop when `_closing` has become true during a flush
   (`realtime_quote_persistence.py:196`); quotes accepted in that flush, and payloads that failed in
   it, stay in memory although `shutdown()` returns normally.
4. `workload_broken`. `run_in_executor` of a broken process pool raises after the slot was taken and
   before the `try` that releases it (`workload_executor.py:77`). With the one worker process
   `main.py` configures, the next request takes the only slot for ever.
5. `recovery_once`. The watchdog lists the stalled channels once; when both channels of an account
   are listed, the rebuild made for the first repairs the second, which then has the healthy session
   rebuilt again (pool:923).

Observed while modelling, without a run of their own. Each of these is either a step of the module, in
which case the property that would fail says so in its comment and exempts exactly this case, or lies just
outside it.

*Pool and buffer.* The join of a stale count by a second alias (pool:1564); an exception on storing the
connection status that leaves a session logged in without its callback (pool:843); a requeue that exceeds the
buffer's capacity (`realtime_quote_persistence.py:185`, against the docstring at :65); `run()` after
`shutdown()` of the executor, which restarts it and makes the guard at `workload_executor.py:63` dead.

*Live quotes.* A send has no time-out, so one stalled browser stalls every broadcast and the listener
(`ws_manager.py:81`, `scheduler.py:868`). A store that fails drops the message for the aliases not yet
served. The poller may send an older quote after a newer one; `SeenInOrder` is about the listener.

*Refreshes.* Quote refresh looks at the backoff before it waits for a slot, so flights under way when a rate
limit is answered still reach the provider; a success requested earlier clears the provider-wide backoff
(`quote_refresh_service.py:345`); a cancelled caller cancels everybody's flight (:305). The report of an
old futures refresh may overwrite the outcome "running" (`futopt_history_service.py:87-102`); `get_status` hides it.

*Candle recorder.* A deferred start gives up the candles still queued and keeps the pool source outside
the session (`futopt_history_service.py:523-536`, :659); candles posted after the drain are lost (501-511
against 561-573); an exception of the start ends the task for good (:665, :681).

*Bots.* Overlapping starts, or a start during the awaits of a stop, leave an instance nobody can reach with its
handler registered (`routers/paper_trading.py:360`, :441, :746). A stop that fails after the fills were stored
stores them again when repeated; a start after it discards them (735-746). Orders of the last bar of a session
fill on the first bar of the next (`paper_trading/bot_runner.py:549`). The autostart starts every realtime
bot, those a user had stopped included.

*Supervisor.* A stop during the backoff of a crash, or before the port is bound, is answered
"already_stopped" and withdraws its marker, so the backend comes up again (`service_supervisor.py:609-615`
against 446-452). A stop is answered "stop_requested" as soon as the port is free, while the backend may still be
shutting down (627-634), and a `run` made then starts a second one beside it (:455). A stop that is refused because
the kill failed leaves its marker, so the supervisor stops all the same (642-643). A supervisor may end beside a
backend that withstood both of its kills, whose results it does not look at (590-604). A restart is reported completed at the
spawn (487-498); a second request between reading and clearing the marker is lost (399-402).

*Backups.* A drill compares with the live checksums and so fails after any later write
(`mysql_backup.py:1006-1036`), and leaves its database behind (1216-1252). Pruning counts another maker's
dump as healthy before it is verified (842-871). A crash leaves a dump without manifest, or a manifest
without dump that is never pruned.

*Storage maintenance.* Two overlapping clean-ups, or a row written between archive and clean-up, lose payloads; one
blocked group blocks the clean-up of every later one. A summary made between two clean-up batches
replaces the day's counts by what is left (`storage_maintenance.py:565`), against
`docs/storage-lifecycle-runbook.md:80`.

*Ledger.* Nothing guards the cash legs of a trade: one `PATCH` or `DELETE` of such an entry breaks its settlement until
the trade is patched again (`routers/assets.py:713-732`), and since the update writes the whole row back
(`repositories/assets.py:395-443`), a change of a note that overlaps a patch of the trade restores the old amount. A
trade whose cash legs fail half-way is deleted and leaves the legs already written
(`asset_use_cases/account_ledger_commands.py:176-186`). A refused adjustment still moves cash
(`asset_tracking_service.py:414-423`). A change of ticker to the same ticker is not refused
(`database/helpers.py:1126`) and removes the position with its profit (382-411); the properties of `AssetPositions`
exempt such books by name (`Stated`). A batch stays "pending" when the process ends during an import (`csv_imports.py:344`).

*Alerts.* Both the evaluator and a request read a row and write all of it, so one of two changes is lost
(`alert_engine.py:773`); a crash after the deactivation and before the notification loses it for good; an
alert deleted or paused meanwhile still fires from the copy.

*Backtest.* After a stop on a bar, a signal may enter again at the *open* of that same bar
(`backtest_engine.py:91-105`); a stop fills at its price although the bar opened beyond it (264-270); the bar of
the entry is not checked for stops; the drawdown knows nothing before the first point of the curve (562-573).

*Clock loops.* Sleeps are truncated to whole seconds, so a loop wakes up to a second early and a short run
is repeated after the shortest sleep; near midnight such a run works on the wrong date (`scheduler.py:481`). A run
that lasts past the next time of day skips it. A restart request that was taken is the last thing the maintenance loop
does: if the supervisor loses it, nobody asks again.

*Share history.* Once a share has had a success only the last days are asked for, so a longer gap is never
filled (`taiwan_history_backfill_service.py:255-258`). If the snapshot of one market fails, all shares of the other
market that were seen are deactivated (112-113). A range is deleted and inserted in two transactions
(`fubon_data_fetcher.py:265-272`); the end of the process between them loses history that later runs do not restore.

*Migrations.* Of two concurrent migrators one fails (`CREATE TABLE` without `IF NOT EXISTS`, duplicate column or
version); a rerun succeeds.

## 7. What is not covered

- Left by the plan: `FubonSession`. Two concurrent initialisations of one SDK session are excluded from both pool
  modules. `Lifecycle`: the shutdown of the pool and the order of `lifespan`; each module models the shutdown of its own
  component.
- A second alias may join a physical subscription whose session has just been replaced, before the
  rebalance comes to it. `NoPhantomSubscription` is therefore checked with one ticker;
  `NoSilencedAlias` is checked and proved for sessions that last (section 5).
- `ServedBySession` and `Recovers` exempt a session left `Deaf` by the exception at pool:843, and
  `Recovers` an outage in which a configuration error blocks every account, since then the code waits
  for an operator.
- Other writers of `market_quotes_latest` (the quote refresh service) are left out of
  `QuotePersistence`; they go through the same upsert.
- `SubscriptionPool` counts with `+ 1` where the code stores 1 for the first alias of a physical subscription, which is
  the same under the lock. The watchdog of the pool modules looks at tickers that all count as futures or options, and
  `NeedsRebuild` does not use the counts of desired and pending tickers.
- Backoff lengths, cooldowns and time-outs of the pool have no durations: every property holds, or fails, whatever
  their values. `QuoteRefresh`, `Supervisor` and `Schedules` do have a clock, of a few units.
- No liveness is claimed for the live quotes (no send has a time-out), the ledger, the maintenance commands and the
  migrations (a person repeats them).
- In the modelled components: exchange rates and the live price of the last day (assets), the default
  owner (migrations), margin synchronisation and the journal of signals (bots), log rotation, the HTTP of the
  health probe, POSIX, a second interrupt while the first is handled, an interrupt between the start of a process
  and the watch, and the launcher of a virtual environment as a process of its own (supervisor), indicators other than the averages and the ratios of the summary (backtest), delivery of
  notifications outside (alerts), the merging of candles (futures history).
- Without a module: market data adapters and parsers, scoring, reports, metrics, request validation, the
  screener and the front end. These are numerical code over floating-point prices, SQL text, formatting and wiring of
  sequential steps: there is no state that several actors change, and what could be wrong in them is what a
  model would abstract away. They are also the bulk of the source (report scripts, table definitions, SQL helpers,
  routers and repositories that pass values on), which is why the definitions stand for about a seventh of its lines.
