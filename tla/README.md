# Formal models of beam-bot

TLA+ models of the core of beam-bot: the synchronisation of candles and trading
pairs, the limiters, the page that runs strategies and the WebSocket server.
TLC checks them on small instances; TLAPS proves every property the passing
runs check, liveness apart. beam-bot collects candles ("klines") of Binance trading pairs, keeps them in QuestDB and
trading pairs in Postgres, and runs trading strategies on them. There are two
programs: an Elixir application (Phoenix, `lib/`) and a set of Rust binaries
(`rust/`), which share the databases.

Contents: [inventory](#inventory) · [modules](#modules) · [runs](#runs) ·
[bounds](#bounds) · [fairness](#fairness) · [proofs](#proofs) ·
[not modelled](#not-modelled) · [plan](#plan)

## Inventory

### Rust

| component | state | operations | talks to | hard behaviour |
|---|---|---|---|---|
| `bin/sync_historical_data.rs`, `use_cases/exchanges/sync_all_historycal_data.rs` | four progress fields shared with the display, one future per pair and interval | list, execute, one task's eight steps, display | exchange, QuestDB, Postgres, NATS | tasks interleave at every await; two stores; errors at every call; termination of the display |
| `adapters/rate_limiter.rs` | tokens, last refill | `acquire` | the tasks | compare-and-swap, refill by a clock |
| `postgres/trading_pair_repository_postgres.rs` | rows of pairs with their sync times | upsert, find | the batch | the listing resets what the tasks write |
| `questdb/klines_repository_questdb.rs` | one buffered TCP writer behind a mutex | `save_klines` | the batch | a partial write |
| `binance_adapter.rs`, `pub_sub_nats_adapter.rs` | none | requests, publications | outside | errors, short answers |
| `config.rs`, `postgres_config.rs`, the connections of `main()` | none | read the environment, connect | the batch | each of three connections ends the process; a bad URL panics |
| `bin/web.rs` | heartbeat of a WebSocket session | ping, echo, stop | browser | a timer and a late answer; a client that goes silent |
| `use_cases/auth.rs`, `auth_handler.rs`, `auth_middleware.rs` | none | sign in, verify | | commented out of the server |

Correct means: requests are paid for by tokens; counters say what happened;
the display announces completion only when it is true, and then the process
ends; the row of a pair never promises candles that were not stored; a session
cuts clients that have gone, and only those.

### Elixir

| component | state | operations | talks to | hard behaviour |
|---|---|---|---|---|
| `binance_multi_rate_limiter.ex` | four windows with counters | 3 checks, 3 casts, 1 query | every process that sends a request | interleaved callers, clock, crash of a process that holds counters in memory |
| `binance_req_adapter.ex` | none | `request`, `get_klines`, `place_order`, limits | limiter, exchange | retry after a refusal, window arithmetic |
| `sync_historical_data_use_case.ex`, `sync_history_repository_ecto.ex`, `questdb_rest_adapter.ex`, `influx_tcp_client.ex` | history rows, candle tables | one sync of a symbol and interval | adapter, Postgres, QuestDB | order of the two writes, read-then-write upsert, concurrent workers, boundary arithmetic |
| `sync_all_historical_data_for_platform_use_case.ex`, `admin_live.ex` | accumulator of counts; page with a progress | click, chunks, messages | each other, by messages | the job outlives the page; the page is busy until it is told otherwise |
| `trading_pairs_sync_worker.ex` and its use case | a timer | hourly sync | adapter, Postgres | two timer chains |
| `binance_ws_adapter.ex`, `binance_ws_supervisor.ex` | connection, streams, counters | frames, reconnect, subscribe | exchange, QuestDB, PubSub | reconnection, children started before they are supervised |
| `binance_user_ws_adapter.ex` and its supervisor | connection, listen key | frames, refresh | exchange, PubSub | refresh after an error |
| `small_investor_strategy_runner.ex`, `mid_caps_strategy_runner.ex`, `strategy_supervisor.ex` | strategy, last execution, credentials; strategy rows | timer, kline, run once, simulate | adapter, Postgres, PubSub | orders from three triggers, crashes, cash arithmetic |
| `trading_pair_live.ex`, `strategies_live.ex`, `find_best_trading_pair_small_investor_use_case.ex` | page state, a remembered runner | start, stop, refresh, simulate, search | runners | one slot for several processes; timeouts of tasks |
| `accounts.ex`, `user_token.ex`, `user_auth.ex` | users, tokens | sessions, confirmation, e-mail and password changes | Postgres, mail | tokens that outlive what they stood for |
| NATS listeners, social workers | a callback, a timer | | | not started by the application |

Correct means: no more weight is granted than a window allows, and a refused
caller is told when to come back; a history row never runs ahead of the
candles; a table holds one interval; a page runs one job, shows honest numbers
and gets free again; the table of pairs catches up with the exchange, whoever
writes it; nothing a strategy page has started runs on without it.

`PROJECT.json` lists under `hazards` what is hard to test in this code, at its
line, with the properties that watch it.

## Modules

| module | models | lines of code it stands for |
|---|---|---|
| `SyncJob` | abstract: a process submits tasks, each ends at most once, completion is reported only when all are done | — |
| `HistoricalSync` | the Rust batch and its token bucket | `sync_all_historycal_data.rs`, `sync_historical_data.rs`, `rate_limiter.rs`, the two repositories |
| `HistoricalSyncProofs` | its theorems | |
| `FixedWindows` | abstract: counters that each grant at most a limit in one window at a time, only move on to later windows, and forget only when they start again | — |
| `BinanceRateLimiter` | the Elixir limiter and its callers | `binance_multi_rate_limiter.ex`, `request` and the weights of `binance_req_adapter.ex` |
| `BinanceRateLimiterProofs` | its theorems | |
| `KlinesSync` | one symbol's sync in Elixir, by several workers | the use case, the history repository, the QuestDB adapter, `compute_klines_limits` |
| `KlinesSyncProofs` | its theorems | |
| `PlatformSync` | the platform job and the admin page | the platform use case, `admin_live.ex` |
| `PlatformSyncProofs` | its theorems | |
| `TradingPairs` | the table of pairs, the hourly Elixir worker and the Rust batch that both write it | the worker, its use case and repository; `main()`, configuration and connections, the Rust listing, repository and listing parser |
| `TradingPairsProofs` | its theorems | |
| `StrategyPage` | a trading pair's page and the processes it starts | `trading_pair_live.ex`, `small_investor_strategy_runner.ex`, the strategy repository |
| `StrategyPageProofs` | its theorems | |
| `PeerWatch` | abstract: a peer is watched by the age of its last sign of life | — |
| `WsSession` | the WebSocket session of the Rust server | `bin/web.rs` |
| `WsSessionProofs` | its theorems | |
| `MC*` | small instances for TLC | |

`HistoricalSync` implements `SyncJob` (`INSTANCE SyncJob WITH submitted <-
Submitted, ...`). `PlatformSync` abstracts a task to its result; what the task
does is `KlinesSync`, and each of its requests goes through
`BinanceRateLimiter`. `TradingPairs` composes the two programs over the table they share;
of a task of the batch it keeps the write of the row and the message after it,
the rest being `HistoricalSync`. `WsSession` implements `PeerWatch`.

### HistoricalSync

A step of a task is the code between two awaits, so `Next` has every
interleaving that tokio has: `Begin` (the locks, the end time), `Determine`
(row and shortcut), `Acquire`, `Fetch`, `SaveKlines`, `PublishKlines`,
`SavePair`, `PublishPair`. `main` is where `main()` and `execute()` are, `display`
where the progress task is; `DisplayLoad` and the comparison after it are two
steps because an await of two locks lies between them. `Begin` waits while the
display sleeps, since it sleeps with the locks held.

Time is an integer of slots. `synced` holds, per pair and interval, the slots
for which QuestDB holds what the exchange answered. `Fetch` returns any first
part of the window, since no limit is sent and the exchange cuts the answer;
the last candle may close after the window's end. `SaveKlines` stores all of
it, or any prefix and fails. `Crash` ends the process anywhere; `End` resets its
memory and keeps both databases.

The clock of `RateLimiter` is `Instant::now().elapsed()`: the age of an instant
taken just before, so zero whole seconds, in `new` and in `acquire` alike. The
condition of the refill (sixty seconds passed) is never true and the branch is
not in the model.

### BinanceRateLimiter

A call or a cast is one action, as a GenServer handles one message at a time;
between a caller's question and its request other callers and the clock move.
A refusal is three steps: the server computes the wait, the caller writes its
log line and goes to `Sleep`, and some time after the wait is over it wakes (`Wake`). A tick
takes from the wait only while the caller sleeps, so a reply that is slow makes
it wake late. `until` is history: when the window that refused a caller is over.
`granted`, `spent` and `surplus` are history: what this server granted in each
of its windows, the weight granted in each minute by any server, and the requests
for data sent in each minute less those granted in it. The last two follow the
minutes of the clock, whichever server was asked and whenever the request was
sent. A request is one call of Req, however often Req itself tries. The server
refines `FixedWindows`: where each window starts, what was granted in it, and the
crashes as restarts.
`CheckWeightNil` is the call of `place_order`, whose weight is `nil`: in Elixir's
order of terms `nil <= 0` is false, so the second clause runs and its addition
raises. No code in `lib/` calls the order and raw request checks or the
casts; they are part of the server's interface and are modelled as it handles
them. `:get_rate_limits` changes nothing and is left out.

### KlinesSync

`ReadRow` and `FindRow` are the two reads of the history, `WriteRow` and `Save`
the two writes, in the order of the code. `MostRecent` is a set: rows are
ordered by a time of whole seconds. A candle is named by the time it opens, and
`ClosesAt` is the exchange's own calendar of when each closes: `Width` is what
`compute_klines_limits` takes for it, thirty days for a month that has 28 to 31.
`Limit` is that arithmetic. `Returned` is the exchange's answer: the candles that open in the
window, the first of them up to the limit asked for and up to `MaxAnswer`. The
adapter's documentation gives 1000 for the latter, while the code asks for up to
5000 and takes any answer for a success: a first sync of `1m` asks for three days,
4321 candles, and ends well with the first 1000. So `RowCovered` claims what such a
task really achieves (the row ends with what was returned, and nothing before
that is missing), and `SuccessCovers` claims the whole span only of a task
whose answer was whole (`AnsweredWhole`: no more candles in its window than an
answer holds, none narrower than `Width`); what was cut from earlier answers must have
been made up for by then. `lost` is history: candles whose write failed after the
row had moved. `Behind` is an interval whose rows all lie more than the limit
behind the clock, with no worker that may still write one: `Limit` is then an
error in every task, which ends without asking the exchange for anything.

### PlatformSync

A click spawns a job that is not linked to the page. The job's chunks, the
tasks in them, its counters and each message are steps; the page's mailbox is
a sequence, and a message to a page that is gone is dropped. Percentages are
layout and left out.

### TradingPairs

The worker is a GenServer with two sources of work: `init` sends it a message
and schedules another, and every message schedules the next. `timers`,
`mailbox` and `work` count them; the handler schedules whatever the result was,
so an error of the exchange keeps the chain, and a crash loses the mailbox and
the timers and starts two new chains. `Ask`, `FindExchange` and `Upsert` are the
handler's three calls, and other writers come between them. `Upsert` keeps the
sync times of the row it replaces and leaves out the symbols that do not trade
and those of a disabled coin. A row is therefore never updated once its symbol has stopped trading: it
goes on saying `TRADING`, although the page's query is documented as "all
active trading pairs".

The batch reads its configuration (one value panics), opens its three
connections in order, lists the exchange and saves each pair with its sync times empty.
Each task later writes the whole row, from the listing of the start. It gives
every pair the exchange number 1, whatever the row of `exchanges` is called. The refusal that
follows when no exchange has been created yet is a failure of `SaveListed`.

What the exchange says of a symbol is a version and a status. `listing` may
change up to the bound, with any interleaving of the two writers.

### StrategyPage

One page, its runners and its simulations are processes with links. `Die` and
`ExitSignal` are separate steps, as a signal is delivered after the death; nothing in the
code traps exits. `StartStrategy` links a runner to the page and overwrites the
remembered one; a runner whose `init` fails takes the page with it. A simulation is a
task that starts a runner of its own, calls it and stops it. `mailbox` holds the
refreshes and the results in their order.

Facts of the code that the module follows and a reader may not expect: the page
never shows `:running`, so the start button is always there; a runner subscribes to
`binance:kline:SYM` while the candles are published on
`binance:kline:SYM:INTERVAL`, so no candle reaches it; an execution analyses an
empty list, so it places no order; each execution and each status read leaves
one more `active` row, which nothing turns inactive (`saved`).

### WsSession

`silence`, `check` and `asked` are ages and a countdown, so time has no bound: the
time since the last ping or pong, the time to the next check, and the age of the
first ping sent since. `Beat` is `run_interval`'s closure: stop when the silence exceeds ten
seconds, else ping. `Lag` is how late the runtime may run what is due. Data frames are
echoed but are no sign of life, as in the code. The two directions are queues.
The server itself starts, or panics when it cannot bind.

## Runs

| run | module, cfg | expects | states | shows |
|---|---|---|---|---|
| `rust_sync` | `MCHistoricalSync` | pass | 628,594 | `RequestBudget`, `CompletedCounts`, `WatermarkBacked`, the refinement of `SyncJob`, over two processes, errors and crashes; `CleanRunsExit`: with no failed task, some task and enough tokens, the process ends; `WedgedForGood`: otherwise only a kill ends it; `WatermarkReaches`: the end of a row can be trusted back to the shortest reach, although a task resumes after its sibling's row |
| `rust_hang` | `MCHistoricalSyncHang` | violation | | `ProcessExits`: one failed task, and the process never ends |
| `rust_skip` | `MCHistoricalSyncSkip` | violation | | `SkippedIsUpToDate`: an interval skipped because of its sibling's row |
| `limiter` | `MCBinanceRateLimiter` | pass | 2,656,467 | `WindowBudget`, `WaitInWindow`, the refinement of `FixedWindows`; `SleepsPastTheWindow`: a refused caller is not back before the window that refused it is over; `MinuteBudgetPerFault`: a crash or a clock set back costs one limit in a minute; `LateSendsBounded`: a minute sends at most one request per caller that it did not grant |
| `limiter_crash` | `MCBinanceRateLimiterCrash` | violation | | `MinuteBudget`: an order's missing weight kills the server and its counters |
| `klines` | `MCKlinesSync` | pass | 2,891,956 | `RowCovered`, `SuccessCovers`, `RowsBounded` with two workers racing and answers cut short; `BehindForGood`: an interval more than the limit behind never catches up |
| `klines_gap` | `MCKlinesSyncGap` | violation | | `SyncedWindow`: a failed save leaves a gap that the next success does not close |
| `klines_tables` | `MCKlinesSyncTables` | violation | | `TablesUnmixed`: `1m` and `1M` in one table |
| `platform_admin` | `MCPlatformSync` | pass | 403,462 | `OneJobPerView`, `ProgressHonest`, `ResultsCounted`, `BusyEnds` |
| `ws_session` | `MCWsSession` | pass | 1,172,459 | the refinement of `PeerWatch`, `CutOnlyUnanswered`, `SilentEnds`: a client that answers within an interval is kept, one that has gone is let go |
| `pairs_table` | `MCTradingPairs` | pass | 416,465 | `TwoChains`, `AnnouncedSynced`, `CatchesUp`: two programs writing the same rows, with failures and a crash of the worker |
| `strategy_page` | `MCStrategyPage` | pass | 59,551 | `LostRunners`, `NoneUnwatched`, `SpinnerBacked`, `OneRefreshChain`, `SpinnerEnds`, `NothingOutlivesPage`: deaths of any process in any order |

Every passing property has a mutation of the code that TLC finds with it
(operators marked "Mutation" beside the definition they change).

What the violations say, in the order of their consequence:

1. `klines_gap`: the history row is advanced before the candles are saved.
   After one failed write the candles in between are never fetched again,
   while the tasks report success. The same property has other ways to fail: the
   last candle is usually still open when it is fetched and is not fetched again;
   an answer is cut at the exchange's maximum (the run gives it none below the
   limit asked for, so that its trace is the failed write).
2. `limiter_crash`: `place_order` passes no weight. The call kills the limiter
   (and its caller): no order is ever sent, and the counters start again.
3. `rust_hang`: a failed task is not counted; the display, and with it the
   process, waits for ever. That no later step mends it is `WedgedForGood`.
4. `rust_skip`: the sync times belong to a pair, the tasks to an interval.
5. `klines_tables`: minutes and months in one table.

## Bounds

- `HistoricalSync`: one pair with two intervals, since all sharing is between
  the intervals of a pair (row), between any tasks (bucket, counters) and with
  the display; reach 1 and 2 slots, so that one interval's window contains the
  other's; 2 tokens for 2 tasks; 2 processes, so that the second finds the
  databases of the first, also after a crash; the clock makes one step, enough
  to make an old row differ from a new window. For the violations
  one process.
- `BinanceRateLimiter`: two callers, one weight that fills the minute, so that
  the second is always refused; a second of 1 unit and a minute of 2, three times (a window
  and the next, so that a request is granted in one minute and sent in the next); five
  minutes and a day of 4 units do not end in a run: all four windows move by the same
  `Current`, and the theorems hold for any lengths; one
  crash and one step back of the clock. The casts fill a counter but do not push it
  over its limit (`Overrun = 0`): a check refuses the same in both cases, and the
  theorems hold for every `Overrun`, as for every other of these bounds.
- `KlinesSync`: two workers, three tasks, so that a worker may come back while
  the other is still at its first; candles of 2 units, so that windows start
  and end inside a candle; a limit of 3 candles and answers of 2, so that a window of
  the first sync is answered short and a gap can exceed the limit; the clock from 4
  to 9. The candles of this run are as wide as the code takes them for. Months that
  are shorter or longer are in `klines_tables` only, since a run with both intervals and two workers is too
  large; the theorems hold for every calendar.
- `PlatformSync`: one page (pages share nothing but the databases), two jobs
  (a page left and opened again, a second click), three items in chunks of two, so
  that the last chunk is short. `BusyEnds` is a temporal property; no symmetry
  is used there.
- `TradingPairs`: one symbol that may be written and one disabled, since rows of
  different symbols share nothing; one change at the exchange, so that the
  worker and the batch hold different listings; two batches, so that the second
  lists over what the first has written (`AnnouncedSynced` is about the batch that
  runs: what an earlier one has announced is forgotten); one crash of the worker. The worker is up to
  date again before the bounds are reached in some behaviours and after it in
  others.
- `StrategyPage`: three runners and two simulations, so that a second start
  overwrites a first runner while a simulation has one of its own, and two
  simulations overlap. The page is opened once: pages share no process.
- `WsSession`: the code's own five and ten seconds, a lag of one second, and up
  to three frames in flight in a direction, so that a pong waits behind data. The
  clocks need no bound.
- Symmetry is used for callers and workers, with invariants and properties of
  single steps only.

Runs set `CHECK_DEADLOCK FALSE`: a batch that has used its processes, or a
system with nothing left to do at the clock's bound, does stop.

## Fairness

- `HistoricalSync!FairSpec`: tokio polls what can advance, and every call of a
  service returns, with a result or an error: weak fairness of the process's
  steps, of each task and of the display. The locks of tokio are handed over
  in the order of arrival, so a task that waits while the display takes them
  again and again gets them: strong fairness of `Begin`. No fairness for starting or
  crashing a process, or for the exchange to succeed.
- `PlatformSync!FairSpec`: the BEAM runs every process that can run: weak
  fairness of the page's messages, of a job's steps and of each task. That a task ends is an assumption about the
  environment: requests and queries have limits of time, but the QuestDB write
  connects and sends without one (`influx_tcp_client.ex:23`), and the job waits for its
  tasks with `:infinity`. That a job lives is another: nothing watches it, and
  when it dies its page stays busy, which `BusyEnds` excuses. Nobody has to open,
  leave or click a page.
- `TradingPairs!FairSpec`: timers fire and the worker handles its messages (weak
  fairness); of the syncs infinitely many find the exchange answering and
  Postgres committing (strong fairness of the successful outcomes): without it a
  service that always fails would refute `CatchesUp`, which says nothing of the
  code. Nobody has to start a batch, and the exchange need not change.
- `StrategyPage!FairSpec`: signals arrive, timers fire, the page handles its
  mailbox, and a simulation, one pass over a finite list, ends. Nobody has to
  click, and nothing has to die.
- `WsSession!FairSpec`: time passes and the actor is polled. A client need not
  answer, nor connect.
- The other modules have no fairness: their properties are safety.

## Proofs

`HistoricalSyncProofs`, for any finite sets of pairs and intervals, any reach,
width and capacity (`ConstantsOK`), and no bound on clock or processes that the
constants do not name:

- `TypeCorrect`: `Spec => []TypeOK`.
- `Invariant`: `Spec => []IInv`, where `IInv` adds to the properties what makes
  them inductive: `QuietUntilSubmitted` (no task, no counter and no request before
  `execute` has submitted them: otherwise `Execute` could not set the
  counters), `DisplayHonest` (what the display has loaded, and that it is
  done only when all tasks are: the loaded value may be old, but only too small),
  and `KlinesBeforePair` (a task about to write the row has its window in QuestDB).
- `BudgetRespected`, `CountsExact`, `WatermarkSound`: `RequestBudget`,
  `CompletedCounts` and `WatermarkBacked` follow from `IInv`.
- `Refinement`: `Spec => ImplementsSyncJob`. Each action maps to one of the
  abstract job or to a stutter; only `DisplayFinish` needs the invariant.

- `HangIsFinal`: `Spec => WedgedForGood`. No step of the process takes a task out
  of `failed` (`WedgedStep`), none adds a token or a task, and the display announces
  completion only when all tasks have succeeded (`AnnouncedAllDone`, from `IInv`).
- `RowReaches`: `WatermarkReaches`, from a second inductive invariant over `IInv`.
  A task trusts the row it read when it resumes, so `WindowsJoin` asks the same of
  the start of its window, up to the moment it writes the row itself; and
  `ReachedKept` says that what is reached stays so, as the clock goes on and no
  candle is taken away. A row written late may move the end back, never beyond
  what is reached.

The step lemma treats the frame, the counters and the stores separately
(`StepFrame`, `StepCounts`, `StepStores`); `MoveCounts` says what one task's move
does to the cardinalities.

`BinanceRateLimiterProofs`, for any callers, lengths and limits
(`LimiterConstants`):

- `LimiterInvariant`: `Spec => []LInv`, with `CallersHaveRequests` (a caller that
  asks has a request), `GrantsCounted` (what was granted in the current window
  is at most what it counts, casts adding to the count only, and nothing was
  granted in a later one: this is what a clock set back could break, had the server
  moved its window back) and `WindowsPast` (while the clock is not set back no
  window is ahead of it).
- `LimiterTypes`, `BudgetKept`, `WaitsBounded`: `TypeOK`, `WindowBudget`,
  `WaitInWindow`.
- `RefusalsWaitedOut`: `SleepsPastTheWindow`, by `Waits` for each caller: the clock and what is left of
  the wait reach the end of the refusing window. A tick takes from the second at most what it
  adds to the first, and the caller asks again only when nothing is left.
- `FaultsBounded`: `MinuteBudgetPerFault`. `SpentCounted` says that the minute of the
  clock holds at most one limit for each fault so far (`Faulty`), unless the window
  counts what goes beyond, and that a later minute holds no more than that: a fault
  forgets one window, or leaves it, and is paid for with one limit.
- `LateSendsFew`: `LateSendsBounded`. `CarriedOver` adds to what a minute has sent
  beyond its grants the requests still on their way (`Carrying`): a grant moves one
  from the first to the second, sending it moves it back, and when the clock
  enters a minute there are no more of them than callers.
- `LimiterImplements`: `Spec => ImplementsQuotas`. `Serves` is the lemma for every
  call and cast: windows that only move on and grants that only grow, within
  the `WindowBudget` of the next state.

`KlinesSyncProofs`, for any workers, calendar of candles, widths, spans, limits, any maximum of
an answer and any number of tasks (`KlinesConstants`):

- `KlinesInvariant`: `Spec => []KInv`. The hard part is `RowCovered`: a worker
  writes a row computed from a row read three steps earlier, which others may have moved since. `Cleared`
  says that before the window of each worker no candle of the span is missing, and
  stays so, since no step uncovers a candle (`CoveredKept`, `ClearKept`); and what a worker has in hand are
  all candles from its window's start to the last one returned, wherever the answer was
  cut (`Ends`: there is such a last one). `WrittenCovered` puts the two together.
- `Inserts`: the rows there are and the inserts still to come are at most the
  workers; an insert comes only from a worker that has found no row.
- `SuccessesCover`: `SuccessCovers`, from an invariant over `KInv` (`SInv`): `Whole`, an answer
  that leaves nothing out is in hand up to the end of the window (`ReturnedWhole`), and
  `Successful`, a worker that is done after one has its span covered.
- `WindowFits` is the arithmetic of `compute_klines_limits`: if the candles of a window are
  at least `Width` apart there are no more of them than `Limit`, for every width and
  every window, also one that starts inside a candle.
- `NoCatchingUp`: `Spec => BehindForGood`. A worker of such an interval is `Late`: it
  reads only rows that are too old, so that its window is `TooLong`, and
  `TooLongRefused` says that `Limit` is then above the maximum for every width.
- `KlinesTypes`, `RowsBacked`, `RowsFew`: `TypeOK`, `RowCovered`, `RowsBounded`.

`PlatformSyncProofs`, for any pages, jobs, items and chunk size
(`PlatformConstants`):

- `PlatformInvariant`: `Spec => []PInv`. `Tracked` and `Added` tie the accumulator to
  the tasks outside the current chunk (`ChunkSettles`, `ChunkCounted`: what a
  chunk adds). `Ordered` says that a page that is closed or free has no mail
  and that what it shows and has in its mail is honest and in order;
  `Backed` that a live job's owner is open and busy, and that the last message
  to it is no later than the accumulator. `SendMail` is the lemma for every send.
- `PlatformTypes`, `OneJobRuns`, `TasksCounted`, `ProgressKeptHonest`: `TypeOK`,
  `OneJobPerView`, `ResultsCounted`, `ProgressHonest`.

`TradingPairsProofs`, for any symbols, intervals, changes, batches and crashes:

- `TableInvariant`: `Spec => []PInv`, with `AnnouncedLate` (nothing is announced or saved by
  a task before the listing that clears the sync times is over), `SavedTimed`
  (what a task has saved still has its times), `WriterHasExchange` and
  `NothingBeforeStart`.
- `TableTypes`, `ChainsKept`, `AnnouncedPairsSynced`: `TypeOK`, `TwoChains`,
  `AnnouncedSynced`.

`StrategyPageProofs`, for any number of runners and simulations:

- `PageInvariant`: `Spec => []PInv`, with `PageFirst` (nothing before the page),
  `SimsOfPage` (who starts simulations), `OneRunner` (a simulation has at most
  one runner, and has stopped it before it replies) and `Chain` (the refresh is one timer or one
  message: the cardinality of `OneRefreshChain`, by its witness).
- `PageTypes`, `NobodyUnwatched`, `OnlyOverwrittenLost`, `SpinnerHonest`,
  `RefreshesOnce`: `TypeOK`, `NoneUnwatched`, `LostRunners`, `SpinnerBacked`,
  `OneRefreshChain`.

`WsSessionProofs`, for any times with `Interval + 2 * Lag <= Timeout`:

- `SessionInvariant`: `Spec => []WInv`: the silence, the age of the ping and the time to
  the next check determine each other within the lag (`StartedSoon`,
  `NextCheckInTime`, `ChecksNotOverdue`).
- `SessionTypes`, `AnsweringClientKept`: `TypeOK`, `CutOnlyUnanswered`.
- `SessionWatches`: `Spec => ImplementsPeerWatch`.

So every invariant, both action properties (`WedgedForGood`, `BehindForGood`)
and all three refinements of the passing runs are proved for all values of the
constants. Only checked by TLC: the liveness properties (`CleanRunsExit`,
`BusyEnds`, `SilentEnds`, `CatchesUp`, `SpinnerEnds`, `NothingOutlivesPage`),
which are out of reach of the prover, and the violations. No module declares a
recursive operator, and every assumption is about constants, is named, and is
evaluated by a run.

## Not modelled

- Formatting, logging, percentages, URLs, signatures.
- The contents of a candle: its prices play no part in the synchronisation.
- The indicators, the simulation's results and the ranking of the search:
  floating point and decimal arithmetic.
- The market data WebSockets. The adapter ends at its first reconnection, where it calls
  `downcase` on a string (`binance_ws_adapter.ex:142`). It is started inside tasks
  (`binance_ws_supervisor.ex:67`) and so is never a child of a supervisor: nothing
  starts it again, and the supervisor reads the pairs once, at boot
  (`binance_ws_supervisor.ex:42`). Past that there is no protocol left.
- Components the application does not start: NATS listeners, user data
  WebSockets, the strategy supervisor with the mid caps runner, social workers,
  the Rust authentication.
- The search for pairs (`find_best_trading_pair_small_investor_use_case.ex`): a
  job, not linked to its page, that sends it progress, as in `PlatformSync`.
- Accounts and sessions: generated by `mix phx.gen.auth`, each operation one
  transaction.
- The exchange's own count of the weight. What is sent in a minute that did not
  grant it is bounded (`LateSendsBounded`), but the exchange counts by its own
  clock, and Req repeats a request that failed, by its default up to three times,
  without another check.
- The supervisor's limit of three restarts in five seconds, after which the
  application stops: the bound on crashes is below it.
- The ports: the two programs have different defaults for QuestDB (9009 in `Config`,
  8812 in `timeseriesdb.rs`); a connection succeeds or fails.

`PROJECT.json` gives, for each hazard no property covers, the reason.

## Plan

All of it is done but what is named under "Not modelled":

1. `SyncJob`, `HistoricalSync`, with refinement and proofs.
2. `FixedWindows`, `BinanceRateLimiter`, with refinement and proofs.
3. `KlinesSync` and `PlatformSync`, with proofs.
4. `PeerWatch`, `WsSession`, with refinement and proofs.
5. `TradingPairs`, the composition of the two programs over their shared table,
   with proofs.
6. `StrategyPage`, with proofs.

What would come next: the search page, once its callback is settled for an
empty list; the market data adapter, once it survives a reconnection.
