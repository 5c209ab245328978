---------------------------- MODULE TradingPairs ----------------------------
(***************************************************************************)
(* The table of trading pairs in Postgres and its two writers: the worker  *)
(* of the Elixir application, which syncs it every hour                    *)
(* (trading_pairs_sync_worker.ex), and the Rust batch, which lists the     *)
(* pairs when it starts and writes a pair again after each of its tasks    *)
(* (sync_historical_data.rs).  Each writes what it fetched some time ago.  *)
(*                                                                         *)
(* Of what the exchange says of a symbol, a version stands for the filters *)
(* and assets.  What a task does before it saves is in HistoricalSync.     *)
(***************************************************************************)
EXTENDS Integers, FiniteSets

CONSTANTS
  Symbols,
  Disabled,     \* symbols with a coin of :disabled_coins
  Intervals,    \* of the batch's tasks
  MaxVersion,   \* bound: changes of a symbol at the exchange
  MaxRuns,      \* bound: batches started
  MaxCrashes,   \* bound: crashes of the worker
  Null

ASSUME TableConstants ==
  /\ Disabled \subseteq Symbols
  /\ MaxVersion \in Nat /\ MaxRuns \in Nat /\ MaxCrashes \in Nat
  /\ Null \notin [version : Nat, status : {"TRADING", "BREAK"}, times : BOOLEAN]

VARIABLES
  listing,    \* exchangeInfo: what the exchange says of each symbol
  row,        \* trading_pairs; times: the sync times are set
  exchange,   \* there is a row of exchanges for "binance"
  work,       \* where the worker is in handle_info
  timers,     \* its timers that are running
  mailbox,    \* its messages :sync_trading_pairs
  fetched,    \* the listing it holds
  crashes,
  batch,      \* where the process of the batch is
  runs,
  listed,     \* the listing the batch holds
  unsaved,    \* the pairs save_all has still to save
  task,       \* where each task of the batch is
  announced   \* pairs it has published as initialized

worker == <<work, timers, mailbox, fetched, crashes>>
rust == <<batch, runs, listed, unsaved, task, announced>>
vars == <<listing, row, exchange, work, timers, mailbox, fetched, crashes,
          batch, runs, listed, unsaved, task, announced>>

Info == [version : Nat, status : {"TRADING", "BREAK"}]
Row == [version : Nat, status : {"TRADING", "BREAK"}, times : BOOLEAN]
Tasks == Symbols \X Intervals

Init ==
  /\ listing = [s \in Symbols |-> [version |-> 0, status |-> "TRADING"]]
  /\ row = [s \in Symbols |-> Null]
  /\ exchange \in BOOLEAN
  /\ work = "down" /\ timers = 0 /\ mailbox = 0
  /\ fetched = listing
  /\ crashes = 0
  /\ batch = "off" /\ runs = 0
  /\ listed = listing
  /\ unsaved = {}
  /\ task = [t \in Tasks |-> "none"]
  /\ announced = {}

\* The exchange changes a symbol's filters, and may halt or resume it.
Change(s) ==
  /\ listing[s].version < MaxVersion
  /\ \E status \in {"TRADING", "BREAK"} :
       listing' = [listing EXCEPT ![s] = [version |-> @.version + 1, status |-> status]]
  /\ UNCHANGED <<row, exchange, worker, rust>>

-----------------------------------------------------------------------------
(* The worker.                                                             *)

\* init(): a message at once, and a timer.  Mutation: the message only.
StartOneChain == work' = "idle" /\ mailbox' = 1 /\ timers' = 0
StartChains == work' = "idle" /\ mailbox' = 1 /\ timers' = 1

StartWorker ==
  /\ work = "down"
  /\ StartChains
  /\ UNCHANGED <<listing, row, exchange, fetched, crashes, rust>>

Fire ==
  /\ timers > 0
  /\ timers' = timers - 1 /\ mailbox' = mailbox + 1
  /\ UNCHANGED <<listing, row, exchange, work, fetched, crashes, rust>>

Receive ==
  /\ work = "idle" /\ mailbox > 0
  /\ work' = "asking" /\ mailbox' = mailbox - 1
  /\ UNCHANGED <<listing, row, exchange, timers, fetched, crashes, rust>>

\* The end of handle_info, whatever the result was: schedule_sync().
\* Mutation: an error is logged and no more.
FinishSuccess(ok) == work' = "idle" /\ timers' = IF ok THEN timers + 1 ELSE timers
Finish(ok) == work' = "idle" /\ timers' = timers + 1

\* get_exchange_info(); any other answer, or an error, ends the sync.
Ask ==
  /\ work = "asking"
  /\ \/ fetched' = listing /\ work' = "listed" /\ UNCHANGED timers
     \/ Finish(FALSE) /\ UNCHANGED fetched
  /\ UNCHANGED <<listing, row, exchange, mailbox, crashes, rust>>

\* get_or_create_binance_exchange(); the insertion may give an error.
\* Mutation: the exchange is not created.
UseExchange == UNCHANGED exchange
EnsureExchange == exchange' = TRUE

FindExchange ==
  /\ work = "listed"
  /\ \/ EnsureExchange /\ work' = "writing" /\ UNCHANGED timers
     \/ ~exchange /\ Finish(FALSE) /\ UNCHANGED exchange
  /\ UNCHANGED <<listing, row, mailbox, fetched, crashes, rust>>

Valid(s) == s \notin Disabled /\ fetched[s].status = "TRADING"

Times(s) == row[s] # Null /\ row[s].times

\* The fields of the schema are replaced: the sync times are none of them.
\* Mutation: every column is replaced.
WithInfoOnly(s, info) == [version |-> info.version, status |-> info.status, times |-> FALSE]
WithInfo(s, info) == [version |-> info.version, status |-> info.status, times |-> Times(s)]

\* upsert_trading_pairs(): one transaction, which may fail.
Upsert ==
  /\ work = "writing"
  /\ \/ /\ row' = [s \in Symbols |-> IF Valid(s) THEN WithInfo(s, fetched[s]) ELSE row[s]]
        /\ Finish(TRUE)
     \/ Finish(FALSE) /\ UNCHANGED row
  /\ UNCHANGED <<listing, exchange, mailbox, fetched, crashes, rust>>

\* A call of the limiter or of the repository raises: the supervisor starts
\* the worker again; the timers of the old one send to nobody.
Crash ==
  /\ work \in {"asking", "listed", "writing"}
  /\ crashes < MaxCrashes
  /\ crashes' = crashes + 1
  /\ StartChains
  /\ UNCHANGED <<listing, row, exchange, fetched, rust>>

-----------------------------------------------------------------------------
(* The batch.                                                              *)

Boot ==
  /\ batch = "off" /\ runs < MaxRuns
  /\ batch' = "config" /\ runs' = runs + 1
  /\ unsaved' = {} /\ task' = [t \in Tasks |-> "none"] /\ announced' = {}
  /\ UNCHANGED <<listing, row, exchange, worker, listed>>

\* The process ends: it returned, panicked or was killed.
Quit ==
  /\ batch # "off"
  /\ batch' = "off"
  /\ UNCHANGED <<listing, row, exchange, worker, runs, listed, unsaved, task, announced>>

\* One step of main() before the first listing; if it fails, Quit.
StartUp(at, next) ==
  /\ batch = at
  /\ batch' = next
  /\ UNCHANGED <<listing, row, exchange, worker, runs, listed, unsaved, task, announced>>

\* PostgresConfig::from_url: the rest of the URL has defaults.
DatabaseUrl == {"unset", "unparsable", "otherScheme", "noHost", "good"}
FromUrl(url) == url \notin {"unset", "unparsable", "otherScheme", "noHost"}

\* Config::new(): a bad number is replaced by a default, a bad URL panics.
LoadConfig == \E url \in DatabaseUrl : FromUrl(url) /\ StartUp("config", "nats")
ConnectNats == StartUp("nats", "questdb")
ConnectQuestDb == StartUp("questdb", "postgres")
ConnectPostgres == StartUp("postgres", "list")

\* SyncTradingPairsUseCase: every symbol the exchange lists, whatever its
\* coins and its status.
List ==
  /\ batch = "list"
  /\ batch' = "save" /\ listed' = listing /\ unsaved' = Symbols
  /\ UNCHANGED <<listing, row, exchange, worker, runs, task, announced>>

\* save(): all columns are written; the pair belongs to exchange 1, whose row
\* must exist.
Save(s, times) ==
  /\ exchange
  /\ row' = [row EXCEPT ![s] = [version |-> listed[s].version,
                                status |-> listed[s].status, times |-> times]]

\* save_all: pair by pair, from the answer, without sync times.
SaveListed(s) ==
  /\ batch = "save" /\ s \in unsaved
  /\ Save(s, FALSE)
  /\ unsaved' = unsaved \ {s}
  /\ UNCHANGED <<listing, exchange, worker, batch, runs, listed, task, announced>>

SavedAll ==
  /\ batch = "save" /\ unsaved = {}
  /\ batch' = "execute"
  /\ UNCHANGED <<listing, row, exchange, worker, runs, listed, unsaved, task, announced>>

\* execute(): a second listing; without one there are no tasks.
Execute ==
  /\ batch = "execute"
  /\ batch' = "joining"
  /\ \/ listed' = listing /\ task' = [t \in Tasks |-> "running"]
     \/ UNCHANGED <<listed, task>>
  /\ UNCHANGED <<listing, row, exchange, worker, runs, unsaved, announced>>

\* A task saves the pair it was given by execute(), with the sync times;
\* or it is skipped, or fails before or while it saves.
SavePair(t) ==
  /\ batch = "joining" /\ task[t] = "running"
  /\ \/ Save(t[1], TRUE) /\ task' = [task EXCEPT ![t] = "saved"]
     \/ task' = [task EXCEPT ![t] = "ended"] /\ UNCHANGED row
  /\ UNCHANGED <<listing, exchange, worker, batch, runs, listed, unsaved, announced>>

\* "trading_pairs:initialized" is sent, or fails.
PublishPair(t) ==
  /\ batch = "joining" /\ task[t] = "saved"
  /\ task' = [task EXCEPT ![t] = "ended"]
  /\ announced' \in {announced, announced \union {t[1]}}
  /\ UNCHANGED <<listing, row, exchange, worker, batch, runs, listed, unsaved>>

Worker ==
  \/ StartWorker
  \/ Fire
  \/ Receive
  \/ Ask
  \/ FindExchange
  \/ Upsert
  \/ Crash

Batch ==
  \/ Boot
  \/ Quit
  \/ LoadConfig
  \/ ConnectNats
  \/ ConnectQuestDb
  \/ ConnectPostgres
  \/ List
  \/ \E s \in Symbols : SaveListed(s)
  \/ SavedAll
  \/ Execute
  \/ \E t \in Tasks : SavePair(t) \/ PublishPair(t)

Next ==
  \/ \E s \in Symbols : Change(s)
  \/ Worker
  \/ Batch

Spec == Init /\ [][Next]_vars

(***************************************************************************)
(* Fairness: the application is started, timers fire, the worker handles   *)
(* its messages and each call returns; and neither the exchange nor        *)
(* Postgres fails for ever: of the syncs, infinitely many get an answer    *)
(* and are committed.  Nobody has to start, or to finish, a batch.         *)
(***************************************************************************)
Answered == Ask /\ work' = "listed"
Found == FindExchange /\ work' = "writing"
Committed == Upsert /\ \A s \in Symbols : Valid(s) => row'[s] = WithInfo(s, fetched[s])
Fairness ==
  /\ WF_vars(StartWorker) /\ WF_vars(Fire) /\ WF_vars(Receive)
  /\ WF_vars(Ask) /\ WF_vars(FindExchange) /\ WF_vars(Upsert)
  /\ SF_vars(Answered) /\ SF_vars(Found) /\ SF_vars(Committed)
FairSpec == Spec /\ Fairness

-----------------------------------------------------------------------------
(* Properties.                                                             *)

\* Every variable keeps its type, and a pair's row belongs to an exchange
\* that has one.
TypeOK ==
  /\ listing \in [Symbols -> Info]
  /\ row \in [Symbols -> Row \union {Null}]
  /\ exchange \in BOOLEAN
  /\ (\E s \in Symbols : row[s] # Null) => exchange
  /\ work \in {"down", "idle", "asking", "listed", "writing"}
  /\ timers \in Nat /\ mailbox \in Nat
  /\ fetched \in [Symbols -> Info]
  /\ crashes \in 0 .. MaxCrashes
  /\ batch \in {"off", "config", "nats", "questdb", "postgres", "list", "save",
                "execute", "joining"}
  /\ runs \in 0 .. MaxRuns
  /\ listed \in [Symbols -> Info]
  /\ unsaved \in SUBSET Symbols
  /\ task \in [Tasks -> {"none", "running", "saved", "ended"}]
  /\ announced \in SUBSET Symbols

Handling == IF work \in {"asking", "listed", "writing"} THEN 1 ELSE 0

\* The worker always has two chains of syncs under way, the one init() sent
\* and the one it scheduled: they neither die with an error or a crash, which
\* would stop the syncs, nor multiply.
TwoChains == work # "down" => timers + mailbox + Handling = 2

\* A pair that the batch has announced as initialized has its sync times in
\* the table, whatever the worker writes to the same row in the meantime.
AnnouncedSynced == \A s \in announced : Times(s)

\* A symbol that trades gets its row, and when the exchange has stopped
\* changing it the row is up to date for good, although syncs fail, the worker
\* crashes and a batch writes back, task by task, what it listed long ago.
UpToDate(s) ==
  listing[s].status = "TRADING" =>
    row[s] # Null /\ row[s].version = listing[s].version
CatchesUp == \A s \in Symbols \ Disabled : <>[]UpToDate(s)
=============================================================================
