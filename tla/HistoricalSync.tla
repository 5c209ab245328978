--------------------------- MODULE HistoricalSync ---------------------------
(***************************************************************************)
(* The Rust batch program of rust/src/bin/sync_historical_data.rs: it      *)
(* refreshes the trading pairs, then downloads the candles of every pair   *)
(* and interval, all tasks interleaved on one thread (join_all), behind a  *)
(* token bucket, while a second thread displays the progress and ends the  *)
(* process when the counters say that everything is done.                  *)
(*                                                                         *)
(* Time is counted in slots.  A candle is a run of slots; what the         *)
(* exchange answered for a window, candles or nothing, is kept in QuestDB  *)
(* as the set of slots it accounts for.  A step of a task is the code      *)
(* between two awaits.                                                     *)
(***************************************************************************)
EXTENDS Integers, FiniteSets

CONSTANTS
  Pairs,              \* symbols the exchange may list
  Intervals,          \* "1m", "1h", "4h", "1d" in the code
  Duration,           \* how far back each interval reaches, in slots
  Width,              \* slots of one candle: the last one may still be open
  RequestsPerMinute,  \* capacity of the token bucket
  StartTime,          \* the clock when the first process starts
  MaxNow,             \* bound: the clock stops there
  MaxRuns,            \* bound: processes started
  Null                \* SQL NULL, or no candle in an answer

ASSUME ConstantsOK ==
  /\ IsFiniteSet(Pairs) /\ IsFiniteSet(Intervals) /\ Intervals # {}
  /\ Duration \in [Intervals -> Nat \ {0}]
  /\ Width \in [Intervals -> Nat \ {0}]
  /\ RequestsPerMinute \in Nat
  /\ StartTime \in Int /\ MaxNow \in Int /\ MaxRuns \in Nat
  /\ Null \notin Int
  /\ Null \notin [start : Int, end : Int]

VARIABLES
  now,        \* Utc::now()
  run,        \* how many processes have been started
  main,       \* where main() and execute() are
  row,        \* Postgres: sync_start_time and sync_end_time of a pair
  synced,     \* QuestDB: slots accounted for, per pair and interval
  tokens,     \* RateLimiter.tokens
  requests,   \* klines requests this process has sent
  total,      \* SyncProgress.total_tasks
  completed,  \* SyncProgress.completed_tasks
  display,    \* where the progress task is
  seen,       \* the completed_tasks it has loaded
  pc,         \* where each task is
  win         \* the window of each task and the end of its last candle

exchangeVars == <<row, synced>>
counters == <<total, completed>>
displayVars == <<display, seen>>
taskVars == <<pc, win>>
vars == <<now, run, main, row, synced, tokens, requests, total, completed,
          display, seen, pc, win>>

Tasks == Pairs \X Intervals

Resolved == {"done", "skipped", "failed"}
PC == {"idle", "start", "find", "acquire", "fetch", "save", "publish",
       "savePair", "publishPair"} \union Resolved

Window == [from : Int, to : Int, last : Int \union {Null}]
NoWindow == [from |-> 0, to |-> 0, last |-> Null]
Slots(a, b) == a .. (b - 1)

Submitted == {t \in Tasks : pc[t] # "idle"}
Done == {t \in Tasks : pc[t] \in {"done", "skipped"}}
Failed == {t \in Tasks : pc[t] = "failed"}
Fetching == {t \in Tasks : pc[t] = "fetch"}

\* The row that save_klines_and_update_pair writes: the pair came from the
\* exchange with both times unset, so the start is always the window's.
ClaimEnd(w) == IF w.last = Null THEN w.to ELSE w.last
\* Mutations: the end of the window is recorded, not that of its last candle;
\* an answer without candles is not provided for.
ClaimWholeWindow(w) == [start |-> w.from, end |-> w.to]
ClaimLast(w) == [start |-> w.from, end |-> w.last]
Claim(w) == [start |-> w.from, end |-> ClaimEnd(w)]

Init ==
  /\ now = StartTime
  /\ run = 0
  /\ main = "exited"
  /\ row = [p \in Pairs |-> Null]
  /\ synced = [t \in Tasks |-> {}]
  /\ tokens = RequestsPerMinute
  /\ requests = 0
  /\ total = 0
  /\ completed = 0
  /\ display = "off"
  /\ seen = 0
  /\ pc = [t \in Tasks |-> "idle"]
  /\ win = [t \in Tasks |-> NoWindow]

-----------------------------------------------------------------------------
(* The process: main() and execute().                                      *)

\* A process starts.
Boot ==
  /\ main = "exited" /\ run < MaxRuns
  /\ run' = run + 1
  /\ main' = "listing"
  /\ UNCHANGED <<now, exchangeVars, tokens, requests, counters, displayVars,
                 taskVars>>

\* A process ends, and its memory with it: the next one finds a full bucket,
\* zero counters, no task and no display, and both databases as they are.
End ==
  /\ main' = "exited"
  /\ tokens' = RequestsPerMinute
  /\ requests' = 0
  /\ total' = 0 /\ completed' = 0
  /\ display' = "off" /\ seen' = 0
  /\ pc' = [t \in Tasks |-> "idle"]
  /\ win' = [t \in Tasks |-> NoWindow]
  /\ UNCHANGED <<now, run, synced>>

\* SyncTradingPairsUseCase: the listed pairs are upserted one by one with both
\* sync times NULL; the first error stops the loop and the process.
ListPairs ==
  /\ main = "listing"
  /\ \E listed \in SUBSET Pairs :
       row' = [p \in Pairs |-> IF p \in listed THEN Null ELSE row[p]]
  /\ \/ /\ main' = "executing"
        /\ display' = "waiting"
        /\ UNCHANGED <<now, run, synced, tokens, requests, counters, seen,
                       taskVars>>
     \/ End

\* execute(): a second listing, the progress counters, one future per task.
\* A failed listing is only logged, and main goes on to await the display.
Execute ==
  /\ main = "executing"
  /\ \/ \E listed \in SUBSET Pairs :
          /\ completed' = 0
          /\ total' = Cardinality(listed) * Cardinality(Intervals)
          /\ pc' = [t \in Tasks |->
                      IF t \in listed \X Intervals THEN "start" ELSE "idle"]
          /\ main' = "joining"
     \/ main' = "awaiting" /\ UNCHANGED <<counters, pc>>
  /\ UNCHANGED <<now, run, exchangeVars, tokens, requests, displayVars, win>>

\* join_all has every result; the failures become one logged error.
Join ==
  /\ main = "joining"
  /\ \A t \in Tasks : pc[t] \in Resolved \union {"idle"}
  /\ main' = "awaiting"
  /\ UNCHANGED <<now, run, exchangeVars, tokens, requests, counters,
                 displayVars, taskVars>>

\* progress_task.await
Exit ==
  /\ main = "awaiting" /\ display = "done"
  /\ End /\ UNCHANGED row

Crash ==
  /\ main # "exited"
  /\ End /\ UNCHANGED row

Tick ==
  /\ now < MaxNow
  /\ now' = now + 1
  /\ UNCHANGED <<run, main, exchangeVars, tokens, requests, counters,
                 displayVars, taskVars>>

-----------------------------------------------------------------------------
(* One task: sync_trading_pair_interval and what it calls.                 *)

At(t, at) == main = "joining" /\ pc[t] = at
Goto(t, at) == pc' = [pc EXCEPT ![t] = at]

\* Ok(()): the task is counted.  Mutation: the shortcut forgets to count.
CompleteUncountedSkip(t, at) ==
  /\ Goto(t, at)
  /\ completed' = IF at = "skipped" THEN completed ELSE completed + 1
Complete(t, at) == Goto(t, at) /\ completed' = completed + 1

\* Err(_): the task is not counted.  Mutation: it is.
FailTaskCounted(t) == Goto(t, "failed") /\ completed' = completed + 1
FailTask(t) == Goto(t, "failed") /\ UNCHANGED completed

\* current_pair and current_interval are locked to name the task; the display
\* holds both locks while it sleeps.
Begin(t) ==
  /\ At(t, "start")
  /\ display # "sleeping"
  /\ win' = [win EXCEPT ![t].to = now]
  /\ Goto(t, "find")
  /\ UNCHANGED <<now, run, main, exchangeVars, tokens, requests, counters,
                 displayVars>>

Later(a, b) == IF b # Null /\ b > a THEN b ELSE a

\* determine_sync_start_time, the row unreadable counting as no row, and the
\* "already up to date" shortcut.
Determine(t) ==
  /\ At(t, "find")
  /\ \E latest \in {Null, IF row[t[1]] = Null THEN Null ELSE row[t[1]].end} :
       LET from == Later(win[t].to - Duration[t[2]], latest) IN
       \/ /\ from >= win[t].to
          /\ Complete(t, "skipped")
          /\ UNCHANGED win
       \/ /\ from < win[t].to
          /\ win' = [win EXCEPT ![t].from = from]
          /\ Goto(t, "acquire")
          /\ UNCHANGED completed
  /\ UNCHANGED <<now, run, main, exchangeVars, tokens, requests, total,
                 displayVars>>

\* RateLimiter::acquire.  The clock it reads is Instant::now().elapsed(), the
\* age of an instant taken just then: zero whole seconds, here and in new().
\* The refill branch is never taken; with no token the loop sleeps and retries.
\* Mutation: the exchange stores what it read.
TakeUnspent == tokens > 0 /\ UNCHANGED tokens
TakeToken == tokens > 0 /\ tokens' = tokens - 1

Acquire(t) ==
  /\ At(t, "acquire")
  /\ TakeToken
  /\ Goto(t, "fetch")
  /\ UNCHANGED <<now, run, main, exchangeVars, requests, counters,
                 displayVars, win>>

\* get_klines without a limit: some first part of the window, whose last
\* candle may close after the window does, or nothing, or an error.
Fetch(t) ==
  /\ At(t, "fetch")
  /\ requests' = requests + 1
  /\ \/ \E last \in ((win[t].from + 1) .. (win[t].to + Width[t[2]])) \union {Null} :
          /\ win' = [win EXCEPT ![t].last = last]
          /\ Goto(t, "save")
          /\ UNCHANGED completed
     \/ FailTask(t) /\ UNCHANGED win
  /\ UNCHANGED <<now, run, main, exchangeVars, tokens, total, displayVars>>

\* save_klines writes line by line under the writer's lock: an error leaves
\* any prefix behind and fails the task without counting it.
SaveKlines(t) ==
  /\ At(t, "save")
  /\ \/ /\ synced' = [synced EXCEPT ![t] =
                        @ \union Slots(win[t].from, ClaimEnd(win[t]))]
        /\ Goto(t, "publish")
        /\ UNCHANGED completed
     \/ /\ \E cut \in win[t].from .. ClaimEnd(win[t]) :
             synced' = [synced EXCEPT ![t] = @ \union Slots(win[t].from, cut)]
        /\ FailTask(t)
  /\ UNCHANGED <<now, run, main, row, tokens, requests, total,
                 displayVars, win>>

\* "klines:initialized" is sent or fails: an error is logged, no more.
PublishKlines(t) ==
  /\ At(t, "publish")
  /\ Goto(t, "savePair")
  /\ UNCHANGED <<now, run, main, exchangeVars, tokens, requests, counters,
                 displayVars, win>>

\* The pair's row takes this task's window.  An error is logged, and the task
\* still counts as completed.
SavePair(t) ==
  /\ At(t, "savePair")
  /\ \/ /\ row' = [row EXCEPT ![t[1]] = Claim(win[t])]
        /\ Goto(t, "publishPair")
        /\ UNCHANGED completed
     \/ Complete(t, "done") /\ UNCHANGED row
  /\ UNCHANGED <<now, run, main, synced, tokens, requests, total,
                 displayVars, win>>

\* "trading_pairs:initialized" is sent or fails; the task is completed.
PublishPair(t) ==
  /\ At(t, "publishPair")
  /\ Complete(t, "done")
  /\ UNCHANGED <<now, run, main, exchangeVars, tokens, requests, total,
                 displayVars, win>>

Step(t) ==
  \/ Begin(t)
  \/ Determine(t)
  \/ Acquire(t)
  \/ Fetch(t)
  \/ SaveKlines(t)
  \/ PublishKlines(t)
  \/ SavePair(t)
  \/ PublishPair(t)

-----------------------------------------------------------------------------
(* The progress task, on a thread of its own.                              *)

DisplayMove(from, to) == display = from /\ display' = to
DisplayRest == UNCHANGED <<now, run, main, exchangeVars, tokens, requests,
                           counters, taskVars>>

DisplayStart ==
  /\ total # 0
  /\ DisplayMove("waiting", "loading")
  /\ UNCHANGED seen /\ DisplayRest

\* completed_tasks is loaded before the locks are taken: it may be old when
\* it is compared.  total_tasks no longer changes once it is not zero.
DisplayLoad ==
  /\ DisplayMove("loading", "locking")
  /\ seen' = completed
  /\ DisplayRest

DisplayFinish ==
  /\ seen >= total
  /\ DisplayMove("locking", "done")
  /\ UNCHANGED seen /\ DisplayRest

DisplaySleep ==
  /\ seen < total
  /\ DisplayMove("locking", "sleeping")
  /\ UNCHANGED seen /\ DisplayRest

DisplayWake ==
  /\ DisplayMove("sleeping", "loading")
  /\ UNCHANGED seen /\ DisplayRest

Display ==
  \/ DisplayStart
  \/ DisplayLoad
  \/ DisplayFinish
  \/ DisplaySleep
  \/ DisplayWake

-----------------------------------------------------------------------------
Next ==
  \/ Boot
  \/ ListPairs
  \/ Execute
  \/ Join
  \/ Exit
  \/ Crash
  \/ Tick
  \/ \E t \in Tasks : Step(t)
  \/ Display

Spec == Init /\ [][Next]_vars

(***************************************************************************)
(* Fairness: tokio polls a future that can advance, and every call to a    *)
(* service returns, with a result or an error.  The tokio mutex is first   *)
(* come first served, so a task that waits for the display's locks gets    *)
(* them although they are taken again and again: strong fairness of Begin. *)
(* Nothing makes a process start, crash or the exchange succeed.           *)
(***************************************************************************)
Fairness ==
  /\ WF_vars(ListPairs) /\ WF_vars(Execute) /\ WF_vars(Join) /\ WF_vars(Exit)
  /\ \A t \in Tasks : SF_vars(Begin(t)) /\ WF_vars(Step(t))
  /\ WF_vars(Display)

FairSpec == Spec /\ Fairness

-----------------------------------------------------------------------------
(* Properties.                                                             *)

\* Every variable stays within the values the code can give it.
TypeOK ==
  /\ now \in Int /\ run \in Nat
  /\ main \in {"exited", "listing", "executing", "joining", "awaiting"}
  /\ row \in [Pairs -> {Null} \union [start : Int, end : Int]]
  /\ synced \in [Tasks -> SUBSET Int]
  /\ tokens \in Nat /\ requests \in Nat
  /\ total \in Nat /\ completed \in Nat /\ seen \in Nat
  /\ display \in {"off", "waiting", "loading", "locking", "sleeping", "done"}
  /\ pc \in [Tasks -> PC]
  /\ win \in [Tasks -> Window]

\* Every request to the exchange is paid for by a token and no token is lost
\* or made, in every interleaving of the tasks with the bucket: a process
\* sends at most RequestsPerMinute klines requests in its whole life.
RequestBudget ==
  tokens + requests + Cardinality(Fetching) = RequestsPerMinute

\* completed_tasks counts the tasks that returned Ok, each once, on whichever
\* of the three paths that increment it; total_tasks counts the tasks.
CompletedCounts ==
  /\ completed = Cardinality(Done)
  /\ total = Cardinality(Submitted)
  /\ seen <= completed

\* The row of a pair never promises more than QuestDB holds: for some
\* interval of the pair the whole claimed window has been written before,
\* although a task may fail or the process die between the two stores.
WatermarkBacked ==
  \A p \in Pairs : row[p] # Null =>
    \E i \in Intervals : Slots(row[p].start, row[p].end) \subseteq synced[<<p, i>>]

\* The end of a pair's row can be trusted for the shortest reach, although each
\* task starts where a row left by another interval ends and the row keeps only
\* the last window: the slots from some interval's reach back from now up to
\* that end are in QuestDB, if only for the pair's intervals taken together.
PairHolds(p) == UNION {synced[<<p, i>>] : i \in Intervals}
WatermarkReaches ==
  \A p \in Pairs : row[p] # Null =>
    \E i \in Intervals : Slots(now - Duration[i], row[p].end) \subseteq PairHolds(p)

\* The batch refines the abstract job: tasks end once, and "Sync completed!"
\* is displayed only when every task submitted has succeeded.
Job == INSTANCE SyncJob WITH
         submitted <- Submitted, done <- Done, failed <- Failed,
         reported <- (display = "done")
ImplementsSyncJob == Job!Spec

\* What can keep the process from ending: no task at all, a failed task, or an
\* empty bucket with a task waiting for it.
Wedged ==
  \/ main = "awaiting" /\ total = 0
  \/ Failed # {}
  \/ tokens = 0 /\ \E t \in Tasks : pc[t] = "acquire"

\* Unless one of these three happens, the tasks finish, the display sees it
\* and the process ends.
CleanRunsExit == (main = "joining") ~> (main = "exited" \/ Wedged)

\* Each of the three is final: no step of the tasks, the bucket or the display
\* resolves it, the display never announces completion, and so the process ends
\* only if it is killed.
WedgedForGood ==
  [][Wedged => display # "done" /\ (Wedged' \/ main' = "exited")]_vars

\* "Wait for progress display to complete": once the batch has tasks to run,
\* main's wait for the display ends.
ProcessExits == (main = "joining" /\ total # 0) ~> (main = "exited")

\* "Wait for next refill": a task waiting for a token gets one.
AcquirersServed ==
  \A t \in Tasks : (pc[t] = "acquire") ~> (pc[t] # "acquire")

\* "Skipping sync ... - already up to date": a skipped task's window, from its
\* duration back to its end time, is in QuestDB already.
SkippedIsUpToDate ==
  \A t \in Tasks : pc[t] = "skipped" =>
    Slots(win[t].to - Duration[t[2]], win[t].to) \subseteq synced[t]
=============================================================================
