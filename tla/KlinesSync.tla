----------------------------- MODULE KlinesSync -----------------------------
(***************************************************************************)
(* SyncHistoricalDataForSymbolUseCase, its repository of sync histories    *)
(* and its QuestDB adapter: how the candles of one symbol are brought up   *)
(* to date from the point its history row remembers.                       *)
(*                                                                         *)
(* A worker is a task of a platform sync.  Within one platform sync every  *)
(* interval has one task, but two administrators, or one who reloads the   *)
(* page, run two syncs at once, and then two workers meet on an interval.  *)
(*                                                                         *)
(* Time is a number of units.  A candle is named by the time it opens; the *)
(* exchange knows when it closes, which for months is not what the code    *)
(* takes for their width.                                                  *)
(***************************************************************************)
EXTENDS Integers, Sequences, FiniteSets

CONSTANTS
  Workers,    \* tasks that may run at the same time
  Intervals,  \* those synchronised, of "1m", "1h", "1d", "1w", "1M"
  Width,      \* units of one candle by the code: 30 days for a month
  ClosesAt,   \* the candles of the exchange: when each that opens closes
  Span,       \* how far back the first sync of an interval reaches
  MaxLimit,   \* candles the code asks for at most: 5000
  MaxAnswer,  \* candles an answer holds at most: 1000 by the adapter's doc
  StartTime,  \* the clock at the start
  MaxNow,     \* bound: the clock stops there
  MaxTasks    \* bound: tasks started

ASSUME KlinesConstants ==
  /\ IsFiniteSet(Workers)
  /\ Intervals # {} /\ Intervals \subseteq {"1m", "1h", "1d", "1w", "1M"}
  /\ Width \in [Intervals -> Nat \ {0}]
  /\ DOMAIN ClosesAt = Intervals
  /\ \A i \in Intervals : \A c \in DOMAIN ClosesAt[i] :
       /\ c \in Int /\ ClosesAt[i][c] \in Int
       /\ \A d \in DOMAIN ClosesAt[i] : d > c <=> d > ClosesAt[i][c]
  /\ Span \in [Intervals -> Nat]
  /\ MaxLimit \in Nat /\ MaxAnswer \in Nat \ {0} /\ MaxTasks \in Nat
  /\ StartTime \in Nat /\ MaxNow \in Nat

VARIABLES
  now,      \* DateTime.utc_now
  rows,     \* sync_histories: per interval, the rows in order of insertion
  tables,   \* QuestDB: per table, the candles in it
  lost,     \* history: candles whose write failed after the row had moved
  started,  \* tasks started so far
  pc,       \* where each worker is
  task      \* what it has in hand

vars == <<now, rows, tables, lost, started, pc, task>>

\* Table names are in lower case.
Downcase(i) == IF i = "1M" THEN "1m" ELSE i
Tables == {Downcase(i) : i \in Intervals}

Kline == [interval : Intervals, candle : Int, closed : BOOLEAN]
Row == [last : Int, inserted : Int]

\* The window asked for, the last candle returned, when it was, and the row
\* found, 0 for none.
Task == [interval : Intervals, from : Int, to : Int, last : Int, fetched : Int,
         row : Nat]
NoTask == [interval |-> CHOOSE i \in Intervals : TRUE, from |-> 0, to |-> 0,
           last |-> 0, fetched |-> 0, row |-> 0]

Init ==
  /\ now = StartTime
  /\ rows = [i \in Intervals |-> <<>>]
  /\ tables = [t \in Tables |-> {}]
  /\ lost = [i \in Intervals |-> {}]
  /\ started = 0
  /\ pc = [w \in Workers |-> "idle"]
  /\ task = [w \in Workers |-> NoTask]

At(w, at) == pc[w] = at
Goto(w, at) == pc' = [pc EXCEPT ![w] = at]
IntervalOf(w) == task[w].interval

-----------------------------------------------------------------------------
(* What the exchange returns.                                              *)

\* div of Elixir drops the fraction, on either side of zero.
Div(a, b) == IF a >= 0 THEN a \div b ELSE -((-a) \div b)

\* compute_klines_limits.  Mutations: the candle that starts the window is not
\* counted; a window too long is cut instead of refused.
LimitBetween(i, from, to) == Div(to - from, Width[i])
LimitCut(i, from, to) ==
  IF Div(to - from, Width[i]) < MaxLimit THEN Div(to - from, Width[i]) + 1 ELSE MaxLimit
Limit(i, from, to) == Div(to - from, Width[i]) + 1

\* The candles that open in a window, and those of them that are returned: the
\* first ones, up to the limit asked for and to what an answer holds.
Candles(i) == DOMAIN ClosesAt[i]
OpensIn(i, from, to) == {c \in Candles(i) : from <= c /\ c <= to}
Returned(i, from, to) ==
  {c \in OpensIn(i, from, to) :
     Cardinality(OpensIn(i, from, c)) \in 1 .. Limit(i, from, to) \intersect 1 .. MaxAnswer}

\* close_time, in whole seconds: the field drops the 999 ms.
CloseTime(i, c) == ClosesAt[i][c]

-----------------------------------------------------------------------------
(* The steps of a task.                                                    *)

\* create_sync_task: the window ends now and reaches back the given days.
Start(w) ==
  /\ At(w, "idle") /\ started < MaxTasks
  /\ started' = started + 1
  /\ \E i \in Intervals :
       task' = [task EXCEPT ![w] = [NoTask EXCEPT !.interval = i, !.to = now,
                                                  !.from = now - Span[i]]]
  /\ Goto(w, "read")
  /\ UNCHANGED <<now, rows, tables, lost>>

\* get_most_recent orders by inserted_at, which has whole seconds: of several
\* rows of the latest second any may come first.
MostRecent(i) ==
  {n \in DOMAIN rows[i] :
     \A m \in DOMAIN rows[i] : rows[i][m].inserted <= rows[i][n].inserted}

\* Mutation: the window starts a candle later.
ResumeLater(i, n) == rows[i][n].last + Width[i]
Resume(i, n) == rows[i][n].last

\* The row, when there is one, decides where the window starts.
ReadRow(w) ==
  /\ At(w, "read")
  /\ LET i == IntervalOf(w) IN
     \/ rows[i] = <<>> /\ UNCHANGED task
     \/ \E n \in MostRecent(i) :
          task' = [task EXCEPT ![w].from = Resume(i, n)]
  /\ Goto(w, "fetch")
  /\ UNCHANGED <<now, rows, tables, lost, started>>

\* Every failure raises and is rescued by the task, which reports an error.
Fail(w) == Goto(w, "failed")

\* get_klines: a limit beyond MaxLimit is an error that does not match {:ok, _},
\* and one below one has no weight; both raise before anything is sent.  The
\* exchange returns the candles that open in the window, or the first of them,
\* or none, or an error.
Fetch(w) ==
  /\ At(w, "fetch")
  /\ LET i == IntervalOf(w)
         asked == Limit(i, task[w].from, task[w].to) \in 1 .. MaxLimit
         klines == Returned(i, task[w].from, task[w].to)
     IN
     \/ ~asked /\ Fail(w) /\ UNCHANGED task
     \/ /\ asked
        /\ \E last \in klines :
             /\ \A c \in klines : c <= last
             /\ task' = [task EXCEPT ![w] = [@ EXCEPT !.last = last, !.fetched = now]]
        /\ Goto(w, "find")
     \/ asked /\ klines = {} /\ Goto(w, "done") /\ UNCHANGED task
     \/ asked /\ Fail(w) /\ UNCHANGED task
  /\ UNCHANGED <<now, rows, tables, lost, started>>

\* upsert reads the row again ...
FindRow(w) ==
  /\ At(w, "find")
  /\ LET i == IntervalOf(w) IN
     \/ rows[i] = <<>> /\ task' = [task EXCEPT ![w].row = 0]
     \/ \E n \in MostRecent(i) : task' = [task EXCEPT ![w].row = n]
  /\ Goto(w, "write")
  /\ UNCHANGED <<now, rows, tables, lost, started>>

\* ... and then updates the one it found or inserts one, there being no unique
\* index.  Mutations: it always inserts; it deletes what it should update.
UpsertDelete(i, n, last) ==
  IF n = 0 THEN Append(rows[i], [last |-> last, inserted |-> now]) ELSE <<>>
UpsertInsert(i, n, last) == Append(rows[i], [last |-> last, inserted |-> now])
Upsert(i, n, last) ==
  IF n = 0 THEN Append(rows[i], [last |-> last, inserted |-> now])
           ELSE [rows[i] EXCEPT ![n].last = last]

WriteRow(w) ==
  /\ At(w, "write")
  /\ LET i == IntervalOf(w) IN
       rows' = [rows EXCEPT ![i] = Upsert(i, task[w].row, CloseTime(i, task[w].last))]
  /\ Goto(w, "save")
  /\ UNCHANGED <<now, tables, lost, started, task>>

\* What a worker has in hand, and what is stored of it, a candle that was still
\* open as it was when it was fetched.
Held(w) == OpensIn(IntervalOf(w), task[w].from, task[w].last)
Klines(w, cs) ==
  {[interval |-> IntervalOf(w), candle |-> c,
    closed |-> CloseTime(IntervalOf(w), c) < task[w].fetched] : c \in cs}
Stored(w, cs) == [tables EXCEPT ![Downcase(IntervalOf(w))] = @ \union Klines(w, cs)]

\* save_klines_tuples sends all lines at once.
Save(w) ==
  /\ At(w, "save")
  /\ tables' = Stored(w, Held(w))
  /\ Goto(w, "done")
  /\ UNCHANGED <<now, rows, lost, started, task>>

\* The connection is refused or breaks, or the node dies: the lines before some
\* candle are stored.
SaveError(w) ==
  /\ At(w, "save")
  /\ \E cut \in Held(w) :
       /\ tables' = Stored(w, {c \in Held(w) : c < cut})
       /\ lost' = [lost EXCEPT ![IntervalOf(w)] = @ \union {c \in Held(w) : c >= cut}]
  /\ Fail(w)
  /\ UNCHANGED <<now, rows, started, task>>

\* The database raises, or the node dies, before the row is written.
Raise(w) ==
  /\ pc[w] \in {"read", "find", "write"}
  /\ Fail(w)
  /\ UNCHANGED <<now, rows, tables, lost, started, task>>

End(w) ==
  /\ pc[w] \in {"done", "failed"}
  /\ Goto(w, "idle")
  /\ task' = [task EXCEPT ![w] = NoTask]
  /\ UNCHANGED <<now, rows, tables, lost, started>>

Tick ==
  /\ now < MaxNow
  /\ now' = now + 1
  /\ UNCHANGED <<rows, tables, lost, started, pc, task>>

Step(w) ==
  \/ Start(w)
  \/ ReadRow(w)
  \/ Fetch(w)
  \/ FindRow(w)
  \/ WriteRow(w)
  \/ Save(w)
  \/ SaveError(w)
  \/ Raise(w)
  \/ End(w)

Next ==
  \/ \E w \in Workers : Step(w)
  \/ Tick

Spec == Init /\ [][Next]_vars

-----------------------------------------------------------------------------
(* Properties.                                                             *)

\* Every variable stays within the values the code can give it.
TypeOK ==
  /\ now \in Int
  /\ rows \in [Intervals -> Seq(Row)]
  /\ tables \in [Tables -> SUBSET Kline]
  /\ lost \in [Intervals -> SUBSET Int]
  /\ started \in Nat
  /\ pc \in [Workers -> {"idle", "read", "fetch", "find", "write", "save",
                         "done", "failed"}]
  /\ task \in [Workers -> Task]
  /\ \A w \in Workers : task[w].row \in 0 .. Len(rows[IntervalOf(w)])

HasKline(i, c) == \E k \in tables[Downcase(i)] : k.interval = i /\ k.candle = c
InHand(i, c) == \E w \in Workers : IntervalOf(w) = i /\ pc[w] = "save" /\ c \in Held(w)

\* However workers race for the rows of an interval, and however short the
\* answers of the exchange are, a row never runs ahead of the candles: each
\* candle of the span before now that opened by the row's last point is in
\* QuestDB, on its way there, or was lost by a write that failed.
RowCovered ==
  \A i \in Intervals : \A n \in DOMAIN rows[i] :
    \A c \in OpensIn(i, now - Span[i], rows[i][n].last) :
      HasKline(i, c) \/ InHand(i, c) \/ c \in lost[i]

\* The answer leaves nothing out of the window: there are no more candles in it
\* than an answer holds, and they are as wide as the code takes them for.
AnsweredWhole(w) ==
  LET i == IntervalOf(w)
      klines == OpensIn(i, task[w].from, task[w].to)
  IN
  /\ Cardinality(klines) <= MaxAnswer
  /\ \A c, d \in klines : c < d => c + Width[i] <= d

\* A success that was answered whole has caught up, whatever was cut before it,
\* whichever row it resumed from and whoever wrote that row meanwhile: each
\* candle of the span before now that opened by the end of its window is in
\* QuestDB, on its way there, or was lost by a write that failed.
SuccessCovers ==
  \A w \in Workers : pc[w] = "done" /\ AnsweredWhole(w) =>
    LET i == IntervalOf(w) IN
    \A c \in OpensIn(i, now - Span[i], task[w].to) :
      HasKline(i, c) \/ InHand(i, c) \/ c \in lost[i]

\* The read-then-write upsert duplicates rows only in the race of the workers
\* that all found none: there are never more rows than workers.
RowsBounded == \A i \in Intervals : Len(rows[i]) <= Cardinality(Workers)

\* An interval has fallen behind when the window from any of its rows to now,
\* or to where the window of a task now at work ends, holds more than MaxLimit
\* candles.
TooLong(i, from, to) == to - from >= MaxLimit * Width[i]
Late(w) ==
  LET i == IntervalOf(w) IN
  /\ pc[w] \notin {"find", "write"}
  /\ pc[w] = "read" => \A n \in DOMAIN rows[i] : TooLong(i, rows[i][n].last, task[w].to)
  /\ pc[w] = "fetch" => TooLong(i, task[w].from, task[w].to)
Behind(i) ==
  /\ rows[i] # <<>>
  /\ \A n \in DOMAIN rows[i] : TooLong(i, rows[i][n].last, now)
  /\ \A w \in Workers : IntervalOf(w) = i => Late(w)

\* No sync catches up with it: the refused limit fails every task before it asks
\* the exchange for anything, so the rows stay and the gap only grows.
BehindForGood ==
  [][\A i \in Intervals : Behind(i) => Behind(i)' /\ rows'[i] = rows[i]]_vars

\* "Syncs all historical data": when a task succeeds, every candle of its span
\* that had closed by then is in QuestDB, as it was when it closed.
SyncedWindow ==
  \A w \in Workers : pc[w] = "done" =>
    LET i == IntervalOf(w) IN
    \A c \in OpensIn(i, task[w].to - Span[i], task[w].to) :
      CloseTime(i, c) < task[w].to =>
        [interval |-> i, candle |-> c, closed |-> TRUE] \in tables[Downcase(i)]

\* "Fetches kline data from QuestDB for a given symbol and interval": the table
\* of an interval holds candles of that interval only.
TablesUnmixed ==
  \A t \in Tables : \A j, k \in tables[t] : j.interval = k.interval
=============================================================================
