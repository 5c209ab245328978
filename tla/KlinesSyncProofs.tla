-------------------------- MODULE KlinesSyncProofs --------------------------
(***************************************************************************)
(* Proofs about KlinesSync, for any workers, intervals, candles, spans and *)
(* limits, and any number of tasks.                                        *)
(***************************************************************************)
EXTENDS KlinesSync, TLAPS, FiniteSetTheorems

\* A candle that is stored, on its way, or lost by a write that failed.
Covered(i, c) == HasKline(i, c) \/ InHand(i, c) \/ c \in lost[i]

\* Nothing is missing in the span before now up to a time.
ClearBefore(i, t) ==
  \A c \in Candles(i) : now - Span[i] <= c /\ c < t => Covered(i, c)

\* The window of a task ends at its start, and reaches back over the span until
\* the row has been read.
Fresh(w) == pc[w] = "read" => task[w].from = task[w].to - Span[IntervalOf(w)]
Begun(w) == pc[w] \in {"read", "fetch", "find", "write", "save"} => task[w].to <= now

\* A window starts where nothing is missing before it: a row that has moved since
\* it was read does not change that.
Cleared(w) ==
  pc[w] \in {"fetch", "find", "write", "save"} => ClearBefore(IntervalOf(w), task[w].from)

\* What a worker holds ends with a candle.
Ends(w) == pc[w] \in {"find", "write", "save"} => task[w].last \in Candles(IntervalOf(w))

\* The workers about to insert a row, each having found none.
Pending(i) == {w \in Workers : pc[w] = "write" /\ IntervalOf(w) = i /\ task[w].row = 0}

Inserts == \A i \in Intervals : Len(rows[i]) + Cardinality(Pending(i)) <= Cardinality(Workers)

KInv ==
  /\ TypeOK
  /\ \A w \in Workers : Fresh(w) /\ Begun(w) /\ Cleared(w) /\ Ends(w)
  /\ RowCovered
  /\ Inserts

-----------------------------------------------------------------------------
(* Candles.                                                                *)

\* A candle that opens by the time another one closes is not after it.
LEMMA CandleTimes ==
  ASSUME NEW i \in Intervals, NEW c \in Candles(i)
  PROVE  /\ c \in Int /\ CloseTime(i, c) \in Int
         /\ \A d \in Candles(i) : d <= CloseTime(i, c) <=> d <= c
<1>1. /\ c \in Int /\ ClosesAt[i][c] \in Int
      /\ \A d \in Candles(i) : d \in Int /\ (d > c <=> d > ClosesAt[i][c])
  BY KlinesConstants DEF Candles
<1>2. QED
  BY <1>1 DEF CloseTime

\* A window holds finitely many candles.
LEMMA WindowFinite ==
  ASSUME NEW i \in Intervals, NEW from \in Int, NEW to \in Int
  PROVE  /\ IsFiniteSet(OpensIn(i, from, to)) /\ Cardinality(OpensIn(i, from, to)) \in Nat
         /\ OpensIn(i, from, to) \in SUBSET (from .. to)
<1>1. OpensIn(i, from, to) \in SUBSET (from .. to)
  BY CandleTimes DEF OpensIn
<1>2. IsFiniteSet(from .. to)
  BY FS_Interval
<1>3. QED
  BY <1>1, <1>2, FS_Subset, FS_CardinalityType

-----------------------------------------------------------------------------
(* Types.                                                                  *)

LEMMA NoTaskType == NoTask \in Task /\ NoTask.row = 0 /\ NoTask.interval \in Intervals
  BY KlinesConstants DEF NoTask, Task

\* The updates of a task in hand keep its type and its other fields.
LEMMA Resumed ==
  ASSUME NEW t \in Task, NEW a \in Int, NEW u, u = [t EXCEPT !.from = a]
  PROVE  /\ u \in Task /\ u.from = a /\ u.to = t.to /\ u.interval = t.interval
         /\ u.row = t.row
  BY DEF Task

LEMMA Fetched ==
  ASSUME NEW t \in Task, NEW a \in Int, NEW b \in Int,
         NEW u, u = [t EXCEPT !.last = a, !.fetched = b]
  PROVE  /\ u \in Task /\ u.last = a /\ u.from = t.from /\ u.to = t.to
         /\ u.interval = t.interval /\ u.row = t.row
  BY DEF Task

LEMMA Found ==
  ASSUME NEW t \in Task, NEW n \in Nat, NEW u, u = [t EXCEPT !.row = n]
  PROVE  /\ u \in Task /\ u.row = n /\ u.interval = t.interval /\ u.from = t.from
         /\ u.to = t.to /\ u.last = t.last
  BY DEF Task

\* A worker's step changes its own task only.
LEMMA OneTask ==
  ASSUME TypeOK, NEW w \in Workers, NEW t \in Task, task' = [task EXCEPT ![w] = t]
  PROVE  /\ task' \in [Workers -> Task] /\ task'[w] = t
         /\ \A k \in Workers : k # w => task'[k] = task[k]
  BY DEF TypeOK

LEMMA DowncaseTable == \A i \in Intervals : Downcase(i) \in Tables
  BY DEF Tables

LEMMA InitInv == Init => KInv
<1> SUFFICES ASSUME Init PROVE KInv
  OBVIOUS
<1> USE DEF Init
<1>1. TypeOK
  <2>1. <<>> \in Seq(Row) /\ StartTime \in Int
    BY KlinesConstants
  <2>2. \A w \in Workers : task[w] = NoTask /\ task[w].row \in 0 .. Len(rows[IntervalOf(w)])
    BY NoTaskType DEF IntervalOf
  <2>3. QED
    BY <2>1, <2>2, NoTaskType DEF TypeOK
<1>2. \A w \in Workers : Fresh(w) /\ Begun(w) /\ Cleared(w) /\ Ends(w)
  BY DEF Fresh, Begun, Cleared, Ends
<1>3. RowCovered
  BY DEF RowCovered
<1>4. Inserts
  <2>1. \A i \in Intervals : Cardinality(Pending(i)) = 0 /\ Len(rows[i]) = 0
    <3>1. \A i \in Intervals : Pending(i) = {}
      BY DEF Pending
    <3>2. QED
      BY <3>1, FS_EmptySet
  <2>2. Cardinality(Workers) \in Nat
    BY KlinesConstants, FS_CardinalityType
  <2>3. QED
    BY ONLY <2>1, <2>2 DEF Inserts
<1>5. QED
  BY <1>1, <1>2, <1>3, <1>4 DEF KInv

LEMMA KlinesType ==
  ASSUME TypeOK, NEW w \in Workers, NEW cs \in SUBSET Int
  PROVE  Stored(w, cs) \in [Tables -> SUBSET Kline]
<1>1. IntervalOf(w) \in Intervals
  BY DEF TypeOK, Task, IntervalOf
<1>2. \A c \in cs :
        [interval |-> IntervalOf(w), candle |-> c,
         closed |-> CloseTime(IntervalOf(w), c) < task[w].fetched] \in Kline
  BY <1>1 DEF Kline
<1>3. Klines(w, cs) \in SUBSET Kline
  BY <1>2 DEF Klines
<1>4. QED
  BY <1>1, <1>3, DowncaseTable DEF Stored, TypeOK

LEMMA KlineOf ==
  ASSUME NEW w \in Workers, NEW cs, NEW c \in cs
  PROVE  \E k \in Klines(w, cs) : k.interval = IntervalOf(w) /\ k.candle = c
<1> DEFINE kline == [interval |-> IntervalOf(w), candle |-> c,
                     closed |-> CloseTime(IntervalOf(w), c) < task[w].fetched]
<1>1. kline \in Klines(w, cs)
  BY DEF Klines
<1>2. kline.interval = IntervalOf(w) /\ kline.candle = c
  OBVIOUS
<1>3. QED
  BY ONLY <1>1, <1>2

LEMMA HeldType ==
  ASSUME TypeOK, NEW w \in Workers
  PROVE  Held(w) \in SUBSET Int
<1>1. IntervalOf(w) \in Intervals
  BY DEF TypeOK, Task, IntervalOf
<1>2. QED
  BY <1>1, CandleTimes DEF Held, OpensIn

LEMMA UpsertType ==
  ASSUME NEW i \in Intervals, rows[i] \in Seq(Row), now \in Int,
         NEW n \in 0 .. Len(rows[i]), NEW last \in Int
  PROVE  /\ Upsert(i, n, last) \in Seq(Row)
         /\ Len(Upsert(i, n, last)) = IF n = 0 THEN Len(rows[i]) + 1 ELSE Len(rows[i])
         /\ \A m \in DOMAIN Upsert(i, n, last) :
              \/ Upsert(i, n, last)[m].last = last
              \/ m \in DOMAIN rows[i] /\ Upsert(i, n, last)[m].last = rows[i][m].last
<1>1. CASE n = 0
  <2>1. [last |-> last, inserted |-> now] \in Row
    BY DEF Row
  <2>2. Upsert(i, n, last) = Append(rows[i], [last |-> last, inserted |-> now])
    BY <1>1 DEF Upsert
  <2>3. /\ Append(rows[i], [last |-> last, inserted |-> now]) \in Seq(Row)
        /\ Len(Upsert(i, n, last)) = Len(rows[i]) + 1
    BY <2>1, <2>2
  <2>4. \A m \in 1 .. Len(rows[i]) + 1 :
          Upsert(i, n, last)[m] = IF m = Len(rows[i]) + 1 THEN [last |-> last, inserted |-> now]
                                                         ELSE rows[i][m]
    BY <2>1, <2>2
  <2>5. /\ DOMAIN rows[i] = 1 .. Len(rows[i]) /\ Len(rows[i]) \in Nat
        /\ DOMAIN Upsert(i, n, last) = 1 .. Len(rows[i]) + 1
    BY <2>1, <2>2
  <2>6. /\ Upsert(i, n, last) \in Seq(Row)
        /\ Len(Upsert(i, n, last)) = IF n = 0 THEN Len(rows[i]) + 1 ELSE Len(rows[i])
    BY <1>1, <2>2, <2>3
  <2>7. [last |-> last, inserted |-> now].last = last
    OBVIOUS
  <2>8. \A m \in DOMAIN Upsert(i, n, last) :
          \/ Upsert(i, n, last)[m].last = last
          \/ m \in DOMAIN rows[i] /\ Upsert(i, n, last)[m].last = rows[i][m].last
    BY <2>4, <2>5, <2>7
  <2>9. QED
    BY <2>6, <2>8
<1>2. CASE n # 0
  <2> DEFINE new == [rows[i][n] EXCEPT !.last = last]
  <2>1. Upsert(i, n, last) = [rows[i] EXCEPT ![n] = new]
    BY <1>2 DEF Upsert
  <2>2. n \in DOMAIN rows[i] /\ rows[i][n] \in Row
    BY <1>2
  <2>3. new \in Row /\ new.last = last
    BY <2>2 DEF Row
  <2> HIDE DEF new
  <2>4. /\ [rows[i] EXCEPT ![n] = new] \in Seq(Row)
        /\ Len([rows[i] EXCEPT ![n] = new]) = Len(rows[i])
        /\ DOMAIN [rows[i] EXCEPT ![n] = new] = DOMAIN rows[i]
        /\ [rows[i] EXCEPT ![n] = new][n] = new
        /\ \A m \in DOMAIN rows[i] : m # n => [rows[i] EXCEPT ![n] = new][m] = rows[i][m]
    BY <2>2, <2>3
  <2>5. QED
    BY <1>2, <2>1, <2>3, <2>4
<1>3. QED
  BY <1>1, <1>2

LEMMA StepTypes ==
  ASSUME TypeOK, NEW w \in Workers, Ends(w), Step(w)
  PROVE  TypeOK'
<1>0. /\ task[w] \in Task /\ IntervalOf(w) \in Intervals
      /\ rows[IntervalOf(w)] \in Seq(Row) /\ task[w].row \in 0 .. Len(rows[IntervalOf(w)])
  BY DEF TypeOK, Task, IntervalOf
<1>1. CASE Start(w)
  <2>1. PICK i \in Intervals :
          task' = [task EXCEPT ![w] = [NoTask EXCEPT !.interval = i, !.to = now,
                                                     !.from = now - Span[i]]]
    BY <1>1 DEF Start
  <2> DEFINE from == now - Span[i]
             u == [NoTask EXCEPT !.interval = i, !.to = now, !.from = from]
  <2>2. u \in Task /\ u.row = 0 /\ u.interval = i
    <3>1. now \in Int /\ from \in Int
      BY KlinesConstants DEF TypeOK
    <3> HIDE DEF from
    <3>2. QED
      BY <3>1, NoTaskType DEF Task
  <2> HIDE DEF u
  <2>3. task' = [task EXCEPT ![w] = u]
    BY <2>1 DEF u
  <2>4. /\ task' \in [Workers -> Task] /\ task'[w] = u
        /\ \A k \in Workers : k # w => task'[k] = task[k]
    BY <2>2, <2>3, OneTask
  <2>5. \A k \in Workers : task'[k].row \in 0 .. Len(rows[task'[k].interval])
    <3>1. 0 \in 0 .. Len(rows[i])
      BY DEF TypeOK
    <3>2. QED
      BY <2>2, <2>4, <3>1 DEF TypeOK, IntervalOf
  <2>6. QED
    BY <1>1, <2>4, <2>5 DEF Start, Goto, TypeOK, IntervalOf
<1>2. CASE ReadRow(w)
  <2>1. \A n \in MostRecent(IntervalOf(w)) : Resume(IntervalOf(w), n) \in Int
    <3>1. \A n \in DOMAIN rows[IntervalOf(w)] : rows[IntervalOf(w)][n] \in Row
      BY <1>0
    <3>2. \A x \in Row : x.last \in Int
      BY DEF Row
    <3>3. QED
      BY <3>1, <3>2 DEF MostRecent, Resume
  <2>2. /\ task' \in [Workers -> Task]
        /\ \A k \in Workers : task'[k].interval = task[k].interval /\ task'[k].row = task[k].row
    <3>1. CASE UNCHANGED task
      BY <3>1 DEF TypeOK
    <3>2. CASE ~UNCHANGED task
      <4>1. PICK n \in MostRecent(IntervalOf(w)) :
              task' = [task EXCEPT ![w] = [task[w] EXCEPT !.from = Resume(IntervalOf(w), n)]]
        BY <1>2, <3>2 DEF ReadRow
      <4>2. QED
        <5> DEFINE u == [task[w] EXCEPT !.from = Resume(IntervalOf(w), n)]
        <5>1. u \in Task /\ u.interval = task[w].interval /\ u.row = task[w].row
          BY <1>0, <2>1, Resumed
        <5> HIDE DEF u
        <5>2. task' = [task EXCEPT ![w] = u]
          BY <4>1 DEF u
        <5>3. QED
          BY <5>1, <5>2, OneTask
    <3>3. QED
      BY <3>1, <3>2
  <2>3. QED
    BY <1>2, <2>2 DEF ReadRow, Goto, TypeOK, IntervalOf
<1>3. CASE Fetch(w)
  <2> DEFINE i == IntervalOf(w)
  <2>1. /\ task' \in [Workers -> Task]
        /\ \A k \in Workers : task'[k].interval = task[k].interval /\ task'[k].row = task[k].row
    <3>1. CASE UNCHANGED task
      BY <3>1 DEF TypeOK
    <3>2. CASE ~UNCHANGED task
      <4>1. PICK last \in Returned(i, task[w].from, task[w].to) :
              task' = [task EXCEPT ![w] = [task[w] EXCEPT !.last = last, !.fetched = now]]
        BY <1>3, <3>2 DEF Fetch
      <4>2. last \in Int /\ now \in Int
        BY <1>0, CandleTimes DEF Returned, OpensIn, TypeOK
      <4> DEFINE u == [task[w] EXCEPT !.last = last, !.fetched = now]
      <4>3. u \in Task /\ u.interval = task[w].interval /\ u.row = task[w].row
        BY <1>0, <4>2 DEF Task
      <4> HIDE DEF u
      <4>4. task' = [task EXCEPT ![w] = u]
        BY <4>1 DEF u
      <4>5. QED
        BY <4>3, <4>4, OneTask
    <3>3. QED
      BY <3>1, <3>2
  <2>2. QED
    BY <1>3, <2>1 DEF Fetch, Fail, Goto, TypeOK, IntervalOf
<1>4. CASE FindRow(w)
  <2>1. MostRecent(IntervalOf(w)) \subseteq 1 .. Len(rows[IntervalOf(w)])
    BY <1>0 DEF MostRecent
  <2>2. PICK n \in 0 .. Len(rows[IntervalOf(w)]) : task' = [task EXCEPT ![w].row = n]
    BY <1>0, <1>4, <2>1 DEF FindRow
  <2>3. /\ task' \in [Workers -> Task]
        /\ \A k \in Workers : task'[k].interval = task[k].interval
        /\ task'[w].row = n /\ \A k \in Workers : k # w => task'[k].row = task[k].row
    <3>1. n \in Nat /\ task' = [task EXCEPT ![w] = [task[w] EXCEPT !.row = n]]
      BY <1>0, <2>2
    <3> DEFINE u == [task[w] EXCEPT !.row = n]
    <3>2. u \in Task /\ u.interval = task[w].interval /\ u.row = n
      BY <1>0, <3>1, Found
    <3> HIDE DEF u
    <3>3. task' = [task EXCEPT ![w] = u]
      BY <3>1 DEF u
    <3>4. QED
      BY <3>2, <3>3, OneTask
  <2>4. QED
    BY <1>4, <2>2, <2>3 DEF FindRow, Goto, TypeOK, IntervalOf
<1>5. CASE WriteRow(w)
  <2> DEFINE i == IntervalOf(w)
             new == Upsert(i, task[w].row, CloseTime(i, task[w].last))
  <2>1. CloseTime(i, task[w].last) \in Int
    BY <1>0, <1>5, CandleTimes DEF Ends, WriteRow, At
  <2>2. new \in Seq(Row) /\ Len(new) >= Len(rows[i]) /\ Len(new) \in Nat
    BY <1>0, <2>1, UpsertType DEF TypeOK
  <2>3. rows' = [rows EXCEPT ![i] = new] /\ UNCHANGED <<now, tables, lost, started, task>>
        /\ pc' = [pc EXCEPT ![w] = "save"]
    BY <1>5 DEF WriteRow, Goto
  <2>4. \A k \in Workers : task[k].row \in 0 .. Len(rows'[IntervalOf(k)])
    <3> SUFFICES ASSUME NEW k \in Workers PROVE task[k].row \in 0 .. Len(rows'[IntervalOf(k)])
      OBVIOUS
    <3>1. task[k].row \in 0 .. Len(rows[IntervalOf(k)]) /\ IntervalOf(k) \in Intervals
      BY DEF TypeOK, Task, IntervalOf
    <3>2. Len(rows[i]) \in Nat
      BY <1>0
    <3>3. CASE IntervalOf(k) = i
      <4>1. rows'[IntervalOf(k)] = new
        BY <1>0, <2>3, <3>3 DEF TypeOK
      <4>2. QED
        BY <2>2, <3>1, <3>2, <3>3, <4>1
    <3>4. CASE IntervalOf(k) # i
      BY <2>3, <3>1, <3>4 DEF TypeOK
    <3>5. QED
      BY <3>3, <3>4
  <2>5. QED
    BY <2>2, <2>3, <2>4 DEF TypeOK, IntervalOf
<1>6. CASE Save(w)
  <2>1. Stored(w, Held(w)) \in [Tables -> SUBSET Kline]
    BY HeldType, KlinesType
  <2>2. QED
    BY <1>6, <2>1 DEF Save, Goto, TypeOK, IntervalOf
<1>7. CASE SaveError(w)
  <2>1. PICK cut \in Held(w) :
          /\ tables' = Stored(w, {c \in Held(w) : c < cut})
          /\ lost' = [lost EXCEPT ![IntervalOf(w)] = @ \union {c \in Held(w) : c >= cut}]
    BY <1>7 DEF SaveError
  <2>2. {c \in Held(w) : c < cut} \in SUBSET Int /\ {c \in Held(w) : c >= cut} \subseteq Int
    BY HeldType
  <2>3. tables' \in [Tables -> SUBSET Kline]
    BY <2>1, <2>2, KlinesType
  <2>4. lost' \in [Intervals -> SUBSET Int]
    BY <2>1, <2>2 DEF TypeOK
  <2>5. QED
    BY <1>7, <2>3, <2>4 DEF SaveError, Fail, Goto, TypeOK, IntervalOf
<1>8. CASE Raise(w)
  BY <1>8 DEF Raise, Fail, Goto, TypeOK, IntervalOf
<1>9. CASE End(w)
  <2>1. /\ task' \in [Workers -> Task] /\ task'[w].row = 0 /\ task'[w].interval \in Intervals
        /\ \A k \in Workers : k # w => task'[k] = task[k]
    BY <1>9, NoTaskType DEF End, TypeOK
  <2>2. QED
    BY <1>9, <2>1 DEF End, Goto, TypeOK, IntervalOf
<1>10. QED
  BY <1>1, <1>2, <1>3, <1>4, <1>5, <1>6, <1>7, <1>8, <1>9 DEF Step

-----------------------------------------------------------------------------
(* What a step keeps.                                                      *)

LEMMA OthersKept ==
  ASSUME TypeOK, NEW w \in Workers, Step(w), NEW k \in Workers, k # w
  PROVE  pc'[k] = pc[k] /\ task'[k] = task[k]
  BY DEF Step, Start, ReadRow, Fetch, FindRow, WriteRow, Save, SaveError, Raise, End, Fail, Goto,
     TypeOK

LEMMA RowsKept ==
  ASSUME TypeOK, NEW w \in Workers, Step(w), ~WriteRow(w)
  PROVE  rows' = rows
  BY DEF Step, Start, ReadRow, Fetch, FindRow, Save, SaveError, Raise, End

\* A candle does not come uncovered: it is stored or lost when it leaves the
\* hands of a worker.
LEMMA CoveredKept ==
  ASSUME TypeOK, NEW w \in Workers, Step(w), NEW i \in Intervals, NEW c, Covered(i, c)
  PROVE  Covered(i, c)'
<1>0. /\ \A k \in Workers : k # w => pc'[k] = pc[k] /\ task'[k] = task[k]
      /\ \A k \in Workers : k # w => Held(k)' = Held(k) /\ IntervalOf(k)' = IntervalOf(k)
  BY OthersKept DEF Held, OpensIn, Candles, IntervalOf
<1>1. CASE Save(w)
  <2>1. tables' = Stored(w, Held(w)) /\ lost' = lost
    BY <1>1 DEF Save
  <2>2. HasKline(i, c) => HasKline(i, c)'
    BY <2>1, DowncaseTable DEF HasKline, Stored, TypeOK
  <2>3. ASSUME IntervalOf(w) = i, c \in Held(w) PROVE HasKline(i, c)'
    <3>1. \E k \in Klines(w, Held(w)) : k.interval = i /\ k.candle = c
      BY <2>3, KlineOf
    <3>2. Klines(w, Held(w)) \subseteq tables'[Downcase(i)]
      BY <2>1, <2>3, DowncaseTable DEF Stored, TypeOK
    <3>3. QED
      BY <3>1, <3>2 DEF HasKline
  <2>4. InHand(i, c) => InHand(i, c)' \/ HasKline(i, c)'
    BY <1>0, <2>3 DEF InHand
  <2>5. QED
    BY <2>1, <2>2, <2>4 DEF Covered
<1>2. CASE SaveError(w)
  <2>1. PICK cut \in Held(w) :
          /\ tables' = Stored(w, {d \in Held(w) : d < cut})
          /\ lost' = [lost EXCEPT ![IntervalOf(w)] = @ \union {d \in Held(w) : d >= cut}]
    BY <1>2 DEF SaveError
  <2>2. HasKline(i, c) => HasKline(i, c)'
    BY <2>1, DowncaseTable DEF HasKline, Stored, TypeOK
  <2>3. c \in lost[i] => c \in lost'[i]
    BY <2>1 DEF TypeOK
  <2>4. ASSUME IntervalOf(w) = i, c \in Held(w)
        PROVE  HasKline(i, c)' \/ c \in lost'[i]
    <3>1. CASE c < cut
      <4> DEFINE cs == {d \in Held(w) : d < cut}
      <4>1. c \in cs
        BY <2>4, <3>1
      <4>2. Klines(w, cs) \subseteq tables'[Downcase(i)]
        BY <2>1, <2>4, DowncaseTable DEF Stored, TypeOK
      <4> HIDE DEF cs
      <4>3. \E k \in Klines(w, cs) : k.interval = i /\ k.candle = c
        BY <2>4, <4>1, KlineOf
      <4>4. QED
        BY <4>2, <4>3 DEF HasKline
    <3>2. CASE ~(c < cut)
      <4>1. c >= cut
        BY <2>4, <3>2, HeldType
      <4>2. QED
        BY <2>1, <2>4, <4>1 DEF TypeOK
    <3>3. QED
      BY <3>1, <3>2
  <2>5. InHand(i, c) => InHand(i, c)' \/ HasKline(i, c)' \/ c \in lost'[i]
    BY <1>0, <2>4 DEF InHand
  <2>6. QED
    BY <2>2, <2>3, <2>5 DEF Covered
<1>3. ASSUME ~Save(w), ~SaveError(w) PROVE Covered(i, c)'
  <2>1. tables' = tables /\ lost' = lost
    BY <1>3 DEF Step, Start, ReadRow, Fetch, FindRow, WriteRow, Raise, End
  <2>2. pc[w] # "save"
    BY <1>3 DEF Step, Start, ReadRow, Fetch, FindRow, WriteRow, Raise, End, At
  <2>3. InHand(i, c) => InHand(i, c)'
    BY <1>0, <2>2 DEF InHand
  <2>4. QED
    BY <2>1, <2>3 DEF Covered, HasKline
<1>4. QED
  BY <1>1, <1>2, <1>3

\* What is clear stays clear as the clock goes on.
LEMMA ClearKept ==
  ASSUME NEW i \in Intervals, NEW t, now \in Int, now' \in Int, now' >= now,
         \A c : Covered(i, c) => Covered(i, c)', ClearBefore(i, t)
  PROVE  \A c \in Candles(i) : now' - Span[i] <= c /\ c < t => Covered(i, c)'
<1>1. \A c \in Candles(i) : now' - Span[i] <= c => now - Span[i] <= c
  BY CandleTimes, KlinesConstants
<1>2. QED
  BY <1>1 DEF ClearBefore

\* Where the worker that moves is afterwards, and what it has cleared.
LEMMA Moves ==
  ASSUME KInv, NEW w \in Workers, Step(w)
  PROVE  Fresh(w)' /\ Begun(w)' /\ Cleared(w)' /\ Ends(w)'
<1>0. /\ TypeOK /\ task[w] \in Task /\ IntervalOf(w) \in Intervals
      /\ Fresh(w) /\ Begun(w) /\ Cleared(w) /\ Ends(w)
      /\ pc \in [Workers -> {"idle", "read", "fetch", "find", "write", "save", "done", "failed"}]
      /\ now \in Int /\ task[w].from \in Int /\ task[w].to \in Int
  BY DEF KInv, TypeOK, Task, IntervalOf
<1> PICK i \in Intervals : i = IntervalOf(w)
  BY <1>0
<1>1. /\ now' = now /\ Span[i] \in Nat /\ now - Span[i] \in Int
      /\ \A c : Covered(i, c) => Covered(i, c)'
  <2>1. now' = now
    BY DEF Step, Start, ReadRow, Fetch, FindRow, WriteRow, Save, SaveError, Raise, End
  <2>2. Span[i] \in Nat /\ now - Span[i] \in Int
    BY <1>0, KlinesConstants
  <2>3. \A c : Covered(i, c) => Covered(i, c)'
    BY <1>0, CoveredKept
  <2>4. QED
    BY <2>1, <2>2, <2>3
<1>2. \A at : Goto(w, at) => pc'[w] = at
  BY <1>0 DEF Goto
<1>3. ASSUME NEW t, ClearBefore(i, t), IntervalOf(w)' = i, task'[w].from = t
      PROVE  Cleared(w)'
  <2>1. \A c \in Candles(i) : now' - Span[i] <= c /\ c < t => Covered(i, c)'
    BY <1>1, <1>3 DEF ClearBefore
  <2>2. QED
    BY <1>3, <2>1 DEF Cleared, ClearBefore, Candles
<1>4. CASE Start(w)
  <2>1. PICK j \in Intervals :
          task' = [task EXCEPT ![w] = [NoTask EXCEPT !.interval = j, !.to = now,
                                                     !.from = now - Span[j]]]
    BY <1>4 DEF Start
  <2>2. pc'[w] = "read"
    BY <1>2, <1>4 DEF Start
  <2>3. /\ task'[w].from = now - Span[j] /\ task'[w].to = now /\ task'[w].interval = j
    BY <1>0, <2>1 DEF TypeOK, NoTask
  <2>4. QED
    BY <1>0, <1>1, <2>2, <2>3 DEF Fresh, Begun, Cleared, Ends, IntervalOf
<1>5. CASE ReadRow(w)
  <2>1. pc[w] = "read" /\ pc'[w] = "fetch"
    BY <1>2, <1>5 DEF ReadRow, At
  <2>2. PICK t \in Int : /\ ClearBefore(i, t) /\ task'[w].from = t
                         /\ task'[w].to = task[w].to /\ task'[w].interval = task[w].interval
    <3>1. CASE UNCHANGED task
      <4>1. task[w].from = task[w].to - Span[i] /\ task[w].to <= now
        BY <1>0, <2>1 DEF Fresh, Begun
      <4>2. \A c \in Candles(i) : ~(now - Span[i] <= c /\ c < task[w].from)
        BY <1>0, <1>1, <4>1, CandleTimes
      <4>3. ClearBefore(i, task[w].from)
        BY <4>2 DEF ClearBefore
      <4>4. QED
        BY <1>0, <3>1, <4>3
    <3>2. CASE ~UNCHANGED task
      <4>1. PICK n \in MostRecent(i) :
              task' = [task EXCEPT ![w] = [task[w] EXCEPT !.from = Resume(i, n)]]
        BY <1>5, <3>2 DEF ReadRow
      <4>2. n \in DOMAIN rows[i] /\ Resume(i, n) = rows[i][n].last
        BY <4>1 DEF MostRecent, Resume
      <4>3. Resume(i, n) \in Int
        <5>1. rows[i][n] \in Row
          BY <1>0, <4>2 DEF TypeOK
        <5>2. QED
          BY <4>2, <5>1 DEF Row
      <4>4. ClearBefore(i, Resume(i, n))
        <5>1. \A c \in OpensIn(i, now - Span[i], Resume(i, n)) : Covered(i, c)
          BY <4>2 DEF KInv, RowCovered, Covered
        <5>2. \A c \in Candles(i) : c < Resume(i, n) => c <= Resume(i, n)
          BY <4>3, CandleTimes
        <5>3. QED
          BY <5>1, <5>2 DEF ClearBefore, OpensIn
      <4>5. /\ task'[w].from = Resume(i, n) /\ task'[w].to = task[w].to
            /\ task'[w].interval = task[w].interval
        BY <1>0, <4>1 DEF TypeOK, Task
      <4>6. QED
        BY <4>3, <4>4, <4>5
    <3>3. QED
      BY <3>1, <3>2
  <2>3. IntervalOf(w)' = i
    BY <2>2 DEF IntervalOf
  <2>4. Cleared(w)'
    BY <1>3, <2>2, <2>3
  <2>5. Begun(w)'
    BY <1>0, <1>1, <2>1, <2>2 DEF Begun
  <2>6. QED
    BY <2>1, <2>4, <2>5 DEF Fresh, Ends
<1>6. CASE Fetch(w)
  <2>1. pc[w] = "fetch" /\ pc'[w] \in {"find", "done", "failed"}
    BY <1>2, <1>6 DEF Fetch, At, Fail
  <2>2. CASE pc'[w] # "find"
    BY <2>1, <2>2 DEF Fresh, Begun, Cleared, Ends
  <2>3. CASE pc'[w] = "find"
    <3>1. PICK last \in Returned(i, task[w].from, task[w].to) :
            task' = [task EXCEPT ![w] = [task[w] EXCEPT !.last = last, !.fetched = now]]
      BY <1>2, <1>6, <2>3 DEF Fetch, Fail
    <3>2. last \in Candles(i)
      BY DEF Returned, OpensIn
    <3>3. /\ task'[w].last = last /\ task'[w].from = task[w].from
          /\ task'[w].to = task[w].to /\ task'[w].interval = task[w].interval
      BY <1>0, <3>1 DEF TypeOK, Task
    <3>4. IntervalOf(w)' = i
      BY <3>3 DEF IntervalOf
    <3>5. Cleared(w)'
      BY <1>0, <1>3, <2>1, <3>3, <3>4 DEF Cleared
    <3>6. Begun(w)' /\ Ends(w)'
      BY <1>0, <1>1, <2>1, <3>2, <3>3, <3>4 DEF Begun, Ends, Candles
    <3>7. QED
      BY <2>3, <3>5, <3>6 DEF Fresh
  <2>4. QED
    BY <2>2, <2>3
<1>7. CASE FindRow(w) \/ WriteRow(w)
  <2>1. pc[w] \in {"find", "write"} /\ pc'[w] \in {"write", "save"}
    BY <1>2, <1>7 DEF FindRow, WriteRow, At
  <2>2. /\ task'[w].last = task[w].last /\ task'[w].from = task[w].from
        /\ task'[w].to = task[w].to /\ task'[w].interval = task[w].interval
    <3>1. CASE FindRow(w)
      <4>1. PICK n : task' = [task EXCEPT ![w] = [task[w] EXCEPT !.row = n]]
        BY <3>1 DEF FindRow
      <4>2. QED
        BY <1>0, <4>1 DEF TypeOK, Task
    <3>2. CASE WriteRow(w)
      BY <3>2 DEF WriteRow
    <3>3. QED
      BY <1>7, <3>1, <3>2
  <2>3. IntervalOf(w)' = i
    BY <2>2 DEF IntervalOf
  <2>4. Cleared(w)'
    BY <1>0, <1>3, <2>1, <2>2, <2>3 DEF Cleared
  <2>5. Begun(w)' /\ Ends(w)'
    BY <1>0, <1>1, <2>1, <2>2, <2>3 DEF Begun, Ends, Candles
  <2>6. QED
    BY <2>1, <2>4, <2>5 DEF Fresh
<1>8. CASE Save(w) \/ SaveError(w) \/ Raise(w) \/ End(w)
  <2>1. pc'[w] \in {"done", "failed", "idle"}
    BY <1>2, <1>8 DEF Save, SaveError, Raise, End, Fail
  <2>2. QED
    BY <2>1 DEF Fresh, Begun, Cleared, Ends
<1>9. QED
  BY <1>4, <1>5, <1>6, <1>7, <1>8 DEF Step

\* A step that moves nothing of a worker keeps what that worker has cleared.
LEMMA StaysClear ==
  ASSUME KInv, NEW k \in Workers, pc'[k] = pc[k], task'[k] = task[k],
         now' \in Int, now' >= now,
         \A i \in Intervals : \A c : Covered(i, c) => Covered(i, c)'
  PROVE  Fresh(k)' /\ Begun(k)' /\ Cleared(k)' /\ Ends(k)'
<1>0. /\ IntervalOf(k) \in Intervals /\ now \in Int /\ task[k].to \in Int
      /\ Fresh(k) /\ Begun(k) /\ Cleared(k) /\ Ends(k)
  BY DEF KInv, TypeOK, Task, IntervalOf
<1> PICK i \in Intervals : i = IntervalOf(k)
  BY <1>0
<1>1. IntervalOf(k)' = i
  BY DEF IntervalOf
<1>2. Fresh(k)' /\ Begun(k)' /\ Ends(k)'
  BY <1>0, <1>1 DEF Fresh, Begun, Ends, Candles
<1>3. Cleared(k)'
  <2>1. ASSUME pc[k] \in {"fetch", "find", "write", "save"}
        PROVE  \A c \in Candles(i) : now' - Span[i] <= c /\ c < task[k].from => Covered(i, c)'
    <3>1. ClearBefore(i, task[k].from)
      BY <1>0, <2>1 DEF Cleared
    <3>2. QED
      BY <1>0, <3>1, ClearKept
  <2>2. QED
    BY <1>1, <2>1 DEF Cleared, ClearBefore, Candles
<1>4. QED
  BY <1>2, <1>3

-----------------------------------------------------------------------------
(* The rows.                                                               *)

\* Up to the last candle it holds, a worker has in hand what is not covered.
LEMMA HeldOrCovered ==
  ASSUME KInv, NEW w \in Workers, pc[w] \in {"find", "write", "save"},
         NEW i \in Intervals, i = IntervalOf(w),
         NEW c \in Candles(i), now - Span[i] <= c, c <= task[w].last
  PROVE  Covered(i, c) \/ c \in Held(w)
<1>1. ClearBefore(i, task[w].from) /\ task[w].from \in Int /\ c \in Int
  BY CandleTimes DEF KInv, Cleared, TypeOK, Task
<1>2. CASE task[w].from <= c
  BY <1>2 DEF Held, OpensIn
<1>3. CASE c < task[w].from
  BY <1>1, <1>3 DEF ClearBefore
<1>4. QED
  BY <1>1, <1>2, <1>3

\* The row a worker writes ends with what it has in hand, after what it found
\* clear when it read the row it resumed from.
LEMMA WrittenCovered ==
  ASSUME KInv, NEW w \in Workers, WriteRow(w),
         NEW i \in Intervals, i = IntervalOf(w),
         NEW c \in OpensIn(i, now - Span[i], CloseTime(i, task[w].last))
  PROVE  Covered(i, c)'
<1>0. /\ TypeOK /\ pc[w] = "write" /\ pc'[w] = "save" /\ task' = task /\ Step(w)
      /\ task[w].last \in Candles(i)
  BY DEF KInv, TypeOK, Ends, WriteRow, At, Goto, Step
<1>1. c \in Candles(i) /\ now - Span[i] <= c /\ c <= task[w].last
  BY <1>0, CandleTimes DEF OpensIn
<1>2. Covered(i, c) \/ c \in Held(w)
  BY <1>0, <1>1, HeldOrCovered
<1>3. c \in Held(w) => InHand(i, c)'
  BY <1>0 DEF InHand, Held, OpensIn, Candles, IntervalOf
<1>4. QED
  BY <1>0, <1>2, <1>3, CoveredKept DEF Covered

LEMMA RowsCovered ==
  ASSUME KInv, NEW w \in Workers, Step(w)
  PROVE  RowCovered'
<1>0. /\ TypeOK /\ RowCovered /\ IntervalOf(w) \in Intervals /\ task[w] \in Task
      /\ now' = now
  BY DEF KInv, TypeOK, Task, IntervalOf,
     Step, Start, ReadRow, Fetch, FindRow, WriteRow, Save, SaveError, Raise, End
<1> SUFFICES ASSUME NEW i \in Intervals, NEW n \in DOMAIN rows'[i],
                    NEW c \in OpensIn(i, now - Span[i], rows'[i][n].last)
             PROVE  Covered(i, c)'
  BY <1>0 DEF RowCovered, Covered, OpensIn, Candles
<1>1. ASSUME NEW m \in DOMAIN rows[i], rows'[i][n].last = rows[i][m].last
      PROVE  Covered(i, c)'
  <2>1. Covered(i, c)
    BY <1>0, <1>1 DEF RowCovered, Covered
  <2>2. QED
    BY <1>0, <2>1, CoveredKept
<1>2. CASE ~WriteRow(w)
  BY <1>0, <1>1, <1>2, RowsKept
<1>3. CASE WriteRow(w)
  <2> DEFINE last == CloseTime(IntervalOf(w), task[w].last)
  <2>1. rows' = [rows EXCEPT ![IntervalOf(w)] = Upsert(IntervalOf(w), task[w].row, last)]
    BY <1>3 DEF WriteRow
  <2>2. CASE i # IntervalOf(w)
    BY <1>0, <1>1, <2>1, <2>2 DEF TypeOK
  <2>3. CASE i = IntervalOf(w)
    <3>1. last \in Int /\ rows[i] \in Seq(Row) /\ now \in Int /\ task[w].row \in 0 .. Len(rows[i])
      BY <1>0, <1>3, <2>3, CandleTimes DEF Task, TypeOK, KInv, Ends, WriteRow, At
    <3>2. rows'[i] = Upsert(i, task[w].row, last)
      BY <1>0, <2>1, <2>3 DEF TypeOK
    <3> HIDE DEF last
    <3>3. \/ rows'[i][n].last = last
          \/ n \in DOMAIN rows[i] /\ rows'[i][n].last = rows[i][n].last
      BY <3>1, <3>2, UpsertType
    <3>4. rows'[i][n].last = last => Covered(i, c)'
      BY <1>3, <2>3, WrittenCovered DEF last, KInv, TypeOK
    <3>5. QED
      BY <1>1, <3>3, <3>4
  <2>4. QED
    BY <2>2, <2>3
<1>4. QED
  BY <1>2, <1>3

LEMMA RowsInserted ==
  ASSUME KInv, NEW w \in Workers, Step(w)
  PROVE  Inserts'
<1> SUFFICES ASSUME NEW i \in Intervals
             PROVE  Len(rows'[i]) + Cardinality(Pending(i)') <= Cardinality(Workers)
  BY DEF Inserts
<1>0. /\ TypeOK /\ TypeOK' /\ IntervalOf(w) \in Intervals /\ task[w] \in Task
      /\ Len(rows[i]) + Cardinality(Pending(i)) <= Cardinality(Workers)
  BY StepTypes DEF KInv, Inserts, TypeOK, Task, IntervalOf
<1>1. /\ Len(rows[i]) \in Nat /\ Len(rows'[i]) \in Nat
      /\ Cardinality(Workers) \in Nat
      /\ IsFiniteSet(Pending(i)) /\ Cardinality(Pending(i)) \in Nat
      /\ IsFiniteSet(Pending(i)') /\ Cardinality(Pending(i)') \in Nat
      /\ Cardinality(Pending(i)') <= Cardinality(Workers)
  <2>1. Pending(i) \in SUBSET Workers /\ Pending(i)' \in SUBSET Workers
    BY DEF Pending
  <2>2. /\ IsFiniteSet(Pending(i)) /\ IsFiniteSet(Pending(i)')
        /\ Cardinality(Pending(i)') <= Cardinality(Workers)
    BY <2>1, KlinesConstants, FS_Subset
  <2>3. Len(rows[i]) \in Nat /\ Len(rows'[i]) \in Nat
    BY <1>0 DEF TypeOK
  <2>4. QED
    BY <2>2, <2>3, KlinesConstants, FS_CardinalityType
<1>2. \A k \in Workers : k # w => pc'[k] = pc[k] /\ task'[k] = task[k]
  BY <1>0, OthersKept
<1>3. ASSUME rows'[i] = rows[i], w \in Pending(i)' => w \in Pending(i)
      PROVE  Len(rows'[i]) + Cardinality(Pending(i)') <= Cardinality(Workers)
  <2>1. Pending(i)' \subseteq Pending(i)
    BY <1>2, <1>3 DEF Pending, IntervalOf
  <2>2. Cardinality(Pending(i)') <= Cardinality(Pending(i))
    BY <1>1, <2>1, FS_Subset
  <2>3. QED
    BY <1>0, <1>1, <1>3, <2>2
<1>4. CASE FindRow(w)
  <2>1. rows' = rows
    BY <1>4 DEF FindRow
  <2>2. CASE rows[i] = <<>>
    <3>1. Len(rows'[i]) = 0
      BY <2>1, <2>2
    <3>2. QED
      BY <1>1, <3>1
  <2>3. CASE rows[i] # <<>>
    <3>1. w \notin Pending(i)'
      <4> SUFFICES ASSUME IntervalOf(w)' = i PROVE task'[w].row # 0
        BY DEF Pending
      <4>1. \A n : [task[w] EXCEPT !.row = n].interval = task[w].interval
        BY <1>0 DEF Task
      <4>2. task'[w].interval = task[w].interval
        <5>1. PICK n : task' = [task EXCEPT ![w] = [task[w] EXCEPT !.row = n]]
          BY <1>4 DEF FindRow
        <5>2. task'[w] = [task[w] EXCEPT !.row = n]
          BY <1>0, <5>1 DEF TypeOK
        <5>3. QED
          BY <4>1, <5>2
      <4>3. IntervalOf(w) = i
        BY <4>2 DEF IntervalOf
      <4>4. PICK n \in MostRecent(i) : task' = [task EXCEPT ![w] = [task[w] EXCEPT !.row = n]]
        BY <1>4, <2>3, <4>3 DEF FindRow
      <4>5. n \in 1 .. Len(rows[i])
        BY <1>0, <4>4 DEF MostRecent, TypeOK
      <4>6. task'[w].row = n
        BY <1>0, <4>4 DEF TypeOK, Task
      <4>7. QED
        BY <1>1, <4>5, <4>6
    <3>2. QED
      BY <1>3, <2>1, <3>1
  <2>4. QED
    BY <2>2, <2>3
<1>5. CASE WriteRow(w)
  <2> DEFINE j == IntervalOf(w)
             last == CloseTime(j, task[w].last)
  <2>1. /\ rows' = [rows EXCEPT ![j] = Upsert(j, task[w].row, last)]
        /\ pc[w] = "write" /\ task' = task
    BY <1>5 DEF WriteRow, At
  <2>2. w \notin Pending(i)'
    BY <1>0, <1>5 DEF WriteRow, Goto, Pending, TypeOK
  <2>3. last \in Int /\ rows[j] \in Seq(Row) /\ now \in Int /\ task[w].row \in 0 .. Len(rows[j])
    BY <1>0, <2>1, CandleTimes DEF Task, TypeOK, KInv, Ends
  <2>4. Len(rows'[j]) = IF task[w].row = 0 THEN Len(rows[j]) + 1 ELSE Len(rows[j])
    <3>1. rows'[j] = Upsert(j, task[w].row, last)
      BY <1>0, <2>1 DEF TypeOK
    <3>2. QED
      BY <1>0, <2>3, <3>1, UpsertType
  <2>5. Pending(i)' = Pending(i) \ {w}
    BY <1>2, <2>2 DEF Pending, IntervalOf
  <2>6. CASE i = j /\ task[w].row = 0
    <3>1. w \in Pending(i)
      BY <2>1, <2>6 DEF Pending
    <3>2. Cardinality(Pending(i)') = Cardinality(Pending(i)) - 1
      BY <1>1, <2>5, <3>1, FS_RemoveElement
    <3>3. Len(rows'[i]) = Len(rows[i]) + 1
      BY <2>4, <2>6
    <3>4. QED
      BY <1>0, <1>1, <3>2, <3>3
  <2>7. CASE ~(i = j /\ task[w].row = 0)
    <3>1. Len(rows'[i]) = Len(rows[i])
      <4>1. CASE i = j
        BY <2>4, <2>7, <4>1
      <4>2. CASE i # j
        BY <1>0, <2>1, <4>2 DEF TypeOK
      <4>3. QED
        BY <4>1, <4>2
    <3>2. Cardinality(Pending(i)') <= Cardinality(Pending(i))
      BY <1>1, <2>5, FS_Subset
    <3>3. QED
      BY <1>0, <1>1, <3>1, <3>2
  <2>8. QED
    BY <2>6, <2>7
<1>6. CASE ~FindRow(w) /\ ~WriteRow(w)
  <2>1. rows' = rows
    BY <1>0, <1>6, RowsKept
  <2>2. pc'[w] # "write"
    BY <1>0, <1>6 DEF Step, Start, ReadRow, Fetch, Save, SaveError, Raise, End, Fail, Goto, TypeOK
  <2>3. QED
    BY <1>3, <2>1, <2>2 DEF Pending
<1>7. QED
  BY <1>4, <1>5, <1>6

-----------------------------------------------------------------------------
LEMMA NextInv == KInv /\ [Next]_vars => KInv'
<1> SUFFICES ASSUME KInv, [Next]_vars PROVE KInv'
  OBVIOUS
<1>0. TypeOK /\ now \in Int
  BY DEF KInv, TypeOK
<1>1. ASSUME NEW w \in Workers, Step(w) PROVE KInv'
  <2>1. TypeOK'
    BY <1>1, StepTypes DEF KInv
  <2>2. ASSUME NEW k \in Workers, k # w PROVE Fresh(k)' /\ Begun(k)' /\ Cleared(k)' /\ Ends(k)'
    <3>1. pc'[k] = pc[k] /\ task'[k] = task[k]
      BY <1>0, <1>1, <2>2, OthersKept
    <3>2. now' = now
      BY <1>1 DEF Step, Start, ReadRow, Fetch, FindRow, WriteRow, Save, SaveError, Raise, End
    <3>3. \A i \in Intervals : \A c : Covered(i, c) => Covered(i, c)'
      BY <1>0, <1>1, CoveredKept
    <3>4. now' \in Int /\ now' >= now
      BY <1>0, <3>2
    <3>5. QED
      BY <3>1, <3>3, <3>4, StaysClear
  <2>3. \A k \in Workers : Fresh(k)' /\ Begun(k)' /\ Cleared(k)' /\ Ends(k)'
    BY <1>1, <2>2, Moves
  <2>4. RowCovered' /\ Inserts'
    BY <1>1, RowsCovered, RowsInserted
  <2>5. QED
    BY <2>1, <2>3, <2>4 DEF KInv
<1>2. ASSUME UNCHANGED <<rows, tables, lost, started, pc, task>>, now' \in Int, now' >= now
      PROVE  KInv'
  <2>1. TypeOK'
    BY <1>2 DEF KInv, TypeOK, IntervalOf
  <2>2. \A i \in Intervals : \A c : Covered(i, c) => Covered(i, c)'
    BY <1>2 DEF Covered, HasKline, InHand, Held, OpensIn, Candles, IntervalOf
  <2>3. \A w \in Workers : Fresh(w)' /\ Begun(w)' /\ Cleared(w)' /\ Ends(w)'
    BY <1>2, <2>2, StaysClear
  <2>4. RowCovered'
    <3> SUFFICES ASSUME NEW i \in Intervals, NEW n \in DOMAIN rows[i], NEW c \in Candles(i),
                        now' - Span[i] <= c, c <= rows[i][n].last
                 PROVE  Covered(i, c)'
      BY <1>2 DEF RowCovered, Covered, OpensIn, Candles
    <3>1. now - Span[i] <= c
      BY <1>0, <1>2, CandleTimes, KlinesConstants
    <3>2. Covered(i, c)
      BY <3>1 DEF KInv, RowCovered, OpensIn, Covered
    <3>3. QED
      BY <2>2, <3>2
  <2>5. Inserts'
    BY <1>2 DEF KInv, Inserts, Pending, IntervalOf
  <2>6. QED
    BY <2>1, <2>3, <2>4, <2>5 DEF KInv
<1>3. CASE Tick
  BY <1>0, <1>2, <1>3 DEF Tick
<1>4. CASE UNCHANGED vars
  BY <1>0, <1>2, <1>4 DEF vars
<1>5. QED
  BY <1>1, <1>3, <1>4 DEF Next

\* The inductive invariant of the workers of one symbol, its rows and tables.
THEOREM KlinesInvariant == Spec => []KInv
<1>1. QED
  BY InitInv, NextInv, PTL DEF Spec

\* Every variable keeps its type.
THEOREM KlinesTypes == Spec => []TypeOK
  BY KlinesInvariant, PTL DEF KInv

\* No row runs ahead of the candles, however workers race for it and however
\* short the answers are.
THEOREM RowsBacked == Spec => []RowCovered
  BY KlinesInvariant, PTL DEF KInv

LEMMA InsertsBound == KInv => RowsBounded
<1> SUFFICES ASSUME KInv, NEW i \in Intervals PROVE Len(rows[i]) <= Cardinality(Workers)
  BY DEF RowsBounded
<1>1. Len(rows[i]) \in Nat /\ Len(rows[i]) + Cardinality(Pending(i)) <= Cardinality(Workers)
  BY DEF KInv, Inserts, TypeOK
<1>2. Pending(i) \in SUBSET Workers
  BY DEF Pending
<1>3. IsFiniteSet(Pending(i))
  BY <1>2, KlinesConstants, FS_Subset
<1>4. Cardinality(Pending(i)) \in Nat /\ Cardinality(Workers) \in Nat
  BY <1>3, KlinesConstants, FS_CardinalityType
<1>5. QED
  BY <1>1, <1>4

\* The racing upserts leave no more rows of an interval than there are workers.
THEOREM RowsFew == Spec => []RowsBounded
<1>1. QED
  BY KlinesInvariant, InsertsBound, PTL

-----------------------------------------------------------------------------
(* What a success covers.                                                  *)

LEMMA Divides ==
  ASSUME NEW W \in Nat \ {0}, NEW t \in Int
  PROVE  t \div W \in Int /\ (t \div W) * W <= t /\ t < (t \div W + 1) * W
  OBVIOUS

LEMMA Scales ==
  ASSUME NEW W \in Nat \ {0}, NEW a \in Int, NEW b \in Int
  PROVE  /\ a <= b <=> a * W <= b * W
         /\ a * W \in Int /\ (a + b) * W = a * W + b * W /\ (-a) * W = -(a * W)
         /\ (a + 1) * W = a * W + W /\ (a - 1) * W = a * W - W
  OBVIOUS

\* Candles as wide as the code takes them for fit the limit it asks for.
LEMMA WindowFits ==
  ASSUME NEW i \in Intervals, NEW from \in Int, NEW to \in Int, Limit(i, from, to) >= 1,
         \A c, d \in OpensIn(i, from, to) : c < d => c + Width[i] <= d
  PROVE  Cardinality(OpensIn(i, from, to)) <= Limit(i, from, to) /\ Limit(i, from, to) \in Int
<1> DEFINE W == Width[i]
           S == OpensIn(i, from, to)
           q == (to - from) \div W
<1>1. W \in Nat \ {0} /\ Limit(i, from, to) \in Int
  <2>1. W \in Nat \ {0}
    BY KlinesConstants
  <2>2. (to - from) \div W \in Int /\ (-(to - from)) \div W \in Int
    BY <2>1
  <2>3. QED
    BY <2>1, <2>2 DEF Limit, Div
<1>2. /\ IsFiniteSet(S) /\ Cardinality(S) \in Nat
      /\ \A c \in S : c \in Int /\ from <= c /\ c <= to
  BY WindowFinite
<1>3. \A c, d \in S : c < d => c + W <= d
  OBVIOUS
<1> HIDE DEF W, S
<1>4. CASE to < from
  <2>1. S = {}
    BY <1>2, <1>4
  <2>2. Cardinality(S) = 0
    BY <2>1, FS_EmptySet
  <2>3. QED
    BY <1>1, <2>2 DEF S
<1>5. CASE from <= to
  <2>1. q \in Nat /\ to - from < (q + 1) * W /\ q * W <= to - from
    <3>1. q \in Int /\ q * W <= to - from /\ to - from < (q + 1) * W
      BY <1>1, Divides
    <3>2. q >= 0
      BY <1>1, <1>5
    <3>3. QED
      BY <3>1, <3>2
  <2>2. Limit(i, from, to) = q + 1
    BY <1>1, <1>5 DEF Limit, Div, W
  <2> DEFINE slot == [c \in S |-> (c - from) \div W]
  <2>3. \A c \in S : /\ (c - from) \div W \in Int
                     /\ ((c - from) \div W) * W <= c - from
                     /\ c - from < ((c - from) \div W + 1) * W
    <3> TAKE c \in S
    <3>1. c - from \in Int
      BY <1>2
    <3>2. QED
      BY <1>1, <3>1, Divides
  <2>4. slot \in [S -> 0 .. q]
    <3> SUFFICES ASSUME NEW c \in S PROVE (c - from) \div W \in 0 .. q
      OBVIOUS
    <3> DEFINE s == (c - from) \div W
    <3>1. s \in Int /\ s * W <= c - from /\ c - from < (s + 1) * W /\ c \in Int /\ from <= c /\ c <= to
      BY <1>2, <2>3
    <3>2. s >= 0
      BY <1>1, <3>1
    <3> HIDE DEF s, q
    <3>3. s * W \in Int /\ (q + 1) * W \in Int /\ ~((q + 1) * W <= s * W)
      BY <1>1, <2>1, <3>1, Scales
    <3>4. ~(q + 1 <= s)
      BY <1>1, <2>1, <3>1, <3>3, Scales
    <3>5. QED
      BY <2>1, <3>1, <3>2, <3>4 DEF s
  <2>5. \A c, d \in S : c < d => slot[c] # slot[d]
    <3> SUFFICES ASSUME NEW c \in S, NEW d \in S, c < d, slot[c] = slot[d] PROVE FALSE
      OBVIOUS
    <3> DEFINE s == (c - from) \div W
    <3>1. s = (d - from) \div W
      OBVIOUS
    <3>2. /\ s \in Int /\ s * W <= c - from /\ d - from < (s + 1) * W
          /\ c \in Int /\ d \in Int /\ c + W <= d
      BY <1>2, <1>3, <2>3, <3>1
    <3> HIDE DEF s
    <3>3. (s + 1) * W = s * W + W /\ s * W \in Int
      BY <1>1, <3>2, Scales
    <3>4. QED
      BY <1>1, <3>2, <3>3
  <2> HIDE DEF slot, q
  <2>6. IsFiniteSet(0 .. q) /\ Cardinality(0 .. q) = q + 1
    BY <2>1, FS_Interval
  <2>7. ~(Cardinality(S) > Cardinality(0 .. q))
    <3> SUFFICES ASSUME Cardinality(S) > Cardinality(0 .. q) PROVE FALSE
      OBVIOUS
    <3>1. \E c, d \in S : c # d /\ slot[c] = slot[d]
      BY <1>2, <2>4, <2>6, FS_PigeonHole
    <3>2. PICK c \in S, d \in S : c # d /\ slot[c] = slot[d]
      BY <3>1
    <3>3. c < d \/ d < c
      BY <1>2, <3>2
    <3>4. QED
      BY <2>5, <3>2, <3>3
  <2>8. QED
    BY <1>2, <2>1, <2>2, <2>6, <2>7 DEF S
<1>6. QED
  BY <1>4, <1>5

\* An answer that leaves nothing out holds the whole window.
LEMMA ReturnedWhole ==
  ASSUME TypeOK, NEW w \in Workers, AnsweredWhole(w), NEW i \in Intervals, i = IntervalOf(w),
         Limit(i, task[w].from, task[w].to) >= 1
  PROVE  Returned(i, task[w].from, task[w].to) = OpensIn(i, task[w].from, task[w].to)
<1> DEFINE from == task[w].from
           to == task[w].to
           S == OpensIn(i, from, to)
           limit == Limit(i, from, to)
<1>1. from \in Int /\ to \in Int
  BY DEF TypeOK, Task
<1>2. /\ Cardinality(S) <= MaxAnswer
      /\ \A c, d \in S : c < d => c + Width[i] <= d
  BY DEF AnsweredWhole
<1> HIDE DEF from, to
<1>3. Cardinality(S) <= limit /\ limit \in Int /\ MaxAnswer \in Nat
  BY <1>1, <1>2, WindowFits, KlinesConstants DEF from, to
<1>4. IsFiniteSet(S) /\ Cardinality(S) \in Nat
  BY <1>1, WindowFinite
<1>5. ASSUME NEW c \in S
      PROVE  Cardinality(OpensIn(i, from, c)) \in 1 .. limit \intersect 1 .. MaxAnswer
  <2>1. c \in Int /\ from <= c /\ c <= to /\ c \in Candles(i)
    BY CandleTimes DEF OpensIn
  <2>2. OpensIn(i, from, c) \in SUBSET S /\ c \in OpensIn(i, from, c)
    <3>1. \A d \in Candles(i) : d \in Int /\ (d <= c => d <= to)
      BY <1>1, <2>1, CandleTimes
    <3>2. OpensIn(i, from, c) \subseteq S
      BY <3>1 DEF OpensIn
    <3>3. c \in OpensIn(i, from, c)
      BY <2>1 DEF OpensIn
    <3>4. QED
      BY <3>2, <3>3
  <2>3. /\ Cardinality(OpensIn(i, from, c)) <= Cardinality(S)
        /\ IsFiniteSet(OpensIn(i, from, c)) /\ Cardinality(OpensIn(i, from, c)) \in Nat
    BY <1>1, <1>4, <2>1, <2>2, FS_Subset, WindowFinite
  <2>4. Cardinality(OpensIn(i, from, c)) # 0
    BY <2>2, <2>3, FS_EmptySet
  <2> DEFINE n == Cardinality(OpensIn(i, from, c))
  <2>5. n \in Nat /\ n # 0 /\ n <= Cardinality(S)
    BY <2>3, <2>4
  <2> HIDE DEF n, S, limit
  <2>6. n \in 1 .. limit /\ n \in 1 .. MaxAnswer
    BY <1>2, <1>3, <1>4, <2>5
  <2>7. QED
    BY <2>6 DEF n
<1>6. QED
  BY <1>5 DEF Returned, from, to

\* The candles in hand reach as far as the window, and what a success covers.
Whole(w) ==
  pc[w] \in {"find", "write", "save"} /\ AnsweredWhole(w) =>
    \A c \in OpensIn(IntervalOf(w), task[w].from, task[w].to) : c <= task[w].last
Successful(w) ==
  pc[w] = "done" /\ AnsweredWhole(w) =>
    \A c \in OpensIn(IntervalOf(w), now - Span[IntervalOf(w)], task[w].to) :
      Covered(IntervalOf(w), c)

SInv == \A w \in Workers : Whole(w) /\ Successful(w)

\* The worker that moves has all of its window in hand, and covers its span when
\* it succeeds.
LEMMA WholeMoves ==
  ASSUME KInv, NEW w \in Workers, Whole(w), Step(w)
  PROVE  Whole(w)' /\ Successful(w)'
<1>0. /\ TypeOK /\ task[w] \in Task /\ IntervalOf(w) \in Intervals /\ Cleared(w)
      /\ pc \in [Workers -> {"idle", "read", "fetch", "find", "write", "save", "done", "failed"}]
      /\ task[w].from \in Int /\ task[w].to \in Int /\ task[w].last \in Int /\ now \in Int
  BY DEF KInv, TypeOK, Task, IntervalOf
<1> PICK i \in Intervals : i = IntervalOf(w)
  BY <1>0
<1>1. now' = now
  BY DEF Step, Start, ReadRow, Fetch, FindRow, WriteRow, Save, SaveError, Raise, End
<1>2. \A at : Goto(w, at) => pc'[w] = at
  BY <1>0 DEF Goto
<1>3. ASSUME task'[w].from = task[w].from, task'[w].to = task[w].to,
             task'[w].interval = task[w].interval
      PROVE  (AnsweredWhole(w)' => AnsweredWhole(w)) /\ IntervalOf(w)' = i
  BY <1>3 DEF AnsweredWhole, IntervalOf, OpensIn, Candles
<1>4. CASE Fetch(w)
  <2>1. pc[w] = "fetch" /\ pc'[w] \in {"find", "done", "failed"}
    BY <1>2, <1>4 DEF Fetch, At, Fail
  <2>2. CASE pc'[w] = "failed"
    BY <2>2 DEF Whole, Successful
  <2>3. CASE pc'[w] # "failed"
    <3> DEFINE klines == Returned(i, task[w].from, task[w].to)
               limit == Limit(i, task[w].from, task[w].to)
    <3>1. limit \in 1 .. MaxLimit
      BY <1>2, <1>4, <2>3 DEF Fetch, Fail
    <3>2. limit >= 1
      BY <3>1, KlinesConstants
    <3>3. CASE pc'[w] = "find"
      <4>1. PICK last \in klines :
              /\ \A c \in klines : c <= last
              /\ task' = [task EXCEPT ![w] = [task[w] EXCEPT !.last = last, !.fetched = now]]
        BY <1>2, <1>4, <3>3 DEF Fetch, Fail
      <4>2. /\ task'[w].last = last /\ task'[w].from = task[w].from
            /\ task'[w].to = task[w].to /\ task'[w].interval = task[w].interval
        BY <1>0, <4>1 DEF TypeOK, Task
      <4>3. ASSUME AnsweredWhole(w)'
            PROVE  \A c \in OpensIn(i, task[w].from, task[w].to) : c <= last
        <5>1. klines = OpensIn(i, task[w].from, task[w].to)
          BY <1>0, <1>3, <3>2, <4>2, <4>3, ReturnedWhole
        <5>2. QED
          BY <4>1, <5>1
      <4>4. Whole(w)'
        BY <1>3, <4>2, <4>3 DEF Whole, OpensIn, Candles
      <4>5. QED
        BY <3>3, <4>4 DEF Successful
    <3>4. CASE pc'[w] = "done"
      <4>1. klines = {} /\ task' = task
        BY <1>2, <1>4, <3>4 DEF Fetch, Fail
      <4>2. IntervalOf(w)' = i
        BY <4>1 DEF IntervalOf
      <4>3. ASSUME AnsweredWhole(w)', NEW c \in OpensIn(i, now - Span[i], task[w].to)
            PROVE  Covered(i, c)'
        <5>1. OpensIn(i, task[w].from, task[w].to) = {}
          BY <1>0, <1>3, <3>2, <4>1, <4>3, ReturnedWhole
        <5>2. /\ c \in Candles(i) /\ c \in Int /\ now - Span[i] <= c /\ c <= task[w].to
              /\ ~(task[w].from <= c)
          BY <5>1, CandleTimes DEF OpensIn
        <5>3. Covered(i, c)
          BY <1>0, <2>1, <5>2 DEF Cleared, ClearBefore
        <5>4. QED
          BY <1>0, <5>3, CoveredKept
      <4>4. Successful(w)'
        BY <1>1, <4>1, <4>2, <4>3 DEF Successful, OpensIn, Candles
      <4>5. QED
        BY <3>4, <4>4 DEF Whole
    <3>5. QED
      BY <2>1, <2>3, <3>3, <3>4
  <2>4. QED
    BY <2>2, <2>3
<1>5. CASE FindRow(w) \/ WriteRow(w)
  <2>1. pc[w] \in {"find", "write"} /\ pc'[w] \in {"write", "save"}
    BY <1>2, <1>5 DEF FindRow, WriteRow, At
  <2>2. /\ task'[w].last = task[w].last /\ task'[w].from = task[w].from
        /\ task'[w].to = task[w].to /\ task'[w].interval = task[w].interval
    <3>1. CASE FindRow(w)
      <4>1. PICK n : task' = [task EXCEPT ![w] = [task[w] EXCEPT !.row = n]]
        BY <3>1 DEF FindRow
      <4>2. QED
        BY <1>0, <4>1 DEF TypeOK, Task
    <3>2. CASE WriteRow(w)
      BY <3>2 DEF WriteRow
    <3>3. QED
      BY <1>5, <3>1, <3>2
  <2>3. Whole(w)'
    BY <1>3, <2>1, <2>2 DEF Whole, OpensIn, Candles
  <2>4. QED
    BY <2>1, <2>3 DEF Successful
<1>6. CASE Save(w)
  <2>1. pc[w] = "save" /\ pc'[w] = "done" /\ task' = task
    BY <1>2, <1>6 DEF Save, At
  <2>2. IntervalOf(w)' = i
    BY <2>1 DEF IntervalOf
  <2>3. ASSUME AnsweredWhole(w)', NEW c \in OpensIn(i, now - Span[i], task[w].to)
        PROVE  Covered(i, c)'
    <3>1. AnsweredWhole(w)
      BY <1>3, <2>1, <2>3
    <3>2. c \in Candles(i) /\ c \in Int /\ now - Span[i] <= c /\ c <= task[w].to
      BY CandleTimes DEF OpensIn
    <3>3. Covered(i, c)
      <4>1. CASE task[w].from <= c
        <5>1. c \in Held(w)
          BY <2>1, <3>1, <3>2, <4>1 DEF Whole, OpensIn, Held
        <5>2. QED
          BY <2>1, <5>1 DEF InHand, Covered
      <4>2. CASE c < task[w].from
        BY <1>0, <2>1, <3>2, <4>2 DEF Cleared, ClearBefore
      <4>3. QED
        BY <1>0, <3>2, <4>1, <4>2
    <3>4. QED
      BY <1>0, <3>3, CoveredKept
  <2>4. QED
    BY <1>1, <2>1, <2>2, <2>3 DEF Whole, Successful, OpensIn, Candles
<1>7. CASE Start(w) \/ ReadRow(w) \/ SaveError(w) \/ Raise(w) \/ End(w)
  <2>1. pc'[w] \in {"read", "fetch", "failed", "idle"}
    BY <1>2, <1>7 DEF Start, ReadRow, SaveError, Raise, End, Fail
  <2>2. QED
    BY <2>1 DEF Whole, Successful
<1>8. QED
  BY <1>4, <1>5, <1>6, <1>7 DEF Step

\* A step that moves nothing of a worker keeps what that worker covers.
LEMMA StaysWhole ==
  ASSUME TypeOK, NEW k \in Workers, pc'[k] = pc[k], task'[k] = task[k],
         now' \in Int, now' >= now, Whole(k), Successful(k),
         \A i \in Intervals : \A c : Covered(i, c) => Covered(i, c)'
  PROVE  Whole(k)' /\ Successful(k)'
<1>0. IntervalOf(k) \in Intervals /\ now \in Int
  BY DEF TypeOK, Task, IntervalOf
<1> PICK i \in Intervals : i = IntervalOf(k)
  BY <1>0
<1>1. IntervalOf(k)' = i /\ (AnsweredWhole(k)' => AnsweredWhole(k))
  BY DEF AnsweredWhole, IntervalOf, OpensIn, Candles
<1>2. Whole(k)'
  BY <1>1 DEF Whole, OpensIn, Candles
<1>3. \A c \in Candles(i) : now' - Span[i] <= c => now - Span[i] <= c
  BY <1>0, CandleTimes, KlinesConstants
<1>4. Successful(k)'
  <2> SUFFICES ASSUME pc[k] = "done", AnsweredWhole(k), NEW c \in Candles(i),
                      now' - Span[i] <= c, c <= task[k].to
               PROVE  Covered(i, c)'
    BY <1>1 DEF Successful, OpensIn, Candles
  <2>1. now - Span[i] <= c
    BY <1>3
  <2>2. Covered(i, c)
    BY <2>1 DEF Successful, OpensIn
  <2>3. QED
    BY <2>2
<1>5. QED
  BY <1>2, <1>4

LEMMA SuccessNext == KInv /\ SInv /\ [Next]_vars => SInv'
<1> SUFFICES ASSUME KInv, SInv, [Next]_vars, NEW k \in Workers
             PROVE  Whole(k)' /\ Successful(k)'
  BY DEF SInv
<1>0. TypeOK /\ now \in Int /\ Whole(k) /\ Successful(k)
  BY DEF KInv, TypeOK, SInv
<1>1. CASE Step(k)
  BY <1>0, <1>1, WholeMoves
<1>2. ASSUME NEW w \in Workers, w # k, Step(w) PROVE Whole(k)' /\ Successful(k)'
  <2>1. pc'[k] = pc[k] /\ task'[k] = task[k]
    BY <1>0, <1>2, OthersKept
  <2>2. \A i \in Intervals : \A c : Covered(i, c) => Covered(i, c)'
    BY <1>0, <1>2, CoveredKept
  <2>3. now' = now
    BY <1>2 DEF Step, Start, ReadRow, Fetch, FindRow, WriteRow, Save, SaveError, Raise, End
  <2>4. now' \in Int /\ now' >= now
    BY <1>0, <2>3
  <2>5. QED
    BY <1>0, <2>1, <2>2, <2>4, StaysWhole
<1>3. ASSUME UNCHANGED <<rows, tables, lost, started, pc, task>>, now' \in Int, now' >= now
      PROVE  Whole(k)' /\ Successful(k)'
  <2>1. \A i \in Intervals : \A c : Covered(i, c) => Covered(i, c)'
    BY <1>3 DEF Covered, HasKline, InHand, Held, OpensIn, Candles, IntervalOf
  <2>2. QED
    BY <1>0, <1>3, <2>1, StaysWhole
<1>4. CASE Tick
  BY <1>0, <1>3, <1>4 DEF Tick
<1>5. CASE UNCHANGED vars
  BY <1>0, <1>3, <1>5 DEF vars
<1>6. QED
  BY <1>1, <1>2, <1>4, <1>5 DEF Next

\* A task that succeeds on an answer that was whole leaves no gap in its span but
\* what a failed write lost, whatever was cut off the answers before it.
THEOREM SuccessesCover == Spec => []SuccessCovers
<1>1. Init => SInv
  BY DEF Init, SInv, Whole, Successful
<1>2. SInv => SuccessCovers
  BY DEF SInv, Successful, SuccessCovers, Covered
<1>3. QED
  BY <1>1, <1>2, KlinesInvariant, SuccessNext, PTL DEF Spec

-----------------------------------------------------------------------------
(* An interval that has fallen behind.                                     *)

\* The computed limit of a window too long is refused.
LEMMA TooLongRefused ==
  ASSUME NEW i \in Intervals, NEW from \in Int, NEW to \in Int, TooLong(i, from, to)
  PROVE  Limit(i, from, to) \notin 1 .. MaxLimit
<1> DEFINE W == Width[i]
           d == to - from
<1>1. W \in Nat \ {0} /\ MaxLimit \in Nat /\ d \in Int /\ MaxLimit * W \in Nat
  BY KlinesConstants
<1>2. d >= MaxLimit * W
  BY DEF TooLong
<1>3. d >= 0 /\ d \div W \in Int /\ d < (d \div W + 1) * W
  BY <1>1, <1>2, Divides
<1>4. MaxLimit < d \div W + 1
  <2>1. (d \div W + 1) * W \in Int /\ ~((d \div W + 1) * W <= MaxLimit * W)
    BY <1>1, <1>2, <1>3
  <2>2. ~(d \div W + 1 <= MaxLimit)
    BY <1>1, <1>3, <2>1, Scales
  <2>3. QED
    BY <1>1, <1>3, <2>2
<1>5. Limit(i, from, to) = d \div W + 1
  BY <1>3 DEF Limit, Div
<1>6. QED
  BY <1>1, <1>3, <1>4, <1>5

\* A worker on such an interval stays late, and writes no row.
LEMMA LateStays ==
  ASSUME TypeOK, NEW i \in Intervals, Behind(i), NEW w \in Workers, Step(w)
  PROVE  /\ rows'[i] = rows[i] /\ now' = now
         /\ IntervalOf(w)' = i => Late(w)'
<1>0. /\ pc \in [Workers -> {"idle", "read", "fetch", "find", "write", "save", "done", "failed"}]
      /\ IntervalOf(w) \in Intervals /\ task[w] \in Task
      /\ IntervalOf(w) = i => Late(w)
      /\ task \in [Workers -> Task] /\ rows \in [Intervals -> Seq(Row)]
      /\ now' = now
  <2>1. now' = now
    BY DEF Step, Start, ReadRow, Fetch, FindRow, WriteRow, Save, SaveError, Raise, End
  <2>2. QED
    BY <2>1 DEF Behind, TypeOK, Task, IntervalOf
<1>1. rows'[i] = rows[i]
  <2>1. CASE ~WriteRow(w)
    BY <2>1, RowsKept
  <2>2. CASE WriteRow(w)
    BY <1>0, <2>2 DEF WriteRow, At, Late
  <2>3. QED
    BY <2>1, <2>2
<1>2. \A at : Goto(w, at) => pc'[w] = at
  BY <1>0 DEF Goto
<1>3. ASSUME IntervalOf(w)' = i PROVE Late(w)'
  <2>1. CASE Start(w)
    <3>1. PICK j \in Intervals :
            task' = [task EXCEPT ![w] = [NoTask EXCEPT !.interval = j, !.to = now,
                                                       !.from = now - Span[j]]]
      BY <2>1 DEF Start
    <3>2. pc'[w] = "read" /\ task'[w].to = now
      BY <1>0, <1>2, <2>1, <3>1 DEF Start, NoTask
    <3>3. \A n \in DOMAIN rows[i] : TooLong(i, rows[i][n].last, now)
      BY DEF Behind
    <3>4. QED
      BY <1>1, <1>3, <3>2, <3>3 DEF Late, TooLong
  <2>2. CASE ReadRow(w)
    <3>1. pc[w] = "read" /\ pc'[w] = "fetch"
      BY <1>2, <2>2 DEF ReadRow, At
    <3>2. \A a : [task[w] EXCEPT !.from = a].interval = task[w].interval
      BY <1>0 DEF Task
    <3>3. IntervalOf(w) = i
      BY <1>0, <1>3, <2>2, <3>2 DEF ReadRow, IntervalOf
    <3>4. PICK n \in MostRecent(i) :
            task' = [task EXCEPT ![w] = [task[w] EXCEPT !.from = Resume(i, n)]]
      BY <2>2, <3>3 DEF ReadRow, Behind
    <3>5. n \in DOMAIN rows[i] /\ Resume(i, n) = rows[i][n].last
      BY <3>4 DEF MostRecent, Resume
    <3>6. task'[w].from = rows[i][n].last /\ task'[w].to = task[w].to
      BY <1>0, <3>4, <3>5 DEF Task
    <3>7. TooLong(i, rows[i][n].last, task[w].to)
      BY <1>0, <3>1, <3>3, <3>5 DEF Late
    <3>8. QED
      BY <1>3, <3>1, <3>6, <3>7 DEF Late, TooLong
  <2>3. CASE Fetch(w)
    <3>1. pc[w] = "fetch"
      BY <2>3 DEF Fetch, At
    <3>2. CASE pc'[w] = "find"
      <4>1. PICK a, b : task' = [task EXCEPT ![w] = [task[w] EXCEPT !.last = a, !.fetched = b]]
        BY <1>2, <2>3, <3>2 DEF Fetch, Fail
      <4>2. task'[w].interval = task[w].interval
        BY <1>0, <4>1 DEF Task
      <4>3. IntervalOf(w) = i
        BY <1>3, <4>2 DEF IntervalOf
      <4>4. TooLong(i, task[w].from, task[w].to)
        BY <1>0, <3>1, <4>3 DEF Late
      <4>5. Limit(i, task[w].from, task[w].to) \notin 1 .. MaxLimit
        BY <1>0, <4>4, TooLongRefused DEF Task
      <4>6. QED
        BY <1>2, <2>3, <3>2, <4>3, <4>5 DEF Fetch, Fail
    <3>3. CASE pc'[w] # "find"
      <4>1. pc'[w] \in {"done", "failed"}
        BY <1>2, <2>3, <3>3 DEF Fetch, Fail
      <4>2. QED
        BY <4>1 DEF Late
    <3>4. QED
      BY <3>2, <3>3
  <2>4. CASE FindRow(w)
    <3>1. PICK n : task' = [task EXCEPT ![w] = [task[w] EXCEPT !.row = n]]
      BY <2>4 DEF FindRow
    <3>2. task'[w].interval = task[w].interval
      BY <1>0, <3>1 DEF Task
    <3>3. QED
      BY <1>0, <1>3, <2>4, <3>2 DEF FindRow, At, Late, IntervalOf
  <2>5. CASE WriteRow(w) \/ Save(w) \/ SaveError(w) \/ Raise(w) \/ End(w)
    <3>1. pc'[w] \in {"save", "done", "failed", "idle"}
      BY <1>2, <2>5 DEF WriteRow, Save, SaveError, Raise, End, Fail
    <3>2. QED
      BY <3>1 DEF Late
  <2>6. QED
    BY <2>1, <2>2, <2>3, <2>4, <2>5 DEF Step
<1>4. QED
  BY <1>0, <1>1, <1>3

LEMMA BehindStays ==
  ASSUME TypeOK, [Next]_vars, NEW i \in Intervals, Behind(i)
  PROVE  Behind(i)' /\ rows'[i] = rows[i]
<1>1. ASSUME rows'[i] = rows[i], now' \in Int, now' >= now,
             \A w \in Workers : IntervalOf(w)' = i => Late(w)'
      PROVE  Behind(i)' /\ rows'[i] = rows[i]
  <2>1. ASSUME NEW n \in DOMAIN rows[i] PROVE TooLong(i, rows[i][n].last, now')
    <3>1. rows[i][n] \in Row
      BY DEF TypeOK
    <3>2. rows[i][n].last \in Int /\ now \in Int /\ MaxLimit * Width[i] \in Int
      BY <3>1, KlinesConstants DEF Row, TypeOK
    <3>3. TooLong(i, rows[i][n].last, now)
      BY DEF Behind
    <3>4. QED
      BY <1>1, <3>2, <3>3 DEF TooLong
  <2>2. QED
    BY <1>1, <2>1 DEF Behind, TooLong
<1>2. ASSUME NEW w \in Workers, Step(w)
      PROVE  Behind(i)' /\ rows'[i] = rows[i]
  <2>1. rows'[i] = rows[i] /\ now' = now /\ (IntervalOf(w)' = i => Late(w)')
    BY <1>2, LateStays
  <2>2. ASSUME NEW k \in Workers, k # w, IntervalOf(k)' = i PROVE Late(k)'
    <3>1. pc'[k] = pc[k] /\ task'[k] = task[k]
      BY <1>2, <2>2, OthersKept
    <3>2. IntervalOf(k) = i /\ Late(k)
      BY <2>2, <3>1 DEF IntervalOf, Behind
    <3>3. QED
      BY <2>1, <2>2, <3>1, <3>2 DEF Late, TooLong
  <2>3. now' \in Int /\ now' >= now
    BY <2>1 DEF TypeOK
  <2>4. QED
    BY <1>1, <2>1, <2>2, <2>3
<1>3. ASSUME UNCHANGED <<rows, pc, task>>, now' \in Int, now' >= now
      PROVE  Behind(i)' /\ rows'[i] = rows[i]
  <2>1. \A w \in Workers : IntervalOf(w)' = i => Late(w)'
    BY <1>3 DEF Behind, Late, IntervalOf, TooLong
  <2>2. QED
    BY <1>1, <1>3, <2>1
<1>4. CASE Tick
  BY <1>3, <1>4 DEF Tick, TypeOK
<1>5. CASE UNCHANGED vars
  BY <1>3, <1>5 DEF vars, TypeOK
<1>6. QED
  BY <1>2, <1>4, <1>5 DEF Next

\* An interval once left behind the limit is never synchronised again, in any
\* order of the workers' steps.
THEOREM NoCatchingUp == Spec => BehindForGood
<1>1. TypeOK /\ [Next]_vars =>
        [\A i \in Intervals : Behind(i) => Behind(i)' /\ rows'[i] = rows[i]]_vars
  BY BehindStays
<1>2. QED
  BY <1>1, KlinesTypes, PTL DEF Spec, BehindForGood
=============================================================================
