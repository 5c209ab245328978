------------------------- MODULE TradingPairsProofs -------------------------
(***************************************************************************)
(* Proofs about TradingPairs, for any symbols and intervals, and any       *)
(* number of changes, batches and crashes.                                 *)
(***************************************************************************)
EXTENDS TradingPairs, TLAPS

\* A worker that has not been started has no timer and no message.
NothingBeforeStart == work = "down" => timers = 0 /\ mailbox = 0

\* A batch announces pairs and has saved tasks only once its tasks run: the
\* listing that clears the sync times is over by then.
AnnouncedLate ==
  batch \in {"config", "nats", "questdb", "postgres", "list", "save", "execute"} =>
    announced = {} /\ \A t \in Tasks : task[t] # "saved"

\* What a task has saved, and not yet announced, still has its sync times.
SavedTimed == \A t \in Tasks : task[t] = "saved" => Times(t[1])

\* The worker writes pairs after it has found or created their exchange.
WriterHasExchange == work = "writing" => exchange

PInv ==
  /\ TypeOK
  /\ WriterHasExchange
  /\ NothingBeforeStart
  /\ TwoChains
  /\ AnnouncedLate
  /\ SavedTimed
  /\ AnnouncedSynced

-----------------------------------------------------------------------------
LEMMA InitInv == Init => PInv
  BY TableConstants DEF Init, PInv, TypeOK, Info, Row, NothingBeforeStart, TwoChains,
     AnnouncedLate, SavedTimed, AnnouncedSynced, WriterHasExchange


LEMMA WithInfoInRow ==
  ASSUME TypeOK, NEW s \in Symbols, NEW info \in Info
  PROVE  WithInfo(s, info) \in Row
<1>1. Times(s) \in BOOLEAN
  <2>1. CASE row[s] = Null
    BY <2>1 DEF Times
  <2>2. CASE row[s] \in Row
    BY <2>2 DEF Times, Row
  <2>3. QED
    BY <2>1, <2>2 DEF TypeOK
<1>2. QED
  BY <1>1 DEF WithInfo, Row, Info

\* The type is preserved by the worker: it counts its timers and messages,
\* holds the exchange's listing, and writes rows only of an exchange.
LEMMA WorkerTypes ==
  ASSUME TypeOK, WriterHasExchange, Worker
  PROVE  TypeOK'
<1> USE DEF TypeOK, rust
<1>1. CASE StartWorker
  BY <1>1 DEF StartWorker, StartChains
<1>2. CASE Fire
  BY <1>2 DEF Fire
<1>3. CASE Receive
  BY <1>3 DEF Receive
<1>4. CASE Ask
  BY <1>4 DEF Ask, Finish
<1>5. CASE FindExchange
  <2>1. exchange' = TRUE \/ exchange' = exchange
    BY <1>5 DEF FindExchange, EnsureExchange
  <2>2. exchange' \in BOOLEAN /\ ((\E s \in Symbols : row'[s] # Null) => exchange')
    BY <1>5, <2>1 DEF FindExchange
  <2>3. work' \in {"idle", "writing"} /\ timers' \in Nat
    BY <1>5 DEF FindExchange, Finish
  <2>4. QED
    BY <1>5, <2>2, <2>3 DEF FindExchange
<1>6. CASE Upsert
  <2>0. \A s \in Symbols : WithInfo(s, fetched[s]) \in Row
    BY WithInfoInRow
  <2>1. row' \in [Symbols -> Row \union {Null}]
    <3>1. CASE UNCHANGED row
      BY <3>1
    <3>2. CASE row' = [s \in Symbols |-> IF Valid(s) THEN WithInfo(s, fetched[s]) ELSE row[s]]
      BY <2>0, <3>2
    <3>3. QED
      BY <1>6, <3>1, <3>2 DEF Upsert
  <2>2. QED
    BY <1>6, <2>1 DEF Upsert, Finish, WriterHasExchange
<1>7. CASE Crash
  BY <1>7, TableConstants DEF Crash, StartChains
<1>8. QED
  BY <1>1, <1>2, <1>3, <1>4, <1>5, <1>6, <1>7 DEF Worker

\* A pair saved by the batch is a row of an exchange.
LEMMA SaveTypes ==
  ASSUME TypeOK, NEW s \in Symbols, NEW times \in BOOLEAN, Save(s, times)
  PROVE  exchange /\ row' \in [Symbols -> Row \union {Null}]
  BY DEF TypeOK, Save, Info, Row

\* The type is preserved by the batch.
LEMMA BatchTypes ==
  ASSUME TypeOK, Batch
  PROVE  TypeOK'
<1> USE DEF TypeOK, worker
<1>1. CASE Boot
  BY <1>1, TableConstants DEF Boot
<1>2. CASE Quit
  BY <1>2 DEF Quit
<1>3. CASE LoadConfig \/ ConnectNats \/ ConnectQuestDb \/ ConnectPostgres
  BY <1>3 DEF LoadConfig, ConnectNats, ConnectQuestDb, ConnectPostgres, StartUp
<1>4. CASE List
  BY <1>4 DEF List
<1>5. ASSUME NEW s \in Symbols, SaveListed(s)
      PROVE  TypeOK'
  BY <1>5, SaveTypes DEF SaveListed
<1>6. CASE SavedAll
  BY <1>6 DEF SavedAll
<1>7. CASE Execute
  BY <1>7 DEF Execute
<1>8. ASSUME NEW t \in Tasks, SavePair(t)
      PROVE  TypeOK'
  <2>1. t[1] \in Symbols
    BY DEF Tasks
  <2>2. task' \in [Tasks -> {"none", "running", "saved", "ended"}]
    BY <1>8 DEF SavePair
  <2>3. /\ row' \in [Symbols -> Row \union {Null}]
        /\ (\E s \in Symbols : row'[s] # Null) => exchange
    BY <1>8, <2>1, SaveTypes DEF SavePair
  <2>4. QED
    BY <1>8, <2>2, <2>3 DEF SavePair
<1>9. ASSUME NEW t \in Tasks, PublishPair(t)
      PROVE  TypeOK'
  BY <1>9 DEF PublishPair, Tasks
<1>10. QED
  BY <1>1, <1>2, <1>3, <1>4, <1>5, <1>6, <1>7, <1>8, <1>9 DEF Batch

LEMMA StepTypes ==
  ASSUME TypeOK, WriterHasExchange, [Next]_vars
  PROVE  TypeOK'
<1>1. ASSUME NEW s \in Symbols, Change(s)
      PROVE  TypeOK'
  BY <1>1 DEF Change, TypeOK, Info, worker, rust
<1>2. CASE UNCHANGED vars
  BY <1>2 DEF TypeOK, vars
<1>3. QED
  BY <1>1, <1>2, WorkerTypes, BatchTypes DEF Next

\* The worker's own facts: chains are neither lost nor made, and the exchange
\* stays.  Nothing else touches them.
LEMMA StepChains ==
  ASSUME PInv, [Next]_vars
  PROVE  NothingBeforeStart' /\ TwoChains' /\ WriterHasExchange'
<1> USE DEF PInv, TypeOK, NothingBeforeStart, TwoChains, WriterHasExchange, Handling
<1>1. CASE Worker
  <2>1. CASE StartWorker
    BY <2>1 DEF StartWorker, StartChains
  <2>2. CASE Fire
    BY <2>2 DEF Fire
  <2>3. CASE Receive
    BY <2>3 DEF Receive
  <2>4. CASE Ask
    BY <2>4 DEF Ask, Finish
  <2>5. CASE FindExchange
    BY <2>5 DEF FindExchange, EnsureExchange, Finish
  <2>6. CASE Upsert
    BY <2>6 DEF Upsert, Finish
  <2>7. CASE Crash
    BY <2>7 DEF Crash, StartChains
  <2>8. QED
    BY <1>1, <2>1, <2>2, <2>3, <2>4, <2>5, <2>6, <2>7 DEF Worker
<1>2. CASE UNCHANGED <<worker, exchange>>
  BY <1>2 DEF worker
<1>3. ASSUME NEW s \in Symbols, Change(s)
      PROVE  UNCHANGED <<worker, exchange>>
  BY <1>3 DEF Change
<1>4. CASE Batch
  BY <1>2, <1>4 DEF Batch, Boot, Quit, LoadConfig, ConnectNats, ConnectQuestDb,
     ConnectPostgres, StartUp, List, SaveListed, SavedAll, Execute, SavePair, PublishPair
<1>5. CASE UNCHANGED vars
  BY <1>2, <1>5 DEF vars, worker
<1>6. QED
  BY <1>1, <1>2, <1>3, <1>4, <1>5 DEF Next

\* No step of the worker clears a sync time.
LEMMA WorkerKeepsTimes ==
  ASSUME TypeOK, Worker
  PROVE  \A s \in Symbols : Times(s) => Times(s)'
<1>1. CASE Upsert
  <2>1. SUFFICES ASSUME NEW s \in Symbols, Times(s)
                 PROVE  Times(s)'
    OBVIOUS
  <2>2. CASE row' = row
    BY <2>1, <2>2 DEF Times
  <2>3. CASE row' = [r \in Symbols |-> IF Valid(r) THEN WithInfo(r, fetched[r]) ELSE row[r]]
    <3>1. CASE Valid(s)
      <4>1. row'[s] = WithInfo(s, fetched[s])
        BY <2>3, <3>1
      <4>2. WithInfo(s, fetched[s]) \in Row
        BY WithInfoInRow DEF TypeOK
      <4>3. row'[s] # Null
        BY <4>1, <4>2, TableConstants DEF Row
      <4>4. row'[s].times = Times(s)
        BY <4>1 DEF WithInfo
      <4>5. QED
        BY <2>1, <4>3, <4>4 DEF Times
    <3>2. CASE ~Valid(s)
      BY <2>1, <2>3, <3>2 DEF Times
    <3>3. QED
      BY <3>1, <3>2
  <2>4. QED
    BY <1>1, <2>2, <2>3 DEF Upsert
<1>2. CASE UNCHANGED row
  BY <1>2 DEF Times
<1>3. QED
  BY <1>1, <1>2 DEF Worker, StartWorker, Fire, Receive, Ask, FindExchange, Crash

\* A saved pair has the sync times it was saved with; the others keep theirs.
LEMMA SaveTimes ==
  ASSUME TypeOK, NEW s \in Symbols, Save(s, TRUE)
  PROVE  Times(s)' /\ \A r \in Symbols : Times(r) => Times(r)'
<1>1. [version |-> listed[s].version, status |-> listed[s].status, times |-> TRUE] \in Row
  BY DEF TypeOK, Info, Row
<1>2. [version |-> listed[s].version, status |-> listed[s].status, times |-> TRUE] # Null
  BY <1>1, TableConstants DEF Row
<1>3. QED
  BY <1>2 DEF TypeOK, Save, Times

\* What is announced, or saved by a task, is timed.
LEMMA StepTimes ==
  ASSUME PInv, [Next]_vars
  PROVE  AnnouncedLate' /\ SavedTimed' /\ AnnouncedSynced'
<1> USE DEF PInv, AnnouncedLate, SavedTimed, AnnouncedSynced
<1>0. /\ \A t \in Tasks : t[1] \in Symbols
      /\ \A s \in announced : s \in Symbols
      /\ task \in [Tasks -> {"none", "running", "saved", "ended"}]
  BY DEF Tasks, TypeOK
<1>1. ASSUME UNCHANGED <<batch, task, announced>>,
             \A s \in Symbols : Times(s) => Times(s)'
      PROVE  AnnouncedLate' /\ SavedTimed' /\ AnnouncedSynced'
  BY <1>0, <1>1
<1>2. CASE Worker
  <2>1. UNCHANGED <<batch, task, announced>>
    BY <1>2 DEF Worker, StartWorker, Fire, Receive, Ask, FindExchange, Upsert, Crash, rust
  <2>2. QED
    BY <1>1, <1>2, <2>1, WorkerKeepsTimes
<1>3. ASSUME NEW s \in Symbols, Change(s)
      PROVE  AnnouncedLate' /\ SavedTimed' /\ AnnouncedSynced'
  BY <1>1, <1>3 DEF Change, rust, Times
<1>4. CASE Batch
  <2>1. CASE Boot
    BY <2>1, <1>0 DEF Boot
  <2>2. CASE Quit
    BY <1>0, <2>2 DEF Quit, Times
  <2>3. CASE LoadConfig \/ ConnectNats \/ ConnectQuestDb \/ ConnectPostgres \/ List
             \/ SavedAll
    BY <1>0, <2>3 DEF LoadConfig, ConnectNats, ConnectQuestDb, ConnectPostgres, StartUp,
       List, SavedAll, Times
  <2>4. ASSUME NEW s \in Symbols, SaveListed(s)
        PROVE  AnnouncedLate' /\ SavedTimed' /\ AnnouncedSynced'
    BY <1>0, <2>4 DEF SaveListed
  <2>5. CASE Execute
    BY <1>0, <2>5 DEF Execute, Times
  <2>6. ASSUME NEW t \in Tasks, SavePair(t)
        PROVE  AnnouncedLate' /\ SavedTimed' /\ AnnouncedSynced'
    <3>1. batch = "joining" /\ UNCHANGED <<batch, announced>>
      BY <2>6 DEF SavePair
    <3>2. CASE Save(t[1], TRUE) /\ task' = [task EXCEPT ![t] = "saved"]
      BY <1>0, <3>1, <3>2, SaveTimes
    <3>3. CASE task' = [task EXCEPT ![t] = "ended"] /\ UNCHANGED row
      BY <1>0, <3>1, <3>3 DEF Times
    <3>4. QED
      BY <2>6, <3>2, <3>3 DEF SavePair
  <2>7. ASSUME NEW t \in Tasks, PublishPair(t)
        PROVE  AnnouncedLate' /\ SavedTimed' /\ AnnouncedSynced'
    BY <1>0, <2>7 DEF PublishPair, Times
  <2>8. QED
    BY <1>4, <2>1, <2>2, <2>3, <2>4, <2>5, <2>6, <2>7 DEF Batch
<1>5. CASE UNCHANGED vars
  BY <1>1, <1>5 DEF vars, Times
<1>6. QED
  BY <1>2, <1>3, <1>4, <1>5 DEF Next

LEMMA StepInv ==
  ASSUME PInv, [Next]_vars
  PROVE  PInv'
  BY StepTypes, StepChains, StepTimes DEF PInv

\* The table's invariant, for any number of symbols, batches and crashes.
THEOREM TableInvariant == Spec => []PInv
<1>1. PInv /\ UNCHANGED vars => PInv'
  BY StepInv
<1>2. QED
  BY InitInv, StepInv, <1>1, PTL DEF Spec

\* Every variable keeps its type, and a row has its exchange.
THEOREM TableTypes == Spec => []TypeOK
  BY TableInvariant, PTL DEF PInv

\* The worker's two chains of syncs are neither lost nor multiplied.
THEOREM ChainsKept == Spec => []TwoChains
  BY TableInvariant, PTL DEF PInv

\* An announced pair keeps its sync times while the worker writes its row.
THEOREM AnnouncedPairsSynced == Spec => []AnnouncedSynced
  BY TableInvariant, PTL DEF PInv
=============================================================================
