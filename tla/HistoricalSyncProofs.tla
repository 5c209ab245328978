------------------------ MODULE HistoricalSyncProofs ------------------------
(***************************************************************************)
(* Proofs about HistoricalSync, for every set of pairs and intervals, every*)
(* budget, every duration and any number of crashes and restarts.          *)
(***************************************************************************)
EXTENDS HistoricalSync, FiniteSetTheorems, TLAPS

\* Before the futures exist nothing has been counted, fetched or displayed.
QuietUntilSubmitted ==
  main \in {"exited", "listing", "executing"} =>
    /\ \A t \in Tasks : pc[t] = "idle"
    /\ seen = 0 /\ display \in {"off", "waiting"}

\* The display leaves its first loop only for a batch that has tasks, and its
\* second one only when the count it loaded had reached their number.
DisplayHonest ==
  /\ display \in {"loading", "locking", "sleeping", "done"} => total # 0
  /\ display = "done" => seen >= total

\* Between the two stores of a task its window is already in QuestDB.
KlinesBeforePair ==
  \A t \in Tasks : pc[t] \in {"publish", "savePair"} =>
    Slots(win[t].from, ClaimEnd(win[t])) \subseteq synced[t]

IInv ==
  /\ TypeOK
  /\ QuietUntilSubmitted
  /\ RequestBudget
  /\ CompletedCounts
  /\ DisplayHonest
  /\ KlinesBeforePair
  /\ WatermarkBacked

-----------------------------------------------------------------------------
\* There are finitely many tasks, so that they can be counted.
LEMMA TasksFinite == IsFiniteSet(Tasks)
  BY ConstantsOK, FS_Product DEF Tasks

\* So can those in any given place.
LEMMA CountsFinite ==
  /\ IsFiniteSet(Done) /\ IsFiniteSet(Submitted) /\ IsFiniteSet(Fetching)
  /\ Cardinality(Done) \in Nat
  /\ Cardinality(Submitted) \in Nat
  /\ Cardinality(Fetching) \in Nat
<1>1. Done \subseteq Tasks /\ Submitted \subseteq Tasks /\ Fetching \subseteq Tasks
  BY DEF Done, Submitted, Fetching
<1>2. IsFiniteSet(Done) /\ IsFiniteSet(Submitted) /\ IsFiniteSet(Fetching)
  BY <1>1, TasksFinite, FS_Subset
<1>3. QED
  BY <1>2, FS_CardinalityType

\* What a step of an open task does to the sets the counters count.
LEMMA MoveSets ==
  ASSUME TypeOK, NEW t \in Tasks, NEW at \in PC \ {"idle"},
         pc[t] \notin Resolved \union {"idle"}, Goto(t, at)
  PROVE  /\ pc' \in [Tasks -> PC]
         /\ pc'[t] = at
         /\ \A u \in Tasks \ {t} : pc'[u] = pc[u]
         /\ Submitted' = Submitted
         /\ Done' = IF at \in {"done", "skipped"} THEN Done \union {t} ELSE Done
         /\ Failed' = IF at = "failed" THEN Failed \union {t} ELSE Failed
         /\ Fetching' = IF at = "fetch" THEN Fetching \union {t} ELSE Fetching \ {t}
         /\ t \in Submitted /\ t \notin Done /\ t \notin Failed
<1>1. pc \in [Tasks -> PC]
  BY DEF TypeOK
<1>2. pc' = [pc EXCEPT ![t] = at]
  BY DEF Goto
<1>3. /\ pc' \in [Tasks -> PC] /\ pc'[t] = at
      /\ \A u \in Tasks \ {t} : pc'[u] = pc[u]
  BY <1>1, <1>2
<1>4. Submitted' = Submitted
  BY <1>3 DEF Submitted, Resolved
<1>5. Done' = IF at \in {"done", "skipped"} THEN Done \union {t} ELSE Done
  BY <1>3 DEF Done, Resolved
<1>6. Failed' = IF at = "failed" THEN Failed \union {t} ELSE Failed
  BY <1>3 DEF Failed, Resolved
<1>7. Fetching' = IF at = "fetch" THEN Fetching \union {t} ELSE Fetching \ {t}
  BY <1>3 DEF Fetching
<1>8. t \in Submitted /\ t \notin Done /\ t \notin Failed
  BY DEF Submitted, Done, Failed, Resolved
<1>9. QED
  BY <1>3, <1>4, <1>5, <1>6, <1>7, <1>8

\* The same, in numbers.
LEMMA MoveCounts ==
  ASSUME TypeOK, NEW t \in Tasks, NEW at \in PC \ {"idle"},
         pc[t] \notin Resolved \union {"idle"}, Goto(t, at)
  PROVE  /\ Cardinality(Submitted') = Cardinality(Submitted)
         /\ Cardinality(Done') = Cardinality(Done)
              + (IF at \in {"done", "skipped"} THEN 1 ELSE 0)
         /\ Cardinality(Fetching') = Cardinality(Fetching)
              + (IF at = "fetch" THEN (IF pc[t] = "fetch" THEN 0 ELSE 1)
                 ELSE (IF pc[t] = "fetch" THEN -1 ELSE 0))
<1>1. /\ Submitted' = Submitted
      /\ Done' = IF at \in {"done", "skipped"} THEN Done \union {t} ELSE Done
      /\ Fetching' = IF at = "fetch" THEN Fetching \union {t} ELSE Fetching \ {t}
      /\ t \notin Done
  BY MoveSets
<1>2. t \in Fetching <=> pc[t] = "fetch"
  BY DEF Fetching
<1>3. Cardinality(Done \union {t}) = Cardinality(Done) + 1
  BY <1>1, CountsFinite, FS_AddElement
<1>4. Cardinality(Fetching \union {t}) =
        IF t \in Fetching THEN Cardinality(Fetching) ELSE Cardinality(Fetching) + 1
  BY CountsFinite, FS_AddElement
<1>5. Cardinality(Fetching \ {t}) =
        IF t \in Fetching THEN Cardinality(Fetching) - 1 ELSE Cardinality(Fetching)
  BY CountsFinite, FS_RemoveElement
<1>6. QED
  BY <1>1, <1>2, <1>3, <1>4, <1>5, CountsFinite

-----------------------------------------------------------------------------
\* Type correctness of the initial state.
LEMMA InitType == Init => TypeOK
  BY ConstantsOK DEF Init, TypeOK, NoWindow, Window, PC, Resolved

\* Type correctness is kept when a process ends.
LEMMA EndType == TypeOK /\ End /\ UNCHANGED row => TypeOK'
  BY ConstantsOK DEF TypeOK, End, NoWindow, Window, PC, Resolved

\* The end of a claim is a time.
LEMMA ClaimType == \A w \in Window : ClaimEnd(w) \in Int /\ Claim(w) \in [start : Int, end : Int]
  BY DEF Window, ClaimEnd, Claim

\* Type correctness is kept by every step of a task.
LEMMA StepType ==
  ASSUME TypeOK, NEW t \in Tasks, Step(t)
  PROVE  TypeOK'
<1> USE DEF TypeOK, At, Goto, PC, Resolved, exchangeVars, counters, displayVars
<1>0. /\ t[1] \in Pairs /\ t[2] \in Intervals
      /\ win[t] \in Window /\ win[t].from \in Int /\ win[t].to \in Int
      /\ ClaimEnd(win[t]) \in Int
  BY ClaimType DEF Tasks, Window
<1>1. CASE Begin(t)
  BY <1>1 DEF Begin, Window
<1>2. CASE Determine(t)
  <2>1. PICK latest \in {Null, IF row[t[1]] = Null THEN Null ELSE row[t[1]].end} :
          LET from == Later(win[t].to - Duration[t[2]], latest) IN
          \/ /\ from >= win[t].to
             /\ Complete(t, "skipped")
             /\ UNCHANGED win
          \/ /\ from < win[t].to
             /\ win' = [win EXCEPT ![t].from = from]
             /\ Goto(t, "acquire")
             /\ UNCHANGED completed
    BY <1>2 DEF Determine
  <2>2. latest \in Int \union {Null}
    BY <1>0
  <2>3. Later(win[t].to - Duration[t[2]], latest) \in Int
    BY <1>0, <2>2, ConstantsOK DEF Later
  <2>4. win' \in [Tasks -> Window]
    BY <1>0, <2>1, <2>3 DEF Window
  <2>5. completed' \in Nat /\ pc' \in [Tasks -> PC]
    BY <2>1 DEF Complete
  <2>6. QED
    BY <1>2, <2>4, <2>5 DEF Determine
<1>3. CASE Acquire(t)
  BY <1>3 DEF Acquire, TakeToken
<1>4. CASE Fetch(t)
  <2>1. win' \in [Tasks -> Window]
    <3>1. \A last \in ((win[t].from + 1) .. (win[t].to + Width[t[2]])) \union {Null} :
            last \in Int \union {Null}
      BY <1>0, ConstantsOK
    <3>2. QED
      BY <1>0, <1>4, <3>1 DEF Fetch, Window
  <2>2. QED
    BY <1>4, <2>1 DEF Fetch, FailTask
<1>5. CASE SaveKlines(t)
  <2>1. synced' \in [Tasks -> SUBSET Int]
    BY <1>0, <1>5 DEF SaveKlines, Slots
  <2>2. QED
    BY <1>5, <2>1 DEF SaveKlines, FailTask
<1>6. CASE PublishKlines(t)
  BY <1>6 DEF PublishKlines
<1>7. CASE SavePair(t)
  <2>1. row' \in [Pairs -> {Null} \union [start : Int, end : Int]]
    BY <1>0, <1>7, ClaimType DEF SavePair
  <2>2. QED
    BY <1>7, <2>1 DEF SavePair, Complete
<1>8. CASE PublishPair(t)
  BY <1>8 DEF PublishPair, Complete
<1>9. QED
  BY <1>1, <1>2, <1>3, <1>4, <1>5, <1>6, <1>7, <1>8 DEF Step

\* Type correctness is kept by every step of the program.
LEMMA NextType == TypeOK /\ [Next]_vars => TypeOK'
<1> SUFFICES ASSUME TypeOK, [Next]_vars PROVE TypeOK'
  OBVIOUS
<1> USE DEF exchangeVars, counters, displayVars, taskVars
<1>1. CASE Boot
  BY <1>1 DEF Boot, TypeOK
<1>2. CASE ListPairs
  <2>1. row' \in [Pairs -> {Null} \union [start : Int, end : Int]]
    BY <1>2 DEF ListPairs, TypeOK
  <2>2. CASE End
    BY <2>1, <2>2, ConstantsOK DEF TypeOK, End, NoWindow, Window, PC, Resolved
  <2>3. QED
    BY <1>2, <2>1, <2>2 DEF ListPairs, TypeOK
<1>3. CASE Execute
  <2>1. \A listed \in SUBSET Pairs : Cardinality(listed) * Cardinality(Intervals) \in Nat
    BY ConstantsOK, FS_Subset, FS_CardinalityType
  <2>2. QED
    BY <1>3, <2>1 DEF Execute, TypeOK, PC
<1>4. CASE Join
  BY <1>4 DEF Join, TypeOK
<1>5. CASE Exit
  BY <1>5, EndType DEF Exit
<1>6. CASE Crash
  BY <1>6, EndType DEF Crash
<1>7. CASE Tick
  BY <1>7 DEF Tick, TypeOK
<1>8. ASSUME NEW t \in Tasks, Step(t) PROVE TypeOK'
  BY <1>8, StepType
<1>9. CASE Display
  BY <1>9 DEF Display, DisplayStart, DisplayLoad, DisplayFinish, DisplaySleep,
              DisplayWake, DisplayMove, DisplayRest, TypeOK
<1>10. CASE UNCHANGED vars
  BY <1>10 DEF vars, TypeOK
<1>11. QED
  BY <1>1, <1>2, <1>3, <1>4, <1>5, <1>6, <1>7, <1>8, <1>9, <1>10 DEF Next

\* Every variable keeps its type in every behaviour of the batch program.
THEOREM TypeCorrect == Spec => []TypeOK
<1>1. QED
  BY InitType, NextType, PTL DEF Spec

-----------------------------------------------------------------------------
\* With every task idle there is nothing to count.
LEMMA IdleCounts ==
  ASSUME \A t \in Tasks : pc[t] = "idle"
  PROVE  /\ Done = {} /\ Failed = {} /\ Submitted = {} /\ Fetching = {}
         /\ Cardinality(Done) = 0 /\ Cardinality(Submitted) = 0
         /\ Cardinality(Fetching) = 0
  BY FS_EmptySet DEF Done, Failed, Submitted, Fetching

\* The inductive invariant holds initially.
LEMMA InitInv == Init => IInv
<1> SUFFICES ASSUME Init PROVE IInv
  OBVIOUS
<1>1. TypeOK
  BY InitType
<1>2. \A t \in Tasks : pc[t] = "idle"
  BY DEF Init
<1>3. RequestBudget /\ CompletedCounts
  BY <1>2, IdleCounts, ConstantsOK DEF Init, RequestBudget, CompletedCounts
<1>4. QuietUntilSubmitted /\ DisplayHonest /\ KlinesBeforePair /\ WatermarkBacked
  BY <1>2 DEF Init, QuietUntilSubmitted, DisplayHonest, KlinesBeforePair, WatermarkBacked
<1>5. QED
  BY <1>1, <1>3, <1>4 DEF IInv

\* A process that ends leaves the invariant to the next one: only the two
\* databases carry over, and what they hold is still backed.
LEMMA EndInv ==
  ASSUME IInv, TypeOK', End,
         \A p \in Pairs : row'[p] = Null \/ row'[p] = row[p]
  PROVE  IInv'
<1>1. \A t \in Tasks : pc'[t] = "idle"
  BY DEF End
<1>2. /\ Cardinality(Done') = 0 /\ Cardinality(Submitted') = 0
      /\ Cardinality(Fetching') = 0
  <2>1. Done' = {} /\ Submitted' = {} /\ Fetching' = {}
    BY <1>1 DEF Done, Submitted, Fetching
  <2>2. QED
    BY <2>1, FS_EmptySet
<1>3. RequestBudget' /\ CompletedCounts'
  BY <1>2, ConstantsOK DEF End, RequestBudget, CompletedCounts
<1>4. QuietUntilSubmitted' /\ DisplayHonest' /\ KlinesBeforePair'
  BY <1>1 DEF End, QuietUntilSubmitted, DisplayHonest, KlinesBeforePair
<1>5. WatermarkBacked'
  BY DEF End, WatermarkBacked, IInv
<1>6. QED
  BY <1>3, <1>4, <1>5 DEF IInv

-----------------------------------------------------------------------------
\* A step of a task moves that task alone, from one open place to another or
\* to a result, and never touches the display or the number of tasks.
LEMMA StepFrame ==
  ASSUME NEW t \in Tasks, Step(t)
  PROVE  /\ main = "joining" /\ main' = main
         /\ display' = display /\ seen' = seen /\ total' = total
         /\ pc[t] \notin Resolved \union {"idle"}
         /\ \E at \in PC \ {"idle"} : Goto(t, at)
<1> USE DEF At, PC, Resolved, counters, displayVars, Complete, FailTask
<1>1. CASE Begin(t)
  BY <1>1 DEF Begin
<1>2. CASE Determine(t)
  BY <1>2 DEF Determine
<1>3. CASE Acquire(t)
  BY <1>3 DEF Acquire
<1>4. CASE Fetch(t)
  BY <1>4 DEF Fetch
<1>5. CASE SaveKlines(t)
  BY <1>5 DEF SaveKlines
<1>6. CASE PublishKlines(t)
  BY <1>6 DEF PublishKlines
<1>7. CASE SavePair(t)
  BY <1>7 DEF SavePair
<1>8. CASE PublishPair(t)
  BY <1>8 DEF PublishPair
<1>9. QED
  BY <1>1, <1>2, <1>3, <1>4, <1>5, <1>6, <1>7, <1>8 DEF Step

\* The bucket and the counters stay exact under every step of a task: moves
\* that take no token and count nothing, moves that count a completion, the
\* token that pays for a fetch and the fetch that spends it.
LEMMA StepCounts ==
  ASSUME IInv, NEW t \in Tasks, Step(t)
  PROVE  RequestBudget' /\ CompletedCounts'
<1> DEFINE Exact ==
      /\ tokens' + requests' + Cardinality(Fetching') = RequestsPerMinute
      /\ completed' = Cardinality(Done')
      /\ total' = Cardinality(Submitted')
      /\ seen' <= completed'
<1> SUFFICES Exact
  BY DEF RequestBudget, CompletedCounts
<1>0. /\ pc[t] \notin Resolved \union {"idle"} /\ TypeOK
      /\ seen' = seen /\ total' = total
  BY StepFrame DEF IInv
<1>1. /\ tokens + requests + Cardinality(Fetching) = RequestsPerMinute
      /\ completed = Cardinality(Done) /\ total = Cardinality(Submitted)
      /\ seen <= completed
      /\ tokens \in Nat /\ requests \in Nat /\ completed \in Nat /\ seen \in Nat
      /\ Cardinality(Fetching) \in Nat
  BY CountsFinite DEF IInv, RequestBudget, CompletedCounts, TypeOK
<1>2. ASSUME NEW at \in PC \ {"idle"}, at \notin {"fetch", "done", "skipped"},
             Goto(t, at), pc[t] # "fetch", UNCHANGED <<tokens, requests, completed>>
      PROVE  Exact
  <2>1. /\ Cardinality(Fetching') = Cardinality(Fetching)
        /\ Cardinality(Done') = Cardinality(Done)
        /\ Cardinality(Submitted') = Cardinality(Submitted)
    BY <1>0, <1>1, <1>2, MoveCounts
  <2>2. QED
    BY <1>0, <1>1, <1>2, <2>1
<1>3. ASSUME NEW at \in {"done", "skipped"}, Complete(t, at), pc[t] # "fetch",
             UNCHANGED <<tokens, requests>>
      PROVE  Exact
  <2>1. Goto(t, at) /\ completed' = completed + 1
    BY <1>3 DEF Complete
  <2>2. at \in PC \ {"idle"} /\ at # "fetch"
    BY DEF PC, Resolved
  <2>3. /\ Cardinality(Fetching') = Cardinality(Fetching)
        /\ Cardinality(Done') = Cardinality(Done) + 1
        /\ Cardinality(Submitted') = Cardinality(Submitted)
    BY <1>0, <1>1, <1>3, <2>1, <2>2, MoveCounts
  <2>4. QED
    BY <1>0, <1>1, <1>3, <2>1, <2>3
<1>4. CASE Begin(t)
  <2>1. /\ Goto(t, "find") /\ pc[t] = "start" /\ "find" \in PC \ {"idle"}
        /\ UNCHANGED <<tokens, requests, completed>>
    BY <1>4 DEF Begin, At, PC, counters
  <2>2. QED
    BY <1>2, <2>1
<1>5. CASE Determine(t)
  <2>1. /\ pc[t] = "find" /\ UNCHANGED <<tokens, requests>>
        /\ Complete(t, "skipped") \/ (Goto(t, "acquire") /\ UNCHANGED completed)
    BY <1>5 DEF Determine, At
  <2>2. "acquire" \in PC \ {"idle"}
    BY DEF PC
  <2>3. QED
    BY <1>2, <1>3, <2>1, <2>2
<1>6. CASE Acquire(t)
  <2>1. Goto(t, "fetch") /\ pc[t] = "acquire" /\ "fetch" \in PC \ {"idle"}
    BY <1>6 DEF Acquire, At, PC
  <2>2. /\ Cardinality(Fetching') = Cardinality(Fetching) + 1
        /\ Cardinality(Done') = Cardinality(Done)
        /\ Cardinality(Submitted') = Cardinality(Submitted)
    BY <1>0, <1>1, <2>1, MoveCounts
  <2>3. tokens' = tokens - 1 /\ UNCHANGED <<requests, completed>>
    BY <1>6 DEF Acquire, TakeToken, counters
  <2>4. QED
    BY <1>0, <1>1, <2>2, <2>3
<1>7. CASE Fetch(t)
  <2>1. /\ pc[t] = "fetch" /\ requests' = requests + 1
        /\ UNCHANGED <<tokens, completed>>
        /\ Goto(t, "save") \/ Goto(t, "failed")
    BY <1>7 DEF Fetch, At, FailTask
  <2>2. "save" \in PC \ {"idle"} /\ "failed" \in PC \ {"idle"}
    BY DEF PC, Resolved
  <2>3. /\ Cardinality(Fetching') = Cardinality(Fetching) - 1
        /\ Cardinality(Done') = Cardinality(Done)
        /\ Cardinality(Submitted') = Cardinality(Submitted)
    <3>1. CASE Goto(t, "save")
      BY <1>0, <1>1, <2>1, <2>2, <3>1, MoveCounts
    <3>2. CASE Goto(t, "failed")
      BY <1>0, <1>1, <2>1, <2>2, <3>2, MoveCounts
    <3>3. QED
      BY <2>1, <3>1, <3>2
  <2>4. QED
    BY <1>0, <1>1, <2>1, <2>3
<1>8. CASE SaveKlines(t)
  <2>1. /\ pc[t] = "save" /\ UNCHANGED <<tokens, requests, completed>>
        /\ Goto(t, "publish") \/ Goto(t, "failed")
    BY <1>8 DEF SaveKlines, At, FailTask
  <2>2. "publish" \in PC \ {"idle"} /\ "failed" \in PC \ {"idle"}
    BY DEF PC, Resolved
  <2>3. QED
    BY <1>2, <2>1, <2>2
<1>9. CASE PublishKlines(t)
  <2>1. /\ Goto(t, "savePair") /\ pc[t] = "publish" /\ "savePair" \in PC \ {"idle"}
        /\ UNCHANGED <<tokens, requests, completed>>
    BY <1>9 DEF PublishKlines, At, PC, counters
  <2>2. QED
    BY <1>2, <2>1
<1>10. CASE SavePair(t)
  <2>1. /\ pc[t] = "savePair" /\ UNCHANGED <<tokens, requests>>
        /\ Complete(t, "done") \/ (Goto(t, "publishPair") /\ UNCHANGED completed)
    BY <1>10 DEF SavePair, At
  <2>2. "publishPair" \in PC \ {"idle"}
    BY DEF PC
  <2>3. QED
    BY <1>2, <1>3, <2>1, <2>2
<1>11. CASE PublishPair(t)
  <2>1. /\ pc[t] = "publishPair" /\ UNCHANGED <<tokens, requests>>
        /\ Complete(t, "done")
    BY <1>11 DEF PublishPair, At
  <2>2. QED
    BY <1>3, <2>1
<1>12. QED
  BY <1>4, <1>5, <1>6, <1>7, <1>8, <1>9, <1>10, <1>11 DEF Step

\* A step of a task keeps every claim behind what QuestDB holds: klines are
\* never removed, a task asks for the second store only after the first, and
\* the row takes exactly the window just stored.
LEMMA StepStores ==
  ASSUME IInv, NEW t \in Tasks, Step(t)
  PROVE  KlinesBeforePair' /\ WatermarkBacked'
<1>0. /\ pc \in [Tasks -> PC] /\ win \in [Tasks -> Window]
      /\ synced \in [Tasks -> SUBSET Int]
      /\ row \in [Pairs -> {Null} \union [start : Int, end : Int]]
      /\ \A u \in Tasks : pc[u] \in {"publish", "savePair"} =>
           Slots(win[u].from, ClaimEnd(win[u])) \subseteq synced[u]
      /\ \A p \in Pairs : row[p] # Null =>
           \E i \in Intervals : Slots(row[p].start, row[p].end) \subseteq synced[<<p, i>>]
      /\ t = <<t[1], t[2]>> /\ t[1] \in Pairs /\ t[2] \in Intervals
  BY DEF IInv, TypeOK, KlinesBeforePair, WatermarkBacked, Tasks
<1> USE DEF At, Goto, exchangeVars
<1>1. ASSUME NEW at \in PC \ {"publish", "savePair"}, Goto(t, at),
             UNCHANGED <<row, synced>>,
             \A u \in Tasks \ {t} : win'[u] = win[u]
      PROVE  KlinesBeforePair' /\ WatermarkBacked'
  BY <1>0, <1>1 DEF KlinesBeforePair, WatermarkBacked
<1>2. CASE Begin(t)
  BY <1>0, <1>1, <1>2 DEF Begin, PC
<1>3. CASE Determine(t)
  BY <1>0, <1>1, <1>3 DEF Determine, Complete, PC, Resolved
<1>4. CASE Acquire(t)
  BY <1>1, <1>4 DEF Acquire, PC
<1>5. CASE Fetch(t)
  BY <1>0, <1>1, <1>5 DEF Fetch, FailTask, PC, Resolved
<1>6. CASE SaveKlines(t)
  <2>1. /\ \A u \in Tasks : synced[u] \subseteq synced'[u]
        /\ pc'[t] = "publish" => Slots(win[t].from, ClaimEnd(win[t])) \subseteq synced'[t]
        /\ pc'[t] \in {"publish", "failed"}
        /\ \A u \in Tasks \ {t} : pc'[u] = pc[u]
        /\ UNCHANGED <<row, win>>
    BY <1>0, <1>6 DEF SaveKlines, FailTask
  <2>2. KlinesBeforePair'
    BY <1>0, <2>1 DEF KlinesBeforePair
  <2>3. \A p \in Pairs, i \in Intervals : <<p, i>> \in Tasks
    BY DEF Tasks
  <2>4. WatermarkBacked'
    BY <1>0, <2>1, <2>3 DEF WatermarkBacked
  <2>5. QED
    BY <2>2, <2>4
<1>7. CASE PublishKlines(t)
  BY <1>0, <1>7 DEF PublishKlines, KlinesBeforePair, WatermarkBacked
<1>8. CASE SavePair(t)
  <2>1. pc[t] = "savePair" /\ UNCHANGED <<synced, win>>
    BY <1>8 DEF SavePair
  <2>2. \/ row' = row
        \/ row' = [row EXCEPT ![t[1]] = Claim(win[t])]
    BY <1>8 DEF SavePair
  <2>3. Slots(Claim(win[t]).start, Claim(win[t]).end) \subseteq synced[<<t[1], t[2]>>]
    BY <1>0, <2>1 DEF Claim
  <2>4. WatermarkBacked'
    BY <1>0, <2>1, <2>2, <2>3 DEF WatermarkBacked
  <2>5. KlinesBeforePair'
    BY <1>0, <1>8, <2>1 DEF SavePair, Complete, KlinesBeforePair
  <2>6. QED
    BY <2>4, <2>5
<1>9. CASE PublishPair(t)
  BY <1>1, <1>9 DEF PublishPair, Complete, PC, Resolved
<1>10. QED
  BY <1>2, <1>3, <1>4, <1>5, <1>6, <1>7, <1>8, <1>9 DEF Step

\* A step of a task keeps the whole invariant.
LEMMA StepInv ==
  ASSUME IInv, NEW t \in Tasks, Step(t)
  PROVE  IInv'
<1>1. TypeOK'
  BY StepType DEF IInv
<1>2. RequestBudget' /\ CompletedCounts'
  BY StepCounts
<1>3. KlinesBeforePair' /\ WatermarkBacked'
  BY StepStores
<1>4. QuietUntilSubmitted' /\ DisplayHonest'
  BY StepFrame DEF QuietUntilSubmitted, DisplayHonest, IInv
<1>5. QED
  BY <1>1, <1>2, <1>3, <1>4 DEF IInv

\* What a step that moves no task leaves of the sets.
LEMMA SameSets ==
  ASSUME UNCHANGED pc
  PROVE  /\ Done' = Done /\ Failed' = Failed
         /\ Submitted' = Submitted /\ Fetching' = Fetching
  BY DEF Done, Failed, Submitted, Fetching

\* A step of the display keeps the invariant.
LEMMA DisplayInv == IInv /\ Display => IInv'
<1> SUFFICES ASSUME IInv, Display PROVE IInv'
  OBVIOUS
<1>1. DisplayRest
  BY DEF Display, DisplayStart, DisplayLoad, DisplayFinish, DisplaySleep, DisplayWake
<1>2. /\ UNCHANGED <<main, row, synced, tokens, requests, total, completed, pc, win>>
      /\ TypeOK
  BY <1>1 DEF DisplayRest, exchangeVars, counters, taskVars, IInv
<1>3. Display /\ TypeOK'
  BY NextType DEF Next, IInv
<1>4. main \notin {"exited", "listing", "executing"}
  <2>1. display = "waiting" => total # 0
    BY <1>2 DEF Display, DisplayStart, DisplayLoad, DisplayFinish, DisplaySleep,
                DisplayWake, DisplayMove
  <2>2. display \notin {"off"}
    BY DEF Display, DisplayStart, DisplayLoad, DisplayFinish, DisplaySleep,
           DisplayWake, DisplayMove
  <2>3. (\A t \in Tasks : pc[t] = "idle") => total = 0
    BY IdleCounts DEF IInv, CompletedCounts
  <2>4. QED
    BY <2>1, <2>2, <2>3 DEF IInv, QuietUntilSubmitted
<1>5. seen' = seen \/ seen' = completed
  BY DEF Display, DisplayStart, DisplayLoad, DisplayFinish, DisplaySleep, DisplayWake
<1>6. RequestBudget' /\ CompletedCounts'
  BY <1>2, <1>5, SameSets, CountsFinite DEF RequestBudget, CompletedCounts, IInv
<1>7. DisplayHonest'
  BY <1>2 DEF Display, DisplayStart, DisplayLoad, DisplayFinish, DisplaySleep,
              DisplayWake, DisplayMove, DisplayHonest, IInv
<1>8. KlinesBeforePair' /\ WatermarkBacked' /\ QuietUntilSubmitted'
  BY <1>2, <1>4 DEF KlinesBeforePair, WatermarkBacked, QuietUntilSubmitted, IInv
<1>9. QED
  BY <1>3, <1>6, <1>7, <1>8 DEF IInv

-----------------------------------------------------------------------------
\* With no task submitted there is none to count, and with a product submitted
\* the counters agree with its size.
LEMMA SubmitCounts ==
  ASSUME NEW listed \in SUBSET Pairs,
         pc' = [t \in Tasks |-> IF t \in listed \X Intervals THEN "start" ELSE "idle"]
  PROVE  /\ Submitted' = listed \X Intervals /\ Done' = {} /\ Failed' = {}
         /\ Fetching' = {}
         /\ Cardinality(Submitted') = Cardinality(listed) * Cardinality(Intervals)
         /\ Cardinality(Done') = 0 /\ Cardinality(Fetching') = 0
<1>1. \A t \in listed \X Intervals : t \in Tasks
  BY DEF Tasks
<1>2. Submitted' = listed \X Intervals
  BY <1>1 DEF Submitted
<1>3. Done' = {} /\ Failed' = {} /\ Fetching' = {}
  BY DEF Done, Failed, Fetching
<1>4. IsFiniteSet(listed)
  BY ConstantsOK, FS_Subset
<1>5. Cardinality(listed \X Intervals) = Cardinality(listed) * Cardinality(Intervals)
  BY <1>4, ConstantsOK, FS_Product
<1>6. QED
  BY <1>2, <1>3, <1>5, FS_EmptySet

\* Submitting the tasks keeps the invariant.
LEMMA ExecuteInv == IInv /\ Execute => IInv'
<1> SUFFICES ASSUME IInv, Execute PROVE IInv'
  OBVIOUS
<1>1. TypeOK'
  BY NextType DEF Next, IInv
<1>2. /\ main = "executing" /\ main' \in {"joining", "awaiting"}
      /\ UNCHANGED <<row, synced, tokens, requests, display, seen, win>>
      /\ seen = 0 /\ display \in {"off", "waiting"}
      /\ \A t \in Tasks : pc[t] = "idle"
  BY DEF Execute, exchangeVars, displayVars, IInv, QuietUntilSubmitted
<1>3. /\ tokens + requests = RequestsPerMinute /\ completed = 0 /\ total = 0
      /\ tokens \in Nat /\ requests \in Nat
  BY <1>2, IdleCounts DEF IInv, RequestBudget, CompletedCounts, TypeOK
<1>4. RequestBudget' /\ CompletedCounts'
  <2>1. ASSUME NEW listed \in SUBSET Pairs,
               /\ completed' = 0
               /\ total' = Cardinality(listed) * Cardinality(Intervals)
               /\ pc' = [t \in Tasks |->
                           IF t \in listed \X Intervals THEN "start" ELSE "idle"]
        PROVE  RequestBudget' /\ CompletedCounts'
    BY <1>2, <1>3, <2>1, SubmitCounts DEF RequestBudget, CompletedCounts
  <2>2. CASE UNCHANGED <<counters, pc>>
    BY <1>2, <2>2, SameSets DEF RequestBudget, CompletedCounts, counters, IInv
  <2>3. QED
    BY <2>1, <2>2 DEF Execute
<1>5. \A t \in Tasks : pc'[t] \in {"start", "idle"}
  BY <1>2 DEF Execute
<1>6. /\ QuietUntilSubmitted' /\ DisplayHonest' /\ KlinesBeforePair'
      /\ WatermarkBacked'
  BY <1>2, <1>5 DEF QuietUntilSubmitted, DisplayHonest, KlinesBeforePair,
                    WatermarkBacked, IInv
<1>7. QED
  BY <1>1, <1>4, <1>6 DEF IInv

\* A step of main that moves no task, writes no candle and leaves the counters,
\* the bucket and the display's progress alone keeps the invariant.
LEMMA MainInv ==
  ASSUME IInv, TypeOK',
         UNCHANGED <<synced, tokens, requests, total, completed, seen, pc, win>>,
         \A p \in Pairs : row'[p] = Null \/ row'[p] = row[p],
         \/ UNCHANGED <<main, display>>
         \/ main = "exited" /\ UNCHANGED display
         \/ main = "listing" /\ display' = "waiting"
         \/ main = "joining" /\ main' = "awaiting" /\ UNCHANGED display
  PROVE  IInv'
<1>1. RequestBudget' /\ CompletedCounts'
  BY SameSets DEF RequestBudget, CompletedCounts, IInv
<1>2. KlinesBeforePair' /\ WatermarkBacked'
  BY DEF KlinesBeforePair, WatermarkBacked, IInv
<1>3. QuietUntilSubmitted' /\ DisplayHonest'
  BY DEF QuietUntilSubmitted, DisplayHonest, IInv
<1>4. QED
  BY <1>1, <1>2, <1>3 DEF IInv

\* The invariant is inductive.
LEMMA NextInv == IInv /\ [Next]_vars => IInv'
<1> SUFFICES ASSUME IInv, [Next]_vars PROVE IInv'
  OBVIOUS
<1>0. TypeOK'
  BY NextType DEF IInv
<1> USE DEF exchangeVars, counters, displayVars, taskVars
<1>1. CASE Boot
  BY <1>0, <1>1, MainInv DEF Boot
<1>2. CASE ListPairs
  <2>1. \A p \in Pairs : row'[p] = Null \/ row'[p] = row[p]
    BY <1>2 DEF ListPairs
  <2>2. CASE End
    BY <1>0, <2>1, <2>2, EndInv
  <2>3. CASE ~End
    BY <1>0, <1>2, <2>1, <2>3, MainInv DEF ListPairs
  <2>4. QED
    BY <2>2, <2>3
<1>3. CASE Execute
  BY <1>3, ExecuteInv
<1>4. CASE Join
  BY <1>0, <1>4, MainInv DEF Join
<1>5. CASE Exit
  BY <1>0, <1>5, EndInv DEF Exit
<1>6. CASE Crash
  BY <1>0, <1>6, EndInv DEF Crash
<1>7. CASE Tick
  BY <1>0, <1>7, MainInv DEF Tick
<1>8. ASSUME NEW t \in Tasks, Step(t) PROVE IInv'
  BY <1>8, StepInv
<1>9. CASE Display
  BY <1>9, DisplayInv
<1>10. CASE UNCHANGED vars
  BY <1>0, <1>10, MainInv DEF vars
<1>11. QED
  BY <1>1, <1>2, <1>3, <1>4, <1>5, <1>6, <1>7, <1>8, <1>9, <1>10 DEF Next

\* The invariant holds in every reachable state.
THEOREM Invariant == Spec => []IInv
  BY InitInv, NextInv, PTL DEF Spec

\* No process ever sends more klines requests than the bucket held when it
\* started, whatever the interleaving of its tasks.
THEOREM BudgetRespected == Spec => []RequestBudget
<1>1. IInv => RequestBudget
  BY DEF IInv
<1>2. QED
  BY <1>1, Invariant, PTL

\* The progress counters are exact, and what the display has seen is behind.
THEOREM CountsExact == Spec => []CompletedCounts
<1>1. IInv => CompletedCounts
  BY DEF IInv
<1>2. QED
  BY <1>1, Invariant, PTL

\* A window a pair's row claims was written to QuestDB first, across failures,
\* crashes and restarts.
THEOREM WatermarkSound == Spec => []WatermarkBacked
<1>1. IInv => WatermarkBacked
  BY DEF IInv
<1>2. QED
  BY <1>1, Invariant, PTL

-----------------------------------------------------------------------------
(* The batch implements the abstract job.                                  *)

\* The abstract state does not change when the tasks' places and the display
\* do not.
LEMMA JobStutter ==
  ASSUME UNCHANGED pc, (display' = "done") <=> (display = "done")
  PROVE  UNCHANGED Job!vars
<1>1. (display' = "done") = (display = "done")
  OBVIOUS
<1>2. QED
  BY <1>1, SameSets DEF Job!vars

\* A task that reaches a result is an abstract result; any other move of it is
\* a stutter.
LEMMA JobMove ==
  ASSUME TypeOK, NEW t \in Tasks, NEW at \in PC \ {"idle"},
         pc[t] \notin Resolved \union {"idle"}, Goto(t, at), UNCHANGED display
  PROVE  [Job!Next]_Job!vars
<1>1. /\ Submitted' = Submitted
      /\ Done' = IF at \in {"done", "skipped"} THEN Done \union {t} ELSE Done
      /\ Failed' = IF at = "failed" THEN Failed \union {t} ELSE Failed
      /\ t \in Submitted /\ t \notin Done /\ t \notin Failed
  BY MoveSets
<1>2. (display' = "done") = (display = "done")
  OBVIOUS
<1>3. CASE at \in {"done", "skipped"}
  BY <1>1, <1>2, <1>3 DEF Job!Next, Job!Finish, Job!Open
<1>4. CASE at = "failed"
  BY <1>1, <1>2, <1>4 DEF Job!Next, Job!Fail, Job!Open
<1>5. CASE at \notin Resolved
  BY <1>1, <1>2, <1>5 DEF Job!vars, Resolved
<1>6. QED
  BY <1>3, <1>4, <1>5 DEF Resolved

\* A process that ends is an abstract restart.
LEMMA JobEnd == End => Job!Restart
<1> SUFFICES ASSUME End PROVE Job!Restart
  OBVIOUS
<1>1. Done' = {} /\ Failed' = {} /\ Submitted' = {}
  BY DEF End, Done, Failed, Submitted
<1>2. (display' = "done") = FALSE
  BY DEF End
<1>3. QED
  BY <1>1, <1>2 DEF Job!Restart

\* The display reports only what is true: it compared a count that can only
\* have been too low, so every task submitted has succeeded.
LEMMA JobReport == IInv /\ DisplayFinish => Job!Report
<1> SUFFICES ASSUME IInv, DisplayFinish PROVE Job!Report
  OBVIOUS
<1>1. /\ seen >= total /\ display' = "done" /\ UNCHANGED pc /\ total # 0
      /\ seen <= completed /\ completed = Cardinality(Done)
      /\ total = Cardinality(Submitted)
      /\ seen \in Nat
  BY DEF DisplayFinish, DisplayMove, DisplayRest, taskVars, IInv, DisplayHonest,
         CompletedCounts, TypeOK
<1>2. Done \subseteq Submitted
  BY DEF Done, Submitted
<1>3. Cardinality(Done) >= Cardinality(Submitted)
  BY <1>1, CountsFinite
<1>4. Done = Submitted
  BY <1>2, <1>3, CountsFinite, FS_Subset
<1>5. Submitted # {}
  BY <1>1, FS_EmptySet
<1>6. (display' = "done") = TRUE
  BY <1>1
<1>7. QED
  BY <1>1, <1>4, <1>5, <1>6, SameSets DEF Job!Report

\* Every step of the batch is a step of the job or a stutter.
LEMMA NextImplements == IInv /\ [Next]_vars => [Job!Next]_Job!vars
<1> SUFFICES ASSUME IInv, [Next]_vars PROVE [Job!Next]_Job!vars
  OBVIOUS
<1> USE DEF exchangeVars, counters, displayVars, taskVars
<1>1. CASE Boot
  BY <1>1, JobStutter DEF Boot
<1>2. CASE ListPairs
  <2>1. CASE End
    BY <2>1, JobEnd DEF Job!Next
  <2>2. CASE ~End
    <3>1. display = "off" \/ display = "waiting"
      BY <1>2 DEF ListPairs, IInv, QuietUntilSubmitted
    <3>2. UNCHANGED pc /\ display' = "waiting"
      BY <1>2, <2>2 DEF ListPairs
    <3>3. QED
      BY <3>1, <3>2, JobStutter
  <2>3. QED
    BY <2>1, <2>2
<1>3. CASE Execute
  <2>1. /\ UNCHANGED display
        /\ (display' = "done") = (display = "done")
    BY <1>3 DEF Execute
  <2>2. Submitted = {} /\ Done = {} /\ Failed = {}
    BY <1>3, IdleCounts DEF Execute, IInv, QuietUntilSubmitted
  <2>3. ASSUME NEW listed \in SUBSET Pairs,
               pc' = [t \in Tasks |->
                       IF t \in listed \X Intervals THEN "start" ELSE "idle"]
        PROVE  Job!Submit
    <3>1. Submitted' = listed \X Intervals /\ Done' = {} /\ Failed' = {}
      BY <2>3, SubmitCounts
    <3>2. listed \X Intervals \in SUBSET Tasks
      BY DEF Tasks
    <3>3. QED
      BY <2>1, <2>2, <3>1, <3>2 DEF Job!Submit
  <2>4. CASE UNCHANGED <<counters, pc>>
    BY <2>1, <2>4, JobStutter
  <2>5. QED
    BY <1>3, <2>3, <2>4 DEF Execute, Job!Next
<1>4. CASE Join
  BY <1>4, JobStutter DEF Join
<1>5. CASE Exit
  BY <1>5, JobEnd DEF Exit, Job!Next
<1>6. CASE Crash
  BY <1>6, JobEnd DEF Crash, Job!Next
<1>7. CASE Tick
  BY <1>7, JobStutter DEF Tick
<1>8. ASSUME NEW t \in Tasks, Step(t) PROVE [Job!Next]_Job!vars
  BY <1>8, StepFrame, JobMove DEF IInv
<1>9. CASE DisplayFinish
  BY <1>9, JobReport DEF Job!Next
<1>10. CASE Display /\ ~DisplayFinish
  BY <1>10, JobStutter DEF Display, DisplayStart, DisplayLoad, DisplaySleep,
                           DisplayWake, DisplayMove, DisplayRest
<1>11. CASE UNCHANGED vars
  BY <1>11, JobStutter DEF vars
<1>12. QED
  BY <1>1, <1>2, <1>3, <1>4, <1>5, <1>6, <1>7, <1>8, <1>9, <1>10, <1>11 DEF Next

\* A batch with no task done, failed or submitted is the abstract initial state.
LEMMA InitImplements == Init => Job!Init
<1> SUFFICES ASSUME Init PROVE Job!Init
  OBVIOUS
<1>1. Submitted = {} /\ Done = {} /\ Failed = {}
  BY IdleCounts DEF Init
<1>2. (display = "done") = FALSE
  BY DEF Init
<1>3. QED
  BY <1>1, <1>2 DEF Job!Init

\* The batch implements the job: no task ends twice or both ways, and "Sync
\* completed!" is displayed only when every task submitted has succeeded.
THEOREM Refinement == Spec => ImplementsSyncJob
<1>1. IInv /\ [Next]_vars => [Job!Next]_Job!vars
  BY NextImplements
<1>2. QED
  BY <1>1, InitImplements, Invariant, PTL DEF Spec, ImplementsSyncJob, Job!Spec
-----------------------------------------------------------------------------
(* What wedges a batch wedges it for good.                                 *)

\* A display that has announced completion leaves nothing open: the count it
\* compared can only have been too low.
LEMMA AnnouncedAllDone ==
  ASSUME IInv, display = "done"
  PROVE  Done = Submitted /\ total # 0
<1>1. /\ seen >= total /\ total # 0 /\ seen <= completed /\ seen \in Nat
      /\ completed = Cardinality(Done) /\ total = Cardinality(Submitted)
  BY DEF IInv, DisplayHonest, CompletedCounts, TypeOK
<1>2. Done \subseteq Submitted
  BY DEF Done, Submitted
<1>3. Cardinality(Done) >= Cardinality(Submitted)
  BY <1>1, CountsFinite
<1>4. QED
  BY <1>1, <1>2, <1>3, CountsFinite, FS_Subset

\* None of the three causes goes with a completion that has been announced.
LEMMA WedgedUnannounced == IInv /\ Wedged => display # "done"
<1> SUFFICES ASSUME IInv, Wedged, display = "done" PROVE FALSE
  OBVIOUS
<1>1. Done = Submitted /\ total # 0
  BY AnnouncedAllDone
<1>2. ASSUME NEW t \in Tasks, pc[t] \in {"failed", "acquire"} PROVE FALSE
  BY <1>1, <1>2 DEF Done, Submitted
<1>3. QED
  BY <1>1, <1>2 DEF Wedged, Failed

\* A task that waits for a token does not move while the bucket is empty, and
\* nothing refills it.
LEMMA EmptyBucketHolds ==
  ASSUME TypeOK, tokens = 0, NEW t \in Tasks, Step(t)
  PROVE  pc[t] # "acquire" /\ tokens' = 0
  BY DEF Step, Begin, Determine, Acquire, Fetch, SaveKlines, PublishKlines, SavePair,
         PublishPair, At, TakeToken

\* So a step of a task resolves no cause.
LEMMA WedgedStep ==
  ASSUME IInv, Wedged, NEW t \in Tasks, Step(t)
  PROVE  Wedged'
<1>0. /\ main = "joining" /\ pc[t] \notin Resolved \union {"idle"} /\ TypeOK
  BY StepFrame DEF IInv
<1>1. PICK at \in PC \ {"idle"} : Goto(t, at)
  BY StepFrame
<1>2. CASE Failed # {}
  <2>1. Failed' # {}
    BY <1>0, <1>1, <1>2, MoveSets
  <2>2. QED
    BY <2>1 DEF Wedged
<1>3. ASSUME NEW u \in Tasks, tokens = 0, pc[u] = "acquire" PROVE Wedged'
  <2>1. t # u /\ tokens' = 0
    BY <1>0, <1>3, EmptyBucketHolds
  <2>2. pc'[u] = "acquire"
    BY <1>0, <1>1, <1>3, <2>1, MoveSets
  <2>3. QED
    BY <2>1, <2>2 DEF Wedged
<1>4. QED
  BY <1>0, <1>2, <1>3 DEF Wedged

\* Nor does a step of main or of the display, unless the process ends.
LEMMA WedgedStays == IInv /\ Wedged /\ Next => Wedged' \/ main' = "exited"
<1> SUFFICES ASSUME IInv, Wedged, Next, main' # "exited" PROVE Wedged'
  OBVIOUS
<1> USE DEF exchangeVars, counters, displayVars, taskVars
<1>1. ASSUME UNCHANGED <<pc, tokens, total>>, main' = main \/ main # "awaiting"
      PROVE  Wedged'
  BY <1>1, SameSets DEF Wedged
<1>2. CASE Boot
  BY <1>1, <1>2 DEF Boot
<1>3. CASE ListPairs
  BY <1>1, <1>3 DEF ListPairs, End
<1>4. CASE Execute
  <2>1. \A t \in Tasks : pc[t] = "idle"
    BY <1>4 DEF Execute, IInv, QuietUntilSubmitted
  <2>2. QED
    BY <1>4, <2>1, IdleCounts DEF Execute, Wedged
<1>5. CASE Join
  BY <1>1, <1>5 DEF Join
<1>6. CASE Exit \/ Crash
  BY <1>6 DEF Exit, Crash, End
<1>7. CASE Tick
  BY <1>1, <1>7 DEF Tick
<1>8. ASSUME NEW t \in Tasks, Step(t) PROVE Wedged'
  BY <1>8, WedgedStep
<1>9. CASE Display
  BY <1>1, <1>9 DEF Display, DisplayStart, DisplayLoad, DisplayFinish, DisplaySleep,
                    DisplayWake, DisplayRest
<1>10. QED
  BY <1>2, <1>3, <1>4, <1>5, <1>6, <1>7, <1>8, <1>9 DEF Next

\* A failed task, an empty bucket with a task waiting for it, or a batch
\* without tasks: from then on the display never announces completion and only
\* the end of the process, which then has been killed, clears the cause.
THEOREM HangIsFinal == Spec => WedgedForGood
<1>1. IInv /\ [Next]_vars =>
        [Wedged => display # "done" /\ (Wedged' \/ main' = "exited")]_vars
  BY WedgedUnannounced, WedgedStays
<1>2. QED
  BY <1>1, Invariant, PTL DEF Spec, WedgedForGood

-----------------------------------------------------------------------------
(* How far the end of a row can be trusted.                                *)

\* A task that has begun has its end time from a clock that only goes on.
BegunBefore ==
  \A t \in Tasks : pc[t] \notin {"idle", "start"} => win[t].to <= now

\* The slots of the shortest reach before a time are with the pair, some
\* interval of it or other.
ReachedTo(p, end) ==
  \E i \in Intervals : Slots(now - Duration[i], end) \subseteq PairHolds(p)

\* The window of a task starts at its own reach or where a row ended that had
\* the slots before it, and it keeps them until it writes the row itself.
WindowsJoin ==
  \A t \in Tasks : pc[t] \in {"acquire", "fetch", "save", "publish", "savePair"} =>
    ReachedTo(t[1], win[t].from)

RInv == BegunBefore /\ WindowsJoin /\ WatermarkReaches

\* What is reached stays reached: the clock goes on and no slot is taken away.
LEMMA ReachedKept ==
  ASSUME TypeOK, NEW p \in Pairs, NEW end \in Int, ReachedTo(p, end),
         now' \in Int, now' >= now, \A t \in Tasks : synced[t] \subseteq synced'[t]
  PROVE  ReachedTo(p, end)'
<1>1. PICK i \in Intervals : Slots(now - Duration[i], end) \subseteq PairHolds(p)
  BY DEF ReachedTo
<1>2. Duration[i] \in Int /\ now \in Int
  BY ConstantsOK DEF TypeOK
<1>3. Slots(now' - Duration[i], end) \subseteq Slots(now - Duration[i], end)
  BY <1>2 DEF Slots
<1>4. PairHolds(p) \subseteq PairHolds(p)'
  BY DEF PairHolds, Tasks
<1>5. Slots(now' - Duration[i], end) \subseteq PairHolds(p)'
  BY <1>1, <1>3, <1>4
<1>6. QED
  BY <1>5 DEF ReachedTo

\* The window a task computes joins what the row reached, or starts at its own
\* reach, before which nothing is claimed.
LEMMA LaterReaches ==
  ASSUME IInv, BegunBefore, WatermarkReaches, NEW t \in Tasks, pc[t] = "find",
         NEW latest \in {Null, IF row[t[1]] = Null THEN Null ELSE row[t[1]].end}
  PROVE  /\ Later(win[t].to - Duration[t[2]], latest) \in Int
         /\ ReachedTo(t[1], Later(win[t].to - Duration[t[2]], latest))
<1>1. /\ t[1] \in Pairs /\ t[2] \in Intervals /\ now \in Int /\ win[t].to \in Int
      /\ win[t].to <= now /\ Duration[t[2]] \in Int
  BY ConstantsOK DEF Tasks, IInv, TypeOK, BegunBefore, Window
<1>2. row[t[1]] \in {Null} \union [start : Int, end : Int]
  BY <1>1 DEF IInv, TypeOK
<1>3. latest = Null \/ (row[t[1]] # Null /\ latest = row[t[1]].end /\ latest \in Int)
  BY <1>2
<1>4. CASE Later(win[t].to - Duration[t[2]], latest) = win[t].to - Duration[t[2]]
  <2>1. Slots(now - Duration[t[2]], win[t].to - Duration[t[2]]) = {}
    BY <1>1 DEF Slots
  <2>2. \E i \in Intervals :
          Slots(now - Duration[i], win[t].to - Duration[t[2]]) \subseteq PairHolds(t[1])
    BY <1>1, <2>1
  <2>3. win[t].to - Duration[t[2]] \in Int
    BY <1>1
  <2>4. QED
    BY <1>4, <2>2, <2>3 DEF ReachedTo
<1>5. CASE latest # Null /\ Later(win[t].to - Duration[t[2]], latest) = latest
  BY <1>1, <1>3, <1>5 DEF ReachedTo, WatermarkReaches
<1>6. QED
  BY <1>4, <1>5 DEF Later

\* A window that starts where the pair's slots reach to, and whose own slots
\* are in QuestDB, makes them reach to its end.
LEMMA ClaimReaches ==
  ASSUME TypeOK, NEW t \in Tasks, ReachedTo(t[1], win[t].from),
         Slots(win[t].from, ClaimEnd(win[t])) \subseteq synced[t]
  PROVE  ReachedTo(t[1], ClaimEnd(win[t]))
<1>1. PICK i \in Intervals : Slots(now - Duration[i], win[t].from) \subseteq PairHolds(t[1])
  BY DEF ReachedTo
<1>2. /\ t = <<t[1], t[2]>> /\ t[2] \in Intervals /\ win[t] \in Window
      /\ win[t].from \in Int /\ ClaimEnd(win[t]) \in Int
      /\ now \in Int /\ Duration[i] \in Int
  BY ClaimType, ConstantsOK DEF Tasks, TypeOK, Window
<1>3. synced[t] \subseteq PairHolds(t[1])
  BY <1>2 DEF PairHolds
<1>4. \A s \in Slots(now - Duration[i], ClaimEnd(win[t])) :
        s \in Slots(now - Duration[i], win[t].from) \/ s \in Slots(win[t].from, ClaimEnd(win[t]))
  BY <1>2 DEF Slots
<1>5. Slots(now - Duration[i], ClaimEnd(win[t])) \subseteq PairHolds(t[1])
  BY <1>1, <1>3, <1>4
<1>6. QED
  BY <1>5 DEF ReachedTo

\* No step takes a slot away, and the clock goes on.
LEMMA NothingUnsynced ==
  ASSUME IInv, [Next]_vars
  PROVE  now' \in Int /\ now' >= now /\ \A t \in Tasks : synced[t] \subseteq synced'[t]
<1> USE DEF exchangeVars, counters, displayVars, taskVars
<1>0. now \in Int /\ synced \in [Tasks -> SUBSET Int]
  BY DEF IInv, TypeOK
<1>1. CASE Tick
  BY <1>0, <1>1 DEF Tick
<1>2. ASSUME NEW t \in Tasks, SaveKlines(t)
      PROVE  now' \in Int /\ now' >= now /\ \A u \in Tasks : synced[u] \subseteq synced'[u]
  BY <1>0, <1>2 DEF SaveKlines
<1>3. ASSUME NEW t \in Tasks, Step(t), ~SaveKlines(t)
      PROVE  UNCHANGED <<now, synced>>
  BY <1>3 DEF Step, Begin, Determine, Acquire, Fetch, PublishKlines, SavePair, PublishPair
<1>4. CASE Boot \/ ListPairs \/ Execute \/ Join \/ Exit \/ Crash \/ Display \/ UNCHANGED vars
  <2>1. UNCHANGED <<now, synced>>
    BY <1>4 DEF Boot, ListPairs, End, Execute, Join, Exit, Crash, Display, DisplayStart,
                DisplayLoad, DisplayFinish, DisplaySleep, DisplayWake, DisplayRest, vars
  <2>2. QED
    BY <1>0, <2>1
<1>5. QED
  BY <1>0, <1>1, <1>2, <1>3, <1>4 DEF Next

\* The places of a task with a window that has not yet been written to the row.
Joined == {"acquire", "fetch", "save", "publish", "savePair"}

\* What a step has to show of the rows and windows it writes: it may argue with
\* the clock and the slots it found, since both only grow.
RowFits(p, r) == r # Null => r.end \in Int /\ ReachedTo(p, r.end)
WindowFits(t, at, w) ==
  at \notin {"idle", "start"} =>
    /\ w.to \in Int /\ w.to <= now
    /\ at \in Joined => w.from \in Int /\ ReachedTo(t[1], w.from)

LEMMA ReachFrame ==
  ASSUME IInv, [Next]_vars,
         \A p \in Pairs : RowFits(p, row'[p]),
         \A t \in Tasks : WindowFits(t, pc'[t], win'[t])
  PROVE  RInv'
<1>1. /\ TypeOK /\ now' \in Int /\ now' >= now /\ now \in Int
      /\ \A t \in Tasks : synced[t] \subseteq synced'[t]
  BY NothingUnsynced DEF IInv, TypeOK
<1>2. \A t \in Tasks : t[1] \in Pairs
  BY DEF Tasks
<1>3. \A p \in Pairs, end \in Int : ReachedTo(p, end) => ReachedTo(p, end)'
  BY <1>1, ReachedKept
<1>4. BegunBefore'
  BY <1>1 DEF BegunBefore, WindowFits
<1>5. WindowsJoin'
  <2>1. ASSUME NEW t \in Tasks, pc'[t] \in Joined
        PROVE  ReachedTo(t[1], win[t].from)'
    <3>1. win'[t].from \in Int /\ ReachedTo(t[1], win'[t].from)
      BY <2>1 DEF WindowFits, Joined
    <3>2. QED
      BY <1>2, <1>3, <3>1 DEF ReachedTo
  <2>2. QED
    BY <2>1 DEF WindowsJoin, Joined
<1>6. WatermarkReaches'
  <2>1. ASSUME NEW p \in Pairs, row'[p] # Null PROVE ReachedTo(p, row[p].end)'
    <3>1. row'[p].end \in Int /\ ReachedTo(p, row'[p].end)
      BY <2>1 DEF RowFits
    <3>2. QED
      BY <1>3, <3>1 DEF ReachedTo
  <2>2. QED
    BY <2>1 DEF WatermarkReaches, ReachedTo
<1>7. QED
  BY <1>4, <1>5, <1>6 DEF RInv

\* What RInv says of a row and of a task, in the form ReachFrame asks for.
LEMMA ReachNow ==
  ASSUME IInv, RInv
  PROVE  /\ \A p \in Pairs : RowFits(p, row[p]) /\ RowFits(p, Null)
         /\ \A t \in Tasks : WindowFits(t, pc[t], win[t])
<1>1. TypeOK
  BY DEF IInv
<1>2. ASSUME NEW p \in Pairs PROVE RowFits(p, row[p]) /\ RowFits(p, Null)
  <2>1. row[p] \in {Null} \union [start : Int, end : Int]
    BY <1>1 DEF TypeOK
  <2>2. QED
    BY <2>1 DEF RowFits, RInv, WatermarkReaches, ReachedTo
<1>3. ASSUME NEW t \in Tasks PROVE WindowFits(t, pc[t], win[t])
  <2>1. win[t].to \in Int /\ win[t].from \in Int
    BY <1>1 DEF TypeOK, Window
  <2>2. QED
    BY <2>1 DEF WindowFits, RInv, BegunBefore, WindowsJoin, Joined
<1>4. QED
  BY <1>2, <1>3

\* Every step of a task keeps RInv.
LEMMA ReachStep ==
  ASSUME IInv, RInv, NEW t \in Tasks, Step(t)
  PROVE  RInv'
<1>0. /\ TypeOK /\ [Next]_vars /\ t[1] \in Pairs /\ now \in Int
      /\ win \in [Tasks -> Window] /\ row \in [Pairs -> {Null} \union [start : Int, end : Int]]
      /\ win[t].to \in Int
  BY DEF IInv, TypeOK, Tasks, Next, Window
<1>1. PICK at \in PC \ {"idle"} : Goto(t, at)
  BY StepFrame
<1>2. /\ pc[t] \notin Resolved \union {"idle"} /\ pc'[t] = at
      /\ \A u \in Tasks \ {t} : pc'[u] = pc[u]
  BY <1>0, <1>1, StepFrame, MoveSets
<1>3. ASSUME \A p \in Pairs : RowFits(p, row'[p]),
             \A u \in Tasks \ {t} : win'[u] = win[u],
             WindowFits(t, at, win'[t])
      PROVE  RInv'
  <2>1. ASSUME NEW u \in Tasks
        PROVE  WindowFits(u, pc'[u], win'[u])
    <3>1. CASE u = t
      BY <1>2, <1>3, <3>1
    <3>2. CASE u # t
      <4>1. pc'[u] = pc[u] /\ win'[u] = win[u]
        BY <1>2, <1>3, <3>2
      <4>2. QED
        BY <4>1, ReachNow
    <3>3. QED
      BY <3>1, <3>2
  <2>2. QED
    BY <1>0, <1>3, <2>1, ReachFrame
<1>4. ASSUME UNCHANGED row, pc[t] # "start", at \in Joined => pc[t] \in Joined,
             win'[t].from = win[t].from /\ win'[t].to = win[t].to,
             \A u \in Tasks \ {t} : win'[u] = win[u]
      PROVE  RInv'
  <2>1. \A p \in Pairs : RowFits(p, row'[p])
    BY <1>4, ReachNow
  <2>2. WindowFits(t, at, win'[t])
    <3>1. WindowFits(t, pc[t], win[t])
      BY ReachNow
    <3>2. QED
      BY <1>2, <1>4, <3>1 DEF WindowFits
  <2>3. QED
    BY <1>3, <1>4, <2>1, <2>2
<1>5. CASE Begin(t)
  <2>1. /\ UNCHANGED row /\ win' = [win EXCEPT ![t].to = now] /\ Goto(t, "find")
    BY <1>5 DEF Begin, exchangeVars
  <2>2. at = "find"
    BY <1>0, <1>2, <2>1 DEF Goto, TypeOK
  <2>3. win'[t].to = now /\ \A u \in Tasks \ {t} : win'[u] = win[u]
    BY <1>0, <2>1 DEF Window
  <2>4. WindowFits(t, at, win'[t])
    BY <1>0, <2>2, <2>3 DEF WindowFits, Joined
  <2>5. \A p \in Pairs : RowFits(p, row'[p])
    BY <2>1, ReachNow
  <2>6. QED
    BY <1>3, <2>3, <2>4, <2>5
<1>6. CASE Determine(t)
  <2>1. PICK latest \in {Null, IF row[t[1]] = Null THEN Null ELSE row[t[1]].end} :
          LET from == Later(win[t].to - Duration[t[2]], latest) IN
          \/ Complete(t, "skipped") /\ UNCHANGED win
          \/ win' = [win EXCEPT ![t].from = from] /\ Goto(t, "acquire")
    BY <1>6 DEF Determine
  <2> DEFINE from == Later(win[t].to - Duration[t[2]], latest)
  <2>2. pc[t] = "find" /\ UNCHANGED row
    BY <1>6 DEF Determine, At, exchangeVars
  <2>3. from \in Int /\ ReachedTo(t[1], from)
    BY <2>2, LaterReaches DEF RInv
  <2> HIDE DEF from
  <2>4. CASE win' = [win EXCEPT ![t].from = from]
    <3>1. /\ win'[t].from = from /\ win'[t].to = win[t].to
          /\ \A u \in Tasks \ {t} : win'[u] = win[u]
      BY <1>0, <2>4 DEF Window
    <3>2. WindowFits(t, pc[t], win[t])
      BY ReachNow
    <3>3. WindowFits(t, at, win'[t])
      BY <2>2, <2>3, <3>1, <3>2 DEF WindowFits
    <3>4. \A p \in Pairs : RowFits(p, row'[p])
      BY <2>2, ReachNow
    <3>5. QED
      BY <1>3, <3>1, <3>3, <3>4
  <2>5. CASE Complete(t, "skipped") /\ UNCHANGED win
    <3>1. at = "skipped"
      BY <1>0, <1>2, <2>5 DEF Complete, Goto, TypeOK
    <3>2. QED
      BY <1>4, <2>2, <2>5, <3>1 DEF Joined
  <2>6. QED
    BY <2>1, <2>4, <2>5 DEF from
<1>7. CASE Acquire(t)
  BY <1>4, <1>7 DEF Acquire, At, exchangeVars, Joined
<1>8. CASE Fetch(t)
  <2>1. /\ UNCHANGED row /\ pc[t] = "fetch"
        /\ win'[t].from = win[t].from /\ win'[t].to = win[t].to
        /\ \A u \in Tasks \ {t} : win'[u] = win[u]
    BY <1>0, <1>8 DEF Fetch, At, exchangeVars, Window
  <2>2. QED
    BY <1>4, <2>1 DEF Joined
<1>9. CASE SaveKlines(t)
  BY <1>4, <1>9 DEF SaveKlines, At, Joined
<1>10. CASE PublishKlines(t)
  BY <1>4, <1>10 DEF PublishKlines, At, exchangeVars, Joined
<1>11. CASE SavePair(t)
  <2>1. pc[t] = "savePair" /\ UNCHANGED win
    BY <1>11 DEF SavePair, At
  <2>2. CASE UNCHANGED row
    BY <1>4, <2>1, <2>2 DEF Joined
  <2>3. CASE row' = [row EXCEPT ![t[1]] = Claim(win[t])]
    <3>1. WindowFits(t, pc[t], win[t])
      BY ReachNow
    <3>2. Slots(win[t].from, ClaimEnd(win[t])) \subseteq synced[t]
      BY <2>1 DEF IInv, KlinesBeforePair
    <3>3. ReachedTo(t[1], win[t].from)
      BY <2>1, <3>1 DEF WindowFits, Joined
    <3>4. ClaimEnd(win[t]) \in Int /\ ReachedTo(t[1], ClaimEnd(win[t]))
      BY <1>0, <3>2, <3>3, ClaimReaches, ClaimType
    <3>5. RowFits(t[1], Claim(win[t]))
      BY <3>4 DEF Claim, RowFits
    <3>6. \A p \in Pairs : row'[p] = IF p = t[1] THEN Claim(win[t]) ELSE row[p]
      BY <1>0, <2>3
    <3>7. \A p \in Pairs : RowFits(p, row'[p])
      BY <3>5, <3>6, ReachNow
    <3>8. WindowFits(t, at, win'[t])
      BY <2>1, <3>1 DEF WindowFits, Joined
    <3>9. QED
      BY <1>3, <2>1, <3>7, <3>8
  <2>4. QED
    BY <1>11, <2>2, <2>3 DEF SavePair
<1>12. CASE PublishPair(t)
  <2>1. pc[t] = "publishPair" /\ UNCHANGED <<row, win>> /\ Goto(t, "done")
    BY <1>12 DEF PublishPair, At, Complete, exchangeVars
  <2>2. at = "done"
    BY <1>0, <1>2, <2>1 DEF Goto, TypeOK
  <2>3. QED
    BY <1>4, <2>1, <2>2 DEF Joined
<1>13. QED
  BY <1>5, <1>6, <1>7, <1>8, <1>9, <1>10, <1>11, <1>12 DEF Step

\* RInv is inductive, given the invariant of the batch.
LEMMA ReachNext == IInv /\ RInv /\ [Next]_vars => RInv'
<1> SUFFICES ASSUME IInv, RInv, [Next]_vars PROVE RInv'
  OBVIOUS
<1> USE DEF exchangeVars, counters, displayVars, taskVars
<1>1. ASSUME UNCHANGED <<pc, win>>, \A p \in Pairs : row'[p] = Null \/ row'[p] = row[p]
      PROVE  RInv'
  <2>1. \A p \in Pairs : RowFits(p, row'[p])
    BY <1>1, ReachNow
  <2>2. \A t \in Tasks : WindowFits(t, pc'[t], win'[t])
    BY <1>1, ReachNow
  <2>3. QED
    BY <2>1, <2>2, ReachFrame
<1>2. ASSUME \A t \in Tasks : pc'[t] \in {"idle", "start"},
             \A p \in Pairs : row'[p] = Null \/ row'[p] = row[p]
      PROVE  RInv'
  <2>1. \A p \in Pairs : RowFits(p, row'[p])
    BY <1>2, ReachNow
  <2>2. \A t \in Tasks : WindowFits(t, pc'[t], win'[t])
    BY <1>2 DEF WindowFits
  <2>3. QED
    BY <2>1, <2>2, ReachFrame
<1>3. CASE ListPairs
  <2>1. \A p \in Pairs : row'[p] = Null \/ row'[p] = row[p]
    BY <1>3 DEF ListPairs
  <2>2. QED
    BY <1>1, <1>2, <1>3, <2>1 DEF ListPairs, End
<1>4. CASE Execute
  <2>1. /\ UNCHANGED <<row, win>>
        /\ UNCHANGED pc \/ \A t \in Tasks : pc'[t] \in {"idle", "start"}
    BY <1>4 DEF Execute
  <2>2. QED
    BY <1>1, <1>2, <2>1
<1>5. CASE Exit \/ Crash
  BY <1>2, <1>5 DEF Exit, Crash, End
<1>6. CASE Boot \/ Join \/ Tick \/ UNCHANGED vars
  BY <1>1, <1>6 DEF Boot, Join, Tick, vars
<1>7. CASE Display
  BY <1>1, <1>7 DEF Display, DisplayStart, DisplayLoad, DisplayFinish, DisplaySleep,
                    DisplayWake, DisplayRest
<1>8. ASSUME NEW t \in Tasks, Step(t) PROVE RInv'
  BY <1>8, ReachStep
<1>9. QED
  BY <1>3, <1>4, <1>5, <1>6, <1>7, <1>8 DEF Next

\* The end of a pair's row can be trusted back to the reach of some interval,
\* across resumed windows, partial answers, failures and restarts.
THEOREM RowReaches == Spec => []WatermarkReaches
<1>1. Init => RInv
  BY DEF Init, RInv, BegunBefore, WindowsJoin, WatermarkReaches
<1>2. RInv => WatermarkReaches
  BY DEF RInv
<1>3. QED
  BY <1>1, <1>2, ReachNext, Invariant, PTL DEF Spec
=============================================================================
