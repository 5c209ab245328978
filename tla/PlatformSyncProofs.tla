------------------------- MODULE PlatformSyncProofs -------------------------
(***************************************************************************)
(* Proofs about PlatformSync, for any pages, jobs and items, and chunks of *)
(* any size.                                                               *)
(***************************************************************************)
EXTENDS PlatformSync, TLAPS, FiniteSetTheorems

\* The tasks a job has counted, by their result.
Settled(j, r) == {x \in Items \ chunk[j] : result[j][x] = r}

\* A job has nothing to do before it has listed its items, and its items are
\* either waiting or in the chunk; a task that waits has not run.
Tracked(j) ==
  /\ phase[j] \notin {"running", "ended"} =>
       left[j] = {} /\ chunk[j] = {} /\ counts[j] = Zero /\ total[j] = 0
  /\ phase[j] = "unborn" => owner[j] = None
  /\ left[j] \cap chunk[j] = {}
  /\ \A x \in left[j] : result[j][x] = "none"
  /\ phase[j] \notin {"running", "ended"} => \A x \in Items : result[j][x] = "none"

\* The accumulator of a job agrees with the tasks outside its current chunk.
Added(j) ==
  /\ counts[j].successful = Cardinality(Settled(j, "ok"))
  /\ counts[j].failed = Cardinality(Settled(j, "error"))
  /\ counts[j].completed = counts[j].successful + counts[j].failed
  /\ counts[j].completed + Cardinality(left[j]) + Cardinality(chunk[j]) = total[j]

ItemsTracked == \A j \in Jobs : Tracked(j)
Accumulated == \A j \in Jobs : Added(j)

Honest(m) ==
  /\ m.completed = m.successful + m.failed
  /\ m.completed <= m.total
  /\ m.status = "completed" => m.completed = m.total

Follows(m, n) == m.status # "completed" /\ n.completed >= m.completed

\* A page that is closed or free has no mail, and what a page shows and has in
\* its mail is honest and in order.
Ordered(v) ==
  /\ ~open[v] \/ ~busy[v] => mailbox[v] = <<>>
  /\ progress[v] # None => Honest(progress[v])
  /\ \A n \in 1 .. Len(mailbox[v]) : Honest(mailbox[v][n])
  /\ \A n \in 1 .. Len(mailbox[v]) - 1 : Follows(mailbox[v][n], mailbox[v][n + 1])
  /\ progress[v] # None /\ mailbox[v] # <<>> => Follows(progress[v], mailbox[v][1])

\* A job belongs to an open page, and while it lives the page is busy and the
\* last message sent to it is no later than the accumulator.
Backed(j) ==
  owner[j] # None =>
    /\ open[owner[j]]
    /\ Alive(j) =>
         /\ busy[owner[j]]
         /\ mailbox[owner[j]] # <<>> =>
              Follows(mailbox[owner[j]][Len(mailbox[owner[j]])], counts[j])
         /\ mailbox[owner[j]] = <<>> /\ progress[owner[j]] # None =>
              Follows(progress[owner[j]], counts[j])

MailOrdered == \A v \in Views : Ordered(v)
OwnerBusy == \A j \in Jobs : Backed(j)

PInv ==
  /\ TypeOK
  /\ ItemsTracked
  /\ Accumulated
  /\ MailOrdered
  /\ OwnerBusy
  /\ OneJobPerView

-----------------------------------------------------------------------------
LEMMA SubsetsFinite ==
  ASSUME NEW S \in SUBSET Items
  PROVE  /\ IsFiniteSet(S) /\ Cardinality(S) \in Nat
         /\ Cardinality(S) <= Cardinality(Items) /\ Cardinality(Items) \in Nat
  BY PlatformConstants, FS_Subset, FS_CardinalityType

LEMMA DisjointUnion ==
  ASSUME NEW S \in SUBSET Items, NEW T \in SUBSET Items, S \cap T = {}
  PROVE  Cardinality(S \union T) = Cardinality(S) + Cardinality(T)
<1>1. Cardinality(S \cap T) = 0
  BY FS_EmptySet
<1>2. /\ IsFiniteSet(S) /\ IsFiniteSet(T)
      /\ Cardinality(S) \in Nat /\ Cardinality(T) \in Nat
  BY SubsetsFinite
<1>3. Cardinality(S \union T) = Cardinality(S) + Cardinality(T) - Cardinality(S \cap T)
  BY <1>2, FS_Union
<1>4. QED
  BY <1>1, <1>2, <1>3

LEMMA ZeroCount == Zero \in Counts
  BY DEF Zero, Counts

LEMMA MessageType ==
  ASSUME NEW status \in {"initializing", "started", "in_progress", "completed"},
         NEW n \in Nat, NEW c \in Counts
  PROVE  Message(status, n, c) \in Messages
  BY DEF Message, Messages, Counts

LEMMA InitInv == Init => PInv
<1> SUFFICES ASSUME Init PROVE PInv
  OBVIOUS
<1> USE DEF Init
<1>1. TypeOK
  <2>1. 0 \in 0 .. Cardinality(Items)
    BY SubsetsFinite
  <2>2. Cardinality({}) = 0
    BY FS_EmptySet
  <2>3. QED
    BY <2>1, <2>2, ZeroCount, PlatformConstants DEF TypeOK
<1>2. ItemsTracked
  BY DEF ItemsTracked, Tracked
<1>3. Accumulated
  <2>1. \A j \in Jobs : Settled(j, "ok") = {} /\ Settled(j, "error") = {}
    BY DEF Settled
  <2>2. Cardinality({}) = 0
    BY FS_EmptySet
  <2>3. \A j \in Jobs : /\ counts[j] = Zero /\ total[j] = 0
                        /\ left[j] = {} /\ chunk[j] = {}
    OBVIOUS
  <2>4. Zero.completed = 0 /\ Zero.successful = 0 /\ Zero.failed = 0
    BY DEF Zero
  <2>5. QED
    BY ONLY <2>1, <2>2, <2>3, <2>4 DEF Accumulated, Added
<1>4. MailOrdered /\ OwnerBusy /\ OneJobPerView
  BY DEF MailOrdered, OwnerBusy, OneJobPerView, Ordered, Backed
<1>5. QED
  BY <1>1, <1>2, <1>3, <1>4 DEF PInv

-----------------------------------------------------------------------------
(* Types.                                                                  *)

LEMMA SendTypes ==
  ASSUME TypeOK, NEW v \in Views \union {None}, NEW m \in Messages, SendTo(v, m)
  PROVE  mailbox' \in [Views -> Seq(Messages)]
<1>1. CASE v = None
  BY <1>1 DEF SendTo, TypeOK
<1>2. CASE v # None
  <2>1. Append(mailbox[v], m) \in Seq(Messages)
    BY <1>2 DEF TypeOK
  <2>2. QED
    BY <1>2, <2>1 DEF SendTo, TypeOK
<1>3. QED
  BY <1>1, <1>2

LEMMA AddTypes ==
  ASSUME TypeOK, NEW j \in Jobs
  PROVE  AddChunk(j) \in Counts
<1>1. /\ Results(j, "ok") \in SUBSET Items /\ Results(j, "error") \in SUBSET Items
      /\ chunk[j] \in SUBSET Items /\ counts[j] \in Counts
  BY DEF Results, TypeOK
<1>2. /\ Cardinality(Results(j, "ok")) \in Nat /\ Cardinality(Results(j, "error")) \in Nat
      /\ Cardinality(chunk[j]) \in Nat
  BY <1>1, SubsetsFinite
<1>3. QED
  BY <1>1, <1>2 DEF AddChunk, Counts

LEMMA ViewTypes ==
  ASSUME TypeOK, NEW v \in Views, Mount(v) \/ Leave(v) \/ Click(v) \/ Receive(v)
  PROVE  TypeOK'
<1>1. CASE Mount(v)
  BY <1>1 DEF Mount, TypeOK, jobVars
<1>2. CASE Leave(v)
  BY <1>2 DEF Leave, TypeOK
<1>3. CASE Click(v)
  <2>1. Message("initializing", 0, Zero) \in Messages
    BY MessageType, ZeroCount
  <2>2. QED
    BY <1>3, <2>1 DEF Click, TypeOK
<1>4. CASE Receive(v)
  <2>1. Head(mailbox[v]) \in Messages /\ Tail(mailbox[v]) \in Seq(Messages)
    BY <1>4 DEF Receive, TypeOK
  <2>2. BusyAfter(Head(mailbox[v])) \in BOOLEAN
    BY DEF BusyAfter
  <2>3. QED
    BY <1>4, <2>1, <2>2 DEF Receive, TypeOK, jobVars
<1>5. QED
  BY <1>1, <1>2, <1>3, <1>4

LEMMA JobTypes ==
  ASSUME TypeOK, NEW j \in Jobs, JobStep(j)
  PROVE  TypeOK'
<1>1. CASE List(j)
  <2>1. PICK items \in SUBSET Items :
          /\ left' = [left EXCEPT ![j] = items]
          /\ total' = [total EXCEPT ![j] = Cardinality(items)]
          /\ SendTo(owner[j], Message("started", Cardinality(items), Zero))
    BY <1>1 DEF List
  <2>2. Cardinality(items) \in 0 .. Cardinality(Items) /\ Cardinality(items) \in Nat
    BY SubsetsFinite
  <2>3. Message("started", Cardinality(items), Zero) \in Messages
    BY <2>2, MessageType, ZeroCount
  <2>4. mailbox' \in [Views -> Seq(Messages)]
    BY <2>1, <2>3, SendTypes DEF TypeOK
  <2>5. QED
    BY <1>1, <2>1, <2>2, <2>4 DEF List, TypeOK
<1>2. CASE ListRaises(j)
  BY <1>2 DEF ListRaises, TypeOK, viewVars
<1>3. CASE StartChunk(j)
  <2>1. PICK c \in NextChunk(j) : /\ chunk' = [chunk EXCEPT ![j] = c]
                                  /\ left' = [left EXCEPT ![j] = @ \ c]
    BY <1>3 DEF StartChunk
  <2>2. c \in SUBSET Items /\ left[j] \in SUBSET Items
    BY DEF NextChunk, TypeOK
  <2>3. Cardinality(left[j]) \in Nat
    BY <2>2, SubsetsFinite
  <2>4. Cardinality(c) <= MaxConcurrency
    BY <2>3, PlatformConstants DEF NextChunk
  <2>5. QED
    BY <1>3, <2>1, <2>2, <2>4 DEF StartChunk, TypeOK, viewVars
<1>4. CASE \E x \in Items : EndTask(j, x)
  BY <1>4 DEF EndTask, TypeOK, viewVars
<1>5. CASE AwaitChunk(j)
  <2>1. total[j] \in Nat
    BY SubsetsFinite DEF TypeOK
  <2>2. Message("in_progress", total[j], AddChunk(j)) \in Messages
    BY <2>1, AddTypes, MessageType
  <2>3. mailbox' \in [Views -> Seq(Messages)]
    BY <1>5, <2>2, SendTypes DEF TypeOK, AwaitChunk
  <2>4. Cardinality({}) = 0
    BY FS_EmptySet
  <2>5. QED
    BY <1>5, <2>3, <2>4, AddTypes, PlatformConstants DEF AwaitChunk, TypeOK
<1>6. CASE Complete(j)
  <2>1. total[j] \in Nat
    BY SubsetsFinite DEF TypeOK
  <2>2. [counts[j] EXCEPT !.completed = total[j]] \in Counts
    BY <2>1 DEF TypeOK, Counts
  <2>3. Message("completed", total[j], [counts[j] EXCEPT !.completed = total[j]]) \in Messages
    BY <2>1, <2>2, MessageType
  <2>4. mailbox' \in [Views -> Seq(Messages)]
    BY <1>6, <2>3, SendTypes DEF TypeOK, Complete
  <2>5. QED
    BY <1>6, <2>4 DEF Complete, TypeOK
<1>7. QED
  BY <1>1, <1>2, <1>3, <1>4, <1>5, <1>6 DEF JobStep

-----------------------------------------------------------------------------
(* The accumulator.                                                        *)

\* What a job that does nothing keeps.
LEMMA ViewCounts ==
  ASSUME PInv, NEW v \in Views, Mount(v) \/ Leave(v) \/ Click(v) \/ Receive(v)
  PROVE  ItemsTracked' /\ Accumulated'
<1>1. UNCHANGED <<total, left, chunk, result, counts>>
  BY DEF Mount, Leave, Click, Receive, jobVars
<1>2. Accumulated'
  BY <1>1 DEF PInv, Accumulated, Added, Settled
<1>3. \A j \in Jobs : /\ phase'[j] = phase[j] \/ (phase[j] = "unborn" /\ phase'[j] = "listing")
                      /\ phase'[j] = "unborn" => owner'[j] \in {owner[j], None}
  BY DEF Mount, Leave, Click, Receive, jobVars, PInv, TypeOK
<1>4. ItemsTracked'
  BY <1>1, <1>3 DEF PInv, ItemsTracked, Tracked
<1>5. QED
  BY <1>2, <1>4

\* A step of one job leaves the others as they are.
LEMMA OthersTracked ==
  ASSUME TypeOK, NEW j \in Jobs, JobStep(j), NEW k \in Jobs, k # j
  PROVE  /\ phase'[k] = phase[k] /\ owner'[k] = owner[k] /\ total'[k] = total[k]
         /\ left'[k] = left[k] /\ chunk'[k] = chunk[k] /\ result'[k] = result[k]
         /\ counts'[k] = counts[k] /\ owner'[j] = owner[j]
<1> USE DEF TypeOK
<1>1. CASE List(j)
  BY <1>1 DEF List
<1>2. CASE ListRaises(j)
  BY <1>2 DEF ListRaises
<1>3. CASE StartChunk(j)
  BY <1>3 DEF StartChunk
<1>4. CASE \E x \in Items : EndTask(j, x)
  BY <1>4 DEF EndTask
<1>5. CASE AwaitChunk(j)
  BY <1>5 DEF AwaitChunk
<1>6. CASE Complete(j)
  BY <1>6 DEF Complete
<1>7. QED
  BY <1>1, <1>2, <1>3, <1>4, <1>5, <1>6 DEF JobStep

\* The chunk that is counted moves its results into the settled ones.
LEMMA ChunkSettles ==
  ASSUME TypeOK, NEW j \in Jobs, AwaitChunk(j), NEW r \in {"ok", "error"}
  PROVE  Cardinality(Settled(j, r)') = Cardinality(Settled(j, r)) + Cardinality(Results(j, r))
<1>1. chunk'[j] = {} /\ result' = result /\ chunk[j] \in SUBSET Items
  BY DEF AwaitChunk, TypeOK
<1>2. Settled(j, r)' = Settled(j, r) \union Results(j, r)
  BY <1>1 DEF Settled, Results
<1>3. /\ Settled(j, r) \in SUBSET Items /\ Results(j, r) \in SUBSET Items
      /\ Settled(j, r) \cap Results(j, r) = {}
  BY <1>1 DEF Settled, Results
<1>4. QED
  BY <1>2, <1>3, DisjointUnion

\* Every task of a chunk that is counted has one of the two results.
LEMMA ChunkCounted ==
  ASSUME TypeOK, NEW j \in Jobs, AwaitChunk(j)
  PROVE  Cardinality(chunk[j]) = Cardinality(Results(j, "ok")) + Cardinality(Results(j, "error"))
<1>1. \A x \in chunk[j] : result[j][x] \in {"ok", "error"}
  BY DEF AwaitChunk, TypeOK
<1>2. /\ chunk[j] = Results(j, "ok") \union Results(j, "error")
      /\ Results(j, "ok") \cap Results(j, "error") = {}
      /\ Results(j, "ok") \in SUBSET Items /\ Results(j, "error") \in SUBSET Items
  BY <1>1 DEF Results, TypeOK
<1>3. QED
  BY <1>2, DisjointUnion

LEMMA JobTracked ==
  ASSUME TypeOK, NEW j \in Jobs, Tracked(j), JobStep(j)
  PROVE  Tracked(j)'
<1> USE DEF TypeOK, Tracked
<1>1. CASE List(j)
  BY <1>1 DEF List
<1>2. CASE ListRaises(j)
  BY <1>2 DEF ListRaises
<1>3. CASE StartChunk(j)
  BY <1>3 DEF StartChunk, NextChunk
<1>4. CASE \E x \in Items : EndTask(j, x)
  BY <1>4 DEF EndTask
<1>5. CASE AwaitChunk(j)
  BY <1>5 DEF AwaitChunk
<1>6. CASE Complete(j)
  BY <1>6 DEF Complete
<1>7. QED
  BY <1>1, <1>2, <1>3, <1>4, <1>5, <1>6 DEF JobStep

LEMMA JobAdded ==
  ASSUME TypeOK, NEW j \in Jobs, Tracked(j), Added(j), JobStep(j)
  PROVE  Added(j)'
<1>0. /\ left[j] \in SUBSET Items /\ chunk[j] \in SUBSET Items /\ counts[j] \in Counts
      /\ Cardinality(left[j]) \in Nat /\ Cardinality(chunk[j]) \in Nat
      /\ Cardinality({}) = 0
  BY SubsetsFinite, FS_EmptySet DEF TypeOK
<1>1. CASE List(j)
  <2>1. PICK items \in SUBSET Items : /\ left'[j] = items
                                      /\ total'[j] = Cardinality(items)
    BY <1>1 DEF List, TypeOK
  <2>2. /\ counts'[j] = counts[j] /\ chunk'[j] = {} /\ chunk[j] = {} /\ left[j] = {}
        /\ result' = result /\ total[j] = 0
    BY <1>1 DEF List, Tracked
  <2>3. Cardinality(items) \in Nat
    BY SubsetsFinite
  <2>4. Settled(j, "ok")' = Settled(j, "ok") /\ Settled(j, "error")' = Settled(j, "error")
    BY <2>2 DEF Settled
  <2>5. counts[j].completed = 0
    BY <1>1 DEF Tracked, List, Zero
  <2>6. QED
    BY <1>0, <2>1, <2>2, <2>3, <2>4, <2>5 DEF Added
<1>2. CASE ListRaises(j)
  BY <1>2 DEF ListRaises, Added, Settled
<1>3. CASE StartChunk(j)
  <2>1. PICK c \in SUBSET left[j] : chunk'[j] = c /\ left'[j] = left[j] \ c
    BY <1>3 DEF StartChunk, NextChunk, TypeOK
  <2>2. chunk[j] = {} /\ counts' = counts /\ total' = total /\ result' = result
    BY <1>3 DEF StartChunk
  <2>3. \A x \in c : result[j][x] = "none"
    BY DEF Tracked
  <2>4. Settled(j, "ok")' = Settled(j, "ok") /\ Settled(j, "error")' = Settled(j, "error")
    BY <2>1, <2>2, <2>3 DEF Settled
  <2>5. /\ left[j] = (left[j] \ c) \union c /\ (left[j] \ c) \cap c = {}
        /\ c \in SUBSET Items /\ left[j] \ c \in SUBSET Items
    BY <1>0
  <2>6. Cardinality(left[j]) = Cardinality(left[j] \ c) + Cardinality(c)
    BY <2>5, DisjointUnion
  <2>7. Cardinality(c) \in Nat /\ Cardinality(left[j] \ c) \in Nat
    BY <2>5, SubsetsFinite
  <2>8. counts[j].completed \in Nat
    BY <1>0 DEF Counts
  <2>9. QED
    BY <1>0, <2>1, <2>2, <2>4, <2>6, <2>7, <2>8 DEF Added
<1>4. CASE \E x \in Items : EndTask(j, x)
  <2>1. PICK x \in chunk[j] : /\ \A y \in Items \ {x} : result'[j][y] = result[j][y]
                              /\ UNCHANGED <<total, left, chunk, counts>>
    BY <1>4 DEF EndTask, TypeOK
  <2>2. Settled(j, "ok")' = Settled(j, "ok") /\ Settled(j, "error")' = Settled(j, "error")
    BY <2>1 DEF Settled
  <2>3. QED
    BY <2>1, <2>2 DEF Added
<1>5. CASE AwaitChunk(j)
  <2>1. /\ counts'[j] = AddChunk(j) /\ chunk'[j] = {} /\ left' = left /\ total' = total
    BY <1>5 DEF AwaitChunk, TypeOK
  <2>2. /\ Results(j, "ok") \in SUBSET Items /\ Results(j, "error") \in SUBSET Items
        /\ Settled(j, "ok") \in SUBSET Items /\ Settled(j, "error") \in SUBSET Items
    BY <1>0 DEF Results, Settled
  <2>3. /\ Cardinality(Results(j, "ok")) \in Nat /\ Cardinality(Results(j, "error")) \in Nat
        /\ Cardinality(Settled(j, "ok")) \in Nat /\ Cardinality(Settled(j, "error")) \in Nat
    BY <2>2, SubsetsFinite
  <2>4. /\ Cardinality(Settled(j, "ok")') = Cardinality(Settled(j, "ok")) + Cardinality(Results(j, "ok"))
        /\ Cardinality(Settled(j, "error")') = Cardinality(Settled(j, "error")) + Cardinality(Results(j, "error"))
    BY <1>5, ChunkSettles
  <2>5. /\ AddChunk(j).completed = counts[j].completed + Cardinality(chunk[j])
        /\ AddChunk(j).successful = counts[j].successful + Cardinality(Results(j, "ok"))
        /\ AddChunk(j).failed = counts[j].failed + Cardinality(Results(j, "error"))
    BY DEF AddChunk
  <2>6. QED
    BY <1>0, <1>5, <2>1, <2>3, <2>4, <2>5, ChunkCounted DEF Added
<1>6. CASE Complete(j)
  BY <1>6 DEF Complete, Added, Settled
<1>7. QED
  BY <1>1, <1>2, <1>3, <1>4, <1>5, <1>6 DEF JobStep

LEMMA JobCounts ==
  ASSUME PInv, NEW j \in Jobs, JobStep(j)
  PROVE  ItemsTracked' /\ Accumulated'
<1>1. \A k \in Jobs : Tracked(k) /\ Added(k)
  BY DEF PInv, ItemsTracked, Accumulated
<1>2. TypeOK
  BY DEF PInv
<1>3. Tracked(j)' /\ Added(j)'
  BY <1>1, <1>2, JobTracked, JobAdded
<1>4. \A k \in Jobs : k # j => Tracked(k)' /\ Added(k)'
  <2> SUFFICES ASSUME NEW k \in Jobs, k # j PROVE Tracked(k)' /\ Added(k)'
    OBVIOUS
  <2>1. /\ phase'[k] = phase[k] /\ owner'[k] = owner[k] /\ total'[k] = total[k]
        /\ left'[k] = left[k] /\ chunk'[k] = chunk[k] /\ result'[k] = result[k]
        /\ counts'[k] = counts[k]
    BY <1>2, OthersTracked
  <2>2. Settled(k, "ok")' = Settled(k, "ok") /\ Settled(k, "error")' = Settled(k, "error")
    BY <2>1 DEF Settled
  <2>3. Tracked(k)'
    BY <1>1, <2>1 DEF Tracked
  <2>4. Added(k)'
    BY <1>1, <2>1, <2>2 DEF Added
  <2>5. QED
    BY <2>3, <2>4
<1>5. QED
  BY <1>3, <1>4 DEF ItemsTracked, Accumulated

-----------------------------------------------------------------------------
(* The mail.                                                               *)

LEMMA ZeroHonest ==
  /\ Honest(Message("initializing", 0, Zero))
  /\ Follows(Message("initializing", 0, Zero), Zero)
  /\ \A n \in Nat : Honest(Message("started", n, Zero))
  BY DEF Honest, Follows, Message, Zero

LEMMA MountMail ==
  ASSUME PInv, NEW v \in Views, Mount(v)
  PROVE  MailOrdered' /\ OwnerBusy' /\ OneJobPerView'
<1>0. ~open[v] /\ mailbox[v] = <<>> /\ \A j \in Jobs : owner[j] # v
  <2>1. ~open[v] /\ Ordered(v)
    BY DEF Mount, PInv, MailOrdered
  <2>2. \A j \in Jobs : owner[j] # None => open[owner[j]]
    BY DEF PInv, OwnerBusy, Backed
  <2>3. v # None
    BY PlatformConstants
  <2>4. QED
    BY <2>1, <2>2, <2>3 DEF Ordered
<1>1. /\ open' = [open EXCEPT ![v] = TRUE] /\ progress' = [progress EXCEPT ![v] = None]
      /\ busy' = [busy EXCEPT ![v] = FALSE] /\ mailbox[v] = <<>> /\ mailbox' = mailbox
      /\ \A j \in Jobs : owner[j] # v
      /\ UNCHANGED <<phase, owner, counts>>
  BY <1>0 DEF Mount, jobVars
<1>2. MailOrdered'
  BY <1>1 DEF PInv, TypeOK, MailOrdered, Ordered
<1>3. OwnerBusy'
  BY <1>1 DEF PInv, TypeOK, OwnerBusy, Backed, Alive
<1>4. OneJobPerView'
  BY <1>1 DEF PInv, OneJobPerView, Alive
<1>5. QED
  BY <1>2, <1>3, <1>4

LEMMA LeaveMail ==
  ASSUME PInv, NEW v \in Views, Leave(v)
  PROVE  MailOrdered' /\ OwnerBusy' /\ OneJobPerView'
<1>1. MailOrdered'
  BY DEF Leave, PInv, TypeOK, MailOrdered, Ordered
<1>2. OwnerBusy'
  BY DEF Leave, PInv, TypeOK, OwnerBusy, Backed, Alive
<1>3. OneJobPerView'
  BY DEF Leave, PInv, TypeOK, OneJobPerView, Alive
<1>4. QED
  BY <1>1, <1>2, <1>3

LEMMA ClickMail ==
  ASSUME PInv, NEW v \in Views, Click(v)
  PROVE  MailOrdered' /\ OwnerBusy' /\ OneJobPerView'
<1>1. PICK j \in Jobs : /\ phase[j] = "unborn"
                        /\ phase' = [phase EXCEPT ![j] = "listing"]
                        /\ owner' = [owner EXCEPT ![j] = v]
  BY DEF Click
<1>2. /\ open[v] /\ ~busy[v] /\ mailbox[v] = <<>>
      /\ busy' = [busy EXCEPT ![v] = TRUE]
      /\ progress' = [progress EXCEPT ![v] = Message("initializing", 0, Zero)]
      /\ UNCHANGED <<open, mailbox, counts>>
  BY DEF Click, MayClick, PInv, MailOrdered, Ordered
<1>3. \A k \in Jobs : owner[k] = v => ~Alive(k)
  BY <1>2, PlatformConstants DEF PInv, OwnerBusy, Backed
<1>4. counts[j] = Zero
  BY <1>1 DEF PInv, ItemsTracked, Tracked
<1>5. MailOrdered'
  BY <1>2, ZeroHonest DEF PInv, TypeOK, MailOrdered, Ordered
<1>6. OwnerBusy'
  BY <1>1, <1>2, <1>3, <1>4, ZeroHonest DEF PInv, TypeOK, OwnerBusy, Backed, Alive
<1>7. OneJobPerView'
  BY <1>1, <1>3 DEF PInv, TypeOK, OneJobPerView, Alive
<1>8. QED
  BY <1>5, <1>6, <1>7

LEMMA ReceiveMail ==
  ASSUME PInv, NEW v \in Views, Receive(v)
  PROVE  MailOrdered' /\ OwnerBusy' /\ OneJobPerView'
<1> DEFINE box == mailbox[v]
<1>1. /\ open[v] /\ box # <<>> /\ box \in Seq(Messages)
      /\ progress' = [progress EXCEPT ![v] = box[1]]
      /\ busy' = [busy EXCEPT ![v] = (box[1].status # "completed")]
      /\ mailbox' = [mailbox EXCEPT ![v] = Tail(box)]
      /\ UNCHANGED <<open, phase, owner, counts>>
  BY DEF Receive, BusyAfter, jobVars, PInv, TypeOK
<1>2. /\ Tail(box) \in Seq(Messages) /\ Len(Tail(box)) = Len(box) - 1 /\ Len(box) \in Nat \ {0}
      /\ \A n \in 1 .. Len(box) - 1 : Tail(box)[n] = box[n + 1]
  BY <1>1
<1>3. /\ \A n \in 1 .. Len(box) : Honest(box[n])
      /\ \A n \in 1 .. Len(box) - 1 : Follows(box[n], box[n + 1])
  BY DEF PInv, MailOrdered, Ordered
<1>4. Ordered(v)'
  <2>1. mailbox'[v] = Tail(box) /\ progress'[v] = box[1] /\ open'[v]
        /\ busy'[v] = (box[1].status # "completed")
    BY <1>1 DEF PInv, TypeOK
  <2>2. \A n \in 1 .. Len(Tail(box)) : Honest(Tail(box)[n])
    BY <1>2, <1>3
  <2>3. \A n \in 1 .. Len(Tail(box)) - 1 : Follows(Tail(box)[n], Tail(box)[n + 1])
    BY <1>2, <1>3
  <2>4. Tail(box) # <<>> => Follows(box[1], Tail(box)[1])
    BY <1>2, <1>3
  <2>5. ~busy'[v] => Tail(box) = <<>>
    BY <2>1, <2>4 DEF Follows
  <2>6. Honest(box[1])
    BY <1>2, <1>3
  <2>7. QED
    BY ONLY <2>1, <2>2, <2>3, <2>4, <2>5, <2>6 DEF Ordered
<1>5. \A w \in Views : w # v => Ordered(w)'
  BY <1>1 DEF PInv, TypeOK, MailOrdered, Ordered
<1>6. OwnerBusy'
  <2> SUFFICES ASSUME NEW j \in Jobs, owner[j] # None PROVE Backed(j)'
    BY <1>1 DEF OwnerBusy, Backed
  <2>1. Backed(j)
    BY DEF PInv, OwnerBusy
  <2>2. owner[j] = v => Backed(j)'
    <3> SUFFICES ASSUME owner[j] = v, Alive(j) PROVE Backed(j)'
      BY <1>1, <2>1 DEF Backed, Alive, PInv, TypeOK
    <3>1. Follows(box[Len(box)], counts[j]) /\ busy[v]
      BY <1>1, <2>1 DEF Backed
    <3>2. /\ Tail(box) # <<>> => Tail(box)[Len(Tail(box))] = box[Len(box)]
          /\ Tail(box) = <<>> => Len(box) = 1
      <4>1. Tail(box) = <<>> => Len(Tail(box)) = 0
        OBVIOUS
      <4>2. Tail(box) # <<>> => Len(Tail(box)) # 0
        <5>1. \A q \in Seq(Messages) : Len(q) = 0 => q = <<>>
          OBVIOUS
        <5>2. Tail(box) \in Seq(Messages)
          BY <1>2
        <5>3. QED
          BY <5>1, <5>2
      <4>3. QED
        BY <1>2, <4>1, <4>2
    <3>3. Tail(box) # <<>> => Follows(box[1], box[2])
      BY <1>2, <1>3
    <3>4. box[1].status # "completed"
      BY <3>1, <3>2, <3>3 DEF Follows
    <3>5. mailbox'[v] = Tail(box) /\ progress'[v] = box[1] /\ open'[v] /\ busy'[v]
      BY <1>1, <3>4 DEF PInv, TypeOK
    <3>6. QED
      BY <1>1, <3>1, <3>2, <3>5 DEF Backed, Alive
  <2>3. owner[j] # v => Backed(j)'
    BY <1>1, <2>1 DEF Backed, Alive, PInv, TypeOK
  <2>4. QED
    BY <2>2, <2>3
<1>7. OneJobPerView'
  BY <1>1 DEF PInv, OneJobPerView, Alive
<1>8. QED
  BY <1>4, <1>5, <1>6, <1>7 DEF MailOrdered

\* A message of a live job goes behind the others of its page.
LEMMA SendMail ==
  ASSUME PInv, NEW j \in Jobs, Alive(j), NEW m \in Messages, Honest(m),
         m.completed >= counts[j].completed, SendTo(owner[j], m),
         UNCHANGED <<open, busy, progress, owner>>,
         \A k \in Jobs : k # j => counts'[k] = counts[k] /\ phase'[k] = phase[k],
         Alive(j)' => m.status # "completed" /\ counts'[j].completed >= m.completed
  PROVE  MailOrdered' /\ OwnerBusy'
<1>1. CASE owner[j] = None
  <2>1. mailbox' = mailbox
    BY <1>1 DEF SendTo
  <2>2. QED
    BY <1>1, <2>1 DEF PInv, MailOrdered, Ordered, OwnerBusy, Backed, Alive
<1>2. CASE owner[j] # None
  <2> DEFINE v == owner[j]
             box == mailbox[v]
  <2>1. /\ v \in Views /\ box \in Seq(Messages) /\ Backed(j) /\ Ordered(v)
        /\ mailbox'[v] = Append(box, m)
        /\ \A w \in Views : w # v => mailbox'[w] = mailbox[w]
    BY <1>2 DEF PInv, TypeOK, SendTo, OwnerBusy, MailOrdered
  <2>2. /\ Len(Append(box, m)) = Len(box) + 1 /\ Len(box) \in Nat
        /\ Append(box, m)[Len(box) + 1] = m /\ Append(box, m) # <<>>
        /\ \A n \in 1 .. Len(box) : Append(box, m)[n] = box[n]
    BY <2>1
  <2>3. /\ open[v] /\ busy[v]
        /\ box # <<>> => Follows(box[Len(box)], counts[j])
        /\ box = <<>> /\ progress[v] # None => Follows(progress[v], counts[j])
    BY <1>2, <2>1 DEF Backed
  <2>4. \A p : Follows(p, counts[j]) /\ p.completed \in Nat => Follows(p, m)
    BY DEF Follows, PInv, TypeOK, Counts, Messages
  <2>5. /\ box # <<>> => box[Len(box)].completed \in Nat
        /\ progress[v] # None => progress[v].completed \in Nat
    <3>1. \A p \in Messages : p.completed \in Nat
      BY DEF Messages
    <3>2. box # <<>> => box[Len(box)] \in Messages
      BY <2>1
    <3>3. progress[v] # None => progress[v] \in Messages
      BY <2>1 DEF PInv, TypeOK
    <3>4. QED
      BY <3>1, <3>2, <3>3
  <2>6. \A n \in 1 .. Len(box) : Follows(Append(box, m)[n], Append(box, m)[n + 1])
    <3> SUFFICES ASSUME NEW n \in 1 .. Len(box)
                 PROVE  Follows(Append(box, m)[n], Append(box, m)[n + 1])
      OBVIOUS
    <3>1. n = Len(box) => Follows(Append(box, m)[n], Append(box, m)[n + 1])
      BY <2>2, <2>3, <2>4, <2>5
    <3>2. n # Len(box) => Follows(Append(box, m)[n], Append(box, m)[n + 1])
      <4> SUFFICES ASSUME n # Len(box) PROVE Follows(Append(box, m)[n], Append(box, m)[n + 1])
        OBVIOUS
      <4>1. n \in 1 .. Len(box) - 1 /\ n + 1 \in 1 .. Len(box)
        BY <2>2
      <4>2. Follows(box[n], box[n + 1])
        BY <2>1, <4>1 DEF Ordered
      <4>3. Append(box, m)[n] = box[n] /\ Append(box, m)[n + 1] = box[n + 1]
        BY <2>2, <4>1
      <4>4. QED
        BY <4>2, <4>3
    <3>3. QED
      BY <3>1, <3>2
  <2>7. \A n \in 1 .. Len(box) + 1 : Honest(Append(box, m)[n])
    BY <2>1, <2>2 DEF Ordered
  <2>8. progress[v] # None => Follows(progress[v], Append(box, m)[1])
    <3>1. box = <<>> /\ progress[v] # None => Follows(progress[v], Append(box, m)[1])
      BY <2>2, <2>3, <2>4, <2>5
    <3>2. box # <<>> /\ progress[v] # None => Follows(progress[v], Append(box, m)[1])
      BY <2>1, <2>2 DEF Ordered
    <3>3. QED
      BY <3>1, <3>2
  <2>9. Ordered(v)'
    BY <2>1, <2>2, <2>3, <2>6, <2>7, <2>8 DEF Ordered
  <2>10. MailOrdered'
    BY <2>1, <2>9 DEF MailOrdered, Ordered, PInv
  <2>11. Backed(j)'
    BY <1>2, <2>1, <2>2, <2>3 DEF Backed, Follows
  <2>12. \A k \in Jobs : k # j => Backed(k)'
    <3> SUFFICES ASSUME NEW k \in Jobs, k # j, owner[k] # None PROVE Backed(k)'
      BY DEF Backed
    <3>1. Backed(k) /\ owner[k] \in Views
      BY DEF PInv, OwnerBusy, TypeOK
    <3>2. owner[k] = v => ~Alive(k)
      BY <1>2 DEF PInv, OneJobPerView
    <3>3. Alive(k)' <=> Alive(k)
      BY DEF Alive
    <3>4. QED
      BY <2>1, <3>1, <3>2, <3>3 DEF Backed
  <2>13. QED
    BY <2>10, <2>11, <2>12 DEF OwnerBusy
<1>3. QED
  BY <1>1, <1>2

LEMMA JobMail ==
  ASSUME PInv, NEW j \in Jobs, JobStep(j), ItemsTracked', Accumulated', TypeOK'
  PROVE  MailOrdered' /\ OwnerBusy' /\ OneJobPerView'
<1>0. /\ TypeOK /\ Tracked(j) /\ Added(j) /\ Added(j)'
      /\ counts[j] \in Counts /\ counts'[j] \in Counts
      /\ total[j] \in Nat /\ total'[j] \in Nat
      /\ left[j] \in SUBSET Items /\ chunk[j] \in SUBSET Items
  BY SubsetsFinite DEF PInv, ItemsTracked, Accumulated, TypeOK
<1>1. /\ owner' = owner
      /\ \A k \in Jobs : k # j => counts'[k] = counts[k] /\ phase'[k] = phase[k]
  BY <1>0, OthersTracked DEF JobStep, List, ListRaises, StartChunk, EndTask, AwaitChunk, Complete
<1>2. \A k \in Jobs : Alive(k)' => Alive(k)
  BY <1>0 DEF Alive, JobStep, List, ListRaises, StartChunk, EndTask, AwaitChunk, Complete, TypeOK
<1>3. OneJobPerView'
  BY <1>1, <1>2 DEF PInv, OneJobPerView
<1>4. ASSUME UNCHANGED viewVars, counts' = counts
      PROVE  MailOrdered' /\ OwnerBusy'
  BY <1>1, <1>2, <1>4 DEF viewVars, PInv, MailOrdered, Ordered, OwnerBusy, Backed
<1>5. CASE List(j)
  <2>1. PICK items \in SUBSET Items :
          SendTo(owner[j], Message("started", Cardinality(items), Zero))
    BY <1>5 DEF List
  <2> DEFINE m == Message("started", Cardinality(items), Zero)
  <2>2. Cardinality(items) \in Nat
    BY SubsetsFinite
  <2>3. m \in Messages /\ Honest(m)
    BY <2>2, MessageType, ZeroCount, ZeroHonest
  <2>4. Alive(j) /\ counts[j] = Zero /\ counts' = counts /\ UNCHANGED <<open, busy, progress>>
    BY <1>0, <1>5 DEF List, Alive, Tracked
  <2>5. /\ m.completed >= counts[j].completed /\ m.status # "completed"
        /\ counts'[j].completed >= m.completed
    BY <2>4 DEF Message, Zero
  <2>6. QED
    BY <1>1, <1>3, <2>1, <2>3, <2>4, <2>5, SendMail
<1>6. CASE ListRaises(j)
  BY <1>3, <1>4, <1>6 DEF ListRaises
<1>7. CASE StartChunk(j)
  BY <1>3, <1>4, <1>7 DEF StartChunk
<1>8. CASE \E x \in Items : EndTask(j, x)
  BY <1>3, <1>4, <1>8 DEF EndTask
<1>9. CASE AwaitChunk(j)
  <2> DEFINE m == Message("in_progress", total[j], AddChunk(j))
  <2>1. /\ Alive(j) /\ UNCHANGED <<open, busy, progress, total>> /\ SendTo(owner[j], m)
        /\ counts'[j] = AddChunk(j) /\ left' = left /\ chunk'[j] = {}
    BY <1>0, <1>9 DEF AwaitChunk, Alive, TypeOK
  <2>2. /\ Cardinality(left[j]) \in Nat /\ Cardinality(chunk[j]) \in Nat /\ Cardinality({}) = 0
    BY <1>0, SubsetsFinite, FS_EmptySet
  <2>3. m \in Messages
    BY <1>0, AddTypes, MessageType
  <2>4. /\ AddChunk(j).completed = AddChunk(j).successful + AddChunk(j).failed
        /\ AddChunk(j).completed + Cardinality(left[j]) = total[j]
        /\ AddChunk(j) \in Counts
    BY <1>0, <2>1, <2>2 DEF Added, Counts
  <2>5. AddChunk(j).completed >= counts[j].completed
    BY <1>0, <2>2 DEF AddChunk, Counts
  <2>6. Honest(m) /\ m.status # "completed" /\ m.completed = AddChunk(j).completed
    BY <1>0, <2>2, <2>4 DEF Honest, Message, Counts
  <2>7. counts'[j].completed >= m.completed
    BY <1>0, <2>1, <2>6 DEF Counts
  <2>8. QED
    BY <1>1, <1>3, <2>1, <2>3, <2>5, <2>6, <2>7, SendMail
<1>10. CASE Complete(j)
  <2> DEFINE c == [counts[j] EXCEPT !.completed = total[j]]
             m == Message("completed", total[j], c)
  <2>1. /\ Alive(j) /\ UNCHANGED <<open, busy, progress>> /\ SendTo(owner[j], m)
        /\ left[j] = {} /\ chunk[j] = {} /\ ~Alive(j)'
    BY <1>0, <1>10 DEF Complete, Alive, TypeOK
  <2>2. counts[j].completed = total[j]
    BY <1>0, <2>1, FS_EmptySet DEF Added, Counts
  <2>3. c \in Counts /\ c = counts[j]
    BY <1>0, <2>2 DEF Counts
  <2>4. m \in Messages
    BY <1>0, <2>3, MessageType
  <2>5. Honest(m) /\ m.completed = counts[j].completed
    BY <1>0, <2>2, <2>3 DEF Honest, Message, Added, Counts
  <2>6. m.completed >= counts[j].completed
    BY <1>0, <2>5 DEF Counts
  <2>7. QED
    BY <1>1, <1>3, <2>1, <2>4, <2>5, <2>6, SendMail
<1>11. QED
  BY <1>5, <1>6, <1>7, <1>8, <1>9, <1>10 DEF JobStep

-----------------------------------------------------------------------------
LEMMA StepInv == PInv /\ [Next]_vars => PInv'
<1> SUFFICES ASSUME PInv, [Next]_vars PROVE PInv'
  OBVIOUS
<1>1. CASE UNCHANGED vars
  <2>1. UNCHANGED <<open, busy, progress, mailbox, phase, owner, total, left, chunk, result, counts>>
    BY <1>1 DEF vars, viewVars, jobVars
  <2>2. TypeOK' /\ ItemsTracked' /\ OneJobPerView'
    BY <2>1 DEF PInv, TypeOK, ItemsTracked, Tracked, OneJobPerView, Alive
  <2>3. Accumulated'
    BY <2>1 DEF PInv, Accumulated, Added, Settled
  <2>4. MailOrdered' /\ OwnerBusy'
    BY <2>1 DEF PInv, MailOrdered, Ordered, OwnerBusy, Backed, Alive
  <2>5. QED
    BY <2>2, <2>3, <2>4 DEF PInv
<1>2. ASSUME NEW v \in Views, Mount(v) \/ Leave(v) \/ Click(v) \/ Receive(v)
      PROVE  PInv'
  <2>1. TypeOK' /\ ItemsTracked' /\ Accumulated'
    BY <1>2, ViewTypes, ViewCounts DEF PInv
  <2>2. MailOrdered' /\ OwnerBusy' /\ OneJobPerView'
    BY <1>2, MountMail, LeaveMail, ClickMail, ReceiveMail
  <2>3. QED
    BY <2>1, <2>2 DEF PInv
<1>3. ASSUME NEW j \in Jobs, JobStep(j)
      PROVE  PInv'
  <2>1. TypeOK' /\ ItemsTracked' /\ Accumulated'
    BY <1>3, JobTypes, JobCounts DEF PInv
  <2>2. MailOrdered' /\ OwnerBusy' /\ OneJobPerView'
    BY <1>3, <2>1, JobMail
  <2>3. QED
    BY <2>1, <2>2 DEF PInv
<1>4. QED
  BY <1>1, <1>2, <1>3 DEF Next

\* The inductive invariant of the pages, their jobs and the mail between them.
THEOREM PlatformInvariant == Spec => []PInv
<1>1. QED
  BY InitInv, StepInv, PTL DEF Spec

\* Every variable keeps its type.
THEOREM PlatformTypes == Spec => []TypeOK
  BY PlatformInvariant, PTL DEF PInv

\* A page runs one job at a time, however late it reads what the job sends.
THEOREM OneJobRuns == Spec => []OneJobPerView
  BY PlatformInvariant, PTL DEF PInv

LEMMA CountsFollow == PInv => ResultsCounted
<1> SUFFICES ASSUME PInv, NEW j \in Jobs, chunk[j] = {}
             PROVE  /\ counts[j].successful = Cardinality({x \in Items : result[j][x] = "ok"})
                    /\ counts[j].failed = Cardinality({x \in Items : result[j][x] = "error"})
                    /\ counts[j].completed = total[j] - Cardinality(left[j])
  BY DEF ResultsCounted
<1>1. /\ Settled(j, "ok") = {x \in Items : result[j][x] = "ok"}
      /\ Settled(j, "error") = {x \in Items : result[j][x] = "error"}
  BY DEF Settled
<1>2. Added(j) /\ Cardinality({}) = 0 /\ counts[j] \in Counts
  BY FS_EmptySet DEF PInv, Accumulated, TypeOK
<1>3. Cardinality(left[j]) \in Nat
  BY SubsetsFinite DEF PInv, TypeOK
<1>4. counts[j].completed + Cardinality(left[j]) = total[j]
  BY <1>2, <1>3 DEF Added, Counts
<1>5. counts[j].completed = total[j] - Cardinality(left[j])
  BY <1>2, <1>3, <1>4 DEF Counts
<1>6. QED
  BY <1>1, <1>2, <1>5 DEF Added

\* A job has counted each of its tasks once, whatever the size of its chunks.
THEOREM TasksCounted == Spec => []ResultsCounted
<1>1. QED
  BY PlatformInvariant, CountsFollow, PTL

LEMMA MailHonest == PInv => ProgressHonest
<1> SUFFICES ASSUME PInv, NEW v \in Views, open[v]
             PROVE  LET shown == IF progress[v] = None THEN mailbox[v]
                                   ELSE <<progress[v]>> \o mailbox[v] IN
                    /\ \A n \in DOMAIN shown :
                         /\ shown[n].completed = shown[n].successful + shown[n].failed
                         /\ shown[n].completed <= shown[n].total
                         /\ shown[n].status = "completed" => shown[n].completed = shown[n].total
                    /\ \A n \in 2 .. Len(shown) :
                         /\ shown[n].completed >= shown[n - 1].completed
                         /\ shown[n - 1].status # "completed"
  BY DEF ProgressHonest
<1> DEFINE box == mailbox[v]
           shown == IF progress[v] = None THEN box ELSE <<progress[v]>> \o box
<1>1. Ordered(v) /\ box \in Seq(Messages) /\ progress[v] \in Messages \union {None}
  BY DEF PInv, MailOrdered, TypeOK
<1>2. Len(box) \in Nat /\ DOMAIN box = 1 .. Len(box)
  BY <1>1
<1>3. /\ shown \in Seq(Messages) /\ DOMAIN shown = 1 .. Len(shown)
      /\ \A n \in 1 .. Len(shown) : Honest(shown[n])
      /\ \A n \in 1 .. Len(shown) - 1 : Follows(shown[n], shown[n + 1])
  <2>1. CASE progress[v] = None
    BY <1>1, <1>2, <2>1 DEF Ordered
  <2>2. CASE progress[v] # None
    <3>1. /\ shown \in Seq(Messages) /\ Len(shown) = Len(box) + 1
          /\ shown[1] = progress[v]
          /\ \A n \in 2 .. Len(shown) : shown[n] = box[n - 1]
      BY <1>1, <1>2, <2>2
    <3>2. \A n \in 1 .. Len(shown) : Honest(shown[n])
      BY <1>1, <1>2, <2>2, <3>1 DEF Ordered
    <3>3. \A n \in 1 .. Len(shown) - 1 : Follows(shown[n], shown[n + 1])
      <4> SUFFICES ASSUME NEW n \in 1 .. Len(box) PROVE Follows(shown[n], shown[n + 1])
        BY <1>2, <3>1
      <4>1. n = 1 => Follows(shown[n], shown[n + 1])
        BY <1>1, <1>2, <2>2, <3>1 DEF Ordered
      <4>2. n # 1 => Follows(shown[n], shown[n + 1])
        <5> SUFFICES ASSUME n # 1 PROVE Follows(shown[n], shown[n + 1])
          OBVIOUS
        <5>1. shown[n] = box[n - 1] /\ shown[n + 1] = box[n] /\ n - 1 \in 1 .. Len(box) - 1
          BY <1>2, <3>1
        <5>2. QED
          BY <1>1, <1>2, <5>1 DEF Ordered
      <4>3. QED
        BY <4>1, <4>2
    <3>4. QED
      BY <3>1, <3>2, <3>3
  <2>3. QED
    BY <2>1, <2>2
<1>4. \A n \in 2 .. Len(shown) : /\ shown[n].completed >= shown[n - 1].completed
                                 /\ shown[n - 1].status # "completed"
  <2> HIDE DEF shown
  <2> SUFFICES ASSUME NEW n \in 2 .. Len(shown) PROVE Follows(shown[n - 1], shown[n])
    BY DEF Follows
  <2>1. Len(shown) \in Nat
    BY <1>3
  <2>2. n - 1 \in 1 .. Len(shown) - 1 /\ (n - 1) + 1 = n
    BY <2>1
  <2>3. QED
    BY <1>3, <2>2
<1>5. QED
  BY <1>3, <1>4 DEF Honest

\* What a page shows and has in its mail agrees with the tasks and never goes back.
THEOREM ProgressKeptHonest == Spec => []ProgressHonest
<1>1. QED
  BY PlatformInvariant, MailHonest, PTL
=============================================================================
