---------------------------- MODULE PlatformSync ----------------------------
(***************************************************************************)
(* SyncAllHistoricalDataForPlatformUseCase and the admin page that starts  *)
(* it.  A click spawns a job, not linked to the page; the job works its    *)
(* items off in chunks, waits for every task of a chunk, and sends its     *)
(* progress to the page's mailbox.  What one task does is KlinesSync; here *)
(* it succeeds or fails.                                                   *)
(***************************************************************************)
EXTENDS Integers, Sequences, FiniteSets

CONSTANTS
  Views,           \* admin pages, each a process
  Jobs,            \* bound: processes that can be spawned
  Items,           \* pairs and intervals there may be
  MaxConcurrency,  \* tasks of a chunk: 5 in the code
  None             \* no page, and the page's progress before the first click

ASSUME PlatformConstants ==
  /\ IsFiniteSet(Jobs) /\ IsFiniteSet(Items)
  /\ MaxConcurrency \in Nat \ {0}
  /\ None \notin Views

VARIABLES
  open,      \* is the page open
  busy,      \* sync_in_progress
  progress,  \* sync_progress
  mailbox,   \* the page's messages
  phase,     \* where each job is
  owner,     \* progress_pid
  total,     \* how many items it listed
  left,      \* the items not yet in a chunk
  chunk,     \* the items of the current chunk
  result,    \* what their tasks returned
  counts     \* the accumulator: completed, successful and failed tasks

viewVars == <<open, busy, progress, mailbox>>
jobVars == <<phase, owner, total, left, chunk, result, counts>>
vars == <<viewVars, jobVars>>

Zero == [completed |-> 0, successful |-> 0, failed |-> 0]
Counts == [completed : Nat, successful : Nat, failed : Nat]
Message(status, n, c) ==
  [status |-> status, total |-> n, completed |-> c.completed,
   successful |-> c.successful, failed |-> c.failed]
Messages == [status : {"initializing", "started", "in_progress", "completed"},
             total : Nat, completed : Nat, successful : Nat, failed : Nat]

Init ==
  /\ open = [v \in Views |-> FALSE]
  /\ busy = [v \in Views |-> FALSE]
  /\ progress = [v \in Views |-> None]
  /\ mailbox = [v \in Views |-> <<>>]
  /\ phase = [j \in Jobs |-> "unborn"]
  /\ owner = [j \in Jobs |-> None]
  /\ total = [j \in Jobs |-> 0]
  /\ left = [j \in Jobs |-> {}]
  /\ chunk = [j \in Jobs |-> {}]
  /\ result = [j \in Jobs |-> [x \in Items |-> "none"]]
  /\ counts = [j \in Jobs |-> Zero]

-----------------------------------------------------------------------------
(* The page.                                                               *)

\* mount
Mount(v) ==
  /\ ~open[v]
  /\ open' = [open EXCEPT ![v] = TRUE]
  /\ busy' = [busy EXCEPT ![v] = FALSE]
  /\ progress' = [progress EXCEPT ![v] = None]
  /\ UNCHANGED <<mailbox, jobVars>>

\* The page is left or its process dies: its mailbox goes, the job does not,
\* and what the job sends from now on is dropped.
Leave(v) ==
  /\ open[v]
  /\ open' = [open EXCEPT ![v] = FALSE]
  /\ mailbox' = [mailbox EXCEPT ![v] = <<>>]
  /\ owner' = [j \in Jobs |-> IF owner[j] = v THEN None ELSE owner[j]]
  /\ UNCHANGED <<busy, progress, phase, total, left, chunk, result, counts>>

\* Mutation: the button is not guarded.
MayAlwaysClick(v) == open[v]
MayClick(v) == open[v] /\ ~busy[v]

\* handle_event "sync_historical_data"
Click(v) ==
  /\ MayClick(v)
  /\ \E j \in Jobs :
       /\ phase[j] = "unborn"
       /\ phase' = [phase EXCEPT ![j] = "listing"]
       /\ owner' = [owner EXCEPT ![j] = v]
  /\ busy' = [busy EXCEPT ![v] = TRUE]
  /\ progress' = [progress EXCEPT ![v] = Message("initializing", 0, Zero)]
  /\ UNCHANGED <<open, mailbox, total, left, chunk, result, counts>>

\* Mutations: progress of any kind ends the sync; none does.
BusyNever(message) == FALSE
BusyAlways(message) == TRUE
BusyAfter(message) == message.status # "completed"

\* handle_info {:sync_progress, progress}
Receive(v) ==
  /\ open[v] /\ mailbox[v] # <<>>
  /\ LET message == Head(mailbox[v]) IN
       /\ progress' = [progress EXCEPT ![v] = message]
       /\ busy' = [busy EXCEPT ![v] = BusyAfter(message)]
  /\ mailbox' = [mailbox EXCEPT ![v] = Tail(@)]
  /\ UNCHANGED <<open, jobVars>>

-----------------------------------------------------------------------------
(* The job.                                                                *)

\* send: a message to a page that is gone is dropped.
SendTo(v, message) ==
  mailbox' = IF v = None THEN mailbox ELSE [mailbox EXCEPT ![v] = Append(@, message)]

\* create_work_items and send_initial_progress
List(j) ==
  /\ phase[j] = "listing"
  /\ \E items \in SUBSET Items :
       /\ left' = [left EXCEPT ![j] = items]
       /\ total' = [total EXCEPT ![j] = Cardinality(items)]
       /\ SendTo(owner[j], Message("started", Cardinality(items), Zero))
  /\ phase' = [phase EXCEPT ![j] = "running"]
  /\ UNCHANGED <<open, busy, progress, owner, chunk, result, counts>>

\* The query raises: the job dies, and nobody is told.
ListRaises(j) ==
  /\ phase[j] = "listing"
  /\ phase' = [phase EXCEPT ![j] = "dead"]
  /\ UNCHANGED <<viewVars, owner, total, left, chunk, result, counts>>

\* Enum.chunk_every: the next items, as many as a chunk takes.  Mutation: all.
AllLeft(j) == {left[j]}
NextChunk(j) ==
  {c \in SUBSET left[j] : Cardinality(c) = IF Cardinality(left[j]) < MaxConcurrency
                                             THEN Cardinality(left[j]) ELSE MaxConcurrency}

StartChunk(j) ==
  /\ phase[j] = "running" /\ chunk[j] = {} /\ left[j] # {}
  /\ \E c \in NextChunk(j) :
       /\ chunk' = [chunk EXCEPT ![j] = c]
       /\ left' = [left EXCEPT ![j] = @ \ c]
  /\ UNCHANGED <<viewVars, phase, owner, total, result, counts>>

\* A task rescues whatever is raised or thrown in it, and returns.
EndTask(j, x) ==
  /\ x \in chunk[j] /\ result[j][x] = "none"
  /\ \E r \in {"ok", "error"} : result' = [result EXCEPT ![j][x] = r]
  /\ UNCHANGED <<viewVars, phase, owner, total, left, chunk, counts>>

Results(j, r) == {x \in chunk[j] : result[j][x] = r}

\* count_results and the accumulator.  Mutation: the last chunk counts as full.
AddFullChunk(j) ==
  [completed |-> counts[j].completed + MaxConcurrency,
   successful |-> counts[j].successful + Cardinality(Results(j, "ok")),
   failed |-> counts[j].failed + Cardinality(Results(j, "error"))]
AddChunk(j) ==
  [completed |-> counts[j].completed + Cardinality(chunk[j]),
   successful |-> counts[j].successful + Cardinality(Results(j, "ok")),
   failed |-> counts[j].failed + Cardinality(Results(j, "error"))]

\* Task.await of each task of the chunk, without a limit of time.
AwaitChunk(j) ==
  /\ phase[j] = "running" /\ chunk[j] # {}
  /\ \A x \in chunk[j] : result[j][x] # "none"
  /\ counts' = [counts EXCEPT ![j] = AddChunk(j)]
  /\ chunk' = [chunk EXCEPT ![j] = {}]
  /\ SendTo(owner[j], Message("in_progress", total[j], AddChunk(j)))
  /\ UNCHANGED <<open, busy, progress, phase, owner, total, left, result>>

\* send_completion_progress: all items count as completed.
Complete(j) ==
  /\ phase[j] = "running" /\ chunk[j] = {} /\ left[j] = {}
  /\ SendTo(owner[j], Message("completed", total[j],
                              [counts[j] EXCEPT !.completed = total[j]]))
  /\ phase' = [phase EXCEPT ![j] = "ended"]
  /\ UNCHANGED <<open, busy, progress, owner, total, left, chunk, result, counts>>

JobStep(j) ==
  \/ List(j)
  \/ ListRaises(j)
  \/ StartChunk(j)
  \/ \E x \in Items : EndTask(j, x)
  \/ AwaitChunk(j)
  \/ Complete(j)

Next ==
  \/ \E v \in Views : Mount(v) \/ Leave(v) \/ Click(v) \/ Receive(v)
  \/ \E j \in Jobs : JobStep(j)

Spec == Init /\ [][Next]_vars

(***************************************************************************)
(* Fairness: the scheduler of the BEAM runs every process that can run, so *)
(* a job goes on and a page handles its messages.  A task ends, since a    *)
(* request and a query have their own time limits.  Nobody has to open,    *)
(* leave or click a page.                                                  *)
(***************************************************************************)
Fairness ==
  /\ \A v \in Views : WF_vars(Receive(v))
  /\ \A j \in Jobs : WF_vars(JobStep(j))
  /\ \A j \in Jobs, x \in Items : WF_vars(EndTask(j, x))

FairSpec == Spec /\ Fairness

-----------------------------------------------------------------------------
(* Properties.                                                             *)

Alive(j) == phase[j] \in {"listing", "running"}

\* Every variable stays within the values the code can give it.
TypeOK ==
  /\ open \in [Views -> BOOLEAN] /\ busy \in [Views -> BOOLEAN]
  /\ progress \in [Views -> Messages \union {None}]
  /\ mailbox \in [Views -> Seq(Messages)]
  /\ phase \in [Jobs -> {"unborn", "listing", "running", "ended", "dead"}]
  /\ owner \in [Jobs -> Views \union {None}]
  /\ total \in [Jobs -> 0 .. Cardinality(Items)]
  /\ left \in [Jobs -> SUBSET Items] /\ chunk \in [Jobs -> SUBSET Items]
  /\ \A j \in Jobs : Cardinality(chunk[j]) <= MaxConcurrency
  /\ result \in [Jobs -> [Items -> {"none", "ok", "error"}]]
  /\ counts \in [Jobs -> Counts]

\* A page starts no second job while the first one lives, however late it reads
\* the messages of either.
OneJobPerView ==
  \A j, k \in Jobs :
    (j # k /\ owner[j] # None /\ owner[j] = owner[k]) => ~(Alive(j) /\ Alive(k))

\* What a page shows and what is on its way to it agree with the tasks: the
\* successes and the failures add up to the completed tasks, which never exceed
\* the total nor go down from one message of a job to the next, and reach it in
\* the last one.
ProgressHonest ==
  \A v \in Views : open[v] =>
    LET shown == IF progress[v] = None THEN mailbox[v] ELSE <<progress[v]>> \o mailbox[v] IN
    /\ \A n \in DOMAIN shown :
         /\ shown[n].completed = shown[n].successful + shown[n].failed
         /\ shown[n].completed <= shown[n].total
         /\ shown[n].status = "completed" => shown[n].completed = shown[n].total
    /\ \A n \in 2 .. Len(shown) :
         /\ shown[n].completed >= shown[n - 1].completed
         /\ shown[n - 1].status # "completed"

\* A job that has ended, or is between two chunks, has counted each task once.
ResultsCounted ==
  \A j \in Jobs : chunk[j] = {} =>
    /\ counts[j].successful = Cardinality({x \in Items : result[j][x] = "ok"})
    /\ counts[j].failed = Cardinality({x \in Items : result[j][x] = "error"})
    /\ counts[j].completed = total[j] - Cardinality(left[j])

\* A page that is busy gets free again, unless it is left or the listing of its
\* job raised: the job is not linked, and nothing tells the page.
BusyEnds ==
  \A v \in Views :
    busy[v] ~> (~busy[v] \/ ~open[v] \/ \E j \in Jobs : owner[j] = v /\ phase[j] = "dead")
=============================================================================
