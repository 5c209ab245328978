------------------------- MODULE StrategyPageProofs -------------------------
(***************************************************************************)
(* Proofs about StrategyPage, for any number of runners and simulations.   *)
(***************************************************************************)
EXTENDS StrategyPage, TLAPS, FiniteSetTheorems

\* Nothing exists before the page.
PageFirst ==
  state[Page] = "unborn" =>
    /\ \A x \in Procs : state[x] = "unborn"
    /\ remembered = None /\ overwritten = 0
    /\ timers = 0 /\ mailbox = <<>> /\ ~simulating

\* Only the page starts simulations, and they are nowhere before that.
SimsOfPage ==
  \A s \in Sims :
    starter[s] \in {Page, None} /\ (state[s] = "unborn" => at[s] = "none")

\* A simulation has started at most one runner, none before it says so, and
\* has stopped it before it replies.
OneRunner ==
  \A s \in Sims :
    /\ at[s] \in {"none", "starting"} => \A r \in Runners : starter[r] # s
    /\ \A q, r \in Runners : starter[q] = s /\ starter[r] = s => q = r
    /\ at[s] \in {"replying", "over"} =>
         \A r \in Runners : starter[r] = s => ~Alive(r)

\* The chain of refreshes is in a timer, or is one message.
Chain ==
  Alive(Page) =>
    \/ timers = 1 /\ \A i \in DOMAIN mailbox : mailbox[i] # "refresh"
    \/ /\ timers = 0
       /\ \E i \in DOMAIN mailbox :
            \A j \in DOMAIN mailbox : mailbox[j] = "refresh" <=> j = i

PInv ==
  /\ TypeOK
  /\ PageFirst
  /\ SimsOfPage
  /\ OneRunner
  /\ NoneUnwatched
  /\ SpinnerBacked
  /\ Chain
  /\ LostRunners

-----------------------------------------------------------------------------
LEMMA InitInv == Init => PInv
<1> SUFFICES ASSUME Init PROVE PInv
  OBVIOUS
<1> USE DEF Init
<1>1. TypeOK
  <2>1. ProcessTypes
    BY PageConstants DEF ProcessTypes, Procs
  <2>2. simulating \in BOOLEAN
    OBVIOUS
  <2>3. mailbox \in Seq({"refresh"} \union Sims)
    OBVIOUS
  <2>4. QED
    BY <2>1, <2>2, <2>3 DEF TypeOK
<1>2. PageFirst /\ SimsOfPage /\ NoneUnwatched /\ SpinnerBacked /\ Chain /\ LostRunners
  <2>1. \A x \in Procs : ~Alive(x)
    BY DEF Alive
  <2>2. QED
    BY <2>1 DEF PageFirst, SimsOfPage, NoneUnwatched, SpinnerBacked, Chain,
       LostRunners, Procs
<1>3. OneRunner
  BY PageConstants DEF OneRunner
<1>4. QED
  BY <1>1, <1>2, <1>3 DEF PInv

-----------------------------------------------------------------------------
(* Type correctness.                                                       *)

\* What happens to processes keeps their types.
LEMMA ProcessSteps ==
  ASSUME ProcessTypes, NEW x \in Procs
  PROVE  /\ Alive(x) /\ (Die(x) \/ EndNormally(x)) => ProcessTypes'
         /\ \A y \in Runners \union Sims :
              x \in {Page} \union Sims /\ (Spawn(x, y) \/ SpawnFails(x, y)) => ProcessTypes'
         /\ UNCHANGED process => ProcessTypes'
<1> USE DEF ProcessTypes
<1>1. Alive(x) /\ (Die(x) \/ EndNormally(x)) => ProcessTypes'
  BY DEF Alive, Die, EndNormally, Procs
<1>2. ASSUME NEW y \in Runners \union Sims, x \in {Page} \union Sims,
             Spawn(x, y) \/ SpawnFails(x, y)
      PROVE  ProcessTypes'
  <2>1. x # None
    BY PageConstants DEF Procs
  <2>2. QED
    BY <1>2, <2>1 DEF Spawn, SpawnFails, Procs
<1>3. UNCHANGED process => ProcessTypes'
  BY DEF process
<1>4. QED
  BY <1>1, <1>2, <1>3

LEMMA TypeStep ==
  ASSUME TypeOK, Next
  PROVE  TypeOK'
<1> USE DEF TypeOK, slot, inbox
<1>0. Page \in Procs /\ Page # None /\ Runners \union Sims \subseteq Procs
  BY PageConstants DEF Procs
<1>1. ASSUME NEW x \in Procs, ExitSignal(x) PROVE TypeOK'
  <2>1. ProcessTypes'
    BY <1>1, ProcessSteps DEF ExitSignal
  <2>2. QED
    BY <1>1, <2>1 DEF ExitSignal
<1>2. CASE Mount
  <2>1. ProcessTypes'
    BY <1>2, <1>0, PageConstants DEF Mount, ProcessTypes
  <2>2. QED
    BY <1>2, <2>1 DEF Mount
<1>3. CASE PageDies
  <2>1. ProcessTypes'
    BY <1>3, <1>0, ProcessSteps DEF PageDies
  <2>2. QED
    BY <1>3, <2>1 DEF PageDies
<1>4. CASE Fire
  <2>1. ProcessTypes'
    BY <1>4, <1>0, ProcessSteps DEF Fire
  <2>2. QED
    BY <1>4, <2>1 DEF Fire
<1>5. CASE Refresh
  <2>1. ProcessTypes'
    BY <1>5, <1>0, ProcessSteps DEF Refresh
  <2>2. saved' \subseteq Runners
    BY <1>5 DEF Refresh, ReadStatus
  <2>3. mailbox' \in Seq({"refresh"} \union Sims) /\ timers' \in Nat
    BY <1>5 DEF Refresh, ScheduleRefresh
  <2>4. QED
    BY <1>5, <2>1, <2>2, <2>3 DEF Refresh
<1>6. CASE Result
  <2>1. ProcessTypes'
    BY <1>6, <1>0, ProcessSteps DEF Result
  <2>2. mailbox' \in Seq({"refresh"} \union Sims)
    BY <1>6 DEF Result
  <2>3. simulating' \in BOOLEAN
    BY <1>6 DEF Result
  <2>4. QED
    BY <1>6, <2>1, <2>2, <2>3 DEF Result
<1>7. ASSUME NEW r \in Runners, StartStrategy(r) PROVE TypeOK'
  <2>1. ProcessTypes'
    BY <1>7, <1>0, ProcessSteps DEF StartStrategy
  <2>2. QED
    BY <1>7, <2>1 DEF StartStrategy
<1>8. ASSUME NEW r \in Runners, Execute(r) PROVE TypeOK'
  <2>1. ProcessTypes'
    BY <1>8, <1>0, ProcessSteps DEF Execute
  <2>2. QED
    BY <1>8, <2>1 DEF Execute
<1>9. CASE StopStrategy
  <2>1. ProcessTypes'
    BY <1>9, <1>0, ProcessSteps DEF StopStrategy, StopRunner
  <2>2. QED
    BY <1>9, <2>1 DEF StopStrategy
<1>10. CASE RunNow
  <2>1. ProcessTypes'
    BY <1>10, <1>0, ProcessSteps DEF RunNow
  <2>2. saved' \subseteq Runners
    BY <1>10 DEF RunNow, ReadStatus
  <2>3. QED
    BY <1>10, <2>1, <2>2 DEF RunNow
<1>11. ASSUME NEW s \in Sims, Simulate(s) PROVE TypeOK'
  <2>1. ProcessTypes'
    BY <1>11, <1>0, ProcessSteps DEF Simulate
  <2>2. simulating' \in BOOLEAN /\ at' \in [Sims -> {"none", "starting", "running", "replying", "over"}]
    BY <1>11 DEF Simulate
  <2>3. QED
    BY <1>11, <2>1, <2>2 DEF Simulate
<1>12. ASSUME NEW s \in Sims, SimStep(s) PROVE TypeOK'
  <2>1. ASSUME NEW r \in Runners, SimStart(s, r) PROVE TypeOK'
    <3>1. ProcessTypes'
      BY <2>1, <1>0, ProcessSteps DEF SimStart
    <3>2. QED
      BY <2>1, <3>1 DEF SimStart
  <2>2. CASE SimEnd(s)
    <3>1. ProcessTypes'
      BY <2>2, <1>0, ProcessSteps DEF SimEnd
    <3>2. QED
      BY <2>2, <3>1 DEF SimEnd
  <2>3. CASE SimReply(s)
    <3>1. ProcessTypes'
      BY <2>3, <1>0, ProcessSteps DEF SimReply, EndWithResult
    <3>2. mailbox' \in Seq({"refresh"} \union Sims)
      BY <2>3 DEF SimReply, EndWithResult
    <3>3. QED
      BY <2>3, <3>1, <3>2 DEF SimReply
  <2>4. QED
    BY <1>12, <2>1, <2>2, <2>3 DEF SimStep
<1>13. QED
  BY <1>1, <1>2, <1>3, <1>4, <1>5, <1>6, <1>7, <1>8, <1>9, <1>10, <1>11, <1>12 DEF Next

-----------------------------------------------------------------------------
(* Links.                                                                  *)

\* A death spares nobody who is linked; a normal end spares all, so it must
\* leave nobody behind; whoever is started has a living starter.
LEMMA LinksKept ==
  ASSUME ProcessTypes, NoneUnwatched, NEW x \in Procs, Alive(x)
  PROVE  /\ Die(x) => NoneUnwatched'
         /\ EndNormally(x) /\ (\A y \in Runners \union Sims : starter[y] = x => ~Alive(y))
              => NoneUnwatched'
         /\ \A y \in Runners \union Sims :
              Spawn(x, y) \/ SpawnFails(x, y) => NoneUnwatched'
<1> USE DEF ProcessTypes, NoneUnwatched, Alive
<1>0. Runners \union Sims \subseteq Procs
  BY DEF Procs
<1>1. ASSUME Die(x), NEW y \in Runners \union Sims, Alive(y)'
      PROVE  starter'[y] \in Procs /\ (Alive(starter[y])' \/ y \in doomed')
  <2>1. y # x /\ Alive(y) /\ starter' = starter
    BY <1>0, <1>1 DEF Die
  <2>2. CASE starter[y] = x
    BY <1>0, <1>1, <2>1, <2>2 DEF Die, Linked
  <2>3. CASE starter[y] # x
    BY <1>0, <1>1, <2>1, <2>3 DEF Die
  <2>4. QED
    BY <2>2, <2>3
<1>2. ASSUME EndNormally(x), \A y \in Runners \union Sims : starter[y] = x => ~Alive(y),
             NEW y \in Runners \union Sims, Alive(y)'
      PROVE  starter'[y] \in Procs /\ (Alive(starter[y])' \/ y \in doomed')
  BY <1>0, <1>2 DEF EndNormally
<1>3. ASSUME NEW z \in Runners \union Sims, Spawn(x, z) \/ SpawnFails(x, z),
             NEW y \in Runners \union Sims, Alive(y)'
      PROVE  starter'[y] \in Procs /\ (Alive(starter[y])' \/ y \in doomed')
  <2>1. CASE y = z
    BY <1>0, <1>3, <2>1 DEF Spawn, SpawnFails
  <2>2. CASE y # z
    BY <1>0, <1>3, <2>2 DEF Spawn, SpawnFails
  <2>3. QED
    BY <2>1, <2>2
<1>4. QED
  BY <1>1, <1>2, <1>3

\* Starting, dying and ending keep what is known of simulations and their
\* runners, as long as no simulation moves on.
LEMMA RunnersKept ==
  ASSUME ProcessTypes, SimsOfPage, OneRunner, NEW x \in Procs, UNCHANGED at
  PROVE  /\ Die(x) \/ EndNormally(x) => (SimsOfPage /\ OneRunner)'
         /\ \A y \in Runners \union Sims :
              Spawn(Page, y) \/ SpawnFails(Page, y) => (SimsOfPage /\ OneRunner)'
         /\ UNCHANGED process => (SimsOfPage /\ OneRunner)'
<1> USE DEF ProcessTypes, SimsOfPage, OneRunner, Alive
<1>1. Die(x) \/ EndNormally(x) => (SimsOfPage /\ OneRunner)'
  BY DEF Die, EndNormally, Procs
<1>2. ASSUME NEW y \in Runners \union Sims, Spawn(Page, y) \/ SpawnFails(Page, y)
      PROVE  (SimsOfPage /\ OneRunner)'
  <2>1. \A z \in Runners \union Sims : starter'[z] = IF z = y THEN Page ELSE starter[z]
    BY <1>2 DEF Spawn, SpawnFails
  <2>2. /\ \A z \in Runners \union Sims : z # y => state'[z] = state[z]
        /\ state'[y] # "unborn"
    BY <1>2 DEF Spawn, SpawnFails, Procs
  <2>3. \A s \in Sims : s # Page
    BY PageConstants
  <2>4. SimsOfPage'
    BY <2>1, <2>2
  <2>5. OneRunner'
    BY <2>1, <2>2, <2>3
  <2>6. QED
    BY <2>4, <2>5
<1>3. UNCHANGED process => (SimsOfPage /\ OneRunner)'
  BY DEF process
<1>4. QED
  BY <1>1, <1>2, <1>3

\* Who has started what, over every step.
LEMMA StarterStep ==
  ASSUME TypeOK, SimsOfPage, OneRunner, NoneUnwatched, Next
  PROVE  (SimsOfPage /\ OneRunner /\ NoneUnwatched)'
<1> USE DEF TypeOK
<1>0. /\ Page \in Procs /\ Page # None /\ Runners \union Sims \subseteq Procs
      /\ Page \notin Runners \union Sims /\ Runners \intersect Sims = {}
      /\ None \notin Runners \union Sims
  BY PageConstants DEF Procs
<1>1. ASSUME NEW x \in Procs, Alive(x), Die(x), UNCHANGED at
      PROVE  (SimsOfPage /\ OneRunner /\ NoneUnwatched)'
  BY <1>1, LinksKept, RunnersKept
<1>2. ASSUME UNCHANGED <<process, at>>
      PROVE  (SimsOfPage /\ OneRunner /\ NoneUnwatched)'
  BY <1>0, <1>2, RunnersKept DEF process, NoneUnwatched, Alive
<1>3. ASSUME NEW x \in Procs, ExitSignal(x) PROVE (SimsOfPage /\ OneRunner /\ NoneUnwatched)'
  BY <1>1, <1>3 DEF ExitSignal
<1>4. CASE Mount
  BY <1>0, <1>4 DEF Mount, NoneUnwatched, SimsOfPage, OneRunner, Alive, ProcessTypes
<1>5. CASE PageDies
  BY <1>0, <1>1, <1>5 DEF PageDies
<1>6. CASE Fire \/ Refresh \/ Result \/ RunNow
  BY <1>2, <1>6 DEF Fire, Refresh, Result, RunNow, process
<1>7. ASSUME NEW r \in Runners, StartStrategy(r)
      PROVE  (SimsOfPage /\ OneRunner /\ NoneUnwatched)'
  BY <1>0, <1>7, LinksKept, RunnersKept DEF StartStrategy
<1>8. ASSUME NEW r \in Runners, Execute(r)
      PROVE  (SimsOfPage /\ OneRunner /\ NoneUnwatched)'
  BY <1>0, <1>1, <1>2, <1>8 DEF Execute
<1>9. CASE StopStrategy
  <2>1. CASE UNCHANGED process
    BY <1>2, <1>9, <2>1 DEF StopStrategy
  <2>2. CASE remembered # None /\ Alive(remembered) /\ EndNormally(remembered)
    <3>1. remembered \in Runners /\ \A y \in Runners \union Sims : starter[y] # remembered
      BY <1>0, <2>2 DEF ProcessTypes
    <3>2. QED
      BY <1>0, <1>9, <2>2, <3>1, LinksKept, RunnersKept DEF StopStrategy
  <2>3. QED
    BY <1>9, <2>1, <2>2 DEF StopStrategy, StopRunner
<1>10. ASSUME NEW s \in Sims, Simulate(s)
       PROVE  (SimsOfPage /\ OneRunner /\ NoneUnwatched)'
  <2>1. NoneUnwatched'
    BY <1>0, <1>10, LinksKept DEF Simulate
  <2>2. /\ state' = [state EXCEPT ![s] = "alive"]
        /\ starter' = [starter EXCEPT ![s] = Page]
        /\ at' = [at EXCEPT ![s] = "starting"] /\ state[s] = "unborn"
    BY <1>10 DEF Simulate, Spawn
  <2>3. \A r \in Runners : starter[r] # s
    BY <2>2 DEF SimsOfPage, OneRunner
  <2>4. QED
    BY <1>0, <2>1, <2>2, <2>3 DEF SimsOfPage, OneRunner, ProcessTypes, Alive
<1>11. ASSUME NEW s \in Sims, NEW r \in Runners, SimStart(s, r)
       PROVE  (SimsOfPage /\ OneRunner /\ NoneUnwatched)'
  <2>1. NoneUnwatched'
    BY <1>0, <1>11, LinksKept DEF SimStart
  <2>2. /\ starter' = [starter EXCEPT ![r] = s]
        /\ \A z \in Procs : z # r => state'[z] = state[z]
        /\ at' = [at EXCEPT ![s] = "running"] /\ at[s] = "starting"
        /\ starter[r] = None
    BY <1>0, <1>11 DEF SimStart, Spawn, SpawnFails, ProcessTypes
  <2>3. SimsOfPage'
    BY <1>0, <2>2, <1>11 DEF SimsOfPage, ProcessTypes, SimStart, Alive
  <2>4. OneRunner'
    BY <1>0, <2>2 DEF OneRunner, ProcessTypes, Alive
  <2>5. QED
    BY <2>1, <2>3, <2>4
<1>12. ASSUME NEW s \in Sims, SimEnd(s)
       PROVE  (SimsOfPage /\ OneRunner /\ NoneUnwatched)'
  <2>1. CASE Die(s) /\ UNCHANGED at
    BY <1>0, <1>1, <1>12, <2>1 DEF SimEnd
  <2>2. ASSUME NEW r \in Runners, starter[r] = s, Alive(r), EndNormally(r),
               at' = [at EXCEPT ![s] = "replying"]
        PROVE  (SimsOfPage /\ OneRunner /\ NoneUnwatched)'
    <3>1. \A y \in Runners \union Sims : starter[y] # r
      BY <1>0 DEF ProcessTypes
    <3>2. NoneUnwatched'
      BY <1>0, <2>2, <3>1, LinksKept
    <3>3. state' = [state EXCEPT ![r] = "dead"] /\ starter' = starter
      BY <2>2 DEF EndNormally
    <3>4. SimsOfPage'
      BY <1>0, <1>12, <2>2, <3>3 DEF SimsOfPage, ProcessTypes, SimEnd, Alive
    <3>5. OneRunner'
      BY <1>0, <1>12, <2>2, <3>3 DEF OneRunner, ProcessTypes, SimEnd, Alive
    <3>6. QED
      BY <3>2, <3>4, <3>5
  <2>3. QED
    BY <1>12, <2>1, <2>2 DEF SimEnd
<1>13. ASSUME NEW s \in Sims, SimReply(s)
       PROVE  (SimsOfPage /\ OneRunner /\ NoneUnwatched)'
  <2>1. /\ Alive(s) /\ EndNormally(s) /\ at[s] = "replying"
        /\ at' = [at EXCEPT ![s] = "over"]
    BY <1>13 DEF SimReply, EndWithResult
  <2>2. \A y \in Runners \union Sims : starter[y] = s => ~Alive(y)
    BY <1>0, <2>1 DEF SimsOfPage, OneRunner
  <2>3. NoneUnwatched'
    BY <1>0, <2>1, <2>2, LinksKept
  <2>4. SimsOfPage'
    BY <1>0, <2>1 DEF SimsOfPage, ProcessTypes, EndNormally, Alive
  <2>5. OneRunner'
    BY <1>0, <2>1 DEF OneRunner, ProcessTypes, EndNormally, Alive
  <2>6. QED
    BY <2>3, <2>4, <2>5
<1>14. QED
  BY <1>3, <1>4, <1>5, <1>6, <1>7, <1>8, <1>9, <1>10, <1>11, <1>12, <1>13 DEF Next, SimStep

-----------------------------------------------------------------------------
(* The page's spinner and its timers.                                      *)

\* Only Mount brings the page to life, and nothing is unborn again.
LEMMA PageStep ==
  ASSUME TypeOK, PageFirst, Next
  PROVE  PageFirst' /\ (Alive(Page)' => Alive(Page) \/ Mount)
<1> USE DEF Alive
<1>0. Page \in Procs /\ Runners \union Sims \subseteq Procs
      /\ Page \notin Runners \union Sims
  BY PageConstants DEF Procs
<1>1. CASE state[Page] = "unborn"
  <2>1. /\ \A x \in Procs : ~Alive(x)
        /\ remembered = None
    BY <1>1 DEF PageFirst
  <2>2. Mount
    BY <1>0, <2>1 DEF Next, ExitSignal, PageDies, Fire, Refresh, Result, StartStrategy,
       Execute, StopStrategy, RunNow, Simulate, SimStep, SimStart, SimEnd, SimReply
  <2>3. state'[Page] # "unborn"
    BY <1>0, <2>2 DEF Mount, TypeOK, ProcessTypes
  <2>4. PageFirst'
    BY <2>3 DEF PageFirst
  <2>5. QED
    BY <2>2, <2>4
<1>2. CASE state[Page] # "unborn"
  <2> DEFINE Kept == state'[Page] # "unborn" /\ (Alive(Page)' => Alive(Page))
  <2>1. ASSUME NEW x \in Procs, Die(x) \/ EndNormally(x)
        PROVE  Kept
    BY <1>0, <1>2, <2>1 DEF Die, EndNormally, TypeOK, ProcessTypes
  <2>2. ASSUME NEW x, NEW y \in Runners \union Sims, Spawn(x, y) \/ SpawnFails(x, y)
        PROVE  Kept
    BY <1>0, <1>2, <2>2 DEF Spawn, SpawnFails, TypeOK, ProcessTypes
  <2>3. ASSUME UNCHANGED process
        PROVE  Kept
    BY <1>2, <2>3 DEF process
  <2>4. ~Mount
    BY <1>2 DEF Mount
  <2>5. ASSUME NEW x \in Procs, ExitSignal(x)
        PROVE  Kept
    BY <2>1, <2>5 DEF ExitSignal
  <2>6. PageDies => Kept
    BY <1>0, <2>1 DEF PageDies
  <2>7. Fire \/ Refresh \/ Result \/ RunNow => Kept
    BY <2>3 DEF Fire, Refresh, Result, RunNow
  <2>8. ASSUME NEW r \in Runners, StartStrategy(r) \/ Execute(r)
        PROVE  Kept
    BY <1>0, <2>1, <2>2, <2>3, <2>8 DEF StartStrategy, Execute
  <2>9. StopStrategy => Kept
    BY <1>0, <2>1, <2>3 DEF StopStrategy, StopRunner, TypeOK
  <2>10. ASSUME NEW s \in Sims, Simulate(s) \/ SimStep(s)
         PROVE  Kept
    BY <1>0, <2>1, <2>2, <2>10 DEF Simulate, SimStep, SimStart, SimEnd, SimReply, EndWithResult
  <2>11. Kept
    BY <2>4, <2>5, <2>6, <2>7, <2>8, <2>9, <2>10 DEF Next
  <2>12. PageFirst'
    BY <2>11 DEF PageFirst
  <2>13. QED
    BY <2>11, <2>12
<1>3. QED
  BY <1>1, <1>2

\* The spinner: a simulation that dies takes the page with it, one that ends
\* has put its result into the mailbox.
LEMMA SpinnerStep ==
  ASSUME TypeOK, PageFirst, SimsOfPage, SpinnerBacked, Next
  PROVE  SpinnerBacked'
<1> DEFINE Busy(s) == Alive(s) \/ s \in {mailbox[i] : i \in DOMAIN mailbox}
<1> SUFFICES ASSUME simulating', Alive(Page)', Page \notin doomed'
             PROVE  \E s \in Sims : Busy(s)'
  BY DEF SpinnerBacked
<1>0. /\ Page \in Procs /\ Runners \union Sims \subseteq Procs
      /\ Page \notin Runners \union Sims /\ Runners \intersect Sims = {}
      /\ "refresh" \notin Sims /\ None # Page
  BY PageConstants DEF Procs
<1>1. ~Mount
  <2>1. CASE Mount
    BY <2>1 DEF Mount, PageFirst
  <2>2. QED
    BY <2>1
<1>2. Alive(Page)
  BY <1>1, PageStep
<1>3. mailbox \in Seq({"refresh"} \union Sims)
  BY DEF TypeOK
<1>4. ASSUME NEW x \in Procs, Alive(x), Die(x), UNCHANGED <<mailbox, simulating>>
      PROVE  \E s \in Sims : Busy(s)'
  <2>1. x # Page /\ Page \notin doomed
    BY <1>0, <1>4 DEF Die, Alive, TypeOK, ProcessTypes
  <2>2. PICK s \in Sims : Busy(s)
    BY <1>2, <1>4, <2>1 DEF SpinnerBacked
  <2>3. x \notin Sims
    <3>1. CASE x \in Sims
      <4>1. starter[x] = Page
        BY <1>4, <3>1 DEF SimsOfPage, TypeOK, ProcessTypes, Alive
      <4>2. Page \in doomed'
        BY <1>0, <1>2, <1>4, <2>1, <3>1, <4>1 DEF Die, Linked
      <4>3. QED
        BY <4>2
    <3>2. QED
      BY <3>1
  <2>4. Busy(s)'
    BY <1>0, <1>4, <2>2, <2>3 DEF Die, Alive, TypeOK, ProcessTypes
  <2>5. QED
    BY <2>4
<1>5. ASSUME NEW x \in Runners, EndNormally(x), UNCHANGED <<mailbox, simulating>>
      PROVE  \E s \in Sims : Busy(s)'
  <2>1. Page \notin doomed
    BY <1>0, <1>5 DEF EndNormally
  <2>2. PICK s \in Sims : Busy(s)
    BY <1>2, <1>5, <2>1 DEF SpinnerBacked
  <2>3. Busy(s)'
    BY <1>0, <1>5, <2>2 DEF EndNormally, Alive, TypeOK, ProcessTypes
  <2>4. QED
    BY <2>3
<1>6. ASSUME NEW x, NEW y \in Runners, Spawn(x, y) \/ SpawnFails(x, y),
             UNCHANGED <<mailbox, simulating>>
      PROVE  \E s \in Sims : Busy(s)'
  <2>1. Page \notin doomed
    BY <1>6 DEF Spawn, SpawnFails
  <2>2. PICK s \in Sims : Busy(s)
    BY <1>2, <1>6, <2>1 DEF SpinnerBacked
  <2>3. Busy(s)'
    BY <1>0, <1>6, <2>2 DEF Spawn, SpawnFails, Alive, TypeOK, ProcessTypes
  <2>4. QED
    BY <2>3
<1>7. ASSUME UNCHANGED <<process, mailbox, simulating>>
      PROVE  \E s \in Sims : Busy(s)'
  <2>1. PICK s \in Sims : Busy(s)
    BY <1>2, <1>7 DEF SpinnerBacked, process
  <2>2. Busy(s)'
    BY <1>7, <2>1 DEF process, Alive
  <2>3. QED
    BY <2>2
<1>8. ASSUME NEW x \in Procs, ExitSignal(x) PROVE \E s \in Sims : Busy(s)'
  BY <1>4, <1>8 DEF ExitSignal, inbox
<1>9. CASE PageDies
  BY <1>0, <1>4, <1>9 DEF PageDies, inbox
<1>10. CASE Fire
  <2>1. PICK s \in Sims : Busy(s)
    BY <1>2, <1>10 DEF Fire, SpinnerBacked, process
  <2>2. Busy(s)'
    BY <1>3, <1>10, <2>1 DEF Fire, process, Alive
  <2>3. QED
    BY <2>2
<1>11. CASE Refresh
  <2>1. PICK s \in Sims : Busy(s)
    BY <1>2, <1>11 DEF Refresh, SpinnerBacked, process
  <2>2. ASSUME NEW i \in DOMAIN mailbox, mailbox[i] = s
        PROVE  i - 1 \in DOMAIN mailbox' /\ mailbox'[i - 1] = s
    BY <1>0, <1>3, <1>11, <2>2 DEF Refresh
  <2>3. Busy(s)'
    BY <1>11, <2>1, <2>2 DEF Refresh, process, Alive
  <2>4. QED
    BY <2>3
<1>12. CASE Result
  BY <1>12 DEF Result
<1>13. CASE RunNow
  BY <1>7, <1>13 DEF RunNow, inbox
<1>14. ASSUME NEW r \in Runners, StartStrategy(r) \/ Execute(r)
       PROVE  \E s \in Sims : Busy(s)'
  BY <1>0, <1>4, <1>6, <1>7, <1>14 DEF StartStrategy, Execute, inbox
<1>15. CASE StopStrategy
  BY <1>5, <1>7, <1>15 DEF StopStrategy, StopRunner, inbox, TypeOK
<1>16. ASSUME NEW s \in Sims, Simulate(s) PROVE \E t \in Sims : Busy(t)'
  <2>1. Alive(s)'
    BY <1>0, <1>16 DEF Simulate, Spawn, Alive, TypeOK, ProcessTypes
  <2>2. QED
    BY <2>1
<1>17. ASSUME NEW s \in Sims, SimStep(s) PROVE \E t \in Sims : Busy(t)'
  <2>1. ASSUME NEW r \in Runners, SimStart(s, r) PROVE \E t \in Sims : Busy(t)'
    BY <1>6, <2>1 DEF SimStart, inbox
  <2>2. CASE SimEnd(s)
    BY <1>0, <1>4, <1>5, <2>2 DEF SimEnd, inbox
  <2>3. CASE SimReply(s)
    <3>1. mailbox' = Append(mailbox, s)
      BY <1>2, <2>3 DEF SimReply, EndWithResult
    <3>2. Len(mailbox) + 1 \in DOMAIN mailbox' /\ mailbox'[Len(mailbox) + 1] = s
      BY <1>3, <3>1
    <3>3. QED
      BY <3>2
  <2>4. QED
    BY <1>17, <2>1, <2>2, <2>3 DEF SimStep
<1>18. QED
  BY <1>1, <1>8, <1>9, <1>10, <1>11, <1>12, <1>13, <1>14, <1>15, <1>16, <1>17 DEF Next

\* A refresh leaves its timer for the mailbox, and the mailbox for the next
\* timer; results before or behind it do not touch it.
LEMMA ChainStep ==
  ASSUME TypeOK, PageFirst, Chain, Next
  PROVE  Chain'
<1> SUFFICES ASSUME Alive(Page)' PROVE Chain'
  BY DEF Chain
<1>0. "refresh" \notin Sims /\ mailbox \in Seq({"refresh"} \union Sims) /\ timers \in Nat
  BY PageConstants DEF TypeOK
<1>1. CASE Mount
  <2>1. mailbox' = <<>> /\ timers' = 1
    BY <1>1 DEF Mount, PageFirst
  <2>2. QED
    BY <2>1 DEF Chain
<1>2. CASE ~Mount /\ UNCHANGED inbox
  <2>1. Alive(Page)
    BY <1>2, PageStep
  <2>2. QED
    BY <1>2, <2>1 DEF Chain, inbox
<1>3. CASE Fire
  <2>1. Alive(Page) /\ timers = 1 /\ \A i \in DOMAIN mailbox : mailbox[i] # "refresh"
    BY <1>0, <1>3 DEF Fire, Chain
  <2>2. timers' = 0 /\ mailbox' = Append(mailbox, "refresh")
    BY <1>3, <2>1 DEF Fire
  <2>3. /\ Len(mailbox) + 1 \in DOMAIN mailbox'
        /\ \A j \in DOMAIN mailbox' : mailbox'[j] = "refresh" <=> j = Len(mailbox) + 1
    BY <1>0, <2>1, <2>2
  <2>4. QED
    BY <2>2, <2>3 DEF Chain
<1>4. CASE Refresh
  <2>1. /\ Alive(Page) /\ mailbox # <<>> /\ Head(mailbox) = "refresh"
        /\ mailbox' = Tail(mailbox) /\ timers' = timers + 1
    BY <1>4 DEF Refresh, ScheduleRefresh
  <2>2. 1 \in DOMAIN mailbox /\ mailbox[1] = "refresh"
    BY <1>0, <2>1
  <2>3. timers = 0 /\ \A j \in DOMAIN mailbox : mailbox[j] = "refresh" => j = 1
    BY <2>1, <2>2 DEF Chain
  <2>4. timers' = 1 /\ \A j \in DOMAIN mailbox' : mailbox'[j] # "refresh"
    BY <1>0, <2>1, <2>3
  <2>5. QED
    BY <2>4 DEF Chain
<1>5. CASE Result
  <2>1. /\ Alive(Page) /\ mailbox # <<>> /\ Head(mailbox) \in Sims
        /\ mailbox' = Tail(mailbox) /\ timers' = timers
    BY <1>5 DEF Result
  <2>2. mailbox[1] # "refresh"
    BY <1>0, <2>1
  <2>3. CASE timers = 1 /\ \A i \in DOMAIN mailbox : mailbox[i] # "refresh"
    <3>1. \A i \in DOMAIN mailbox' : mailbox'[i] # "refresh"
      BY <1>0, <2>1, <2>3
    <3>2. QED
      BY <2>1, <2>3, <3>1 DEF Chain
  <2>4. ASSUME timers = 0, NEW i \in DOMAIN mailbox,
               \A j \in DOMAIN mailbox : mailbox[j] = "refresh" <=> j = i
        PROVE  Chain'
    <3>1. /\ i - 1 \in DOMAIN mailbox'
          /\ \A j \in DOMAIN mailbox' : mailbox'[j] = "refresh" <=> j = i - 1
      BY <1>0, <2>1, <2>2, <2>4
    <3>2. QED
      BY <2>1, <2>4, <3>1 DEF Chain
  <2>5. QED
    BY <2>1, <2>3, <2>4 DEF Chain
<1>6. ASSUME NEW s \in Sims, SimReply(s) PROVE Chain'
  <2>1. Alive(Page)
    <3>1. ~Mount
      BY <1>6 DEF SimReply, Mount, PageFirst, Procs
    <3>2. QED
      BY <3>1, PageStep
  <2>2. mailbox' = Append(mailbox, s) /\ timers' = timers
    BY <1>6, <2>1 DEF SimReply, EndWithResult
  <2>3. /\ DOMAIN mailbox' = DOMAIN mailbox \union {Len(mailbox) + 1}
        /\ \A j \in DOMAIN mailbox : mailbox'[j] = mailbox[j]
        /\ mailbox'[Len(mailbox) + 1] # "refresh"
    BY <1>0, <2>2
  <2>4. QED
    BY <2>1, <2>2, <2>3 DEF Chain
<1>7. QED
  <2>1. CASE UNCHANGED inbox
    BY <1>1, <1>2, <2>1
  <2>2. ASSUME NEW s \in Sims, SimStep(s) PROVE Chain'
    BY <1>6, <2>1, <2>2 DEF SimStep, SimStart, SimEnd, inbox
  <2>3. ASSUME NEW x \in Procs, ExitSignal(x) PROVE Chain'
    BY <2>1, <2>3 DEF ExitSignal
  <2>4. ASSUME NEW r \in Runners, StartStrategy(r) \/ Execute(r) PROVE Chain'
    BY <2>1, <2>4 DEF StartStrategy, Execute
  <2>5. ASSUME NEW s \in Sims, Simulate(s) PROVE Chain'
    BY <2>1, <2>5 DEF Simulate
  <2>6. CASE PageDies \/ StopStrategy \/ RunNow
    BY <2>1, <2>6 DEF PageDies, StopStrategy, RunNow
  <2>7. QED
    BY <1>1, <1>3, <1>4, <1>5, <2>2, <2>3, <2>4, <2>5, <2>6 DEF Next

LEMMA ChainCounts == TypeOK /\ Chain => OneRefreshChain
<1> SUFFICES ASSUME TypeOK, Chain, Alive(Page) PROVE timers + Cardinality(Refreshes) = 1
  BY DEF OneRefreshChain
<1>1. CASE timers = 1 /\ \A i \in DOMAIN mailbox : mailbox[i] # "refresh"
  <2>1. Refreshes = {}
    BY <1>1 DEF Refreshes
  <2>2. QED
    BY <1>1, <2>1, FS_EmptySet
<1>2. ASSUME timers = 0, NEW i \in DOMAIN mailbox,
             \A j \in DOMAIN mailbox : mailbox[j] = "refresh" <=> j = i
      PROVE  timers + Cardinality(Refreshes) = 1
  <2>1. Refreshes = {i}
    BY <1>2 DEF Refreshes
  <2>2. Cardinality({i}) = 1
    BY FS_Singleton
  <2>3. QED
    BY <1>2, <2>1, <2>2
<1>3. QED
  BY <1>1, <1>2 DEF Chain

-----------------------------------------------------------------------------
(* The runners the page has lost sight of.                                 *)

\* A second start adds the runner remembered so far to those out of reach; a
\* death the page would have to know of kills the page.
LEMMA LostStep ==
  ASSUME TypeOK, PageFirst, LostRunners, Next
  PROVE  LostRunners'
<1> DEFINE Good == /\ remembered \in Own \union {None}
                   /\ Cardinality(Own \ {remembered}) = overwritten
<1> SUFFICES ASSUME Alive(Page)', Page \notin doomed' PROVE Good'
  BY DEF LostRunners
<1>0. /\ Page \in Procs /\ Runners \union Sims \subseteq Procs
      /\ Page \notin Runners \union Sims /\ Runners \intersect Sims = {}
      /\ None \notin Runners
  BY PageConstants DEF Procs
<1>1. CASE Mount
  <2>1. state[Page] = "unborn"
    BY <1>1 DEF Mount
  <2>2. \A r \in Runners : ~Alive(r)'
    BY <1>0, <1>1, <2>1 DEF Mount, PageFirst, Alive, TypeOK, ProcessTypes
  <2>3. Own' = {}
    BY <2>2 DEF Own
  <2>4. remembered' = None /\ overwritten' = 0
    BY <1>1, <2>1 DEF Mount, slot, PageFirst
  <2>5. Own' \ {remembered'} = {}
    BY <2>3
  <2>6. Cardinality({}) = 0
    BY FS_EmptySet
  <2>7. QED
    BY <2>4, <2>5, <2>6
<1>2. ASSUME Alive(Page), Page \notin doomed, Own' = Own, UNCHANGED slot
      PROVE  Good'
  BY <1>2 DEF LostRunners, slot
<1>3. ASSUME ~Mount PROVE Alive(Page)
  BY <1>3, PageStep
<1>4. ASSUME NEW x \in Procs, Alive(x), Die(x), ~Mount, UNCHANGED slot PROVE Good'
  <2>1. x # Page /\ Page \notin doomed
    BY <1>0, <1>4 DEF Die, Alive, TypeOK, ProcessTypes
  <2>2. x \notin Own
    <3>1. CASE x \in Own
      <4>1. Page \in doomed'
        BY <1>0, <1>3, <1>4, <2>1, <3>1 DEF Own, Die, Linked
      <4>2. QED
        BY <4>1
    <3>2. QED
      BY <3>1
  <2>3. Own' = Own
    BY <1>0, <1>4, <2>2 DEF Own, Die, Alive, TypeOK, ProcessTypes
  <2>4. QED
    BY <1>2, <1>3, <1>4, <2>1, <2>3
<1>5. ASSUME NEW x \in Runners \union Sims, EndNormally(x), x \notin Own, ~Mount, UNCHANGED slot
      PROVE  Good'
  <2>1. Page \notin doomed
    BY <1>0, <1>5 DEF EndNormally
  <2>2. Own' = Own
    BY <1>0, <1>5 DEF Own, EndNormally, Alive, TypeOK, ProcessTypes
  <2>3. QED
    BY <1>2, <1>3, <1>5, <2>1, <2>2
<1>6. ASSUME NEW x, NEW y \in Runners \union Sims, Spawn(x, y) \/ SpawnFails(x, y),
             x # Page \/ y \in Sims, ~Mount, UNCHANGED slot
      PROVE  Good'
  <2>1. Page \notin doomed
    BY <1>6 DEF Spawn, SpawnFails
  <2>2. Own' = Own
    BY <1>0, <1>6 DEF Own, Spawn, SpawnFails, Alive, TypeOK, ProcessTypes
  <2>3. QED
    BY <1>2, <1>3, <1>6, <2>1, <2>2
<1>7. ASSUME UNCHANGED <<process, slot>>, ~Mount PROVE Good'
  BY <1>2, <1>3, <1>7 DEF process, Own, Alive
<1>8. ASSUME ~Mount PROVE IsFiniteSet(Own) /\ Own \subseteq Runners
  BY PageConstants, FS_Subset DEF Own
<1>9. ASSUME NEW r \in Runners, StartStrategy(r), ~Mount PROVE Good'
  <2>1. SpawnFails(Page, r) => FALSE
    BY DEF SpawnFails
  <2>2. /\ Spawn(Page, r) /\ remembered' = r
        /\ overwritten' = overwritten + (IF remembered = None THEN 0 ELSE 1)
    BY <1>9, <2>1 DEF StartStrategy
  <2>3. Page \notin doomed /\ r \notin Own
    BY <1>0, <2>2 DEF Spawn, Own, Alive
  <2>4. Own' = Own \union {r}
    BY <1>0, <2>2 DEF Spawn, Own, Alive, TypeOK, ProcessTypes
  <2>5. Own' \ {remembered'} = Own
    BY <2>2, <2>3, <2>4
  <2>6. Good
    BY <1>3, <1>9, <2>3 DEF LostRunners
  <2>7. Cardinality(Own) = overwritten'
    <3>1. CASE remembered = None
      <4>1. Own \ {remembered} = Own
        BY <1>0, <3>1 DEF Own
      <4>2. overwritten' = overwritten
        BY <2>2, <3>1 DEF TypeOK
      <4>3. QED
        BY <2>6, <4>1, <4>2
    <3>2. CASE remembered # None
      <4>1. remembered \in Own
        BY <2>6, <3>2
      <4>2. Cardinality(Own \ {remembered}) = Cardinality(Own) - 1 /\ Cardinality(Own) \in Nat
        BY <1>8, <1>9, <4>1, FS_RemoveElement, FS_CardinalityType
      <4>3. overwritten' = overwritten + 1 /\ overwritten \in Nat
        BY <2>2, <3>2 DEF TypeOK
      <4>4. QED
        BY <2>6, <4>2, <4>3
    <3>3. QED
      BY <3>1, <3>2
  <2>8. QED
    BY <2>2, <2>4, <2>5, <2>7
<1>10. ASSUME StopStrategy, ~Mount PROVE Good'
  <2>1. CASE UNCHANGED <<process, remembered>>
    BY <1>7, <1>10, <2>1 DEF StopStrategy, slot
  <2>2. CASE remembered # None /\ EndNormally(remembered) /\ remembered' = None
    <3>1. Page \notin doomed
      BY <1>0, <2>2 DEF EndNormally, TypeOK
    <3>2. Good
      BY <1>3, <1>10, <3>1 DEF LostRunners
    <3>3. Own' = Own \ {remembered}
      BY <1>0, <2>2 DEF Own, EndNormally, Alive, TypeOK, ProcessTypes
    <3>4. Own' \ {remembered'} = Own \ {remembered}
      BY <1>0, <2>2, <3>3 DEF Own
    <3>5. QED
      BY <1>10, <2>2, <3>2, <3>4 DEF StopStrategy
  <2>3. QED
    BY <1>10, <2>1, <2>2 DEF StopStrategy, StopRunner
<1>11. ASSUME NEW s \in Sims, SimStep(s), ~Mount PROVE Good'
  <2>1. ASSUME NEW r \in Runners, SimStart(s, r) PROVE Good'
    BY <1>0, <1>6, <1>11, <2>1 DEF SimStart
  <2>2. CASE SimEnd(s)
    <3>1. ASSUME NEW r \in Runners, starter[r] = s, EndNormally(r) PROVE Good'
      BY <1>0, <1>5, <1>11, <2>2, <3>1 DEF SimEnd, Own
    <3>2. QED
      BY <1>0, <1>4, <1>11, <2>2, <3>1 DEF SimEnd
  <2>3. CASE SimReply(s)
    BY <1>0, <1>5, <1>11, <2>3 DEF SimReply, EndWithResult, Own
  <2>4. QED
    BY <1>11, <2>1, <2>2, <2>3 DEF SimStep
<1>12. QED
  <2>1. ASSUME NEW x \in Procs, ExitSignal(x), ~Mount PROVE Good'
    BY <1>4, <2>1 DEF ExitSignal
  <2>2. ASSUME PageDies, ~Mount PROVE Good'
    BY <1>0, <1>4, <2>2 DEF PageDies
  <2>3. ASSUME Fire \/ Refresh \/ Result \/ RunNow, ~Mount PROVE Good'
    BY <1>7, <2>3 DEF Fire, Refresh, Result, RunNow
  <2>4. ASSUME NEW r \in Runners, Execute(r), ~Mount PROVE Good'
    BY <1>0, <1>4, <1>7, <2>4 DEF Execute
  <2>5. ASSUME NEW s \in Sims, Simulate(s), ~Mount PROVE Good'
    BY <1>0, <1>6, <2>5 DEF Simulate
  <2>6. QED
    BY <1>1, <1>9, <1>10, <1>11, <2>1, <2>2, <2>3, <2>4, <2>5 DEF Next

-----------------------------------------------------------------------------
(* The theorems.                                                           *)

LEMMA StepInv == PInv /\ [Next]_vars => PInv'
<1> SUFFICES ASSUME PInv, [Next]_vars PROVE PInv'
  OBVIOUS
<1>1. CASE Next
  BY <1>1, TypeStep, StarterStep, PageStep, SpinnerStep, ChainStep, LostStep DEF PInv
<1>2. CASE UNCHANGED vars
  <2>1. UNCHANGED <<process, slot, inbox, simulating, at, saved>>
    BY <1>2 DEF vars, process, slot, inbox
  <2>2. TypeOK' /\ PageFirst' /\ SimsOfPage' /\ OneRunner'
    BY <2>1 DEF PInv, TypeOK, ProcessTypes, PageFirst, SimsOfPage, OneRunner, Alive,
       process, slot, inbox
  <2>3. NoneUnwatched' /\ SpinnerBacked' /\ Chain' /\ LostRunners'
    BY <2>1 DEF PInv, NoneUnwatched, SpinnerBacked, Chain, LostRunners, Own, Alive,
       process, slot, inbox
  <2>4. QED
    BY <2>2, <2>3 DEF PInv
<1>3. QED
  BY <1>1, <1>2

\* The inductive invariant of the page and the processes it starts.
THEOREM PageInvariant == Spec => []PInv
<1>1. QED
  BY InitInv, StepInv, PTL DEF Spec

\* Every variable keeps its type.
THEOREM PageTypes == Spec => []TypeOK
  BY PageInvariant, PTL DEF PInv

\* Nothing a page has started runs on without its starter, unless the signal
\* that kills it is on its way.
THEOREM NobodyUnwatched == Spec => []NoneUnwatched
  BY PageInvariant, PTL DEF PInv

\* A page loses sight of a runner by starting another one, and in no other way.
THEOREM OnlyOverwrittenLost == Spec => []LostRunners
  BY PageInvariant, PTL DEF PInv

\* A spinner turns for a simulation that lives or has answered.
THEOREM SpinnerHonest == Spec => []SpinnerBacked
  BY PageInvariant, PTL DEF PInv

\* A page refreshes on one chain of timers.
THEOREM RefreshesOnce == Spec => []OneRefreshChain
<1>1. PInv => OneRefreshChain
  BY ChainCounts DEF PInv
<1>2. QED
  BY <1>1, PageInvariant, PTL
=============================================================================
