---------------------------- MODULE StrategyPage ----------------------------
(***************************************************************************)
(* One open page of a trading pair (trading_pair_live.ex) and the          *)
(* processes it starts: the runners of the strategies it launches          *)
(* (small_investor_strategy_runner.ex), the tasks of its simulations, and  *)
(* the runner each of those starts for itself.                             *)
(*                                                                         *)
(* A process is linked to the one that started it.  When it dies for any   *)
(* other reason than "normal", exit signals go to what is linked to it;    *)
(* they arrive later, and kill, since nothing here traps exits.            *)
(*                                                                         *)
(* What is only shown (status, message, chart, results) is left out.       *)
(***************************************************************************)
EXTENDS Naturals, Sequences, FiniteSets

CONSTANTS
  Page, Runners, Sims,   \* processes; bound: those that can be started
  None

ASSUME PageConstants ==
  /\ Page \notin Runners \union Sims /\ Runners \intersect Sims = {}
  /\ None \notin {Page} \union Runners \union Sims
  /\ IsFiniteSet(Runners)
  /\ "refresh" \notin Sims

VARIABLES
  state,        \* "unborn", "alive" or "dead"
  starter,      \* whom each runner and task is linked to
  doomed,       \* those an exit signal is on its way to
  remembered,   \* :strategy_runner_pid in the page's dictionary
  overwritten,  \* history: runners that were remembered when another was started
  simulating,   \* the assign behind the spinner
  timers,       \* of the page's refresh that are running
  mailbox,      \* of the page: "refresh", or the task whose result it is
  at,           \* where each simulation's task is
  saved         \* runners that have left an active row in strategies

process == <<state, starter, doomed>>
slot == <<remembered, overwritten>>
inbox == <<timers, mailbox>>
vars == <<state, starter, doomed, remembered, overwritten, simulating, timers,
          mailbox, at, saved>>

Procs == {Page} \union Runners \union Sims
Alive(x) == state[x] = "alive"
Linked(x, y) ==
  \/ x \in Runners \union Sims /\ starter[x] = y
  \/ y \in Runners \union Sims /\ starter[y] = x

Init ==
  /\ state = [x \in Procs |-> "unborn"]
  /\ starter = [x \in Runners \union Sims |-> None]
  /\ doomed = {}
  /\ remembered = None /\ overwritten = 0
  /\ simulating = FALSE
  /\ timers = 0 /\ mailbox = <<>>
  /\ at = [s \in Sims |-> "none"]
  /\ saved = {}

-----------------------------------------------------------------------------
(* Processes.                                                              *)

\* x dies, and whoever lives and is linked to it will be told.
Die(x) ==
  /\ state' = [state EXCEPT ![x] = "dead"]
  /\ doomed' = (doomed \ {x}) \union {y \in Procs : Alive(y) /\ Linked(x, y)}
  /\ UNCHANGED starter

\* x ends normally: nobody minds.
EndNormally(x) ==
  /\ state' = [state EXCEPT ![x] = "dead"]
  /\ doomed' = doomed \ {x}
  /\ UNCHANGED starter

\* x starts y with start_link or Task.async.  Mutation: without a link.
SpawnUnlinked(x, y) ==
  /\ state[y] = "unborn"
  /\ state' = [state EXCEPT ![y] = "alive"]
  /\ UNCHANGED <<starter, doomed>>
Spawn(x, y) ==
  /\ state[y] = "unborn"
  /\ state' = [state EXCEPT ![y] = "alive"]
  /\ starter' = [starter EXCEPT ![y] = x]
  /\ UNCHANGED doomed

\* x starts y, whose init fails: no exchange, no credentials, an exception.
\* The call returns an error, and x gets the exit signal.
SpawnFails(x, y) ==
  /\ state[y] = "unborn"
  /\ state' = [state EXCEPT ![y] = "dead"]
  /\ starter' = [starter EXCEPT ![y] = x]
  /\ doomed' = doomed \union {x}

\* Bound: there is a runner left for every task that has still to start one.
Spare ==
  Cardinality({r \in Runners : state[r] = "unborn"}) >
    Cardinality({s \in Sims : Alive(s) /\ at[s] = "starting"})

ExitSignal(x) ==
  /\ Alive(x) /\ x \in doomed
  /\ Die(x)
  /\ UNCHANGED <<slot, simulating, inbox, at, saved>>

-----------------------------------------------------------------------------
(* The page.                                                               *)

Mount ==
  /\ state[Page] = "unborn"
  /\ state' = [state EXCEPT ![Page] = "alive"]
  /\ timers' = 1
  /\ UNCHANGED <<starter, doomed, slot, simulating, mailbox, at, saved>>

\* The client has left, or a handler has raised.
PageDies ==
  /\ Alive(Page) /\ Die(Page)
  /\ UNCHANGED <<slot, simulating, inbox, at, saved>>

Fire ==
  /\ Alive(Page) /\ timers > 0
  /\ timers' = timers - 1 /\ mailbox' = Append(mailbox, "refresh")
  /\ UNCHANGED <<process, slot, simulating, at, saved>>

\* get_strategy_status: run_once on the remembered runner, which inserts a row
\* and has no candle to analyse.  The page does not survive a call that fails:
\* see PageDies.
ReadStatus ==
  /\ remembered # None => Alive(remembered)
  /\ saved' = saved \union ({remembered} \ {None})

\* The refresh schedules the next one first.  Mutation: it does not.
RefreshOnce == UNCHANGED timers
ScheduleRefresh == timers' = timers + 1

Refresh ==
  /\ Alive(Page) /\ mailbox # <<>> /\ Head(mailbox) = "refresh"
  /\ mailbox' = Tail(mailbox)
  /\ ScheduleRefresh
  /\ ReadStatus
  /\ UNCHANGED <<process, slot, simulating, at>>

\* {:simulation_complete, _} or {:simulation_error, _}; the monitor's message
\* is flushed.
Result ==
  /\ Alive(Page) /\ mailbox # <<>> /\ Head(mailbox) \in Sims
  /\ mailbox' = Tail(mailbox)
  /\ simulating' = FALSE
  /\ UNCHANGED <<process, slot, timers, at, saved>>

\* "start_strategy", whatever is remembered: the form is always there.  The
\* status is read at once, from the new runner.
StartStrategy(r) ==
  /\ Alive(Page) /\ Spare
  /\ \/ /\ Spawn(Page, r)
        /\ remembered' = r
        /\ overwritten' = overwritten + (IF remembered = None THEN 0 ELSE 1)
        /\ saved' = saved \union {r}
     \/ SpawnFails(Page, r) /\ UNCHANGED <<slot, saved>>
  /\ UNCHANGED <<simulating, inbox, at>>

\* GenServer.stop.  Mutation: it is only forgotten.
ForgetRunner(r) == UNCHANGED process
StopRunner(r) == EndNormally(r)

\* "stop_strategy"
StopStrategy ==
  /\ Alive(Page)
  /\ \/ /\ remembered # None /\ Alive(remembered)
        /\ StopRunner(remembered)
        /\ remembered' = None
     \/ remembered = None /\ UNCHANGED <<process, remembered>>
  /\ UNCHANGED <<overwritten, simulating, inbox, at, saved>>

\* "run_now": run_once, and the status a second later.
RunNow ==
  /\ Alive(Page)
  /\ ReadStatus
  /\ UNCHANGED <<process, slot, simulating, inbox, at>>

\* "simulate_strategy": Task.async.
Simulate(s) ==
  /\ Alive(Page) /\ Spare
  /\ Spawn(Page, s)
  /\ simulating' = TRUE
  /\ at' = [at EXCEPT ![s] = "starting"]
  /\ UNCHANGED <<slot, inbox, saved>>

-----------------------------------------------------------------------------
(* The runners and the simulations.                                        *)

\* :execute_strategy of a runner's timer: a row is inserted, or the insertion
\* raises.  (Candles are published under another topic than a runner's.)
Execute(r) ==
  /\ Alive(r)
  /\ \/ saved' = saved \union {r} /\ UNCHANGED process
     \/ Die(r) /\ UNCHANGED saved
  /\ UNCHANGED <<slot, simulating, inbox, at>>

\* The task starts a runner it does not use.
SimStart(s, r) ==
  /\ Alive(s) /\ at[s] = "starting"
  /\ at' = [at EXCEPT ![s] = "running"]
  /\ Spawn(s, r) \/ SpawnFails(s, r)
  /\ UNCHANGED <<slot, simulating, inbox, saved>>

\* run_simulation returns, and the runner is stopped; or the simulation
\* raises, or its runner is no longer there to be stopped.
SimEnd(s) ==
  /\ Alive(s) /\ at[s] = "running"
  /\ \/ /\ at' = [at EXCEPT ![s] = "replying"]
        /\ \E r \in Runners : starter[r] = s /\ Alive(r) /\ EndNormally(r)
     \/ Die(s) /\ UNCHANGED at
  /\ UNCHANGED <<slot, simulating, inbox, saved>>

\* The task's last value is its message to the page, if there still is one.
\* Mutation: the task ends without it.
EndSilently(s) == EndNormally(s) /\ UNCHANGED mailbox
EndWithResult(s) ==
  /\ EndNormally(s)
  /\ mailbox' = IF Alive(Page) THEN Append(mailbox, s) ELSE mailbox

SimReply(s) ==
  /\ Alive(s) /\ at[s] = "replying"
  /\ EndWithResult(s)
  /\ at' = [at EXCEPT ![s] = "over"]
  /\ UNCHANGED <<slot, simulating, timers, saved>>

SimStep(s) == (\E r \in Runners : SimStart(s, r)) \/ SimEnd(s) \/ SimReply(s)

Next ==
  \/ \E x \in Procs : ExitSignal(x)
  \/ Mount
  \/ PageDies
  \/ Fire
  \/ Refresh
  \/ Result
  \/ \E r \in Runners : StartStrategy(r) \/ Execute(r)
  \/ StopStrategy
  \/ RunNow
  \/ \E s \in Sims : Simulate(s) \/ SimStep(s)

Spec == Init /\ [][Next]_vars

(***************************************************************************)
(* Fairness: signals arrive, a page handles its messages, and a            *)
(* simulation, which goes once through a list, comes to its end.           *)
(***************************************************************************)
Message == Refresh \/ Result
Fairness ==
  /\ \A x \in Procs : WF_vars(ExitSignal(x))
  /\ WF_vars(Fire) /\ WF_vars(Message)
  /\ \A s \in Sims : WF_vars(SimStep(s))
FairSpec == Spec /\ Fairness

-----------------------------------------------------------------------------
(* Properties.                                                             *)

ProcessTypes ==
  /\ state \in [Procs -> {"unborn", "alive", "dead"}]
  /\ starter \in [Runners \union Sims -> {Page, None} \union Sims]
  /\ \A x \in Runners \union Sims : starter[x] = None <=> state[x] = "unborn"
  /\ doomed \subseteq Procs

\* Every variable keeps its type; only what has been started has a starter.
TypeOK ==
  /\ ProcessTypes
  /\ remembered \in Runners \union {None}
  /\ overwritten \in Nat
  /\ simulating \in BOOLEAN
  /\ timers \in Nat /\ mailbox \in Seq({"refresh"} \union Sims)
  /\ at \in [Sims -> {"none", "starting", "running", "replying", "over"}]
  /\ saved \subseteq Runners

Own == {r \in Runners : Alive(r) /\ starter[r] = Page}

\* As long as no signal is about to kill the page, the runner it remembers is
\* alive, and it has lost sight of exactly those it overwrote: no other way
\* leads to a strategy that runs on and that the page cannot stop.
LostRunners ==
  Alive(Page) /\ Page \notin doomed =>
    /\ remembered \in Own \union {None}
    /\ Cardinality(Own \ {remembered}) = overwritten

\* No strategy runs on without the page that started it: a runner or a task
\* lives with its starter, or is about to be killed.
NoneUnwatched ==
  \A x \in Runners \union Sims :
    Alive(x) => starter[x] \in Procs /\ (Alive(starter[x]) \/ x \in doomed)

\* While the spinner turns, a simulation is under way or its result is waiting,
\* unless the page is about to be killed.
SpinnerBacked ==
  simulating /\ Alive(Page) /\ Page \notin doomed =>
    \E s \in Sims : Alive(s) \/ s \in {mailbox[i] : i \in DOMAIN mailbox}

\* The page refreshes on one chain of timers, which never breaks nor forks.
Refreshes == {i \in DOMAIN mailbox : mailbox[i] = "refresh"}
OneRefreshChain == Alive(Page) => timers + Cardinality(Refreshes) = 1

\* The spinner stops, or the page is gone.
SpinnerEnds == simulating ~> (~simulating \/ ~Alive(Page))

\* When a page is gone, every process it has started goes too.
NothingOutlivesPage ==
  (state[Page] = "dead") ~> (\A x \in Procs : ~Alive(x))
=============================================================================
