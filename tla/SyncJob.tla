------------------------------ MODULE SyncJob -------------------------------
(***************************************************************************)
(* What a batch of synchronisation tasks promises, whatever it does to     *)
(* carry them out: a process submits one set of tasks, every task ends at  *)
(* most once, either done or failed, and the process reports completion    *)
(* only when the set it submitted is entirely done.  A process may die, and *)
(* the next one starts from nothing.                                       *)
(***************************************************************************)
CONSTANT Tasks

VARIABLES
  submitted,  \* the tasks of the running process
  done,       \* those of them that have succeeded
  failed,     \* those of them that have failed
  reported    \* has "Sync completed!" been announced

vars == <<submitted, done, failed, reported>>

Init ==
  /\ submitted = {}
  /\ done = {}
  /\ failed = {}
  /\ reported = FALSE

Open == submitted \ (done \union failed)

Submit ==
  /\ submitted = {}
  /\ submitted' \in SUBSET Tasks
  /\ UNCHANGED <<done, failed, reported>>

Finish(t) ==
  /\ t \in Open
  /\ done' = done \union {t}
  /\ UNCHANGED <<submitted, failed, reported>>

Fail(t) ==
  /\ t \in Open
  /\ failed' = failed \union {t}
  /\ UNCHANGED <<submitted, done, reported>>

Report ==
  /\ submitted # {}
  /\ done = submitted
  /\ reported' = TRUE
  /\ UNCHANGED <<submitted, done, failed>>

Restart ==
  /\ submitted' = {}
  /\ done' = {}
  /\ failed' = {}
  /\ reported' = FALSE

Next ==
  \/ Submit
  \/ \E t \in Tasks : Finish(t) \/ Fail(t)
  \/ Report
  \/ Restart

Spec == Init /\ [][Next]_vars
=============================================================================
