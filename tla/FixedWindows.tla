---------------------------- MODULE FixedWindows ----------------------------
(***************************************************************************)
(* What a limiter with fixed windows promises, whoever asks it and whatever *)
(* else it counts: each of its counters has one window at a time and only  *)
(* moves on to a later one, what it has granted in the window only grows   *)
(* and stays within the limit, and the limiter forgets all of that only    *)
(* when it starts again, which is counted.                                 *)
(***************************************************************************)
EXTENDS Integers

CONSTANTS
  Counters,
  Limit      \* of each counter

VARIABLES
  start,     \* where the window of each counter starts
  used,      \* what has been granted in it
  restarts   \* how often the limiter has started again

vars == <<start, used, restarts>>

Init ==
  /\ start \in [Counters -> Int]
  /\ used = [k \in Counters |-> 0]
  /\ restarts = 0

Kept(k) == start'[k] = start[k] /\ used'[k] = used[k]

Granted(k) ==
  /\ start'[k] = start[k]
  /\ used'[k] > used[k] /\ used'[k] <= Limit[k]

Advanced(k) ==
  /\ start'[k] > start[k]
  /\ used'[k] >= 0 /\ used'[k] <= Limit[k]

\* One request may be counted several times.
Serve ==
  /\ \A k \in Counters : Kept(k) \/ Granted(k) \/ Advanced(k)
  /\ UNCHANGED restarts

Restart ==
  /\ start' \in [Counters -> Int]
  /\ used' = [k \in Counters |-> 0]
  /\ restarts' = restarts + 1

Next == Serve \/ Restart

Spec == Init /\ [][Next]_vars
=============================================================================
