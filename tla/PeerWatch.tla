----------------------------- MODULE PeerWatch ------------------------------
(***************************************************************************)
(* What watching a peer by the age of its last sign of life promises,      *)
(* however it is done: a peer is not given up for its silence before more  *)
(* than Patience has passed, and never kept once its silence would exceed  *)
(* Patience + Slack.                                                       *)
(***************************************************************************)
EXTENDS Naturals

CONSTANTS Patience, Slack

VARIABLES
  peer,  \* "absent", "watched", "givenUp" for its silence, or "left"
  age    \* of its last sign of life

vars == <<peer, age>>

Init == peer = "absent" /\ age = 0

Meet == peer # "watched" /\ peer' = "watched" /\ age' = 0

Hear == peer = "watched" /\ age' = 0 /\ UNCHANGED peer

Pass ==
  /\ peer = "watched" /\ age < Patience + Slack
  /\ age' = age + 1
  /\ UNCHANGED peer

GiveUp ==
  /\ peer = "watched" /\ age > Patience
  /\ peer' = "givenUp"
  /\ UNCHANGED age

Leave == peer = "watched" /\ peer' = "left" /\ UNCHANGED age

Next == Meet \/ Hear \/ Pass \/ GiveUp \/ Leave

Spec == Init /\ [][Next]_vars
=============================================================================
