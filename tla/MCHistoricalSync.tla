-------------------------- MODULE MCHistoricalSync --------------------------
(* A small instance of HistoricalSync for TLC.                             *)
EXTENDS HistoricalSync, TLC

CONSTANTS p1, minute, day

MCDuration == [i \in Intervals |-> IF i = minute THEN 1 ELSE 2]
MCWidth == [i \in Intervals |-> 1]
=============================================================================
