---------------------------- MODULE MCKlinesSync ----------------------------
(* A small instance of KlinesSync for TLC.                                 *)
EXTENDS KlinesSync, TLC

CONSTANTS a, b

AnyWorker == Permutations(Workers)
MCWidth == [i \in Intervals |-> 2]
MCSpan == [i \in Intervals |-> 4]

\* Minutes as wide as the code has them; months that are shorter or longer.
Minutes == [c \in {2 * n : n \in 0 .. 4} |-> c + 1]
Months == [c \in {0, 1, 4, 5, 8} |-> CASE c = 0 -> 0 [] c = 1 -> 3 [] c = 4 -> 4 [] c = 5 -> 7 [] c = 8 -> 9]
MCClosesAt == [i \in Intervals |-> IF i = "1M" THEN Months ELSE Minutes]
=============================================================================
