--------------------------- MODULE MCStrategyPage ---------------------------
(* A small instance of StrategyPage: three runners, for two starts and one *)
(* simulation or one start and two simulations.                            *)
EXTENDS StrategyPage
CONSTANTS r1, r2, r3, m1, m2
=============================================================================
