------------------------ MODULE MCBinanceRateLimiter ------------------------
(* A small instance of BinanceRateLimiter for TLC.                         *)
EXTENDS BinanceRateLimiter, TLC

CONSTANTS a, b

AnyCaller == Permutations(Callers)
MCLength == [k \in Windows |-> CASE k = "second" -> 1
                                 [] k = "minute" -> 2
                                 [] k = "fiveMin" -> 4
                                 [] k = "day" -> 4]
MCLimit == [k \in Windows |-> CASE k = "minute" -> 2
                                [] k = "day" -> 1
                                [] OTHER -> 1]
=============================================================================
