--------------------------- MODULE MCTradingPairs ---------------------------
(* A small instance of TradingPairs: one symbol the application follows    *)
(* and one with a disabled coin.                                           *)
EXTENDS TradingPairs
CONSTANTS s1, d1
MCSymbols == {s1, d1}
MCDisabled == {d1}
=============================================================================
