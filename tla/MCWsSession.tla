---------------------------- MODULE MCWsSession -----------------------------
(* A session with the code's own times, in seconds, for TLC.               *)
EXTENDS WsSession
=============================================================================
