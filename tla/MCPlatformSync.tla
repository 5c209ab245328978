--------------------------- MODULE MCPlatformSync ---------------------------
(* A small instance of PlatformSync for TLC.                               *)
EXTENDS PlatformSync

CONSTANTS v1, j1, j2, x1, x2, x3
=============================================================================
