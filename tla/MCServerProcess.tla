--------------------------- MODULE MCServerProcess ---------------------------
(* ServerProcess on small instances for TLC.                                *)
EXTENDS ServerProcess

CONSTANT fans
=============================================================================
