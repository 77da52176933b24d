--------------------------- MODULE MCConnectionCalls ---------------------------
(* ConnectionCalls on a small instance: four callers on a connection of two *)
(* places, with one limit below the connection's max and one above it.      *)
EXTENDS ConnectionCalls

MCLimits == {1, 2, 3}
================================================================================
