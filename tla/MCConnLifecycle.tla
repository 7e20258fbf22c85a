--------------------------- MODULE MCConnLifecycle ---------------------------
(* TLC instance of ConnLifecycle.                                          *)
EXTENDS ConnLifecycle

CONSTANTS c1, c2

MCPackets == [c \in Conns |-> IF c = c1 THEN {} ELSE {"att", "corrupt"}]
=============================================================================
