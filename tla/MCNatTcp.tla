------------------------------- MODULE MCNatTcp -------------------------------
(* A small instance of NatTcp for TLC.                                         *)
EXTENDS NatTcp

CONSTANTS f1, f2, f3, k1, e1, e2

\* Two connections with the same addresses and ports, and one to another port of
\* the host from the same source port.
KeyOfFlow == [f \in Flows |-> k1]
EndOfFlow == [f \in Flows |-> IF f = f3 THEN e2 ELSE e1]
===============================================================================
