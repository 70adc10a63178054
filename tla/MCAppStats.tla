------------------------------ MODULE MCAppStats ------------------------------
(* Small instances of AppTraffic for TLC.                                      *)
EXTENDS AppTraffic

CONSTANTS c1, c2, u1, r1

OneApp == [c \in Conns |-> u1]
===============================================================================
