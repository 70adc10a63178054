---------------------------- MODULE MCApiInstance ----------------------------
(* A small instance of ApiInstance for TLC.                                    *)
EXTENDS ApiInstance

CONSTANTS q1, q2, q3

\* One query of each kind.
EachKind == [q \in Queries |-> IF q = q1 THEN "query" ELSE IF q = q2 THEN "old" ELSE "bad"]
==============================================================================
