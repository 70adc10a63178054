---------------------------- MODULE MCPingSession ----------------------------
(* Small instances of PingSession for TLC.                                     *)
EXTENDS PingSession, TLC

CONSTANTS r1, r2, r3, k1, k2

\* The last request goes to another host.
TwoKeys == [r \in Requests |-> IF r = r3 THEN k2 ELSE k1]
==============================================================================
