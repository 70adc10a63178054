----------------------------- MODULE MCUdpSession -----------------------------
(* A small instance of UdpSession for TLC.                                      *)
EXTENDS UdpSession

CONSTANTS p1, p2, k1

\* Every datagram comes from one source address.
OneKey == [p \in Packets |-> k1]
===============================================================================
