------------------------------- MODULE MCTunnel -------------------------------
(* A small instance of Tunnel for TLC.                                         *)
EXTENDS Tunnel

CONSTANTS t1, t2, d1, d2
===============================================================================
