-------------------------------- MODULE MCStun --------------------------------
(* Stun for TLC: every kind of NAT and server.                                 *)
EXTENDS Stun
===============================================================================
