--------------------------- MODULE MCProtectedDial ---------------------------
(* A small instance of ProtectedDial for TLC.                                  *)
EXTENDS ProtectedDial

CONSTANTS s1, s2
===============================================================================
