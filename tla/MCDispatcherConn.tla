--------------------------- MODULE MCDispatcherConn ---------------------------
(* Small instances of DispatcherConn for TLC.                                  *)
EXTENDS DispatcherConn, TLC

CONSTANT w1
===============================================================================
