------------------------------ MODULE MCTunDevice ------------------------------
(* A small instance of TunDevice for TLC.                                       *)
EXTENDS TunDevice

CONSTANTS f4, f6, b0, b1, b2

MCSizes == <<1, 2>>
===============================================================================
