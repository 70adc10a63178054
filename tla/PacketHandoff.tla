---------------------------- MODULE PacketHandoff ----------------------------
(***************************************************************************)
(* What the packet loop of a tun device promises the handlers of packets:  *)
(* the memory of a packet it has handed over is theirs, and the loop reads *)
(* nothing into it until they have let it go.                              *)
(***************************************************************************)
CONSTANT Blocks   \* pieces of memory

VARIABLES
    filling,   \* the blocks the next packet is read into
    held       \* the blocks of packets that handlers have

Init == filling = {} /\ held = {}

\* The loop takes memory that nobody has.
Provide ==
    /\ \E new \in SUBSET (Blocks \ held) : filling' = filling \cup new
    /\ UNCHANGED held

\* The blocks of a packet go to its handler.
HandOver ==
    \E packet \in SUBSET filling :
        /\ packet # {}
        /\ filling' = filling \ packet
        /\ held' = held \cup packet

\* A handler lets a packet go.
LetGo ==
    /\ \E packet \in SUBSET held : held' = held \ packet
    /\ UNCHANGED filling

\* The loop ends and its memory with it.
Discard ==
    /\ \E old \in SUBSET filling : filling' = filling \ old
    /\ UNCHANGED held

Next == Provide \/ HandOver \/ LetGo \/ Discard

Spec == Init /\ [][Next]_<<filling, held>>

\* No packet in the hands of a handler is overwritten.
NeverOverwritten == filling \cap held = {}
===============================================================================
