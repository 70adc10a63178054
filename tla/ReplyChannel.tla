----------------------------- MODULE ReplyChannel -----------------------------
(***************************************************************************)
(* What a session's packet connection promises about the replies of the    *)
(* outbound: the buffered channel of dispatcherConn (v2ray.go) without the *)
(* goroutines, the context and the unlocked flags behind it.               *)
(*                                                                         *)
(* The promise: a line of replies that the read loop takes from the front. *)
(* A reply is lost only while the connection is open and Capacity replies  *)
(* are in front of it, or once the connection is being closed; the read    *)
(* loop sees the end only then.                                            *)
(***************************************************************************)
EXTENDS Naturals, Sequences, SequencesExt

CONSTANTS
    Capacity,     \* replies the channel holds for the read loop
    MaxBatch,     \* bound on the replies that come in together
    MaxPackets    \* bound on all replies

VARIABLES
    sent,      \* number of replies the outbound has produced
    flight,    \* those on their way, oldest first
    got,       \* those the read loop took
    lost,      \* those released instead
    shut,      \* whether the connection is being closed
    reader     \* the read loop: reading, at the end, or gone

channelVars == <<sent, flight, got, lost, shut, reader>>

Init ==
    /\ sent = 0
    /\ flight = <<>>
    /\ got = <<>>
    /\ lost = {}
    /\ shut = FALSE
    /\ reader = "read"

\* The outbound produces the next replies.
Send(n) ==
    /\ sent + n <= MaxPackets
    /\ flight' = flight \o [i \in 1 .. n |-> sent + i]
    /\ sent' = sent + n
    /\ UNCHANGED <<got, lost, shut, reader>>

\* The read loop takes the oldest one.
Deliver ==
    /\ reader = "read"
    /\ flight # <<>>
    /\ got' = Append(got, Head(flight))
    /\ flight' = Tail(flight)
    /\ UNCHANGED <<sent, lost, shut, reader>>

\* Behind Capacity others there is no room for a reply; a closing connection may
\* release any.
Lose(i) ==
    /\ shut \/ i > Capacity
    /\ lost' = lost \cup {flight[i]}
    /\ flight' = RemoveAt(flight, i)
    /\ UNCHANGED <<sent, got, shut, reader>>

Shut ==
    /\ shut' = TRUE
    /\ UNCHANGED <<sent, flight, got, lost, reader>>

\* io.EOF, with replies possibly still in the line.
End ==
    /\ reader = "read"
    /\ shut
    /\ reader' = "eof"
    /\ UNCHANGED <<sent, flight, got, lost, shut>>

\* The read loop gives up by itself, after a reply it could not write to the tun.
Leave ==
    /\ reader = "read"
    /\ got # <<>>
    /\ reader' = "gone"
    /\ UNCHANGED <<sent, flight, got, lost, shut>>

Next ==
    \/ \E n \in 1 .. MaxBatch : Send(n)
    \/ Deliver
    \/ \E i \in DOMAIN flight : Lose(i)
    \/ Shut \/ End \/ Leave

Spec == Init /\ [][Next]_channelVars
===============================================================================
