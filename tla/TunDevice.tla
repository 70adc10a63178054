------------------------------ MODULE TunDevice ------------------------------
(***************************************************************************)
(* The device behind Tun2ray.dev: NewTun2ray opens one of the two stacks   *)
(* on the descriptor of the VPN service, and either gives the memory of    *)
(* packets to the same handlers and gets their replies.                    *)
(***************************************************************************)
EXTENDS SystemTun, GVisorEndpoint, Replies

CONSTANTS
    Requests,   \* lengths of echo requests, and of messages and datagrams
    HeaderLens  \* lengths of IP headers

ASSUME TunDeviceAssumption ==
    /\ Requests \subseteq Nat
    /\ HeaderLens \subseteq Nat

VARIABLE impl   \* TunConfig.Implementation

vars == <<impl, sysVars, epVars>>

Init ==
    /\ impl \in {"system", "gvisor"}
    /\ SystemInit
    /\ EpInit

Next ==
    \/ impl = "system" /\ SystemNext /\ UNCHANGED <<impl, epVars>>
    \/ impl = "gvisor" /\ EpNext /\ UNCHANGED <<impl, sysVars>>

Spec == Init /\ [][Next]_vars

-------------------------------------------------------------------------------
(* Properties.                                                                *)

\* The memory the next packet goes to.
Filling ==
    IF impl = "system"
    THEN IF sysLoop \in {"read", "deliver"} THEN {cache.block} ELSE {}
    ELSE {<<i, views[i]>> : i \in {j \in Places : views[j] # 0}}
         \cup (IF epLoop = "read" THEN IovecBlocks ELSE {})

\* The memory of packets that have been given away; dispatch itself has a packet
\* of the gVisor stack from the moment it was pulled out of the row.
Held ==
    IF impl = "system" THEN {p.buf.block : p \in sysHeld} ELSE EpHeld \cup read

Handoff ==
    INSTANCE PacketHandoff WITH
        Blocks <- SysBlocks \cup ViewBlocks,
        filling <- Filling,
        held <- Held

\* Both stacks keep the promise of PacketHandoff: no packet is read into memory
\* that a handler still has, whichever handler lets go of what and when.
ImplementsHandoff == Handoff!Spec

Messages == [len : Requests, unreachable : BOOLEAN]

\* Whether the block of the request still has both addresses of the flow.
Intact(c) == contents[c.block] = Holding(c.flow, TRUE)

\* The reply function of a closure of the system stack, for one header length, one
\* length of the request and one message.
SystemEcho(c, hdr, request, msg) ==
    IF c.flow \in V6Flows
    THEN SystemEcho6(hdr, request, msg, Intact(c))
    ELSE SystemEcho4(hdr, request, msg, Intact(c))

SystemUdp(c, hdr, n, from) ==
    IF c.flow \in V6Flows
    THEN SystemUdp6(hdr, n, from, Intact(c))
    ELSE SystemUdp4(hdr, n, from, Intact(c))

GVisorEcho(f, hdr, request, msg) ==
    IF f \in V6Flows
    THEN GVisorEcho6(hdr, request, msg, TRUE)
    ELSE GVisorEcho4(hdr, request, msg, TRUE)

GVisorUdp(f, hdr, n, from) ==
    IF f \in V6Flows THEN GVisorUdp6(hdr, n, from, TRUE) ELSE GVisorUdp4(hdr, n, from, TRUE)

\* A handler has the echo request of the session.
Lent(c) == \E p \in sysHeld : p.buf.block = c.block /\ p.holds = Holding(c.flow, TRUE)

\* A sender of the flow's family, or none named.
SameFamily(f, from) == from = "none" \/ from = IF f \in V6Flows THEN "v6" ELSE "v4"

\* A datagram's reply tells its length truly; its sender and its checksum, when the
\* sender is of the flow's family or not named at all.  A sender of 0.0.0.0 leaves the
\* checksum right with IPv4.
UdpReplyTrue(r, f, from) ==
    /\ r.told = r.written
    /\ ~r.source => ~SameFamily(f, from)
    /\ ~r.checksum => ~SameFamily(f, from) /\ (from = "any" => f \in V6Flows)

\* What the sessions of the system stack would write back now: an echo reply tells its
\* length truly unless an IPv4 host is unreachable; its checksum is right unless so or
\* unless, with IPv6, a handler has let the request go or the loop has ended.
SystemRepliesTrue ==
    \A c \in closures, hdr \in HeaderLens :
        /\ c.kind = "udp" => \A n \in Requests, from \in Senders :
            UdpReplyTrue(SystemUdp(c, hdr, n, from), c.flow, from)
        /\ c.kind = "echo" => \A request \in Requests, msg \in Messages :
            LET r == SystemEcho(c, hdr, request, msg)
                error4 == msg.unreachable /\ c.flow \notin V6Flows
            IN  /\ r.told # r.written => error4
                /\ ~r.checksum =>
                    error4 \/ (c.flow \in V6Flows /\ (~Lent(c) \/ Over))
                /\ ~r.quote => msg.unreachable

\* The same of the gVisor stack, which depends on no buffer: only the error of an
\* IPv4 host is wrong.
GVisorRepliesTrue ==
    \A f \in Flows, hdr \in HeaderLens, n \in Requests :
        /\ \A from \in Senders : UdpReplyTrue(GVisorUdp(f, hdr, n, from), f, from)
        /\ \A msg \in Messages :
            LET r == GVisorEcho(f, hdr, n, msg)
            IN  (r.told # r.written \/ ~r.checksum \/ ~r.quote) =>
                    msg.unreachable /\ f \notin V6Flows

\* Whenever a session answers, the packet that reaches the app tells its length, its
\* sender and its checksum truly, but for the cases named above (nat/icmp.go, gvisor/icmp.go,
\* nat/udp.go, gvisor/udp.go).
RepliesTrue ==
    IF impl = "system" THEN SystemRepliesTrue ELSE GVisorRepliesTrue
===============================================================================
