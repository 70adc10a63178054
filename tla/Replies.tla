------------------------------- MODULE Replies -------------------------------
(***************************************************************************)
(* What the two stacks write to the device when a session answers: the     *)
(* reply functions of nat/icmp.go, gvisor/icmp.go, nat/udp.go and          *)
(* gvisor/udp.go.  A reply is described by the length its IP header tells, *)
(* the bytes that follow, whether the checksum of the transport header is  *)
(* that of those bytes and of the addresses in the header, whether the     *)
(* source in the header is the sender, and, in an error, whether the       *)
(* packet it quotes is the request as the app sent it.                     *)
(*                                                                         *)
(* intact says whether the memory of the request still holds it.           *)
(***************************************************************************)
EXTENDS Naturals

LOCAL AtMost(n, m) == IF n <= m THEN n ELSE m

\* 8 is ICMPv4MinimumErrorPayloadSize, ICMPv6DstUnreachableMinimumSize and
\* UDPMinimumSize; an error quotes the IP header and 8 bytes behind it.
ErrorLen(hdr, request) == 8 + hdr + AtMost(request, 8)

\* An echo session's message: its length, and whether it says unreachable.
EchoBody(hdr, request, msg) ==
    IF msg.unreachable THEN ErrorLen(hdr, request) ELSE msg.len

\* A body as long as the request goes behind the request's own IP header; for any
\* other IPv4 tells the length of the message, whatever body is written.
EchoLength4(hdr, request, msg) ==
    IF EchoBody(hdr, request, msg) = request THEN hdr + request ELSE hdr + msg.len

\* IPv6 tells the length of the body.
EchoLength6(hdr, request, msg) == hdr + EchoBody(hdr, request, msg)

\* nat/icmp.go, IPv4: of an error only the first four bytes come from the message,
\* its checksum among them; the request is quoted after its addresses were swapped.
SystemEcho4(hdr, request, msg, intact) ==
    [told |-> EchoLength4(hdr, request, msg),
     written |-> hdr + EchoBody(hdr, request, msg),
     checksum |-> ~msg.unreachable,
     source |-> TRUE, quote |-> ~msg.unreachable]

\* nat/icmp.go, IPv6: the checksum is computed with the addresses that ipHdr, a
\* slice of the request's buffer, has now.
SystemEcho6(hdr, request, msg, intact) ==
    [told |-> EchoLength6(hdr, request, msg),
     written |-> hdr + EchoBody(hdr, request, msg),
     checksum |-> intact,
     source |-> TRUE, quote |-> ~msg.unreachable]

\* gvisor/icmp.go, IPv4: ToOwnedView copies the request before the swap.
GVisorEcho4(hdr, request, msg, intact) ==
    [told |-> EchoLength4(hdr, request, msg),
     written |-> hdr + EchoBody(hdr, request, msg),
     checksum |-> ~msg.unreachable,
     source |-> TRUE, quote |-> TRUE]

\* gvisor/icmp.go, IPv6: the addresses are those of the endpoint's id, a copy.
GVisorEcho6(hdr, request, msg, intact) ==
    [told |-> EchoLength6(hdr, request, msg),
     written |-> hdr + EchoBody(hdr, request, msg),
     checksum |-> TRUE,
     source |-> TRUE, quote |-> TRUE]

-------------------------------------------------------------------------------
(* Datagrams.  from is the sender that the session names: none for DNS, whose      *)
(* replies come from the destination; otherwise an address of either family, or    *)
(* net.AnyIP, the four bytes 0.0.0.0, for a sender named by a domain.              *)

Senders == {"none", "v4", "v6", "any"}

\* The addresses as long as those of the flow.  The header takes a longer one only in
\* part, and keeps a part of the request's source behind a shorter one, while the
\* checksum is computed with the whole of it.
Fits4(from) == from \in {"none", "v4", "any"}
Fits6(from) == from \in {"none", "v6"}

\* nat/udp.go: the header comes from headerCache and the app's address is a string,
\* both copied from the request when it arrived; told is the total length.
SystemUdp4(hdr, n, from, intact) ==
    [told |-> hdr + 8 + n, written |-> hdr + 8 + n, checksum |-> Fits4(from),
     source |-> Fits4(from) /\ from # "any", quote |-> TRUE]

\* Variant: the checksum is computed with the addresses in the request's buffer.
SystemUdp6Lazy(hdr, n, from, intact) ==
    [told |-> hdr + (8 + n), written |-> hdr + 8 + n, checksum |-> Fits6(from) /\ intact,
     source |-> Fits6(from), quote |-> TRUE]

\* The payload length of IPv6 leaves the fixed header out.
SystemUdp6(hdr, n, from, intact) ==
    [told |-> hdr + (8 + n), written |-> hdr + 8 + n, checksum |-> Fits6(from),
     source |-> Fits6(from), quote |-> TRUE]

\* gvisor/udp.go: IPv4 leaves the checksum out, which is legal; the stack writes the
\* IP header, when it finds a route from the sender named.
GVisorUdp4(hdr, n, from, intact) ==
    [told |-> hdr + 8 + n, written |-> hdr + 8 + n, checksum |-> TRUE,
     source |-> Fits4(from) /\ from # "any", quote |-> TRUE]

GVisorUdp6(hdr, n, from, intact) ==
    [told |-> hdr + 8 + n, written |-> hdr + 8 + n, checksum |-> Fits6(from),
     source |-> Fits6(from), quote |-> TRUE]
===============================================================================
