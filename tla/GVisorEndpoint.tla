---------------------------- MODULE GVisorEndpoint ----------------------------
(***************************************************************************)
(* The link endpoint of the gVisor stack (gvisor/endpoint.go) and its      *)
(* readVDispatcher (gvisor/dispatchers.go): Attach starts and stops the    *)
(* goroutine that reads packets with readv into a row of views of growing  *)
(* size, and gives the views a packet fills to the stack.                  *)
(*                                                                         *)
(* The view of place i of the row is <<i, k>>, a piece of memory that the  *)
(* garbage collector may hand out again once no packet has it.             *)
(***************************************************************************)
EXTENDS Naturals, FiniteSets, Sequences

CONSTANTS
    Sizes,       \* bufConfig: the size of each view of the row
    MaxViews,    \* bound on the views of one place alive at a time
    MaxAttach    \* bound on the calls of Attach with a dispatcher

ASSUME EndpointAssumption ==
    /\ Sizes \in Seq(Nat \ {0})
    /\ Sizes # <<>>
    /\ MaxViews \in Nat
    /\ MaxAttach \in Nat

VARIABLES
    epControl,    \* the stack's thread in Attach
    dispatcher,   \* whether rwEndpoint.dispatcher is set
    attaches,     \* number of loops started
    eventfd,      \* whether something was written to the eventfd
    epLoop,       \* the dispatch goroutine
    views,        \* iovecBuffer.views: the view of each place, 0 for nil
    iovecs,       \* iovecBuffer.iovecs: the memory readv writes to
    read,         \* the views of the packet that has been read
    packets       \* the packets the stack and the handlers have

epVars == <<epControl, dispatcher, attaches, eventfd, epLoop, views, iovecs, read, packets>>

Places == DOMAIN Sizes
ViewBlocks == Places \X (1 .. MaxViews)
EpHeld == UNION packets
IovecBlocks == {<<i, iovecs[i]>> : i \in {j \in Places : iovecs[j] # 0}}

EpInit ==
    /\ epControl = "idle"
    /\ dispatcher = FALSE
    /\ attaches = 0
    /\ eventfd = FALSE
    /\ epLoop = "none"
    /\ views = [i \in Places |-> 0]
    /\ iovecs = [i \in Places |-> 0]
    /\ read = {}
    /\ packets = {}

LoopAlive == epLoop \notin {"none", "ended"}

-------------------------------------------------------------------------------
(* Attach                                                                     *)

\* Attach(dispatcher) of an endpoint that has none.
Attach ==
    /\ epControl = "idle"
    /\ ~dispatcher
    /\ attaches < MaxAttach
    /\ dispatcher' = TRUE
    /\ attaches' = attaches + 1
    /\ epLoop' = "prepare"
    /\ UNCHANGED <<epControl, eventfd, views, iovecs, read, packets>>

\* Attach(nil): inbound.stop() writes the eventfd, which nobody ever reads.
Stop ==
    /\ epControl = "idle"
    /\ dispatcher
    /\ eventfd' = TRUE
    /\ epControl' = "wait"
    /\ UNCHANGED <<dispatcher, attaches, epLoop, views, iovecs, read, packets>>

\* Variant: Attach(nil) does not Wait.
DetachAtOnce ==
    /\ epControl = "wait"
    /\ dispatcher' = FALSE
    /\ epControl' = "idle"
    /\ UNCHANGED <<attaches, eventfd, epLoop, views, iovecs, read, packets>>

\* e.Wait(); e.dispatcher = nil
Detach ==
    /\ epControl = "wait"
    /\ ~LoopAlive
    /\ dispatcher' = FALSE
    /\ epControl' = "idle"
    /\ UNCHANGED <<attaches, eventfd, epLoop, views, iovecs, read, packets>>

-------------------------------------------------------------------------------
(* dispatch, in the loop                                                      *)

\* A view of each place that no packet has.
FreshViews ==
    [i \in Places |-> CHOOSE k \in 1 .. MaxViews : <<i, k>> \notin EpHeld]
HasFreshViews == \A i \in Places : \E k \in 1 .. MaxViews : <<i, k>> \notin EpHeld

\* nextIovecs fills the row from the left, up to the first view still there.
NilPrefix == {i \in Places : \A j \in 1 .. i : views[j] = 0}

NextIovecs ==
    /\ epLoop = "prepare"
    /\ HasFreshViews
    /\ views' = [i \in Places |-> IF i \in NilPrefix THEN FreshViews[i] ELSE views[i]]
    /\ iovecs' = [i \in Places |-> IF i \in NilPrefix THEN FreshViews[i] ELSE iovecs[i]]
    /\ epLoop' = "read"
    /\ UNCHANGED <<epControl, dispatcher, attaches, eventfd, read, packets>>

\* The bytes that fit in the first i views.
Upto[i \in 0 .. Len(Sizes)] == IF i = 0 THEN 0 ELSE Upto[i - 1] + Sizes[i]

\* pullViews: the views up to the first with which they hold n bytes.
Pulled(n) == {i \in Places : \A j \in 1 .. i - 1 : Upto[j] < n}

\* Variant: a packet that ends where a view ends leaves that view in the row.
ReadPacketShort(n) ==
    /\ epLoop = "read"
    /\ read' = {<<i, views[i]>> : i \in Pulled(n)}
    /\ views' = [i \in Places |-> IF Upto[i] < n THEN 0 ELSE views[i]]
    /\ epLoop' = "deliver"
    /\ UNCHANGED <<epControl, dispatcher, attaches, eventfd, iovecs, packets>>

\* BlockingReadvUntilStopped returns n bytes: while packets are there it does not
\* look at the eventfd.
ReadPacket(n) ==
    /\ epLoop = "read"
    /\ read' = {<<i, views[i]>> : i \in Pulled(n)}
    /\ views' = [i \in Places |-> IF i \in Pulled(n) THEN 0 ELSE views[i]]
    /\ epLoop' = "deliver"
    /\ UNCHANGED <<epControl, dispatcher, attaches, eventfd, iovecs, packets>>

\* It finds no packet and the eventfd readable.
ReadStopped ==
    /\ epLoop = "read"
    /\ eventfd
    /\ epLoop' = "ended"
    /\ UNCHANGED <<epControl, dispatcher, attaches, eventfd, views, iovecs, read, packets>>

\* The device fails: the loop ends and the endpoint stays attached.
ReadError ==
    /\ epLoop = "read"
    /\ epLoop' = "ended"
    /\ UNCHANGED <<epControl, dispatcher, attaches, eventfd, views, iovecs, read, packets>>

\* Neither IPv4 nor IPv6: the packet is dropped.
Unknown ==
    /\ epLoop = "deliver"
    /\ read' = {}
    /\ epLoop' = "prepare"
    /\ UNCHANGED <<epControl, dispatcher, attaches, eventfd, views, iovecs, packets>>

\* The packet goes to the stack, which gives it away: to a handler, or to an endpoint.
DeliverNetworkPacket ==
    /\ epLoop = "deliver"
    /\ dispatcher
    /\ packets' = packets \cup {read}
    /\ read' = {}
    /\ epLoop' = "prepare"
    /\ UNCHANGED <<epControl, dispatcher, attaches, eventfd, views, iovecs>>

\* The packet comes back from the stack, and DecRef lets its views go.
DeliverAndDrop ==
    /\ epLoop = "deliver"
    /\ dispatcher
    /\ read' = {}
    /\ epLoop' = "prepare"
    /\ UNCHANGED <<epControl, dispatcher, attaches, eventfd, views, iovecs, packets>>

\* gUdpHandler: go handler.NewPacket with the data of the packet and its header.
DeliverUdp == DeliverNetworkPacket

\* A datagram shorter than its header tells.
DropMalformed == DeliverAndDrop

\* gIcmpHandler: NewPingPacket answers true, with the data of the packet.
DeliverEcho == DeliverNetworkPacket

\* It answers false: the request becomes the reply and is written back.
AnswerEcho == DeliverAndDrop

\* gTcpHandler: a segment is queued at an endpoint of the stack.
DeliverTcp == DeliverNetworkPacket

\* The stack or the handler is done with a packet.
PacketDone(p) ==
    /\ p \in packets
    /\ packets' = packets \ {p}
    /\ UNCHANGED <<epControl, dispatcher, attaches, eventfd, epLoop, views, iovecs, read>>

EpNext ==
    \/ Attach \/ Stop \/ Detach
    \/ NextIovecs \/ ReadStopped \/ ReadError \/ Unknown
    \/ DeliverUdp \/ DropMalformed \/ DeliverEcho \/ AnswerEcho \/ DeliverTcp
    \/ \E n \in 1 .. Upto[Len(Sizes)] : ReadPacket(n)
    \/ \E p \in packets : PacketDone(p)

-------------------------------------------------------------------------------
(* Properties.                                                                *)

\* When Attach(nil) has returned, the loop has ended: no packet is delivered to a
\* dispatcher that is nil, nor to one that the stack has taken away.
QuietWhenDetached == LoopAlive => dispatcher
===============================================================================
