------------------------------ MODULE SystemTun ------------------------------
(***************************************************************************)
(* The packet loop of the system stack (nat/nat.go, nat/udp.go,            *)
(* nat/icmp.go): it reads a packet into a buffer, gives buffer and packet  *)
(* to the handler of a datagram or of an echo request and takes another    *)
(* buffer from the pool, or goes on with the same one.                     *)
(*                                                                         *)
(* A block is a piece of memory; a buf.Buffer is a block with whether it   *)
(* is the buffer the loop began with, which its defer will release.  Of    *)
(* what a block holds the model keeps the flow (source and destination) of *)
(* the last packet read into it and whether both its addresses are still   *)
(* there: the loop rewrites packets in place.                              *)
(***************************************************************************)
EXTENDS Naturals, FiniteSets

CONSTANTS
    Flows,     \* pairs of a source and a destination
    V6Flows,   \* those between IPv6 addresses
    NoFlow,    \* what else a block may hold
    First,     \* the block of the first buffer
    Bufs,      \* bound: the other blocks of the pool
    Mtus,      \* the values TunConfig.MTU may have
    BufSize,   \* buf.Size
    MaxSessions \* bound on the reply functions looked at

ASSUME SystemTunAssumption ==
    /\ V6Flows \subseteq Flows
    /\ NoFlow \notin Flows
    /\ First \notin Bufs
    /\ Mtus \subseteq Nat
    /\ BufSize \in Nat
    /\ MaxSessions \in Nat

VARIABLES
    mtu,        \* SystemTun.mtu
    sysLoop,    \* where dispatchLoop is
    cache,      \* the buffer of the loop
    pkt,        \* the packet read
    firstLive,  \* whether the first Buffer has not been released
    sysHeld,    \* packets in the hands of handlers
    pool,       \* blocks a buf.New may return
    contents,   \* what each block holds
    closures    \* reply functions that sessions keep

sysVars == <<mtu, sysLoop, cache, pkt, firstLive, sysHeld, pool, contents, closures>>

SysBlocks == Bufs \cup {First}
Kinds == {"tcp", "udp", "echo", "other"}
\* body: the bytes behind the IP header, where the loop expects the transport header:
\* 1 is one of them, 2 is two or three, 4 is four to seven, 8 is more.
Bodies == {1, 2, 4, 8}
\* The kernel gives packets of at most the MTU.  The last fragment of a large IPv4
\* datagram may be shorter than a transport header (an IPv6 fragment begins with a
\* header of 8 bytes, and TCP is not fragmented).
Packets ==
    {p \in [kind : Kinds, flow : Flows, len : 1 .. mtu, body : Bodies] :
        p.body < 8 => p.kind \in {"udp", "echo"} /\ p.flow \notin V6Flows /\ p.len <= BufSize}
NoPacket == [kind |-> "none", flow |-> NoFlow, len |-> 0, body |-> 8]

Holding(f, both) == [flow |-> f, both |-> both]
Nothing == Holding(NoFlow, FALSE)

SystemInit ==
    /\ mtu \in Mtus
    /\ sysLoop = "start"
    /\ cache = [block |-> First, first |-> TRUE]
    /\ pkt = NoPacket
    /\ firstLive = TRUE
    /\ sysHeld = {}
    /\ pool = Bufs
    /\ contents = [b \in SysBlocks |-> Nothing]
    /\ closures = {}

\* New(): go t.dispatchLoop(); cache := buf.NewSize(mtu)
NewSize ==
    /\ sysLoop = "start"
    /\ sysLoop' = "read"
    /\ UNCHANGED <<mtu, cache, pkt, firstLive, sysHeld, pool, contents, closures>>

\* Variant: the first buffer is a buf.New as well.
BufferLenSame(c) == BufSize

\* data: as long as the MTU in the first buffer, buf.Size in every later one.
BufferLen(c) == IF c.first THEN mtu ELSE BufSize

\* What does not fit in the buffer is lost.
SystemRead(p) ==
    /\ sysLoop = "read"
    /\ pkt' = p
    /\ contents' = [contents EXCEPT ![cache.block] = Holding(p.flow, TRUE)]
    /\ sysLoop' = "deliver"
    /\ UNCHANGED <<mtu, cache, firstLive, sysHeld, pool, closures>>

\* The device fails: break.  defer cache.Release() took the value of cache when
\* the loop began, so it releases the first Buffer, whoever has it now; the last
\* one is left to the garbage collector.
SystemReadFails ==
    /\ sysLoop = "read"
    /\ sysLoop' = "ended"
    /\ pool' = IF firstLive THEN pool \cup {First} ELSE pool
    /\ firstLive' = FALSE
    /\ pkt' = NoPacket
    /\ UNCHANGED <<mtu, cache, sysHeld, contents, closures>>

-------------------------------------------------------------------------------
(* deliverPacket                                                              *)

Truncated == pkt.len > BufferLen(cache)

Panic ==
    /\ sysLoop' = "panic"
    /\ UNCHANGED <<mtu, cache, pkt, firstLive, sysHeld, pool, contents, closures>>

\* ipHdr.Payload() slices up to the length the header tells, behind the end of the
\* buffer; nothing recovers the panic.
PayloadPanics ==
    /\ sysLoop = "deliver"
    /\ Truncated
    /\ Panic

\* The ports of a datagram are its first four bytes; of an echo request the code is
\* the second byte, and the reply's checksum, when the loop answers, the next two.
HeaderPanics ==
    /\ sysLoop = "deliver"
    /\ ~Truncated
    /\ pkt.kind \in {"udp", "echo"}
    /\ pkt.body < 4
    /\ Panic

\* The loop keeps the buffer.
Reuse(holds) ==
    /\ sysLoop = "deliver"
    /\ sysLoop' = "read"
    /\ pkt' = NoPacket
    /\ contents' = [contents EXCEPT ![cache.block] = holds]
    /\ UNCHANGED <<mtu, cache, firstLive, sysHeld, pool, closures>>

\* processIPv4, processIPv6 of the forwarder put other addresses into the segment and
\* write it back, or drop it as it is.
ForwardTcp ==
    /\ pkt.kind = "tcp"
    /\ ~Truncated
    /\ \E both \in BOOLEAN : Reuse(Holding(pkt.flow, both))

\* Another protocol, or an ICMP message other than an echo request (whose payload is
\* taken as well: PayloadPanics).
Drop ==
    /\ pkt.kind = "other"
    /\ Reuse(contents[cache.block])

\* The handler gets the buffer with a function that writes replies; a session of
\* the flow that is there already goes on with the one it has.  No reply function
\* has a bearing on another, so the model may follow a few of them.
HandOver(kind, both, cut) ==
    /\ contents' = [contents EXCEPT ![cache.block] = Holding(pkt.flow, both)]
    /\ sysHeld' = sysHeld \cup {[buf |-> cache, holds |-> Holding(pkt.flow, both), cut |-> cut]}
    /\ \/ UNCHANGED closures
       \/ /\ Cardinality(closures) < MaxSessions
          /\ ~\E c \in closures : c.kind = kind /\ c.flow = pkt.flow
          /\ closures' = closures \cup {[kind |-> kind, flow |-> pkt.flow, block |-> cache.block]}
    /\ pkt' = NoPacket
    /\ UNCHANGED <<mtu, cache, firstLive, pool>>

\* The source overwrites the destination; cache.Advance goes 8 bytes beyond the IP
\* header, behind the end of a datagram that is shorter (cut); go
\* t.handler.NewPacket; return true.
ProcessUdp ==
    /\ sysLoop = "deliver"
    /\ pkt.kind = "udp"
    /\ ~Truncated
    /\ pkt.body >= 4
    /\ sysLoop' = "renew"
    /\ HandOver("udp", FALSE, pkt.body < 8)

\* Variant: the result of NewPingPacket is not passed on.
ProcessEchoFalse ==
    /\ sysLoop = "deliver"
    /\ pkt.kind = "echo"
    /\ ~Truncated
    /\ pkt.body >= 2
    /\ sysLoop' = "read"
    /\ HandOver("echo", TRUE, FALSE)

\* Source and destination are swapped; NewPingPacket answers true.
ProcessEcho ==
    /\ sysLoop = "deliver"
    /\ pkt.kind = "echo"
    /\ ~Truncated
    /\ pkt.body >= 2
    /\ sysLoop' = "renew"
    /\ HandOver("echo", TRUE, FALSE)

\* It answers false: the request becomes the reply, in place.
AnswerInPlace ==
    /\ pkt.kind = "echo"
    /\ ~Truncated
    /\ pkt.body >= 4
    /\ Reuse(Holding(pkt.flow, TRUE))

\* cache = buf.New(): a block of the pool for buf.Size, where the first one comes
\* only if it is not larger.
NewBuffer(b) ==
    /\ sysLoop = "renew"
    /\ b \in pool
    /\ b = First => mtu <= BufSize
    /\ cache' = [block |-> b, first |-> FALSE]
    /\ pool' = pool \ {b}
    /\ sysLoop' = "read"
    /\ UNCHANGED <<mtu, pkt, firstLive, sysHeld, contents, closures>>

-------------------------------------------------------------------------------
(* The handlers and the other users of the pool                               *)

\* Whoever looks at the bytes of a buffer that ends before it begins panics.
CutPanics(p) ==
    /\ p \in sysHeld
    /\ p.cut
    /\ Panic

\* A handler releases the buffer of a packet; a Buffer released before is empty.
ReleasePacket(p) ==
    /\ p \in sysHeld
    /\ sysHeld' = sysHeld \ {p}
    /\ firstLive' = (firstLive /\ ~p.buf.first)
    /\ pool' = IF p.buf.first /\ ~firstLive THEN pool ELSE pool \cup {p.buf.block}
    /\ UNCHANGED <<mtu, sysLoop, cache, pkt, contents, closures>>

\* Another part of the process has a block of the pool for a while.
UsedElsewhere(b) ==
    /\ b \in pool
    /\ contents' = [contents EXCEPT ![b] = Nothing]
    /\ UNCHANGED <<mtu, sysLoop, cache, pkt, firstLive, sysHeld, pool, closures>>

\* The read loop of a session ends, and its reply function with it.
SessionEnds(c) ==
    /\ c \in closures
    /\ closures' = closures \ {c}
    /\ UNCHANGED <<mtu, sysLoop, cache, pkt, firstLive, sysHeld, pool, contents>>

\* A panic ends the process.
SystemNext ==
    /\ sysLoop # "panic"
    /\ \/ NewSize \/ SystemReadFails \/ PayloadPanics \/ HeaderPanics
       \/ \E p \in Packets : SystemRead(p)
       \/ ForwardTcp \/ Drop \/ ProcessUdp \/ ProcessEcho \/ AnswerInPlace
       \/ \E b \in SysBlocks : NewBuffer(b) \/ UsedElsewhere(b)
       \/ \E p \in sysHeld : ReleasePacket(p) \/ CutPanics(p)
       \/ \E c \in closures : SessionEnds(c)

-------------------------------------------------------------------------------
(* Properties.                                                                *)

\* The loop has ended, or the process has.
Over == sysLoop \in {"ended", "panic"}

\* A handler finds in its buffer the packet it was given, as the loop rewrote it,
\* however many packets the loop reads and rewrites meanwhile; only the packet in the
\* first buffer is lost when it is still in a handler's hands as the loop ends.
HeldIntact ==
    \A p \in sysHeld :
        contents[p.buf.block] # p.holds => p.buf.first /\ Over

\* The process panics on no packet with a whole transport header that a buffer of the
\* MTU would have held: only with an MTU above buf.Size, and then only after the loop
\* gave its first buffer away, or, with any MTU, on a fragment that ends within the
\* transport header, in the loop or in a handler's hands.
PanicNeedsCutPacket ==
    sysLoop = "panic" =>
        \/ mtu > BufSize /\ ~cache.first
        \/ pkt.body < 8
        \/ \E p \in sysHeld : p.cut
===============================================================================
