--------------------------- MODULE TunDeviceProofs ---------------------------
(***************************************************************************)
(* Proofs about the packet loops of both stacks, for any flows, buffers,   *)
(* MTUs and sizes of views, and about the replies of their sessions.       *)
(***************************************************************************)
EXTENDS TunDevice, TLAPS

-------------------------------------------------------------------------------
(* The system stack.                                                          *)

Buffers == [block : SysBlocks, first : BOOLEAN]
Holdings == [flow : Flows \cup {NoFlow}, both : BOOLEAN]
HeldPackets == [buf : Buffers, holds : Holdings, cut : BOOLEAN]

SysType ==
    /\ mtu \in Mtus
    /\ sysLoop \in {"start", "read", "deliver", "renew", "panic", "ended"}
    /\ cache \in Buffers
    /\ pkt \in Packets \cup {NoPacket}
    /\ firstLive \in BOOLEAN
    /\ sysHeld \subseteq HeldPackets
    /\ pool \subseteq SysBlocks
    /\ contents \in [SysBlocks -> Holdings]

\* The loop has the block of its buffer.
Owning == sysLoop \in {"start", "read", "deliver"}

\* The loop's buffer is in nobody else's hands.
CacheInv ==
    /\ cache.first => cache.block = First
    /\ Owning =>
        /\ cache.block \notin pool
        /\ \A p \in sysHeld : p.buf.block # cache.block
        /\ cache.first => firstLive
        /\ firstLive /\ cache.block = First => cache.first
    /\ sysLoop = "deliver" => pkt \in Packets

\* Each handler has a buffer of its own, which is not in the pool.
HeldInv ==
    \A p \in sysHeld :
        /\ p.buf.first => p.buf.block = First
        /\ firstLive /\ p.buf.block = First => p.buf.first
        /\ (Over /\ p.buf.first) \/ p.buf.block \notin pool
        /\ p.buf.first /\ ~Over => firstLive
        /\ \A q \in sysHeld : q.buf.block = p.buf.block => q = p

\* The first Buffer is released once, by a handler or as the loop ends.
FirstInv ==
    /\ firstLive => First \notin pool
    /\ sysLoop = "ended" => ~firstLive

SysInv == SysType /\ CacheInv /\ HeldInv /\ FirstInv /\ HeldIntact /\ PanicNeedsCutPacket

LEMMA SysInitial == SystemInit => SysInv
BY SystemTunAssumption
   DEF SystemInit, SysInv, SysType, CacheInv, HeldInv, FirstInv, HeldIntact, PanicNeedsCutPacket,
       Buffers, SysBlocks, Owning, NoPacket, Nothing, Holding, Holdings

\* A panic changes nothing but where the loop is.
LEMMA PanicStep ==
    ASSUME SysInv, Panic,
           \/ mtu > BufSize /\ ~cache.first
           \/ pkt.body < 8
           \/ \E p \in sysHeld : p.cut
    PROVE  SysInv'
BY DEF Panic, SysInv, SysType, CacheInv, HeldInv, FirstInv, HeldIntact, PanicNeedsCutPacket, Owning,
       Over, Packets

LEMMA PanicsStep ==
    ASSUME SysInv, PayloadPanics \/ HeaderPanics \/ \E p \in sysHeld : CutPanics(p)
    PROVE  SysInv'
<1>1. CASE PayloadPanics
  <2>1. pkt.len \in Nat /\ pkt.len <= mtu /\ mtu \in Nat /\ BufSize \in Nat
    BY <1>1, SystemTunAssumption DEF PayloadPanics, SysInv, SysType, CacheInv, Packets
  <2>2. mtu > BufSize /\ ~cache.first
    BY <1>1, <2>1 DEF PayloadPanics, Truncated, BufferLen
  <2>. QED
    BY <1>1, <2>2, PanicStep DEF PayloadPanics
<1>2. CASE HeaderPanics
  <2>1. pkt.body < 8
    BY <1>2 DEF HeaderPanics, SysInv, CacheInv, Packets, Bodies
  <2>. QED
    BY <1>2, <2>1, PanicStep DEF HeaderPanics
<1>3. CASE \E p \in sysHeld : CutPanics(p)
  BY <1>3, PanicStep DEF CutPanics
<1>. QED
  BY <1>1, <1>2, <1>3

\* What the loop puts into its own buffer disturbs nobody.
LEMMA RewriteIntact ==
    ASSUME SysInv, Owning, NEW holds \in Holdings,
           contents' = [contents EXCEPT ![cache.block] = holds]
    PROVE  /\ contents' \in [SysBlocks -> Holdings]
           /\ contents'[cache.block] = holds
           /\ \A p \in sysHeld : contents'[p.buf.block] = contents[p.buf.block]
BY DEF SysInv, SysType, CacheInv, HeldPackets, Buffers

\* The loop reads, drops, forwards or answers a packet: it keeps its buffer.
LEMMA ReuseStep ==
    ASSUME SysInv, ForwardTcp \/ Drop \/ AnswerInPlace \/ \E p \in Packets : SystemRead(p)
    PROVE  SysInv'
<1>1. PICK holds \in Holdings :
         /\ contents' = [contents EXCEPT ![cache.block] = holds]
  <2>1. CASE Drop
    BY <2>1 DEF Drop, Reuse, SysInv, SysType, Buffers
  <2>2. CASE ForwardTcp \/ AnswerInPlace
    <3>1. pkt.flow \in Flows
      BY <2>2 DEF ForwardTcp, AnswerInPlace, Reuse, SysInv, CacheInv, Packets
    <3>. QED
      BY <2>2, <3>1 DEF ForwardTcp, AnswerInPlace, Reuse, Holding, Holdings
  <2>3. CASE \E p \in Packets : SystemRead(p)
    BY <2>3 DEF SystemRead, Packets, Holding, Holdings
  <2>. QED
    BY <2>1, <2>2, <2>3
<1>2. /\ Owning /\ sysLoop' \in {"read", "deliver"} /\ ~Over
      /\ UNCHANGED <<mtu, cache, firstLive, sysHeld, pool>>
      /\ pkt' \in Packets \cup {NoPacket}
      /\ sysLoop' = "deliver" => pkt' \in Packets
  BY DEF ForwardTcp, Drop, AnswerInPlace, Reuse, SystemRead, Owning, Over
<1>3. /\ contents' \in [SysBlocks -> Holdings]
      /\ \A p \in sysHeld : contents'[p.buf.block] = contents[p.buf.block]
  BY <1>1, <1>2, RewriteIntact
<1>4. Packets' = Packets
  BY <1>2 DEF Packets
<1>5. SysType' /\ CacheInv' /\ FirstInv' /\ PanicNeedsCutPacket'
  BY <1>2, <1>3, <1>4 DEF SysInv, SysType, CacheInv, FirstInv, PanicNeedsCutPacket, Owning
<1>6. HeldInv' /\ HeldIntact'
  BY <1>2, <1>3 DEF SysInv, HeldInv, HeldIntact, Over
<1>. QED
  BY <1>5, <1>6 DEF SysInv

\* The loop begins, or ends and gives the first buffer back.
LEMMA LoopStep ==
    ASSUME SysInv, NewSize \/ SystemReadFails
    PROVE  SysInv'
<1>. USE SystemTunAssumption DEF SysInv, SysType, Buffers, SysBlocks, Owning, Over, CacheInv, HeldInv,
       FirstInv, HeldIntact, PanicNeedsCutPacket, Packets
<1>1. CASE NewSize
  BY <1>1 DEF NewSize
<1>2. CASE SystemReadFails
  BY <1>2 DEF SystemReadFails
<1>. QED
  BY <1>1, <1>2

\* A packet goes to a handler with its buffer.
LEMMA GiveStep ==
    ASSUME SysInv, ProcessUdp \/ ProcessEcho
    PROVE  SysInv'
<1>1. PICK both \in BOOLEAN, cut \in BOOLEAN :
         /\ contents' = [contents EXCEPT ![cache.block] = Holding(pkt.flow, both)]
         /\ sysHeld' = sysHeld \cup {[buf |-> cache, holds |-> Holding(pkt.flow, both), cut |-> cut]}
  <2>1. CASE ProcessUdp
    <3>1. HandOver("udp", FALSE, pkt.body < 8)
      BY <2>1 DEF ProcessUdp
    <3>2. (pkt.body < 8) \in BOOLEAN
      OBVIOUS
    <3>3. ASSUME NEW cut \in BOOLEAN, HandOver("udp", FALSE, cut)
          PROVE  /\ contents' = [contents EXCEPT ![cache.block] = Holding(pkt.flow, FALSE)]
                 /\ sysHeld' = sysHeld \cup {[buf |-> cache, holds |-> Holding(pkt.flow, FALSE), cut |-> cut]}
      BY <3>3 DEF HandOver
    <3>. QED
      BY <3>1, <3>2, <3>3
  <2>2. CASE ProcessEcho
    BY <2>2 DEF ProcessEcho, HandOver
  <2>. QED
    BY <2>1, <2>2
<1>. DEFINE holds == Holding(pkt.flow, both)
            given == [buf |-> cache, holds |-> holds, cut |-> cut]
<1>2. /\ sysLoop = "deliver" /\ sysLoop' = "renew" /\ pkt' = NoPacket
      /\ UNCHANGED <<mtu, cache, firstLive, pool>>
  BY DEF ProcessUdp, ProcessEcho, HandOver
<1>3. holds \in Holdings
  BY <1>2 DEF SysInv, CacheInv, Packets, Holding, Holdings
<1>4. given \in HeldPackets /\ given.buf = cache /\ given.holds = holds
  BY <1>3 DEF SysInv, SysType, HeldPackets
<1>5. /\ contents' \in [SysBlocks -> Holdings] /\ contents'[cache.block] = holds
      /\ \A p \in sysHeld : contents'[p.buf.block] = contents[p.buf.block]
  BY <1>1, <1>2, <1>3, RewriteIntact DEF Owning
<1>6. sysHeld' = sysHeld \cup {given}
  BY <1>1
<1>. HIDE DEF holds, given
<1>7. SysType' /\ CacheInv' /\ FirstInv' /\ PanicNeedsCutPacket'
  BY <1>2, <1>4, <1>5, <1>6 DEF SysInv, SysType, CacheInv, FirstInv, PanicNeedsCutPacket, Owning, Packets
<1>8. HeldInv'
  BY <1>2, <1>4, <1>6 DEF SysInv, HeldInv, CacheInv, Owning, Over
<1>9. HeldIntact'
  BY <1>2, <1>4, <1>5, <1>6 DEF SysInv, HeldIntact, Over
<1>. QED
  BY <1>7, <1>8, <1>9 DEF SysInv

\* The loop takes a buffer of the pool.
LEMMA NewBufferStep ==
    ASSUME SysInv, NEW b \in SysBlocks, NewBuffer(b)
    PROVE  SysInv'
BY SystemTunAssumption DEF NewBuffer, SysInv, SysType, Buffers, SysBlocks, Owning, Over, CacheInv,
       HeldInv, FirstInv, HeldIntact, PanicNeedsCutPacket, Packets

\* Handlers release buffers and the pool is used, by whomever and whenever.
LEMMA OthersStep ==
    ASSUME SysInv, sysLoop # "panic",
           \/ \E p \in sysHeld : ReleasePacket(p)
           \/ \E b \in SysBlocks : UsedElsewhere(b)
           \/ \E c \in closures : SessionEnds(c)
    PROVE  SysInv'
<1>. USE SystemTunAssumption DEF SysInv, SysType, SysBlocks, Owning, Over, CacheInv, HeldInv,
       FirstInv, HeldIntact, PanicNeedsCutPacket, Packets
<1>1. ASSUME NEW p \in sysHeld, ReleasePacket(p) PROVE SysInv'
  BY <1>1 DEF ReleasePacket, HeldPackets, Buffers
<1>2. ASSUME NEW b \in SysBlocks, UsedElsewhere(b) PROVE SysInv'
  <2>1. Nothing \in Holdings
    BY DEF Nothing, Holding, Holdings
  <2>2. \A p \in sysHeld : p.buf.block = b => p.buf.first /\ Over
    BY <1>2 DEF UsedElsewhere
  <2>3. contents' \in [SysBlocks -> Holdings] /\ \A p \in sysHeld :
            p.buf.block # b => contents'[p.buf.block] = contents[p.buf.block]
    BY <1>2, <2>1 DEF UsedElsewhere, HeldPackets, Buffers
  <2>. QED
    BY <1>2, <2>2, <2>3 DEF UsedElsewhere
<1>3. ASSUME NEW c \in closures, SessionEnds(c) PROVE SysInv'
  BY <1>3 DEF SessionEnds
<1>. QED
  BY <1>1, <1>2, <1>3

-------------------------------------------------------------------------------
(* The gVisor stack.                                                          *)

EpType ==
    /\ epLoop \in {"none", "prepare", "read", "deliver", "ended"}
    /\ views \in [Places -> 0 .. MaxViews]
    /\ iovecs \in [Places -> 0 .. MaxViews]
    /\ read \subseteq ViewBlocks
    /\ packets \subseteq SUBSET ViewBlocks

\* A view in the row is the memory readv writes to, and in no packet; the row is
\* empty up to some place and full behind it, and full while the loop reads.
RowInv ==
    /\ \A i \in Places : views[i] # 0 =>
           iovecs[i] = views[i] /\ <<i, views[i]>> \notin EpHeld \cup read
    /\ \A i, j \in Places : i <= j /\ views[i] # 0 => views[j] # 0
    /\ epLoop = "read" => \A i \in Places : views[i] # 0
    /\ epLoop # "deliver" => read = {}

EpInv == EpType /\ RowInv /\ QuietWhenDetached

LEMMA PlacesRange == Places \subseteq Nat \ {0} /\ 1 \in Places
BY EndpointAssumption DEF Places

LEMMA EpInitial == EpInit => EpInv
BY PlacesRange, EndpointAssumption
   DEF EpInit, EpInv, EpType, RowInv, QuietWhenDetached, LoopAlive, EpHeld

\* Attaching and stopping leave the row alone, and the loop ends before Detach.
LEMMA AttachStep ==
    ASSUME EpInv, Attach \/ Stop \/ Detach \/ ReadStopped \/ ReadError
    PROVE  EpInv'
BY DEF Attach, Stop, Detach, ReadStopped, ReadError, EpInv, EpType, RowInv, QuietWhenDetached,
       LoopAlive, EpHeld

\* The row is filled up with views that no packet has.
LEMMA NextIovecsStep ==
    ASSUME EpInv, NextIovecs
    PROVE  EpInv' /\ \A i \in Places : views[i] # 0 => views'[i] = views[i]
<1>. USE DEF EpInv, EpType
<1>1. \A i \in Places : FreshViews[i] \in 1 .. MaxViews /\ <<i, FreshViews[i]>> \notin EpHeld
  BY DEF NextIovecs, HasFreshViews, FreshViews
<1>2. \A i \in Places : i \in NilPrefix <=> views[i] = 0
  BY PlacesRange, EndpointAssumption DEF NilPrefix, RowInv, Places
<1>3. /\ views' = [i \in Places |-> IF i \in NilPrefix THEN FreshViews[i] ELSE views[i]]
      /\ iovecs' = [i \in Places |-> IF i \in NilPrefix THEN FreshViews[i] ELSE iovecs[i]]
      /\ epLoop = "prepare" /\ epLoop' = "read"
      /\ UNCHANGED <<dispatcher, read, packets>>
  BY DEF NextIovecs
<1>4. \A i \in Places : views'[i] # 0 /\ iovecs'[i] = views'[i] /\ views'[i] \in 0 .. MaxViews
  <2>. SUFFICES ASSUME NEW i \in Places
                PROVE  views'[i] # 0 /\ iovecs'[i] = views'[i] /\ views'[i] \in 0 .. MaxViews
    OBVIOUS
  <2>1. CASE i \in NilPrefix
    <3>1. views'[i] = FreshViews[i] /\ iovecs'[i] = FreshViews[i]
      BY <1>3, <2>1
    <3>2. FreshViews[i] \in 1 .. MaxViews
      BY <1>1
    <3>3. MaxViews \in Nat
      BY EndpointAssumption
    <3>. QED
      BY <3>1, <3>2, <3>3
  <2>2. CASE i \notin NilPrefix
    <3>1. views'[i] = views[i] /\ iovecs'[i] = iovecs[i]
      BY <1>3, <2>2
    <3>. QED
      BY <1>2, <2>2, <3>1 DEF RowInv
  <2>. QED
    BY <2>1, <2>2
<1>5. EpType'
  BY <1>3, <1>4
<1>6. EpHeld' = EpHeld
  BY <1>3 DEF EpHeld
<1>7. \A i \in Places : <<i, views'[i]>> \notin EpHeld \cup read
  BY <1>1, <1>2, <1>3 DEF RowInv
<1>8. RowInv'
  BY <1>3, <1>4, <1>6, <1>7 DEF RowInv
<1>. QED
  BY <1>2, <1>3, <1>5, <1>8 DEF QuietWhenDetached, LoopAlive

\* A packet takes the first views out of the row.
LEMMA ReadPacketStep ==
    ASSUME EpInv, NEW n \in Nat, ReadPacket(n)
    PROVE  EpInv'
<1>. USE DEF EpInv, EpType
<1>1. /\ read' = {<<i, views[i]>> : i \in Pulled(n)}
      /\ views' = [i \in Places |-> IF i \in Pulled(n) THEN 0 ELSE views[i]]
      /\ epLoop = "read" /\ epLoop' = "deliver"
      /\ UNCHANGED <<dispatcher, iovecs, packets>>
  BY DEF ReadPacket
<1>2. Pulled(n) \subseteq Places
  BY DEF Pulled
<1>3. \A i, j \in Places : i <= j /\ j \in Pulled(n) => i \in Pulled(n)
  BY PlacesRange DEF Pulled
<1>4. \A i \in Places : views[i] # 0 /\ views[i] \in 1 .. MaxViews
  BY <1>1, EndpointAssumption DEF RowInv
<1>5. EpType'
  BY <1>1, <1>2, <1>4, EndpointAssumption DEF ViewBlocks
<1>6. EpHeld' = EpHeld
  BY <1>1 DEF EpHeld
<1>7. RowInv'
  BY <1>1, <1>2, <1>3, <1>4, <1>6, PlacesRange DEF RowInv
<1>. QED
  BY <1>1, <1>5, <1>7 DEF QuietWhenDetached, LoopAlive

\* A packet is delivered, dropped or let go.
LEMMA DeliverStep ==
    ASSUME EpInv, Unknown \/ DeliverNetworkPacket \/ DeliverAndDrop
                      \/ \E p \in packets : PacketDone(p)
    PROVE  EpInv'
<1>. USE DEF EpInv, EpType, RowInv, QuietWhenDetached, LoopAlive, EpHeld
<1>1. CASE Unknown
  BY <1>1 DEF Unknown
<1>2. CASE DeliverNetworkPacket
  BY <1>2 DEF DeliverNetworkPacket
<1>3. CASE DeliverAndDrop
  BY <1>3 DEF DeliverAndDrop
<1>4. ASSUME NEW p \in packets, PacketDone(p) PROVE EpInv'
  BY <1>4 DEF PacketDone
<1>. QED
  BY <1>1, <1>2, <1>3, <1>4

-------------------------------------------------------------------------------
(* The device.                                                                *)

Inv == SysInv /\ EpInv /\ impl \in {"system", "gvisor"}

LEMMA Initial == Init => Inv
BY SysInitial, EpInitial DEF Init, Inv

LEMMA SysKept == SysInv /\ UNCHANGED sysVars => SysInv'
BY DEF sysVars, SysInv, SysType, CacheInv, HeldInv, FirstInv, HeldIntact, PanicNeedsCutPacket, Owning,
       Over, Packets

LEMMA EpKept == EpInv /\ UNCHANGED epVars => EpInv'
BY DEF epVars, EpInv, EpType, RowInv, QuietWhenDetached, LoopAlive, EpHeld

\* Each stack keeps its invariant and does not touch the other.
LEMMA Step == Inv /\ [Next]_vars => Inv'
<1>. SUFFICES ASSUME Inv, [Next]_vars PROVE Inv'
  OBVIOUS
<1>. USE DEF Inv
<1>1. CASE UNCHANGED vars
  BY <1>1, SysKept, EpKept DEF vars
<1>2. CASE SystemNext /\ UNCHANGED <<impl, epVars>>
  BY <1>2, LoopStep, PanicsStep, ReuseStep, GiveStep, NewBufferStep, OthersStep, EpKept
     DEF SystemNext
<1>3. CASE EpNext /\ UNCHANGED <<impl, sysVars>>
  <2>1. ASSUME NEW n \in 1 .. Upto[Len(Sizes)], ReadPacket(n) PROVE EpInv'
    BY <2>1, ReadPacketStep
  <2>. QED
    BY <1>3, <2>1, AttachStep, NextIovecsStep, DeliverStep, SysKept
       DEF EpNext, DeliverUdp, DropMalformed, DeliverEcho, AnswerEcho, DeliverTcp
<1>. QED
  BY <1>1, <1>2, <1>3 DEF Next

\* The invariant of the packet loops (nat/nat.go, gvisor/dispatchers.go) holds always.
THEOREM Invariant == Spec => []Inv
BY Initial, Step, PTL DEF Spec

\* A handler finds in its buffer the packet it was given while the loop of nat/nat.go
\* goes on; at its end only the first buffer may be lost.
THEOREM PacketsIntact == Spec => []HeldIntact
BY Invariant, PTL DEF Inv, SysInv

\* The loop of nat/nat.go and its handlers panic only on a packet that a later buffer,
\* shorter than the MTU, cut, or on a fragment that ends within a transport header.
THEOREM PanicOnCutPacket == Spec => []PanicNeedsCutPacket
BY Invariant, PTL DEF Inv, SysInv

\* When Attach(nil) of gvisor/endpoint.go has returned, its loop delivers nothing.
THEOREM DetachedQuiet == Spec => []QuietWhenDetached
BY Invariant, PTL DEF Inv, EpInv

-------------------------------------------------------------------------------
(* The refinement.                                                            *)

Memory == <<Filling, Held>>

\* The steps of PacketHandoff, by what they do to the memory.
LEMMA ProvideMaps ==
    ASSUME NEW new \in SUBSET ((SysBlocks \cup ViewBlocks) \ Held),
           Filling' = Filling \cup new, Held' = Held
    PROVE  Handoff!Next
BY DEF Handoff!Next, Handoff!Provide

LEMMA HandOverMaps ==
    ASSUME NEW packet \in SUBSET Filling, packet # {},
           Filling' = Filling \ packet, Held' = Held \cup packet
    PROVE  Handoff!Next
BY DEF Handoff!Next, Handoff!HandOver

LEMMA LetGoMaps ==
    ASSUME Filling' = Filling, Held' \subseteq Held
    PROVE  Handoff!Next
<1>1. Held' = Held \ (Held \ Held')
  OBVIOUS
<1>. QED
  BY <1>1 DEF Handoff!Next, Handoff!LetGo

LEMMA DiscardMaps ==
    ASSUME Filling' \subseteq Filling, Held' = Held
    PROVE  Handoff!Next
<1>1. Filling' = Filling \ (Filling \ Filling')
  OBVIOUS
<1>. QED
  BY <1>1 DEF Handoff!Next, Handoff!Discard

\* Each step of the system stack is one of PacketHandoff or none.
LEMMA SystemHandsOff ==
    ASSUME SysInv, SystemNext, impl = "system", UNCHANGED <<impl, epVars>>
    PROVE  Handoff!Next \/ UNCHANGED Memory
<1>. USE DEF SysInv, SysType, CacheInv, HeldInv, Owning, Buffers, Over
<1>a. Filling = IF sysLoop \in {"read", "deliver"} THEN {cache.block} ELSE {}
  BY DEF Filling
<1>b. Filling' = IF sysLoop' \in {"read", "deliver"} THEN {cache'.block} ELSE {}
  BY DEF Filling
<1>c. Held = {p.buf.block : p \in sysHeld} /\ Held' = {p.buf.block : p \in sysHeld'}
  BY DEF Held
<1>1. CASE NewSize \/ \E b \in SysBlocks : NewBuffer(b)
  <2>1. Filling = {} /\ Held' = Held
    BY <1>a, <1>c, <1>1 DEF NewSize, NewBuffer
  <2>2. cache'.block \in SysBlocks /\ cache'.block \notin Held
    BY <1>c, <1>1 DEF NewSize, NewBuffer
  <2>3. Filling' = {cache'.block}
    BY <1>b, <1>1 DEF NewSize, NewBuffer
  <2>. QED
    BY <2>1, <2>2, <2>3, ProvideMaps
<1>2. CASE ProcessUdp \/ ProcessEcho
  <2>1. Filling = {cache.block} /\ Filling' = {}
    BY <1>a, <1>b, <1>2 DEF ProcessUdp, ProcessEcho
  <2>2. PICK holds, cut : sysHeld' = sysHeld \cup {[buf |-> cache, holds |-> holds, cut |-> cut]}
    BY <1>2 DEF ProcessUdp, ProcessEcho, HandOver
  <2>3. Held' = Held \cup {cache.block}
    <3>. DEFINE given == [buf |-> cache, holds |-> holds, cut |-> cut]
    <3>1. given.buf.block = cache.block /\ sysHeld' = sysHeld \cup {given}
      BY <2>2
    <3>. HIDE DEF given
    <3>. QED
      BY <1>c, <3>1
  <2>. QED
    BY <2>1, <2>3, HandOverMaps
<1>3. CASE \E p \in sysHeld : ReleasePacket(p)
  <2>1. Filling' = Filling /\ Held' \subseteq Held
    BY <1>a, <1>b, <1>c, <1>3 DEF ReleasePacket
  <2>2. Filling' = Filling
    BY <2>1
  <2>3. Held' \subseteq Held
    BY <2>1
  <2>. QED
    BY <2>2, <2>3, LetGoMaps
<1>4. CASE SystemReadFails \/ PayloadPanics \/ HeaderPanics \/ \E p \in sysHeld : CutPanics(p)
  <2>1. Filling' = {} /\ Held' = Held
    BY <1>b, <1>c, <1>4 DEF SystemReadFails, PayloadPanics, HeaderPanics, CutPanics, Panic
  <2>. QED
    BY <2>1, DiscardMaps
<1>5. CASE ForwardTcp \/ Drop \/ AnswerInPlace \/ \E p \in Packets : SystemRead(p)
  BY <1>a, <1>b, <1>c, <1>5 DEF ForwardTcp, Drop, AnswerInPlace, Reuse, SystemRead, Memory
<1>6. CASE \/ \E b \in SysBlocks : UsedElsewhere(b)
           \/ \E c \in closures : SessionEnds(c)
  BY <1>a, <1>b, <1>c, <1>6 DEF UsedElsewhere, SessionEnds, Memory
<1>. QED
  BY <1>1, <1>2, <1>3, <1>4, <1>5, <1>6 DEF SystemNext

\* Each step of the gVisor stack is one of PacketHandoff or none.
LEMMA GVisorHandsOff ==
    ASSUME EpInv, EpInv', EpNext, impl = "gvisor", UNCHANGED <<impl, sysVars>>
    PROVE  Handoff!Next \/ UNCHANGED Memory
<1>. DEFINE Row(v) == {<<i, v[i]>> : i \in {j \in Places : v[j] # 0}}
<1>. USE DEF EpInv, EpType, RowInv
<1>a. Filling = Row(views) /\ Filling' = Row(views')
  <2>1. epLoop = "read" => IovecBlocks = Row(views)
    BY DEF IovecBlocks
  <2>2. epLoop' = "read" => IovecBlocks' = Row(views')
    BY DEF IovecBlocks
  <2>3. Filling = Row(views) \cup (IF epLoop = "read" THEN IovecBlocks ELSE {})
    BY DEF Filling
  <2>4. Filling' = Row(views') \cup (IF epLoop' = "read" THEN IovecBlocks' ELSE {})
    BY DEF Filling
  <2>. QED
    BY <2>1, <2>2, <2>3, <2>4
<1>b. Held = EpHeld \cup read /\ Held' = EpHeld' \cup read'
  BY DEF Held
<1>. HIDE DEF Row
<1>1. CASE NextIovecs
  <2>1. views' \in [Places -> 0 .. MaxViews] /\ \A i \in Places : views[i] # 0 => views'[i] = views[i]
    BY <1>1, NextIovecsStep
  <2>2. Held' = Held
    BY <1>1, <1>b DEF NextIovecs, EpHeld
  <2>3. Row(views) \subseteq Row(views')
    BY <2>1 DEF Row
  <2>4. Row(views') \subseteq ViewBlocks \ Held'
    BY <1>b, EndpointAssumption DEF Row, ViewBlocks
  <2>5. /\ Row(views') \in SUBSET ((SysBlocks \cup ViewBlocks) \ Held)
        /\ Filling' = Filling \cup Row(views')
    BY <1>a, <2>2, <2>3, <2>4
  <2>. QED
    BY <2>2, <2>5, ProvideMaps
<1>2. ASSUME NEW n \in Nat, ReadPacket(n) PROVE Handoff!Next
  <2>1. /\ epLoop = "read" /\ packets' = packets /\ read = {}
        /\ read' = {<<i, views[i]>> : i \in Pulled(n)}
        /\ views' = [i \in Places |-> IF i \in Pulled(n) THEN 0 ELSE views[i]]
    BY <1>2 DEF ReadPacket
  <2>2. Pulled(n) \subseteq Places /\ 1 \in Pulled(n)
    BY PlacesRange DEF Pulled
  <2>3. read' \subseteq Row(views) /\ read' # {}
    <3>1. <<1, views[1]>> \in read'
      BY <2>1, <2>2
    <3>2. \A i \in Pulled(n) : <<i, views[i]>> \in Row(views)
      BY <2>1, <2>2 DEF Row
    <3>3. read' \subseteq Row(views)
      BY <2>1, <3>2
    <3>. QED
      BY <3>1, <3>3
  <2>4. Row(views') = Row(views) \ read'
    <3>1. \A i \in Places : i \in Pulled(n) => views'[i] = 0
      BY <2>1, <2>2
    <3>2. \A i \in Places : i \notin Pulled(n) => views'[i] = views[i]
      BY <2>1, <2>2
    <3>3. \A i \in Places : <<i, views[i]>> \in read' <=> i \in Pulled(n)
      BY <2>1, <2>2
    <3>4. ASSUME NEW x \in Row(views') PROVE x \in Row(views) \ read'
      <4>1. PICK i \in Places : views'[i] # 0 /\ x = <<i, views'[i]>>
        BY DEF Row
      <4>2. i \notin Pulled(n) /\ x = <<i, views[i]>> /\ views[i] # 0
        BY <3>1, <3>2, <4>1
      <4>. QED
        BY <3>3, <4>2 DEF Row
    <3>5. Row(views) \ read' \subseteq Row(views')
      BY <3>2, <3>3 DEF Row
    <3>. QED
      BY <3>4, <3>5
  <2>5. Held' = Held \cup read'
    BY <1>b, <2>1 DEF EpHeld
  <2>. QED
    BY <1>a, <2>3, <2>4, <2>5, HandOverMaps
<1>3. ASSUME views' = views, Held' \subseteq Held PROVE Handoff!Next
  BY <1>3, <1>a, LetGoMaps
<1>4. CASE Attach \/ Stop \/ Detach \/ ReadStopped \/ ReadError
  BY <1>3, <1>4, <1>b DEF Attach, Stop, Detach, ReadStopped, ReadError, EpHeld
<1>5. CASE Unknown \/ DeliverNetworkPacket \/ DeliverAndDrop \/ \E p \in packets : PacketDone(p)
  BY <1>3, <1>5, <1>b DEF Unknown, DeliverNetworkPacket, DeliverAndDrop, PacketDone, EpHeld
<1>. QED
  <2>1. ASSUME NEW n \in 1 .. Upto[Len(Sizes)], ReadPacket(n) PROVE Handoff!Next
    BY <2>1, <1>2
  <2>. QED
  BY <1>1, <1>4, <1>5, <2>1
     DEF EpNext, DeliverUdp, DropMalformed, DeliverEcho, AnswerEcho, DeliverTcp

LEMMA InitMaps == Init => Handoff!Init
BY DEF Init, SystemInit, EpInit, Handoff!Init, Filling, Held, EpHeld, IovecBlocks

LEMMA StepMaps == Inv /\ Inv' /\ [Next]_vars => [Handoff!Next]_Memory
<1>. SUFFICES ASSUME Inv, Inv', [Next]_vars PROVE [Handoff!Next]_Memory
  OBVIOUS
<1>1. CASE UNCHANGED vars
  BY <1>1 DEF vars, sysVars, epVars, Memory, Filling, Held, EpHeld, IovecBlocks
<1>2. CASE impl = "system" /\ SystemNext /\ UNCHANGED <<impl, epVars>>
  BY <1>2, SystemHandsOff DEF Inv
<1>3. CASE impl = "gvisor" /\ EpNext /\ UNCHANGED <<impl, sysVars>>
  BY <1>3, GVisorHandsOff DEF Inv
<1>. QED
  BY <1>1, <1>2, <1>3 DEF Next

\* Both packet loops (nat/nat.go, gvisor/dispatchers.go) read nothing into memory that
\* a handler has: they implement PacketHandoff.
THEOREM BothHandOff == Spec => ImplementsHandoff
BY Invariant, InitMaps, StepMaps, PTL DEF Spec, ImplementsHandoff, Handoff!Spec, Memory

\* So no packet in a handler's hands is overwritten, in either stack.
THEOREM NothingOverwritten == Spec => []Handoff!NeverOverwritten
<1>1. Handoff!Init => Handoff!NeverOverwritten
  BY DEF Handoff!Init, Handoff!NeverOverwritten
<1>2. Handoff!NeverOverwritten /\ [Handoff!Next]_Memory => Handoff!NeverOverwritten'
  BY DEF Handoff!NeverOverwritten, Handoff!Next, Handoff!Provide, Handoff!HandOver, Handoff!LetGo,
         Handoff!Discard, Memory
<1>. QED
  BY <1>1, <1>2, BothHandOff, PTL DEF ImplementsHandoff, Handoff!Spec, Memory

-------------------------------------------------------------------------------
(* The replies.                                                               *)

\* An echo reply tells its length truly, but for the error of an IPv4 host.
LEMMA EchoLengths ==
    ASSUME NEW hdr \in Nat, NEW request \in Nat, NEW msg \in Messages
    PROVE  /\ EchoLength6(hdr, request, msg) = hdr + EchoBody(hdr, request, msg)
           /\ ~msg.unreachable =>
                EchoLength4(hdr, request, msg) = hdr + EchoBody(hdr, request, msg)
BY DEF EchoLength6, EchoLength4, EchoBody

LEMMA UdpLengths ==
    ASSUME NEW hdr \in Nat, NEW n \in Nat
    PROVE  hdr + (8 + n) = hdr + 8 + n
OBVIOUS

\* A request that its handler still has is whole in its buffer, so the addresses the
\* IPv6 checksum is computed with are the flow's.
LEMMA LentIntact ==
    ASSUME HeldIntact, NEW c \in closures, Lent(c), ~Over
    PROVE  Intact(c)
BY DEF Lent, Intact, HeldIntact

LEMMA SystemTrue == ASSUME HeldIntact PROVE SystemRepliesTrue
<1>. USE TunDeviceAssumption
<1>1. ASSUME NEW c \in closures, NEW hdr \in HeaderLens, NEW n \in Requests, NEW from \in Senders
      PROVE  UdpReplyTrue(SystemUdp(c, hdr, n, from), c.flow, from)
  <2>1. CASE c.flow \in V6Flows
    BY <2>1, UdpLengths DEF UdpReplyTrue, SystemUdp, SystemUdp6, Fits6, Senders, SameFamily
  <2>2. CASE c.flow \notin V6Flows
    BY <2>2 DEF UdpReplyTrue, SystemUdp, SystemUdp4, Fits4, Senders, SameFamily
  <2>. QED
    BY <2>1, <2>2
<1>2. ASSUME NEW c \in closures, NEW hdr \in HeaderLens,
             NEW request \in Requests, NEW msg \in Messages
      PROVE  LET r == SystemEcho(c, hdr, request, msg)
                 error4 == msg.unreachable /\ c.flow \notin V6Flows
             IN  /\ r.told # r.written => error4
                 /\ ~r.checksum =>
                      error4 \/ (c.flow \in V6Flows /\ (~Lent(c) \/ Over))
                 /\ ~r.quote => msg.unreachable
  <2>1. CASE c.flow \in V6Flows
    BY <2>1, EchoLengths, LentIntact DEF SystemEcho, SystemEcho6
  <2>2. CASE c.flow \notin V6Flows
    BY <2>2, EchoLengths DEF SystemEcho, SystemEcho4
  <2>. QED
    BY <2>1, <2>2
<1>. QED
  BY <1>1, <1>2 DEF SystemRepliesTrue

LEMMA GVisorTrue == GVisorRepliesTrue
<1>. USE TunDeviceAssumption
<1>1. ASSUME NEW f \in Flows, NEW hdr \in HeaderLens, NEW n \in Requests, NEW from \in Senders
      PROVE  UdpReplyTrue(GVisorUdp(f, hdr, n, from), f, from)
  <2>1. CASE f \in V6Flows
    BY <2>1 DEF UdpReplyTrue, GVisorUdp, GVisorUdp6, Fits6, Senders, SameFamily
  <2>2. CASE f \notin V6Flows
    BY <2>2 DEF UdpReplyTrue, GVisorUdp, GVisorUdp4, Fits4, Senders, SameFamily
  <2>. QED
    BY <2>1, <2>2
<1>2. ASSUME NEW hdr \in HeaderLens, NEW n \in Requests, NEW f \in Flows, NEW msg \in Messages
      PROVE  LET r == GVisorEcho(f, hdr, n, msg)
             IN  (r.told # r.written \/ ~r.checksum \/ ~r.quote) =>
                     msg.unreachable /\ f \notin V6Flows
  BY EchoLengths DEF GVisorEcho, GVisorEcho4, GVisorEcho6
<1>. QED
  BY <1>1, <1>2 DEF GVisorRepliesTrue

\* Whatever was read, released or reused in between, the reply a session would write
\* (nat/icmp.go, nat/udp.go, gvisor/icmp.go, gvisor/udp.go) tells its length, its sender
\* and its checksum truly, but for the named cases.
THEOREM RepliesAreTrue == Spec => []RepliesTrue
<1>1. Inv => RepliesTrue
  BY SystemTrue, GVisorTrue DEF Inv, SysInv, RepliesTrue
<1>. QED
  BY <1>1, Invariant, PTL
===============================================================================
