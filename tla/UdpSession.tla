------------------------------ MODULE UdpSession ------------------------------
(***************************************************************************)
(* UDP sessions of the tun handler: Tun2ray.NewPacket (tun.go).            *)
(*                                                                         *)
(* The tun stacks start one goroutine per datagram.  A goroutine that      *)
(* finds a session for its source address in udpTable sends through it.    *)
(* Otherwise the goroutines of one source address elect a leader with      *)
(* lockTable.LoadOrStore: the leader dials, publishes the session, wakes   *)
(* the others and then serves the session's replies; the others wait on    *)
(* the leader's sync.Cond and then send through the session.               *)
(*                                                                         *)
(* A session and a sync.Cond are named by the datagram whose goroutine     *)
(* made them.  The dispatcherConn behind a session is a state of its own   *)
(* (module DispatcherConn): here it is open until something closes it.     *)
(***************************************************************************)
EXTENDS Naturals, FiniteSets

CONSTANTS
    Packets,        \* datagrams, each with the goroutine that handles it
    Keys,           \* source addresses, the keys of udpTable and lockTable
    NatKey,         \* the source address of each datagram
    TrafficStats,   \* TunConfig.TrafficStats
    None            \* no datagram

ASSUME UdpAssumption ==
    /\ NatKey \in [Packets -> Keys]
    /\ TrafficStats \in BOOLEAN
    /\ None \notin Packets

VARIABLES
    pc,          \* where the goroutine of each datagram is in NewPacket
    async,       \* where the leader's "go sendTo()" is
    target,      \* the session sendTo loaded from udpTable
    udpTable,    \* Tun2ray.udpTable
    lockTable,   \* Tun2ray.lockTable, its UDP keys
    cond,        \* the sync.Cond each goroutine got from LoadOrStore
    condL,       \* which goroutine holds the mutex of each sync.Cond
    conn,        \* the packetConn each leader dialed
    broadcast,   \* the sync.Conds that have been broadcast
    missed,      \* waiters that began to wait after the broadcast
    consumed,    \* how often each datagram's buffer was given to a packetConn
    released,    \* how often each datagram's closer was closed
    rivals       \* sessions that were open beside another one of their key

sendVars == <<udpTable, conn, consumed>>
lockVars == <<lockTable, cond, condL, broadcast, missed>>
vars == <<pc, async, target, udpTable, lockVars, conn, consumed, released, rivals>>

PC == {"start", "write", "lock",                       \* sendTo, LoadOrStore
       "wait", "asleep", "awake",                      \* cond.L.Lock, cond.Wait
       "resend", "rewrite", "unlockL",                 \* the waiter's sendTo
       "dial", "failed", "stats", "hung", "store", "unlock", "broadcast",
       "read", "close", "delete", "done"}

Creating == {"dial", "failed", "stats", "hung", "store", "unlock"}
Waiting  == {"wait", "asleep", "awake"}
Serving  == {"unlock", "broadcast", "read", "close", "delete"}

TypeOK ==
    /\ pc \in [Packets -> PC]
    /\ async \in [Packets -> {"none", "load", "write", "done"}]
    /\ target \in [Packets -> Packets \cup {None}]
    /\ udpTable \in [Keys -> Packets \cup {None}]
    /\ lockTable \in [Keys -> Packets \cup {None}]
    /\ cond \in [Packets -> Packets \cup {None}]
    /\ condL \in [Packets -> Packets \cup {None}]
    /\ conn \in [Packets -> {"none", "open", "closed"}]
    /\ broadcast \in SUBSET Packets
    /\ missed \in SUBSET Packets
    /\ consumed \in [Packets -> Nat]
    /\ released \in [Packets -> Nat]
    /\ rivals \in SUBSET Packets

Init ==
    /\ pc = [p \in Packets |-> "start"]
    /\ async = [p \in Packets |-> "none"]
    /\ target = [p \in Packets |-> None]
    /\ udpTable = [k \in Keys |-> None]
    /\ lockTable = [k \in Keys |-> None]
    /\ cond = [p \in Packets |-> None]
    /\ condL = [p \in Packets |-> None]
    /\ conn = [p \in Packets |-> "none"]
    /\ broadcast = {}
    /\ missed = {}
    /\ consumed = [p \in Packets |-> 0]
    /\ released = [p \in Packets |-> 0]
    /\ rivals = {}

Key(p) == NatKey[p]
Entry(p) == udpTable[Key(p)]
SessionsOf(k) == {p \in Packets : Key(p) = k /\ pc[p] \in Serving}

Goto(p, l) == pc' = [pc EXCEPT ![p] = l]
CloseCloser(p) == released' = [released EXCEPT ![p] = @ + 1]

-------------------------------------------------------------------------------
(* sendTo, in its two steps: the lookup, then writeTo on what it found.       *)

LoadEntry(p) ==
    /\ Entry(p) # None
    /\ target' = [target EXCEPT ![p] = Entry(p)]

\* writeTo hands the buffer over.  It may fail on an open packetConn, and it
\* fails on a closed one; either way the packetConn is closed after a failure.
WriteTarget(p) ==
    /\ consumed' = [consumed EXCEPT ![p] = @ + 1]
    /\ \/ UNCHANGED conn
       \/ conn' = [conn EXCEPT ![target[p]] = "closed"]
    /\ UNCHANGED udpTable

(* The fast path.                                                             *)

LoadHit(p) ==
    /\ pc[p] = "start"
    /\ LoadEntry(p)
    /\ Goto(p, "write")
    /\ UNCHANGED <<async, sendVars, lockVars, released, rivals>>

LoadMiss(p) ==
    /\ pc[p] = "start"
    /\ Entry(p) = None
    /\ Goto(p, "lock")
    /\ UNCHANGED <<async, target, sendVars, lockVars, released, rivals>>

\* Variant: sendTo answers false after a failed write.
FastWriteFallsThrough(p) ==
    /\ pc[p] = "write"
    /\ WriteTarget(p)
    /\ IF conn[target[p]] = "open" /\ conn'[target[p]] = "closed"
       THEN Goto(p, "lock") /\ UNCHANGED released
       ELSE Goto(p, "done") /\ CloseCloser(p)
    /\ UNCHANGED <<async, target, lockVars, rivals>>

FastWrite(p) ==
    /\ pc[p] = "write"
    /\ WriteTarget(p)
    /\ CloseCloser(p)
    /\ Goto(p, "done")
    /\ UNCHANGED <<async, target, lockVars, rivals>>

(* The election: lockTable.LoadOrStore.                                       *)

\* Variant: Load and Store instead of LoadOrStore.
LockStoredBlindly(p) ==
    /\ pc[p] = "lock"
    /\ lockTable' = [lockTable EXCEPT ![Key(p)] = p]
    /\ cond' = [cond EXCEPT ![p] = p]
    /\ Goto(p, "dial")
    /\ UNCHANGED <<async, target, sendVars, condL, broadcast, missed, released, rivals>>

LockStored(p) ==
    /\ pc[p] = "lock"
    /\ lockTable[Key(p)] = None
    /\ lockTable' = [lockTable EXCEPT ![Key(p)] = p]
    /\ cond' = [cond EXCEPT ![p] = p]
    /\ Goto(p, "dial")
    /\ UNCHANGED <<async, target, sendVars, condL, broadcast, missed, released, rivals>>

LockLoaded(p) ==
    /\ pc[p] = "lock"
    /\ lockTable[Key(p)] # None
    /\ cond' = [cond EXCEPT ![p] = lockTable[Key(p)]]
    /\ Goto(p, "wait")
    /\ UNCHANGED <<async, target, sendVars, lockTable, condL, broadcast, missed, released, rivals>>

-------------------------------------------------------------------------------
(* A waiter.                                                                  *)

\* cond.L.Lock(), and cond.Wait() up to the point where it gave the mutex back
\* and sleeps.  A Cond remembers no broadcast: one that came first is missed.
Wait(p) ==
    /\ pc[p] = "wait"
    /\ condL[cond[p]] = None
    /\ missed' = IF cond[p] \in broadcast THEN missed \cup {p} ELSE missed
    /\ Goto(p, "asleep")
    /\ UNCHANGED <<async, target, sendVars, lockTable, cond, condL, broadcast, released, rivals>>

\* cond.Wait() returns with the mutex held.
Wake(p) ==
    /\ pc[p] = "awake"
    /\ condL[cond[p]] = None
    /\ condL' = [condL EXCEPT ![cond[p]] = p]
    /\ Goto(p, "resend")
    /\ UNCHANGED <<async, target, sendVars, lockTable, cond, broadcast, missed, released, rivals>>

WaiterLoad(p) ==
    /\ pc[p] = "resend"
    /\ \/ LoadEntry(p) /\ Goto(p, "rewrite")
       \/ Entry(p) = None /\ Goto(p, "unlockL") /\ UNCHANGED target
    /\ UNCHANGED <<async, sendVars, lockVars, released, rivals>>

WaiterWrite(p) ==
    /\ pc[p] = "rewrite"
    /\ WriteTarget(p)
    /\ Goto(p, "unlockL")
    /\ UNCHANGED <<async, target, lockVars, released, rivals>>

WaiterUnlock(p) ==
    /\ pc[p] = "unlockL"
    /\ condL' = [condL EXCEPT ![cond[p]] = None]
    /\ CloseCloser(p)
    /\ Goto(p, "done")
    /\ UNCHANGED <<async, target, sendVars, lockTable, cond, broadcast, missed, rivals>>

-------------------------------------------------------------------------------
(* The leader.                                                                *)

DialOk(p) ==
    /\ pc[p] = "dial"
    /\ conn' = [conn EXCEPT ![p] = "open"]
    /\ Goto(p, IF TrafficStats THEN "stats" ELSE "store")
    /\ UNCHANGED <<async, target, udpTable, consumed, lockVars, released, rivals>>

\* dialUDP failed: NewPacket returns.  The Cond stays in lockTable, nobody
\* broadcasts it and the closer is not closed.
DialFails(p) ==
    /\ pc[p] = "dial"
    /\ Goto(p, "failed")
    /\ UNCHANGED <<async, target, sendVars, lockVars, released, rivals>>

\* The statistics of the app (module AppStats): the leader gets them, or waits
\* forever for a creator of theirs whose broadcast it missed.
StatsAcquired(p) ==
    /\ pc[p] = "stats"
    /\ Goto(p, "store")
    /\ UNCHANGED <<async, target, sendVars, lockVars, released, rivals>>

StatsHang(p) ==
    /\ pc[p] = "stats"
    /\ Goto(p, "hung")
    /\ UNCHANGED <<async, target, sendVars, lockVars, released, rivals>>

\* udpTable.Store, go sendTo()
Store(p) ==
    /\ pc[p] = "store"
    /\ udpTable' = [udpTable EXCEPT ![Key(p)] = p]
    /\ async' = [async EXCEPT ![p] = "load"]
    /\ rivals' = IF SessionsOf(Key(p)) = {} THEN rivals
                 ELSE rivals \cup {p} \cup SessionsOf(Key(p))
    /\ Goto(p, "unlock")
    /\ UNCHANGED <<target, conn, consumed, lockVars, released>>

\* Variant: Delete on the wrong map.
UnlockWrongTable(p) ==
    /\ pc[p] = "unlock"
    /\ udpTable' = [udpTable EXCEPT ![Key(p)] = None]
    /\ Goto(p, "broadcast")
    /\ UNCHANGED <<async, target, conn, consumed, lockVars, released, rivals>>

\* lockTable.Delete
Unlock(p) ==
    /\ pc[p] = "unlock"
    /\ lockTable' = [lockTable EXCEPT ![Key(p)] = None]
    /\ Goto(p, "broadcast")
    /\ UNCHANGED <<async, target, sendVars, cond, condL, broadcast, missed, released, rivals>>

\* Variant: nobody is woken.
BroadcastForgotten(p) ==
    /\ pc[p] = "broadcast"
    /\ broadcast' = broadcast \cup {p}
    /\ Goto(p, "read")
    /\ UNCHANGED <<async, target, sendVars, lockTable, cond, condL, missed, released, rivals>>

\* cond.Broadcast wakes exactly the goroutines asleep on the Cond now.
Broadcast(p) ==
    /\ pc[p] = "broadcast"
    /\ broadcast' = broadcast \cup {p}
    /\ pc' = [q \in Packets |->
                IF q = p THEN "read"
                ELSE IF pc[q] = "asleep" /\ cond[q] = p THEN "awake"
                ELSE pc[q]]
    /\ UNCHANGED <<async, target, sendVars, lockTable, cond, condL, missed, released, rivals>>

\* Variant: return instead of break.
ReadFailsReturns(p) ==
    /\ pc[p] = "read"
    /\ conn[p] = "closed"
    /\ Goto(p, "done")
    /\ UNCHANGED <<async, target, sendVars, lockVars, released, rivals>>

\* readFrom fails: the packetConn is closed.
ReadFails(p) ==
    /\ pc[p] = "read"
    /\ conn[p] = "closed"
    /\ Goto(p, "close")
    /\ UNCHANGED <<async, target, sendVars, lockVars, released, rivals>>

\* A reply came and could not be written to the tun: the packetConn stays open.
WriteBackFails(p) ==
    /\ pc[p] = "read"
    /\ Goto(p, "close")
    /\ UNCHANGED <<async, target, sendVars, lockVars, released, rivals>>

LoopClose(p) ==
    /\ pc[p] = "close"
    /\ CloseCloser(p)
    /\ Goto(p, "delete")
    /\ UNCHANGED <<async, target, sendVars, lockVars, rivals>>

\* Variant: the entry stays.
DeleteForgotten(p) ==
    /\ pc[p] = "delete"
    /\ Goto(p, "done")
    /\ UNCHANGED <<async, target, sendVars, lockVars, released, rivals>>

\* udpTable.Delete removes whatever session the key has now.
Delete(p) ==
    /\ pc[p] = "delete"
    /\ udpTable' = [udpTable EXCEPT ![Key(p)] = None]
    /\ Goto(p, "done")
    /\ UNCHANGED <<async, target, conn, consumed, lockVars, released, rivals>>

(* go sendTo(): the leader's own datagram, in a goroutine of its own.         *)

AsyncLoad(p) ==
    /\ async[p] = "load"
    /\ \/ LoadEntry(p) /\ async' = [async EXCEPT ![p] = "write"]
       \/ Entry(p) = None /\ async' = [async EXCEPT ![p] = "done"] /\ UNCHANGED target
    /\ UNCHANGED <<pc, sendVars, lockVars, released, rivals>>

AsyncWrite(p) ==
    /\ async[p] = "write"
    /\ WriteTarget(p)
    /\ async' = [async EXCEPT ![p] = "done"]
    /\ UNCHANGED <<pc, target, lockVars, released, rivals>>

\* The idle timer, the outbound or CloseConnections closes the packetConn.
ConnEnds(p) ==
    /\ conn[p] = "open"
    /\ conn' = [conn EXCEPT ![p] = "closed"]
    /\ UNCHANGED <<pc, async, target, udpTable, consumed, lockVars, released, rivals>>

-------------------------------------------------------------------------------
\* What the goroutines do by themselves once a datagram is in NewPacket.
Sender(p) == FastWrite(p) \/ LockStored(p) \/ LockLoaded(p)
Waiter(p) == Wait(p) \/ Wake(p) \/ WaiterLoad(p) \/ WaiterWrite(p) \/ WaiterUnlock(p)
Opening(p) ==
    \/ DialOk(p) \/ DialFails(p) \/ StatsAcquired(p) \/ StatsHang(p)
    \/ Store(p) \/ Unlock(p) \/ Broadcast(p)
Closing(p) == ReadFails(p) \/ LoopClose(p) \/ Delete(p)
Async(p) == AsyncLoad(p) \/ AsyncWrite(p)

\* What comes from outside: a datagram, a full tun, the end of a session.
Arrival(p) == LoadHit(p) \/ LoadMiss(p)
External(p) == Arrival(p) \/ WriteBackFails(p) \/ ConnEnds(p)

Next ==
    \E p \in Packets :
        Sender(p) \/ Waiter(p) \/ Opening(p) \/ Closing(p) \/ Async(p) \/ External(p)

Spec == Init /\ [][Next]_vars

\* The Go scheduler runs every goroutine that can run.  Nothing makes a datagram
\* arrive, a session end or a write to the tun fail.
Fairness ==
    \A p \in Packets :
        /\ WF_vars(Sender(p) \/ Waiter(p) \/ Opening(p) \/ Closing(p))
        /\ WF_vars(Async(p))

FairSpec == Spec /\ Fairness

-------------------------------------------------------------------------------
(* Properties.                                                                *)

\* The Cond of a source address is in lockTable exactly while the goroutine that
\* stored it is between LoadOrStore and lockTable.Delete, so one goroutine at a
\* time dials for a source address, and Delete removes the caller's own Cond.
CreatorHoldsLock ==
    /\ \A p \in Packets : pc[p] \in Creating => lockTable[Key(p)] = p
    /\ \A k \in Keys : lockTable[k] # None =>
            Key(lockTable[k]) = k /\ pc[lockTable[k]] \in Creating

\* A session in udpTable is served: its leader is in the read loop or about to
\* enter it, or has yet to run the udpTable.Delete that ends NewPacket.  No path
\* of the loop leaves a dead session behind that datagrams would be sent to.
EntryIsServed ==
    \A p \in Packets :
        Entry(p) # None => Entry(p) \in SessionsOf(Key(p)) /\ conn[Entry(p)] # "none"

\* While a source address has one session, datagrams reach it through udpTable.
\* The lookup and LoadOrStore are two steps, so a datagram that missed before a
\* Store can become leader after the Delete of the Cond and open a second
\* session; udpTable.Delete of either then hides the other.  Only sessions that
\* met a rival in this way can be hidden.
SoleSessionReachable ==
    \A p \in Packets :
        pc[p] \in Serving /\ p \notin rivals => Entry(p) = p

\* NewPacket gives the datagram's buffer to a packetConn at most once, whichever
\* of its three sendTo calls does it, and closes the closer (the headers that
\* writeBack builds replies from) at most once and never while the read loop
\* still writes replies with it.
HandedOverOnce ==
    \A p \in Packets :
        /\ consumed[p] <= 1
        /\ released[p] <= 1
        /\ pc[p] \in {"store", "unlock", "broadcast", "read"} => released[p] = 0

\* A waiter that was woken finds a session in udpTable unless a session of its
\* source address was torn down in the meantime: the broadcast comes after Store.
WokenAfterStore ==
    \A p \in Packets :
        pc[p] = "resend" /\ Entry(p) = None =>
            \E q \in Packets :
                Key(q) = Key(p) /\ pc[q] = "done" /\ conn[q] # "none"

\* The mutex of a Cond is held by the waiter that resends, and by no other.
CondMutex ==
    \A p \in Packets :
        cond[p] # None =>
            (pc[p] \in {"resend", "rewrite", "unlockL"} <=> condL[cond[p]] = p)

(* NewPacket implements the get-or-create promise.                            *)

PhaseOf(p) ==
    CASE pc[p] \in {"start", "write", "lock"} -> "idle"
      [] pc[p] \in Creating -> "creating"
      [] pc[p] \in Waiting -> "waiting"
      [] OTHER -> IF cond[p] = p THEN "created"
                  ELSE IF cond[p] = None THEN "bypassed" ELSE "released"

PhaseMap == [p \in Packets |-> PhaseOf(p)]

Once == INSTANCE CreateOnce WITH
    Callers <- Packets,
    KeyOf <- NatKey,
    phase <- PhaseMap,
    holder <- lockTable,
    joined <- cond

\* Every step of NewPacket is a step of CreateOnce or leaves its state alone:
\* one leader per source address at a time, no waiter goes on before its leader
\* has published the session.
ImplementsCreateOnce == Once!Spec

\* A goroutine that sleeps on the Cond when it is broadcast gets through, unless
\* its leader failed to dial or hangs in the statistics of the app.  (One that
\* took the Cond but called Wait after the broadcast sleeps forever.)
WaitersReleased ==
    \A p, leader \in Packets :
        (pc[p] = "asleep" /\ cond[p] = leader /\ p \notin missed) ~>
            (pc[p] = "done" \/ pc[leader] \in {"failed", "hung"})

\* Once the packetConn of a session is closed its entry leaves udpTable, so later
\* datagrams of the source address open a new session.
ClosedSessionLeavesTable ==
    \A p \in Packets :
        (Entry(p) = p /\ conn[p] = "closed") ~> Entry(p) # p
===============================================================================
