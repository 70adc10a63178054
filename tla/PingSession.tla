------------------------------ MODULE PingSession ------------------------------
(***************************************************************************)
(* Echo sessions of the tun handler: Tun2ray.NewPingPacket (tun.go) and    *)
(* what its callers do with its answer (nat/icmp.go, nat/nat.go).          *)
(*                                                                         *)
(* It is NewPacket's get-or-create again, with one difference that matters *)
(* everywhere: the tun stacks call NewPingPacket from their only dispatch  *)
(* goroutine, one request after the other.  When it answers false the      *)
(* dispatch goroutine replies to the request itself, releases the closer   *)
(* and reads the next packet into the same buffer; when it answers true    *)
(* both belong to the handler.                                             *)
(***************************************************************************)
EXTENDS Naturals

CONSTANTS
    Requests,   \* echo requests
    Keys,       \* pairs of source and destination address
    NatKey,     \* the pair of each request
    None        \* no request

ASSUME PingAssumption ==
    /\ NatKey \in [Requests -> Keys]
    /\ None \notin Requests

VARIABLES
    cur,         \* the request the dispatch goroutine is delivering
    pc,          \* where it is in NewPingPacket, per request
    answer,      \* what NewPingPacket returned
    async,       \* where the "go sendTo()" of each request is
    reader,      \* where the goroutine that reads the replies is
    target,      \* the session sendTo loaded from udpTable
    udpTable,    \* Tun2ray.udpTable, its echo keys
    lockTable,   \* Tun2ray.lockTable, its echo keys
    conn,        \* the packetConn each request made
    consumed,    \* how often each message was given to a packetConn
    released     \* how often each closer was closed or released

sendVars == <<udpTable, conn, consumed>>
vars == <<cur, pc, answer, async, reader, target, udpTable, lockTable, conn, consumed, released>>

Working == {"load", "write", "lock", "wait", "route", "handle", "store", "deferred", "return"}
Reading == {"read", "close", "delete"}

TypeOK ==
    /\ cur \in Requests \cup {None}
    /\ pc \in [Requests -> Working \cup {"idle", "returned"}]
    /\ answer \in [Requests -> {"none", "true", "false"}]
    /\ async \in [Requests -> {"none", "load", "write", "done"}]
    /\ reader \in [Requests -> Reading \cup {"none", "done"}]
    /\ target \in [Requests -> Requests \cup {None}]
    /\ udpTable \in [Keys -> Requests \cup {None}]
    /\ lockTable \in [Keys -> Requests \cup {None}]
    /\ conn \in [Requests -> {"none", "open", "closed"}]
    /\ consumed \in [Requests -> Nat]
    /\ released \in [Requests -> Nat]

Init ==
    /\ cur = None
    /\ pc = [r \in Requests |-> "idle"]
    /\ answer = [r \in Requests |-> "none"]
    /\ async = [r \in Requests |-> "none"]
    /\ reader = [r \in Requests |-> "none"]
    /\ target = [r \in Requests |-> None]
    /\ udpTable = [k \in Keys |-> None]
    /\ lockTable = [k \in Keys |-> None]
    /\ conn = [r \in Requests |-> "none"]
    /\ consumed = [r \in Requests |-> 0]
    /\ released = [r \in Requests |-> 0]

Key(r) == NatKey[r]
Entry(r) == udpTable[Key(r)]
Goto(r, l) == pc' = [pc EXCEPT ![r] = l]
Answer(r, a) == answer' = [answer EXCEPT ![r] = a]
Close(r) == released' = [released EXCEPT ![r] = @ + 1]

-------------------------------------------------------------------------------
(* sendTo                                                                     *)

LoadEntry(r) ==
    /\ Entry(r) # None
    /\ target' = [target EXCEPT ![r] = Entry(r)]

\* writeTo takes the message; a failure closes the packetConn.
WriteTarget(r) ==
    /\ consumed' = [consumed EXCEPT ![r] = @ + 1]
    /\ \/ UNCHANGED conn
       \/ conn' = [conn EXCEPT ![target[r]] = "closed"]
    /\ UNCHANGED udpTable

(* The dispatch goroutine.                                                    *)

\* The next packet on the tun is an echo request.
Deliver(r) ==
    /\ cur = None
    /\ pc[r] = "idle"
    /\ cur' = r
    /\ Goto(r, "load")
    /\ UNCHANGED <<answer, async, reader, target, lockTable, sendVars, released>>

LoadHit(r) ==
    /\ pc[r] = "load"
    /\ LoadEntry(r)
    /\ Goto(r, "write")
    /\ UNCHANGED <<cur, answer, async, reader, lockTable, sendVars, released>>

LoadMiss(r) ==
    /\ pc[r] = "load"
    /\ Entry(r) = None
    /\ Goto(r, "lock")
    /\ UNCHANGED <<cur, answer, async, reader, target, lockTable, sendVars, released>>

\* Variant: sendTo answers false after a failed write, and so does NewPingPacket.
FastWriteRefuses(r) ==
    /\ pc[r] = "write"
    /\ WriteTarget(r)
    /\ Answer(r, "false")
    /\ Goto(r, "return")
    /\ UNCHANGED <<cur, async, reader, target, lockTable, released>>

FastWrite(r) ==
    /\ pc[r] = "write"
    /\ WriteTarget(r)
    /\ Close(r)
    /\ Answer(r, "true")
    /\ Goto(r, "return")
    /\ UNCHANGED <<cur, async, reader, target, lockTable>>

\* lockTable.LoadOrStore.  A dispatch goroutine that found a Cond would wait on it
\* forever, for it is the only one that could broadcast it.
Lock(r) ==
    /\ pc[r] = "lock"
    /\ IF lockTable[Key(r)] = None
       THEN lockTable' = [lockTable EXCEPT ![Key(r)] = r] /\ Goto(r, "route")
       ELSE UNCHANGED lockTable /\ Goto(r, "wait")
    /\ UNCHANGED <<cur, answer, async, reader, target, sendVars, released>>

\* PickRoute gave a tag with a handler, or failed with a default outbound set.
RouteFound(r) ==
    /\ pc[r] = "route"
    /\ Goto(r, "handle")
    /\ UNCHANGED <<cur, answer, async, reader, target, lockTable, sendVars, released>>

\* Variant: the Cond is deleted at the end of NewPingPacket, not by a defer.
RouteMissingReturns(r) ==
    /\ pc[r] = "route"
    /\ Answer(r, "false")
    /\ Goto(r, "return")
    /\ UNCHANGED <<cur, async, reader, target, lockTable, sendVars, released>>

\* PickRoute gave an unknown tag, or failed with no default outbound.
RouteMissing(r) ==
    /\ pc[r] = "route"
    /\ Answer(r, "false")
    /\ Goto(r, "deferred")
    /\ UNCHANGED <<cur, async, reader, target, lockTable, sendVars, released>>

HandleUDP(r) ==
    /\ pc[r] = "handle"
    /\ conn' = [conn EXCEPT ![r] = "open"]
    /\ Goto(r, "store")
    /\ UNCHANGED <<cur, answer, async, reader, target, udpTable, consumed, lockTable, released>>

\* Variant: the closer is closed as soon as the session is there.
StoreAndClose(r) ==
    /\ pc[r] = "store"
    /\ udpTable' = [udpTable EXCEPT ![Key(r)] = r]
    /\ async' = [async EXCEPT ![r] = "load"]
    /\ reader' = [reader EXCEPT ![r] = "read"]
    /\ Answer(r, "true")
    /\ Close(r)
    /\ Goto(r, "deferred")
    /\ UNCHANGED <<cur, target, conn, consumed, lockTable>>

\* udpTable.Store, then the two goroutines are started.
Store(r) ==
    /\ pc[r] = "store"
    /\ udpTable' = [udpTable EXCEPT ![Key(r)] = r]
    /\ async' = [async EXCEPT ![r] = "load"]
    /\ reader' = [reader EXCEPT ![r] = "read"]
    /\ Answer(r, "true")
    /\ Goto(r, "deferred")
    /\ UNCHANGED <<cur, target, conn, consumed, lockTable, released>>

\* The deferred lockTable.Delete and Broadcast, on every path out.
Deferred(r) ==
    /\ pc[r] = "deferred"
    /\ lockTable' = [lockTable EXCEPT ![Key(r)] = None]
    /\ Goto(r, "return")
    /\ UNCHANGED <<cur, answer, async, reader, target, sendVars, released>>

\* Back in the tun stack: after false it replies and releases the headers itself.
Return(r) ==
    /\ pc[r] = "return"
    /\ cur' = None
    /\ Goto(r, "returned")
    /\ IF answer[r] = "false" THEN Close(r) ELSE UNCHANGED released
    /\ UNCHANGED <<answer, async, reader, target, lockTable, sendVars>>

-------------------------------------------------------------------------------
(* The goroutines of a session.                                               *)

AsyncLoad(r) ==
    /\ async[r] = "load"
    /\ \/ LoadEntry(r) /\ async' = [async EXCEPT ![r] = "write"]
       \/ Entry(r) = None /\ async' = [async EXCEPT ![r] = "done"] /\ UNCHANGED target
    /\ UNCHANGED <<cur, pc, answer, reader, lockTable, sendVars, released>>

AsyncWrite(r) ==
    /\ async[r] = "write"
    /\ WriteTarget(r)
    /\ async' = [async EXCEPT ![r] = "done"]
    /\ UNCHANGED <<cur, pc, answer, reader, target, lockTable, released>>

ReadFails(r) ==
    /\ reader[r] = "read"
    /\ conn[r] = "closed"
    /\ reader' = [reader EXCEPT ![r] = "close"]
    /\ UNCHANGED <<cur, pc, answer, async, target, lockTable, sendVars, released>>

\* A reply could not be written to the tun, or was "destination unreachable".
WriteBackFails(r) ==
    /\ reader[r] = "read"
    /\ reader' = [reader EXCEPT ![r] = "close"]
    /\ UNCHANGED <<cur, pc, answer, async, target, lockTable, sendVars, released>>

LoopClose(r) ==
    /\ reader[r] = "close"
    /\ Close(r)
    /\ reader' = [reader EXCEPT ![r] = "delete"]
    /\ UNCHANGED <<cur, pc, answer, async, target, lockTable, sendVars>>

\* Variant: the entry stays.
DeleteForgotten(r) ==
    /\ reader[r] = "delete"
    /\ reader' = [reader EXCEPT ![r] = "done"]
    /\ UNCHANGED <<cur, pc, answer, async, target, lockTable, sendVars, released>>

Delete(r) ==
    /\ reader[r] = "delete"
    /\ udpTable' = [udpTable EXCEPT ![Key(r)] = None]
    /\ reader' = [reader EXCEPT ![r] = "done"]
    /\ UNCHANGED <<cur, pc, answer, async, target, lockTable, conn, consumed, released>>

\* The idle timer or the outbound closes the packetConn.
ConnEnds(r) ==
    /\ conn[r] = "open"
    /\ conn' = [conn EXCEPT ![r] = "closed"]
    /\ UNCHANGED <<cur, pc, answer, async, reader, target, udpTable, consumed, lockTable, released>>

-------------------------------------------------------------------------------
Dispatch(r) ==
    \/ LoadHit(r) \/ LoadMiss(r) \/ FastWrite(r) \/ Lock(r)
    \/ RouteFound(r) \/ RouteMissing(r) \/ HandleUDP(r) \/ Store(r)
    \/ Deferred(r) \/ Return(r)
Async(r) == AsyncLoad(r) \/ AsyncWrite(r)
Reader(r) == ReadFails(r) \/ LoopClose(r) \/ Delete(r)

Next ==
    \E r \in Requests :
        Deliver(r) \/ Dispatch(r) \/ Async(r) \/ Reader(r) \/ WriteBackFails(r) \/ ConnEnds(r)

Spec == Init /\ [][Next]_vars

-------------------------------------------------------------------------------
(* Properties.                                                                *)

\* The dispatch goroutine, which carries every packet of the tun, never finds a
\* Cond in lockTable: each path out of NewPingPacket has deleted its own.
LoopNeverWaits == \A r \in Requests : pc[r] # "wait"

\* udpTable has an echo session exactly while its reading goroutine is alive, so
\* there is one session for a pair of addresses, Delete removes the reader's own
\* entry, and no dead session swallows requests.  (NewPacket, called from many
\* goroutines, does not have this.)
EntryIffReader ==
    \A r \in Requests : Entry(r) = r <=> reader[r] \in Reading

\* The closer of a request, which releases the headers that replies are built from,
\* is closed exactly once by the time everybody is done with the request: by the
\* handler after true, by the caller after false.  It is never closed while the
\* reader may still write a reply.
CloserOwnership ==
    \A r \in Requests :
        /\ released[r] <= 1
        /\ reader[r] = "read" => released[r] = 0
        /\ pc[r] = "returned" /\ reader[r] \notin {"read", "close"} => released[r] = 1

\* The message is given away at most once, and never after false, when the
\* dispatch goroutine reads the next packet into the same buffer.
MessageOwnership ==
    \A r \in Requests :
        /\ consumed[r] <= 1
        /\ answer[r] = "false" => consumed[r] = 0 /\ async[r] = "none"

(* NewPingPacket keeps the get-or-create promise of NewPacket.                *)

Holding == {"route", "handle", "store", "deferred"}

PhaseOf(r) ==
    CASE pc[r] \in {"idle", "load", "write", "lock"} -> "idle"
      [] pc[r] \in Holding -> "creating"
      [] pc[r] = "wait" -> "waiting"
      [] OTHER -> IF answer[r] = "true" /\ reader[r] = "none" THEN "bypassed" ELSE "created"

JoinedOf(r) ==
    CASE PhaseOf(r) \in {"creating", "created"} -> r
      [] PhaseOf(r) = "waiting" -> lockTable[Key(r)]
      [] OTHER -> None

PhaseMap == [r \in Requests |-> PhaseOf(r)]
JoinedMap == [r \in Requests |-> JoinedOf(r)]

Once == INSTANCE CreateOnce WITH
    Callers <- Requests,
    KeyOf <- NatKey,
    phase <- PhaseMap,
    holder <- lockTable,
    joined <- JoinedMap

\* Every step of the dispatch goroutine and of the goroutines of a session is a step
\* of CreateOnce or leaves its state alone: every path out of NewPingPacket gives up
\* the key it took, and nothing else does.
ImplementsCreateOnce == Once!Spec
===============================================================================
