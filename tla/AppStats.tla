------------------------------- MODULE AppStats -------------------------------
(***************************************************************************)
(* The per-app statistics of Tun2ray: the section of NewConnection and of  *)
(* NewPacket that finds or creates the appStats of a uid and registers the *)
(* connection in it, the deferred function that takes it out again         *)
(* (tun.go), and ResetAppTraffics and CloseConnections (stats.go), which   *)
(* the app calls from threads of its own.                                  *)
(*                                                                         *)
(* An appStats and a sync.Cond are named by the connection whose goroutine *)
(* made them.  The traffic counters of an appStats are those of AppTraffic.  *)
(***************************************************************************)
EXTENDS Naturals, Sequences, FiniteSets, SequencesExt

CONSTANTS
    Conns,       \* connections, each with the goroutine that serves it
    Tcp,         \* those of NewConnection; the others are of NewPacket
    Uids,        \* apps
    UidOf,       \* the app of each connection
    MaxResets,   \* bound on the calls of ResetAppTraffics
    MaxCloses,   \* bound on the calls of CloseConnections
    None         \* no connection

ASSUME StatsAssumption ==
    /\ Tcp \subseteq Conns
    /\ UidOf \in [Conns -> Uids]
    /\ MaxResets \in Nat
    /\ MaxCloses \in Nat
    /\ None \notin Conns

VARIABLES
    pc,            \* where the goroutine of each connection is
    stats,         \* the appStats it found or made
    table,         \* Tun2ray.appStats
    lockTable,     \* Tun2ray.lockTable, its uid keys
    cond,          \* the sync.Cond each goroutine got from LoadOrStore
    condL,         \* which goroutine holds the mutex of each sync.Cond
    broadcast,     \* the sync.Conds that have been broadcast
    missed,        \* waiters that began to wait after the broadcast
    tcpConn,       \* appStats.tcpConn
    udpConn,       \* appStats.udpConn
    deactivateAt,  \* appStats.deactivateAt: 0 or a time
    connections,   \* appStats.connections
    left,          \* what a leaving connection's own counter came down to
    closed,        \* the connections that have been closed
    toDel,         \* the uids ResetAppTraffics has yet to delete
    resets,        \* number of ResetAppTraffics calls
    closer         \* CloseConnections: its step, appStats, list cursor, calls

lockVars == <<lockTable, cond, condL, broadcast, missed>>
objVars == <<tcpConn, udpConn, deactivateAt, connections>>
resetVars == <<toDel, resets>>
vars == <<pc, stats, table, lockVars, objVars, left, closed, resetVars, closer>>

PC == {"start", "lock", "wait", "asleep", "awake", "reread", "panic",
       "publish", "unlock", "broadcast",
       "count", "activate", "register", "open",
       "leave", "sum", "stamp", "unregister", "done"}

Creating == {"publish", "unlock"}
Waiting  == {"wait", "asleep", "awake"}
Counted  == {"activate", "register", "open", "leave"}

OrNone(S) == S \cup {None}

ListsOK == connections \in [Conns -> Seq(Conns)]

TypeOK ==
    /\ pc \in [Conns -> PC]
    /\ stats \in [Conns -> OrNone(Conns)]
    /\ table \in [Uids -> OrNone(Conns)]
    /\ lockTable \in [Uids -> OrNone(Conns)]
    /\ cond \in [Conns -> OrNone(Conns)]
    /\ condL \in [Conns -> OrNone(Conns)]
    /\ broadcast \subseteq Conns
    /\ missed \subseteq Conns
    /\ tcpConn \in [Conns -> Nat]
    /\ udpConn \in [Conns -> Nat]
    /\ deactivateAt \in [Conns -> {"zero", "time"}]
    /\ ListsOK
    /\ left \in [Conns -> Nat]
    /\ closed \subseteq Conns
    /\ toDel \subseteq Uids
    /\ resets \in 0 .. MaxResets
    /\ closer \in [pc : {"idle", "lock", "walk", "unlock"}, stats : OrNone(Conns),
                   at : OrNone(Conns), calls : 0 .. MaxCloses]

Init ==
    /\ pc = [c \in Conns |-> "start"]
    /\ stats = [c \in Conns |-> None]
    /\ table = [u \in Uids |-> None]
    /\ lockTable = [u \in Uids |-> None]
    /\ cond = [c \in Conns |-> None]
    /\ condL = [c \in Conns |-> None]
    /\ broadcast = {}
    /\ missed = {}
    /\ tcpConn = [o \in Conns |-> 0]
    /\ udpConn = [o \in Conns |-> 0]
    /\ deactivateAt = [o \in Conns |-> "zero"]
    /\ connections = [o \in Conns |-> <<>>]
    /\ left = [c \in Conns |-> 0]
    /\ closed = {}
    /\ toDel = {}
    /\ resets = 0
    /\ closer = [pc |-> "idle", stats |-> None, at |-> None, calls |-> 0]

Uid(c) == UidOf[c]
Goto(c, l) == pc' = [pc EXCEPT ![c] = l]
Panicked == \E c \in Conns : pc[c] = "panic"

\* statsElement: where a connection is in the list.
Element(o, c) == CHOOSE i \in DOMAIN connections[o] : connections[o][i] = c

\* Whether somebody holds the mutex of an appStats: CloseConnections keeps it
\* over the whole walk, the connections only for one step.
StatsLocked(o) == closer.pc \in {"walk", "unlock"} /\ closer.stats = o

-------------------------------------------------------------------------------
(* Finding or creating the appStats.                                          *)

LoadHit(c) ==
    /\ pc[c] = "start"
    /\ table[Uid(c)] # None
    /\ stats' = [stats EXCEPT ![c] = table[Uid(c)]]
    /\ Goto(c, "count")
    /\ UNCHANGED <<table, lockVars, objVars, left, closed, resetVars, closer>>

LoadMiss(c) ==
    /\ pc[c] = "start"
    /\ table[Uid(c)] = None
    /\ Goto(c, "lock")
    /\ UNCHANGED <<stats, table, lockVars, objVars, left, closed, resetVars, closer>>

\* lockTable.LoadOrStore
LockStored(c) ==
    /\ pc[c] = "lock"
    /\ lockTable[Uid(c)] = None
    /\ lockTable' = [lockTable EXCEPT ![Uid(c)] = c]
    /\ cond' = [cond EXCEPT ![c] = c]
    /\ Goto(c, "publish")
    /\ UNCHANGED <<stats, table, condL, broadcast, missed, objVars, left, closed, resetVars, closer>>

LockLoaded(c) ==
    /\ pc[c] = "lock"
    /\ lockTable[Uid(c)] # None
    /\ cond' = [cond EXCEPT ![c] = lockTable[Uid(c)]]
    /\ Goto(c, "wait")
    /\ UNCHANGED <<stats, table, lockTable, condL, broadcast, missed, objVars, left, closed, resetVars, closer>>

\* cond.L.Lock(); cond.Wait() until it sleeps.  An earlier broadcast is missed.
Wait(c) ==
    /\ pc[c] = "wait"
    /\ condL[cond[c]] = None
    /\ missed' = IF cond[c] \in broadcast THEN missed \cup {c} ELSE missed
    /\ Goto(c, "asleep")
    /\ UNCHANGED <<stats, table, lockTable, cond, condL, broadcast, objVars, left, closed, resetVars, closer>>

\* cond.Wait() returns with the mutex held.
Wake(c) ==
    /\ pc[c] = "awake"
    /\ condL[cond[c]] = None
    /\ condL' = [condL EXCEPT ![cond[c]] = c]
    /\ Goto(c, "reread")
    /\ UNCHANGED <<stats, table, lockTable, cond, broadcast, missed, objVars, left, closed, resetVars, closer>>

\* The waiter takes the appStats from the table and gives the mutex back.
RereadFound(c) ==
    /\ pc[c] = "reread"
    /\ table[Uid(c)] # None
    /\ stats' = [stats EXCEPT ![c] = table[Uid(c)]]
    /\ condL' = [condL EXCEPT ![cond[c]] = None]
    /\ Goto(c, "count")
    /\ UNCHANGED <<table, lockTable, cond, broadcast, missed, objVars, left, closed, resetVars, closer>>

\* panic("unexpected sync read failed") ends the process.
RereadPanics(c) ==
    /\ pc[c] = "reread"
    /\ table[Uid(c)] = None
    /\ Goto(c, "panic")
    /\ UNCHANGED <<stats, table, lockVars, objVars, left, closed, resetVars, closer>>

\* stats = &appStats{}; appStats.Store
Publish(c) ==
    /\ pc[c] = "publish"
    /\ stats' = [stats EXCEPT ![c] = c]
    /\ table' = [table EXCEPT ![Uid(c)] = c]
    /\ Goto(c, "unlock")
    /\ UNCHANGED <<lockVars, objVars, left, closed, resetVars, closer>>

\* lockTable.Delete
Unlock(c) ==
    /\ pc[c] = "unlock"
    /\ lockTable' = [lockTable EXCEPT ![Uid(c)] = None]
    /\ Goto(c, "broadcast")
    /\ UNCHANGED <<stats, table, cond, condL, broadcast, missed, objVars, left, closed, resetVars, closer>>

\* Variant: nobody is woken.
BroadcastForgotten(c) ==
    /\ pc[c] = "broadcast"
    /\ broadcast' = broadcast \cup {c}
    /\ Goto(c, "count")
    /\ UNCHANGED <<stats, table, lockTable, cond, condL, missed, objVars, left, closed, resetVars, closer>>

Broadcast(c) ==
    /\ pc[c] = "broadcast"
    /\ broadcast' = broadcast \cup {c}
    /\ pc' = [d \in Conns |->
                IF d = c THEN "count"
                ELSE IF pc[d] = "asleep" /\ cond[d] = c THEN "awake"
                ELSE pc[d]]
    /\ UNCHANGED <<stats, table, lockTable, cond, condL, missed, objVars, left, closed, resetVars, closer>>

-------------------------------------------------------------------------------
(* Registering the connection, serving it, taking it out.                     *)

Count(c) ==
    /\ pc[c] = "count"
    /\ IF c \in Tcp
       THEN tcpConn' = [tcpConn EXCEPT ![stats[c]] = @ + 1] /\ UNCHANGED udpConn
       ELSE udpConn' = [udpConn EXCEPT ![stats[c]] = @ + 1] /\ UNCHANGED tcpConn
    /\ Goto(c, "activate")
    /\ UNCHANGED <<stats, table, lockVars, deactivateAt, connections, left, closed, resetVars, closer>>

Activate(c) ==
    /\ pc[c] = "activate"
    /\ deactivateAt' = [deactivateAt EXCEPT ![stats[c]] = "zero"]
    /\ Goto(c, "register")
    /\ UNCHANGED <<stats, table, lockVars, tcpConn, udpConn, connections, left, closed, resetVars, closer>>

\* Variant: PushBack without stats.Lock().
RegisterUnlocked(c) ==
    /\ pc[c] = "register"
    /\ connections' = [connections EXCEPT ![stats[c]] = Append(@, c)]
    /\ Goto(c, "open")
    /\ UNCHANGED <<stats, table, lockVars, tcpConn, udpConn, deactivateAt, left, closed, resetVars, closer>>

Register(c) ==
    /\ pc[c] = "register"
    /\ ~StatsLocked(stats[c])
    /\ connections' = [connections EXCEPT ![stats[c]] = Append(@, c)]
    /\ Goto(c, "open")
    /\ UNCHANGED <<stats, table, lockVars, tcpConn, udpConn, deactivateAt, left, closed, resetVars, closer>>

\* The connection was closed, and its relay or read loop returns.
ServeEnds(c) ==
    /\ pc[c] = "open"
    /\ c \in closed
    /\ Goto(c, "leave")
    /\ UNCHANGED <<stats, table, lockVars, objVars, left, closed, resetVars, closer>>

\* It ends by itself: the app or the peer is done.
PeerEnds(c) ==
    /\ pc[c] = "open"
    /\ c \notin closed
    /\ Goto(c, "leave")
    /\ UNCHANGED <<stats, table, lockVars, objVars, left, closed, resetVars, closer>>

\* Variant: a UDP session leaves through the counter of the TCP connections.
LeaveAsTcp(c) ==
    /\ pc[c] = "leave"
    /\ tcpConn' = [tcpConn EXCEPT ![stats[c]] = @ - 1]
    /\ left' = [left EXCEPT ![c] = tcpConn[stats[c]] - 1]
    /\ Goto(c, "sum")
    /\ UNCHANGED <<stats, table, lockVars, udpConn, deactivateAt, connections, closed, resetVars, closer>>

\* atomic.AddInt32 of the connection's own counter ...
Leave(c) ==
    /\ pc[c] = "leave"
    /\ IF c \in Tcp
       THEN /\ tcpConn' = [tcpConn EXCEPT ![stats[c]] = @ - 1]
            /\ left' = [left EXCEPT ![c] = tcpConn[stats[c]] - 1]
            /\ UNCHANGED udpConn
       ELSE /\ udpConn' = [udpConn EXCEPT ![stats[c]] = @ - 1]
            /\ left' = [left EXCEPT ![c] = udpConn[stats[c]] - 1]
            /\ UNCHANGED tcpConn
    /\ Goto(c, "sum")
    /\ UNCHANGED <<stats, table, lockVars, deactivateAt, connections, closed, resetVars, closer>>

\* Variant: only the end of a TCP connection is noticed.
SumOfTcp(c) ==
    /\ pc[c] = "sum"
    /\ LET other == IF c \in Tcp THEN udpConn[stats[c]] ELSE tcpConn[stats[c]]
       IN  Goto(c, IF c \in Tcp /\ left[c] + other = 0 THEN "stamp" ELSE "unregister")
    /\ left' = [left EXCEPT ![c] = 0]
    /\ UNCHANGED <<stats, table, lockVars, objVars, closed, resetVars, closer>>

\* ... plus atomic.LoadInt32 of the other one.
Sum(c) ==
    /\ pc[c] = "sum"
    /\ LET other == IF c \in Tcp THEN udpConn[stats[c]] ELSE tcpConn[stats[c]]
       IN  Goto(c, IF left[c] + other = 0 THEN "stamp" ELSE "unregister")
    /\ left' = [left EXCEPT ![c] = 0]
    /\ UNCHANGED <<stats, table, lockVars, objVars, closed, resetVars, closer>>

Stamp(c) ==
    /\ pc[c] = "stamp"
    /\ deactivateAt' = [deactivateAt EXCEPT ![stats[c]] = "time"]
    /\ Goto(c, "unregister")
    /\ UNCHANGED <<stats, table, lockVars, tcpConn, udpConn, connections, left, closed, resetVars, closer>>

Unregister(c) ==
    /\ pc[c] = "unregister"
    /\ ~StatsLocked(stats[c])
    /\ connections' = [connections EXCEPT ![stats[c]] = RemoveAt(@, Element(stats[c], c))]
    /\ Goto(c, "done")
    /\ UNCHANGED <<stats, table, lockVars, tcpConn, udpConn, deactivateAt, left, closed, resetVars, closer>>

-------------------------------------------------------------------------------
(* ResetAppTraffics: collect the uids, then delete them one by one.           *)

ResetCollect ==
    /\ toDel = {}
    /\ resets < MaxResets
    /\ resets' = resets + 1
    /\ toDel' = {u \in Uids : table[u] # None}
    /\ UNCHANGED <<pc, stats, table, lockVars, objVars, left, closed, closer>>

ResetDelete(u) ==
    /\ u \in toDel
    /\ toDel' = toDel \ {u}
    /\ table' = [table EXCEPT ![u] = None]
    /\ UNCHANGED <<pc, stats, lockVars, objVars, left, closed, resets, closer>>

(* CloseConnections: walk the list with the mutex of the appStats held.       *)

CloseLoad(u) ==
    /\ closer.pc = "idle"
    /\ closer.calls < MaxCloses
    /\ table[u] # None
    /\ closer' = [pc |-> "lock", stats |-> table[u], at |-> None, calls |-> closer.calls + 1]
    /\ UNCHANGED <<pc, stats, table, lockVars, objVars, left, closed, resetVars>>

FirstElement(o) == IF connections[o] = <<>> THEN None ELSE Head(connections[o])

\* element.Next(): nothing after the last element, nor after a removed one.
NextElement(o, c) ==
    LET i == IF Contains(connections[o], c) THEN Element(o, c) ELSE Len(connections[o])
    IN  IF i < Len(connections[o]) THEN connections[o][i + 1] ELSE None

CloseLock ==
    /\ closer.pc = "lock"
    /\ closer' = [closer EXCEPT !.pc = "walk", !.at = FirstElement(closer.stats)]
    /\ UNCHANGED <<pc, stats, table, lockVars, objVars, left, closed, resetVars>>

CloseElement ==
    /\ closer.pc = "walk"
    /\ closer.at # None
    /\ closed' = closed \cup {closer.at}
    /\ closer' = [closer EXCEPT !.at = NextElement(closer.stats, closer.at)]
    /\ UNCHANGED <<pc, stats, table, lockVars, objVars, left, resetVars>>

CloseWalked ==
    /\ closer.pc = "walk"
    /\ closer.at = None
    /\ closer' = [closer EXCEPT !.pc = "unlock"]
    /\ UNCHANGED <<pc, stats, table, lockVars, objVars, left, closed, resetVars>>

CloseUnlock ==
    /\ closer.pc = "unlock"
    /\ closer' = [closer EXCEPT !.pc = "idle", !.stats = None]
    /\ UNCHANGED <<pc, stats, table, lockVars, objVars, left, closed, resetVars>>

-------------------------------------------------------------------------------
Acquire(c) ==
    \/ LockStored(c) \/ LockLoaded(c) \/ Wait(c) \/ Wake(c)
    \/ RereadFound(c) \/ RereadPanics(c) \/ Publish(c) \/ Unlock(c) \/ Broadcast(c)
Serve(c) == Count(c) \/ Activate(c) \/ Register(c) \/ ServeEnds(c)
Finish(c) == Leave(c) \/ Sum(c) \/ Stamp(c) \/ Unregister(c)
Arrival(c) == LoadHit(c) \/ LoadMiss(c)
CloseWalk == CloseLock \/ CloseElement \/ CloseWalked \/ CloseUnlock

Next ==
    /\ ~Panicked
    /\ \/ \E c \in Conns : Acquire(c) \/ Serve(c) \/ Finish(c) \/ Arrival(c) \/ PeerEnds(c)
       \/ ResetCollect
       \/ \E u \in Uids : ResetDelete(u) \/ CloseLoad(u)
       \/ CloseWalk

Spec == Init /\ [][Next]_vars

-------------------------------------------------------------------------------
(* Properties.                                                                *)

\* What that assertion in NewConnection and NewPacket claims: it is unreachable.
SyncReadSucceeds == ~Panicked

\* Once every connection of an appStats has left, deactivateAt says when: of the
\* last TCP and the last UDP connection to leave, at least one sees both counters
\* at zero, and a connection that comes in does not wipe that of its own end.
QuiescentIsStamped ==
    \A o \in Conns :
        LET users == {c \in Conns : stats[c] = o}
        IN  users # {} /\ (\A c \in users : pc[c] \in {"unregister", "done"})
                => deactivateAt[o] = "time"

\* The two counters of an appStats are the connections in it, by kind, at every
\* step: ReadAppTraffics never shows a connection that is gone or a negative count.
CountersExact ==
    \A o \in Conns :
        LET inside == {c \in Conns : stats[c] = o /\ pc[c] \in Counted}
        IN  /\ tcpConn[o] = Cardinality(inside \cap Tcp)
            /\ udpConn[o] = Cardinality(inside \ Tcp)

\* When CloseConnections has walked the list, every connection that is in the
\* list is closed: no connection that leaves at the same time cuts the walk short
\* (list.Remove clears the element's next pointer) and none comes in behind it.
WalkClosesAll ==
    closer.pc = "unlock" => ToSet(connections[closer.stats]) \subseteq closed

\* Something goes on by itself, without an app, a peer or a caller: the guards of the
\* steps of CloseWalk, Acquire, Serve and Finish.
CanGoOn ==
    \/ closer.pc # "idle"
    \/ \E c \in Conns :
        \/ pc[c] \in {"lock", "reread", "publish", "unlock", "broadcast", "count", "activate",
                      "leave", "sum", "stamp"}
        \/ pc[c] \in {"wait", "awake"} /\ condL[cond[c]] = None
        \/ pc[c] \in {"register", "unregister"} /\ ~StatsLocked(stats[c])
        \/ pc[c] = "open" /\ c \in closed

\* Nobody is left waiting for somebody: when nothing goes on by itself any more, every
\* connection has ended or is open and not closed, and CloseConnections, which closes
\* with the mutex of the list held, has returned.  The exception is a connection that
\* took the Cond but called Wait after the broadcast.  The process panics only after a
\* ResetAppTraffics, which alone takes an appStats away between Store and Load.
NobodyStuck ==
    /\ Panicked => resets > 0
    /\ ~Panicked /\ ~CanGoOn =>
          /\ closer.pc = "idle"
          /\ \A c \in Conns :
                \/ pc[c] \in {"start", "done"}
                \/ pc[c] = "open" /\ c \notin closed
                \/ pc[c] = "asleep" /\ c \in missed

(* Finding or creating the appStats of an app keeps the get-or-create promise. *)

PhaseOf(c) ==
    CASE pc[c] \in {"start", "lock"} -> "idle"
      [] pc[c] \in Creating -> "creating"
      [] pc[c] \in Waiting -> "waiting"
      [] OTHER -> IF cond[c] = c THEN "created"
                  ELSE IF cond[c] = None THEN "bypassed" ELSE "released"

PhaseMap == [c \in Conns |-> PhaseOf(c)]

Once == INSTANCE CreateOnce WITH
    Callers <- Conns,
    Keys <- Uids,
    KeyOf <- UidOf,
    phase <- PhaseMap,
    holder <- lockTable,
    joined <- cond

\* Every step of the search, of the connections and of the two maintenance calls is
\* a step of CreateOnce or leaves its state alone: one goroutine at a time makes the
\* appStats of an app, and no goroutine that waits for it goes on before it is done.
ImplementsCreateOnce == Once!Spec
===============================================================================
