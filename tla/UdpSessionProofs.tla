--------------------------- MODULE UdpSessionProofs ---------------------------
(***************************************************************************)
(* Proofs about UdpSession and the promise of CreateOnce that it keeps,    *)
(* for any set of datagrams and source addresses.                          *)
(***************************************************************************)
EXTENDS UdpSession, TLAPS

Resending == {"resend", "rewrite", "unlockL"}
Published == {"read", "close", "delete", "done"}

-------------------------------------------------------------------------------
(* Type correctness.                                                          *)

\* Every step of NewPacket keeps each variable in its type.
LEMMA TypeStep == TypeOK /\ [Next]_vars => TypeOK'
<1>. SUFFICES ASSUME TypeOK, [Next]_vars PROVE TypeOK'
  OBVIOUS
<1>. USE UdpAssumption DEF TypeOK, PC, Key, Entry, Goto, CloseCloser, LoadEntry,
       WriteTarget, sendVars, lockVars
<1>1. CASE UNCHANGED vars
  BY <1>1 DEF vars
<1>2. ASSUME NEW p \in Packets, Sender(p) PROVE TypeOK'
  BY <1>2 DEF Sender, FastWrite, LockStored, LockLoaded
<1>3. ASSUME NEW p \in Packets, Waiter(p) PROVE TypeOK'
  BY <1>3 DEF Waiter, Wait, Wake, WaiterLoad, WaiterWrite, WaiterUnlock
<1>4. ASSUME NEW p \in Packets, Opening(p) PROVE TypeOK'
  BY <1>4 DEF Opening, DialOk, DialFails, StatsAcquired, StatsHang, Store, Unlock,
       Broadcast, SessionsOf
<1>5. ASSUME NEW p \in Packets, Closing(p) PROVE TypeOK'
  BY <1>5 DEF Closing, ReadFails, LoopClose, Delete
<1>6. ASSUME NEW p \in Packets, Async(p) PROVE TypeOK'
  BY <1>6 DEF Async, AsyncLoad, AsyncWrite
<1>7. ASSUME NEW p \in Packets, External(p) PROVE TypeOK'
  BY <1>7 DEF External, Arrival, LoadHit, LoadMiss, WriteBackFails, ConnEnds
<1>. QED
  BY <1>1, <1>2, <1>3, <1>4, <1>5, <1>6, <1>7 DEF Next

-------------------------------------------------------------------------------
(* The election.                                                              *)

\* LoadOrStore and Delete keep the Cond of a source address in lockTable exactly
\* while its creator is between the two.
LEMMA LockStep == TypeOK /\ CreatorHoldsLock /\ [Next]_vars => CreatorHoldsLock'
<1>. SUFFICES ASSUME TypeOK, CreatorHoldsLock, [Next]_vars PROVE CreatorHoldsLock'
  OBVIOUS
<1>. USE UdpAssumption DEF TypeOK, PC, Key, Entry, Goto, CloseCloser, LoadEntry,
       WriteTarget, sendVars, lockVars, Creating, CreatorHoldsLock
<1>1. CASE UNCHANGED vars
  BY <1>1 DEF vars
<1>2. ASSUME NEW p \in Packets, Sender(p) PROVE CreatorHoldsLock'
  BY <1>2 DEF Sender, FastWrite, LockStored, LockLoaded
<1>3. ASSUME NEW p \in Packets, Waiter(p) PROVE CreatorHoldsLock'
  BY <1>3 DEF Waiter, Wait, Wake, WaiterLoad, WaiterWrite, WaiterUnlock
<1>4. ASSUME NEW p \in Packets, Opening(p) PROVE CreatorHoldsLock'
  BY <1>4 DEF Opening, DialOk, DialFails, StatsAcquired, StatsHang, Store, Unlock,
       Broadcast
<1>5. ASSUME NEW p \in Packets, Closing(p) PROVE CreatorHoldsLock'
  BY <1>5 DEF Closing, ReadFails, LoopClose, Delete
<1>6. ASSUME NEW p \in Packets, Async(p) PROVE CreatorHoldsLock'
  BY <1>6 DEF Async, AsyncLoad, AsyncWrite
<1>7. ASSUME NEW p \in Packets, External(p) PROVE CreatorHoldsLock'
  BY <1>7 DEF External, Arrival, LoadHit, LoadMiss, WriteBackFails, ConnEnds
<1>. QED
  BY <1>1, <1>2, <1>3, <1>4, <1>5, <1>6, <1>7 DEF Next

\* Which Cond a goroutine has: its own if it leads, its leader's if it waits; and
\* nobody is woken by a leader that has not broadcast.
CondInv ==
    \A p \in Packets :
        /\ pc[p] \in {"start", "write", "lock"} => cond[p] = None
        /\ pc[p] \in Creating \cup {"broadcast", "read", "close", "delete"} => cond[p] = p
        /\ pc[p] \in Waiting \cup Resending => cond[p] \in Packets \ {p}
        /\ cond[p] \in Packets => Key(cond[p]) = Key(p) /\ cond[cond[p]] = cond[p]
        /\ (pc[p] \in {"awake"} \cup Resending \/ (pc[p] = "done" /\ cond[p] # None)) =>
                pc[cond[p]] \in Published

\* Each goroutine keeps the Cond it got, and Broadcast wakes its sleepers only.
LEMMA CondStep == TypeOK /\ CreatorHoldsLock /\ CondInv /\ [Next]_vars => CondInv'
<1>. SUFFICES ASSUME TypeOK, CreatorHoldsLock, CondInv, [Next]_vars PROVE CondInv'
  OBVIOUS
<1>. USE UdpAssumption DEF TypeOK, PC, Key, Entry, Goto, CloseCloser, LoadEntry,
       WriteTarget, sendVars, lockVars, Creating,
       CreatorHoldsLock, CondInv, Waiting, Resending, Published
<1>1. CASE UNCHANGED vars
  BY <1>1 DEF vars
<1>2. ASSUME NEW p \in Packets, Sender(p) PROVE CondInv'
  BY <1>2 DEF Sender, FastWrite, LockStored, LockLoaded
<1>3. ASSUME NEW p \in Packets, Waiter(p) PROVE CondInv'
  BY <1>3 DEF Waiter, Wait, Wake, WaiterLoad, WaiterWrite, WaiterUnlock
<1>4. ASSUME NEW p \in Packets, Opening(p) PROVE CondInv'
  BY <1>4 DEF Opening, DialOk, DialFails, StatsAcquired, StatsHang, Store, Unlock,
       Broadcast
<1>5. ASSUME NEW p \in Packets, Closing(p) PROVE CondInv'
  BY <1>5 DEF Closing, ReadFails, LoopClose, Delete
<1>6. ASSUME NEW p \in Packets, Async(p) PROVE CondInv'
  BY <1>6 DEF Async, AsyncLoad, AsyncWrite
<1>7. ASSUME NEW p \in Packets, External(p) PROVE CondInv'
  BY <1>7 DEF External, Arrival, LoadHit, LoadMiss, WriteBackFails, ConnEnds
<1>. QED
  BY <1>1, <1>2, <1>3, <1>4, <1>5, <1>6, <1>7 DEF Next

\* The mutex of a Cond belongs to the waiter of that Cond that resends.
CondLInv ==
    \A p, c \in Packets : condL[c] = p <=> cond[p] = c /\ pc[p] \in Resending

\* Waiters take and give back the mutex of their own Cond.
LEMMA CondLStep == TypeOK /\ CondInv /\ CondLInv /\ [Next]_vars => CondLInv'
<1>. SUFFICES ASSUME TypeOK, CondInv, CondLInv, [Next]_vars PROVE CondLInv'
  OBVIOUS
<1>. USE UdpAssumption DEF TypeOK, PC, Key, Entry, Goto, CloseCloser, LoadEntry,
       WriteTarget, sendVars, lockVars, Creating,
       CondInv, CondLInv, Waiting, Resending
<1>1. CASE UNCHANGED vars
  BY <1>1 DEF vars
<1>2. ASSUME NEW p \in Packets, Sender(p) PROVE CondLInv'
  BY <1>2 DEF Sender, FastWrite, LockStored, LockLoaded
<1>3. ASSUME NEW p \in Packets, Waiter(p) PROVE CondLInv'
  BY <1>3 DEF Waiter, Wait, Wake, WaiterLoad, WaiterWrite, WaiterUnlock
<1>4. ASSUME NEW p \in Packets, Opening(p) PROVE CondLInv'
  BY <1>4 DEF Opening, DialOk, DialFails, StatsAcquired, StatsHang, Store, Unlock,
       Broadcast
<1>5. ASSUME NEW p \in Packets, Closing(p) PROVE CondLInv'
  BY <1>5 DEF Closing, ReadFails, LoopClose, Delete
<1>6. ASSUME NEW p \in Packets, Async(p) PROVE CondLInv'
  BY <1>6 DEF Async, AsyncLoad, AsyncWrite
<1>7. ASSUME NEW p \in Packets, External(p) PROVE CondLInv'
  BY <1>7 DEF External, Arrival, LoadHit, LoadMiss, WriteBackFails, ConnEnds
<1>. QED
  BY <1>1, <1>2, <1>3, <1>4, <1>5, <1>6, <1>7 DEF Next

-------------------------------------------------------------------------------
(* The sessions.                                                              *)

\* A goroutine has a packetConn from the dial on, and it never loses it.
ConnInv ==
    \A p \in Packets :
        (pc[p] \in {"stats", "hung", "store"} \cup Serving \/ (pc[p] = "done" /\ cond[p] = p)) =>
            conn[p] # "none"

\* Only DialOk leads to the leader's later steps.
LEMMA ConnStep == TypeOK /\ CondInv /\ ConnInv /\ [Next]_vars => ConnInv'
<1>. SUFFICES ASSUME TypeOK, CondInv, ConnInv, [Next]_vars PROVE ConnInv'
  OBVIOUS
<1>. USE UdpAssumption DEF TypeOK, PC, Key, Entry, Goto, CloseCloser, LoadEntry,
       WriteTarget, sendVars, lockVars, Creating,
       Serving, ConnInv, CondInv, Waiting, Resending
<1>1. CASE UNCHANGED vars
  BY <1>1 DEF vars
<1>2. ASSUME NEW p \in Packets, Sender(p) PROVE ConnInv'
  BY <1>2 DEF Sender, FastWrite, LockStored, LockLoaded
<1>3. ASSUME NEW p \in Packets, Waiter(p) PROVE ConnInv'
  BY <1>3 DEF Waiter, Wait, Wake, WaiterLoad, WaiterWrite, WaiterUnlock
<1>4. ASSUME NEW p \in Packets, Opening(p) PROVE ConnInv'
  BY <1>4 DEF Opening, DialOk, DialFails, StatsAcquired, StatsHang, Store, Unlock,
       Broadcast
<1>5. ASSUME NEW p \in Packets, Closing(p) PROVE ConnInv'
  BY <1>5 DEF Closing, ReadFails, LoopClose, Delete
<1>6. ASSUME NEW p \in Packets, Async(p) PROVE ConnInv'
  BY <1>6 DEF Async, AsyncLoad, AsyncWrite
<1>7. ASSUME NEW p \in Packets, External(p) PROVE ConnInv'
  BY <1>7 DEF External, Arrival, LoadHit, LoadMiss, WriteBackFails, ConnEnds
<1>. QED
  BY <1>1, <1>2, <1>3, <1>4, <1>5, <1>6, <1>7 DEF Next

\* An entry of udpTable is a session of its key that is being served.
EntryInv ==
    \A k \in Keys : udpTable[k] # None =>
        /\ Key(udpTable[k]) = k
        /\ pc[udpTable[k]] \in Serving
        /\ conn[udpTable[k]] # "none"

\* A leader ends only with the udpTable.Delete that clears its key.
LEMMA EntryStep == TypeOK /\ ConnInv /\ EntryInv /\ [Next]_vars => EntryInv'
<1>. SUFFICES ASSUME TypeOK, ConnInv, EntryInv, [Next]_vars PROVE EntryInv'
  OBVIOUS
<1>. USE UdpAssumption DEF TypeOK, PC, Key, Entry, Goto, CloseCloser, LoadEntry,
       WriteTarget, sendVars, lockVars, Creating,
       Serving, ConnInv, EntryInv
<1>1. CASE UNCHANGED vars
  BY <1>1 DEF vars
<1>2. ASSUME NEW p \in Packets, Sender(p) PROVE EntryInv'
  BY <1>2 DEF Sender, FastWrite, LockStored, LockLoaded
<1>3. ASSUME NEW p \in Packets, Waiter(p) PROVE EntryInv'
  BY <1>3 DEF Waiter, Wait, Wake, WaiterLoad, WaiterWrite, WaiterUnlock
<1>4. ASSUME NEW p \in Packets, Opening(p) PROVE EntryInv'
  BY <1>4 DEF Opening, DialOk, DialFails, StatsAcquired, StatsHang, Store, Unlock,
       Broadcast
<1>5. ASSUME NEW p \in Packets, Closing(p) PROVE EntryInv'
  BY <1>5 DEF Closing, ReadFails, LoopClose, Delete
<1>6. ASSUME NEW p \in Packets, Async(p) PROVE EntryInv'
  BY <1>6 DEF Async, AsyncLoad, AsyncWrite
<1>7. ASSUME NEW p \in Packets, External(p) PROVE EntryInv'
  BY <1>7 DEF External, Arrival, LoadHit, LoadMiss, WriteBackFails, ConnEnds
<1>. QED
  BY <1>1, <1>2, <1>3, <1>4, <1>5, <1>6, <1>7 DEF Next

\* Two sessions of one key are rivals, and one that has none is in udpTable.
RivalInv ==
    /\ \A p, q \in Packets :
        p # q /\ Key(p) = Key(q) /\ pc[p] \in Serving /\ pc[q] \in Serving => p \in rivals
    /\ SoleSessionReachable

\* Store records every session it meets; Delete hides only rivals.
LEMMA RivalStep == TypeOK /\ RivalInv /\ [Next]_vars => RivalInv'
<1>. SUFFICES ASSUME TypeOK, RivalInv, [Next]_vars PROVE RivalInv'
  OBVIOUS
<1>. USE UdpAssumption DEF TypeOK, PC, Key, Entry, Goto, CloseCloser, LoadEntry,
       WriteTarget, sendVars, lockVars, Creating,
       Serving, SessionsOf, SoleSessionReachable, RivalInv
<1>1. CASE UNCHANGED vars
  BY <1>1 DEF vars
<1>2. ASSUME NEW p \in Packets, Sender(p) PROVE RivalInv'
  BY <1>2 DEF Sender, FastWrite, LockStored, LockLoaded
<1>3. ASSUME NEW p \in Packets, Waiter(p) PROVE RivalInv'
  BY <1>3 DEF Waiter, Wait, Wake, WaiterLoad, WaiterWrite, WaiterUnlock
<1>4. ASSUME NEW p \in Packets, Opening(p) PROVE RivalInv'
  BY <1>4 DEF Opening, DialOk, DialFails, StatsAcquired, StatsHang, Store, Unlock,
       Broadcast
<1>5. ASSUME NEW p \in Packets, Closing(p) PROVE RivalInv'
  BY <1>5 DEF Closing, ReadFails, LoopClose, Delete
<1>6. ASSUME NEW p \in Packets, Async(p) PROVE RivalInv'
  BY <1>6 DEF Async, AsyncLoad, AsyncWrite
<1>7. ASSUME NEW p \in Packets, External(p) PROVE RivalInv'
  BY <1>7 DEF External, Arrival, LoadHit, LoadMiss, WriteBackFails, ConnEnds
<1>. QED
  BY <1>1, <1>2, <1>3, <1>4, <1>5, <1>6, <1>7 DEF Next

\* A key whose leader has published its session has an entry, or has had one.
TornDown(k) == \E q \in Packets : Key(q) = k /\ pc[q] = "done" /\ conn[q] # "none"

StoredInv ==
    \A p \in Packets : pc[p] \in Serving => Entry(p) # None \/ TornDown(Key(p))

\* A Delete that empties the key leaves the session of its goroutine torn down.
LEMMA StoredStep == TypeOK /\ ConnInv /\ StoredInv /\ [Next]_vars => StoredInv'
<1>. SUFFICES ASSUME TypeOK, ConnInv, StoredInv, [Next]_vars PROVE StoredInv'
  OBVIOUS
<1>. USE UdpAssumption DEF TypeOK, PC, Key, Entry, Goto, CloseCloser, LoadEntry,
       WriteTarget, sendVars, lockVars, Creating,
       Serving, ConnInv, TornDown, StoredInv
<1>1. CASE UNCHANGED vars
  BY <1>1 DEF vars
<1>2. ASSUME NEW p \in Packets, Sender(p) PROVE StoredInv'
  BY <1>2 DEF Sender, FastWrite, LockStored, LockLoaded
<1>3. ASSUME NEW p \in Packets, Waiter(p) PROVE StoredInv'
  BY <1>3 DEF Waiter, Wait, Wake, WaiterLoad, WaiterWrite, WaiterUnlock
<1>4. ASSUME NEW p \in Packets, Opening(p) PROVE StoredInv'
  BY <1>4 DEF Opening, DialOk, DialFails, StatsAcquired, StatsHang, Store, Unlock,
       Broadcast
<1>5. ASSUME NEW p \in Packets, Closing(p) PROVE StoredInv'
  BY <1>5 DEF Closing, ReadFails, LoopClose, Delete
<1>6. ASSUME NEW p \in Packets, Async(p) PROVE StoredInv'
  BY <1>6 DEF Async, AsyncLoad, AsyncWrite
<1>7. ASSUME NEW p \in Packets, External(p) PROVE StoredInv'
  BY <1>7 DEF External, Arrival, LoadHit, LoadMiss, WriteBackFails, ConnEnds
<1>. QED
  BY <1>1, <1>2, <1>3, <1>4, <1>5, <1>6, <1>7 DEF Next

-------------------------------------------------------------------------------
(* The datagram's buffer and its closer.                                      *)

\* How far each goroutine is tells whether the buffer and the closer are gone.
HandInv ==
    \A p \in Packets :
        /\ released[p] = IF pc[p] \in {"delete", "done"} THEN 1 ELSE 0
        /\ consumed[p] \in {0, 1}
        /\ pc[p] \in Creating \cup {"start", "write", "lock"} \cup Waiting \cup {"resend", "rewrite"}
                /\ pc[p] # "unlock" => consumed[p] = 0
        /\ async[p] \in {"load", "write"} => consumed[p] = 0
        /\ async[p] # "none" => pc[p] \in Serving \cup {"done"}

\* Each of the three sendTo calls is reached on a path of its own.
LEMMA HandStep == TypeOK /\ HandInv /\ [Next]_vars => HandInv'
<1>. SUFFICES ASSUME TypeOK, HandInv, [Next]_vars PROVE HandInv'
  OBVIOUS
<1>. USE UdpAssumption DEF TypeOK, PC, Key, Entry, Goto, CloseCloser, LoadEntry,
       WriteTarget, sendVars, lockVars, Creating,
       Serving, Waiting, HandInv
<1>1. CASE UNCHANGED vars
  BY <1>1 DEF vars
<1>2. ASSUME NEW p \in Packets, Sender(p) PROVE HandInv'
  BY <1>2 DEF Sender, FastWrite, LockStored, LockLoaded
<1>3. ASSUME NEW p \in Packets, Waiter(p) PROVE HandInv'
  BY <1>3 DEF Waiter, Wait, Wake, WaiterLoad, WaiterWrite, WaiterUnlock
<1>4. ASSUME NEW p \in Packets, Opening(p) PROVE HandInv'
  BY <1>4 DEF Opening, DialOk, DialFails, StatsAcquired, StatsHang, Store, Unlock,
       Broadcast
<1>5. ASSUME NEW p \in Packets, Closing(p) PROVE HandInv'
  BY <1>5 DEF Closing, ReadFails, LoopClose, Delete
<1>6. ASSUME NEW p \in Packets, Async(p) PROVE HandInv'
  BY <1>6 DEF Async, AsyncLoad, AsyncWrite
<1>7. ASSUME NEW p \in Packets, External(p) PROVE HandInv'
  BY <1>7 DEF External, Arrival, LoadHit, LoadMiss, WriteBackFails, ConnEnds
<1>. QED
  BY <1>1, <1>2, <1>3, <1>4, <1>5, <1>6, <1>7 DEF Next

-------------------------------------------------------------------------------
(* The invariant, and the properties that follow from it.                     *)

IInv ==
    /\ TypeOK /\ CreatorHoldsLock /\ CondInv /\ CondLInv
    /\ ConnInv /\ EntryInv /\ RivalInv /\ StoredInv /\ HandInv

\* The initial state satisfies the invariant.
LEMMA InitInv == Init => IInv
<1>. SUFFICES ASSUME Init PROVE IInv
  OBVIOUS
<1>1. TypeOK
  BY UdpAssumption DEF Init, TypeOK, PC
<1>2. CreatorHoldsLock /\ CondInv /\ CondLInv
  BY UdpAssumption DEF Init, CreatorHoldsLock, CondInv, CondLInv, Creating, Waiting, Resending, Key
<1>3. ConnInv /\ EntryInv /\ RivalInv /\ StoredInv
  BY UdpAssumption DEF Init, ConnInv, EntryInv, RivalInv, SoleSessionReachable, StoredInv, Serving
<1>4. HandInv
  BY UdpAssumption DEF Init, HandInv, Creating, Waiting, Serving
<1>. QED
  BY <1>1, <1>2, <1>3, <1>4 DEF IInv

\* The invariant of NewPacket: the election, the sessions and the buffers.
THEOREM Invariance == Spec => []IInv
<1>1. IInv /\ [Next]_vars => IInv'
  BY TypeStep, LockStep, CondStep, CondLStep, ConnStep, EntryStep, RivalStep, StoredStep,
     HandStep DEF IInv
<1>. QED
  BY InitInv, <1>1, PTL DEF Spec

\* Every variable of NewPacket's model keeps its type.
THEOREM TypeCorrect == Spec => []TypeOK
<1>1. IInv => TypeOK
  BY DEF IInv
<1>. QED
  BY Invariance, <1>1, PTL

\* One goroutine at a time dials for a source address, and lockTable.Delete
\* removes its own Cond, however many datagrams arrive and from how many addresses.
THEOREM OneLeader == Spec => []CreatorHoldsLock
<1>1. IInv => CreatorHoldsLock
  BY DEF IInv
<1>. QED
  BY Invariance, <1>1, PTL

\* Whatever udpTable holds is a session of that address with its reader alive.
THEOREM EntriesAreServed == Spec => []EntryIsServed
<1>1. IInv => EntryIsServed
  BY UdpAssumption DEF IInv, TypeOK, EntryInv, EntryIsServed, SessionsOf, Entry, Key
<1>. QED
  BY Invariance, <1>1, PTL

\* A session that never shared its source address is reachable through udpTable.
THEOREM SoleSessionsReachable == Spec => []SoleSessionReachable
<1>1. IInv => SoleSessionReachable
  BY DEF IInv, RivalInv
<1>. QED
  BY Invariance, <1>1, PTL

\* A datagram's buffer and closer are each given up at most once.
THEOREM HandOver == Spec => []HandedOverOnce
<1>1. IInv => HandedOverOnce
  BY DEF IInv, HandInv, HandedOverOnce, TypeOK
<1>. QED
  BY Invariance, <1>1, PTL

\* A waiter is woken when the session is in udpTable, or one of its address is gone.
THEOREM WokenAfterTheStore == Spec => []WokenAfterStore
<1>1. IInv => WokenAfterStore
  <2>. SUFFICES ASSUME IInv, NEW p \in Packets, pc[p] = "resend", Entry(p) = None
                PROVE TornDown(Key(p))
    BY DEF WokenAfterStore, TornDown
  <2>1. cond[p] \in Packets /\ Key(cond[p]) = Key(p) /\ cond[cond[p]] = cond[p]
    BY DEF IInv, CondInv, Waiting, Resending
  <2>2. pc[cond[p]] \in Published
    BY DEF IInv, CondInv, Resending
  <2>3. CASE pc[cond[p]] = "done"
    BY <2>1, <2>3 DEF IInv, ConnInv, TornDown
  <2>4. CASE pc[cond[p]] # "done"
    BY <2>1, <2>2, <2>4 DEF IInv, StoredInv, Published, Serving, Entry
  <2>. QED
    BY <2>3, <2>4
<1>. QED
  BY Invariance, <1>1, PTL

\* The mutex of a Cond is with the waiter that resends, and with no other.
THEOREM CondMutual == Spec => []CondMutex
<1>1. IInv => CondMutex
  BY DEF IInv, TypeOK, CondLInv, CondMutex, Resending
<1>. QED
  BY Invariance, <1>1, PTL

-------------------------------------------------------------------------------
(* NewPacket implements CreateOnce.                                           *)

\* The phase of a goroutine follows from its place in NewPacket and its Cond.
LEMMA PhaseCases ==
  ASSUME NEW p \in Packets
  PROVE  /\ pc[p] \in {"start", "write", "lock"} => PhaseOf(p) = "idle"
         /\ pc[p] \in Creating => PhaseOf(p) = "creating"
         /\ pc[p] \in Waiting => PhaseOf(p) = "waiting"
         /\ pc[p] \in Resending \cup Published \cup {"broadcast"} =>
                PhaseOf(p) = IF cond[p] = p THEN "created"
                             ELSE IF cond[p] = None THEN "bypassed" ELSE "released"
  BY DEF PhaseOf, Creating, Waiting, Resending, Published

\* The same, after a step.
LEMMA PhaseCasesNext ==
  ASSUME NEW p \in Packets
  PROVE  /\ pc'[p] \in {"start", "write", "lock"} => PhaseOf(p)' = "idle"
         /\ pc'[p] \in Creating => PhaseOf(p)' = "creating"
         /\ pc'[p] \in Waiting => PhaseOf(p)' = "waiting"
         /\ pc'[p] \in Resending \cup Published \cup {"broadcast"} =>
                PhaseOf(p)' = IF cond'[p] = p THEN "created"
                              ELSE IF cond'[p] = None THEN "bypassed" ELSE "released"
  BY DEF PhaseOf, Creating, Waiting, Resending, Published

\* A step that moves one goroutine only changes the phase of that one.
LEMMA OnePhase ==
  ASSUME NEW p \in Packets,
         \A q \in Packets \ {p} : pc'[q] = pc[q] /\ cond'[q] = cond[q]
  PROVE  [q \in Packets |-> PhaseOf(q)]' =
            [[q \in Packets |-> PhaseOf(q)] EXCEPT ![p] = PhaseOf(p)']
<1>1. \A q \in Packets \ {p} : PhaseOf(q)' = PhaseOf(q)
  BY DEF PhaseOf
<1>. QED
  BY <1>1

\* A step that leaves every goroutine in its phase leaves the mapped phases alone.
LEMMA SamePhases ==
  ASSUME \A q \in Packets : PhaseOf(q)' = PhaseOf(q)
  PROVE  [q \in Packets |-> PhaseOf(q)]' = [q \in Packets |-> PhaseOf(q)]
  OBVIOUS

\* The mapped initial state is CreateOnce's.
LEMMA InitMaps == Init => Once!Init
<1>. SUFFICES ASSUME Init PROVE Once!Init
  OBVIOUS
<1>1. \A p \in Packets : PhaseOf(p) = "idle"
  BY PhaseCases DEF Init
<1>. QED
  BY <1>1 DEF Init, Once!Init, PhaseMap

\* Each step maps to a step of CreateOnce or leaves the mapped state alone:
\* LoadOrStore to Create or Join, lockTable.Delete to Finish, the return of
\* cond.Wait to Release, the fast path's write to Bypass.
LEMMA StepMaps == IInv /\ [Next]_vars => [Once!Next]_(Once!onceVars)
<1>. SUFFICES ASSUME IInv, [Next]_vars PROVE [Once!Next]_(Once!onceVars)
  OBVIOUS
<1>. USE UdpAssumption DEF IInv, TypeOK, Key, Goto, sendVars, lockVars, PhaseMap
<1>1. CASE UNCHANGED vars
  <2>1. \A q \in Packets : PhaseOf(q)' = PhaseOf(q)
    BY <1>1 DEF vars, PhaseOf
  <2>. QED
    BY <1>1, <2>1, SamePhases DEF vars, Once!onceVars
<1>2. ASSUME NEW p \in Packets, FastWrite(p) PROVE Once!Bypass(p)
  <2>1. PhaseOf(p) = "idle" /\ PhaseOf(p)' = "bypassed"
    BY <1>2, PhaseCases, PhaseCasesNext DEF FastWrite, CondInv, Published
  <2>2. [q \in Packets |-> PhaseOf(q)]' = [[q \in Packets |-> PhaseOf(q)] EXCEPT ![p] = "bypassed"]
    BY <1>2, <2>1, OnePhase DEF FastWrite
  <2>. QED
    BY <1>2, <2>1, <2>2 DEF FastWrite, Once!Bypass
<1>3. ASSUME NEW p \in Packets, LockStored(p) PROVE Once!Create(p)
  <2>1. PhaseOf(p) = "idle" /\ PhaseOf(p)' = "creating"
    BY <1>3, PhaseCases, PhaseCasesNext DEF LockStored, Creating
  <2>2. [q \in Packets |-> PhaseOf(q)]' = [[q \in Packets |-> PhaseOf(q)] EXCEPT ![p] = "creating"]
    BY <1>3, <2>1, OnePhase DEF LockStored
  <2>. QED
    BY <1>3, <2>1, <2>2 DEF LockStored, Once!Create
<1>4. ASSUME NEW p \in Packets, LockLoaded(p) PROVE Once!Join(p)
  <2>1. PhaseOf(p) = "idle" /\ PhaseOf(p)' = "waiting"
    BY <1>4, PhaseCases, PhaseCasesNext DEF LockLoaded, Waiting
  <2>2. [q \in Packets |-> PhaseOf(q)]' = [[q \in Packets |-> PhaseOf(q)] EXCEPT ![p] = "waiting"]
    BY <1>4, <2>1, OnePhase DEF LockLoaded
  <2>. QED
    BY <1>4, <2>1, <2>2 DEF LockLoaded, Once!Join
<1>5. ASSUME NEW p \in Packets, Wake(p) PROVE Once!Release(p)
  <2>1. PhaseOf(p) = "waiting" /\ PhaseOf(p)' = "released"
    BY <1>5, PhaseCases, PhaseCasesNext DEF Wake, CondInv, Waiting, Resending
  <2>2. cond[p] \in Packets /\ PhaseOf(cond[p]) = "created"
    BY <1>5, PhaseCases DEF Wake, CondInv, Waiting, Resending, Published
  <2>3. [q \in Packets |-> PhaseOf(q)]' = [[q \in Packets |-> PhaseOf(q)] EXCEPT ![p] = "released"]
    BY <1>5, <2>1, OnePhase DEF Wake
  <2>. QED
    BY <1>5, <2>1, <2>2, <2>3 DEF Wake, Once!Release
<1>6. ASSUME NEW p \in Packets, Unlock(p) PROVE Once!Finish(p)
  <2>1. PhaseOf(p) = "creating" /\ PhaseOf(p)' = "created"
    BY <1>6, PhaseCases, PhaseCasesNext DEF Unlock, CondInv, Creating
  <2>2. [q \in Packets |-> PhaseOf(q)]' = [[q \in Packets |-> PhaseOf(q)] EXCEPT ![p] = "created"]
    BY <1>6, <2>1, OnePhase DEF Unlock
  <2>. QED
    BY <1>6, <2>1, <2>2 DEF Unlock, Once!Finish
<1>7. ASSUME NEW p \in Packets, Wait(p) \/ WaiterLoad(p) \/ WaiterWrite(p) \/ WaiterUnlock(p)
      PROVE UNCHANGED Once!onceVars
  <2>1. \A q \in Packets : PhaseOf(q)' = PhaseOf(q)
    BY <1>7 DEF Wait, WaiterLoad, WaiterWrite, WaiterUnlock, CondInv, PhaseOf,
         Waiting, Resending, Creating
  <2>. QED
    BY <1>7, <2>1, SamePhases DEF Wait, WaiterLoad, WaiterWrite, WaiterUnlock, Once!onceVars
<1>8. ASSUME NEW p \in Packets,
             DialOk(p) \/ DialFails(p) \/ StatsAcquired(p) \/ StatsHang(p) \/ Store(p)
      PROVE UNCHANGED Once!onceVars
  <2>1. PhaseOf(p) = "creating" /\ PhaseOf(p)' = "creating"
    BY <1>8, PhaseCases, PhaseCasesNext
       DEF DialOk, DialFails, StatsAcquired, StatsHang, Store, Creating
  <2>2. \A q \in Packets \ {p} : pc'[q] = pc[q] /\ cond'[q] = cond[q]
    BY <1>8 DEF DialOk, DialFails, StatsAcquired, StatsHang, Store
  <2>3. \A q \in Packets : PhaseOf(q)' = PhaseOf(q)
    BY <2>1, <2>2 DEF PhaseOf
  <2>. QED
    BY <1>8, <2>3, SamePhases
       DEF DialOk, DialFails, StatsAcquired, StatsHang, Store, Once!onceVars
<1>9. ASSUME NEW p \in Packets, Broadcast(p) PROVE UNCHANGED Once!onceVars
  <2>1. \A q \in Packets : PhaseOf(q)' = PhaseOf(q)
    BY <1>9 DEF Broadcast, PhaseOf, Creating, Waiting
  <2>. QED
    BY <1>9, <2>1, SamePhases DEF Broadcast, Once!onceVars
<1>10. ASSUME NEW p \in Packets, Closing(p) \/ Async(p) \/ External(p)
       PROVE UNCHANGED Once!onceVars
  <2>. USE DEF Closing, ReadFails, LoopClose, Delete, Async, AsyncLoad, AsyncWrite,
         External, Arrival, LoadHit, LoadMiss, WriteBackFails, ConnEnds
  <2>1. \A q \in Packets : PhaseOf(q)' = PhaseOf(q)
    BY <1>10 DEF PhaseOf, CondInv, Creating, Waiting
  <2>. QED
    BY <1>10, <2>1, SamePhases DEF Once!onceVars
<1>. QED
  BY <1>1, <1>2, <1>3, <1>4, <1>5, <1>6, <1>7, <1>8, <1>9, <1>10
     DEF Next, Sender, Waiter, Opening, Once!Next

\* NewPacket keeps the promise of the get-or-create idiom, for every set of
\* datagrams and source addresses: one creator per key, waiters after creators.
THEOREM Implementation == Spec => ImplementsCreateOnce
  BY InitMaps, StepMaps, Invariance, PTL DEF Spec, ImplementsCreateOnce, Once!Spec

-------------------------------------------------------------------------------
(* What the idiom promises, and so what NewPacket has by the refinement.       *)

LEMMA OnceInvariance == Once!Spec => []Once!OnceInv
<1>. USE UdpAssumption
<1>1. Once!Init => Once!OnceInv
  BY DEF Once!Init, Once!OnceInv, Once!OnceTypeOK, Once!Phases
<1>2. Once!OnceInv /\ [Once!Next]_(Once!onceVars) => Once!OnceInv'
  <2>. SUFFICES ASSUME Once!OnceInv, [Once!Next]_(Once!onceVars) PROVE Once!OnceInv'
    OBVIOUS
  <2>. USE DEF Once!OnceInv, Once!OnceTypeOK, Once!Phases
  <2>1. CASE UNCHANGED Once!onceVars
    BY <2>1 DEF Once!onceVars
  <2>2. ASSUME NEW c \in Packets, Once!Bypass(c) PROVE Once!OnceInv'
    BY <2>2 DEF Once!Bypass
  <2>3. ASSUME NEW c \in Packets, Once!Create(c) PROVE Once!OnceInv'
    BY <2>3 DEF Once!Create
  <2>4. ASSUME NEW c \in Packets, Once!Join(c) PROVE Once!OnceInv'
    BY <2>4 DEF Once!Join
  <2>5. ASSUME NEW c \in Packets, Once!Finish(c) PROVE Once!OnceInv'
    BY <2>5 DEF Once!Finish
  <2>6. ASSUME NEW c \in Packets, Once!Release(c) PROVE Once!OnceInv'
    BY <2>6 DEF Once!Release
  <2>. QED
    BY <2>1, <2>2, <2>3, <2>4, <2>5, <2>6 DEF Once!Next
<1>. QED
  BY <1>1, <1>2, PTL DEF Once!Spec

\* NewPacket never dials twice for one source address at a time: the promise has one
\* creator per key, and NewPacket implements it.
THEOREM OneCreatorPerKey == Spec => []Once!OneCreator
<1>1. Once!OnceInv => Once!OneCreator
  BY DEF Once!OnceInv, Once!OneCreator
<1>. QED
  BY OnceInvariance, Implementation, <1>1, PTL DEF ImplementsCreateOnce

\* No datagram that waited goes on before the leader it joined has published.
THEOREM WaitersAfterCreator == Spec => []Once!ReleasedAfterCreator
<1>1. Once!OnceInv => Once!ReleasedAfterCreator
  BY DEF Once!OnceInv, Once!ReleasedAfterCreator
<1>. QED
  BY OnceInvariance, Implementation, <1>1, PTL DEF ImplementsCreateOnce

-------------------------------------------------------------------------------
(* Why nobody else waits for ever: the safety core of WaitersReleased.        *)

\* A leader that has published its session has broadcast its Cond, so whoever began
\* to wait in time sleeps on a Cond whose leader has not come to cond.Broadcast().
WaitInv ==
    \A p \in Packets :
        /\ pc[p] \in Published /\ cond[p] = p => p \in broadcast
        /\ pc[p] = "asleep" /\ p \notin missed => pc[cond[p]] \notin Published

\* Broadcast is the only step to the published states that its own Cond's holder
\* takes, and it leaves nobody asleep.
LEMMA WaitStep == TypeOK /\ CondInv /\ WaitInv /\ [Next]_vars => WaitInv'
<1>. SUFFICES ASSUME TypeOK, CondInv, WaitInv, [Next]_vars PROVE WaitInv'
  OBVIOUS
<1>. USE UdpAssumption DEF TypeOK, PC, Key, Entry, Goto, CloseCloser, LoadEntry,
       WriteTarget, sendVars, lockVars, Creating,
       CondInv, WaitInv, Waiting, Resending, Published
<1>1. CASE UNCHANGED vars
  BY <1>1 DEF vars
<1>2. ASSUME NEW p \in Packets, Sender(p) PROVE WaitInv'
  BY <1>2 DEF Sender, FastWrite, LockStored, LockLoaded
<1>3. ASSUME NEW p \in Packets, Waiter(p) PROVE WaitInv'
  BY <1>3 DEF Waiter, Wait, Wake, WaiterLoad, WaiterWrite, WaiterUnlock
<1>4. ASSUME NEW p \in Packets, Opening(p) PROVE WaitInv'
  BY <1>4 DEF Opening, DialOk, DialFails, StatsAcquired, StatsHang, Store, Unlock,
       Broadcast
<1>5. ASSUME NEW p \in Packets, Closing(p) PROVE WaitInv'
  BY <1>5 DEF Closing, ReadFails, LoopClose, Delete
<1>6. ASSUME NEW p \in Packets, Async(p) PROVE WaitInv'
  BY <1>6 DEF Async, AsyncLoad, AsyncWrite
<1>7. ASSUME NEW p \in Packets, External(p) PROVE WaitInv'
  BY <1>7 DEF External, Arrival, LoadHit, LoadMiss, WriteBackFails, ConnEnds
<1>. QED
  BY <1>1, <1>2, <1>3, <1>4, <1>5, <1>6, <1>7 DEF Next

\* Everyone a goroutine of NewPacket waits for goes on by itself, but for the leader
\* that failed to dial and the one that hangs: a sleeper that did not miss the
\* broadcast has its leader still before it, and the mutex of a Cond that somebody
\* wants is with a waiter in one of the three steps that give it back.
WaitedForGoesOn ==
    \A p \in Packets :
        /\ pc[p] = "asleep" /\ p \notin missed =>
               cond[p] # p /\ pc[cond[p]] \in Creating \cup {"broadcast"}
        /\ pc[p] \in {"wait", "awake"} =>
               \/ condL[cond[p]] = None
               \/ condL[cond[p]] # p /\ pc[condL[cond[p]]] \in Resending

\* Nobody loses the wake-up it was there for and no mutex is kept, for any set of
\* datagrams and source addresses.
THEOREM WakeUpNotLost == Spec => []WaitedForGoesOn
<1>1. Init => WaitInv
  BY UdpAssumption DEF Init, WaitInv, Published
<1>2. IInv /\ WaitInv /\ [Next]_vars => WaitInv'
  BY WaitStep DEF IInv
<1>3. IInv /\ WaitInv => WaitedForGoesOn
  <2>. SUFFICES ASSUME IInv, WaitInv, NEW p \in Packets
       PROVE /\ pc[p] = "asleep" /\ p \notin missed =>
                    cond[p] # p /\ pc[cond[p]] \in Creating \cup {"broadcast"}
             /\ pc[p] \in {"wait", "awake"} =>
                    \/ condL[cond[p]] = None
                    \/ condL[cond[p]] # p /\ pc[condL[cond[p]]] \in Resending
    BY DEF WaitedForGoesOn
  <2>. USE DEF IInv, TypeOK, PC, Waiting, Resending, Creating
  <2>1. CASE pc[p] = "asleep" /\ p \notin missed
    <3>1. cond[p] \in Packets \ {p} /\ cond[cond[p]] = cond[p]
      BY <2>1 DEF CondInv
    <3>2. pc[cond[p]] \notin Published
      BY <2>1 DEF WaitInv
    <3>3. pc[cond[p]] \in Creating \cup {"broadcast"}
      BY <3>1, <3>2, UdpAssumption DEF CondInv, Published
    <3>. QED
      BY <2>1, <3>1, <3>3
  <2>2. CASE pc[p] \in {"wait", "awake"}
    BY <2>2 DEF CondInv, CondLInv
  <2>. QED
    BY <2>1, <2>2
<1>. QED
  BY Invariance, <1>1, <1>2, <1>3, PTL DEF Spec
===============================================================================
