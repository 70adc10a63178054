--------------------------- MODULE PingSessionProofs ---------------------------
(***************************************************************************)
(* Proofs about PingSession, for any set of requests and address pairs.    *)
(* Everything rests on the one dispatch goroutine: at most one request is  *)
(* being worked on, so whoever holds a Cond is the request itself, and an  *)
(* entry that was missing at the lookup is still missing at the Store.     *)
(* For the same reason NewPingPacket implements CreateOnce.                *)
(***************************************************************************)
EXTENDS PingSession, TLAPS

Missing == {"lock", "route", "handle", "store"}

\* The dispatch goroutine works on one request.
CurInv == \A r \in Requests : pc[r] \in Working <=> cur = r

\* A Cond in lockTable is that of the request being worked on.
LockInv ==
    \A k \in Keys : lockTable[k] # None =>
        Key(lockTable[k]) = k /\ pc[lockTable[k]] \in Holding

\* udpTable and the readers agree, and a missed lookup stays true until Store.
EntryInv ==
    /\ \A k \in Keys : udpTable[k] # None =>
        Key(udpTable[k]) = k /\ reader[udpTable[k]] \in Reading
    /\ \A r \in Requests : reader[r] \in Reading => Entry(r) = r
    /\ \A r \in Requests : pc[r] \in Missing => Entry(r) = None

\* Who owns the message and the closer of a request, from what it has come to.
OwnerInv ==
    \A r \in Requests :
        /\ pc[r] \notin {"deferred", "return", "returned"} =>
            answer[r] = "none" /\ reader[r] = "none" /\ released[r] = 0
        /\ pc[r] \in {"deferred", "return", "returned"} => answer[r] # "none"
        /\ answer[r] # "true" => reader[r] = "none" /\ async[r] = "none" /\ consumed[r] = 0
        /\ pc[r] = "deferred" /\ answer[r] = "true" => reader[r] # "none"
        /\ pc[r] = "deferred" /\ answer[r] = "false" => released[r] = 0
        /\ pc[r] = "return" /\ reader[r] = "none" =>
            released[r] = IF answer[r] = "true" THEN 1 ELSE 0
        /\ pc[r] = "returned" /\ reader[r] = "none" => released[r] = 1
        /\ reader[r] \in {"read", "close"} => released[r] = 0
        /\ reader[r] \in {"delete", "done"} => released[r] = 1
        /\ async[r] \in {"load", "write"} => consumed[r] = 0
        /\ consumed[r] \in {0, 1}

IInv == TypeOK /\ CurInv /\ LockInv /\ EntryInv /\ LoopNeverWaits /\ OwnerInv

-------------------------------------------------------------------------------
\* The initial state satisfies the invariant.
LEMMA InitInv == Init => IInv
  BY PingAssumption DEF Init, IInv, TypeOK, CurInv, LockInv, EntryInv, LoopNeverWaits, OwnerInv,
     Working, Reading, Missing, Entry, Key

\* Every step keeps each variable in its type, and the dispatch goroutine on one request.
LEMMA TypeStep == TypeOK /\ CurInv /\ [Next]_vars => TypeOK' /\ CurInv'
<1>. SUFFICES ASSUME TypeOK, CurInv, [Next]_vars PROVE TypeOK' /\ CurInv'
  OBVIOUS
<1>. USE PingAssumption DEF TypeOK, CurInv, Working, Reading, Key, Entry, Goto, Answer, Close,
       LoadEntry, WriteTarget, sendVars
<1>1. CASE UNCHANGED vars
  BY <1>1 DEF vars
<1>2. ASSUME NEW r \in Requests, Deliver(r) PROVE TypeOK' /\ CurInv'
  BY <1>2 DEF Deliver
<1>3. ASSUME NEW r \in Requests, LoadHit(r) \/ LoadMiss(r) \/ FastWrite(r) \/ Lock(r)
      PROVE TypeOK' /\ CurInv'
  BY <1>3 DEF LoadHit, LoadMiss, FastWrite, Lock
<1>4. ASSUME NEW r \in Requests,
             RouteFound(r) \/ RouteMissing(r) \/ HandleUDP(r) \/ Store(r) \/ Deferred(r)
      PROVE TypeOK' /\ CurInv'
  BY <1>4 DEF RouteFound, RouteMissing, HandleUDP, Store, Deferred
<1>5. ASSUME NEW r \in Requests, Return(r) PROVE TypeOK' /\ CurInv'
  BY <1>5 DEF Return
<1>6. ASSUME NEW r \in Requests, Async(r) PROVE TypeOK' /\ CurInv'
  BY <1>6 DEF Async, AsyncLoad, AsyncWrite
<1>7. ASSUME NEW r \in Requests, Reader(r) \/ WriteBackFails(r) \/ ConnEnds(r)
      PROVE TypeOK' /\ CurInv'
  BY <1>7 DEF Reader, ReadFails, LoopClose, Delete, WriteBackFails, ConnEnds
<1>. QED
  BY <1>1, <1>2, <1>3, <1>4, <1>5, <1>6, <1>7 DEF Next, Dispatch

\* A request that reaches LoadOrStore finds no Cond: its holder would be another
\* request at work.
LEMMA LockStep == IInv /\ [Next]_vars => LockInv' /\ LoopNeverWaits'
<1>. SUFFICES ASSUME IInv, [Next]_vars PROVE LockInv' /\ LoopNeverWaits'
  OBVIOUS
<1>. USE PingAssumption DEF IInv, TypeOK, CurInv, LockInv, LoopNeverWaits, Working, Holding,
       Key, Goto, Answer, Close
<1>1. CASE UNCHANGED vars
  BY <1>1 DEF vars
<1>2. ASSUME NEW r \in Requests, Deliver(r) PROVE LockInv' /\ LoopNeverWaits'
  BY <1>2 DEF Deliver
<1>3. ASSUME NEW r \in Requests, LoadHit(r) \/ LoadMiss(r) \/ FastWrite(r)
      PROVE LockInv' /\ LoopNeverWaits'
  BY <1>3 DEF LoadHit, LoadMiss, FastWrite
<1>4. ASSUME NEW r \in Requests, Lock(r) PROVE LockInv' /\ LoopNeverWaits'
  <2>1. lockTable[Key(r)] = None
    BY <1>4 DEF Lock
  <2>. QED
    BY <1>4, <2>1 DEF Lock
<1>5. ASSUME NEW r \in Requests,
             RouteFound(r) \/ RouteMissing(r) \/ HandleUDP(r) \/ Store(r) \/ Deferred(r)
      PROVE LockInv' /\ LoopNeverWaits'
  BY <1>5 DEF RouteFound, RouteMissing, HandleUDP, Store, Deferred
<1>6. ASSUME NEW r \in Requests, Return(r) PROVE LockInv' /\ LoopNeverWaits'
  BY <1>6 DEF Return
<1>7. ASSUME NEW r \in Requests, Async(r) \/ Reader(r) \/ WriteBackFails(r) \/ ConnEnds(r)
      PROVE LockInv' /\ LoopNeverWaits'
  BY <1>7 DEF Async, AsyncLoad, AsyncWrite, Reader, ReadFails, LoopClose, Delete,
       WriteBackFails, ConnEnds
<1>. QED
  BY <1>1, <1>2, <1>3, <1>4, <1>5, <1>6, <1>7 DEF Next, Dispatch

\* Store fills an empty entry, and Delete empties the reader's own.
LEMMA EntryStep == IInv /\ [Next]_vars => EntryInv'
<1>. SUFFICES ASSUME IInv, [Next]_vars PROVE EntryInv'
  OBVIOUS
<1>. USE PingAssumption DEF IInv, TypeOK, CurInv, EntryInv, Working, Missing, Reading,
       Key, Entry, Goto, Answer, Close, LoadEntry, WriteTarget, sendVars
<1>1. CASE UNCHANGED vars
  BY <1>1 DEF vars
<1>2. ASSUME NEW r \in Requests, Deliver(r) PROVE EntryInv'
  BY <1>2 DEF Deliver
<1>3. ASSUME NEW r \in Requests, LoadHit(r) \/ LoadMiss(r) \/ FastWrite(r) \/ Lock(r)
      PROVE EntryInv'
  BY <1>3 DEF LoadHit, LoadMiss, FastWrite, Lock
<1>4. ASSUME NEW r \in Requests,
             RouteFound(r) \/ RouteMissing(r) \/ HandleUDP(r) \/ Deferred(r) \/ Return(r)
      PROVE EntryInv'
  BY <1>4 DEF RouteFound, RouteMissing, HandleUDP, Deferred, Return
<1>5. ASSUME NEW r \in Requests, Store(r) PROVE EntryInv'
  BY <1>5 DEF Store
<1>6. ASSUME NEW r \in Requests, Async(r) \/ WriteBackFails(r) \/ ConnEnds(r) PROVE EntryInv'
  BY <1>6 DEF Async, AsyncLoad, AsyncWrite, WriteBackFails, ConnEnds
<1>7. ASSUME NEW r \in Requests, Reader(r) PROVE EntryInv'
  BY <1>7 DEF Reader, ReadFails, LoopClose, Delete
<1>. QED
  BY <1>1, <1>2, <1>3, <1>4, <1>5, <1>6, <1>7 DEF Next, Dispatch

\* The message and the closer change hands once, along each path.
LEMMA OwnerStep == IInv /\ [Next]_vars => OwnerInv'
<1>. SUFFICES ASSUME IInv, [Next]_vars PROVE OwnerInv'
  OBVIOUS
<1>. USE PingAssumption DEF IInv, TypeOK, OwnerInv, LoopNeverWaits, Working, Reading,
       Goto, Answer, Close, LoadEntry, WriteTarget, sendVars
<1>1. CASE UNCHANGED vars
  BY <1>1 DEF vars
<1>2. ASSUME NEW r \in Requests, Deliver(r) PROVE OwnerInv'
  BY <1>2 DEF Deliver
<1>3. ASSUME NEW r \in Requests, LoadHit(r) \/ LoadMiss(r) \/ FastWrite(r) \/ Lock(r)
      PROVE OwnerInv'
  BY <1>3 DEF LoadHit, LoadMiss, FastWrite, Lock
<1>4. ASSUME NEW r \in Requests, RouteFound(r) \/ RouteMissing(r) \/ HandleUDP(r) PROVE OwnerInv'
  BY <1>4 DEF RouteFound, RouteMissing, HandleUDP
<1>5. ASSUME NEW r \in Requests, Store(r) \/ Deferred(r) \/ Return(r) PROVE OwnerInv'
  BY <1>5 DEF Store, Deferred, Return
<1>6. ASSUME NEW r \in Requests, Async(r) PROVE OwnerInv'
  BY <1>6 DEF Async, AsyncLoad, AsyncWrite
<1>7. ASSUME NEW r \in Requests, Reader(r) \/ WriteBackFails(r) \/ ConnEnds(r) PROVE OwnerInv'
  BY <1>7 DEF Reader, ReadFails, LoopClose, Delete, WriteBackFails, ConnEnds
<1>. QED
  BY <1>1, <1>2, <1>3, <1>4, <1>5, <1>6, <1>7 DEF Next, Dispatch

-------------------------------------------------------------------------------
\* The invariant of NewPingPacket under its one caller.
THEOREM Invariance == Spec => []IInv
<1>1. IInv /\ [Next]_vars => IInv'
  BY TypeStep, LockStep, EntryStep, OwnerStep DEF IInv
<1>. QED
  BY InitInv, <1>1, PTL DEF Spec

\* Every variable of NewPingPacket's model keeps its type.
THEOREM TypeCorrect == Spec => []TypeOK
<1>1. IInv => TypeOK
  BY DEF IInv
<1>. QED
  BY Invariance, <1>1, PTL

\* The goroutine that carries all packets of the tun never waits on a Cond.
THEOREM DispatchNeverWaits == Spec => []LoopNeverWaits
<1>1. IInv => LoopNeverWaits
  BY DEF IInv
<1>. QED
  BY Invariance, <1>1, PTL

\* One echo session per pair of addresses: the entry and its reader live together.
THEOREM EntryWithReader == Spec => []EntryIffReader
<1>1. IInv => EntryIffReader
  <2>. SUFFICES ASSUME IInv, NEW r \in Requests PROVE Entry(r) = r <=> reader[r] \in Reading
    BY DEF EntryIffReader
  <2>1. Key(r) \in Keys /\ r # None
    BY PingAssumption DEF Key
  <2>. QED
    BY <2>1 DEF IInv, EntryInv, Entry
<1>. QED
  BY Invariance, <1>1, PTL

\* The closer is closed exactly once, and not under a reader that still replies.
THEOREM CloserOnce == Spec => []CloserOwnership
<1>1. IInv => CloserOwnership
  <2>. SUFFICES ASSUME IInv, NEW r \in Requests
                PROVE  /\ released[r] <= 1
                       /\ reader[r] = "read" => released[r] = 0
                       /\ pc[r] = "returned" /\ reader[r] \notin {"read", "close"} => released[r] = 1
    BY DEF CloserOwnership
  <2>1. /\ released[r] \in Nat
        /\ reader[r] \in {"read", "close", "delete", "none", "done"}
        /\ pc[r] \in Working \cup {"idle", "returned"}
        /\ answer[r] \in {"none", "true", "false"}
    BY DEF IInv, TypeOK, Reading
  <2>. QED
    BY <2>1 DEF IInv, OwnerInv, Working
<1>. QED
  BY Invariance, <1>1, PTL

\* The message is given away at most once, and not when the caller keeps it.
THEOREM MessageOwned == Spec => []MessageOwnership
<1>1. IInv => MessageOwnership
  <2>. SUFFICES ASSUME IInv, NEW r \in Requests
                PROVE  /\ consumed[r] <= 1
                       /\ answer[r] = "false" => consumed[r] = 0 /\ async[r] = "none"
    BY DEF MessageOwnership
  <2>. QED
    BY DEF IInv, OwnerInv
<1>. QED
  BY Invariance, <1>1, PTL

-------------------------------------------------------------------------------
(* NewPingPacket implements CreateOnce.                                       *)

\* The mapped variables, from the place of the dispatch goroutine in a request.
LEMMA PhaseCases ==
  ASSUME NEW r \in Requests
  PROVE  /\ PhaseMap[r] = PhaseOf(r) /\ JoinedMap[r] = JoinedOf(r)
         /\ pc[r] \in {"idle", "load", "write", "lock"} =>
                PhaseOf(r) = "idle" /\ JoinedOf(r) = None
         /\ pc[r] \in Holding => PhaseOf(r) = "creating" /\ JoinedOf(r) = r
         /\ pc[r] \in {"return", "returned"} =>
                IF answer[r] = "true" /\ reader[r] = "none"
                THEN PhaseOf(r) = "bypassed" /\ JoinedOf(r) = None
                ELSE PhaseOf(r) = "created" /\ JoinedOf(r) = r
  BY DEF PhaseMap, JoinedMap, PhaseOf, JoinedOf, Holding

\* The same, after a step.
LEMMA PhaseCasesNext ==
  ASSUME NEW r \in Requests
  PROVE  /\ pc'[r] \in {"idle", "load", "write", "lock"} =>
                PhaseOf(r)' = "idle" /\ JoinedOf(r)' = None
         /\ pc'[r] \in Holding => PhaseOf(r)' = "creating" /\ JoinedOf(r)' = r
         /\ pc'[r] = "wait" => PhaseOf(r)' = "waiting" /\ JoinedOf(r)' = lockTable'[Key(r)]
         /\ pc'[r] \in {"return", "returned"} =>
                IF answer'[r] = "true" /\ reader'[r] = "none"
                THEN PhaseOf(r)' = "bypassed" /\ JoinedOf(r)' = None
                ELSE PhaseOf(r)' = "created" /\ JoinedOf(r)' = r
  BY DEF PhaseOf, JoinedOf, Holding

\* A request that does not wait keeps its mapped state while its place and its answer
\* stay and its reader neither starts nor is forgotten.
LEMMA Stays ==
  ASSUME NEW r \in Requests, pc[r] # "wait", pc'[r] = pc[r], answer'[r] = answer[r],
         reader'[r] = "none" <=> reader[r] = "none"
  PROVE  PhaseOf(r)' = PhaseOf(r) /\ JoinedOf(r)' = JoinedOf(r)
<1>1. PhaseOf(r)' = PhaseOf(r)
  BY DEF PhaseOf
<1>2. PhaseOf(r) # "waiting"
  BY DEF PhaseOf
<1>. QED
  BY <1>1, <1>2 DEF JoinedOf

\* A step that keeps the mapped state of every request keeps the mapped variables.
LEMMA AllStay ==
  ASSUME \A r \in Requests : PhaseOf(r)' = PhaseOf(r) /\ JoinedOf(r)' = JoinedOf(r)
  PROVE  PhaseMap' = PhaseMap /\ JoinedMap' = JoinedMap
  BY DEF PhaseMap, JoinedMap

\* A step that moves the dispatch goroutine changes the mapped state of one request.
LEMMA OneMoves ==
  ASSUME TypeOK, LoopNeverWaits, NEW r \in Requests,
         \A q \in Requests \ {r} : pc'[q] = pc[q] /\ answer'[q] = answer[q] /\ reader'[q] = reader[q]
  PROVE  /\ PhaseMap' = [PhaseMap EXCEPT ![r] = PhaseOf(r)']
         /\ JoinedMap' = [JoinedMap EXCEPT ![r] = JoinedOf(r)']
<1>1. \A q \in Requests \ {r} : PhaseOf(q)' = PhaseOf(q) /\ JoinedOf(q)' = JoinedOf(q)
  BY Stays DEF LoopNeverWaits
<1>. QED
  BY <1>1 DEF PhaseMap, JoinedMap

LEMMA InitMaps == Init => Once!Init
<1>. SUFFICES ASSUME Init PROVE Once!Init
  OBVIOUS
<1>1. \A r \in Requests : PhaseOf(r) = "idle" /\ JoinedOf(r) = None
  BY PhaseCases DEF Init
<1>. QED
  BY <1>1 DEF Init, Once!Init, PhaseMap, JoinedMap

\* LoadOrStore maps to Create (or Join), the deferred Delete to Finish, the write to a
\* session that exists to Bypass; the other steps leave the mapped state alone.
LEMMA StepMaps == IInv /\ [Next]_vars => [Once!Next]_(Once!onceVars)
<1>. SUFFICES ASSUME IInv, [Next]_vars PROVE [Once!Next]_(Once!onceVars)
  OBVIOUS
<1>. USE PingAssumption DEF IInv, TypeOK, Key, Goto, Answer, sendVars
<1>1. CASE UNCHANGED vars
  <2>1. \A q \in Requests : PhaseOf(q)' = PhaseOf(q) /\ JoinedOf(q)' = JoinedOf(q)
    BY <1>1, Stays DEF vars, LoopNeverWaits
  <2>. QED
    BY <1>1, <2>1, AllStay DEF vars, Once!onceVars
<1>2. ASSUME NEW r \in Requests, FastWrite(r) PROVE Once!Bypass(r)
  <2>1. PhaseMap[r] = "idle" /\ JoinedMap[r] = None
    BY <1>2, PhaseCases DEF FastWrite
  <2>2. PhaseOf(r)' = "bypassed" /\ JoinedOf(r)' = None
    BY <1>2, PhaseCasesNext DEF FastWrite, OwnerInv
  <2>3. PhaseMap' = [PhaseMap EXCEPT ![r] = "bypassed"] /\ JoinedMap' = [JoinedMap EXCEPT ![r] = None]
    BY <1>2, <2>2, OneMoves DEF FastWrite
  <2>4. JoinedMap' = JoinedMap
    BY <2>1, <2>3 DEF JoinedMap
  <2>. QED
    BY <1>2, <2>1, <2>3, <2>4 DEF FastWrite, Once!Bypass
<1>3. ASSUME NEW r \in Requests, Lock(r) PROVE Once!Next
  <2>1. PhaseMap[r] = "idle"
    BY <1>3, PhaseCases DEF Lock
  <2>2. \A q \in Requests \ {r} : pc'[q] = pc[q] /\ answer'[q] = answer[q] /\ reader'[q] = reader[q]
    BY <1>3 DEF Lock
  <2>3. CASE lockTable[Key(r)] = None
    <3>1. PhaseOf(r)' = "creating" /\ JoinedOf(r)' = r
      BY <1>3, <2>3, PhaseCasesNext DEF Lock, Holding
    <3>2. PhaseMap' = [PhaseMap EXCEPT ![r] = "creating"] /\ JoinedMap' = [JoinedMap EXCEPT ![r] = r]
      BY <2>2, <3>1, OneMoves
    <3>. QED
      BY <1>3, <2>1, <2>3, <3>2 DEF Lock, Once!Create, Once!Next
  <2>4. CASE lockTable[Key(r)] # None
    <3>1. PhaseOf(r)' = "waiting" /\ JoinedOf(r)' = lockTable[Key(r)]
      BY <1>3, <2>4, PhaseCasesNext DEF Lock
    <3>2. /\ PhaseMap' = [PhaseMap EXCEPT ![r] = "waiting"]
          /\ JoinedMap' = [JoinedMap EXCEPT ![r] = lockTable[Key(r)]]
      BY <2>2, <3>1, OneMoves
    <3>. QED
      BY <1>3, <2>1, <2>4, <3>2 DEF Lock, Once!Join, Once!Next
  <2>. QED
    BY <2>3, <2>4
<1>4. ASSUME NEW r \in Requests, Deferred(r) PROVE Once!Finish(r)
  <2>1. PhaseMap[r] = "creating" /\ JoinedMap[r] = r
    BY <1>4, PhaseCases DEF Deferred, Holding
  <2>2. PhaseOf(r)' = "created" /\ JoinedOf(r)' = r
    BY <1>4, PhaseCasesNext DEF Deferred, OwnerInv
  <2>3. PhaseMap' = [PhaseMap EXCEPT ![r] = "created"] /\ JoinedMap' = [JoinedMap EXCEPT ![r] = r]
    BY <1>4, <2>2, OneMoves DEF Deferred
  <2>4. JoinedMap' = JoinedMap
    BY <2>1, <2>3 DEF JoinedMap
  <2>. QED
    BY <1>4, <2>1, <2>3, <2>4 DEF Deferred, Once!Finish
<1>5. ASSUME NEW r \in Requests, RouteFound(r) \/ RouteMissing(r) \/ HandleUDP(r) \/ Store(r)
      PROVE UNCHANGED Once!onceVars
  <2>1. pc[r] \in Holding /\ pc'[r] \in Holding
    BY <1>5 DEF RouteFound, RouteMissing, HandleUDP, Store, Holding
  <2>2. PhaseOf(r)' = PhaseOf(r) /\ JoinedOf(r)' = JoinedOf(r)
    BY <2>1, PhaseCases, PhaseCasesNext
  <2>3. \A q \in Requests \ {r} : pc'[q] = pc[q] /\ answer'[q] = answer[q] /\ reader'[q] = reader[q]
    BY <1>5 DEF RouteFound, RouteMissing, HandleUDP, Store
  <2>4. \A q \in Requests : PhaseOf(q)' = PhaseOf(q) /\ JoinedOf(q)' = JoinedOf(q)
    BY <2>2, <2>3, Stays DEF LoopNeverWaits
  <2>. QED
    BY <1>5, <2>4, AllStay DEF RouteFound, RouteMissing, HandleUDP, Store, Once!onceVars
<1>6. ASSUME NEW r \in Requests, Deliver(r) \/ LoadHit(r) \/ LoadMiss(r) \/ Return(r)
      PROVE UNCHANGED Once!onceVars
  <2>1. PhaseOf(r)' = PhaseOf(r) /\ JoinedOf(r)' = JoinedOf(r)
    BY <1>6, PhaseCases, PhaseCasesNext DEF Deliver, LoadHit, LoadMiss, Return
  <2>2. \A q \in Requests \ {r} : pc'[q] = pc[q] /\ answer'[q] = answer[q] /\ reader'[q] = reader[q]
    BY <1>6 DEF Deliver, LoadHit, LoadMiss, Return
  <2>3. \A q \in Requests : PhaseOf(q)' = PhaseOf(q) /\ JoinedOf(q)' = JoinedOf(q)
    BY <2>1, <2>2, Stays DEF LoopNeverWaits
  <2>. QED
    BY <1>6, <2>3, AllStay DEF Deliver, LoadHit, LoadMiss, Return, Once!onceVars
<1>7. ASSUME NEW r \in Requests, Async(r) \/ Reader(r) \/ WriteBackFails(r) \/ ConnEnds(r)
      PROVE UNCHANGED Once!onceVars
  <2>1. UNCHANGED <<pc, answer, lockTable>>
    BY <1>7 DEF Async, AsyncLoad, AsyncWrite, Reader, ReadFails, LoopClose, Delete,
       WriteBackFails, ConnEnds
  <2>2. \A q \in Requests : reader'[q] = "none" <=> reader[q] = "none"
    BY <1>7 DEF Async, AsyncLoad, AsyncWrite, Reader, ReadFails, LoopClose, Delete,
       WriteBackFails, ConnEnds
  <2>3. \A q \in Requests : PhaseOf(q)' = PhaseOf(q) /\ JoinedOf(q)' = JoinedOf(q)
    BY <2>1, <2>2, Stays DEF LoopNeverWaits
  <2>. QED
    BY <2>1, <2>3, AllStay DEF Once!onceVars
<1>. QED
  BY <1>1, <1>2, <1>3, <1>4, <1>5, <1>6, <1>7 DEF Next, Dispatch, Once!Next

\* NewPingPacket keeps the promise of the get-or-create idiom too, for every set of
\* requests and address pairs: each path out of it, the failed route included, ends
\* the creation that it began.
THEOREM Implementation == Spec => ImplementsCreateOnce
  BY InitMaps, StepMaps, Invariance, PTL DEF Spec, ImplementsCreateOnce, Once!Spec
===============================================================================
