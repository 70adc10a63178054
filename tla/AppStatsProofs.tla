---------------------------- MODULE AppStatsProofs ----------------------------
(***************************************************************************)
(* Proofs about AppStats, for any set of connections and apps, that the    *)
(* readers and counters of AppTraffic take nothing from it, and that they  *)
(* lose no byte, for any set of readers.  The search for the appStats of   *)
(* an app implements CreateOnce, and nobody is left waiting in it.         *)
(***************************************************************************)
EXTENDS AppTraffic, FunctionTheorems, FiniteSetTheorems, SequenceTheorems, TLAPS

-------------------------------------------------------------------------------
(* list.PushBack and list.Remove, as Append and RemoveAt.                     *)

\* Append puts the new element behind the others.
LEMMA AppendAt ==
    ASSUME NEW S, NEW s \in Seq(S), NEW e \in S
    PROVE  /\ Append(s, e) \in Seq(S)
           /\ Len(Append(s, e)) = Len(s) + 1
           /\ \A i \in 1 .. Len(s) : Append(s, e)[i] = s[i]
           /\ Append(s, e)[Len(s) + 1] = e
  BY SMT

\* RemoveAt closes the gap.
LEMMA RemovedAt ==
    ASSUME NEW S, NEW s \in Seq(S), NEW k \in 1 .. Len(s)
    PROVE  /\ RemoveAt(s, k) \in Seq(S)
           /\ Len(RemoveAt(s, k)) = Len(s) - 1
           /\ \A i \in 1 .. Len(s) - 1 :
                 RemoveAt(s, k)[i] = IF i < k THEN s[i] ELSE s[i + 1]
<1>. DEFINE front == SubSeq(s, 1, k - 1)
            back == SubSeq(s, k + 1, Len(s))
<1>0. Len(s) \in Nat /\ \A i \in 1 .. Len(s) : s[i] \in S
  BY LenProperties
<1>1. /\ front \in Seq(S)
      /\ Len(front) = k - 1
      /\ \A i \in 1 .. k - 1 : front[i] = s[i]
  <2>1. \A i \in 1 .. k - 1 : s[i] \in S
    BY <1>0
  <2>. QED
    BY <1>0, <2>1, SubSeqProperties
<1>2. /\ back \in Seq(S)
      /\ Len(back) = Len(s) - k
      /\ \A i \in 1 .. Len(s) - k : back[i] = s[k + i]
  <2>1. \A i \in k + 1 .. Len(s) : s[i] \in S
    BY <1>0
  <2>2. /\ back \in Seq(S)
        /\ Len(back) = IF k + 1 <= Len(s) THEN Len(s) - (k + 1) + 1 ELSE 0
        /\ \A i \in 1 .. Len(s) - (k + 1) + 1 : back[i] = s[k + 1 + i - 1]
    BY <1>0, <2>1, SubSeqProperties
  <2>3. Len(back) = Len(s) - k
    BY <1>0, <2>2
  <2>4. ASSUME NEW i \in 1 .. Len(s) - k PROVE back[i] = s[k + i]
    <3>1. i \in 1 .. Len(s) - (k + 1) + 1 /\ k + 1 + i - 1 = k + i
      BY <1>0
    <3>. QED
      BY <2>2, <3>1, Zenon
  <2>. QED
    BY <2>2, <2>3, <2>4
<1>3. /\ front \o back \in Seq(S)
      /\ Len(front \o back) = Len(front) + Len(back)
      /\ \A i \in 1 .. Len(front) + Len(back) :
            (front \o back)[i] = IF i <= Len(front) THEN front[i] ELSE back[i - Len(front)]
  BY <1>1, <1>2, ConcatProperties
<1>4. RemoveAt(s, k) = front \o back
  BY DEF RemoveAt
<1>. HIDE DEF front, back
<1>5. Len(front \o back) = Len(s) - 1
  BY <1>0, <1>1, <1>2, <1>3
<1>6. ASSUME NEW i \in 1 .. Len(s) - 1
      PROVE  (front \o back)[i] = IF i < k THEN s[i] ELSE s[i + 1]
  <2>1. CASE i < k
    BY <1>0, <1>1, <1>2, <1>3, <2>1
  <2>2. CASE ~(i < k)
    <3>1. back[i - (k - 1)] = s[k + (i - (k - 1))]
      BY <1>0, <1>2, <2>2
    <3>. QED
      BY <1>0, <1>1, <1>2, <1>3, <2>2, <3>1
  <2>. QED
    BY <2>1, <2>2
<1>. QED
  BY <1>3, <1>4, <1>5, <1>6

-------------------------------------------------------------------------------
(* The inductive invariants.                                                  *)

\* Where a goroutine has no appStats yet, and what a connection in the list is at.
Finding == {"start", "lock", "wait", "asleep", "awake", "reread", "panic", "publish"}
Listed  == {"open", "leave", "sum", "stamp", "unregister"}

\* A goroutine that has left the search has an appStats, and only then.
UserInv == \A c \in Conns : stats[c] = None <=> pc[c] \in Finding

\* CountersExact, for sets that Cardinality counts.
Inside(o) == {c \in Conns : stats[c] = o /\ pc[c] \in Counted}
FiniteInv == \A o \in Conns : IsFiniteSet(Inside(o))
CountInv == FiniteInv /\ CountersExact

\* The counter of the other kind, which the deferred function loads.
Other(c) == IF c \in Tcp THEN udpConn[stats[c]] ELSE tcpConn[stats[c]]

\* Somebody who will clear or write the deactivateAt of an appStats.
Entering(c) == pc[c] \in {"unlock", "broadcast", "count"} \cup Counted
Stamping(c) == pc[c] = "stamp" \/ (pc[c] = "sum" /\ left[c] + Other(c) = 0)
StampInv ==
    \A o \in Conns :
        (\E c \in Conns : stats[c] = o) /\ deactivateAt[o] = "zero" =>
            \E c \in Conns : stats[c] = o /\ (Entering(c) \/ Stamping(c))

\* The list of an appStats holds each connection between its PushBack and its
\* Remove, once.
ListInv ==
    \A o \in Conns :
        /\ IsInjective(connections[o])
        /\ \A c \in Conns : (stats[c] = o /\ pc[c] \in Listed) <=>
                            (\E i \in DOMAIN connections[o] : connections[o][i] = c)

\* CloseConnections has closed what lies before its cursor.
WalkedTo(s, k) ==
    /\ closer.at = IF k < Len(s) THEN s[k + 1] ELSE None
    /\ \A i \in 1 .. k : s[i] \in closed
WalkInv ==
    /\ closer.pc # "idle" => closer.stats \in Conns
    /\ closer.pc = "walk" => \E k \in 0 .. Len(connections[closer.stats]) :
                                WalkedTo(connections[closer.stats], k)
    /\ WalkClosesAll

StatsInv == TypeOK /\ UserInv /\ CountInv /\ StampInv /\ ListInv /\ WalkInv

\* statsElement is the one place of a connection in its list.
LEMMA ElementOfListed ==
    ASSUME ListInv, NEW o \in Conns, NEW i \in DOMAIN connections[o]
    PROVE  Element(o, connections[o][i]) = i
<1>1. \A a, b \in DOMAIN connections[o] : connections[o][a] = connections[o][b] => a = b
  BY DEF ListInv, IsInjective
<1>. QED
  BY <1>1 DEF Element

\* A connection that leaves finds its own counter above zero.
LEMMA LeavesAboveZero ==
    ASSUME TypeOK, UserInv, CountInv, NEW c \in Conns, pc[c] = "leave"
    PROVE  /\ stats[c] \in Conns
           /\ c \in Tcp => tcpConn[stats[c]] > 0
           /\ c \notin Tcp => udpConn[stats[c]] > 0
<1>1. stats[c] \in Conns
  BY DEF TypeOK, UserInv, OrNone, Finding
<1>. DEFINE in == Inside(stats[c])
<1>2. c \in in /\ IsFiniteSet(in)
  BY <1>1 DEF Inside, Counted, CountInv, FiniteInv
<1>3. /\ tcpConn[stats[c]] = Cardinality(in \cap Tcp)
      /\ udpConn[stats[c]] = Cardinality(in \ Tcp)
  BY <1>1 DEF CountInv, CountersExact, Inside
<1>. HIDE DEF in
<1>4. IsFiniteSet(in \cap Tcp) /\ IsFiniteSet(in \ Tcp)
  <2>. (in \cap Tcp) \subseteq in /\ (in \ Tcp) \subseteq in
    OBVIOUS
  <2>. QED
    BY <1>2, FS_Subset
<1>5. /\ c \in Tcp => Cardinality(in \cap Tcp) # 0
      /\ c \notin Tcp => Cardinality(in \ Tcp) # 0
  BY <1>2, <1>4, FS_EmptySet
<1>6. Cardinality(in \cap Tcp) \in Nat /\ Cardinality(in \ Tcp) \in Nat
  BY <1>4, FS_CardinalityType
<1>. QED
  BY <1>1, <1>3, <1>5, <1>6

\* A connection that takes itself out of the list is in it.
LEMMA UnregisterAt ==
    ASSUME TypeOK, UserInv, ListInv, NEW c \in Conns, pc[c] = "unregister"
    PROVE  LET s == connections[stats[c]]
               k == Element(stats[c], c)
           IN  stats[c] \in Conns /\ s \in Seq(Conns) /\ k \in 1 .. Len(s) /\ s[k] = c
<1>1. stats[c] \in Conns
  BY DEF TypeOK, UserInv, OrNone, Finding
<1>2. connections[stats[c]] \in Seq(Conns)
  BY <1>1 DEF TypeOK, ListsOK
<1>3. PICK i \in DOMAIN connections[stats[c]] : connections[stats[c]][i] = c
  BY <1>1 DEF ListInv, Listed
<1>4. Element(stats[c], c) = i
  BY <1>1, <1>3, ElementOfListed
<1>. QED
  BY <1>1, <1>2, <1>3, <1>4, LenProperties

-------------------------------------------------------------------------------
(* Type correctness.                                                          *)

\* The lists stay lists of connections.
LEMMA ListsStep == TypeOK /\ UserInv /\ ListInv /\ [Next]_vars => ListsOK'
<1>. SUFFICES ASSUME TypeOK, UserInv, ListInv, [Next]_vars PROVE ListsOK'
  OBVIOUS
<1>. USE DEF TypeOK, ListsOK, objVars
<1>1. ASSUME NEW c \in Conns, Register(c) PROVE ListsOK'
  <2>1. stats[c] \in Conns => Append(connections[stats[c]], c) \in Seq(Conns)
    BY AppendAt
  <2>. QED
    BY <1>1, <2>1 DEF Register
<1>2. ASSUME NEW c \in Conns, Unregister(c) PROVE ListsOK'
  <2>1. RemoveAt(connections[stats[c]], Element(stats[c], c)) \in Seq(Conns)
    BY <1>2, UnregisterAt, RemovedAt DEF Unregister
  <2>. QED
    BY <1>2, <2>1 DEF Unregister
<1>3. ASSUME UNCHANGED connections PROVE ListsOK'
  BY <1>3
<1>. QED
  BY <1>1, <1>2, <1>3 DEF Next, vars, Acquire, LockStored, LockLoaded, Wait, Wake,
     RereadFound, RereadPanics, Publish, Unlock, Broadcast, Serve, Count, Activate,
     ServeEnds, Finish, Leave, Sum, Stamp, Arrival, LoadHit, LoadMiss, PeerEnds,
     ResetCollect, ResetDelete, CloseLoad, CloseWalk, CloseLock, CloseElement,
     CloseWalked, CloseUnlock

\* Every step keeps each variable in its type: the two counters, which are
\* decremented, stay natural numbers because they count.
LEMMA TypeStep ==
    TypeOK /\ UserInv /\ CountInv /\ ListInv /\ WalkInv /\ [Next]_vars => TypeOK'
<1>. SUFFICES ASSUME TypeOK, UserInv, CountInv, ListInv, WalkInv, [Next]_vars PROVE TypeOK'
  OBVIOUS
<1>0. ListsOK'
  BY ListsStep
<1>. USE StatsAssumption, <1>0 DEF TypeOK, PC, OrNone, Uid, Goto, lockVars, objVars, resetVars
<1>1. CASE UNCHANGED vars
  BY <1>1 DEF vars
<1>2. ASSUME NEW c \in Conns, Acquire(c) PROVE TypeOK'
  <2>1. CASE LockStored(c) \/ LockLoaded(c) \/ Wait(c)
    BY <2>1 DEF LockStored, LockLoaded, Wait
  <2>2. CASE Wake(c) \/ RereadFound(c) \/ RereadPanics(c)
    BY <2>2 DEF Wake, RereadFound, RereadPanics
  <2>3. CASE Publish(c) \/ Unlock(c) \/ Broadcast(c)
    BY <2>3 DEF Publish, Unlock, Broadcast
  <2>. QED
    BY <1>2, <2>1, <2>2, <2>3 DEF Acquire
<1>3. ASSUME NEW c \in Conns, Serve(c) PROVE TypeOK'
  <2>1. CASE Count(c)
    BY <2>1 DEF Count
  <2>2. CASE Activate(c) \/ ServeEnds(c)
    BY <2>2 DEF Activate, ServeEnds
  <2>3. CASE Register(c)
    BY <2>3 DEF Register
  <2>. QED
    BY <1>3, <2>1, <2>2, <2>3 DEF Serve
<1>4. ASSUME NEW c \in Conns, Finish(c) PROVE TypeOK'
  <2>1. CASE Leave(c)
    BY <2>1, LeavesAboveZero DEF Leave
  <2>2. CASE Sum(c) \/ Stamp(c) \/ Unregister(c)
    BY <2>2 DEF Sum, Stamp, Unregister
  <2>. QED
    BY <1>4, <2>1, <2>2 DEF Finish
<1>5. ASSUME NEW c \in Conns, Arrival(c) \/ PeerEnds(c) PROVE TypeOK'
  BY <1>5 DEF Arrival, LoadHit, LoadMiss, PeerEnds
<1>6. CASE ResetCollect
  BY <1>6 DEF ResetCollect
<1>7. ASSUME NEW u \in Uids, ResetDelete(u) \/ CloseLoad(u) PROVE TypeOK'
  BY <1>7 DEF ResetDelete, CloseLoad
<1>8. CASE CloseWalk
  <2>1. \A o \in Conns : FirstElement(o) \in OrNone(Conns)
    BY HeadTailProperties DEF FirstElement, ListsOK
  <2>2. ASSUME NEW o \in Conns, NEW c \in Conns PROVE NextElement(o, c) \in OrNone(Conns)
    <3>1. connections[o] \in Seq(Conns)
      BY DEF ListsOK
    <3>2. Contains(connections[o], c) => Element(o, c) \in 1 .. Len(connections[o])
      <4>. SUFFICES ASSUME NEW i \in 1 .. Len(connections[o]), connections[o][i] = c
                   PROVE  Element(o, c) \in 1 .. Len(connections[o])
        BY DEF Contains
      <4>1. i \in DOMAIN connections[o]
        BY <3>1, LenProperties
      <4>2. Element(o, connections[o][i]) = i
        BY <4>1, ElementOfListed
      <4>. QED
        BY <4>2
    <3>. QED
      <4>. DEFINE i == IF Contains(connections[o], c) THEN Element(o, c) ELSE Len(connections[o])
      <4>1. i \in Nat /\ Len(connections[o]) \in Nat
        BY <3>1, <3>2, LenProperties
      <4>2. i < Len(connections[o]) => connections[o][i + 1] \in Conns
        <5>. HIDE DEF i
        <5>. QED
          BY <3>1, <4>1, ElementOfSeq
      <4>. QED
        BY <4>2 DEF NextElement
  <2>0. closer.pc # "idle" => closer.stats \in Conns
    BY DEF WalkInv
  <2>3. CASE CloseLock
    BY <2>0, <2>1, <2>3 DEF CloseLock
  <2>4. CASE CloseElement
    BY <2>0, <2>2, <2>4 DEF CloseElement
  <2>5. CASE CloseWalked \/ CloseUnlock
    BY <2>5 DEF CloseWalked, CloseUnlock
  <2>. QED
    BY <1>8, <2>3, <2>4, <2>5 DEF CloseWalk
<1>. QED
  BY <1>1, <1>2, <1>3, <1>4, <1>5, <1>6, <1>7, <1>8 DEF Next

-------------------------------------------------------------------------------
(* The counters.                                                              *)

\* The goroutines get their appStats with the step that ends the search for it.
LEMMA UserStep == TypeOK /\ UserInv /\ [Next]_vars => UserInv'
<1>. SUFFICES ASSUME TypeOK, UserInv, [Next]_vars PROVE UserInv'
  OBVIOUS
<1>. USE StatsAssumption DEF TypeOK, PC, OrNone, Uid, Goto, lockVars, objVars, resetVars,
       UserInv, Finding
<1>1. CASE UNCHANGED vars
  BY <1>1 DEF vars
<1>2. ASSUME NEW c \in Conns, Acquire(c) PROVE UserInv'
  <2>1. CASE LockStored(c) \/ LockLoaded(c) \/ Wait(c) \/ Wake(c) \/ RereadPanics(c)
    BY <2>1 DEF LockStored, LockLoaded, Wait, Wake, RereadPanics
  <2>2. CASE RereadFound(c) \/ Publish(c) \/ Unlock(c)
    BY <2>2 DEF RereadFound, Publish, Unlock
  <2>3. CASE Broadcast(c)
    BY <2>3 DEF Broadcast
  <2>. QED
    BY <1>2, <2>1, <2>2, <2>3 DEF Acquire
<1>3. ASSUME NEW c \in Conns, Serve(c) PROVE UserInv'
  <2>1. CASE Count(c)
    BY <2>1 DEF Count
  <2>2. CASE Activate(c)
    BY <2>2 DEF Activate
  <2>3. CASE Register(c)
    BY <2>3 DEF Register
  <2>4. CASE ServeEnds(c)
    BY <2>4 DEF ServeEnds
  <2>. QED
    BY <1>3, <2>1, <2>2, <2>3, <2>4 DEF Serve
<1>4. ASSUME NEW c \in Conns, Finish(c) PROVE UserInv'
  BY <1>4 DEF Finish, Leave, Sum, Stamp, Unregister
<1>5. ASSUME NEW c \in Conns, Arrival(c) \/ PeerEnds(c) PROVE UserInv'
  BY <1>5 DEF Arrival, LoadHit, LoadMiss, PeerEnds
<1>6. ASSUME UNCHANGED <<pc, stats>> PROVE UserInv'
  BY <1>6
<1>. QED
  BY <1>1, <1>2, <1>3, <1>4, <1>5, <1>6 DEF Next, ResetCollect, ResetDelete, CloseLoad,
     CloseWalk, CloseLock, CloseElement, CloseWalked, CloseUnlock

\* CountersExact of one appStats.
Exact(o) ==
    /\ tcpConn[o] = Cardinality(Inside(o) \cap Tcp)
    /\ udpConn[o] = Cardinality(Inside(o) \ Tcp)

LEMMA ExactIsCountersExact == CountersExact <=> \A o \in Conns : Exact(o)
  BY DEF CountersExact, Exact, Inside

\* A connection in a set of its kind makes it one larger, and out of it one smaller.
LEMMA OneMore ==
    ASSUME NEW S, IsFiniteSet(S), NEW c, c \notin S
    PROVE  /\ IsFiniteSet(S \cup {c})
           /\ c \in Tcp => /\ Cardinality((S \cup {c}) \cap Tcp) = Cardinality(S \cap Tcp) + 1
                           /\ Cardinality((S \cup {c}) \ Tcp) = Cardinality(S \ Tcp)
           /\ c \notin Tcp => /\ Cardinality((S \cup {c}) \cap Tcp) = Cardinality(S \cap Tcp)
                              /\ Cardinality((S \cup {c}) \ Tcp) = Cardinality(S \ Tcp) + 1
<1>1. IsFiniteSet(S \cap Tcp) /\ IsFiniteSet(S \ Tcp)
  <2>. (S \cap Tcp) \subseteq S /\ (S \ Tcp) \subseteq S
    OBVIOUS
  <2>. QED
    BY FS_Subset
<1>2. /\ c \in Tcp => (S \cup {c}) \cap Tcp = (S \cap Tcp) \cup {c} /\ (S \cup {c}) \ Tcp = S \ Tcp
      /\ c \notin Tcp => (S \cup {c}) \ Tcp = (S \ Tcp) \cup {c} /\ (S \cup {c}) \cap Tcp = S \cap Tcp
  OBVIOUS
<1>3. /\ Cardinality((S \cap Tcp) \cup {c}) = Cardinality(S \cap Tcp) + 1
      /\ Cardinality((S \ Tcp) \cup {c}) = Cardinality(S \ Tcp) + 1
  BY <1>1, FS_AddElement
<1>4. IsFiniteSet(S \cup {c})
  BY FS_AddElement
<1>. QED
  BY <1>2, <1>3, <1>4

LEMMA OneLess ==
    ASSUME NEW S, IsFiniteSet(S), NEW c \in S
    PROVE  /\ IsFiniteSet(S \ {c})
           /\ c \in Tcp => /\ Cardinality((S \ {c}) \cap Tcp) = Cardinality(S \cap Tcp) - 1
                           /\ Cardinality((S \ {c}) \ Tcp) = Cardinality(S \ Tcp)
           /\ c \notin Tcp => /\ Cardinality((S \ {c}) \cap Tcp) = Cardinality(S \cap Tcp)
                              /\ Cardinality((S \ {c}) \ Tcp) = Cardinality(S \ Tcp) - 1
<1>1. IsFiniteSet(S \cap Tcp) /\ IsFiniteSet(S \ Tcp)
  <2>. (S \cap Tcp) \subseteq S /\ (S \ Tcp) \subseteq S
    OBVIOUS
  <2>. QED
    BY FS_Subset
<1>2. /\ c \in Tcp => (S \ {c}) \cap Tcp = (S \cap Tcp) \ {c} /\ (S \ {c}) \ Tcp = S \ Tcp
      /\ c \notin Tcp => (S \ {c}) \ Tcp = (S \ Tcp) \ {c} /\ (S \ {c}) \cap Tcp = S \cap Tcp
  OBVIOUS
<1>3. /\ c \in Tcp => Cardinality((S \cap Tcp) \ {c}) = Cardinality(S \cap Tcp) - 1
      /\ c \notin Tcp => Cardinality((S \ Tcp) \ {c}) = Cardinality(S \ Tcp) - 1
  BY <1>1, FS_RemoveElement
<1>4. IsFiniteSet(S \ {c})
  BY FS_RemoveElement
<1>. QED
  BY <1>2, <1>3, <1>4

\* The two atomic additions follow the connections that come in and leave.
LEMMA CountStep == TypeOK /\ UserInv /\ CountInv /\ [Next]_vars => CountInv'
<1>. SUFFICES ASSUME TypeOK, UserInv, CountInv, [Next]_vars PROVE CountInv'
  OBVIOUS
<1>. USE StatsAssumption DEF OrNone, Uid, Goto, lockVars, objVars, resetVars
<1>a. \A o \in Conns : IsFiniteSet(Inside(o)) /\ Exact(o)
  BY ExactIsCountersExact DEF CountInv, FiniteInv
<1>b. SUFFICES ASSUME NEW o \in Conns PROVE IsFiniteSet(Inside(o)') /\ Exact(o)'
  <2>1. (\A o \in Conns : Exact(o)') => CountersExact'
    BY DEF CountersExact, Exact, Inside
  <2>. QED
    BY <1>b, <2>1 DEF CountInv, FiniteInv
<1>c. ASSUME Inside(o)' = Inside(o), UNCHANGED <<tcpConn, udpConn>>
      PROVE  IsFiniteSet(Inside(o)') /\ Exact(o)'
  BY <1>a, <1>c DEF Exact
<1>1. ASSUME UNCHANGED <<pc, stats, tcpConn, udpConn>>
      PROVE  IsFiniteSet(Inside(o)') /\ Exact(o)'
  BY <1>1, <1>c DEF Inside
<1>2. ASSUME NEW c \in Conns, Acquire(c) PROVE IsFiniteSet(Inside(o)') /\ Exact(o)'
  <2>. USE <1>c DEF TypeOK, Inside, Counted, UserInv, Finding
  <2>1. CASE LockStored(c) \/ LockLoaded(c) \/ Wait(c) \/ Wake(c) \/ RereadPanics(c)
    BY <2>1 DEF LockStored, LockLoaded, Wait, Wake, RereadPanics
  <2>2. CASE RereadFound(c) \/ Publish(c) \/ Unlock(c)
    BY <2>2 DEF RereadFound, Publish, Unlock
  <2>3. CASE Broadcast(c)
    BY <2>3 DEF Broadcast
  <2>. QED
    BY <1>2, <2>1, <2>2, <2>3 DEF Acquire
<1>3. ASSUME NEW c \in Conns, Count(c) PROVE IsFiniteSet(Inside(o)') /\ Exact(o)'
  <2>1. CASE stats[c] # o
    <3>1. Inside(o)' = Inside(o)
      BY <1>3, <2>1 DEF Count, TypeOK, Inside, Counted
    <3>2. tcpConn'[o] = tcpConn[o] /\ udpConn'[o] = udpConn[o]
      BY <1>3, <2>1 DEF Count, TypeOK
    <3>. QED
      BY <1>a, <3>1, <3>2 DEF Exact
  <2>2. CASE stats[c] = o
    <3>1. c \notin Inside(o) /\ Inside(o)' = Inside(o) \cup {c}
      BY <1>3, <2>2 DEF Count, TypeOK, Inside, Counted
    <3>2. /\ tcpConn'[o] = IF c \in Tcp THEN tcpConn[o] + 1 ELSE tcpConn[o]
          /\ udpConn'[o] = IF c \in Tcp THEN udpConn[o] ELSE udpConn[o] + 1
      BY <1>3, <2>2 DEF Count, TypeOK
    <3>. QED
      <4>. DEFINE S == Inside(o)
      <4>1. Inside(o)' = S \cup {c} /\ IsFiniteSet(S) /\ c \notin S
        BY <1>a, <3>1
      <4>2. tcpConn[o] = Cardinality(S \cap Tcp) /\ udpConn[o] = Cardinality(S \ Tcp)
        BY <1>a DEF Exact
      <4>3. /\ tcpConn'[o] = Cardinality((S \cup {c}) \cap Tcp)
            /\ udpConn'[o] = Cardinality((S \cup {c}) \ Tcp)
            /\ IsFiniteSet(S \cup {c})
        <5>. HIDE DEF S
        <5>1. CASE c \in Tcp
          BY <3>2, <4>1, <4>2, <5>1, OneMore
        <5>2. CASE c \notin Tcp
          BY <3>2, <4>1, <4>2, <5>2, OneMore
        <5>. QED
          BY <5>1, <5>2
      <4>. HIDE DEF S
      <4>. QED
        BY <4>1, <4>3 DEF Exact
  <2>. QED
    BY <2>1, <2>2
<1>4. ASSUME NEW c \in Conns, Leave(c) PROVE IsFiniteSet(Inside(o)') /\ Exact(o)'
  <2>1. CASE stats[c] # o
    <3>1. Inside(o)' = Inside(o)
      BY <1>4, <2>1 DEF Leave, TypeOK, Inside, Counted
    <3>2. tcpConn'[o] = tcpConn[o] /\ udpConn'[o] = udpConn[o]
      BY <1>4, <2>1 DEF Leave, TypeOK
    <3>. QED
      BY <1>a, <3>1, <3>2 DEF Exact
  <2>2. CASE stats[c] = o
    <3>1. c \in Inside(o) /\ Inside(o)' = Inside(o) \ {c}
      BY <1>4, <2>2 DEF Leave, TypeOK, Inside, Counted
    <3>2. /\ tcpConn'[o] = IF c \in Tcp THEN tcpConn[o] - 1 ELSE tcpConn[o]
          /\ udpConn'[o] = IF c \in Tcp THEN udpConn[o] ELSE udpConn[o] - 1
      BY <1>4, <2>2 DEF Leave, TypeOK
    <3>. QED
      <4>. DEFINE S == Inside(o)
      <4>1. Inside(o)' = S \ {c} /\ IsFiniteSet(S) /\ c \in S
        BY <1>a, <3>1
      <4>2. tcpConn[o] = Cardinality(S \cap Tcp) /\ udpConn[o] = Cardinality(S \ Tcp)
        BY <1>a DEF Exact
      <4>3. /\ tcpConn'[o] = Cardinality((S \ {c}) \cap Tcp)
            /\ udpConn'[o] = Cardinality((S \ {c}) \ Tcp)
            /\ IsFiniteSet(S \ {c})
        <5>. HIDE DEF S
        <5>1. CASE c \in Tcp
          BY <3>2, <4>1, <4>2, <5>1, OneLess
        <5>2. CASE c \notin Tcp
          BY <3>2, <4>1, <4>2, <5>2, OneLess
        <5>. QED
          BY <5>1, <5>2
      <4>. HIDE DEF S
      <4>. QED
        BY <4>1, <4>3 DEF Exact
  <2>. QED
    BY <2>1, <2>2
<1>5. ASSUME NEW c \in Conns, Serve(c) PROVE IsFiniteSet(Inside(o)') /\ Exact(o)'
  <2>1. CASE Activate(c) \/ Register(c) \/ ServeEnds(c)
    BY <2>1, <1>c DEF Activate, Register, ServeEnds, TypeOK, Inside, Counted
  <2>. QED
    BY <1>3, <1>5, <2>1 DEF Serve
<1>6. ASSUME NEW c \in Conns, Finish(c) PROVE IsFiniteSet(Inside(o)') /\ Exact(o)'
  BY <1>4, <1>6, <1>c DEF Finish, Sum, Stamp, Unregister, TypeOK, Inside, Counted
<1>7. ASSUME NEW c \in Conns, Arrival(c) \/ PeerEnds(c)
      PROVE  IsFiniteSet(Inside(o)') /\ Exact(o)'
  BY <1>7, <1>c DEF Arrival, LoadHit, LoadMiss, PeerEnds, TypeOK, Inside, Counted,
     UserInv, Finding
<1>. QED
  BY <1>1, <1>2, <1>5, <1>6, <1>7 DEF Next, vars, ResetCollect, ResetDelete, CloseLoad,
     CloseWalk, CloseLock, CloseElement, CloseWalked, CloseUnlock

-------------------------------------------------------------------------------
(* The time of deactivation.                                                  *)

\* A counter that is not zero counts somebody.
LEMMA SomebodyCounted ==
    ASSUME NEW S, NEW T, Cardinality(S \cap T) # 0 \/ Cardinality(S \ T) # 0
    PROVE  S # {}
<1>1. S = {} => S \cap T = {} /\ S \ T = {}
  OBVIOUS
<1>. QED
  BY <1>1, FS_EmptySet

\* The connection that brings the counters to zero stamps, or one that has come
\* in since clears the stamp and leaves in its turn.
LEMMA StampStep ==
    TypeOK /\ UserInv /\ CountInv /\ CountInv' /\ StampInv /\ [Next]_vars => StampInv'
<1>. DEFINE W(c, o) == stats[c] = o /\ (Entering(c) \/ Stamping(c))
<1>. SUFFICES ASSUME TypeOK, UserInv, CountInv, CountInv', StampInv, [Next]_vars,
                     NEW o \in Conns, (\E c \in Conns : stats'[c] = o),
                     deactivateAt'[o] = "zero"
              PROVE  \E c \in Conns : W(c, o)'
  BY DEF StampInv
<1>. USE StatsAssumption DEF OrNone, Uid, Goto, lockVars, objVars, resetVars, Counted
<1>1. CASE UNCHANGED <<pc, stats, tcpConn, udpConn, left, deactivateAt>>
  BY <1>1 DEF StampInv, Entering, Stamping, Other
\* Whoever gets the appStats is entering.
<1>2. ASSUME NEW c \in Conns, LoadHit(c) \/ RereadFound(c) \/ Publish(c), stats'[c] = o
      PROVE  \E d \in Conns : W(d, o)'
  BY <1>2 DEF LoadHit, RereadFound, Publish, TypeOK, Entering
<1>3. ASSUME NEW c \in Conns, Activate(c), stats[c] = o
      PROVE  \E d \in Conns : W(d, o)'
  BY <1>3 DEF Activate, TypeOK, Entering
<1>4. ASSUME NEW c \in Conns, Acquire(c) \/ Serve(c) \/ Finish(c) \/ Arrival(c) \/ PeerEnds(c)
      PROVE  \E d \in Conns : W(d, o)'
  \* Without a witness before the step, the step makes one.
  <2>1. ASSUME \A d \in Conns : ~W(d, o) PROVE \E d \in Conns : W(d, o)'
    <3>1. (\A d \in Conns : stats[d] # o) \/ deactivateAt[o] # "zero"
      BY <2>1 DEF StampInv
    <3>2. CASE stats' = stats /\ deactivateAt' = deactivateAt
      BY <3>1, <3>2
    <3>3. CASE LoadHit(c) \/ RereadFound(c) \/ Publish(c)
      BY <1>2, <3>1, <3>3 DEF LoadHit, RereadFound, Publish, TypeOK
    <3>4. CASE Activate(c)
      BY <1>3, <3>1, <3>4 DEF Activate, TypeOK
    <3>5. CASE Stamp(c)
      BY <3>1, <3>5 DEF Stamp, TypeOK
    <3>. QED
      BY <1>4, <3>2, <3>3, <3>4, <3>5 DEF Acquire, LockStored, LockLoaded, Wait, Wake,
         RereadPanics, Unlock, Broadcast, Serve, Count, Register, ServeEnds, Finish,
         Leave, Sum, Unregister, Arrival, LoadMiss, PeerEnds
  <2>2. ASSUME NEW w \in Conns, W(w, o) PROVE \E d \in Conns : W(d, o)'
    <3>0. stats[w] = o /\ (Entering(w) \/ Stamping(w)) /\ pc[w] \notin Finding
      BY <2>2 DEF Entering, Stamping, Finding
    <3>1. CASE LoadHit(c) \/ RereadFound(c) \/ Publish(c)
      BY <3>0, <3>1 DEF LoadHit, RereadFound, Publish, TypeOK, Entering, Stamping, Other,
         Finding
    <3>2. CASE LockStored(c) \/ LockLoaded(c) \/ Wait(c) \/ Wake(c) \/ RereadPanics(c) \/ LoadMiss(c)
      BY <3>0, <3>2 DEF LockStored, LockLoaded, Wait, Wake, RereadPanics, LoadMiss, TypeOK,
         Entering, Stamping, Other, Finding
    <3>3. CASE Unlock(c) \/ Register(c) \/ ServeEnds(c) \/ PeerEnds(c) \/ Unregister(c)
      BY <3>0, <3>3 DEF Unlock, Register, ServeEnds, PeerEnds, Unregister, TypeOK,
         Entering, Stamping, Other
    <3>4. CASE Broadcast(c)
      BY <3>0, <3>4 DEF Broadcast, TypeOK, Entering, Stamping, Other, Finding
    <3>5. CASE Count(c)
      BY <3>0, <3>5 DEF Count, TypeOK, Entering, Stamping, Other
    <3>6. CASE Activate(c)
      BY <3>0, <3>6 DEF Activate, TypeOK, Entering, Stamping, Other
    <3>7. CASE Leave(c)
      <4>1. CASE stats[c] # o
        BY <3>0, <3>7, <4>1 DEF Leave, TypeOK, Entering, Stamping, Other
      <4>2. CASE stats[c] = o /\ (tcpConn'[o] # 0 \/ udpConn'[o] # 0)
        <5>1. \E d \in Conns : stats'[d] = o /\ pc'[d] \in Counted
          <6>1. /\ tcpConn'[o] = Cardinality(Inside(o)' \cap Tcp)
                /\ udpConn'[o] = Cardinality(Inside(o)' \ Tcp)
            BY DEF CountInv, CountersExact, Inside
          <6>2. Inside(o)' # {}
            BY <4>2, <6>1, SomebodyCounted
          <6>. QED
            BY <6>2 DEF Inside
        <5>. QED
          BY <5>1 DEF Entering
      <4>3. CASE stats[c] = o /\ tcpConn'[o] = 0 /\ udpConn'[o] = 0
        BY <3>7, <4>3 DEF Leave, TypeOK, Stamping, Other
      <4>. QED
        BY <4>1, <4>2, <4>3
    <3>8. CASE Sum(c)
      BY <3>0, <3>8 DEF Sum, TypeOK, Entering, Stamping, Other
    <3>9. CASE Stamp(c)
      BY <3>0, <3>9 DEF Stamp, TypeOK, Entering, Stamping, Other
    <3>. QED
      BY <1>4, <3>1, <3>2, <3>3, <3>4, <3>5, <3>6, <3>7, <3>8, <3>9 DEF Acquire, Serve,
         Finish, Arrival
  <2>. QED
    BY <2>1, <2>2
<1>. QED
  BY <1>1, <1>4 DEF Next, vars, ResetCollect, ResetDelete, CloseLoad,
     CloseWalk, CloseLock, CloseElement, CloseWalked, CloseUnlock

-------------------------------------------------------------------------------
(* The list and the walk.                                                     *)

\* ListInv of one appStats.
LEMMA ListIsListInv ==
    ListInv <=> \A o \in Conns :
        /\ \A i, j \in DOMAIN connections[o] : connections[o][i] = connections[o][j] => i = j
        /\ \A c \in Conns : (stats[c] = o /\ pc[c] \in Listed) <=>
                            (\E i \in DOMAIN connections[o] : connections[o][i] = c)
  BY DEF ListInv, IsInjective

\* PushBack and Remove, each once and under stats.Lock, keep the list the set of
\* the connections between the two.
LEMMA ListStep == TypeOK /\ UserInv /\ ListInv /\ [Next]_vars => ListInv'
<1>. DEFINE In(c, o) == stats[c] = o /\ pc[c] \in Listed
            At(c, o) == \E i \in DOMAIN connections[o] : connections[o][i] = c
            Distinct(o) == \A i, j \in DOMAIN connections[o] :
                              connections[o][i] = connections[o][j] => i = j
            L(o) == Distinct(o) /\ \A c \in Conns : In(c, o) <=> At(c, o)
<1>. SUFFICES ASSUME TypeOK, UserInv, ListInv, [Next]_vars, NEW o \in Conns PROVE L(o)'
  BY DEF ListInv, IsInjective
<1>. USE StatsAssumption DEF OrNone, Uid, Goto, lockVars, objVars, resetVars
<1>a. L(o) /\ connections[o] \in Seq(Conns)
  BY ListIsListInv DEF TypeOK, ListsOK
<1>b. ASSUME connections'[o] = connections[o], \A c \in Conns : In(c, o)' <=> In(c, o)
      PROVE  L(o)'
  BY <1>a, <1>b
<1>1. ASSUME UNCHANGED <<pc, stats, connections>> PROVE L(o)'
  BY <1>1, <1>b
<1>2. ASSUME NEW c \in Conns, Acquire(c) \/ Arrival(c) PROVE L(o)'
  <2>1. pc[c] \in Finding \cup {"unlock", "broadcast"} /\ pc'[c] \notin Listed /\ connections' = connections
    BY <1>2 DEF TypeOK, Finding, Listed, Acquire, LockStored, LockLoaded, Wait, Wake,
       RereadFound, RereadPanics, Publish, Unlock, Broadcast, Arrival, LoadHit, LoadMiss
  <2>2. \A d \in Conns \ {c} : stats'[d] = stats[d] /\
           (pc'[d] = pc[d] \/ (pc[d] = "asleep" /\ pc'[d] = "awake"))
    <3>1. CASE Broadcast(c)
      BY <3>1 DEF TypeOK, Broadcast
    <3>2. CASE Arrival(c) \/ LockStored(c) \/ LockLoaded(c) \/ Wait(c) \/ Wake(c)
      BY <3>2 DEF TypeOK, Arrival, LoadHit, LoadMiss, LockStored, LockLoaded, Wait, Wake
    <3>3. CASE RereadFound(c) \/ RereadPanics(c) \/ Publish(c) \/ Unlock(c)
      BY <3>3 DEF TypeOK, RereadFound, RereadPanics, Publish, Unlock
    <3>. QED
      BY <1>2, <3>1, <3>2, <3>3 DEF Acquire
  <2>. QED
    BY <1>b, <2>1, <2>2 DEF Listed, Finding
<1>3. ASSUME NEW c \in Conns, Count(c) \/ Activate(c) \/ ServeEnds(c) \/ PeerEnds(c) PROVE L(o)'
  BY <1>3, <1>b DEF Count, Activate, ServeEnds, PeerEnds, TypeOK, Listed
<1>4. ASSUME NEW c \in Conns, Leave(c) \/ Sum(c) \/ Stamp(c) PROVE L(o)'
  BY <1>4, <1>b DEF Leave, Sum, Stamp, TypeOK, Listed
<1>5. ASSUME NEW c \in Conns, Register(c) PROVE L(o)'
  <2>1. CASE stats[c] # o
    BY <1>5, <1>b, <2>1 DEF Register, TypeOK, ListsOK, Listed
  <2>2. CASE stats[c] = o
    <3>. DEFINE s == connections[o]
    <3>1. connections'[o] = Append(s, c)
      BY <1>5, <2>2 DEF Register, TypeOK, ListsOK
    <3>2. \A d \in Conns : In(d, o)' <=> In(d, o) \/ d = c
      BY <1>5, <2>2 DEF Register, TypeOK, Listed
    <3>3. ~At(c, o)
      BY <1>5, <1>a DEF Register, Listed
    <3>4. Len(s) \in Nat /\ DOMAIN s = 1 .. Len(s) /\ DOMAIN Append(s, c) = 1 .. Len(s) + 1
      BY <1>a, LenProperties, AppendAt
    <3>5. /\ \A i \in 1 .. Len(s) : Append(s, c)[i] = s[i]
          /\ Append(s, c)[Len(s) + 1] = c
      BY <1>a, AppendAt
    <3>6. Distinct(o)'
      <4>. SUFFICES ASSUME NEW i \in 1 .. Len(s) + 1, NEW j \in 1 .. Len(s) + 1,
                           Append(s, c)[i] = Append(s, c)[j]
                    PROVE  i = j
        BY <3>1, <3>4
      <4>. QED
        BY <1>a, <3>3, <3>4, <3>5
    <3>7. \A d \in Conns : At(d, o)' <=> At(d, o) \/ d = c
      <4>. SUFFICES ASSUME NEW d \in Conns
                    PROVE  (\E i \in 1 .. Len(s) + 1 : Append(s, c)[i] = d)
                              <=> (\E i \in 1 .. Len(s) : s[i] = d) \/ d = c
        BY <3>1, <3>4
      <4>. QED
        BY <3>4, <3>5
    <3>. QED
      BY <1>a, <3>2, <3>6, <3>7
  <2>. QED
    BY <2>1, <2>2
<1>6. ASSUME NEW c \in Conns, Unregister(c) PROVE L(o)'
  <2>1. CASE stats[c] # o
    BY <1>6, <1>b, <2>1 DEF Unregister, TypeOK, ListsOK, Listed
  <2>2. CASE stats[c] = o
    <3>. DEFINE s == connections[o]
                k == Element(o, c)
                r == RemoveAt(s, k)
    <3>1. connections'[o] = r
      BY <1>6, <2>2 DEF Unregister, TypeOK, ListsOK
    <3>2. \A d \in Conns : In(d, o)' <=> In(d, o) /\ d # c
      BY <1>6, <2>2 DEF Unregister, TypeOK, Listed
    <3>3. s \in Seq(Conns) /\ k \in 1 .. Len(s) /\ s[k] = c
      BY <1>6, <2>2, UnregisterAt DEF Unregister
    <3>. HIDE DEF k
    <3>4. r \in Seq(Conns) /\ Len(r) = Len(s) - 1
          /\ \A i \in 1 .. Len(s) - 1 : r[i] = IF i < k THEN s[i] ELSE s[i + 1]
      BY <3>3, RemovedAt
    <3>5. Len(s) \in Nat /\ DOMAIN s = 1 .. Len(s) /\ DOMAIN r = 1 .. Len(s) - 1
      BY <3>3, <3>4, LenProperties
    <3>. HIDE DEF r
    <3>6. \A i, j \in 1 .. Len(s) : s[i] = s[j] => i = j
      BY <1>a, <3>5
    <3>. HIDE DEF s
    <3>7. \A i, j \in 1 .. Len(s) - 1 : r[i] = r[j] => i = j
      BY <3>3, <3>4, <3>5, <3>6
    <3>8. ASSUME NEW d \in Conns
          PROVE  (\E i \in 1 .. Len(s) - 1 : r[i] = d) <=> (\E i \in 1 .. Len(s) : s[i] = d) /\ d # c
      <4>1. ASSUME NEW i \in 1 .. Len(s) - 1, r[i] = d
            PROVE  (\E j \in 1 .. Len(s) : s[j] = d) /\ d # c
        BY <3>3, <3>4, <3>5, <3>6, <4>1
      <4>2. ASSUME NEW i \in 1 .. Len(s), s[i] = d, d # c
            PROVE  \E j \in 1 .. Len(s) - 1 : r[j] = d
        <5>1. CASE i < k
          <6>. i \in 1 .. Len(s) - 1 /\ r[i] = d
            BY <3>3, <3>4, <3>5, <4>2, <5>1
          <6>. QED
            OBVIOUS
        <5>2. CASE k < i
          <6>. i - 1 \in 1 .. Len(s) - 1 /\ r[i - 1] = d
            BY <3>3, <3>4, <3>5, <4>2, <5>2
          <6>. QED
            OBVIOUS
        <5>. QED
          BY <3>3, <3>5, <4>2, <5>1, <5>2
      <4>. QED
        BY <4>1, <4>2
    <3>9. (\A d \in Conns : At(d, o)' <=> At(d, o) /\ d # c) /\ Distinct(o)'
      BY <3>1, <3>5, <3>7, <3>8 DEF s
    <3>. QED
      BY <1>a, <3>2, <3>9
  <2>. QED
    BY <2>1, <2>2
<1>. QED
  BY <1>1, <1>2, <1>3, <1>4, <1>5, <1>6 DEF Next, vars, Serve, Finish, ResetCollect,
     ResetDelete, CloseLoad, CloseWalk, CloseLock, CloseElement, CloseWalked, CloseUnlock

\* CloseConnections closes the list element by element while stats.Lock keeps the
\* list as it is.
LEMMA WalkStep == TypeOK /\ UserInv /\ ListInv /\ WalkInv /\ [Next]_vars => WalkInv'
<1>. SUFFICES ASSUME TypeOK, UserInv, ListInv, WalkInv, [Next]_vars PROVE WalkInv'
  OBVIOUS
<1>. DEFINE o == closer.stats
            s == connections[closer.stats]
            Locked == closer.pc \in {"walk", "unlock"}
<1>. USE StatsAssumption DEF OrNone, lockVars, objVars, resetVars
<1>a. /\ closer.pc # "idle" => o \in Conns /\ s \in Seq(Conns)
      /\ closer.pc = "walk" => \E k \in 0 .. Len(s) : WalkedTo(s, k)
      /\ closer.pc = "unlock" => ToSet(s) \subseteq closed
  BY DEF WalkInv, WalkClosesAll, TypeOK, ListsOK
<1>b. closer \in [pc : {"idle", "lock", "walk", "unlock"}, stats : OrNone(Conns),
                  at : OrNone(Conns), calls : 0 .. MaxCloses]
  BY DEF TypeOK
\* The steps of the connections and of ResetAppTraffics.
<1>1. ASSUME closer' = closer, closed' = closed, Locked => connections'[o] = connections[o]
      PROVE  WalkInv'
  BY <1>1, <1>a DEF WalkInv, WalkClosesAll, WalkedTo
<1>2. ASSUME NEW c \in Conns, Register(c) \/ Unregister(c) PROVE WalkInv'
  <2>1. stats[c] \in Conns
    BY <1>2 DEF Register, Unregister, TypeOK, UserInv, Finding
  <2>2. Locked => stats[c] # o
    BY <1>2 DEF Register, Unregister, StatsLocked
  <2>. QED
    BY <1>1, <1>2, <2>1, <2>2, <1>a DEF Register, Unregister, TypeOK, ListsOK
<1>3. ASSUME UNCHANGED <<closer, closed, connections>> PROVE WalkInv'
  BY <1>1, <1>3
<1>4. ASSUME NEW u \in Uids, CloseLoad(u) PROVE WalkInv'
  BY <1>4, <1>b DEF CloseLoad, WalkInv, WalkClosesAll, TypeOK
<1>5. CASE CloseLock
  <2>1. Len(s) \in Nat /\ (s = <<>> <=> Len(s) = 0) /\ (s # <<>> => Head(s) = s[1])
    BY <1>5, <1>a, EmptySeq, LenProperties DEF CloseLock
  <2>2. /\ closer'.pc = "walk" /\ closer'.stats = o /\ connections' = connections
        /\ closer'.at = IF 0 < Len(s) THEN s[0 + 1] ELSE None
    BY <1>5, <1>b, <2>1 DEF CloseLock, FirstElement
  <2>3. WalkedTo(s, 0)'
    BY <2>2 DEF WalkedTo
  <2>4. 0 \in 0 .. Len(s)
    BY <2>1
  <2>. QED
    BY <1>5, <1>a, <2>2, <2>3, <2>4 DEF CloseLock, WalkInv, WalkClosesAll
<1>6. CASE CloseElement
  <2>. PICK k \in 0 .. Len(s) : WalkedTo(s, k)
    BY <1>6, <1>a DEF CloseElement
  <2>. USE DEF WalkedTo
  <2>0. o \in Conns /\ s \in Seq(Conns) /\ Len(s) \in Nat /\ DOMAIN s = 1 .. Len(s)
    BY <1>6, <1>a, LenProperties DEF CloseElement
  <2>1. k < Len(s) /\ closer.at = s[k + 1] /\ k + 1 \in 1 .. Len(s)
    BY <1>6, <2>0 DEF CloseElement
  <2>2. Element(o, closer.at) = k + 1
    BY <2>0, <2>1, ElementOfListed
  <2>3. NextElement(o, closer.at) = IF k + 1 < Len(s) THEN s[(k + 1) + 1] ELSE None
    BY <2>0, <2>1, <2>2 DEF NextElement, Contains
  <2>4. /\ closer'.pc = "walk" /\ closer'.stats = o /\ connections' = connections
        /\ closer'.at = NextElement(o, closer.at) /\ closed' = closed \cup {s[k + 1]}
    BY <1>6, <1>b, <2>1 DEF CloseElement
  <2>5. WalkedTo(s, k + 1)'
    BY <2>0, <2>1, <2>3, <2>4
  <2>6. k + 1 \in 0 .. Len(s)
    BY <2>0, <2>1
  <2>. QED
    BY <2>0, <2>4, <2>5, <2>6 DEF WalkInv, WalkClosesAll
<1>7. CASE CloseWalked
  <2>. PICK k \in 0 .. Len(s) : WalkedTo(s, k)
    BY <1>7, <1>a DEF CloseWalked
  <2>0. o \in Conns /\ s \in Seq(Conns) /\ Len(s) \in Nat /\ DOMAIN s = 1 .. Len(s)
    BY <1>7, <1>a, LenProperties DEF CloseWalked
  <2>1. k = Len(s)
    BY <1>7, <2>0, ElementOfSeq DEF CloseWalked, WalkedTo
  <2>2. ToSet(s) \subseteq closed
    BY <2>0, <2>1 DEF WalkedTo, ToSet
  <2>. QED
    BY <1>7, <1>b, <2>0, <2>2 DEF CloseWalked, WalkInv, WalkClosesAll
<1>8. CASE CloseUnlock
  BY <1>8, <1>b DEF CloseUnlock, WalkInv, WalkClosesAll
<1>. QED
  BY <1>2, <1>3, <1>4, <1>5, <1>6, <1>7, <1>8 DEF Next, vars, CloseWalk, Acquire, LockStored,
     LockLoaded, Wait, Wake, RereadFound, RereadPanics, Publish, Unlock, Broadcast, Serve,
     Count, Activate, ServeEnds, Finish, Leave, Sum, Stamp, Arrival, LoadHit, LoadMiss,
     PeerEnds, ResetCollect, ResetDelete

-------------------------------------------------------------------------------
(* The theorems.                                                              *)

LEMMA StatsInvInit == Init => StatsInv
<1>. SUFFICES ASSUME Init PROVE StatsInv
  OBVIOUS
<1>. USE StatsAssumption DEF Init
<1>1. TypeOK
  BY DEF TypeOK, ListsOK, PC, OrNone
<1>2. UserInv
  BY DEF UserInv, Finding
<1>3. \A o \in Conns : Inside(o) = {}
  BY DEF Inside, Counted
<1>4. CountInv
  <2>1. \A o \in Conns : IsFiniteSet(Inside(o)) /\ Exact(o)
    BY <1>3, FS_EmptySet DEF Exact
  <2>. QED
    BY <2>1, ExactIsCountersExact DEF CountInv, FiniteInv
<1>5. StampInv
  BY DEF StampInv
<1>6. ListInv
  BY DEF ListInv, IsInjective, Listed
<1>7. WalkInv
  BY DEF WalkInv, WalkClosesAll
<1>. QED
  BY <1>1, <1>2, <1>4, <1>5, <1>6, <1>7 DEF StatsInv

LEMMA StatsInvStep == StatsInv /\ [Next]_vars => StatsInv'
  BY TypeStep, UserStep, CountStep, StampStep, ListStep, WalkStep DEF StatsInv

LEMMA StatsInvariance == Spec => []StatsInv
  BY StatsInvInit, StatsInvStep, PTL DEF Spec

\* Type correctness of the app statistics: the counters that the deferred function
\* of NewConnection and NewPacket decrements never fall below zero.
THEOREM TypeCorrect == Spec => []TypeOK
<1>1. StatsInv => TypeOK
  BY DEF StatsInv
<1>. QED
  BY <1>1, StatsInvariance, PTL

\* tcpConn and udpConn are the connections in an appStats, by kind, at every step,
\* for any number of connections, resets and walks.
THEOREM CountersAreExact == Spec => []CountersExact
<1>1. StatsInv => CountersExact
  BY DEF StatsInv, CountInv
<1>. QED
  BY <1>1, StatsInvariance, PTL

\* An appStats that every connection has left has a deactivateAt.
THEOREM QuiescenceIsStamped == Spec => []QuiescentIsStamped
<1>1. StatsInv => QuiescentIsStamped
  BY DEF StatsInv, StampInv, QuiescentIsStamped, Entering, Stamping, Counted, TypeOK
<1>. QED
  BY <1>1, StatsInvariance, PTL

\* The walk of CloseConnections closes every connection of the list, although the
\* connections register and remove themselves at any time.
THEOREM WalkIsComplete == Spec => []WalkClosesAll
<1>1. StatsInv => WalkClosesAll
  BY DEF StatsInv, WalkInv
<1>. QED
  BY <1>1, StatsInvariance, PTL

-------------------------------------------------------------------------------
(* Nobody is stuck.                                                           *)

\* The key of lockTable is with a goroutine that is making the appStats of the app;
\* the mutex of a Cond is with one that reads the table again.
KeyInv ==
    \A u \in Uids : lockTable[u] # None =>
        pc[lockTable[u]] \in {"publish", "unlock"} /\ Uid(lockTable[u]) = u
MutexInv ==
    \A k \in Conns : condL[k] # None =>
        pc[condL[k]] \in {"reread", "panic"} /\ cond[condL[k]] = k

\* Whoever waits has the Cond of a goroutine of its app; that goroutine has yet to
\* broadcast, or it has and the waiter has missed it.
WaitInv ==
    \A c \in Conns :
        /\ pc[c] \in {"wait", "asleep", "awake", "reread"} =>
               cond[c] \in Conns /\ Uid(cond[c]) = Uid(c)
        /\ pc[c] \in {"wait", "asleep"} /\ cond[c] \notin broadcast =>
               pc[cond[c]] \in {"publish", "unlock", "broadcast"}
        /\ pc[c] = "asleep" /\ c \notin missed => cond[c] \notin broadcast

\* Before the first ResetAppTraffics, the table keeps the appStats of an app: those
\* that have one or were woken find it, and none panics.
KeptInv ==
    resets = 0 =>
        /\ toDel = {}
        /\ \A c \in Conns :
              /\ stats[c] # None \/ pc[c] \in {"awake", "reread"} => table[Uid(c)] # None
              /\ pc[c] # "panic"

SyncInv == KeyInv /\ MutexInv /\ WaitInv /\ KeptInv

LEMMA SyncInit == Init => SyncInv
  BY StatsAssumption DEF Init, SyncInv, KeyInv, MutexInv, WaitInv, KeptInv

\* The steps of a search that take or give up the key, or fill the table.
LEMMA SyncAcquire ==
    ASSUME TypeOK, UserInv, SyncInv, NEW c \in Conns, Acquire(c)
    PROVE  SyncInv'
<1>. USE StatsAssumption DEF TypeOK, PC, OrNone, Uid, Goto, lockVars, objVars, resetVars,
       UserInv, Finding, SyncInv, KeyInv, MutexInv, WaitInv, KeptInv
<1>1. CASE LockStored(c)
  BY <1>1 DEF LockStored
<1>2. CASE LockLoaded(c)
  BY <1>2 DEF LockLoaded
<1>3. CASE Wait(c)
  BY <1>3 DEF Wait
<1>4. CASE Wake(c)
  BY <1>4 DEF Wake
<1>5. CASE RereadFound(c)
  BY <1>5 DEF RereadFound
<1>6. CASE RereadPanics(c)
  BY <1>6 DEF RereadPanics
<1>7. CASE Publish(c)
  BY <1>7 DEF Publish
<1>8. CASE Unlock(c)
  BY <1>8 DEF Unlock
<1>9. CASE Broadcast(c)
  BY <1>9 DEF Broadcast
<1>. QED
  BY <1>1, <1>2, <1>3, <1>4, <1>5, <1>6, <1>7, <1>8, <1>9 DEF Acquire

\* A goroutine that moves outside of the search is nobody's creator or waiter.
LEMMA SyncMove ==
    ASSUME TypeOK, UserInv, SyncInv, NEW c \in Conns,
           pc[c] \notin {"wait", "asleep", "awake", "reread", "panic", "publish", "unlock", "broadcast"},
           NEW l \in PC \ {"wait", "asleep", "awake", "reread", "panic", "publish", "unlock", "broadcast"},
           Goto(c, l),
           stats' = stats \/ (table[Uid(c)] # None /\ stats' = [stats EXCEPT ![c] = table[Uid(c)]]),
           UNCHANGED <<table, lockVars, resetVars>>
    PROVE  SyncInv'
<1>. USE StatsAssumption DEF TypeOK, PC, OrNone, Uid, Goto, lockVars, resetVars
<1>1. KeyInv' /\ MutexInv'
  BY DEF SyncInv, KeyInv, MutexInv
<1>2. WaitInv'
  BY DEF SyncInv, WaitInv
<1>3. KeptInv'
  BY DEF SyncInv, KeptInv
<1>. QED
  BY <1>1, <1>2, <1>3 DEF SyncInv

LEMMA SyncStep == TypeOK /\ UserInv /\ SyncInv /\ [Next]_vars => SyncInv'
<1>. SUFFICES ASSUME TypeOK, UserInv, SyncInv, [Next]_vars PROVE SyncInv'
  OBVIOUS
<1>1. ASSUME UNCHANGED <<pc, stats, table, lockVars, resetVars>> PROVE SyncInv'
  BY <1>1 DEF SyncInv, KeyInv, MutexInv, WaitInv, KeptInv, lockVars, resetVars
<1>2. ASSUME NEW c \in Conns, Serve(c) \/ Finish(c) \/ Arrival(c) \/ PeerEnds(c)
      PROVE  SyncInv'
  <2>. USE DEF PC
  <2>1. CASE Serve(c)
    BY <2>1, SyncMove DEF Serve, Count, Activate, Register, ServeEnds
  <2>2. CASE Finish(c)
    BY <2>2, SyncMove DEF Finish, Leave, Sum, Stamp, Unregister
  <2>3. CASE Arrival(c)
    BY <2>3, SyncMove DEF Arrival, LoadHit, LoadMiss
  <2>4. CASE PeerEnds(c)
    BY <2>4, SyncMove DEF PeerEnds
  <2>. QED
    BY <1>2, <2>1, <2>2, <2>3, <2>4
<1>3. ASSUME ResetCollect \/ \E u \in Uids : ResetDelete(u) PROVE SyncInv'
  BY <1>3 DEF ResetCollect, ResetDelete, TypeOK, SyncInv, KeyInv, MutexInv, WaitInv, KeptInv,
     lockVars, Uid
<1>. QED
  BY <1>1, <1>2, <1>3, SyncAcquire DEF Next, vars, CloseLoad, CloseWalk, CloseLock,
     CloseElement, CloseWalked, CloseUnlock

\* Who waits has before it the one it waits for.
LEMMA SyncRests ==
    ASSUME TypeOK, UserInv, SyncInv
    PROVE  NobodyStuck
<1>1. Panicked => resets > 0
  BY StatsAssumption DEF TypeOK, SyncInv, KeptInv, Panicked
<1>2. ASSUME ~Panicked, ~CanGoOn
      PROVE  /\ closer.pc = "idle"
             /\ \A c \in Conns :
                   \/ pc[c] \in {"start", "done"}
                   \/ pc[c] = "open" /\ c \notin closed
                   \/ pc[c] = "asleep" /\ c \in missed
  <2>1. closer.pc = "idle"
    BY <1>2 DEF CanGoOn
  <2>2. ASSUME NEW c \in Conns
        PROVE  \/ pc[c] \in {"start", "done"}
               \/ pc[c] = "open" /\ c \notin closed
               \/ pc[c] = "asleep" /\ c \in missed
    <3>1. pc[c] \notin {"register", "unregister"}
      BY <1>2, <2>1 DEF CanGoOn, StatsLocked
    <3>2. pc[c] \notin {"wait", "awake"}
      <4>1. ASSUME pc[c] \in {"wait", "awake"} PROVE FALSE
        <5>1. cond[c] \in Conns /\ condL[cond[c]] # None
          BY <1>2, <4>1 DEF CanGoOn, SyncInv, WaitInv
        <5>2. condL[cond[c]] \in Conns /\ pc[condL[cond[c]]] \in {"reread", "panic"}
          BY <5>1 DEF SyncInv, MutexInv, TypeOK, OrNone
        <5>. QED
          BY <1>2, <5>2 DEF CanGoOn, Panicked
      <4>. QED
        BY <4>1
    <3>3. pc[c] = "asleep" => c \in missed
      <4>1. ASSUME pc[c] = "asleep", c \notin missed PROVE FALSE
        <5>1. cond[c] \in Conns /\ pc[cond[c]] \in {"publish", "unlock", "broadcast"}
          BY <4>1 DEF SyncInv, WaitInv
        <5>. QED
          BY <1>2, <5>1 DEF CanGoOn
      <4>. QED
        BY <4>1
    <3>4. /\ pc[c] \notin {"lock", "reread", "publish", "unlock", "broadcast", "count",
                           "activate", "leave", "sum", "stamp", "panic"}
          /\ pc[c] = "open" => c \notin closed
      BY <1>2 DEF CanGoOn, Panicked
    <3>. QED
      BY <3>1, <3>2, <3>3, <3>4 DEF TypeOK, PC
  <2>. QED
    BY <2>1, <2>2
<1>. QED
  BY <1>1, <1>2 DEF NobodyStuck

\* The goroutines that wait for a sync.Cond, its mutex or the mutex of the list never
\* wait for each other, and only a ResetAppTraffics takes an appStats away from a
\* waiter: for any connections, apps, resets and walks.
THEOREM NobodyIsStuck == Spec => []NobodyStuck
<1>1. Init => SyncInv
  BY SyncInit
<1>2. TypeOK /\ UserInv /\ SyncInv /\ [Next]_vars => SyncInv'
  BY SyncStep
<1>3. StatsInv => TypeOK /\ UserInv
  BY DEF StatsInv
<1>4. TypeOK /\ UserInv /\ SyncInv => NobodyStuck
  BY SyncRests
<1>. QED
  BY <1>1, <1>2, <1>3, <1>4, StatsInvariance, PTL DEF Spec

-------------------------------------------------------------------------------
(* The search for the appStats implements CreateOnce.                         *)

\* The Cond of a goroutine: its own if it makes the appStats, that of another one if
\* it waits, and none before LoadOrStore.  A Cond has been broadcast only after its
\* goroutine gave up the key.
CondInv ==
    \A c \in Conns :
        /\ pc[c] \in {"start", "lock"} => cond[c] = None
        /\ pc[c] \in {"publish", "unlock", "broadcast"} => cond[c] = c
        /\ pc[c] \in Waiting \cup {"reread", "panic"} => cond[c] \in Conns \ {c}
        /\ pc[c] = "awake" => cond[c] \in broadcast
        /\ c \in broadcast =>
              cond[c] = c /\ pc[c] \notin {"start", "lock"} \cup Creating \cup Waiting

LEMMA CondStep == TypeOK /\ SyncInv /\ CondInv /\ [Next]_vars => CondInv'
<1>. SUFFICES ASSUME TypeOK, SyncInv, CondInv, [Next]_vars PROVE CondInv'
  OBVIOUS
<1>. USE StatsAssumption DEF TypeOK, PC, OrNone, Uid, Goto, lockVars, CondInv, Waiting, Creating
<1>1. ASSUME UNCHANGED <<pc, lockVars>> PROVE CondInv'
  BY <1>1
<1>2. ASSUME NEW c \in Conns, LockStored(c) \/ LockLoaded(c) PROVE CondInv'
  BY <1>2 DEF LockStored, LockLoaded, SyncInv, KeyInv
<1>3. ASSUME NEW c \in Conns, Wait(c) \/ Wake(c) \/ RereadFound(c) \/ RereadPanics(c) PROVE CondInv'
  BY <1>3 DEF Wait, Wake, RereadFound, RereadPanics
<1>4. ASSUME NEW c \in Conns, Publish(c) \/ Unlock(c) PROVE CondInv'
  BY <1>4 DEF Publish, Unlock
<1>5. ASSUME NEW c \in Conns, Broadcast(c) PROVE CondInv'
  BY <1>5 DEF Broadcast
<1>6. ASSUME NEW c \in Conns, Serve(c) PROVE CondInv'
  <2>1. CASE Count(c)
    BY <2>1 DEF Count
  <2>2. CASE Activate(c)
    BY <2>2 DEF Activate
  <2>3. CASE Register(c)
    <3>1. pc[c] = "register" /\ Goto(c, "open") /\ UNCHANGED lockVars
      BY <2>3 DEF Register
    <3>. QED
      BY <3>1
  <2>4. CASE ServeEnds(c)
    BY <2>4 DEF ServeEnds
  <2>. QED
    BY <1>6, <2>1, <2>2, <2>3, <2>4 DEF Serve
<1>7. ASSUME NEW c \in Conns, Finish(c) PROVE CondInv'
  BY <1>7 DEF Finish, Leave, Sum, Stamp, Unregister
<1>8. ASSUME NEW c \in Conns, Arrival(c) \/ PeerEnds(c) PROVE CondInv'
  BY <1>8 DEF Arrival, LoadHit, LoadMiss, PeerEnds
<1>. QED
  BY <1>1, <1>2, <1>3, <1>4, <1>5, <1>6, <1>7, <1>8 DEF Next, vars, Acquire, ResetCollect,
     ResetDelete, CloseLoad, CloseWalk, CloseLock, CloseElement, CloseWalked, CloseUnlock

\* What the refinement rests on.
FindInv == TypeOK /\ UserInv /\ SyncInv /\ CondInv

LEMMA FindInvariance == Spec => []FindInv
<1>1. Init => SyncInv /\ CondInv
  BY SyncInit, StatsAssumption DEF Init, CondInv, Waiting, Creating
<1>2. TypeOK /\ UserInv /\ SyncInv /\ CondInv /\ [Next]_vars => SyncInv' /\ CondInv'
  BY SyncStep, CondStep
<1>3. StatsInv => TypeOK /\ UserInv
  BY DEF StatsInv
<1>. QED
  BY <1>1, <1>2, <1>3, StatsInvariance, PTL DEF Spec, FindInv

\* The places from which a goroutine has its appStats, or ends the process.
Found == {"reread", "panic", "broadcast", "count", "activate", "register", "open",
          "leave", "sum", "stamp", "unregister", "done"}

\* The phase of a goroutine follows from its place and its Cond.
LEMMA PhaseCases ==
  ASSUME NEW c \in Conns
  PROVE  /\ pc[c] \in {"start", "lock"} => PhaseOf(c) = "idle"
         /\ pc[c] \in Creating => PhaseOf(c) = "creating"
         /\ pc[c] \in Waiting => PhaseOf(c) = "waiting"
         /\ pc[c] \in Found =>
                PhaseOf(c) = IF cond[c] = c THEN "created"
                             ELSE IF cond[c] = None THEN "bypassed" ELSE "released"
  BY DEF PhaseOf, Creating, Waiting, Found

\* The same, after a step.
LEMMA PhaseCasesNext ==
  ASSUME NEW c \in Conns
  PROVE  /\ pc'[c] \in {"start", "lock"} => PhaseOf(c)' = "idle"
         /\ pc'[c] \in Creating => PhaseOf(c)' = "creating"
         /\ pc'[c] \in Waiting => PhaseOf(c)' = "waiting"
         /\ pc'[c] \in Found =>
                PhaseOf(c)' = IF cond'[c] = c THEN "created"
                              ELSE IF cond'[c] = None THEN "bypassed" ELSE "released"
  BY DEF PhaseOf, Creating, Waiting, Found

\* A step that moves one goroutine only changes the phase of that one.
LEMMA OnePhase ==
  ASSUME NEW c \in Conns, NEW ph,
         PhaseOf(c)' = ph,
         \A d \in Conns \ {c} : pc'[d] = pc[d] /\ cond'[d] = cond[d]
  PROVE  PhaseMap' = [PhaseMap EXCEPT ![c] = ph]
<1>1. \A d \in Conns \ {c} : PhaseOf(d)' = PhaseOf(d)
  BY DEF PhaseOf
<1>. QED
  BY <1>1 DEF PhaseMap

\* A step that leaves every goroutine in its phase leaves the mapped phases alone.
LEMMA SamePhases ==
  ASSUME \A c \in Conns : PhaseOf(c)' = PhaseOf(c)
  PROVE  PhaseMap' = PhaseMap
  BY DEF PhaseMap

\* The mapped initial state is CreateOnce's.
LEMMA InitMaps == Init => Once!Init
<1>. SUFFICES ASSUME Init PROVE Once!Init
  OBVIOUS
<1>1. \A c \in Conns : PhaseOf(c) = "idle"
  BY PhaseCases DEF Init
<1>. QED
  BY <1>1 DEF Init, Once!Init, PhaseMap

\* Outside of the search a goroutine stays in the phase in which it found its appStats.
LEMMA FoundStays ==
  ASSUME TypeOK, NEW c \in Conns, pc[c] \in Found, NEW l \in Found, Goto(c, l),
         UNCHANGED <<lockTable, cond>>
  PROVE  UNCHANGED Once!onceVars
<1>1. PhaseOf(c)' = PhaseOf(c)
  BY PhaseCases, PhaseCasesNext DEF Goto, TypeOK
<1>2. \A d \in Conns : PhaseOf(d)' = PhaseOf(d)
  BY <1>1 DEF PhaseOf, Goto, TypeOK
<1>. QED
  BY <1>2, SamePhases DEF Once!onceVars

\* LoadOrStore maps to Create or Join, lockTable.Delete to Finish, the return of
\* cond.Wait to Release, a hit of the first Load to Bypass.
LEMMA AcquireMaps ==
  ASSUME FindInv, NEW c \in Conns, Acquire(c) \/ Arrival(c)
  PROVE  [Once!Next]_(Once!onceVars)
<1>. USE StatsAssumption DEF FindInv, TypeOK, Uid, Goto, lockVars
<1>0. \A d \in Conns : PhaseMap[d] = PhaseOf(d)
  BY DEF PhaseMap
<1>1. CASE LoadHit(c)
  <2>1. PhaseOf(c) = "idle" /\ PhaseOf(c)' = "bypassed"
    BY <1>1, PhaseCases, PhaseCasesNext DEF LoadHit, CondInv, Found
  <2>2. PhaseMap' = [PhaseMap EXCEPT ![c] = "bypassed"]
    BY <1>1, <2>1, OnePhase DEF LoadHit
  <2>. QED
    BY <1>0, <1>1, <2>1, <2>2 DEF LoadHit, Once!Bypass, Once!Next
<1>2. CASE LockStored(c)
  <2>1. PhaseOf(c) = "idle" /\ PhaseOf(c)' = "creating"
    BY <1>2, PhaseCases, PhaseCasesNext DEF LockStored, Creating
  <2>2. PhaseMap' = [PhaseMap EXCEPT ![c] = "creating"]
    BY <1>2, <2>1, OnePhase DEF LockStored
  <2>. QED
    BY <1>0, <1>2, <2>1, <2>2 DEF LockStored, Once!Create, Once!Next
<1>3. CASE LockLoaded(c)
  <2>1. PhaseOf(c) = "idle" /\ PhaseOf(c)' = "waiting"
    BY <1>3, PhaseCases, PhaseCasesNext DEF LockLoaded, Waiting
  <2>2. PhaseMap' = [PhaseMap EXCEPT ![c] = "waiting"]
    BY <1>3, <2>1, OnePhase DEF LockLoaded
  <2>. QED
    BY <1>0, <1>3, <2>1, <2>2 DEF LockLoaded, Once!Join, Once!Next
<1>4. CASE Wake(c)
  <2>1. PhaseOf(c) = "waiting" /\ PhaseOf(c)' = "released"
    BY <1>4, PhaseCases, PhaseCasesNext DEF Wake, CondInv, Waiting, Found
  <2>2. cond[c] \in Conns /\ PhaseOf(cond[c]) = "created"
    <3>1. cond[c] \in Conns /\ cond[c] \in broadcast
      BY <1>4 DEF Wake, CondInv, Waiting
    <3>2. cond[cond[c]] = cond[c] /\ pc[cond[c]] \in Found
      BY <3>1 DEF CondInv, Creating, Waiting, Found, PC
    <3>. QED
      BY <3>1, <3>2, PhaseCases
  <2>3. PhaseMap' = [PhaseMap EXCEPT ![c] = "released"]
    BY <1>4, <2>1, OnePhase DEF Wake
  <2>. QED
    BY <1>0, <1>4, <2>1, <2>2, <2>3 DEF Wake, Once!Release, Once!Next
<1>5. CASE Unlock(c)
  <2>1. PhaseOf(c) = "creating" /\ PhaseOf(c)' = "created"
    BY <1>5, PhaseCases, PhaseCasesNext DEF Unlock, CondInv, Creating, Found
  <2>2. PhaseMap' = [PhaseMap EXCEPT ![c] = "created"]
    BY <1>5, <2>1, OnePhase DEF Unlock
  <2>. QED
    BY <1>0, <1>5, <2>1, <2>2 DEF Unlock, Once!Finish, Once!Next
<1>6. CASE LoadMiss(c) \/ Wait(c) \/ Publish(c)
  <2>1. PhaseOf(c)' = PhaseOf(c)
    BY <1>6, PhaseCases, PhaseCasesNext DEF LoadMiss, Wait, Publish, Creating, Waiting
  <2>2. \A d \in Conns : PhaseOf(d)' = PhaseOf(d)
    BY <1>6, <2>1 DEF PhaseOf, LoadMiss, Wait, Publish
  <2>. QED
    BY <1>6, <2>2, SamePhases DEF LoadMiss, Wait, Publish, Once!onceVars
<1>7. CASE RereadFound(c) \/ RereadPanics(c)
  BY <1>7, FoundStays DEF RereadFound, RereadPanics, Found
<1>8. CASE Broadcast(c)
  <2>1. \A d \in Conns : PhaseOf(d)' = PhaseOf(d)
    BY <1>8 DEF Broadcast, PhaseOf, Creating, Waiting
  <2>. QED
    BY <1>8, <2>1, SamePhases DEF Broadcast, Once!onceVars
<1>. QED
  BY <1>1, <1>2, <1>3, <1>4, <1>5, <1>6, <1>7, <1>8 DEF Acquire, Arrival

\* Each step maps to a step of CreateOnce or leaves the mapped state alone.
LEMMA StepMaps == FindInv /\ [Next]_vars => [Once!Next]_(Once!onceVars)
<1>. SUFFICES ASSUME FindInv, [Next]_vars PROVE [Once!Next]_(Once!onceVars)
  OBVIOUS
<1>1. ASSUME UNCHANGED <<pc, lockVars>> PROVE UNCHANGED Once!onceVars
  <2>1. \A c \in Conns : PhaseOf(c)' = PhaseOf(c)
    BY <1>1 DEF PhaseOf, lockVars
  <2>. QED
    BY <1>1, <2>1, SamePhases DEF lockVars, Once!onceVars
<1>2. ASSUME NEW c \in Conns, Serve(c) \/ Finish(c) \/ PeerEnds(c)
      PROVE  UNCHANGED Once!onceVars
  <2>. USE DEF Found, lockVars, FindInv
  <2>1. CASE Serve(c)
    BY <2>1, FoundStays DEF Serve, Count, Activate, Register, ServeEnds
  <2>2. CASE Leave(c) \/ Stamp(c) \/ Unregister(c) \/ PeerEnds(c)
    BY <2>2, FoundStays DEF Leave, Stamp, Unregister, PeerEnds
  <2>3. CASE Sum(c)
    BY <2>3, FoundStays DEF Sum
  <2>. QED
    BY <1>2, <2>1, <2>2, <2>3 DEF Finish
<1>. QED
  BY <1>1, <1>2, AcquireMaps DEF Next, vars, ResetCollect, ResetDelete, CloseLoad,
     CloseWalk, CloseLock, CloseElement, CloseWalked, CloseUnlock

\* The section of NewConnection and NewPacket that finds or makes an appStats keeps
\* the promise of the get-or-create idiom, for every set of connections and apps, and
\* whatever ResetAppTraffics and CloseConnections do meanwhile.
THEOREM Implementation == Spec => ImplementsCreateOnce
  BY InitMaps, StepMaps, FindInvariance, PTL DEF Spec, ImplementsCreateOnce, Once!Spec

\* The promise, in terms of the refined state: two goroutines never make the appStats
\* of one app at a time, and one that waited joined a goroutine of its app that is done.
LEMMA OnceInvariance == Once!Spec => []Once!OnceInv
<1>. USE StatsAssumption
<1>1. Once!Init => Once!OnceInv
  BY DEF Once!Init, Once!OnceInv, Once!OnceTypeOK, Once!Phases
<1>2. Once!OnceInv /\ [Once!Next]_(Once!onceVars) => Once!OnceInv'
  <2>. SUFFICES ASSUME Once!OnceInv, [Once!Next]_(Once!onceVars) PROVE Once!OnceInv'
    OBVIOUS
  <2>. USE DEF Once!OnceInv, Once!OnceTypeOK, Once!Phases
  <2>1. CASE UNCHANGED Once!onceVars
    BY <2>1 DEF Once!onceVars
  <2>2. ASSUME NEW c \in Conns, Once!Bypass(c) PROVE Once!OnceInv'
    BY <2>2 DEF Once!Bypass
  <2>3. ASSUME NEW c \in Conns, Once!Create(c) PROVE Once!OnceInv'
    BY <2>3 DEF Once!Create
  <2>4. ASSUME NEW c \in Conns, Once!Join(c) PROVE Once!OnceInv'
    BY <2>4 DEF Once!Join
  <2>5. ASSUME NEW c \in Conns, Once!Finish(c) PROVE Once!OnceInv'
    BY <2>5 DEF Once!Finish
  <2>6. ASSUME NEW c \in Conns, Once!Release(c) PROVE Once!OnceInv'
    BY <2>6 DEF Once!Release
  <2>. QED
    BY <2>1, <2>2, <2>3, <2>4, <2>5, <2>6 DEF Once!Next
<1>. QED
  BY <1>1, <1>2, PTL DEF Once!Spec

\* No two appStats of one app are made at a time, and no connection counts on one
\* before the goroutine that it waited for has stored it.
THEOREM AppStatsMadeOnce == Spec => [](Once!OneCreator /\ Once!ReleasedAfterCreator)
<1>1. Once!OnceInv => Once!OneCreator /\ Once!ReleasedAfterCreator
  BY DEF Once!OnceInv, Once!OneCreator, Once!ReleasedAfterCreator
<1>. QED
  BY OnceInvariance, Implementation, <1>1, PTL DEF ImplementsCreateOnce

-------------------------------------------------------------------------------
(* AppTraffic takes nothing from AppStats.                                    *)

\* ReadAppTraffics and the counting wrappers are invisible to the connections: a
\* step of AppTraffic is one of AppStats or leaves all its variables alone, so that
\* the theorems above hold for it too.
THEOREM TrafficImplementsStats == TrafficSpec => Spec
<1>1. TrafficInit => Init
  BY DEF TrafficInit
<1>2. [NextWithTraffic]_allVars => [Next]_vars
  BY DEF NextWithTraffic, TrafficNext, allVars, Transfer, ReadEntry, ReadSwap, ReadAdd, Report
<1>. QED
  BY <1>1, <1>2, PTL DEF TrafficSpec, Spec

-------------------------------------------------------------------------------
(* AppTraffic: the bytes.                                                     *)

Calls == [pc : {"start", "swap", "add", "report", "done"}, stats : Conns \cup {None}, up : Nat]

\* A call beyond its first step has an appStats.
TrafficTypeOK ==
    /\ uplink \in [Conns -> Nat] /\ uplinkTotal \in [Conns -> Nat]
    /\ sent \in [Conns -> Nat] /\ reported \in [Conns -> Nat]
    /\ reader \in [Readers -> Calls]
    /\ \A r \in Readers : reader[r].pc # "start" => reader[r].stats \in Conns

\* However many calls there are, the bytes they have in hand can be counted.
TrafficInv == TrafficTypeOK /\ IsFiniteSet(Bytes(reader)) /\ TrafficConserved

\* What one call has in hand.
Share(calls, r, o, step) ==
    IF calls[r].pc = step /\ calls[r].stats = o THEN calls[r].up ELSE 0

\* The pairs of one call are as many as its bytes.
LEMMA BytesOfOne ==
    ASSUME NEW r, NEW n \in Nat
    PROVE  IsFiniteSet({r} \X (1 .. n)) /\ Cardinality({r} \X (1 .. n)) = n
<1>. DEFINE f == [i \in 1 .. n |-> <<r, i>>]
<1>1. f \in Bijection(1 .. n, {r} \X (1 .. n))
  <2>1. f \in [1 .. n -> {r} \X (1 .. n)]
    OBVIOUS
  <2>2. \A i, j \in 1 .. n : f[i] = f[j] => i = j
    OBVIOUS
  <2>3. \A b \in {r} \X (1 .. n) : \E i \in 1 .. n : f[i] = b
    OBVIOUS
  <2>. HIDE DEF f
  <2>. QED
    BY <2>1, <2>2, <2>3, Fun_IsBij
<1>2. ExistsBijection(1 .. n, {r} \X (1 .. n))
  BY <1>1 DEF ExistsBijection
<1>. QED
  BY <1>2, FS_CountingElements, FS_NatBijection

\* The bytes at one step are those of one call and those of the others.
LEMMA BytesSplit ==
    ASSUME NEW calls \in [Readers -> Calls], IsFiniteSet(Bytes(calls)),
           NEW r \in Readers, NEW o, NEW step
    PROVE  LET others == {b \in BytesAt(calls, o, step) : b[1] # r}
           IN  /\ Cardinality(others) \in Nat /\ Share(calls, r, o, step) \in Nat
               /\ Cardinality(BytesAt(calls, o, step)) =
                     Cardinality(others) + Share(calls, r, o, step)
<1>. DEFINE all == BytesAt(calls, o, step)
            others == {b \in all : b[1] # r}
            own == {b \in all : b[1] = r}
            n == Share(calls, r, o, step)
<1>1. calls[r].up \in Nat /\ n \in Nat
  BY DEF Calls, Share
<1>2. all \subseteq Bytes(calls)
  BY DEF BytesAt
<1>3. IsFiniteSet(others) /\ IsFiniteSet(own)
  BY <1>2, FS_Subset
<1>4. own = {r} \X (1 .. n)
  <2>1. \A b \in Bytes(calls) : \E q \in Readers : \E i \in 1 .. calls[q].up : b = <<q, i>>
    BY DEF Bytes
  <2>2. \A i \in 1 .. calls[r].up : <<r, i>> \in Bytes(calls)
    BY DEF Bytes
  <2>3. CASE calls[r].pc = step /\ calls[r].stats = o
    <3>1. n = calls[r].up
      BY <2>3 DEF Share
    <3>2. \A b \in own : b \in {r} \X (1 .. n)
      BY <2>1, <3>1 DEF BytesAt
    <3>3. \A b \in {r} \X (1 .. n) : b \in own
      BY <2>2, <2>3, <3>1 DEF BytesAt
    <3>. QED
      BY <3>2, <3>3
  <2>4. CASE ~(calls[r].pc = step /\ calls[r].stats = o)
    <3>1. n = 0
      BY <2>4 DEF Share
    <3>2. own = {}
      BY <2>4 DEF BytesAt
    <3>. QED
      BY <3>1, <3>2
  <2>. QED
    BY <2>3, <2>4
<1>5. Cardinality(own) = n
  BY <1>1, <1>4, BytesOfOne
<1>6. all = others \cup own /\ others \cap own = {}
  OBVIOUS
<1>7. Cardinality(others) \in Nat
  BY <1>3, FS_CardinalityType
<1>. HIDE DEF all, others, own, n
<1>8. Cardinality(all) = Cardinality(others) + n
  BY <1>1, <1>3, <1>5, <1>6, <1>7, FS_Union, FS_EmptySet
<1>. QED
  BY <1>1, <1>7, <1>8 DEF all, others, n

\* A step of one call changes the bytes at each step by its own.
LEMMA BytesStep ==
    ASSUME NEW f \in [Readers -> Calls], NEW g \in [Readers -> Calls],
           IsFiniteSet(Bytes(f)), NEW r \in Readers,
           \A q \in Readers \ {r} : g[q] = f[q]
    PROVE  /\ IsFiniteSet(Bytes(g))
           /\ \A o, step : /\ Share(f, r, o, step) \in Nat /\ Share(g, r, o, step) \in Nat
                           /\ Cardinality(BytesAt(f, o, step)) \in Nat
                           /\ Cardinality(BytesAt(g, o, step)) + Share(f, r, o, step) =
                                 Cardinality(BytesAt(f, o, step)) + Share(g, r, o, step)
<1>1. IsFiniteSet(Bytes(g))
  <2>1. g[r].up \in Nat
    BY DEF Calls
  <2>2. IsFiniteSet({r} \X (1 .. g[r].up))
    BY <2>1, BytesOfOne
  <2>3. Bytes(g) \subseteq Bytes(f) \cup ({r} \X (1 .. g[r].up))
    BY DEF Bytes
  <2>4. IsFiniteSet(Bytes(f) \cup ({r} \X (1 .. g[r].up)))
    BY <2>2, FS_Union
  <2>. QED
    BY <2>3, <2>4, FS_Subset
<1>2. ASSUME NEW o, NEW step
      PROVE  /\ Share(f, r, o, step) \in Nat /\ Share(g, r, o, step) \in Nat
             /\ Cardinality(BytesAt(f, o, step)) \in Nat
             /\ Cardinality(BytesAt(g, o, step)) + Share(f, r, o, step) =
                   Cardinality(BytesAt(f, o, step)) + Share(g, r, o, step)
  <2>. DEFINE F == {b \in BytesAt(f, o, step) : b[1] # r}
              G == {b \in BytesAt(g, o, step) : b[1] # r}
  <2>1. F = G
    <3>1. \A b : b \in Bytes(f) <=> \E q \in Readers : \E i \in 1 .. f[q].up : b = <<q, i>>
      BY DEF Bytes
    <3>2. \A b : b \in Bytes(g) <=> \E q \in Readers : \E i \in 1 .. g[q].up : b = <<q, i>>
      BY DEF Bytes
    <3>3. \A b : b \in F <=> \E q \in Readers \ {r} : \E i \in 1 .. f[q].up :
                                b = <<q, i>> /\ f[q].pc = step /\ f[q].stats = o
      BY <3>1 DEF BytesAt
    <3>4. \A b : b \in G <=> \E q \in Readers \ {r} : \E i \in 1 .. g[q].up :
                                b = <<q, i>> /\ g[q].pc = step /\ g[q].stats = o
      BY <3>2 DEF BytesAt
    <3>. HIDE DEF F, G
    <3>5. ASSUME NEW b
          PROVE  b \in F <=> b \in G
      <4>1. ASSUME b \in F
            PROVE  b \in G
        <5>1. PICK q \in Readers \ {r} : \E i \in 1 .. f[q].up :
                 b = <<q, i>> /\ f[q].pc = step /\ f[q].stats = o
          BY <3>3, <4>1
        <5>. QED
          BY <3>4, <5>1
      <4>2. ASSUME b \in G
            PROVE  b \in F
        <5>1. PICK q \in Readers \ {r} : \E i \in 1 .. g[q].up :
                 b = <<q, i>> /\ g[q].pc = step /\ g[q].stats = o
          BY <3>4, <4>2
        <5>. QED
          BY <3>3, <5>1
      <4>. QED
        BY <4>1, <4>2
    <3>. QED
      BY <3>5
  <2>2. /\ Cardinality(F) \in Nat /\ Share(f, r, o, step) \in Nat
        /\ Cardinality(BytesAt(f, o, step)) = Cardinality(F) + Share(f, r, o, step)
    BY BytesSplit
  <2>3. /\ Cardinality(G) \in Nat /\ Share(g, r, o, step) \in Nat
        /\ Cardinality(BytesAt(g, o, step)) = Cardinality(G) + Share(g, r, o, step)
    BY <1>1, BytesSplit
  <2>. HIDE DEF F, G
  <2>. QED
    BY <2>1, <2>2, <2>3
<1>. QED
  BY <1>1, <1>2

\* Each step of ReadAppTraffics moves the bytes of one appStats one place on.
LEMMA ReaderStep ==
    ASSUME TrafficInv, StatsInv, NEW r \in Readers,
           (\E u \in Uids : ReadEntry(r, u)) \/ ReadSwap(r) \/ ReadAdd(r) \/ Report(r)
    PROVE  TrafficInv'
<1>. DEFINE s == reader[r].stats
            n == reader[r].up
<1>0. /\ uplink \in [Conns -> Nat] /\ uplinkTotal \in [Conns -> Nat]
      /\ sent \in [Conns -> Nat] /\ reported \in [Conns -> Nat]
      /\ reader \in [Readers -> Calls] /\ n \in Nat
      /\ reader[r].pc # "start" => s \in Conns
  BY DEF TrafficInv, TrafficTypeOK, Calls
<1>1. TrafficTypeOK' /\ \A q \in Readers \ {r} : reader'[q] = reader[q]
  <2>1. CASE \E u \in Uids : ReadEntry(r, u)
    <3>1. PICK u \in Uids : ReadEntry(r, u)
      BY <2>1
    <3>2. table[u] \in Conns
      BY <3>1 DEF ReadEntry, StatsInv, TypeOK, OrNone
    <3>. QED
      BY <3>1, <3>2 DEF ReadEntry, TrafficInv, TrafficTypeOK, Calls
  <2>2. CASE ReadSwap(r)
    BY <2>2 DEF ReadSwap, TrafficInv, TrafficTypeOK, Calls
  <2>3. CASE ReadAdd(r)
    BY <2>3 DEF ReadAdd, TrafficInv, TrafficTypeOK, Calls
  <2>4. CASE Report(r)
    BY <2>4 DEF Report, TrafficInv, TrafficTypeOK, Calls
  <2>. QED
    BY <2>1, <2>2, <2>3, <2>4
<1>2. /\ IsFiniteSet(Bytes(reader'))
      /\ \A o, step : /\ Share(reader, r, o, step) \in Nat /\ Share(reader', r, o, step) \in Nat
                      /\ Cardinality(BytesAt(reader, o, step)) \in Nat
                      /\ Cardinality(BytesAt(reader', o, step)) + Share(reader, r, o, step) =
                            Cardinality(BytesAt(reader, o, step)) + Share(reader', r, o, step)
  BY <1>0, <1>1, BytesStep DEF TrafficInv, TrafficTypeOK
<1>3. ASSUME NEW o \in Conns
      PROVE  /\ sent'[o] = uplink'[o] + Cardinality(BytesAt(reader', o, "add")) + uplinkTotal'[o]
             /\ uplinkTotal'[o] = Cardinality(BytesAt(reader', o, "report")) + reported'[o]
  <2>. DEFINE a == Cardinality(BytesAt(reader, o, "add"))
              b == Cardinality(BytesAt(reader, o, "report"))
              a1 == Cardinality(BytesAt(reader', o, "add"))
              b1 == Cardinality(BytesAt(reader', o, "report"))
  <2>1. /\ a \in Nat /\ b \in Nat
        /\ sent[o] = uplink[o] + a + uplinkTotal[o] /\ uplinkTotal[o] = b + reported[o]
    BY <1>2 DEF TrafficInv, TrafficConserved, InHand
  <2>2. /\ a1 + Share(reader, r, o, "add") = a + Share(reader', r, o, "add")
        /\ b1 + Share(reader, r, o, "report") = b + Share(reader', r, o, "report")
    BY <1>2
  <2>3. a1 \in Nat /\ b1 \in Nat
    BY <1>2, FS_CardinalityType, FS_Subset DEF BytesAt
  <2>0. uplink[o] \in Nat /\ uplinkTotal[o] \in Nat /\ sent[o] \in Nat /\ reported[o] \in Nat
    BY <1>0
  <2>. HIDE DEF a, b, a1, b1
  <2>4. CASE \E u \in Uids : ReadEntry(r, u)
    <3>1. /\ Share(reader, r, o, "add") = 0 /\ Share(reader', r, o, "add") = 0
          /\ Share(reader, r, o, "report") = 0 /\ Share(reader', r, o, "report") = 0
          /\ UNCHANGED <<uplink, uplinkTotal, sent, reported>>
      BY <1>0, <2>4 DEF ReadEntry, Share, Calls
    <3>. QED
      BY <1>0, <2>1, <2>2, <2>3, <3>1 DEF a1, b1
  <2>5. CASE ReadSwap(r)
    <3>1. /\ Share(reader, r, o, "add") = 0
          /\ Share(reader', r, o, "add") = IF o = s THEN uplink[o] ELSE 0
          /\ Share(reader, r, o, "report") = 0 /\ Share(reader', r, o, "report") = 0
      BY <1>0, <2>5 DEF ReadSwap, Share, Calls
    <3>2. /\ UNCHANGED <<uplinkTotal, sent, reported>>
          /\ uplink'[o] = IF o = s THEN 0 ELSE uplink[o]
      BY <1>0, <2>5 DEF ReadSwap
    <3>. QED
      BY <1>0, <2>0, <2>1, <2>2, <2>3, <3>1, <3>2 DEF a1, b1
  <2>6. CASE ReadAdd(r)
    <3>1. /\ Share(reader, r, o, "add") = IF o = s THEN n ELSE 0
          /\ Share(reader', r, o, "add") = 0 /\ Share(reader, r, o, "report") = 0
          /\ Share(reader', r, o, "report") = IF o = s THEN n ELSE 0
      BY <1>0, <2>6 DEF ReadAdd, Share, Calls
    <3>2. /\ UNCHANGED <<uplink, sent, reported>>
          /\ uplinkTotal'[o] = IF o = s THEN uplinkTotal[o] + n ELSE uplinkTotal[o]
      BY <1>0, <2>6 DEF ReadAdd
    <3>. QED
      BY <1>0, <2>0, <2>1, <2>2, <2>3, <3>1, <3>2 DEF a1, b1
  <2>7. CASE Report(r)
    <3>1. /\ Share(reader, r, o, "add") = 0 /\ Share(reader', r, o, "add") = 0
          /\ Share(reader, r, o, "report") = IF o = s THEN n ELSE 0
          /\ Share(reader', r, o, "report") = 0
      BY <1>0, <2>7 DEF Report, Share, Calls
    <3>2. /\ UNCHANGED <<uplink, uplinkTotal, sent>>
          /\ reported'[o] = IF o = s THEN reported[o] + n ELSE reported[o]
      BY <1>0, <2>7 DEF Report
    <3>. QED
      BY <1>0, <2>0, <2>1, <2>2, <2>3, <3>1, <3>2 DEF a1, b1
  <2>. QED
    BY <2>4, <2>5, <2>6, <2>7
<1>. QED
  BY <1>1, <1>2, <1>3 DEF TrafficInv, TrafficConserved, InHand

\* A byte that passes a wrapper is in the counter.
LEMMA TransferStep ==
    ASSUME TrafficInv, StatsInv, NEW c \in Conns, Transfer(c)
    PROVE  TrafficInv'
<1>. DEFINE s == stats[c]
<1>1. s \in Conns
  BY DEF Transfer, StatsInv, TypeOK, UserInv, Finding, OrNone
<1>2. /\ uplink' = [uplink EXCEPT ![s] = @ + 1] /\ sent' = [sent EXCEPT ![s] = @ + 1]
      /\ UNCHANGED <<uplinkTotal, reported, reader>>
  BY DEF Transfer
<1>3. TrafficTypeOK'
  BY <1>1, <1>2 DEF TrafficInv, TrafficTypeOK
<1>4. ASSUME NEW o \in Conns
      PROVE  sent'[o] = uplink'[o] + Cardinality(BytesAt(reader, o, "add")) + uplinkTotal[o]
  <2>1. /\ Cardinality(BytesAt(reader, o, "add")) \in Nat
        /\ sent[o] = uplink[o] + Cardinality(BytesAt(reader, o, "add")) + uplinkTotal[o]
    BY FS_CardinalityType, FS_Subset DEF TrafficInv, TrafficConserved, InHand, BytesAt
  <2>2. /\ sent'[o] = sent[o] + (IF o = s THEN 1 ELSE 0)
        /\ uplink'[o] = uplink[o] + (IF o = s THEN 1 ELSE 0)
        /\ uplink[o] \in Nat /\ uplinkTotal[o] \in Nat /\ sent[o] \in Nat
    BY <1>1, <1>2 DEF TrafficInv, TrafficTypeOK
  <2>. QED
    BY <2>1, <2>2
<1>. QED
  BY <1>2, <1>3, <1>4 DEF TrafficInv, TrafficConserved, InHand

\* Every byte of an app is in one place, for any number of connections and of calls of
\* ReadAppTraffics at a time.
THEOREM TrafficIsConserved == TrafficSpec => []TrafficConserved
<1>1. TrafficInit => TrafficInv
  <2>. SUFFICES ASSUME TrafficInit
                PROVE  TrafficInv
    OBVIOUS
  <2>1. TrafficTypeOK
    BY DEF TrafficInit, TrafficTypeOK, Calls
  <2>2. Bytes(reader) = {}
    BY DEF TrafficInit, Bytes
  <2>3. \A o, step : BytesAt(reader, o, step) = {}
    BY <2>2 DEF BytesAt
  <2>4. TrafficConserved
    BY <2>3, FS_EmptySet DEF TrafficInit, TrafficConserved, InHand
  <2>. QED
    BY <2>1, <2>2, <2>4, FS_EmptySet DEF TrafficInv
<1>2. TrafficInv /\ StatsInv /\ [NextWithTraffic]_allVars => TrafficInv'
  <2>. SUFFICES ASSUME TrafficInv, StatsInv, [NextWithTraffic]_allVars
                PROVE  TrafficInv'
    OBVIOUS
  <2>1. CASE UNCHANGED trafficVars
    BY <2>1 DEF trafficVars, TrafficInv, TrafficTypeOK, TrafficConserved, InHand
  <2>2. CASE TrafficNext
    BY <2>2, ReaderStep, TransferStep DEF TrafficNext
  <2>. QED
    BY <2>1, <2>2 DEF NextWithTraffic, allVars
<1>3. TrafficSpec => []StatsInv
  BY TrafficImplementsStats, StatsInvariance, PTL
<1>4. TrafficInv => TrafficConserved
  BY DEF TrafficInv
<1>. QED
  BY <1>1, <1>2, <1>3, <1>4, PTL DEF TrafficSpec
===============================================================================
