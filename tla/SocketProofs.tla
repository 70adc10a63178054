----------------------------- MODULE SocketProofs -----------------------------
(***************************************************************************)
(* Proofs about the parts that serve a socket of their own: NatTcp,        *)
(* ApiInstance and Stun.  For any connections, keys and ends, the state of *)
(* NatTcp is well typed and connections that kept their entry are routed   *)
(* right; for any queries and starts, ApiInstance leaks no socket; for     *)
(* every NAT and server, Stun concludes what it may.  Of each it is shown  *)
(* that whoever waits at a socket or a queue has what ends the wait.       *)
(***************************************************************************)
EXTENDS NatTcp, ApiInstance, Stun, TLAPS

USE DEF Key, Entry

-------------------------------------------------------------------------------
(* What the helpers do to the table.                                           *)

\* A packet of an app leaves every entry as it is, or makes the one of its key,
\* which then names the app's end.
LEMMA TouchKeeps ==
    ASSUME TypeOK, NEW f \in Flows, TouchEntry(f)
    PROVE  /\ sessions' \in [Keys -> Ends \cup {None}]
           /\ \A k \in Keys : sessions[k] # None => sessions'[k] = sessions[k]
  BY NatAssumption DEF TypeOK, TouchEntry

\* A removed entry is the only change, and every established connection of its key
\* is recorded in cut.
LEMMA RemoveCuts ==
    ASSUME TypeOK, NEW k \in Keys, RemoveEntry(k)
    PROVE  /\ sessions' \in [Keys -> Ends \cup {None}]
           /\ cut' \subseteq Flows
           /\ cut \subseteq cut'
           /\ \A g \in Flows \ cut' :
                tcp[g] \in Established => sessions'[Key(g)] = sessions[Key(g)]
  BY NatAssumption DEF TypeOK, RemoveEntry, InKernel, Established

-------------------------------------------------------------------------------
(* Types.                                                                      *)

LEMMA TypeInit == Init => TypeOK
  BY NatAssumption DEF Init, TypeOK

LEMMA TypeStep == TypeOK /\ [Next]_vars => TypeOK'
<1> SUFFICES ASSUME TypeOK, [Next]_vars PROVE TypeOK'
  OBVIOUS
<1>1. CASE UNCHANGED vars
  BY <1>1 DEF TypeOK, vars
<1>2. ASSUME NEW f \in Flows, Syn(f) PROVE TypeOK'
  BY <1>2, TouchKeeps DEF TypeOK, Syn
<1>3. ASSUME NEW f \in Flows, Packet(f) PROVE TypeOK'
  BY <1>3, TouchKeeps DEF TypeOK, Packet
<1>4. ASSUME NEW f \in Flows, AppCloses(f) PROVE TypeOK'
  <2>1. sessions' \in [Keys -> Ends \cup {None}]
    BY <1>4, TouchKeeps DEF TypeOK, AppCloses
  <2> QED
    BY <1>4, <2>1 DEF TypeOK, AppCloses
<1>5. ASSUME NEW f \in Flows, SynAck(f) PROVE TypeOK'
  BY <1>5 DEF TypeOK, SynAck
<1>6. ASSUME NEW f \in Flows, SynAckRefused(f) PROVE TypeOK'
  BY <1>6 DEF TypeOK, SynAckRefused
<1>7. ASSUME NEW f \in Flows, Accept(f) PROVE TypeOK'
  BY <1>7, NatAssumption DEF TypeOK, Accept
<1>8. ASSUME NEW f \in Flows, AcceptUnknown(f) PROVE TypeOK'
  BY <1>8 DEF TypeOK, AcceptUnknown
<1>9. ASSUME NEW f \in Flows, RelayEnds(f) PROVE TypeOK'
  BY <1>9 DEF TypeOK, RelayEnds
<1>10. ASSUME NEW f \in Flows, DeleteSession(f) PROVE TypeOK'
  <2>1. Key(f) \in Keys
    BY NatAssumption
  <2> QED
    BY <1>10, <2>1, RemoveCuts DEF TypeOK, DeleteSession
<1>11. ASSUME NEW k \in Keys, Expire(k) PROVE TypeOK'
  BY <1>11, RemoveCuts DEF TypeOK, Expire
<1>12. CASE ListenerEnds
  BY <1>12 DEF TypeOK, ListenerEnds
<1>13. CASE LoopEnds
  BY <1>13 DEF TypeOK, LoopEnds
<1> QED
  BY <1>1, <1>2, <1>3, <1>4, <1>5, <1>6, <1>7, <1>8, <1>9, <1>10, <1>11, <1>12,
     <1>13 DEF Next, Dispatch

\* processIPv4, processIPv6, dispatch and the cache keep the forwarder well typed.
THEOREM TypeCorrect == Spec => []TypeOK
<1>1. Init => TypeOK
  BY TypeInit
<1>2. TypeOK /\ [Next]_vars => TypeOK'
  BY TypeStep
<1> QED
  BY <1>1, <1>2, PTL DEF Spec

-------------------------------------------------------------------------------
(* Routing.                                                                    *)

\* An action that starts no connection, dispatches none and keeps the entries of
\* the established connections that are not cut keeps them routed right.
LEMMA RoutedKept ==
    ASSUME RoutedRight, cut \subseteq cut', served' = served,
           \A g \in Flows \ cut' :
              tcp'[g] \in Established =>
                 tcp[g] \in Established /\ sessions'[Key(g)] = sessions[Key(g)]
    PROVE  RoutedRight'
  BY DEF RoutedRight, Established

LEMMA RoutedInit == Init => RoutedRight
  BY DEF Init, RoutedRight, Established

LEMMA RoutedStep == TypeOK /\ RoutedRight /\ [Next]_vars => RoutedRight'
<1> SUFFICES ASSUME TypeOK, RoutedRight, [Next]_vars PROVE RoutedRight'
  OBVIOUS
\* An entry that an established connection relies on names its end, so it is not
\* empty, and no packet of another app replaces it.
<1>a. ASSUME NEW f \in Flows, TouchEntry(f), NEW g \in Flows \ cut,
             tcp[g] \in Established
      PROVE  sessions'[Key(g)] = sessions[Key(g)]
  <2>1. sessions[Key(g)] = EndOf[g] /\ EndOf[g] # None /\ Key(g) \in Keys
    BY <1>a, NatAssumption DEF RoutedRight
  <2> QED
    BY <1>a, <2>1, TouchKeeps
<1>1. CASE UNCHANGED vars
  BY <1>1, RoutedKept DEF vars
<1>2. ASSUME NEW f \in Flows, Syn(f) PROVE RoutedRight'
  <2>1. \A g \in Flows : tcp'[g] \in Established => tcp[g] \in Established
    BY <1>2 DEF Syn, TypeOK, Established
  <2> QED
    BY <1>2, <1>a, <2>1, RoutedKept DEF Syn
<1>3. ASSUME NEW f \in Flows, Packet(f) PROVE RoutedRight'
  BY <1>3, <1>a, RoutedKept DEF Packet
<1>4. ASSUME NEW f \in Flows, AppCloses(f) PROVE RoutedRight'
  <2>1. \A g \in Flows : tcp'[g] \in Established => tcp[g] \in Established
    BY <1>4 DEF AppCloses, TypeOK, Established
  <2>2. \A g \in Flows \ cut : tcp[g] \in Established =>
           sessions'[Key(g)] = sessions[Key(g)]
    BY <1>4, <1>a DEF AppCloses
  <2> QED
    BY <1>4, <2>1, <2>2, RoutedKept DEF AppCloses
\* A connection is established only by a SYN-ACK from its own port.
<1>5. ASSUME NEW f \in Flows, SynAck(f) PROVE RoutedRight'
  BY <1>5 DEF SynAck, SentTo, RoutedRight, TypeOK, Established
<1>6. ASSUME NEW f \in Flows, SynAckRefused(f) PROVE RoutedRight'
  <2>1. \A g \in Flows : tcp'[g] \in Established => tcp[g] \in Established
    BY <1>6 DEF SynAckRefused, TypeOK, Established
  <2> QED
    BY <1>6, <2>1, RoutedKept DEF SynAckRefused
\* It is dispatched to the port in its entry.
<1>7. ASSUME NEW f \in Flows, Accept(f) PROVE RoutedRight'
  BY <1>7 DEF Accept, RoutedRight, TypeOK, Established
<1>8. ASSUME NEW f \in Flows, AcceptUnknown(f) PROVE RoutedRight'
  <2>1. \A g \in Flows : tcp'[g] \in Established => tcp[g] \in Established
    BY <1>8 DEF AcceptUnknown, TypeOK, Established
  <2> QED
    BY <1>8, <2>1, RoutedKept DEF AcceptUnknown
<1>9. ASSUME NEW f \in Flows, RelayEnds(f) PROVE RoutedRight'
  <2>1. \A g \in Flows : tcp'[g] \in Established => tcp[g] \in Established
    BY <1>9 DEF RelayEnds, TypeOK, Established
  <2> QED
    BY <1>9, <2>1, RoutedKept DEF RelayEnds
<1>10. ASSUME NEW f \in Flows, DeleteSession(f) PROVE RoutedRight'
  <2>1. Key(f) \in Keys
    BY NatAssumption
  <2> QED
    BY <1>10, <2>1, RemoveCuts, RoutedKept DEF DeleteSession
<1>11. ASSUME NEW k \in Keys, Expire(k) PROVE RoutedRight'
  BY <1>11, RemoveCuts, RoutedKept DEF Expire
<1>12. CASE ListenerEnds
  <2>1. \A g \in Flows : tcp'[g] \in Established => tcp[g] \in Established
    BY <1>12 DEF ListenerEnds, Established
  <2> QED
    BY <1>12, <2>1, RoutedKept DEF ListenerEnds
<1>13. CASE LoopEnds
  BY <1>13, RoutedKept DEF LoopEnds
<1> QED
  BY <1>1, <1>2, <1>3, <1>4, <1>5, <1>6, <1>7, <1>8, <1>9, <1>10, <1>11, <1>12,
     <1>13 DEF Next, Dispatch

\* Whatever connections share the key of a session, each one that kept its entry is
\* dispatched to the port it dialed, and its packets go back to its app.
THEOREM ConnectionsRoutedRight == Spec => []RoutedRight
<1>1. Init => TypeOK /\ RoutedRight
  BY TypeInit, RoutedInit
<1>2. TypeOK /\ RoutedRight /\ [Next]_vars => (TypeOK /\ RoutedRight)'
  BY TypeStep, RoutedStep
<1> QED
  BY <1>1, <1>2, PTL DEF Spec

-------------------------------------------------------------------------------
(* The accept queue: the safety core of QueueMoves.                           *)

\* The loop lives as long as the listener, and the end of the listener empties the
\* queue.
QueueInv ==
    /\ listener = "open" => loop = "running"
    /\ \A f \in Flows : tcp[f] \in {"half", "queued"} => listener = "open"

LEMMA QueueStep == TypeOK /\ QueueInv /\ [Next]_vars => QueueInv'
<1> SUFFICES ASSUME TypeOK, QueueInv, [Next]_vars PROVE QueueInv'
  OBVIOUS
<1> USE DEF TypeOK, QueueInv
<1>1. ASSUME NEW f \in Flows, Syn(f) PROVE QueueInv'
  BY <1>1 DEF Syn
<1>2. ASSUME NEW f \in Flows, Packet(f) \/ AppCloses(f) PROVE QueueInv'
  BY <1>2 DEF Packet, AppCloses
<1>3. ASSUME NEW f \in Flows, SynAck(f) \/ SynAckRefused(f) PROVE QueueInv'
  BY <1>3 DEF SynAck, SynAckRefused
<1>4. ASSUME NEW f \in Flows, Dispatch(f) PROVE QueueInv'
  BY <1>4 DEF Dispatch, Accept, AcceptUnknown
<1>5. ASSUME NEW f \in Flows, RelayEnds(f) \/ DeleteSession(f) PROVE QueueInv'
  BY <1>5 DEF RelayEnds, DeleteSession
<1>6. ASSUME NEW k \in Keys, Expire(k) PROVE QueueInv'
  BY <1>6 DEF Expire
<1>7. CASE ListenerEnds \/ LoopEnds
  BY <1>7 DEF ListenerEnds, LoopEnds
<1>8. CASE UNCHANGED vars
  BY <1>8 DEF vars
<1> QED
  BY <1>1, <1>2, <1>3, <1>4, <1>5, <1>6, <1>7, <1>8 DEF Next

\* A connection that waits to be accepted waits for a loop that runs on a listener that
\* is open, with an entry or without one: what Accept and AcceptUnknown need.
QueueIsServed ==
    \A f \in Flows : tcp[f] = "queued" => listener = "open" /\ loop = "running"

\* No connection is left in the accept queue of a loop that has ended, for any
\* connections and keys.
THEOREM QueueHasLoop == Spec => []QueueIsServed
<1>1. Init => QueueInv
  BY DEF Init, QueueInv
<1>2. QueueInv => QueueIsServed
  BY DEF QueueInv, QueueIsServed
<1> QED
  BY <1>1, <1>2, TypeCorrect, QueueStep, PTL DEF Spec

-------------------------------------------------------------------------------
(* ApiInstance: the socket.                                                   *)

\* A loop that parses has read a query.
ApiInv == ApiTypeOK /\ \A i \in Starts : loops[i] = "parse" => query[i] \in Queries

\* The reply adds one to what is counted of the query.
LEMMA ReplyCounts ==
    ASSUME answers \in [Queries -> Nat], NEW q \in Queries, Reply(q)
    PROVE  answers' \in [Queries -> Nat]
  BY DEF Reply

\* Every call and every step of the loop keeps each variable in its type.
LEMMA ApiInvStep == ApiInv /\ [ApiNext]_apiVars => ApiInv'
<1>. SUFFICES ASSUME ApiInv, [ApiNext]_apiVars PROVE ApiInv'
  OBVIOUS
<1>. USE ApiAssumption DEF ApiInv, ApiTypeOK, Starts, Goto, callVars, loopVars
<1>0. started' \in BOOLEAN
  BY DEF ApiNext, apiVars, Call, StartListens, StartFails, StartRuns, CloseClears, CloseSocket,
     Loop, LoopChecks, LoopReadsConn, LoopReceives, ReadFails, LoopAnswers, LoopNotifies,
     LoopRejects, LoopLogs, Arrive
<1>1. CASE UNCHANGED apiVars
  BY <1>0, <1>1 DEF apiVars
<1>2. CASE Call
  <2>1. CASE StartListens
    BY <1>0, <2>1 DEF StartListens
  <2>2. CASE StartFails
    BY <1>0, <2>2 DEF StartFails
  <2>5. CASE CloseClears
    BY <1>0, <2>5 DEF CloseClears
  <2>3. CASE StartRuns
    BY <1>0, <2>3 DEF StartRuns
  <2>4. CASE CloseSocket
    BY <1>0, <2>4 DEF CloseSocket
  <2>. QED
    BY <1>2, <2>1, <2>2, <2>3, <2>4, <2>5 DEF Call
<1>3. ASSUME NEW i \in Starts, Loop(i) PROVE ApiInv'
  <2>1. CASE LoopChecks(i)
    BY <1>0, <2>1 DEF LoopChecks
  <2>6. CASE LoopReadsConn(i)
    BY <1>0, <2>6 DEF LoopReadsConn
  <2>2. CASE LoopReceives(i)
    BY <1>0, <2>2 DEF LoopReceives
  <2>3. CASE LoopAnswers(i)
    <3>. answers' \in [Queries -> Nat]
      BY <2>3, ReplyCounts DEF LoopAnswers
    <3>. QED
      BY <1>0, <2>3 DEF LoopAnswers
  <2>4. CASE LoopNotifies(i)
    <3>. answers' \in [Queries -> Nat]
      BY <2>4, ReplyCounts DEF LoopNotifies
    <3>. QED
      BY <1>0, <2>4 DEF LoopNotifies
  <2>5. CASE ReadFails(i) \/ LoopRejects(i) \/ LoopLogs(i)
    BY <1>0, <2>5 DEF ReadFails, LoopRejects, LoopLogs
  <2>. QED
    BY <1>3, <2>1, <2>2, <2>3, <2>4, <2>5, <2>6 DEF Loop
<1>4. ASSUME NEW q \in Queries, Arrive(q) PROVE ApiInv'
  <2>. DEFINE s == CHOOSE s \in open : TRUE
  <2>1. s \in 0 .. MaxStarts
    <3>1. s \in open
      BY <1>4, Zenon DEF Arrive
    <3>. HIDE DEF s
    <3>. QED
      BY <3>1
  <2>2. inbox' = [inbox EXCEPT ![q] = s] /\ UNCHANGED <<callVars, loopVars, answers>>
    BY <1>4 DEF Arrive
  <2>. HIDE DEF s
  <2>. QED
    BY <1>0, <2>1, <2>2
<1>. QED
  BY <1>1, <1>2, <1>3, <1>4 DEF ApiNext

\* Between Start and Close exactly the socket in conn is open; a Start that fails,
\* which forgets conn, finds none open.
SocketInv ==
    /\ NoSocketLeak
    /\ access = "free" /\ ~started => open = {}
    /\ access \in {"start", "close"} => ~started

LEMMA SocketStep == ApiTypeOK /\ SocketInv /\ [ApiNext]_apiVars => SocketInv'
<1>. SUFFICES ASSUME ApiTypeOK, SocketInv, [ApiNext]_apiVars PROVE SocketInv'
  OBVIOUS
<1>. USE DEF SocketInv, NoSocketLeak, callVars
<1>1. CASE UNCHANGED callVars
  BY <1>1
<1>2. CASE StartListens
  BY <1>2 DEF StartListens
<1>3. CASE StartFails
  BY <1>3 DEF StartFails
<1>4. CASE StartRuns \/ CloseClears
  BY <1>4 DEF StartRuns, CloseClears
<1>5. CASE CloseSocket
  BY <1>5 DEF CloseSocket
<1>. QED
  BY <1>1, <1>2, <1>3, <1>4, <1>5 DEF ApiNext, apiVars, Call, Loop, LoopChecks,
     LoopReadsConn, LoopReceives, ReadFails, LoopAnswers, LoopNotifies, LoopRejects, LoopLogs, Arrive

\* Type correctness of the discovery responder.
THEOREM ApiTypeCorrect == ApiSpec => []ApiTypeOK
<1>1. ApiInit => ApiInv
  <2>1. ApiInit => started \in BOOLEAN
    BY DEF ApiInit
  <2>. QED
    BY <2>1, ApiAssumption DEF ApiInit, ApiInv, ApiTypeOK, Starts
<1>2. ApiInv => ApiTypeOK
  BY DEF ApiInv
<1>. QED
  BY <1>1, <1>2, ApiInvStep, PTL DEF ApiSpec

\* Whatever the order of Start, failing Start and Close, no socket is left on the port
\* that ApiInstance.conn does not hold.
THEOREM NoSocketIsLeaked == ApiSpec => []NoSocketLeak
<1>1. ApiInit => SocketInv
  BY DEF ApiInit, SocketInv, NoSocketLeak
<1>2. SocketInv => NoSocketLeak
  BY DEF SocketInv
<1>. QED
  BY <1>1, <1>2, ApiTypeCorrect, SocketStep, PTL DEF ApiSpec

\* What holds a loop in ReadFrom is the socket of the running instance only: a loop that
\* began to read before the last Start has a closed socket under it, and so has every
\* loop once Close has returned.
LoopsAreFreed ==
    \A i \in Starts :
        /\ reading[i] \in open => reading[i] = conn
        /\ access = "free" /\ ~started => reading[i] \notin open

\* The safety core of CloseEndsLoops: however often Start and Close are called, no loop
\* is left in a read that nothing ends.
THEOREM LoopsCanEnd == ApiSpec => []LoopsAreFreed
<1>1. ApiInit => SocketInv
  BY DEF ApiInit, SocketInv, NoSocketLeak
<1>2. SocketInv => LoopsAreFreed
  BY DEF SocketInv, NoSocketLeak, LoopsAreFreed
<1>. QED
  BY <1>1, <1>2, ApiTypeCorrect, SocketStep, PTL DEF ApiSpec

-------------------------------------------------------------------------------
(* Stun: what the tests conclude.                                             *)

\* The tests of the same phase before one.
Earlier(s) ==
    CASE s = "map2" -> {"map1"} [] s = "map3" -> {"map1", "map2"}
      [] s = "filter2" -> {"filter1"} [] s = "filter3" -> {"filter1", "filter2"}
      [] OTHER -> {}

\* The answers that can still reach a test of a phase.
UnderWay(h) == network[h] \cup ({held[h]} \ {Nothing})

\* An answer under way is one of the running test or of an earlier one of its phase,
\* and one that the NAT lets in.
AskedInv ==
    ~Done =>
        /\ step \in Steps =>
              \A r \in UnderWay(PhaseOf(step)) :
                 \E s \in Earlier(step) \cup {step} :
                    Passes(s) /\ r = Answer(s) /\ (s = step => waiting)
        /\ step = "connectMapping" => UnderWay("mapping") = {}
        /\ PhaseOf(step) = "mapping" \/ step \in {"connectMapping", "connectFiltering"} =>
              UnderWay("filtering") = {}

\* The goroutine of a socket holds an answer exactly while it offers it.
HeldInv == \A h \in Phases : held[h] # Nothing <=> listen[h] = "offering"

\* Only a test waits.
WaitInv == waiting => step \in Steps

\* While nothing comes twice, the answer that gave first its value is gone.
FirstInv ==
    "twice" \notin trouble =>
        /\ \A h \in Phases : held[h] \notin network[h]
        /\ ~Done /\ step \in {"map2", "map3"} => Answer("map1") \notin UnderWay("mapping")
        /\ ~Done /\ step = "map2" => first = Mapped(Remote)
        /\ ~Done /\ step = "map3" =>
              first = Mapped(Remote) \/ (first = Mapped(To("map2")) /\ Answer("map2") \notin UnderWay("mapping"))

\* While the network does nothing wrong, the only answer under way is that of the
\* running test, and a test is reached only by the NATs that the earlier ones leave.
QuietInv ==
    trouble = {} /\ ~Done =>
        /\ step \in Steps =>
              UnderWay(PhaseOf(step)) = IF waiting /\ Passes(step) THEN {Answer(step)} ELSE {}
        /\ step = "map3" => nat.mapping \in {AddressDependent, AddressAndPortDependent}
                            /\ first = Mapped(To("map2"))
        /\ step = "filter3" => nat.filtering # EndpointIndependent
        /\ PhaseOf(step) = "filtering" /\ step # "connectMapping" => result["mapping"] = Tellable

\* No result before its tests are over.
ResultInv ==
    /\ ResultRight
    /\ ~Done => result["filtering"] = NoResult
    /\ ~Done /\ (PhaseOf(step) = "mapping" \/ step = "connectMapping") => result["mapping"] = NoResult

StunInv == StunTypeOK /\ AskedInv /\ HeldInv /\ WaitInv /\ FirstInv /\ QuietInv /\ ResultInv

\* What a request seems to come from, by the kind of mapping.
LEMMA MappedFacts ==
    ASSUME nat \in [mapping : Mappings, filtering : Filterings]
    PROVE  /\ Mapped(Remote) # LocalAddr
           /\ nat.mapping \in {EndpointIndependentNoNAT, EndpointIndependent} =>
                 Mapped(To("map2")) = Mapped(Remote)
           /\ nat.mapping \in {AddressDependent, AddressAndPortDependent} =>
                 Mapped(To("map2")) # Mapped(Remote)
           /\ nat.mapping = AddressDependent => Mapped(To("map3")) = Mapped(To("map2"))
           /\ nat.mapping = AddressAndPortDependent =>
                 Mapped(To("map3")) # Mapped(To("map2")) /\ Mapped(To("map3")) # Mapped(Remote)
           /\ \A s \in Steps : Mapped(To(s)) \in MappedAddresses
<1>. USE DEF Mappings, EndpointIndependentNoNAT, EndpointIndependent, AddressDependent,
       AddressAndPortDependent, Remote, Other, To, LocalAddr
<1>0. /\ <<"public">> # <<"any">> /\ <<"A">> # <<"any">> /\ <<"local">> # <<"any">>
      /\ <<"A">> # <<"B">>
      /\ <<"A", "P">> # <<"any">> /\ <<"B", "P">> # <<"A", "P">>
      /\ <<"B", "Q">> # <<"B", "P">> /\ <<"B", "Q">> # <<"A", "P">>
  BY SMT
<1>1. \A to : Mapped(to) = IF nat.mapping = 1 THEN <<"local">> ELSE IF nat.mapping = 2
                 THEN <<"public">> ELSE IF nat.mapping = 3 THEN <<to[1]>> ELSE to
  BY DEF Mapped
<1>2. /\ Remote = <<"A", "P">> /\ To("map2") = <<"B", "P">> /\ To("map3") = <<"B", "Q">>
      /\ Remote[1] = "A" /\ To("map2")[1] = "B" /\ To("map3")[1] = "B"
  BY SMT
<1>3. nat.mapping \in 1 .. 4
  OBVIOUS
<1>4. \A s \in Steps : To(s) \in Addresses /\ <<To(s)[1]>> \in {<<"A">>, <<"B">>}
  BY DEF Steps, Addresses
<1>5. \A s \in Steps : Mapped(To(s)) \in MappedAddresses
  BY <1>1, <1>4 DEF MappedAddresses
<1>6. CASE nat.mapping = 1
  BY <1>0, <1>1, <1>2, <1>5, <1>6
<1>7. CASE nat.mapping = 2
  BY <1>0, <1>1, <1>2, <1>5, <1>7
<1>8. CASE nat.mapping = 3
  BY <1>0, <1>1, <1>2, <1>5, <1>8
<1>9. CASE nat.mapping = 4
  BY <1>0, <1>1, <1>2, <1>5, <1>9
<1>. QED
  BY <1>3, <1>6, <1>7, <1>8, <1>9

\* The mapping that can be told.
LEMMA TellableFacts ==
    ASSUME nat \in [mapping : Mappings, filtering : Filterings]
    PROVE  /\ Tellable \in 2..4
           /\ nat.mapping \in {1, 2} => Tellable = 2
           /\ nat.mapping \in {3, 4} => Tellable = nat.mapping
  BY DEF Tellable, Mappings, EndpointIndependentNoNAT, EndpointIndependent,
     AddressAndPortDependent

\* The answers of the tests, and which of them the filter lets in.
LEMMA AnswerFacts ==
    ASSUME nat \in [mapping : Mappings, filtering : Filterings]
    PROVE  /\ \A s \in Steps : /\ Answer(s).addr = From(s) /\ Answer(s).origin = From(s)
                               /\ Answer(s).mapped = Mapped(To(s))
                               /\ Answer(s) # Nothing
           /\ From("map1") = Remote /\ From("filter1") = Remote
           /\ From("filter2") # Remote /\ From("filter3") # Remote
           /\ From("map1") # From("map2") /\ From("map1") # From("map3")
           /\ From("map2") # From("map3") /\ From("filter2") # From("filter3")
           /\ From("map2") = To("map2")
           /\ Passes("map1") /\ Passes("map2") /\ Passes("map3") /\ Passes("filter1")
           /\ Passes("filter2") <=> nat.filtering = EndpointIndependent
           /\ Passes("filter3") <=> nat.filtering \in {EndpointIndependent, AddressDependent}
<1>. USE DEF Filterings, EndpointIndependent, AddressDependent, AddressAndPortDependent
<1>1. /\ From("map1") = <<"A", "P">> /\ From("map2") = <<"B", "P">> /\ From("map3") = <<"B", "Q">>
      /\ From("filter1") = <<"A", "P">> /\ From("filter2") = <<"B", "Q">>
      /\ From("filter3") = <<"A", "Q">> /\ Remote = <<"A", "P">>
  BY DEF From, To, Remote, Other
<1>2. /\ To("map1") = <<"A", "P">> /\ To("map2") = <<"B", "P">> /\ To("map3") = <<"B", "Q">>
      /\ To("filter1") = <<"A", "P">> /\ To("filter2") = <<"A", "P">> /\ To("filter3") = <<"A", "P">>
  BY DEF To, Remote, Other
<1>3. /\ Passes("map1") /\ Passes("map2") /\ Passes("map3") /\ Passes("filter1")
  BY <1>1, <1>2 DEF Passes
<1>4. /\ Passes("filter2") <=> nat.filtering = EndpointIndependent
      /\ Passes("filter3") <=> nat.filtering \in {EndpointIndependent, AddressDependent}
  BY <1>1, <1>2 DEF Passes
<1>5. ASSUME NEW s \in Steps
      PROVE  /\ Answer(s).addr = From(s) /\ Answer(s).origin = From(s)
             /\ Answer(s).mapped = Mapped(To(s))
             /\ Answer(s) # Nothing
  <2>1. From(s) \in Addresses
    BY <1>1 DEF Steps, Addresses
  <2>2. Answer(s) \in [addr : Addresses, origin : Addresses, mapped : MappedAddresses]
    BY <2>1, MappedFacts DEF Answer
  <2>. QED
    BY <2>2, StunAssumption DEF Answer
<1>. QED
  BY <1>1, <1>2, <1>3, <1>4, <1>5

\* How a test ends.
LEMMA ReportsDo ==
    ASSUME NEW v, step \in Steps, Reports(v)
    PROVE  /\ waiting' = FALSE /\ first' = first
           /\ result' = [result EXCEPT ![PhaseOf(step)] = v]
           /\ socket' = [socket EXCEPT ![PhaseOf(step)] = "closed"]
           /\ IF PhaseOf(step) = "mapping" THEN step' = "connectFiltering" /\ outcome' = Nothing
                                           ELSE step' = step /\ outcome' = "ok"
  BY DEF Reports, Returns, PhaseOf, Steps

LEMMA FailsDo ==
    ASSUME step \in Steps, Fails
    PROVE  /\ waiting' = FALSE /\ first' = first /\ step' = step /\ outcome' = "error"
           /\ result' = [result EXCEPT ![PhaseOf(step)] = NoResult]
           /\ socket' = [socket EXCEPT ![PhaseOf(step)] = "closed"]
  BY DEF Fails, Returns

\* What a running test does next, with an answer or without one: the only ways the
\* variables of Test change after its request.
TestEnds(v) == Fails \/ Panics \/ Reports(v)
TestGoes == \E s \in {"map2", "map3", "filter2", "filter3"}, x \in MappedAddresses \cup {Nothing} :
           NextTest(s, x)

\* A test that has its answer or its timeout keeps what it leaves in its type.
LEMMA TestTypes ==
    ASSUME StunTypeOK, step \in Steps, TestGoes \/ \E v \in Mappings : TestEnds(v)
    PROVE  /\ step' \in Steps \cup {"connectMapping", "connectFiltering"}
           /\ waiting' \in BOOLEAN
           /\ first' \in MappedAddresses \cup {Nothing}
           /\ result' \in [Phases -> {NoResult} \cup Mappings]
           /\ outcome' \in {Nothing, "ok", "error", "panic"}
           /\ socket' \in [Phases -> {"none", "open", "closed"}]
<1>1. CASE TestGoes
  BY <1>1 DEF TestGoes, NextTest, StunTypeOK, Steps
<1>2. ASSUME NEW v \in Mappings, Reports(v)
      PROVE  /\ step' \in Steps \cup {"connectMapping", "connectFiltering"}
             /\ waiting' \in BOOLEAN
             /\ first' \in MappedAddresses \cup {Nothing}
             /\ result' \in [Phases -> {NoResult} \cup Mappings]
             /\ outcome' \in {Nothing, "ok", "error", "panic"}
             /\ socket' \in [Phases -> {"none", "open", "closed"}]
  <2>1. PhaseOf(step) \in Phases
    BY DEF PhaseOf, Phases
  <2>2. /\ result' \in [Phases -> {NoResult} \cup Mappings]
        /\ socket' \in [Phases -> {"none", "open", "closed"}]
    <3>1. /\ result \in [Phases -> {NoResult} \cup Mappings]
          /\ socket \in [Phases -> {"none", "open", "closed"}]
      BY DEF StunTypeOK
    <3>2. /\ result' = [result EXCEPT ![PhaseOf(step)] = v]
          /\ socket' = [socket EXCEPT ![PhaseOf(step)] = "closed"]
      BY <1>2, ReportsDo
    <3>. QED
      BY <1>2, <2>1, <3>1, <3>2
  <2>3. waiting' \in BOOLEAN /\ first' \in MappedAddresses \cup {Nothing}
    BY <1>2, ReportsDo DEF StunTypeOK
  <2>4. /\ step' \in Steps \cup {"connectMapping", "connectFiltering"}
        /\ outcome' \in {Nothing, "ok", "error", "panic"}
    BY <1>2, ReportsDo
  <2>. QED
    BY <2>2, <2>3, <2>4
<1>3. CASE Fails
  BY <1>3, FailsDo DEF StunTypeOK
<1>4. CASE Panics
  BY <1>4 DEF Panics, StunTypeOK
<1>. QED
  BY <1>1, <1>2, <1>3, <1>4 DEF TestEnds

\* An answer that a test takes is one of the answers, whatever it is mixed from.
LEMMA TakenAnswer ==
    ASSUME StunTypeOK, HeldInv, NEW h \in Phases, listen[h] = "offering",
           NEW m \in network[h] \cup {held[h]}
    PROVE  m \in Answers /\ m \in UnderWay(h) /\ m.mapped \in MappedAddresses
<1>1. m \in Answers /\ m \in UnderWay(h)
  BY DEF StunTypeOK, HeldInv, UnderWay
<1>. QED
  BY <1>1, AnswerFacts, MappedFacts DEF Answers, StunTypeOK

\* Each way a test can conclude from an answer.
LEMMA ConcludesWays ==
    ASSUME step \in Steps, NEW r, Concludes(r)
    PROVE  /\ step \in {"map1", "filter1"} /\ server = "plain" => Fails
           /\ step = "map1" /\ server # "plain" =>
                 IF r.mapped = LocalAddr THEN Reports(1) ELSE NextTest("map2", r.mapped)
           /\ step = "map2" =>
                 \/ Panics
                 \/ r.origin # To("map2") /\ Reports(4)
                 \/ r.origin = To("map2") /\ r.mapped = first /\ Reports(2)
                 \/ r.origin = To("map2") /\ r.mapped # first /\ NextTest("map3", r.mapped)
           /\ step = "map3" => IF r.mapped = first THEN Reports(3) ELSE Reports(4)
           /\ step = "filter1" /\ server # "plain" => NextTest("filter2", first)
           /\ step = "filter2" => IF r.addr # Remote THEN Reports(2) ELSE NextTest("filter3", first)
           /\ step = "filter3" => IF r.addr # Remote THEN Reports(3) ELSE Reports(4)
<1>. USE DEF EndpointIndependentNoNAT, EndpointIndependent, AddressDependent,
       AddressAndPortDependent
<1>1. CASE step = "map1"
  BY <1>1, Zenon DEF Concludes
<1>2. CASE step = "map2"
  BY <1>2, Zenon DEF Concludes
<1>3. CASE step = "map3"
  BY <1>3, Zenon DEF Concludes
<1>4. CASE step = "filter1"
  BY <1>4, Zenon DEF Concludes
<1>5. CASE step = "filter2"
  BY <1>5, Zenon DEF Concludes
<1>6. CASE step = "filter3"
  BY <1>6, Zenon DEF Concludes
<1>. QED
  BY <1>1, <1>2, <1>3, <1>4, <1>5, <1>6 DEF Steps

LEMMA ConcludesEnds ==
    ASSUME StunTypeOK, step \in Steps, NEW r, r.mapped \in MappedAddresses, Concludes(r)
    PROVE  TestGoes \/ \E v \in Mappings : TestEnds(v)
<1>1. 1 \in Mappings /\ 2 \in Mappings /\ 3 \in Mappings /\ 4 \in Mappings
  BY DEF Mappings, EndpointIndependentNoNAT, AddressAndPortDependent
<1>2. first \in MappedAddresses \cup {Nothing}
  BY DEF StunTypeOK
<1>3. CASE step = "map1"
  BY <1>1, <1>3, ConcludesWays DEF TestGoes, TestEnds
<1>4. CASE step = "map2"
  BY <1>1, <1>4, ConcludesWays DEF TestGoes, TestEnds
<1>5. CASE step = "map3"
  BY <1>1, <1>5, ConcludesWays DEF TestEnds
<1>6. CASE step = "filter1"
  BY <1>1, <1>2, <1>6, ConcludesWays DEF TestGoes, TestEnds
<1>7. CASE step = "filter2"
  BY <1>1, <1>2, <1>7, ConcludesWays DEF TestGoes, TestEnds
<1>8. CASE step = "filter3"
  BY <1>1, <1>8, ConcludesWays DEF TestEnds
<1>. QED
  BY <1>3, <1>4, <1>5, <1>6, <1>7, <1>8 DEF Steps

\* Each way it can conclude from a timeout.
LEMMA SilenceWays ==
    ASSUME step \in Steps, ConcludesFromSilence
    PROVE  /\ step \in {"map1", "filter1"} => Fails
           /\ step = "map2" => NextTest("map3", first)
           /\ step = "filter2" => NextTest("filter3", first)
           /\ step \in {"map3", "filter3"} => Reports(4)
<1>1. CASE step \in {"map1", "filter1"}
  BY <1>1, Zenon DEF ConcludesFromSilence
<1>2. CASE step = "map2"
  BY <1>2, Zenon DEF ConcludesFromSilence
<1>3. CASE step = "filter2"
  BY <1>3, Zenon DEF ConcludesFromSilence
<1>4. CASE step \in {"map3", "filter3"}
  BY <1>4, Zenon DEF ConcludesFromSilence, AddressAndPortDependent
<1>. QED
  BY <1>1, <1>2, <1>3, <1>4 DEF Steps

LEMMA SilenceEnds ==
    ASSUME StunTypeOK, step \in Steps, ConcludesFromSilence
    PROVE  TestGoes \/ \E v \in Mappings : TestEnds(v)
<1>1. 4 \in Mappings
  BY DEF Mappings, EndpointIndependentNoNAT, AddressAndPortDependent
<1>2. first \in MappedAddresses \cup {Nothing}
  BY DEF StunTypeOK
<1>. QED
  BY <1>1, <1>2, SilenceWays DEF TestGoes, TestEnds, Steps

\* What the steps that take, drop or receive answers leave of those under way.
NetworkKeeps ==
    /\ nat' = nat /\ trouble \subseteq trouble'
    /\ \A h \in Phases : UnderWay(h)' \subseteq UnderWay(h)
    /\ "twice" \notin trouble' => \A h \in Phases : held'[h] \notin network'[h]

\* The steps of Test after a request.
LEMMA TestSteps ==
    ASSUME StunTypeOK, HeldInv, WaitInv, SendFails \/ Take \/ Timeout \/ ChannelClosed
    PROVE  step \in Steps /\ (TestGoes \/ \E v \in Mappings : TestEnds(v))
<1>1. CASE SendFails
  BY <1>1 DEF SendFails, TestEnds, Mappings, EndpointIndependentNoNAT, AddressAndPortDependent
<1>2. CASE Take
  <2>1. step \in Steps
    BY <1>2 DEF Take, WaitInv
  <2>2. PICK m, o \in network[PhaseOf(step)] \cup {held[PhaseOf(step)]} :
           Concludes([addr |-> held[PhaseOf(step)].addr, origin |-> o.origin, mapped |-> m.mapped])
    BY <1>2 DEF Take
  <2>3. m.mapped \in MappedAddresses
    BY <1>2, <2>1, TakenAnswer DEF Take, PhaseOf, Phases
  <2>. QED
    BY <2>1, <2>2, <2>3, ConcludesEnds
<1>3. CASE Timeout
  BY <1>3, SilenceEnds DEF Timeout, WaitInv
<1>4. CASE ChannelClosed
  BY <1>4 DEF ChannelClosed, WaitInv, TestEnds, Mappings, EndpointIndependentNoNAT,
         AddressAndPortDependent
<1>. QED
  BY <1>1, <1>2, <1>3, <1>4

LEMMA AnswersStay ==
    ASSUME nat' = nat
    PROVE  /\ \A s \in Steps : Answer(s)' = Answer(s) /\ (Passes(s)' <=> Passes(s))
           /\ \A to : Mapped(to)' = Mapped(to)
           /\ Tellable' = Tellable
           /\ Answers' = Answers
<1>1. \A s \in Steps : Answer(s)' = Answer(s) /\ (Passes(s)' <=> Passes(s))
  BY DEF Answer, Mapped, Passes
<1>. QED
  BY <1>1 DEF Answers, Mapped, Tellable

LEMMA StunTypeStep ==
    ASSUME StunTypeOK, HeldInv, WaitInv, StunNext \/ UNCHANGED stunVars
    PROVE  StunTypeOK'
<1>1. CASE ConnectOk \/ ConnectFails
  <2>1. PICK h \in Phases :
           /\ step' \in {step, "map1", "filter1"}
           /\ socket' = [socket EXCEPT ![h] = "open"] \/ socket' = socket
           /\ listen' = [listen EXCEPT ![h] = "reading"] \/ listen' = listen
           /\ outcome' \in {outcome, "error"}
           /\ UNCHANGED <<nat, server, waiting, first, result, held, network, trouble>>
    BY <1>1 DEF ConnectOk, ConnectFails, Phases
  <2>2. /\ socket' \in [Phases -> {"none", "open", "closed"}]
        /\ listen' \in [Phases -> {"none", "reading", "offering", "ended"}]
    BY <2>1 DEF StunTypeOK
  <2>3. waiting' \in BOOLEAN
    BY <2>1 DEF StunTypeOK
  <2>4. Answers' = Answers
    BY <2>1, AnswersStay
  <2>. QED
    BY <2>1, <2>2, <2>3, <2>4 DEF StunTypeOK, Steps
<1>2. CASE SendFails \/ Take \/ Timeout \/ ChannelClosed
  <2>1. /\ nat' = nat /\ server' = server /\ network' = network
        /\ trouble' \in {trouble, trouble \cup {"late"}}
        /\ \/ listen' = listen /\ held' = held
           \/ \E h \in Phases : /\ listen' = [listen EXCEPT ![h] = "reading"]
                               /\ held' = [held EXCEPT ![h] = Nothing]
    BY <1>2 DEF SendFails, Take, Timeout, ChannelClosed, PhaseOf, Phases
  <2>2. Answers' = Answers
    BY <2>1, AnswersStay
  <2>3. /\ listen' \in [Phases -> {"none", "reading", "offering", "ended"}]
        /\ held' \in [Phases -> Answers \cup {Nothing}]
    BY <2>1 DEF StunTypeOK
  <2>4. waiting' \in BOOLEAN
    BY <1>2, TestSteps, TestTypes
  <2>5. /\ step' \in Steps \cup {"connectMapping", "connectFiltering"}
        /\ first' \in MappedAddresses \cup {Nothing}
        /\ result' \in [Phases -> {NoResult} \cup Mappings]
        /\ outcome' \in {Nothing, "ok", "error", "panic"}
        /\ socket' \in [Phases -> {"none", "open", "closed"}]
    BY <1>2, TestSteps, TestTypes
  <2>6. network' \in [Phases -> SUBSET Answers] /\ trouble' \subseteq {"lost", "late", "twice"}
    BY <2>1 DEF StunTypeOK
  <2>7. nat' \in [mapping : Mappings, filtering : Filterings] /\ server' \in {"full", "plain", "bare"}
    BY <2>1 DEF StunTypeOK
  <2>. QED
    BY <2>2, <2>3, <2>4, <2>5, <2>6, <2>7 DEF StunTypeOK
<1>3. CASE Send \/ \E h \in Phases : Receive(h) \/ ListenFails(h) \/ Lose(h)
  <2>1. /\ UNCHANGED <<nat, server, step, first, result, outcome, socket>>
        /\ waiting' \in {waiting, TRUE}
    BY <1>3 DEF Send, Receive, ListenFails, Lose
  <2>2. Answers' = Answers
    BY <2>1, AnswersStay
  <2>3. listen' \in [Phases -> {"none", "reading", "offering", "ended"}]
    BY <1>3 DEF Send, Receive, ListenFails, Lose, StunTypeOK
  <2>4. network' \in [Phases -> SUBSET Answers]
    BY <1>3 DEF Send, Receive, ListenFails, Lose, StunTypeOK, Answers
  <2>5. held' \in [Phases -> Answers \cup {Nothing}]
    BY <1>3 DEF Send, Receive, ListenFails, Lose, StunTypeOK
  <2>6. trouble' \subseteq {"lost", "late", "twice"}
    BY <1>3 DEF Send, Receive, ListenFails, Lose, StunTypeOK
  <2>7. waiting' \in BOOLEAN
    BY <2>1 DEF StunTypeOK
  <2>. QED
    BY <2>1, <2>2, <2>3, <2>4, <2>5, <2>6, <2>7 DEF StunTypeOK
<1>4. CASE UNCHANGED stunVars
  <2>1. nat' = nat /\ Answers' = Answers
    BY <1>4, AnswersStay DEF stunVars
  <2>. QED
    BY <1>4, <2>1 DEF stunVars, StunTypeOK
<1>. QED
  BY <1>1, <1>2, <1>3, <1>4 DEF StunNext

\* The goroutine of a socket holds an answer exactly while it offers it, and only a
\* test waits: both are kept.
LEMMA ChannelStep ==
    ASSUME StunTypeOK, AskedInv, HeldInv, WaitInv, StunNext \/ UNCHANGED stunVars
    PROVE  HeldInv' /\ WaitInv'
<1>. Nothing \notin Answers
  BY AnswerFacts DEF Answers, StunTypeOK
<1>1. HeldInv'
  <2>1. CASE ConnectOk
    <3>1. PICK h \in Phases :
             /\ step = IF h = "mapping" THEN "connectMapping" ELSE "connectFiltering"
             /\ listen' = [listen EXCEPT ![h] = "reading"]
      BY <2>1 DEF ConnectOk
    <3>2. UnderWay(h) = {}
      BY <2>1, <3>1 DEF ConnectOk, AskedInv, Phases
    <3>3. held[h] = Nothing /\ held' = held
      BY <2>1, <3>2 DEF ConnectOk, UnderWay
    <3>. QED
      BY <3>1, <3>3 DEF HeldInv, StunTypeOK
  <2>2. CASE Take
    BY <2>2 DEF Take, HeldInv, StunTypeOK, PhaseOf, Phases
  <2>3. ASSUME NEW h \in Phases, Receive(h)
        PROVE  HeldInv'
    BY <2>3 DEF Receive, HeldInv, StunTypeOK
  <2>4. ASSUME NEW h \in Phases, ListenFails(h)
        PROVE  HeldInv'
    BY <2>4 DEF ListenFails, HeldInv, StunTypeOK
  <2>5. CASE listen' = listen /\ held' = held
    BY <2>5 DEF HeldInv
  <2>. QED
    BY <2>1, <2>2, <2>3, <2>4, <2>5 DEF StunNext, stunVars, ConnectFails, Send, SendFails,
       Timeout, ChannelClosed, Lose
<1>2. WaitInv'
  <2>1. CASE SendFails \/ Take \/ Timeout \/ ChannelClosed
    <3>1. step \in Steps /\ (TestGoes \/ \E v \in Mappings : TestEnds(v))
      BY <2>1, TestSteps
    <3>2. CASE TestGoes
      BY <3>2 DEF TestGoes, NextTest, WaitInv
    <3>3. CASE \E v \in Mappings : TestEnds(v)
      BY <3>1, <3>3, ReportsDo, FailsDo DEF TestEnds, Panics, WaitInv
    <3>. QED
      BY <3>1, <3>2, <3>3
  <2>2. CASE ConnectOk \/ ConnectFails
    BY <2>2 DEF ConnectOk, ConnectFails, WaitInv, Steps, Phases
  <2>3. CASE Send
    BY <2>3 DEF Send, WaitInv
  <2>4. CASE step' = step /\ waiting' = waiting
    BY <2>4 DEF WaitInv
  <2>. QED
    BY <2>1, <2>2, <2>3, <2>4 DEF StunNext, stunVars, Receive, ListenFails, Lose
<1>. QED
  BY <1>1, <1>2

\* A result that a test may report.
Right(v) ==
    IF PhaseOf(step) = "mapping"
    THEN ("twice" \notin trouble' => v >= Tellable) /\ (trouble' = {} => v = Tellable)
    ELSE v >= nat.filtering /\ (trouble' = {} => v = nat.filtering)

\* A test that ends, well or not, leaves the rest of the invariant in place.
LEMMA EndStep ==
    ASSUME StunTypeOK, StunTypeOK', AskedInv, FirstInv, QuietInv, ResultInv,
           ~Done, step \in Steps, NetworkKeeps,
           Fails \/ Panics \/ \E v \in 2..4 : Reports(v) /\ Right(v)
    PROVE  AskedInv' /\ FirstInv' /\ QuietInv' /\ ResultInv'
<1>. DEFINE h == PhaseOf(step)
<1>. USE DEF EndpointIndependentNoNAT
<1>0. /\ nat.mapping \in 1..4 /\ nat.filtering \in 2..4 /\ nat' = nat
      /\ Tellable \in 2..4 /\ Tellable' = Tellable
      /\ trouble' = {} => trouble = {}
      /\ "twice" \notin trouble' => "twice" \notin trouble
      /\ NoResult = 0 /\ h \in Phases /\ h = (IF step \in {"map1", "map2", "map3"} THEN "mapping" ELSE "filtering")
      /\ result \in [Phases -> 0..4]
  BY DEF StunTypeOK, NetworkKeeps, Mappings, Filterings, EndpointIndependentNoNAT,
     EndpointIndependent, AddressAndPortDependent, NoResult, PhaseOf, Phases,
     Tellable
<1>1. CASE Fails \/ Panics
  <2>1. Done'
    BY <1>1, FailsDo, StunAssumption DEF Panics, Done
  <2>2. AskedInv' /\ FirstInv' /\ QuietInv'
    BY <2>1 DEF AskedInv, FirstInv, QuietInv, NetworkKeeps
  <2>3. /\ outcome' # "ok"
        /\ result' = result \/ result' = [result EXCEPT ![h] = NoResult]
    BY <1>1, FailsDo DEF Panics
  <2>4. result'["mapping"] \in {result["mapping"], 0} /\ result'["filtering"] \in {result["filtering"], 0}
    BY <1>0, <2>3 DEF Phases
  <2>. QED
    BY <1>0, <2>1, <2>2, <2>3, <2>4 DEF ResultInv, ResultRight
<1>2. ASSUME NEW v \in 2..4, Reports(v), Right(v), h = "mapping"
      PROVE  AskedInv' /\ FirstInv' /\ QuietInv' /\ ResultInv'
  <2>1. /\ step' = "connectFiltering" /\ outcome' = Nothing
        /\ result' = [result EXCEPT !["mapping"] = v]
    BY <1>2, ReportsDo
  <2>2. /\ result'["mapping"] = v /\ result'["filtering"] = 0
    BY <1>0, <1>2, <2>1 DEF ResultInv, Phases
  <2>3. UnderWay("filtering")' = {}
    BY <1>2 DEF AskedInv, NetworkKeeps, Phases
  <2>4. AskedInv'
    BY <2>1, <2>3 DEF AskedInv, Steps, PhaseOf
  <2>5. FirstInv'
    BY <2>1 DEF FirstInv, NetworkKeeps
  <2>6. QuietInv'
    BY <1>0, <1>2, <2>1, <2>2 DEF QuietInv, Steps, Right
  <2>7. outcome' # "ok"
    BY <2>1, StunAssumption
  <2>8. ResultRight'
    BY <1>0, <1>2, <2>2, <2>7 DEF ResultRight, Right
  <2>. QED
    BY <1>0, <2>1, <2>2, <2>4, <2>5, <2>6, <2>8 DEF ResultInv, PhaseOf
<1>3. ASSUME NEW v \in 2..4, Reports(v), Right(v), h # "mapping"
      PROVE  AskedInv' /\ FirstInv' /\ QuietInv' /\ ResultInv'
  <2>1. /\ step' = step /\ outcome' = "ok" /\ h = "filtering"
        /\ result' = [result EXCEPT !["filtering"] = v]
    BY <1>0, <1>3, ReportsDo
  <2>2. result'["mapping"] = result["mapping"] /\ result'["filtering"] = v
    BY <1>0, <2>1 DEF Phases
  <2>3. Done'
    BY <2>1, StunAssumption DEF Done
  <2>4. AskedInv' /\ FirstInv' /\ QuietInv'
    BY <2>3 DEF AskedInv, FirstInv, QuietInv, NetworkKeeps
  <2>5. trouble' = {} => result["mapping"] = Tellable
    BY <1>0, <2>1 DEF QuietInv, Steps
  <2>6. ResultRight'
    BY <1>0, <1>3, <2>1, <2>2, <2>5 DEF ResultRight, ResultInv, Right
  <2>. QED
    BY <2>3, <2>4, <2>6 DEF ResultInv
<1>. QED
  BY <1>1, <1>2, <1>3

\* What the invariant asks of the test that comes next.
Follows(s, x) ==
    /\ s \in {"map2", "map3", "filter2", "filter3"}
    /\ step \in {"map1", "map2", "filter1", "filter2"}
    /\ step = "map1" <=> s = "map2"
    /\ step = "map2" <=> s = "map3"
    /\ step = "filter1" <=> s = "filter2"
    /\ trouble' = {} =>
          /\ UnderWay(PhaseOf(s))' = {}
          /\ s = "map3" => nat.mapping \in {3, 4} /\ x = Mapped(To("map2"))
          /\ s = "filter3" => nat.filtering # 2
    /\ "twice" \notin trouble' =>
          /\ s = "map2" => x = Mapped(Remote) /\ Answer("map1") \notin UnderWay("mapping")'
          /\ s = "map3" =>
                \/ x = Mapped(Remote)
                \/ x = Mapped(To("map2")) /\ Answer("map2") \notin UnderWay("mapping")'

\* A test that another one follows.
LEMMA FollowStep ==
    ASSUME StunTypeOK, AskedInv, FirstInv, QuietInv, ResultInv, ~Done, NetworkKeeps,
           NEW s, NEW x, Follows(s, x), NextTest(s, x)
    PROVE  AskedInv' /\ FirstInv' /\ QuietInv' /\ ResultInv'
<1>1. /\ step' = s /\ waiting' = FALSE /\ first' = x /\ result' = result /\ outcome' = outcome
  BY DEF NextTest
<1>2. /\ nat' = nat
      /\ trouble' = {} => trouble = {}
      /\ "twice" \notin trouble' => "twice" \notin trouble
  BY DEF NetworkKeeps
<1>3. /\ step \in Steps /\ s \in Steps /\ PhaseOf(s) = PhaseOf(step) /\ PhaseOf(s) \in Phases
      /\ Earlier(step) \cup {step} \subseteq Earlier(s)
      /\ Earlier(s) \subseteq Steps
      /\ s = "map3" => step = "map2"
  BY DEF Follows, Steps, PhaseOf, Earlier, Phases
<1>4. /\ \A t \in Steps : Answer(t)' = Answer(t) /\ (Passes(t)' <=> Passes(t))
      /\ \A to : Mapped(to)' = Mapped(to)
  BY <1>2, AnswersStay
<1>5. AskedInv'
  <2>1. \A r \in UnderWay(PhaseOf(s))' : \E t \in Earlier(s) : Passes(t)' /\ r = Answer(t)'
    BY <1>3, <1>4 DEF AskedInv, NetworkKeeps
  <2>2. PhaseOf(s) = "mapping" => UnderWay("filtering")' = {}
    BY <1>3 DEF AskedInv, NetworkKeeps, Phases
  <2>3. s \notin {"connectMapping", "connectFiltering"} /\ s \notin Earlier(s)
    BY DEF Follows, Earlier
  <2>. QED
    BY <1>1, <1>3, <2>1, <2>2, <2>3 DEF AskedInv, Earlier
<1>6. FirstInv'
  <2>1. /\ Answer("map1")' = Answer("map1") /\ Answer("map2")' = Answer("map2")
        /\ Mapped(Remote)' = Mapped(Remote) /\ Mapped(To("map2"))' = Mapped(To("map2"))
    BY <1>4 DEF Steps, To, Other, Remote
  <2>2. /\ UnderWay("mapping")' \subseteq UnderWay("mapping")
        /\ "twice" \notin trouble' => \A h \in Phases : held'[h] \notin network'[h]
    BY DEF NetworkKeeps, Phases
  <2>. QED
    BY <1>1, <1>2, <1>3, <2>1, <2>2 DEF FirstInv, Follows
<1>7. QuietInv'
  <2>1. PhaseOf(s) = PhaseOf(step) /\ s # "connectMapping" /\ step # "connectMapping"
    BY <1>3 DEF Follows
  <2>2. Mapped(To("map2"))' = Mapped(To("map2"))
    BY <1>4 DEF To
  <2>. QED
    BY <1>1, <1>2, <1>3, <2>1, <2>2 DEF QuietInv, Tellable, Follows, AddressDependent,
       AddressAndPortDependent, EndpointIndependent, EndpointIndependentNoNAT
<1>8. ResultInv'
  BY <1>1, <1>2, <1>3 DEF ResultInv, ResultRight, Tellable, Done, Follows
<1>. QED
  BY <1>5, <1>6, <1>7, <1>8

\* An answer that is taken is no longer under way, unless the network brought it twice.
LEMMA TakeKeeps ==
    ASSUME StunTypeOK, HeldInv, WaitInv, FirstInv, Take,
           NEW h \in Phases, h = PhaseOf(step)
    PROVE  /\ NetworkKeeps /\ step \in Steps /\ trouble' = trouble
           /\ "twice" \notin trouble => UnderWay(h)' \subseteq UnderWay(h) \ {held[h]}
           /\ held[h] \in UnderWay(h)
           /\ \E m, o \in UnderWay(h) :
                 Concludes([addr |-> held[h].addr, origin |-> o.origin, mapped |-> m.mapped])
<1>1. /\ step \in Steps
      /\ UNCHANGED <<nat, network, trouble>>
      /\ listen[h] = "offering" /\ held' = [held EXCEPT ![h] = Nothing]
  BY DEF Take, WaitInv
<1>2. held'[h] = Nothing /\ \A k \in Phases \ {h} : held'[k] = held[k]
  BY <1>1 DEF StunTypeOK
<1>3. held[h] # Nothing /\ held[h] \in UnderWay(h)
  BY <1>1 DEF HeldInv, UnderWay
<1>4. UnderWay(h)' \subseteq network[h]
  BY <1>1, <1>2 DEF UnderWay
<1>5. \A k \in Phases : UnderWay(k)' \subseteq UnderWay(k)
  BY <1>1, <1>2 DEF UnderWay
<1>6. "twice" \notin trouble => \A k \in Phases : held[k] \notin network[k]
  BY DEF FirstInv
<1>7. Nothing \notin network[h]
  BY AnswerFacts DEF StunTypeOK, Answers
<1>8. "twice" \notin trouble' => \A k \in Phases : held'[k] \notin network'[k]
  BY <1>1, <1>2, <1>6, <1>7
<1>9. "twice" \notin trouble => UnderWay(h)' \subseteq UnderWay(h) \ {held[h]}
  BY <1>4, <1>5, <1>6
<1>10. \E m, o \in UnderWay(h) :
          Concludes([addr |-> held[h].addr, origin |-> o.origin, mapped |-> m.mapped])
  <2>1. network[h] \cup {held[h]} \subseteq UnderWay(h)
    BY <1>3 DEF UnderWay
  <2>2. PICK m, o \in network[h] \cup {held[h]} :
          Concludes([addr |-> held[h].addr, origin |-> o.origin, mapped |-> m.mapped])
    BY DEF Take
  <2>. QED
    BY <2>1, <2>2
<1>. QED
  BY <1>1, <1>3, <1>5, <1>8, <1>9, <1>10 DEF NetworkKeeps

\* What is known of an answer that a test takes.
LEMMA TakenFacts ==
    ASSUME StunTypeOK, AskedInv, ~Done, step \in Steps,
           NEW r \in UnderWay(PhaseOf(step))
    PROVE  \E s \in Earlier(step) \cup {step} :
              /\ Passes(s) /\ r = Answer(s)
              /\ r.addr = From(s) /\ r.origin = From(s) /\ r.mapped = Mapped(To(s))
  BY AnswerFacts DEF AskedInv, StunTypeOK, Earlier, Steps

\* A test concludes what it may, or goes on to the next.
Proper ==
    \/ Fails \/ Panics
    \/ \E v \in 2..4 : Reports(v) /\ Right(v)
    \/ \E s, x : Follows(s, x) /\ NextTest(s, x)

\* An answer that is taken leads to a proper conclusion, test by test.
LEMMA TakeIsProper ==
    ASSUME StunTypeOK, AskedInv, HeldInv, WaitInv, FirstInv, QuietInv, Take
    PROVE  Proper
<1>. DEFINE M == UnderWay("mapping")
            F == UnderWay("filtering")
<1>0. /\ nat \in [mapping : Mappings, filtering : Filterings]
      /\ nat.mapping \in 1..4 /\ nat.filtering \in 2..4 /\ nat.filtering <= 4 /\ nat.mapping <= 4
      /\ ~Done /\ waiting
  BY DEF StunTypeOK, Mappings, Filterings, EndpointIndependentNoNAT, EndpointIndependent,
     AddressAndPortDependent, Take
<1>1. /\ NetworkKeeps /\ step \in Steps /\ trouble' = trouble
      /\ PhaseOf(step) \in Phases
  BY TakeKeeps DEF PhaseOf, Phases
<1>2. ASSUME step \in {"map1", "map2", "map3"}
      PROVE  /\ PhaseOf(step) = "mapping"
             /\ "twice" \notin trouble => UnderWay("mapping")' \subseteq M \ {held["mapping"]}
             /\ held["mapping"] \in M
             /\ \E m, o \in M :
                   Concludes([addr |-> held["mapping"].addr, origin |-> o.origin, mapped |-> m.mapped])
  BY <1>2, TakeKeeps DEF PhaseOf, Phases
<1>3. ASSUME step \in {"filter1", "filter2", "filter3"}
      PROVE  /\ PhaseOf(step) = "filtering"
             /\ "twice" \notin trouble => UnderWay("filtering")' \subseteq F \ {held["filtering"]}
             /\ held["filtering"] \in F
             /\ \E m, o \in F :
                   Concludes([addr |-> held["filtering"].addr, origin |-> o.origin, mapped |-> m.mapped])
  BY <1>3, TakeKeeps DEF PhaseOf, Phases
<1>4. CASE step = "map1"
  <2>1. \A r \in M : r = Answer("map1") /\ r.mapped = Mapped(Remote)
    BY <1>0, <1>1, <1>2, <1>4, TakenFacts DEF Earlier, To
  <2>2. PICK r : Concludes(r) /\ r.mapped = Mapped(Remote)
    <3>1. PICK m, o \in M :
             Concludes([addr |-> held["mapping"].addr, origin |-> o.origin, mapped |-> m.mapped])
      BY <1>2, <1>4
    <3>. QED
      BY <2>1, <3>1
  <2>3. CASE server = "plain"
    BY <1>1, <1>4, <2>2, <2>3, ConcludesWays DEF Proper
  <2>4. CASE server # "plain"
    <3>1. NextTest("map2", Mapped(Remote))
      BY <1>0, <1>1, <1>4, <2>2, <2>4, ConcludesWays, MappedFacts
    <3>2. "twice" \notin trouble => UnderWay("mapping")' = {}
      BY <1>2, <1>4, <2>1
    <3>3. Follows("map2", Mapped(Remote))
      BY <1>1, <1>4, <3>1, <3>2 DEF Follows, PhaseOf
    <3>. QED
      BY <3>1, <3>3 DEF Proper
  <2>. QED
    BY <2>3, <2>4
<1>5. CASE step = "map2"
  <2>1. \A r \in M : \/ r = Answer("map1")
                     \/ r = Answer("map2") /\ r.origin = To("map2") /\ r.mapped = Mapped(To("map2"))
    <3>1. Earlier(step) \cup {step} = {"map1", "map2"} /\ M = UnderWay(PhaseOf(step))
      BY <1>2, <1>5 DEF Earlier
    <3>2. \A r \in M : \E s \in {"map1", "map2"} :
             r = Answer(s) /\ r.origin = From(s) /\ r.mapped = Mapped(To(s))
      BY <1>0, <1>1, <3>1, TakenFacts
    <3>. QED
      BY <1>0, <3>2, AnswerFacts
  <2>2. PICK m, o \in M :
           Concludes([addr |-> held["mapping"].addr, origin |-> o.origin, mapped |-> m.mapped])
    BY <1>2, <1>5
  <2>3. \E r : Concludes(r) /\ r.origin = o.origin /\ r.mapped = m.mapped
    BY <2>2
  <2>4. \/ Panics
        \/ o.origin # To("map2") /\ Reports(4)
        \/ o.origin = To("map2") /\ m.mapped = first /\ Reports(2)
        \/ o.origin = To("map2") /\ m.mapped # first /\ NextTest("map3", m.mapped)
    BY <1>1, <1>5, <2>3, ConcludesWays
  <2>5. ASSUME "twice" \notin trouble
        PROVE  /\ \A r \in M : r = Answer("map2") /\ r.origin = To("map2") /\ r.mapped = Mapped(To("map2"))
               /\ UnderWay("mapping")' = {}
               /\ first = Mapped(Remote)
    <3>1. Answer("map1") \notin M /\ first = Mapped(Remote)
      BY <1>0, <1>5, <2>5 DEF FirstInv
    <3>2. \A r \in M : r = Answer("map2") /\ r.origin = To("map2") /\ r.mapped = Mapped(To("map2"))
      BY <2>1, <3>1
    <3>. QED
      BY <1>2, <1>5, <2>5, <3>1, <3>2
  <2>7. CASE Panics
    BY <2>7 DEF Proper
  <2>8. CASE o.origin # To("map2") /\ Reports(4)
    <3>1. "twice" \in trouble
      BY <2>5, <2>8
    <3>. QED
      BY <1>0, <1>1, <1>2, <1>5, <2>8, <3>1, TellableFacts DEF Proper, Right
  <2>9. CASE m.mapped = first /\ Reports(2)
    <3>1. "twice" \notin trouble => Mapped(To("map2")) = Mapped(Remote)
      BY <2>5, <2>9
    <3>2. "twice" \notin trouble => nat.mapping \in {1, 2}
      BY <1>0, <3>1, MappedFacts DEF AddressDependent, AddressAndPortDependent
    <3>. QED
      BY <1>0, <1>1, <1>2, <1>5, <2>9, <3>2, TellableFacts DEF Proper, Right
  <2>10. CASE m.mapped # first /\ NextTest("map3", m.mapped)
    <3>1. "twice" \notin trouble => m.mapped = Mapped(To("map2")) /\ Mapped(To("map2")) # Mapped(Remote)
      BY <2>5, <2>10
    <3>2. "twice" \notin trouble => nat.mapping \in {3, 4}
      BY <1>0, <3>1, MappedFacts DEF EndpointIndependent, EndpointIndependentNoNAT
    <3>3. Follows("map3", m.mapped)
      BY <1>1, <1>5, <2>5, <3>1, <3>2 DEF Follows, PhaseOf
    <3>. QED
      BY <2>10, <3>3 DEF Proper
  <2>. QED
    BY <2>4, <2>7, <2>8, <2>9, <2>10
<1>6. CASE step = "map3"
  <2>1. \A r \in M : \/ r = Answer("map1")
                     \/ r = Answer("map2") /\ r.mapped = Mapped(To("map2"))
                     \/ r = Answer("map3") /\ r.mapped = Mapped(To("map3"))
    <3>1. Earlier(step) \cup {step} = {"map1", "map2", "map3"} /\ M = UnderWay(PhaseOf(step))
      BY <1>2, <1>6 DEF Earlier
    <3>2. \A r \in M : \E s \in {"map1", "map2", "map3"} : r = Answer(s) /\ r.mapped = Mapped(To(s))
      BY <1>0, <1>1, <3>1, TakenFacts
    <3>. QED
      BY <3>2
  <2>2. PICK m, o \in M :
           Concludes([addr |-> held["mapping"].addr, origin |-> o.origin, mapped |-> m.mapped])
    BY <1>2, <1>6
  <2>3. \E r : Concludes(r) /\ r.mapped = m.mapped
    BY <2>2
  <2>4. IF m.mapped = first THEN Reports(3) ELSE Reports(4)
    BY <1>1, <1>6, <2>3, ConcludesWays
  <2>5. "twice" \notin trouble =>
           /\ \/ m = Answer("map2") /\ m.mapped = Mapped(To("map2"))
              \/ m.mapped = Mapped(To("map3"))
           /\ first = Mapped(Remote) \/ (first = Mapped(To("map2")) /\ Answer("map2") \notin M)
    BY <1>0, <1>6, <2>1, <2>2 DEF FirstInv
  <2>6. "twice" \notin trouble /\ nat.mapping = 4 => m.mapped # first
    BY <1>0, <2>2, <2>5, MappedFacts DEF AddressAndPortDependent
  <2>7. trouble = {} => /\ M \subseteq {Answer("map3")}
                        /\ nat.mapping \in {3, 4} /\ first = Mapped(To("map2"))
    BY <1>0, <1>1, <1>6 DEF QuietInv, AddressDependent, AddressAndPortDependent, PhaseOf
  <2>8. trouble = {} => m.mapped = Mapped(To("map3"))
    BY <1>0, <2>2, <2>7, AnswerFacts DEF Steps
  <2>9. trouble = {} => (m.mapped = first <=> nat.mapping = 3)
    BY <1>0, <2>7, <2>8, MappedFacts DEF AddressDependent, AddressAndPortDependent
  <2>10. CASE m.mapped = first
    <3>1. "twice" \notin trouble => 3 >= Tellable
      BY <1>0, <2>6, <2>10, TellableFacts
    <3>. QED
      BY <1>0, <1>1, <1>2, <1>6, <2>4, <2>9, <2>10, <3>1, TellableFacts DEF Proper, Right
  <2>11. CASE m.mapped # first
    <3>1. trouble = {} => nat.mapping = 4
      BY <2>7, <2>9, <2>11
    <3>. QED
      BY <1>0, <1>1, <1>2, <1>6, <2>4, <2>11, <3>1, TellableFacts DEF Proper, Right
  <2>. QED
    BY <2>10, <2>11
<1>7. CASE step = "filter1"
  <2>1. \A r \in F : r = Answer("filter1")
    BY <1>0, <1>1, <1>3, <1>7, TakenFacts DEF Earlier
  <2>2. PICK r : Concludes(r)
    BY <1>3, <1>7
  <2>3. CASE server = "plain"
    BY <1>1, <1>7, <2>2, <2>3, ConcludesWays DEF Proper
  <2>4. CASE server # "plain"
    <3>1. NextTest("filter2", first)
      BY <1>1, <1>7, <2>2, <2>4, ConcludesWays
    <3>2. "twice" \notin trouble => UnderWay("filtering")' = {}
      BY <1>3, <1>7, <2>1
    <3>3. Follows("filter2", first)
      BY <1>1, <1>7, <3>2 DEF Follows, PhaseOf
    <3>. QED
      BY <3>1, <3>3 DEF Proper
  <2>. QED
    BY <2>3, <2>4
<1>8. CASE step = "filter2"
  <2>1. held["filtering"].addr # Remote => nat.filtering = 2
    BY <1>0, <1>1, <1>3, <1>8, TakenFacts, AnswerFacts DEF Earlier, EndpointIndependent
  <2>2. trouble = {} => held["filtering"].addr # Remote
    <3>1. trouble = {} => F \subseteq {Answer("filter2")}
      BY <1>0, <1>1, <1>8 DEF QuietInv, PhaseOf
    <3>. QED
      BY <1>0, <1>3, <1>8, <3>1, AnswerFacts DEF Steps
  <2>3. IF held["filtering"].addr # Remote THEN Reports(2) ELSE NextTest("filter3", first)
    <3>1. \E r : Concludes(r) /\ r.addr = held["filtering"].addr
      <4>1. PICK m, o \in F :
               Concludes([addr |-> held["filtering"].addr, origin |-> o.origin, mapped |-> m.mapped])
        BY <1>3, <1>8
      <4>. QED
        BY <4>1
    <3>. QED
      BY <1>1, <1>8, <3>1, ConcludesWays
  <2>4. CASE held["filtering"].addr # Remote
    BY <1>3, <1>8, <2>1, <2>3, <2>4 DEF Proper, Right
  <2>5. CASE held["filtering"].addr = Remote
    <3>1. Follows("filter3", first)
      BY <1>1, <1>8, <2>2, <2>5 DEF Follows
    <3>. QED
      BY <2>3, <2>5, <3>1 DEF Proper
  <2>. QED
    BY <2>4, <2>5
<1>9. CASE step = "filter3"
  <2>1. held["filtering"].addr # Remote => nat.filtering \in {2, 3}
    BY <1>0, <1>1, <1>3, <1>9, TakenFacts, AnswerFacts DEF Earlier, EndpointIndependent,
       AddressDependent
  <2>2. trouble = {} => held["filtering"].addr # Remote /\ nat.filtering # 2
    <3>1. trouble = {} => F \subseteq {Answer("filter3")} /\ nat.filtering # 2
      BY <1>0, <1>1, <1>9 DEF QuietInv, PhaseOf, EndpointIndependent
    <3>. QED
      BY <1>0, <1>3, <1>9, <3>1, AnswerFacts DEF Steps
  <2>3. IF held["filtering"].addr # Remote THEN Reports(3) ELSE Reports(4)
    <3>1. \E r : Concludes(r) /\ r.addr = held["filtering"].addr
      <4>1. PICK m, o \in F :
               Concludes([addr |-> held["filtering"].addr, origin |-> o.origin, mapped |-> m.mapped])
        BY <1>3, <1>9
      <4>. QED
        BY <4>1
    <3>. QED
      BY <1>1, <1>9, <3>1, ConcludesWays
  <2>4. CASE held["filtering"].addr # Remote
    BY <1>1, <1>3, <1>9, <2>1, <2>2, <2>3, <2>4 DEF Proper, Right
  <2>5. CASE held["filtering"].addr = Remote
    BY <1>0, <1>1, <1>3, <1>9, <2>2, <2>3, <2>5 DEF Proper, Right
  <2>. QED
    BY <2>4, <2>5
<1>. QED
  BY <1>1, <1>4, <1>5, <1>6, <1>7, <1>8, <1>9 DEF Steps

\* So does a timeout: with a network that does nothing wrong it means that the NAT
\* keeps the answer away.
LEMMA TimeoutIsProper ==
    ASSUME StunTypeOK, AskedInv, WaitInv, FirstInv, QuietInv, Timeout
    PROVE  Proper /\ NetworkKeeps
<1>0. /\ nat \in [mapping : Mappings, filtering : Filterings]
      /\ nat.mapping \in 1..4 /\ nat.filtering \in 2..4
      /\ nat' = nat /\ network' = network /\ held' = held
      /\ ~Done /\ waiting /\ step \in Steps /\ ConcludesFromSilence
      /\ PhaseOf(step) \in Phases
  BY DEF StunTypeOK, Mappings, Filterings, EndpointIndependentNoNAT, EndpointIndependent,
     AddressAndPortDependent, Timeout, WaitInv, PhaseOf, Phases
<1>1. /\ trouble \subseteq trouble'
      /\ trouble' = {} => trouble = {} /\ UnderWay(PhaseOf(step)) = {}
      /\ "twice" \notin trouble' => "twice" \notin trouble
  BY DEF Timeout, UnderWay
<1>2. NetworkKeeps
  BY <1>0, <1>1 DEF NetworkKeeps, UnderWay, FirstInv
<1>. SUFFICES Proper
  BY <1>2
<1>3. trouble' = {} => ~Passes(step)
  <2>1. trouble' = {} => (IF waiting /\ Passes(step) THEN {Answer(step)} ELSE {}) = {}
    BY <1>0, <1>1 DEF QuietInv
  <2>. QED
    BY <1>0, <2>1
<1>4. CASE step \in {"map1", "filter1"}
  BY <1>0, <1>4, SilenceWays DEF Proper
<1>5. CASE step = "map2"
  <2>1. NextTest("map3", first)
    BY <1>0, <1>5, SilenceWays
  <2>2. trouble' # {}
    BY <1>0, <1>3, <1>5, AnswerFacts
  <2>3. "twice" \notin trouble' => first = Mapped(Remote)
    BY <1>0, <1>1, <1>5 DEF FirstInv
  <2>4. Follows("map3", first)
    BY <1>5, <2>2, <2>3 DEF Follows
  <2>. QED
    BY <2>1, <2>4 DEF Proper
<1>6. CASE step = "map3"
  <2>1. Reports(4) /\ trouble' # {}
    BY <1>0, <1>3, <1>6, SilenceWays, AnswerFacts
  <2>. QED
    BY <1>0, <1>6, <2>1, TellableFacts DEF Proper, Right, PhaseOf
<1>7. CASE step = "filter2"
  <2>1. NextTest("filter3", first)
    BY <1>0, <1>7, SilenceWays
  <2>2. trouble' = {} => nat.filtering # 2
    BY <1>0, <1>3, <1>7, AnswerFacts DEF EndpointIndependent
  <2>3. trouble' = {} => UnderWay("filtering")' = {}
    BY <1>0, <1>1, <1>7 DEF UnderWay, PhaseOf
  <2>4. Follows("filter3", first)
    BY <1>7, <2>2, <2>3 DEF Follows, PhaseOf
  <2>. QED
    BY <2>1, <2>4 DEF Proper
<1>8. CASE step = "filter3"
  <2>1. Reports(4)
    BY <1>0, <1>8, SilenceWays
  <2>2. trouble' = {} => nat.filtering = 4
    <3>1. trouble' = {} => nat.filtering \notin {2, 3}
      BY <1>0, <1>3, <1>8, AnswerFacts DEF EndpointIndependent, AddressDependent
    <3>. QED
      BY <1>0, <3>1
  <2>. QED
    BY <1>0, <1>8, <2>1, <2>2 DEF Proper, Right, PhaseOf
<1>. QED
  BY <1>0, <1>4, <1>5, <1>6, <1>7, <1>8 DEF Steps

\* Whatever a running test gets, it goes on properly.
LEMMA TestIsProper ==
    ASSUME StunInv, SendFails \/ Take \/ Timeout \/ ChannelClosed
    PROVE  ~Done /\ step \in Steps /\ Proper /\ NetworkKeeps
<1>1. ~Done /\ step \in Steps
  BY TestSteps DEF StunInv, SendFails, Take, Timeout, ChannelClosed
<1>2. CASE SendFails \/ ChannelClosed
  BY <1>1, <1>2 DEF SendFails, ChannelClosed, Proper, NetworkKeeps, UnderWay, StunInv, FirstInv
<1>3. CASE Take
  BY <1>1, <1>3, TakeIsProper, TakeKeeps DEF StunInv, PhaseOf, Phases
<1>4. CASE Timeout
  BY <1>1, <1>4, TimeoutIsProper DEF StunInv
<1>. QED
  BY <1>2, <1>3, <1>4

\* The tests keep the invariant.
LEMMA TestStep ==
    ASSUME StunInv, StunTypeOK', SendFails \/ Take \/ Timeout \/ ChannelClosed
    PROVE  AskedInv' /\ FirstInv' /\ QuietInv' /\ ResultInv'
<1>1. ~Done /\ step \in Steps
  BY TestIsProper
<1>2. Proper /\ NetworkKeeps
  BY TestIsProper
<1>3. CASE Fails \/ Panics \/ \E v \in 2..4 : Reports(v) /\ Right(v)
  BY <1>1, <1>2, <1>3, EndStep DEF StunInv
<1>4. CASE \E s, x : Follows(s, x) /\ NextTest(s, x)
  BY <1>1, <1>2, <1>4, FollowStep DEF StunInv
<1>. QED
  BY <1>2, <1>3, <1>4 DEF Proper

\* So do the network and the goroutines of the sockets.
LEMMA AnswerStep ==
    ASSUME StunInv, StunTypeOK', NEW h \in Phases, Receive(h) \/ ListenFails(h) \/ Lose(h)
    PROVE  AskedInv' /\ FirstInv' /\ QuietInv' /\ ResultInv'
<1>. USE DEF StunInv
<1>1. UNCHANGED <<nat, step, waiting, first, result, outcome>>
  BY DEF Receive, ListenFails, Lose
<1>2. Nothing \notin Answers
  BY AnswerFacts DEF Answers, StunTypeOK
<1>3. NetworkKeeps /\ (trouble' = {} => \A k \in Phases : UnderWay(k)' = UnderWay(k))
  <2>1. CASE ListenFails(h)
    BY <2>1 DEF ListenFails, NetworkKeeps, UnderWay, FirstInv
  <2>2. CASE Lose(h)
    BY <2>2 DEF Lose, NetworkKeeps, UnderWay, FirstInv, StunTypeOK
  <2>3. CASE Receive(h)
    <3>1. PICK r \in network[h] :
             /\ held' = [held EXCEPT ![h] = r]
             /\ \/ network' = [network EXCEPT ![h] = @ \ {r}] /\ trouble' = trouble
                \/ trouble' = trouble \cup {"twice"} /\ network' = network
      BY <2>3 DEF Receive
    <3>2. held[h] = Nothing
      BY <2>3 DEF Receive, HeldInv
    <3>3. r # Nothing
      BY <1>2 DEF StunTypeOK
    <3>4. \A k \in Phases : held'[k] = IF k = h THEN r ELSE held[k]
      BY <3>1 DEF StunTypeOK
    <3>5. \A k \in Phases : network'[k] = network[k] \/ (k = h /\ network'[k] = network[k] \ {r})
      BY <3>1 DEF StunTypeOK
    <3>6. \A k \in Phases : network'[k] \cup ({held'[k]} \ {Nothing}) = network[k] \cup ({held[k]} \ {Nothing})
      BY <3>2, <3>3, <3>4, <3>5
    <3>7. "twice" \notin trouble' => \A k \in Phases : held'[k] \notin network'[k]
      BY <3>1, <3>4 DEF FirstInv, StunTypeOK
    <3>. QED
      BY <1>1, <3>1, <3>6, <3>7 DEF NetworkKeeps, UnderWay
  <2>. QED
    BY <2>1, <2>2, <2>3
<1>4. trouble' = {} => trouble = {}
  BY <1>3 DEF NetworkKeeps
<1>5. /\ \A s \in Steps : Answer(s)' = Answer(s) /\ (Passes(s)' <=> Passes(s))
      /\ \A to : Mapped(to)' = Mapped(to)
      /\ \A s \in Steps : PhaseOf(s) \in Phases /\ Earlier(s) \subseteq Steps
  BY <1>1, AnswersStay DEF PhaseOf, Phases, Earlier, Steps
<1>6. AskedInv'
  BY <1>1, <1>3, <1>5 DEF AskedInv, NetworkKeeps, Done, Phases
<1>7. FirstInv'
  BY <1>1, <1>3, <1>5 DEF FirstInv, NetworkKeeps, Done, Phases, Steps
<1>8. QuietInv'
  BY <1>1, <1>3, <1>4, <1>5 DEF QuietInv, Tellable, Done
<1>9. ResultInv'
  BY <1>1, <1>3, <1>4 DEF ResultInv, ResultRight, Tellable, NetworkKeeps, Done
<1>. QED
  BY <1>6, <1>7, <1>8, <1>9

\* A request brings its own answer under way, which is not that of an earlier test.
LEMMA SendStep ==
    ASSUME StunInv, StunTypeOK', Send
    PROVE  AskedInv' /\ FirstInv' /\ QuietInv' /\ ResultInv'
<1>. USE DEF StunInv
<1>. DEFINE h == PhaseOf(step)
            A == Answer(step)
<1>1. /\ UNCHANGED <<nat, step, first, result, outcome, held, trouble>>
      /\ ~Done /\ ~waiting /\ waiting' = TRUE /\ step \in Steps
      /\ h \in Phases /\ h \in {"mapping", "filtering"}
      /\ (h = "mapping" <=> step \in {"map1", "map2", "map3"})
  BY DEF Send, PhaseOf, Phases, Steps
<1>2. /\ \A s \in Steps : Answer(s)' = Answer(s) /\ (Passes(s)' <=> Passes(s))
      /\ \A to : Mapped(to)' = Mapped(to)
  BY <1>1, AnswersStay
<1>3. \A k \in Phases : UnderWay(k)' = UnderWay(k) \cup (IF k = h /\ Passes(step) THEN {A} ELSE {})
  <2>1. \A k \in Phases : network'[k] = network[k] \cup (IF k = h /\ Passes(step) THEN {A} ELSE {})
    BY <1>1 DEF Send, StunTypeOK
  <2>. QED
    BY <1>1, <2>1 DEF UnderWay
<1>4. \A s \in Earlier(step) : s \in Steps /\ s # step /\ Answer(s) # A
  BY <1>1, AnswerFacts DEF Earlier, Steps, StunTypeOK
<1>5. \A r \in UnderWay(h) : \E s \in Earlier(step) : Passes(s) /\ r = Answer(s)
  BY <1>1 DEF AskedInv
<1>6. A \notin UnderWay(h)
  BY <1>4, <1>5
<1>7. AskedInv'
  <2>1. \A r \in UnderWay(h) : \E s \in Earlier(step) \cup {step} : Passes(s)' /\ r = Answer(s)'
    BY <1>2, <1>4, <1>5
  <2>2. \A k \in Phases : k = h => \A r \in UnderWay(k)' :
           \E s \in Earlier(step) \cup {step} : Passes(s)' /\ r = Answer(s)'
    BY <1>1, <1>2, <1>3, <2>1
  <2>3. h = "mapping" => UnderWay("filtering")' = {}
    BY <1>1, <1>3 DEF AskedInv, Phases
  <2>4. step \notin {"connectMapping", "connectFiltering"}
    BY <1>1 DEF Steps
  <2>5. PhaseOf(step)' = h
    BY <1>1 DEF PhaseOf
  <2>. QED
    BY <1>1, <2>2, <2>3, <2>4, <2>5 DEF AskedInv
<1>8. FirstInv'
  <2>1. ASSUME "twice" \notin trouble, NEW k \in Phases
        PROVE  held'[k] \notin network'[k]
    <3>1. network'[k] = network[k] \cup (IF k = h /\ Passes(step) THEN {A} ELSE {})
      BY <1>1 DEF Send, StunTypeOK
    <3>2. held[k] \notin network[k]
      BY <2>1 DEF FirstInv
    <3>3. k = h => held[k] # A
      BY <1>1, <1>6, AnswerFacts DEF UnderWay, StunTypeOK
    <3>. QED
      BY <1>1, <3>1, <3>2, <3>3
  <2>2. /\ step \in {"map2", "map3"} => A # Answer("map1")
        /\ step = "map3" => A # Answer("map2")
    BY <1>4 DEF Earlier
  <2>3. /\ Answer("map1")' = Answer("map1") /\ Answer("map2")' = Answer("map2")
        /\ Mapped(Remote)' = Mapped(Remote) /\ Mapped(To("map2"))' = Mapped(To("map2"))
    BY <1>2 DEF Steps, Remote, To
  <2>4. UnderWay("mapping")' \subseteq UnderWay("mapping") \cup {A}
    BY <1>3 DEF Phases
  <2>. QED
    BY <1>1, <2>1, <2>2, <2>3, <2>4 DEF FirstInv, Done
<1>9. QuietInv'
  <2>1. trouble = {} => UnderWay(h) = {}
    BY <1>1 DEF QuietInv
  <2>2. \A k \in Phases : trouble = {} /\ k = h =>
           UnderWay(k)' = IF Passes(step) THEN {A} ELSE {}
    BY <1>3, <2>1
  <2>3. PhaseOf(step)' = h /\ A' = A /\ (Passes(step)' <=> Passes(step))
    BY <1>1, <1>2 DEF PhaseOf
  <2>4. Mapped(To("map2"))' = Mapped(To("map2"))
    BY <1>2 DEF To
  <2>. QED
    BY <1>1, <2>2, <2>3, <2>4 DEF QuietInv, Tellable, Done
<1>10. ResultInv'
  BY <1>1 DEF ResultInv, ResultRight, Tellable, Done
<1>. QED
  BY <1>7, <1>8, <1>9, <1>10

\* A socket begins with nothing under way.
LEMMA ConnectStep ==
    ASSUME StunInv, StunTypeOK', ConnectOk \/ ConnectFails
    PROVE  AskedInv' /\ FirstInv' /\ QuietInv' /\ ResultInv'
<1>. USE DEF StunInv
<1>1. /\ UNCHANGED <<nat, waiting, first, result, held, network, trouble>>
      /\ ~Done /\ step \in {"connectMapping", "connectFiltering"}
  BY DEF ConnectOk, ConnectFails, Phases
<1>2. \A k \in Phases : UnderWay(k)' = UnderWay(k) /\ held'[k] = held[k] /\ network'[k] = network[k]
  BY <1>1 DEF UnderWay
<1>3. CASE ConnectFails
  <2>1. outcome' = "error" /\ Done'
    BY <1>3, StunAssumption DEF ConnectFails, Done
  <2>. QED
    BY <1>1, <1>2, <2>1 DEF AskedInv, FirstInv, QuietInv, ResultInv, ResultRight, Tellable
<1>4. CASE ConnectOk
  <2>1. /\ outcome' = outcome
        /\ \/ step = "connectMapping" /\ step' = "map1"
           \/ step = "connectFiltering" /\ step' = "filter1"
    BY <1>4 DEF ConnectOk, Phases
  <2>2. /\ step = "connectMapping" => UnderWay("mapping") = {}
        /\ UnderWay("filtering") = {}
        /\ "mapping" \in Phases /\ "filtering" \in Phases
    BY <1>1, <2>1 DEF AskedInv, Phases
  <2>3. PhaseOf(step') = IF step = "connectMapping" THEN "mapping" ELSE "filtering"
    BY <2>1 DEF PhaseOf
  <2>4. ~waiting
    BY <1>1 DEF WaitInv, Steps
  <2>5. AskedInv'
    BY <1>2, <2>1, <2>2, <2>3 DEF AskedInv, PhaseOf, Steps
  <2>6. FirstInv'
    BY <1>1, <1>2, <2>1 DEF FirstInv, Done
  <2>7. QuietInv'
    <3>1. UnderWay(PhaseOf(step))' = {}
      BY <1>2, <2>1, <2>2 DEF PhaseOf
    <3>2. trouble = {} /\ step = "connectFiltering" => result["mapping"] = Tellable
      BY <1>1 DEF QuietInv, PhaseOf
    <3>. QED
      BY <1>1, <2>1, <2>4, <3>1, <3>2 DEF QuietInv, Tellable, Done, PhaseOf
  <2>8. ResultInv'
    BY <1>1, <2>1 DEF ResultInv, ResultRight, Tellable, Done, PhaseOf
  <2>. QED
    BY <2>5, <2>6, <2>7, <2>8
<1>. QED
  BY <1>3, <1>4

\* The invariant of Stun.
LEMMA StunInductive ==
    StunSpec => []StunInv
<1>1. StunInit => StunInv
  <2>. SUFFICES ASSUME StunInit
                PROVE  StunInv
    OBVIOUS
  <2>1. StunTypeOK
    BY DEF StunInit, StunTypeOK
  <2>2. \A k \in Phases : UnderWay(k) = {}
    BY DEF StunInit, UnderWay
  <2>3. AskedInv /\ HeldInv /\ WaitInv
    BY <2>2 DEF StunInit, AskedInv, HeldInv, WaitInv, Steps, PhaseOf, Phases
  <2>4. FirstInv /\ QuietInv
    BY DEF StunInit, FirstInv, QuietInv, Steps
  <2>5. ResultInv
    BY StunAssumption DEF StunInit, ResultInv, ResultRight, NoResult, EndpointIndependentNoNAT, Phases
  <2>. QED
    BY <2>1, <2>3, <2>4, <2>5 DEF StunInv
<1>2. StunInv /\ [StunNext]_stunVars => StunInv'
  <2>. SUFFICES ASSUME StunInv, [StunNext]_stunVars
                PROVE  StunInv'
    OBVIOUS
  <2>1. StunTypeOK' /\ HeldInv' /\ WaitInv'
    BY StunTypeStep, ChannelStep DEF StunInv
  <2>2. AskedInv' /\ FirstInv' /\ QuietInv' /\ ResultInv'
    <3>1. CASE UNCHANGED stunVars
      BY <3>1 DEF stunVars, StunInv, AskedInv, FirstInv, QuietInv, ResultInv, ResultRight, Tellable,
         UnderWay, Done, Answer, Mapped, Passes
    <3>. QED
      BY <2>1, <3>1, ConnectStep, SendStep, TestStep, AnswerStep DEF StunNext
  <2>. QED
    BY <2>1, <2>2 DEF StunInv
<1>. QED
  BY <1>1, <1>2, PTL DEF StunSpec

\* The result of Test is right while the network does nothing wrong, and never too
\* permissive otherwise, but for a mapping test with a duplicate: for every NAT and
\* server, whatever is lost, late, doubled or mixed in the buffer of listen.
THEOREM ResultIsRight ==
    StunSpec => []ResultRight
<1>1. StunInv => ResultRight
  BY DEF StunInv, ResultInv
<1>. QED
  BY <1>1, StunInductive, PTL

\* Test keeps its state well typed behind every NAT and with every server.
THEOREM StunTypeCorrect == StunSpec => []StunTypeOK
<1>1. StunInv => StunTypeOK
  BY DEF StunInv
<1>. QED
  BY <1>1, StunInductive, PTL

-------------------------------------------------------------------------------
(* Stun: the safety core of ListenersEnd.                                     *)

\* A socket is open only while a test of its phase runs, or for good once the process
\* has panicked; who reads has read from a socket that was opened.
OpenInv ==
    /\ \A h \in Phases :
        /\ socket[h] = "open" => step \in Steps /\ PhaseOf(step) = h
        /\ listen[h] # "none" => socket[h] # "none"
    /\ outcome # "panic" /\ Done => \A h \in Phases : socket[h] # "open"

\* mappingTests and filteringTests close their socket on every way out but the panic.
LEMMA OpenStep == StunInv /\ OpenInv /\ [StunNext]_stunVars => OpenInv'
<1>. SUFFICES ASSUME StunInv, OpenInv, [StunNext]_stunVars PROVE OpenInv'
  OBVIOUS
<1>0. /\ socket \in [Phases -> {"none", "open", "closed"}]
      /\ listen \in [Phases -> {"none", "reading", "offering", "ended"}]
  BY DEF StunInv, StunTypeOK
<1>. USE <1>0 DEF OpenInv
<1>1. CASE ConnectOk
  BY <1>1 DEF ConnectOk, Done, Steps, PhaseOf, Phases
<1>2. CASE ConnectFails
  BY <1>2 DEF ConnectFails, Done, Steps
<1>3. CASE SendFails \/ Take \/ Timeout \/ ChannelClosed
  <2>1. ~Done /\ step \in Steps /\ Proper
    BY <1>3, TestIsProper
  <2>2. \A h \in Phases : listen'[h] # "none" => listen[h] # "none"
    BY <1>3 DEF SendFails, Take, Timeout, ChannelClosed
  <2>3. CASE Fails
    BY <2>1, <2>2, <2>3, FailsDo DEF PhaseOf, Phases
  <2>4. CASE Panics
    BY <2>2, <2>4 DEF Panics
  <2>5. ASSUME NEW v \in 1..4, Reports(v) PROVE OpenInv'
    BY <2>1, <2>2, <2>5, ReportsDo DEF PhaseOf, Phases
  <2>6. ASSUME NEW s, NEW x, Follows(s, x), NextTest(s, x) PROVE OpenInv'
    <3>1. s \in Steps /\ PhaseOf(s) = PhaseOf(step)
      BY <2>6 DEF Follows, Steps, PhaseOf
    <3>. QED
      BY <2>1, <2>2, <2>6, <3>1 DEF NextTest, Done
  <2>. QED
    BY <2>1, <2>3, <2>4, <2>5, <2>6 DEF Proper
<1>4. CASE Send
  BY <1>4 DEF Send, Done
<1>5. ASSUME NEW h \in Phases, Receive(h) \/ ListenFails(h) \/ Lose(h) PROVE OpenInv'
  BY <1>5 DEF Receive, ListenFails, Lose, Done
<1>6. CASE UNCHANGED stunVars
  BY <1>6 DEF stunVars, Done
<1>. QED
  BY <1>1, <1>2, <1>3, <1>4, <1>5, <1>6 DEF StunNext

\* The socket that a goroutine still reads from is closed once the tests of its phase
\* are over, which is what lets ReadFrom return.
OverMeansClosed ==
    \A h \in Phases :
        listen[h] = "reading" /\ Over(h) /\ outcome # "panic" => socket[h] = "closed"

\* No test leaves its socket open behind it, behind any NAT and with any server.
THEOREM SocketsAreClosed == StunSpec => []OverMeansClosed
<1>1. StunInit => OpenInv
  BY StunAssumption DEF StunInit, OpenInv, Done, Phases
<1>2. StunInv /\ OpenInv => OverMeansClosed
  <2>. SUFFICES ASSUME StunInv, OpenInv, NEW h \in Phases,
                       listen[h] = "reading", Over(h), outcome # "panic"
                PROVE  socket[h] = "closed"
    BY DEF OverMeansClosed
  <2>1. socket[h] \in {"none", "open", "closed"}
    BY DEF StunInv, StunTypeOK
  <2>2. socket[h] # "none"
    BY DEF OpenInv
  <2>3. socket[h] # "open"
    BY DEF OpenInv, Over, Steps, PhaseOf, Phases
  <2>. QED
    BY <2>1, <2>2, <2>3
<1>. QED
  BY <1>1, <1>2, OpenStep, StunInductive, PTL DEF StunSpec
===============================================================================
