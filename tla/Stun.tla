--------------------------------- MODULE Stun ---------------------------------
(***************************************************************************)
(* NAT type discovery (stun/stun.go): Test sends binding requests over two  *)
(* sockets, one for the mapping tests and one for the filtering tests, and  *)
(* concludes from the answers, and from those that do not come, what NAT    *)
(* it is behind.  Every socket has a goroutine that reads datagrams and     *)
(* offers them on a channel without a buffer.  A request has a timeout, and *)
(* the answer taken is the next one offered, whatever request it is of.     *)
(*                                                                         *)
(* The server has two addresses and two ports.  The network loses, delays  *)
(* and duplicates answers.                                                 *)
(***************************************************************************)
EXTENDS Naturals

CONSTANT Nothing   \* no answer, address or outcome

Phases == {"mapping", "filtering"}
Steps == {"map1", "map2", "map3", "filter1", "filter2", "filter3"}
PhaseOf(s) == IF s \in {"map1", "map2", "map3"} THEN "mapping" ELSE "filtering"

\* RemoteAddr and OtherAddr, and the two that mix them.
Remote == <<"A", "P">>
Other == <<"B", "Q">>
Addresses == {"A", "B"} \X {"P", "Q"}

\* What a request can seem to come from.
MappedAddresses == {<<"local">>, <<"public">>, <<"A">>, <<"B">>} \cup Addresses

\* LocalAddr of a socket that is bound to no address, [::] and a port, or of the one to
\* the SOCKS server, 127.0.0.1 and a port: no server sees either.
LocalAddr == <<"any">>

ASSUME StunAssumption ==
    /\ Nothing \notin {"ok", "error", "panic"}
    /\ Nothing \notin [addr : Addresses, origin : Addresses, mapped : MappedAddresses]

\* NatMapping and NatFiltering, from the most permissive.
NoResult == 0
EndpointIndependentNoNAT == 1
EndpointIndependent == 2
AddressDependent == 3
AddressAndPortDependent == 4
Mappings == EndpointIndependentNoNAT..AddressAndPortDependent
Filterings == EndpointIndependent..AddressAndPortDependent

VARIABLES
    nat,          \* the NAT of this network
    server,       \* full, plain: without OTHER-ADDRESS, bare: without RESPONSE-ORIGIN
    step,         \* the test that is running
    waiting,      \* its request was sent
    first,        \* resps.xorAddr
    result,       \* natMapping and natFiltering
    outcome,      \* of Test
    socket,       \* closed, open or closed again
    listen,     \* the goroutine of listen
    held,         \* the answer it offers
    network,      \* answers under way to each socket
    trouble       \* history: what the network did

stunVars == <<nat, server, step, waiting, first, result, outcome, socket, listen,
          held, network, trouble>>

\* The address a request to a destination seems to come from.
Mapped(to) ==
    CASE nat.mapping = EndpointIndependentNoNAT -> <<"local">>
      [] nat.mapping = EndpointIndependent      -> <<"public">>
      [] nat.mapping = AddressDependent         -> <<to[1]>>
      [] OTHER                                  -> to

\* Where the request of a test goes, and where its answer comes from: the requests of
\* the filtering tests II and III ask for another address or port.
To(s) == CASE s = "map2" -> <<"B", "P">> [] s = "map3" -> Other [] OTHER -> Remote
From(s) == CASE s = "filter2" -> Other [] s = "filter3" -> <<"A", "Q">> [] OTHER -> To(s)

\* A stunResponse: the address it came from, and RESPONSE-ORIGIN and
\* XOR-MAPPED-ADDRESS in its message.
Answer(s) == [addr |-> From(s), origin |-> From(s), mapped |-> Mapped(To(s))]
Answers == {Answer(s) : s \in Steps}

\* The filter lets an answer in that comes from where a request was sent.
Passes(s) ==
    \/ nat.filtering = EndpointIndependent
    \/ nat.filtering = AddressDependent /\ From(s)[1] = To(s)[1]
    \/ From(s) = To(s)

Done == outcome # Nothing

\* The tests of a phase are behind.
Over(h) ==
    \/ Done
    \/ h = "mapping" /\ step \in {"connectFiltering", "filter1", "filter2", "filter3"}

StunTypeOK ==
    /\ nat \in [mapping : Mappings, filtering : Filterings]
    /\ server \in {"full", "plain", "bare"}
    /\ step \in Steps \cup {"connectMapping", "connectFiltering"}
    /\ waiting \in BOOLEAN
    /\ first \in MappedAddresses \cup {Nothing}
    /\ result \in [Phases -> {NoResult} \cup Mappings]
    /\ outcome \in {Nothing, "ok", "error", "panic"}
    /\ socket \in [Phases -> {"none", "open", "closed"}]
    /\ listen \in [Phases -> {"none", "reading", "offering", "ended"}]
    /\ held \in [Phases -> Answers \cup {Nothing}]
    /\ network \in [Phases -> SUBSET Answers]
    /\ trouble \subseteq {"lost", "late", "twice"}

StunInit ==
    /\ nat \in [mapping : Mappings, filtering : Filterings]
    /\ server \in {"full", "plain", "bare"}
    /\ step = "connectMapping" /\ waiting = FALSE /\ first = Nothing
    /\ result = [h \in Phases |-> NoResult]
    /\ outcome = Nothing
    /\ socket = [h \in Phases |-> "none"]
    /\ listen = [h \in Phases |-> "none"]
    /\ held = [h \in Phases |-> Nothing]
    /\ network = [h \in Phases |-> {}]
    /\ trouble = {}

-------------------------------------------------------------------------------
(* connect, and the ways a test ends.                                         *)

ConnectOk ==
    /\ ~Done
    /\ \E h \in Phases :
        /\ step = IF h = "mapping" THEN "connectMapping" ELSE "connectFiltering"
        /\ step' = IF h = "mapping" THEN "map1" ELSE "filter1"
        /\ socket' = [socket EXCEPT ![h] = "open"]
        /\ listen' = [listen EXCEPT ![h] = "reading"]
    /\ UNCHANGED <<nat, server, waiting, first, result, outcome, held, network, trouble>>

ConnectFails ==
    /\ ~Done
    /\ step \in {"connectMapping", "connectFiltering"}
    /\ outcome' = "error"
    /\ UNCHANGED <<nat, server, step, waiting, first, result, socket, listen, held,
                   network, trouble>>

\* Variant: the socket of the mapping tests is left open.
ReturnsOpen(h, value, error) ==
    /\ waiting' = FALSE
    /\ result' = [result EXCEPT ![h] = value]
    /\ socket' = IF h = "mapping" THEN socket ELSE [socket EXCEPT ![h] = "closed"]
    /\ step' = IF h = "mapping" /\ ~error THEN "connectFiltering" ELSE step
    /\ outcome' = CASE error -> "error" [] ~error /\ h = "filtering" -> "ok" [] OTHER -> Nothing

\* mappingTests or filteringTests returns and closes its socket.  Test goes on with
\* the filtering tests, but not after an error.
Returns(h, value, error) ==
    /\ waiting' = FALSE
    /\ result' = [result EXCEPT ![h] = value]
    /\ socket' = [socket EXCEPT ![h] = "closed"]
    /\ step' = IF h = "mapping" /\ ~error THEN "connectFiltering" ELSE step
    /\ outcome' = CASE error -> "error" [] ~error /\ h = "filtering" -> "ok" [] OTHER -> Nothing

Reports(value) == Returns(PhaseOf(step), value, FALSE) /\ UNCHANGED first
Fails == Returns(PhaseOf(step), NoResult, TRUE) /\ UNCHANGED first

\* Variant: resps = resps2 is missing.
NextTestKeeps(s, xorAddr) ==
    /\ step' = s
    /\ waiting' = FALSE
    /\ first' = IF first = Nothing THEN xorAddr ELSE first
    /\ UNCHANGED <<result, socket, outcome>>

NextTest(s, xorAddr) ==
    /\ step' = s
    /\ waiting' = FALSE
    /\ first' = xorAddr
    /\ UNCHANGED <<result, socket, outcome>>

\* A method of a nil *stun.ResponseOrigin: the process ends.
Panics == outcome' = "panic" /\ UNCHANGED <<step, waiting, first, result, socket>>

-------------------------------------------------------------------------------
(* roundTrip                                                                  *)

Send ==
    /\ ~Done /\ ~waiting
    /\ step \in Steps
    /\ waiting' = TRUE
    /\ network' = IF Passes(step)
                  THEN [network EXCEPT ![PhaseOf(step)] = @ \cup {Answer(step)}]
                  ELSE network
    /\ UNCHANGED <<nat, server, step, first, result, outcome, socket, listen, held,
                   trouble>>

SendFails ==
    /\ ~Done /\ ~waiting
    /\ step \in Steps
    /\ Fails
    /\ UNCHANGED <<nat, server, listen, held, network, trouble>>

\* What the test that is running makes of an answer.
Concludes(r) ==
    CASE step \in {"map1", "filter1"} /\ server = "plain" -> Fails
      [] step = "map1" /\ server # "plain" ->
            IF r.mapped = LocalAddr THEN Reports(EndpointIndependentNoNAT)
            ELSE NextTest("map2", r.mapped)
      [] step = "map2" ->
            CASE server = "bare" -> Panics
              [] server # "bare" /\ r.origin # To("map2") -> Reports(AddressAndPortDependent)
              [] server # "bare" /\ r.origin = To("map2") /\ r.mapped = first ->
                    Reports(EndpointIndependent)
              [] OTHER -> NextTest("map3", r.mapped)
      [] step = "map3" ->
            Reports(IF r.mapped = first THEN AddressDependent ELSE AddressAndPortDependent)
      [] step = "filter1" /\ server # "plain" -> NextTest("filter2", first)
      [] step = "filter2" ->
            IF r.addr # Remote THEN Reports(EndpointIndependent)
            ELSE NextTest("filter3", first)
      [] step = "filter3" ->
            Reports(IF r.addr # Remote THEN AddressDependent ELSE AddressAndPortDependent)

\* The message is parsed in the buffer that listen is reading the next datagram
\* into, so each attribute may be that of an answer that arrives just then.
Take ==
    /\ ~Done /\ waiting
    /\ LET h == PhaseOf(step) IN
        /\ listen[h] = "offering"
        /\ \E m, o \in network[h] \cup {held[h]} :
            Concludes([addr |-> held[h].addr, origin |-> o.origin, mapped |-> m.mapped])
        /\ listen' = [listen EXCEPT ![h] = "reading"]
        /\ held' = [held EXCEPT ![h] = Nothing]
    /\ UNCHANGED <<nat, server, network, trouble>>

\* What it makes of none.
ConcludesFromSilence ==
    CASE step \in {"map1", "filter1"} -> Fails
      [] step = "map2" -> NextTest("map3", first)
      [] step = "filter2" -> NextTest("filter3", first)
      [] OTHER -> Reports(AddressAndPortDependent)

\* The time is up, although an answer may be under way or on offer.
Timeout ==
    /\ ~Done /\ waiting
    /\ ConcludesFromSilence
    /\ LET h == PhaseOf(step) IN
        trouble' = IF network[h] # {} \/ held[h] # Nothing
                   THEN trouble \cup {"late"} ELSE trouble
    /\ UNCHANGED <<nat, server, listen, held, network>>

\* listen has closed the channel.
ChannelClosed ==
    /\ ~Done /\ waiting
    /\ listen[PhaseOf(step)] = "ended"
    /\ Fails
    /\ UNCHANGED <<nat, server, listen, held, network, trouble>>

-------------------------------------------------------------------------------
(* listen, and the network                                                    *)

Receive(h) ==
    /\ listen[h] = "reading"
    /\ socket[h] = "open"
    /\ \E r \in network[h] :
        /\ held' = [held EXCEPT ![h] = r]
        /\ \/ network' = [network EXCEPT ![h] = @ \ {r}] /\ UNCHANGED trouble
           \/ trouble' = trouble \cup {"twice"} /\ UNCHANGED network
    /\ listen' = [listen EXCEPT ![h] = "offering"]
    /\ UNCHANGED <<nat, server, step, waiting, first, result, outcome, socket>>

\* A datagram that is no message, or is cut because the buffer has shrunk to the size
\* of an earlier one, or an error of the socket.
ListenFails(h) ==
    /\ listen[h] = "reading"
    /\ listen' = [listen EXCEPT ![h] = "ended"]
    /\ UNCHANGED <<nat, server, step, waiting, first, result, outcome, socket, held,
                   network, trouble>>

\* ReadFrom on a closed socket.
ListenClosed(h) == socket[h] = "closed" /\ ListenFails(h)

Lose(h) ==
    /\ \E r \in network[h] : network' = [network EXCEPT ![h] = @ \ {r}]
    /\ trouble' = trouble \cup {"lost"}
    /\ UNCHANGED <<nat, server, step, waiting, first, result, outcome, socket, listen,
                   held>>

-------------------------------------------------------------------------------
StunNext ==
    \/ ConnectOk \/ ConnectFails \/ Send \/ SendFails \/ Take \/ Timeout \/ ChannelClosed
    \/ \E h \in Phases : Receive(h) \/ ListenFails(h) \/ Lose(h)

StunSpec == StunInit /\ [][StunNext]_stunVars

\* ReadFrom on a closed socket returns.
StunFairness == \A h \in Phases : WF_stunVars(ListenClosed(h))

StunFairSpec == StunSpec /\ StunFairness

-------------------------------------------------------------------------------
(* Properties.                                                                *)

\* The mapping that the tests can tell: without a NAT the address of the host is
\* mapped to itself, which is not LocalAddr, so it is found as a NAT that is endpoint
\* independent.
Tellable == IF nat.mapping = EndpointIndependentNoNAT THEN EndpointIndependent
            ELSE nat.mapping

\* When no answer is lost, late or twice, the tests find out what NAT it is, for every
\* kind of mapping and filtering, although the answers that a NAT keeps away only show
\* as timeouts; but nobody is ever told that there is no NAT.  Answers that are lost,
\* late or taken for those of another request make the NAT look worse and never better,
\* but for a duplicate in the mapping tests.
ResultRight ==
    /\ outcome = "ok" /\ trouble = {} =>
        result["mapping"] = Tellable /\ result["filtering"] = nat.filtering
    /\ result["mapping"] # NoResult /\ "twice" \notin trouble =>
        result["mapping"] >= Tellable
    /\ result["filtering"] # NoResult => result["filtering"] >= nat.filtering
    /\ result["mapping"] # EndpointIndependentNoNAT

\* The goroutine of a closed socket ends, unless it offers an answer that came too late
\* for anyone to take it: then it stays for good, with its buffer.
ListenersEnd ==
    \A h \in Phases :
        listen[h] = "reading" /\ Over(h)
            ~> listen[h] \in {"ended", "offering"} \/ outcome = "panic"
===============================================================================
