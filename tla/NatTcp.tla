-------------------------------- MODULE NatTcp --------------------------------
(***************************************************************************)
(* The TCP forwarder of the system stack (nat/tcp.go).  It turns the TCP   *)
(* connections of the apps into connections to a listener of its own, by   *)
(* rewriting every packet in both directions: an app's packet gets the     *)
(* listener as its destination and the app's destination as its source, a  *)
(* packet of the listener is sent back to the app.  What the rewriting     *)
(* loses, the app's address and the port it dialed, is kept in sessions    *)
(* under the destination address and the source port.                      *)
(*                                                                         *)
(* A flow is one attempt of an app to connect.  The kernel's end of it is  *)
(* identified by the key alone, so of the flows with one key the kernel    *)
(* has at most one at a time.                                              *)
(***************************************************************************)
EXTENDS Naturals

CONSTANTS
    Flows,    \* connections the apps make
    Keys,     \* peerKey: destination address and source port
    Ends,     \* peerValue: source address and destination port
    KeyOf,    \* of each flow
    EndOf,    \* of each flow
    None      \* no entry

ASSUME NatAssumption ==
    /\ KeyOf \in [Flows -> Keys]
    /\ EndOf \in [Flows -> Ends]
    /\ None \notin Ends

VARIABLES
    app,        \* the app's end of each flow
    tcp,        \* the listener's end of it, in the kernel
    sessions,   \* tcpForwarder.sessions
    relay,      \* the goroutine dispatch started for it
    served,     \* the end it was dispatched to
    listener,   \* open, closed by SystemTun.Close, or failed
    loop,       \* dispatchLoop: running or ended
    reported,   \* whether errorHandler was called
    cut         \* connections that lost their entry while they were alive

vars == <<app, tcp, sessions, relay, served, listener, loop, reported, cut>>

Key(f) == KeyOf[f]
Entry(f) == sessions[Key(f)]
Established == {"queued", "open"}
InKernel(k) == {f \in Flows : Key(f) = k /\ tcp[f] \in {"half"} \cup Established}

\* The types of the variables of tcpForwarder and of the kernel, and that a relay
\* was started exactly for the connections that were given an address to dial.
TypeOK ==
    /\ app \in [Flows -> {"idle", "connecting", "connected", "closed"}]
    /\ tcp \in [Flows -> {"none", "half", "queued", "open", "gone"}]
    /\ sessions \in [Keys -> Ends \cup {None}]
    /\ relay \in [Flows -> {"none", "running", "sleeping", "done"}]
    /\ served \in [Flows -> Ends \cup {None}]
    /\ listener \in {"open", "closed", "failed"}
    /\ loop \in {"running", "ended"}
    /\ reported \in BOOLEAN
    /\ cut \subseteq Flows
    /\ \A f \in Flows : relay[f] = "none" <=> served[f] = None

Init ==
    /\ app = [f \in Flows |-> "idle"]
    /\ tcp = [f \in Flows |-> "none"]
    /\ sessions = [k \in Keys |-> None]
    /\ relay = [f \in Flows |-> "none"]
    /\ served = [f \in Flows |-> None]
    /\ listener = "open"
    /\ loop = "running"
    /\ reported = FALSE
    /\ cut = {}

-------------------------------------------------------------------------------
(* Packets of the apps.                                                       *)

\* Variant: every packet of an app writes the entry of its key.
RewriteEntry(f) == sessions' = [sessions EXCEPT ![Key(f)] = EndOf[f]]

\* processIPv4 and processIPv6, from the app: the entry of the key is made only if
\* there is none.
TouchEntry(f) ==
    sessions' = IF Entry(f) = None THEN [sessions EXCEPT ![Key(f)] = EndOf[f]] ELSE sessions

\* A SYN, and each time it is sent again.  An app cannot have two connections with
\* the same four addresses and ports.
Syn(f) ==
    /\ app[f] \in {"idle", "connecting"}
    /\ tcp[f] \in {"none", "half"}
    /\ \A g \in Flows \ {f} :
        Key(g) = Key(f) /\ EndOf[g] = EndOf[f] => app[g] \in {"idle", "closed"}
    /\ TouchEntry(f)
    /\ app' = [app EXCEPT ![f] = "connecting"]
    /\ tcp' = IF InKernel(Key(f)) = {} /\ listener = "open"
              THEN [tcp EXCEPT ![f] = "half"] ELSE tcp
    /\ UNCHANGED <<relay, served, listener, loop, reported, cut>>

Packet(f) ==
    /\ app[f] = "connected"
    /\ TouchEntry(f)
    /\ UNCHANGED <<app, tcp, relay, served, listener, loop, reported, cut>>

\* The app closes or gives up, with a last packet if it was connected.
AppCloses(f) ==
    /\ app[f] \in {"connecting", "connected"}
    /\ app' = [app EXCEPT ![f] = "closed"]
    /\ IF app[f] = "connected" THEN TouchEntry(f) ELSE UNCHANGED sessions
    /\ tcp' = IF tcp[f] = "half" THEN [tcp EXCEPT ![f] = "gone"] ELSE tcp
    /\ UNCHANGED <<relay, served, listener, loop, reported, cut>>

(* Packets of the listener.                                                   *)

\* processIPv4 and processIPv6, from the listener's port: the packet goes to the
\* flow the entry names, or is dropped if there is none.
SentTo(f, end) == Entry(f) = end

\* The SYN-ACK reaches the app, and its ACK the listener.
SynAck(f) ==
    /\ tcp[f] = "half"
    /\ app[f] = "connecting"
    /\ SentTo(f, EndOf[f])
    /\ app' = [app EXCEPT ![f] = "connected"]
    /\ tcp' = [tcp EXCEPT ![f] = "queued"]
    /\ UNCHANGED <<sessions, relay, served, listener, loop, reported, cut>>

\* The SYN-ACK comes from a port the app did not dial: it is answered with a reset.
SynAckRefused(f) ==
    /\ tcp[f] = "half"
    /\ \E end \in Ends \ {EndOf[f]} : SentTo(f, end)
    /\ tcp' = [tcp EXCEPT ![f] = "none"]
    /\ UNCHANGED <<app, sessions, relay, served, listener, loop, reported, cut>>

-------------------------------------------------------------------------------
(* dispatch                                                                   *)

Accept(f) ==
    /\ tcp[f] = "queued"
    /\ listener = "open"
    /\ loop = "running"
    /\ Entry(f) # None
    /\ tcp' = [tcp EXCEPT ![f] = "open"]
    /\ served' = [served EXCEPT ![f] = Entry(f)]
    /\ relay' = [relay EXCEPT ![f] = "running"]
    /\ UNCHANGED <<app, sessions, listener, loop, reported, cut>>

\* Variant: an unknown session stops the loop like an error of the listener.
AcceptUnknownStops(f) ==
    /\ tcp[f] = "queued"
    /\ listener = "open"
    /\ loop = "running"
    /\ Entry(f) = None
    /\ tcp' = [tcp EXCEPT ![f] = "gone"]
    /\ loop' = "ended"
    /\ UNCHANGED <<app, sessions, relay, served, listener, reported, cut>>

\* "dropped unknown tcp session": the connection is closed, the loop goes on.
AcceptUnknown(f) ==
    /\ tcp[f] = "queued"
    /\ listener = "open"
    /\ loop = "running"
    /\ Entry(f) = None
    /\ tcp' = [tcp EXCEPT ![f] = "gone"]
    /\ UNCHANGED <<app, sessions, relay, served, listener, loop, reported, cut>>

\* handler.NewConnection returns; five seconds begin.
RelayEnds(f) ==
    /\ relay[f] = "running"
    /\ relay' = [relay EXCEPT ![f] = "sleeping"]
    /\ tcp' = [tcp EXCEPT ![f] = "gone"]
    /\ UNCHANGED <<app, sessions, served, listener, loop, reported, cut>>

RemoveEntry(k) ==
    /\ sessions' = [sessions EXCEPT ![k] = None]
    /\ cut' = cut \cup {f \in InKernel(k) : tcp[f] \in Established}

\* sessions.Delete(key), whoever uses the key by now.
DeleteSession(f) ==
    /\ relay[f] = "sleeping"
    /\ relay' = [relay EXCEPT ![f] = "done"]
    /\ RemoveEntry(Key(f))
    /\ UNCHANGED <<app, tcp, served, listener, loop, reported>>

\* The cache drops an entry that was not used for 300 seconds.
Expire(k) ==
    /\ sessions[k] # None
    /\ RemoveEntry(k)
    /\ UNCHANGED <<app, tcp, relay, served, listener, loop, reported>>

(* Close, and an error of the listener.                                       *)

ListenerEnds ==
    /\ listener = "open"
    /\ listener' \in {"closed", "failed"}
    /\ tcp' = [f \in Flows |-> IF tcp[f] \in {"half", "queued"} THEN "gone" ELSE tcp[f]]
    /\ UNCHANGED <<app, sessions, relay, served, loop, reported, cut>>

\* Accept fails: the loop ends, and reports unless the listener was closed.
LoopEnds ==
    /\ listener # "open"
    /\ loop = "running"
    /\ loop' = "ended"
    /\ reported' = (listener = "failed")
    /\ listener' = "closed"
    /\ UNCHANGED <<app, tcp, sessions, relay, served, cut>>

-------------------------------------------------------------------------------
Dispatch(f) == Accept(f) \/ AcceptUnknown(f)

Next ==
    \/ \E f \in Flows :
        \/ Syn(f) \/ Packet(f) \/ AppCloses(f) \/ SynAck(f) \/ SynAckRefused(f)
        \/ Dispatch(f) \/ RelayEnds(f) \/ DeleteSession(f)
    \/ \E k \in Keys : Expire(k)
    \/ ListenerEnds \/ LoopEnds

Spec == Init /\ [][Next]_vars

\* The accept loop runs, and a goroutine that sleeps wakes up.
Fairness ==
    /\ WF_vars(LoopEnds)
    /\ \A f \in Flows : WF_vars(Dispatch(f)) /\ WF_vars(DeleteSession(f))

FairSpec == Spec /\ Fairness

-------------------------------------------------------------------------------
(* Properties.                                                                *)

\* The key leaves out the port an app dials, so connections to two ports of a host
\* from one source port share an entry.  They are kept apart all the same: a
\* connection is established only when the entry is its own, its packets go back to
\* its app and it is dispatched to the port it dialed, unless its entry was removed
\* under it by expiry or by the late Delete of an earlier connection of its key.
RoutedRight ==
    \A f \in Flows \ cut :
        /\ tcp[f] \in Established => Entry(f) = EndOf[f]
        /\ served[f] \in {None, EndOf[f]}

\* One connection without an entry does not stop the loop: every connection that is
\* waiting to be accepted is taken, while the listener lives.
QueueMoves == \A f \in Flows : tcp[f] = "queued" ~> tcp[f] # "queued"
===============================================================================
