------------------------------ MODULE AppTraffic ------------------------------
(***************************************************************************)
(* The traffic counters of appStats beside its connections: the counting   *)
(* wrappers that NewConnection and NewPacket put around a connection, and  *)
(* ReadAppTraffics, which the app calls from threads of its own (stats.go).*)
(* One counter stands for uplink and downlink, which are treated alike.    *)
(***************************************************************************)
EXTENDS AppStats

CONSTANTS
    Readers,     \* the calls of ReadAppTraffics
    MaxTraffic   \* bound on the bytes of all connections

ASSUME TrafficAssumption == MaxTraffic \in Nat

VARIABLES
    uplink,        \* appStats.uplink
    uplinkTotal,   \* appStats.uplinkTotal
    reader,        \* each call: its step, its appStats and export.Uplink
    sent,          \* history: the bytes counted for each appStats
    reported       \* history: the bytes of each that UpdateStats was told of

trafficVars == <<uplink, uplinkTotal, reader, sent, reported>>
allVars == <<vars, trafficVars>>

TrafficInit ==
    /\ Init
    /\ uplink = [o \in Conns |-> 0]
    /\ uplinkTotal = [o \in Conns |-> 0]
    /\ reader = [r \in Readers |-> [pc |-> "start", stats |-> None, up |-> 0]]
    /\ sent = [o \in Conns |-> 0]
    /\ reported = [o \in Conns |-> 0]

\* A byte passes the wrapper of a connection.  The wrapper of a UDP session stays
\* in the hands of a resend that found it in udpTable, also when the session leaves.
Transfer(c) ==
    /\ pc[c] = "open" \/ (c \notin Tcp /\ pc[c] \in {"leave", "sum", "stamp", "unregister", "done"})
    /\ SumFunction(sent) < MaxTraffic
    /\ uplink' = [uplink EXCEPT ![stats[c]] = @ + 1]
    /\ sent' = [sent EXCEPT ![stats[c]] = @ + 1]
    /\ UNCHANGED <<vars, uplinkTotal, reader, reported>>

-------------------------------------------------------------------------------
(* ReadAppTraffics                                                            *)

\* appStats.Range comes to a uid.
ReadEntry(r, u) ==
    /\ reader[r].pc = "start"
    /\ table[u] # None
    /\ reader' = [reader EXCEPT ![r].pc = "swap", ![r].stats = table[u]]
    /\ UNCHANGED <<vars, uplink, uplinkTotal, sent, reported>>

\* Variant: the counter is read and not set to zero.
ReadSwapLoad(r) ==
    /\ reader[r].pc = "swap"
    /\ reader' = [reader EXCEPT ![r].pc = "add", ![r].up = uplink[reader[r].stats]]
    /\ UNCHANGED <<vars, uplink, uplinkTotal, sent, reported>>

\* atomic.SwapUint64(&stat.uplink, 0)
ReadSwap(r) ==
    /\ reader[r].pc = "swap"
    /\ reader' = [reader EXCEPT ![r].pc = "add", ![r].up = uplink[reader[r].stats]]
    /\ uplink' = [uplink EXCEPT ![reader[r].stats] = 0]
    /\ UNCHANGED <<vars, uplinkTotal, sent, reported>>

\* atomic.AddUint64(&stat.uplinkTotal, uplink)
ReadAdd(r) ==
    /\ reader[r].pc = "add"
    /\ reader' = [reader EXCEPT ![r].pc = "report"]
    /\ uplinkTotal' = [uplinkTotal EXCEPT ![reader[r].stats] = @ + reader[r].up]
    /\ UNCHANGED <<vars, uplink, sent, reported>>

\* listener.UpdateStats
Report(r) ==
    /\ reader[r].pc = "report"
    /\ reader' = [reader EXCEPT ![r].pc = "done"]
    /\ reported' = [reported EXCEPT ![reader[r].stats] = @ + reader[r].up]
    /\ UNCHANGED <<vars, uplink, uplinkTotal, sent>>

TrafficNext ==
    ~Panicked /\
        \/ \E c \in Conns : Transfer(c)
        \/ \E r \in Readers :
              \/ \E u \in Uids : ReadEntry(r, u)
              \/ ReadSwap(r) \/ ReadAdd(r) \/ Report(r)

NextWithTraffic == (Next /\ UNCHANGED trafficVars) \/ TrafficNext

TrafficSpec == TrafficInit /\ [][NextWithTraffic]_allVars

-------------------------------------------------------------------------------
(* Properties.                                                                *)

\* The bytes that calls have in hand, one pair for each, and the number of those that
\* the calls at one step have of an appStats.
Bytes(calls) == UNION {{r} \X (1 .. calls[r].up) : r \in Readers}
BytesAt(calls, o, step) ==
    {b \in Bytes(calls) : calls[b[1]].pc = step /\ calls[b[1]].stats = o}
InHand(o, step) == Cardinality(BytesAt(reader, o, step))

\* Every byte of an app is reported once: it is in the counter, in the hands of a
\* call of ReadAppTraffics, or told; the total an app is shown is that of the bytes
\* it was told of or is about to be, however connections and calls interleave.
TrafficConserved ==
    \A o \in Conns :
        /\ sent[o] = uplink[o] + InHand(o, "add") + uplinkTotal[o]
        /\ uplinkTotal[o] = InHand(o, "report") + reported[o]
===============================================================================
