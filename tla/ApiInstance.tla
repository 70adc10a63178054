------------------------------ MODULE ApiInstance ------------------------------
(***************************************************************************)
(* The discovery responder: ApiInstance (api.go).  Start opens a UDP       *)
(* socket and starts a goroutine that answers the queries of other devices *)
(* until it finds the instance stopped; Close clears the flag and closes   *)
(* the socket.  Start and Close exclude each other with a mutex; the loop  *)
(* reads started and conn without it.                                      *)
(*                                                                         *)
(* A socket and a loop are named by the number of the Start that made      *)
(* them; 0 is no socket.                                                   *)
(***************************************************************************)
EXTENDS Naturals

CONSTANTS
    Queries,     \* datagrams that reach the port
    Kind,        \* of each: "query", "old" (answered with an upgrade notice), "bad"
    MaxStarts,   \* bound on the Start calls that get a socket
    NoQuery      \* no query

ASSUME ApiAssumption ==
    /\ NoQuery \notin Queries
    /\ Kind \in [Queries -> {"query", "old", "bad"}]
    /\ MaxStarts \in Nat

Starts == 1 .. MaxStarts

VARIABLES
    access,    \* who holds the mutex
    started,   \* ApiInstance.started
    conn,      \* ApiInstance.conn
    starts,    \* sockets made so far
    open,      \* the sockets that are open
    loops,     \* where the loop of each Start is
    reading,   \* the socket it reads from
    query,     \* the query it has read
    inbox,     \* the socket in whose buffer each query waits; 0 is none
    answers    \* how often each query was answered

callVars == <<access, started, conn, starts, open>>
loopVars == <<loops, reading, query>>
apiVars == <<callVars, loopVars, inbox, answers>>

ApiTypeOK ==
    /\ access \in {"free", "start", "fail", "close"}
    /\ started \in BOOLEAN
    /\ conn \in 0 .. MaxStarts
    /\ starts \in 0 .. MaxStarts
    /\ open \subseteq Starts
    /\ loops \in [Starts -> {"none", "check", "conn", "receive", "parse", "log", "done"}]
    /\ reading \in [Starts -> 0 .. MaxStarts]
    /\ query \in [Starts -> Queries \cup {NoQuery}]
    /\ inbox \in [Queries -> 0 .. MaxStarts]
    /\ answers \in [Queries -> Nat]

ApiInit ==
    /\ access = "free"
    /\ started = FALSE
    /\ conn = 0
    /\ starts = 0
    /\ open = {}
    /\ loops = [i \in Starts |-> "none"]
    /\ reading = [i \in Starts |-> 0]
    /\ query = [i \in Starts |-> NoQuery]
    /\ inbox = [q \in Queries |-> 0]
    /\ answers = [q \in Queries |-> 0]

Goto(i, l) == loops' = [loops EXCEPT ![i] = l]

-------------------------------------------------------------------------------
(* Start                                                                      *)

\* ListenUDP gets the port, unless a socket still has it.
StartListens ==
    /\ access = "free"
    /\ ~started
    /\ starts < MaxStarts
    /\ open = {}
    /\ access' = "start"
    /\ starts' = starts + 1
    /\ conn' = starts + 1
    /\ open' = open \cup {starts + 1}
    /\ UNCHANGED <<started, loopVars, inbox, answers>>

\* ListenUDP fails: conn is nil and Start returns the error.
StartFails ==
    /\ access = "free"
    /\ ~started
    /\ conn' = 0
    /\ UNCHANGED <<access, started, starts, open, loopVars, inbox, answers>>

\* started = true; go loop()
StartRuns ==
    /\ access = "start"
    /\ access' = "free"
    /\ started' = TRUE
    /\ Goto(conn, "check")
    /\ UNCHANGED <<conn, starts, open, reading, query, inbox, answers>>

(* Close                                                                      *)

CloseClears ==
    /\ access = "free"
    /\ started
    /\ access' = "close"
    /\ started' = FALSE
    /\ UNCHANGED <<conn, starts, open, loopVars, inbox, answers>>

\* Variant: Close only clears the flag.
CloseSocketForgotten ==
    /\ access = "close"
    /\ access' = "free"
    /\ UNCHANGED <<started, conn, starts, open, loopVars, inbox, answers>>

\* Closing the socket loses what waits in its buffer.
CloseSocket ==
    /\ access = "close"
    /\ access' = "free"
    /\ open' = open \ {conn}
    /\ inbox' = [q \in Queries |-> IF inbox[q] = conn THEN 0 ELSE inbox[q]]
    /\ UNCHANGED <<started, conn, starts, loopVars, answers>>

-------------------------------------------------------------------------------
(* loop                                                                       *)

\* for i.started {
LoopChecks(i) ==
    /\ loops[i] = "check"
    /\ Goto(i, IF started THEN "conn" ELSE "done")
    /\ UNCHANGED <<callVars, reading, query, inbox, answers>>

\* i.conn.ReadFrom: the socket is the conn of this moment.
LoopReadsConn(i) ==
    /\ loops[i] = "conn"
    /\ reading' = [reading EXCEPT ![i] = conn]
    /\ Goto(i, "receive")
    /\ UNCHANGED <<callVars, query, inbox, answers>>

LoopReceives(i) ==
    /\ loops[i] = "receive"
    /\ reading[i] \in open
    /\ \E q \in Queries :
        /\ inbox[q] = reading[i]
        /\ inbox' = [inbox EXCEPT ![q] = 0]
        /\ query' = [query EXCEPT ![i] = q]
    /\ Goto(i, "parse")
    /\ UNCHANGED <<callVars, reading, answers>>

\* Variant: the read is tried again without a look at started.
ReadFailsRetries(i) ==
    /\ loops[i] = "receive"
    /\ reading[i] \notin open
    /\ UNCHANGED apiVars

\* The socket is closed, or nil: continue.
ReadFails(i) ==
    /\ loops[i] = "receive"
    /\ reading[i] \notin open
    /\ Goto(i, "check")
    /\ UNCHANGED <<callVars, reading, query, inbox, answers>>

\* The reply goes out over the conn of this moment, or fails if that is closed.
Reply(q) ==
    answers' = IF conn \in open THEN [answers EXCEPT ![q] = @ + 1] ELSE answers

LoopAnswers(i) ==
    /\ loops[i] = "parse"
    /\ Kind[query[i]] = "query"
    /\ Reply(query[i])
    /\ Goto(i, "check")
    /\ UNCHANGED <<callVars, reading, query, inbox>>

\* A query of another version gets the notice and then is logged as an error.
LoopNotifies(i) ==
    /\ loops[i] = "parse"
    /\ Kind[query[i]] = "old"
    /\ Reply(query[i])
    /\ Goto(i, "log")
    /\ UNCHANGED <<callVars, reading, query, inbox>>

LoopRejects(i) ==
    /\ loops[i] = "parse"
    /\ Kind[query[i]] = "bad"
    /\ Goto(i, "log")
    /\ UNCHANGED <<callVars, reading, query, inbox, answers>>

LoopLogs(i) ==
    /\ loops[i] = "log"
    /\ Goto(i, "check")
    /\ UNCHANGED <<callVars, reading, query, inbox, answers>>

\* A query arrives at the port while a socket is open on it.
Arrive(q) ==
    /\ inbox[q] = 0
    /\ answers[q] = 0
    /\ \A i \in Starts : query[i] # q
    /\ open # {}
    /\ inbox' = [inbox EXCEPT ![q] = CHOOSE s \in open : TRUE]
    /\ UNCHANGED <<callVars, loopVars, answers>>

-------------------------------------------------------------------------------
Call == StartListens \/ StartFails \/ StartRuns \/ CloseClears \/ CloseSocket
Loop(i) ==
    \/ LoopChecks(i) \/ LoopReadsConn(i) \/ LoopReceives(i) \/ ReadFails(i)
    \/ LoopAnswers(i) \/ LoopNotifies(i) \/ LoopRejects(i) \/ LoopLogs(i)

ApiNext == Call \/ (\E i \in Starts : Loop(i)) \/ (\E q \in Queries : Arrive(q))

ApiSpec == ApiInit /\ [][ApiNext]_apiVars

\* A call that has begun finishes, and the loops run.
ApiFairness ==
    /\ WF_apiVars(StartRuns \/ CloseSocket)
    /\ \A i \in Starts : WF_apiVars(Loop(i))

ApiFairSpec == ApiSpec /\ ApiFairness

-------------------------------------------------------------------------------
(* Properties.                                                                *)

\* At most one socket is open, and it is the one Close would close: no sequence of
\* Start, failing Start and Close leaves a socket on the port that nobody holds.
NoSocketLeak == open \subseteq {conn}

\* A stopped instance's loops end, unless it is started again first.
CloseEndsLoops ==
    ~started ~> started \/ access = "start" \/ \A i \in Starts : loops[i] \in {"none", "done"}
===============================================================================
