------------------------------- MODULE LocalDns -------------------------------
(***************************************************************************)
(* The localTransport (dns.go) that puts the app's resolver behind the     *)
(* local DNS client.  ExchangeRaw and Lookup hand the call of the resolver *)
(* to a goroutine of task.Run and return when that ends or the context is  *)
(* done, whichever they notice; the goroutine and the callbacks of the app *)
(* on the QueryContext go on either way.                                   *)
(***************************************************************************)
EXTENDS Naturals, Sequences

CONSTANTS
    Queries,   \* callers, with one query at a time
    MaxIps     \* bound on the number of lines in an answer

ASSUME DnsAssumption == MaxIps \in Nat

VARIABLES
    asked,      \* where the caller is, and what its call returned
    task,       \* the goroutine that calls the resolver
    query,      \* the QueryContext: ips or message, and error
    response,   \* the variable that the goroutine and the return share
    ctxDone,    \* the queries whose context is done
    hook,       \* the goroutine of OnCancel
    garbled     \* history: queries answered with a line that does not parse

dnsVars == <<asked, task, query, response, ctxDone, hook, garbled>>

\* net.ParseIP makes an address of a line, or nil when it does not parse (a scoped
\* address); the nil stays in the list.  A message is never parsed: of it the model
\* keeps whether it is empty.
Parsed == {"ip", "nil"}
Answers == UNION {[1 .. n -> Parsed] : n \in 0 .. MaxIps}
Messages == {<<>>, <<"ip">>}
HasNil(answer) == \E i \in DOMAIN answer : answer[i] = "nil"

NoQuery == [answer |-> <<>>, error |-> FALSE]
Unasked == [pc |-> "idle", kind |-> "lookup", err |-> FALSE, value |-> <<>>]

DnsInit ==
    /\ asked = [q \in Queries |-> Unasked]
    /\ task = [q \in Queries |-> "none"]
    /\ query = [q \in Queries |-> NoQuery]
    /\ response = [q \in Queries |-> <<>>]
    /\ ctxDone = {}
    /\ hook = [q \in Queries |-> "none"]
    /\ garbled = {}

-------------------------------------------------------------------------------
\* ExchangeRaw or Lookup is called: a fresh QueryContext, task.Run's goroutine.
\* The caller's number is free again when its last goroutine has ended.
Ask(q, kind) ==
    /\ asked[q].pc = "idle"
    /\ task[q] = "none"
    /\ asked' = [asked EXCEPT ![q] = [Unasked EXCEPT !.pc = "run", !.kind = kind]]
    /\ task' = [task EXCEPT ![q] = "resolver"]
    /\ garbled' = garbled \ {q}
    /\ UNCHANGED <<query, response, ctxDone, hook>>

(* The app's resolver, on the goroutine.                                      *)

\* QueryContext.OnCancel
OnCancel(q) ==
    /\ task[q] = "resolver"
    /\ hook[q] = "none"
    /\ hook' = [hook EXCEPT ![q] = "waiting"]
    /\ UNCHANGED <<asked, task, query, response, ctxDone, garbled>>

\* QueryContext.Success, which drops blank lines and no others, and RawSuccess
Success(q) ==
    /\ task[q] = "resolver"
    /\ \E answer \in (IF asked[q].kind = "raw" THEN Messages ELSE Answers) :
           /\ query' = [query EXCEPT ![q].answer = answer]
           /\ garbled' = IF HasNil(answer) THEN garbled \cup {q} ELSE garbled \ {q}
    /\ UNCHANGED <<asked, task, response, ctxDone, hook>>

\* QueryContext.ErrorCode and Errno
Error(q) ==
    /\ task[q] = "resolver"
    /\ ~query[q].error
    /\ query' = [query EXCEPT ![q].error = TRUE]
    /\ UNCHANGED <<asked, task, response, ctxDone, hook, garbled>>

\* QueryRaw or LookupIP returns without an error.
ResolverReturns(q) ==
    /\ task[q] = "resolver"
    /\ task' = [task EXCEPT ![q] = "examine"]
    /\ UNCHANGED <<asked, query, response, ctxDone, hook, garbled>>

ResolverFails(q) ==
    /\ task[q] = "resolver"
    /\ task' = [task EXCEPT ![q] = "failed"]
    /\ UNCHANGED <<asked, query, response, ctxDone, hook, garbled>>

\* query.error ends the task before the response is set.
Examine(q) ==
    /\ task[q] = "examine"
    /\ task' = [task EXCEPT ![q] = IF query[q].error THEN "failed" ELSE "answer"]
    /\ UNCHANGED <<asked, query, response, ctxDone, hook, garbled>>

\* response = ...; a list without an entry is an error of Lookup
\* (dns.ErrEmptyResponse), a list of nil is not.
Answer(q) ==
    /\ task[q] = "answer"
    /\ response' = [response EXCEPT ![q] = query[q].answer]
    /\ task' = [task EXCEPT ![q] =
                  IF asked[q].kind # "raw" /\ query[q].answer = <<>> THEN "failed" ELSE "ok"]
    /\ UNCHANGED <<asked, query, ctxDone, hook, garbled>>

-------------------------------------------------------------------------------
(* The caller, in task.Run, and its context.                                  *)

\* The context is cancelled or its deadline passes.
ContextEnds(q) ==
    /\ asked[q].pc = "run"
    /\ q \notin ctxDone
    /\ ctxDone' = ctxDone \cup {q}
    /\ UNCHANGED <<asked, task, query, response, hook, garbled>>

Return(q, err) ==
    asked' = [asked EXCEPT ![q].pc = "returned", ![q].err = err, ![q].value = response[q]]

\* Variant: response is read before task.Run is called.
RunSucceedsEarly(q) ==
    /\ asked[q].pc = "run"
    /\ task[q] = "ok"
    /\ asked' = [asked EXCEPT ![q].pc = "returned", ![q].err = FALSE, ![q].value = <<>>]
    /\ UNCHANGED <<task, query, response, ctxDone, hook, garbled>>

\* return response, task.Run(...): the compiler loads response, a variable that
\* the closure captures, after the call.
RunSucceeds(q) ==
    /\ asked[q].pc = "run"
    /\ task[q] = "ok"
    /\ Return(q, FALSE)
    /\ UNCHANGED <<task, query, response, ctxDone, hook, garbled>>

RunFails(q) ==
    /\ asked[q].pc = "run"
    /\ task[q] = "failed"
    /\ Return(q, TRUE)
    /\ UNCHANGED <<task, query, response, ctxDone, hook, garbled>>

\* <-ctx.Done() wins, even over a goroutine that has just ended.
RunCancelled(q) ==
    /\ asked[q].pc = "run"
    /\ q \in ctxDone
    /\ Return(q, TRUE)
    /\ UNCHANGED <<task, query, response, ctxDone, hook, garbled>>

\* The callback of OnCancel, on the goroutine of its own.
CancelCallback(q) ==
    /\ hook[q] = "waiting"
    /\ q \in ctxDone
    /\ hook' = [hook EXCEPT ![q] = "called"]
    /\ UNCHANGED <<asked, task, query, response, ctxDone, garbled>>

\* The caller has taken the result and cancels its context; when the goroutines
\* of the query are gone too the caller may ask again.
Forget(q) ==
    /\ asked[q].pc = "returned"
    /\ asked' = [asked EXCEPT ![q] = Unasked]
    /\ ctxDone' = ctxDone \cup {q}
    /\ UNCHANGED <<task, query, response, hook, garbled>>

Collect(q) ==
    /\ asked[q].pc = "idle"
    /\ task[q] \in {"ok", "failed"}
    /\ hook[q] # "waiting"
    /\ task' = [task EXCEPT ![q] = "none"]
    /\ query' = [query EXCEPT ![q] = NoQuery]
    /\ response' = [response EXCEPT ![q] = <<>>]
    /\ hook' = [hook EXCEPT ![q] = "none"]
    /\ ctxDone' = ctxDone \ {q}
    /\ UNCHANGED <<asked, garbled>>

Run(q) == RunSucceeds(q) \/ RunFails(q) \/ RunCancelled(q)

Resolver(q) ==
    \/ OnCancel(q) \/ Success(q) \/ Error(q) \/ ResolverReturns(q) \/ ResolverFails(q)
    \/ Examine(q) \/ Answer(q)

QueryStep(q) == Resolver(q) \/ ContextEnds(q) \/ Run(q) \/ CancelCallback(q) \/ Collect(q)

-------------------------------------------------------------------------------
(* Properties.                                                                *)

\* A query that succeeds returns what the resolver answered, after the resolver
\* and with no error reported, and a lookup returns at least one entry, though it
\* may be the nil of a line that did not parse, however the end of the context and
\* the callbacks fall.
AnswerIsWhole ==
    \A q \in Queries :
        asked[q].pc = "returned" /\ ~asked[q].err =>
            /\ task[q] = "ok"
            /\ ~query[q].error
            /\ asked[q].value = query[q].answer
            /\ asked[q].kind = "lookup" => asked[q].value # <<>>
            /\ HasNil(asked[q].value) => q \in garbled
===============================================================================
