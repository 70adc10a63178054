------------------------- MODULE ProtectedDialProofs -------------------------
(***************************************************************************)
(* Proofs about ProtectedDial and LocalDns, for any goroutines, numbers of *)
(* descriptors and sizes of answers.                                       *)
(***************************************************************************)
EXTENDS ProtectedDial, SequenceTheorems, TLAPS

(* The local DNS client.                                                      *)

Lists == Seq(Parsed)

DnsType ==
    /\ asked \in [Queries -> [pc : {"idle", "run", "returned"}, kind : {"lookup", "raw"},
                              err : BOOLEAN, value : Lists]]
    /\ task \in [Queries -> {"none", "resolver", "examine", "answer", "ok", "failed"}]
    /\ query \in [Queries -> [answer : Lists, error : BOOLEAN]]
    /\ response \in [Queries -> Lists]

\* What the goroutine has found out so far.
TaskInv ==
    \A q \in Queries :
        /\ task[q] \in {"answer", "ok"} => ~query[q].error
        /\ task[q] = "ok" =>
               /\ response[q] = query[q].answer
               /\ asked[q].pc # "idle" /\ asked[q].kind = "lookup" => query[q].answer # <<>>
        /\ task[q] \in {"none", "resolver", "examine", "answer"} => response[q] = <<>>
        /\ task[q] = "resolver" => asked[q].value = <<>>
        /\ task[q] = "none" => query[q].answer = <<>> /\ asked[q].pc = "idle"
        /\ asked[q].pc # "returned" => asked[q].value = <<>>

\* A nil is of an answer that did not parse.
NilInv ==
    \A q \in Queries :
        /\ HasNil(query[q].answer) => q \in garbled
        /\ HasNil(response[q]) => q \in garbled
        /\ HasNil(asked[q].value) => q \in garbled

DnsInv == DnsType /\ TaskInv /\ NilInv /\ AnswerIsWhole

(* The dials.                                                                 *)

Holding == {"protect", "connect", "file", "close"}
Bare == {"idle", "resolve", "socket", "next", "done", "panic"}

DialType ==
    /\ pc \in [Dialers -> Holding \cup Bare]
    /\ net \in [Dialers -> {"tcp", "udp"}]
    /\ fd \in [Dialers -> 0 .. MaxFd]
    /\ conn \in [Dialers -> 0 .. MaxFd]
    /\ err \in [Dialers -> BOOLEAN]
    /\ file \in [Fds -> [by : Dialers \cup {"none"}, protected : BOOLEAN, used : BOOLEAN]]
    /\ dupLost \subseteq Dialers
    /\ \A s \in Dialers : pc[s] = "resolve" => s \in Queries

\* The descriptors of a dial are its own, as far along as the dial.
DescriptorsOf(s) ==
    /\ IF pc[s] \in Holding THEN fd[s] \in Fds /\ file[fd[s]].by = s ELSE fd[s] = 0
    /\ pc[s] \in {"connect", "file", "close"} => file[fd[s]].protected
    /\ pc[s] \in {"file", "close"} => file[fd[s]].used
    /\ conn[s] # 0 => /\ pc[s] \in {"close", "next", "done"}
                      /\ file[conn[s]].by = s /\ file[conn[s]].used
                      /\ conn[s] # fd[s]

\* What the dial has to show for itself.
ResultOf(s) ==
    /\ err[s] => conn[s] = 0 /\ pc[s] \in {"close", "next", "done"}
    /\ pc[s] \in {"close", "next", "done"} => conn[s] # 0 \/ err[s] \/ s \in dupLost

OwnerInv ==
    \A f \in Fds : file[f] # Closed => file[f].by \in Dialers /\ f \in {fd[file[f].by], conn[file[f].by]}

UsedInv == \A f \in Fds : file[f].used => file[f].protected

DescriptorsInv == \A s \in Dialers : DescriptorsOf(s)
ResultInv == \A s \in Dialers : ResultOf(s)

\* A nil among the addresses is of the answer to the dial's own query, which has
\* been answered for good.
IpsInv ==
    /\ ips \in [Dialers -> Lists]
    /\ \A s \in Dialers :
        /\ pc[s] \in {"idle", "resolve"} => ips[s] = <<>>
        /\ pc[s] = "socket" => ips[s] # <<>>
        /\ HasNil(ips[s]) => s \in Queries /\ s \in garbled /\ task[s] \in {"ok", "none"}
        /\ pc[s] = "panic" => s \in Queries /\ s \in garbled

FdInv == DialType /\ DescriptorsInv /\ ResultInv /\ OwnerInv /\ UsedInv

Inv == DnsInv /\ FdInv /\ IpsInv

LEMMA EmptyHasNoNil == ~HasNil(<<>>)
BY DEF HasNil

\* A bounded answer is a sequence.
LEMMA AnswerIsList == Answers \subseteq Lists /\ Messages \subseteq Lists
<1>1. ASSUME NEW n \in 0 .. MaxIps, NEW a \in [1 .. n -> Parsed]
      PROVE  a \in Lists
  BY <1>1, SeqDef DEF Lists
<1>2. Messages \subseteq Lists
  BY DEF Messages, Lists, Parsed
<1>. QED
  BY <1>1, <1>2 DEF Answers

LEMMA Initial == Init => Inv
<1>. SUFFICES ASSUME Init PROVE Inv
  OBVIOUS
<1>. USE DnsAssumption, DialAssumption DEF Init, DnsInit
<1>1. DnsInv
  BY EmptyHasNoNil DEF DnsInv, DnsType, TaskInv, NilInv, AnswerIsWhole, Unasked, NoQuery, Lists
<1>2. DialType
  BY DEF DialType, Holding, Bare, Closed, Fds
<1>3. DescriptorsInv /\ ResultInv /\ OwnerInv /\ UsedInv
  BY DEF DescriptorsInv, ResultInv, DescriptorsOf, ResultOf, OwnerInv, UsedInv, Holding, Closed
<1>4. IpsInv
  BY EmptyHasNoNil DEF IpsInv, Lists
<1>. QED
  BY <1>1, <1>2, <1>3, <1>4 DEF Inv, FdInv

-------------------------------------------------------------------------------
(* The steps of a query.                                                      *)

LEMMA ResolverStep ==
    ASSUME DnsInv, NEW q \in Queries, Resolver(q)
    PROVE  DnsInv'
<1>1. CASE OnCancel(q)
  BY <1>1 DEF OnCancel, DnsInv, DnsType, TaskInv, NilInv, AnswerIsWhole
<1>2. CASE Success(q)
  <2>1. PICK answer \in Lists :
            /\ query' = [query EXCEPT ![q].answer = answer]
            /\ garbled' = IF HasNil(answer) THEN garbled \cup {q} ELSE garbled \ {q}
    BY <1>2, AnswerIsList DEF Success
  <2>2. /\ query' \in [Queries -> [answer : Lists, error : BOOLEAN]]
        /\ query'[q].answer = answer
        /\ \A p \in Queries : /\ query'[p].error = query[p].error
                              /\ p # q => query'[p] = query[p]
    BY <2>1 DEF DnsInv, DnsType
  <2>3. /\ UNCHANGED <<asked, task, response>> /\ task[q] = "resolver"
        /\ response[q] = <<>> /\ asked[q].value = <<>>
    BY <1>2 DEF Success, DnsInv, TaskInv
  <2>4. NilInv'
    BY <2>1, <2>2, <2>3, EmptyHasNoNil DEF DnsInv, NilInv
  <2>. QED
    <3>1. DnsType' /\ TaskInv'
      BY <2>2, <2>3 DEF DnsInv, DnsType, TaskInv
    <3>2. AnswerIsWhole'
      BY <2>2, <2>3, <2>4 DEF DnsInv, NilInv, AnswerIsWhole
    <3>. QED
      BY <2>4, <3>1, <3>2 DEF DnsInv
<1>3. CASE Error(q)
  <2>1. /\ query' \in [Queries -> [answer : Lists, error : BOOLEAN]]
        /\ \A p \in Queries : /\ query'[p].answer = query[p].answer
                              /\ p # q => query'[p] = query[p]
    BY <1>3 DEF Error, DnsInv, DnsType
  <2>. QED
    BY <1>3, <2>1 DEF Error, DnsInv, DnsType, TaskInv, NilInv, AnswerIsWhole
<1>4. CASE ResolverReturns(q) \/ ResolverFails(q)
  <2>1. /\ UNCHANGED <<asked, query, response, garbled>> /\ task[q] = "resolver"
        /\ \A p \in Queries \ {q} : task'[p] = task[p]
        /\ task'[q] \in {"examine", "failed"}
        /\ task' \in [Queries -> {"none", "resolver", "examine", "answer", "ok", "failed"}]
    BY <1>4 DEF ResolverReturns, ResolverFails, DnsInv, DnsType
  <2>. QED
    BY <2>1 DEF DnsInv, DnsType, TaskInv, NilInv, AnswerIsWhole
<1>5. CASE Examine(q)
  BY <1>5 DEF Examine, DnsInv, DnsType, TaskInv, NilInv, AnswerIsWhole
<1>6. CASE Answer(q)
  BY <1>6 DEF Answer, DnsInv, DnsType, TaskInv, NilInv, AnswerIsWhole
<1>. QED
  BY <1>1, <1>2, <1>3, <1>4, <1>5, <1>6 DEF Resolver

\* The steps of the caller.
LEMMA CallerStep ==
    ASSUME DnsInv, NEW q \in Queries,
           ContextEnds(q) \/ Run(q) \/ CancelCallback(q) \/ Collect(q) \/ Forget(q)
             \/ \E kind \in {"lookup", "raw"} : Ask(q, kind)
    PROVE  DnsInv'
<1>1. CASE ContextEnds(q) \/ CancelCallback(q)
  BY <1>1 DEF ContextEnds, CancelCallback, DnsInv, DnsType, TaskInv, NilInv, AnswerIsWhole
<1>2. CASE Run(q)
  <2>1. UNCHANGED <<task, query, response, garbled>> /\ asked[q].pc = "run"
    BY <1>2 DEF Run, RunSucceeds, RunFails, RunCancelled
  <2>2. PICK failed \in BOOLEAN : (failed \/ task[q] = "ok") /\ Return(q, failed)
    BY <1>2 DEF Run, RunSucceeds, RunFails, RunCancelled
  <2>. DEFINE r == [asked[q] EXCEPT !.pc = "returned", !.err = failed, !.value = response[q]]
  <2>3. asked' = [asked EXCEPT ![q] = r]
    BY <2>2 DEF Return, DnsInv, DnsType
  <2>4. /\ r \in [pc : {"idle", "run", "returned"}, kind : {"lookup", "raw"},
                  err : BOOLEAN, value : Lists]
        /\ r.kind = asked[q].kind /\ r.err = failed /\ r.value = response[q] /\ r.pc = "returned"
    BY DEF DnsInv, DnsType
  <2>. HIDE DEF r
  <2>5. DnsType' /\ asked'[q] = r /\ \A p \in Queries \ {q} : asked'[p] = asked[p]
    BY <2>1, <2>3, <2>4 DEF DnsInv, DnsType
  <2>6. TaskInv'
    BY <2>1, <2>4, <2>5 DEF DnsInv, TaskInv
  <2>7. NilInv'
    BY <2>1, <2>4, <2>5 DEF DnsInv, NilInv
  <2>8. AnswerIsWhole'
    BY <2>1, <2>2, <2>4, <2>5 DEF DnsInv, NilInv, TaskInv, AnswerIsWhole
  <2>. QED
    BY <2>5, <2>6, <2>7, <2>8 DEF DnsInv
<1>3. CASE Collect(q)
  BY <1>3, EmptyHasNoNil DEF Collect, NoQuery, DnsInv, DnsType, TaskInv, NilInv, AnswerIsWhole, Lists
<1>4. CASE Forget(q)
  <2>1. /\ UNCHANGED <<task, query, response, garbled>>
        /\ asked' = [asked EXCEPT ![q] = Unasked]
    BY <1>4 DEF Forget
  <2>2. Unasked \in [pc : {"idle", "run", "returned"}, kind : {"lookup", "raw"},
                     err : BOOLEAN, value : Lists]
    BY DEF Unasked, Lists
  <2>3. DnsType' /\ \A p \in Queries \ {q} : asked'[p] = asked[p]
    BY <2>1, <2>2 DEF DnsInv, DnsType
  <2>4. asked'[q].pc = "idle" /\ asked'[q].value = <<>>
    BY <2>1 DEF Unasked, DnsInv, DnsType
  <2>. QED
    BY <2>1, <2>3, <2>4, EmptyHasNoNil DEF DnsInv, TaskInv, NilInv, AnswerIsWhole
<1>5. CASE \E kind \in {"lookup", "raw"} : Ask(q, kind)
  <2>1. /\ UNCHANGED <<query, response>> /\ garbled' = garbled \ {q}
        /\ task' = [task EXCEPT ![q] = "resolver"]
        /\ response[q] = <<>> /\ query[q].answer = <<>>
    BY <1>5 DEF Ask, DnsInv, TaskInv
  <2>2. PICK kind \in {"lookup", "raw"} :
            asked' = [asked EXCEPT ![q] = [Unasked EXCEPT !.pc = "run", !.kind = kind]]
    BY <1>5 DEF Ask
  <2>3. /\ DnsType' /\ (\A p \in Queries \ {q} : asked'[p] = asked[p])
        /\ asked'[q].pc = "run" /\ asked'[q].value = <<>>
    BY <2>1, <2>2 DEF Unasked, DnsInv, DnsType, Lists
  <2>. QED
    BY <2>1, <2>3, EmptyHasNoNil DEF DnsInv, DnsType, TaskInv, NilInv, AnswerIsWhole
<1>. QED
  BY <1>1, <1>2, <1>3, <1>4, <1>5

-------------------------------------------------------------------------------
(* The steps of a dial.                                                       *)

\* What a step of s does not touch: the other dials and their descriptors.
Aside(s) ==
    /\ \A t \in Dialers \ {s} :
           pc'[t] = pc[t] /\ fd'[t] = fd[t] /\ conn'[t] = conn[t] /\ err'[t] = err[t]
             /\ (t \in dupLost => t \in dupLost')
    /\ \A f \in Fds : file[f].by \in Dialers \ {s} => file'[f] = file[f]

\* It is enough to look at the dial that steps.
LEMMA OneDial ==
    ASSUME FdInv, NEW s \in Dialers, Aside(s), DialType', DescriptorsOf(s)', ResultOf(s)',
           OwnerInv', UsedInv'
    PROVE  FdInv'
<1>. SUFFICES ASSUME NEW t \in Dialers \ {s}
              PROVE  DescriptorsOf(t)' /\ ResultOf(t)'
  BY DEF FdInv, DescriptorsInv, ResultInv
<1>1. DescriptorsOf(t) /\ ResultOf(t)
  BY DEF FdInv, DescriptorsInv, ResultInv
<1>2. pc'[t] = pc[t] /\ fd'[t] = fd[t] /\ conn'[t] = conn[t] /\ err'[t] = err[t]
      /\ (t \in dupLost => t \in dupLost')
  BY DEF Aside
<1>3. pc[t] \in Holding => fd[t] \in Fds /\ file[fd[t]].by = t /\ file'[fd[t]] = file[fd[t]]
  BY <1>1 DEF DescriptorsOf, Aside
<1>4. conn[t] # 0 => conn[t] \in Fds /\ file'[conn[t]] = file[conn[t]]
  BY <1>1, DialAssumption DEF DescriptorsOf, Aside, FdInv, DialType, Fds
<1>5. DescriptorsOf(t)'
  BY <1>1, <1>2, <1>3, <1>4 DEF DescriptorsOf, Holding
<1>6. ResultOf(t)'
  BY <1>1, <1>2 DEF ResultOf
<1>. QED
  BY <1>5, <1>6

\* Steps that leave the descriptors as they are.
LEMMA QuietStep ==
    ASSUME FdInv, NEW s \in Dialers,
           DialAddress(s) \/ DialDomain(s) \/ Resolved(s) \/ Unresolved(s) \/ TryNext(s)
             \/ DialNilPanics(s)
    PROVE  FdInv'
<1>. USE DialAssumption
<1>1. UNCHANGED <<fd, conn, file, dupLost>>
  BY DEF DialAddress, DialDomain, Resolved, Unresolved, TryNext, DialNilPanics
<1>2. DescriptorsOf(s) /\ ResultOf(s) /\ pc[s] \in Bare
  BY DEF FdInv, DescriptorsInv, ResultInv, DialAddress, DialDomain, Resolved, Unresolved, TryNext, DialNilPanics, Bare
<1>3. Aside(s) /\ DialType'
  <2>1. PICK step \in Bare : pc' = [pc EXCEPT ![s] = step]
    BY DEF DialAddress, DialDomain, Resolved, Unresolved, TryNext, DialNilPanics, Goto, Bare
  <2>2. net' \in [Dialers -> {"tcp", "udp"}]
    BY DEF DialAddress, DialDomain, Resolved, Unresolved, TryNext, DialNilPanics, FdInv, DialType
  <2>3. err' \in [Dialers -> BOOLEAN] /\ \A t \in Dialers \ {s} : err'[t] = err[t]
    BY DEF DialAddress, DialDomain, Resolved, Unresolved, TryNext, DialNilPanics, FdInv, DialType
  <2>4. \A t \in Dialers : pc'[t] = "resolve" => t \in Queries
    BY DEF DialAddress, DialDomain, Resolved, Unresolved, TryNext, DialNilPanics, Goto, FdInv, DialType
  <2>. QED
    BY <1>1, <2>1, <2>2, <2>3, <2>4 DEF Aside, FdInv, DialType
<1>4. DescriptorsOf(s)' /\ ResultOf(s)'
  <2>1. CASE DialAddress(s) \/ DialDomain(s) \/ Resolved(s)
    <3>1. /\ pc[s] \in {"idle", "resolve"} /\ pc'[s] \in {"resolve", "socket"}
          /\ err'[s] = err[s]
      BY <2>1 DEF DialAddress, DialDomain, Resolved, Goto, FdInv, DialType
    <3>. QED
      BY <1>1, <1>2, <3>1 DEF DescriptorsOf, ResultOf, Holding
  <2>2. CASE Unresolved(s)
    <3>1. pc[s] = "resolve" /\ pc'[s] = "done" /\ err'[s] = TRUE
      BY <2>2 DEF Unresolved, Goto, FdInv, DialType
    <3>. QED
      BY <1>1, <1>2, <3>1 DEF DescriptorsOf, ResultOf, Holding
  <2>3. CASE TryNext(s)
    <3>1. /\ pc[s] = "next"
          /\ \/ err[s] /\ pc'[s] = "socket" /\ err'[s] = FALSE
             \/ pc'[s] = "done" /\ err'[s] = err[s]
      BY <2>3 DEF TryNext, Goto, FdInv, DialType
    <3>. QED
      BY <1>1, <1>2, <3>1 DEF DescriptorsOf, ResultOf, Holding
  <2>4. CASE DialNilPanics(s)
    <3>1. pc[s] = "socket" /\ pc'[s] = "panic" /\ err'[s] = err[s]
      BY <2>4 DEF DialNilPanics, Goto, FdInv, DialType
    <3>. QED
      BY <1>1, <1>2, <3>1 DEF DescriptorsOf, ResultOf, Holding
  <2>. QED
    BY <2>1, <2>2, <2>3, <2>4
<1>5. OwnerInv' /\ UsedInv'
  BY <1>1 DEF FdInv, OwnerInv, UsedInv
<1>. QED
  BY <1>3, <1>4, <1>5, OneDial

\* The end of an attempt that failed.
LEMMA FailStep ==
    ASSUME FdInv, NEW s \in Dialers, Fail(s), pc[s] \in {"socket", "protect", "connect"}
    PROVE  FdInv'
<1>. USE DialAssumption
<1>1. fd[s] \in 0 .. MaxFd /\ DescriptorsOf(s) /\ ResultOf(s) /\ conn[s] = 0
  BY DEF FdInv, DialType, DescriptorsInv, DescriptorsOf, ResultInv
<1>2. /\ DialType'
      /\ pc'[s] = "next" /\ err'[s] = TRUE /\ fd'[s] = 0 /\ conn'[s] = 0
      /\ \A f \in Fds : file'[f] = IF f = fd[s] THEN Closed ELSE file[f]
  BY <1>1 DEF Fail, Goto, FdInv, DialType, Closed, Holding, Bare
<1>3. Aside(s)
  <2>1. \A t \in Dialers \ {s} : fd[s] \in Fds => file[fd[s]].by # t
    BY <1>1 DEF DescriptorsOf, Fds
  <2>. QED
    BY <1>2, <2>1 DEF Fail, Goto, FdInv, DialType, Aside
<1>4. DescriptorsOf(s)' /\ ResultOf(s)'
  BY <1>2 DEF DescriptorsOf, ResultOf, Holding
<1>5. OwnerInv' /\ UsedInv'
  <2>1. UsedInv'
    BY <1>2 DEF FdInv, UsedInv, Closed
  <2>2. OwnerInv'
    <3>. SUFFICES ASSUME NEW f \in Fds, file'[f] # Closed
                  PROVE  file'[f].by \in Dialers /\ f \in {fd'[file'[f].by], conn'[file'[f].by]}
      BY DEF OwnerInv
    <3>1. f # fd[s] /\ file'[f] = file[f] /\ f # 0
      BY <1>2 DEF Fds
    <3>2. file[f].by \in Dialers /\ f \in {fd[file[f].by], conn[file[f].by]}
      BY <3>1 DEF FdInv, OwnerInv
    <3>3. file[f].by # s
      BY <1>1, <3>1, <3>2
    <3>. QED
      BY <1>3, <3>1, <3>2, <3>3 DEF Aside
  <2>. QED
    BY <2>1, <2>2
<1>. QED
  BY <1>2, <1>3, <1>4, <1>5, OneDial

\* A descriptor of the dial gets on.
LEMMA AdvanceStep ==
    ASSUME FdInv, NEW s \in Dialers, Protect(s) \/ Connect(s)
    PROVE  FdInv'
<1>. USE DialAssumption
<1>1. /\ pc[s] \in {"protect", "connect"} /\ fd[s] \in Fds /\ file[fd[s]].by = s
      /\ DescriptorsOf(s) /\ ResultOf(s) /\ conn[s] = 0
  BY DEF Protect, Connect, FdInv, DescriptorsInv, DescriptorsOf, ResultInv, Holding
<1>2. /\ DialType'
      /\ UNCHANGED <<fd, conn, err, dupLost>>
      /\ \A t \in Dialers \ {s} : pc'[t] = pc[t]
      /\ \A f \in Fds \ {fd[s]} : file'[f] = file[f]
      /\ file'[fd[s]].by = s
  <2>1. PICK step \in Holding : pc' = [pc EXCEPT ![s] = step]
    BY DEF Protect, Connect, Goto, Holding
  <2>2. PICK r \in [by : {s}, protected : BOOLEAN, used : BOOLEAN] : file' = [file EXCEPT ![fd[s]] = r]
    <3>1. file[fd[s]] \in [by : {s}, protected : BOOLEAN, used : BOOLEAN]
      BY <1>1 DEF FdInv, DialType
    <3>2. CASE Protect(s)
      <4>1. [file[fd[s]] EXCEPT !.protected = TRUE] \in [by : {s}, protected : BOOLEAN, used : BOOLEAN]
        BY <3>1
      <4>2. file' = [file EXCEPT ![fd[s]] = [file[fd[s]] EXCEPT !.protected = TRUE]]
        BY <3>2 DEF Protect
      <4>. QED
        BY <4>1, <4>2
    <3>3. CASE Connect(s)
      <4>1. [file[fd[s]] EXCEPT !.used = TRUE] \in [by : {s}, protected : BOOLEAN, used : BOOLEAN]
        BY <3>1
      <4>2. file' = [file EXCEPT ![fd[s]] = [file[fd[s]] EXCEPT !.used = TRUE]]
        BY <3>3 DEF Connect
      <4>. QED
        BY <4>1, <4>2
    <3>. QED
      BY <3>2, <3>3
  <2>3. UNCHANGED <<fd, conn, err, dupLost, net>>
    BY DEF Protect, Connect
  <2>4. /\ pc' \in [Dialers -> Holding \cup Bare]
        /\ file' \in [Fds -> [by : Dialers \cup {"none"}, protected : BOOLEAN, used : BOOLEAN]]
        /\ \A t \in Dialers \ {s} : pc'[t] = pc[t]
        /\ \A t \in Dialers : pc'[t] = "resolve" => t \in Queries
    BY <1>1, <2>1, <2>2 DEF FdInv, DialType, Holding
  <2>5. (\A f \in Fds \ {fd[s]} : file'[f] = file[f]) /\ file'[fd[s]].by = s
    BY <1>1, <2>2 DEF FdInv, DialType
  <2>. QED
    BY <2>3, <2>4, <2>5 DEF FdInv, DialType
<1>3. Aside(s)
  BY <1>1, <1>2 DEF Aside
<1>4. /\ pc'[s] \in {"connect", "file"}
      /\ file'[fd[s]].protected
      /\ pc'[s] = "file" => file'[fd[s]].used
  BY <1>1 DEF Protect, Connect, Goto, FdInv, DialType, DescriptorsOf, Holding
<1>5. DescriptorsOf(s)' /\ ResultOf(s)'
  BY <1>1, <1>2, <1>4 DEF DescriptorsOf, ResultOf, Holding
<1>6. OwnerInv' /\ UsedInv'
  BY <1>1, <1>2, <1>4 DEF FdInv, OwnerInv, UsedInv
<1>. QED
  BY <1>2, <1>3, <1>5, <1>6, OneDial

\* A descriptor that was free becomes one of the dial.
LEMMA OpenStep ==
    ASSUME FdInv, NEW s \in Dialers, GetFd(s) \/ FileConn(s)
    PROVE  FdInv'
<1>. USE DialAssumption
<1>1. DescriptorsOf(s) /\ ResultOf(s) /\ conn[s] = 0 /\ pc[s] \in {"socket", "file"}
  BY DEF FdInv, DescriptorsInv, DescriptorsOf, ResultInv, GetFd, FileConn
<1>2. CASE GetFd(s)
  <2>1. PICK f \in Fds : /\ file[f] = Closed
                         /\ fd' = [fd EXCEPT ![s] = f] /\ file' = [file EXCEPT ![f] = Socket(s)]
    BY <1>2 DEF GetFd, Lowest, Free
  <2>2. UNCHANGED <<conn, err, dupLost>> /\ pc' = [pc EXCEPT ![s] = "protect"]
    BY <1>2 DEF GetFd, Goto
  <2>3. /\ DialType'
        /\ pc'[s] = "protect" /\ fd'[s] = f /\ fd[s] = 0
        /\ file'[f] = Socket(s)
        /\ \A g \in Fds \ {f} : file'[g] = file[g]
    <3>1. UNCHANGED <<net, ips>> /\ f \in 0 .. MaxFd
      BY <1>2 DEF GetFd, Fds
    <3>2. Socket(s) \in [by : Dialers \cup {"none"}, protected : BOOLEAN, used : BOOLEAN]
      BY DEF Socket
    <3>3. fd[s] = 0
      BY <1>1, <1>2 DEF DescriptorsOf, GetFd, Holding
    <3>. QED
      BY <2>1, <2>2, <3>1, <3>2, <3>3 DEF FdInv, DialType, Holding, Bare
  <2>4. Aside(s)
    BY <2>1, <2>2, <2>3 DEF Aside, FdInv, DialType, Closed
  <2>5. DescriptorsOf(s)' /\ ResultOf(s)'
    BY <1>1, <2>1, <2>2, <2>3 DEF DescriptorsOf, ResultOf, Holding, Socket
  <2>6. UsedInv'
    BY <2>3 DEF FdInv, UsedInv, Socket
  <2>7. OwnerInv'
    <3>. SUFFICES ASSUME NEW g \in Fds \ {f}, file[g] # Closed
                  PROVE  file[g].by \in Dialers /\ g \in {fd'[file[g].by], conn'[file[g].by]}
      BY <2>3 DEF OwnerInv, Socket
    <3>1. file[g].by \in Dialers /\ g \in {fd[file[g].by], conn[file[g].by]} /\ g # 0
      BY DEF FdInv, OwnerInv, Fds
    <3>. QED
      BY <1>1, <2>1, <2>2, <2>3, <3>1 DEF FdInv, DialType
  <2>. QED
    BY <2>3, <2>4, <2>5, <2>6, <2>7, OneDial
<1>3. CASE FileConn(s)
  <2>1. PICK f \in Fds : /\ file[f] = Closed
                         /\ conn' = [conn EXCEPT ![s] = f] /\ file' = [file EXCEPT ![f] = file[fd[s]]]
    BY <1>3 DEF FileConn, Lowest, Free
  <2>2. UNCHANGED <<net, ips, fd, err, dupLost>> /\ pc' = [pc EXCEPT ![s] = "close"]
    BY <1>3 DEF FileConn, Goto
  <2>3. fd[s] \in Fds /\ file[fd[s]].by = s /\ file[fd[s]].protected /\ file[fd[s]].used /\ f # fd[s]
    BY <1>1, <1>3, <2>1 DEF DescriptorsOf, FileConn, Holding, Closed
  <2>4. /\ DialType'
        /\ pc'[s] = "close" /\ conn'[s] = f /\ f # 0
        /\ file'[f] = file[fd[s]]
        /\ \A g \in Fds \ {f} : file'[g] = file[g]
    BY <2>1, <2>2, <2>3 DEF FdInv, DialType, Holding, Bare, Fds
  <2>5. Aside(s)
    BY <2>1, <2>2, <2>4 DEF Aside, FdInv, DialType, Closed
  <2>6. err[s] = FALSE
    BY <1>1, <1>3 DEF FileConn, ResultOf, FdInv, DialType
  <2>7. DescriptorsOf(s)' /\ ResultOf(s)'
    BY <2>2, <2>3, <2>4, <2>6 DEF DescriptorsOf, ResultOf, Holding
  <2>8. UsedInv'
    BY <2>3, <2>4 DEF FdInv, UsedInv
  <2>9. OwnerInv'
    <3>. SUFFICES ASSUME NEW g \in Fds \ {f}, file[g] # Closed
                  PROVE  file[g].by \in Dialers /\ g \in {fd[file[g].by], conn'[file[g].by]}
      BY <2>2, <2>3, <2>4 DEF OwnerInv
    <3>1. file[g].by \in Dialers /\ g \in {fd[file[g].by], conn[file[g].by]} /\ g # 0
      BY DEF FdInv, OwnerInv, Fds
    <3>. QED
      BY <1>1, <2>1, <3>1 DEF FdInv, DialType
  <2>. QED
    BY <2>4, <2>5, <2>7, <2>8, <2>9, OneDial
<1>. QED
  BY <1>2, <1>3

\* The deferred Close of the file, and FileConn that failed before it.
LEMMA CloseStep ==
    ASSUME FdInv, NEW s \in Dialers, FileConnFails(s) \/ FileClose(s)
    PROVE  FdInv'
<1>. USE DialAssumption
<1>1. DescriptorsOf(s) /\ ResultOf(s) /\ fd[s] \in Fds /\ file[fd[s]].by = s /\ fd[s] # 0
  BY DEF FdInv, DescriptorsInv, DescriptorsOf, ResultInv, FileConnFails, FileClose, Holding, Fds
<1>2. CASE FileConnFails(s)
  <2>1. UNCHANGED <<fd, conn, file, net>> /\ conn[s] = 0 /\ pc[s] = "file"
    BY <1>1, <1>2 DEF FileConnFails, DescriptorsOf
  <2>2. /\ err' = [err EXCEPT ![s] = net[s] = "tcp"] /\ dupLost \subseteq dupLost'
        /\ pc' = [pc EXCEPT ![s] = "close"]
        /\ dupLost' \subseteq Dialers
    BY <1>2 DEF FileConnFails, Goto, FdInv, DialType
  <2>3. DialType' /\ Aside(s) /\ pc'[s] = "close" /\ err'[s] = (net[s] = "tcp")
    BY <2>1, <2>2 DEF FdInv, DialType, Aside, Holding
  <2>4. err'[s] \/ s \in dupLost'
    BY <1>2, <2>3 DEF FileConnFails, FdInv, DialType
  <2>5. DescriptorsOf(s)' /\ ResultOf(s)'
    BY <1>1, <2>1, <2>3, <2>4 DEF DescriptorsOf, ResultOf, Holding
  <2>6. OwnerInv' /\ UsedInv'
    BY <2>1 DEF FdInv, OwnerInv, UsedInv
  <2>. QED
    BY <2>3, <2>5, <2>6, OneDial
<1>3. CASE FileClose(s)
  <2>1. /\ UNCHANGED <<net, conn, err, dupLost>>
        /\ pc' = [pc EXCEPT ![s] = "next"] /\ fd' = [fd EXCEPT ![s] = 0]
        /\ file' = [file EXCEPT ![fd[s]] = Closed]
    BY <1>3 DEF FileClose, Goto
  <2>2. /\ DialType'
        /\ pc'[s] = "next" /\ fd'[s] = 0 /\ file'[fd[s]] = Closed
        /\ \A f \in Fds \ {fd[s]} : file'[f] = file[f]
    BY <1>1, <2>1 DEF FdInv, DialType, Bare, Closed
  <2>3. Aside(s)
    BY <1>1, <2>1, <2>2 DEF Aside, FdInv, DialType
  <2>4. pc[s] = "close" /\ (conn[s] # 0 => conn[s] \in Fds \ {fd[s]})
    BY <1>1, <1>3 DEF FileClose, DescriptorsOf, FdInv, DialType, Fds
  <2>5. DescriptorsOf(s)' /\ ResultOf(s)'
    BY <1>1, <2>1, <2>2, <2>4 DEF DescriptorsOf, ResultOf, Holding
  <2>6. UsedInv'
    BY <2>2 DEF FdInv, UsedInv, Closed
  <2>7. OwnerInv'
    <3>. SUFFICES ASSUME NEW f \in Fds \ {fd[s]}, file[f] # Closed
                  PROVE  file[f].by \in Dialers /\ f \in {fd'[file[f].by], conn[file[f].by]}
      BY <2>1, <2>2 DEF OwnerInv
    <3>. QED
      BY <2>1 DEF FdInv, OwnerInv, DialType
  <2>. QED
    BY <2>2, <2>3, <2>5, <2>6, <2>7, OneDial
<1>. QED
  BY <1>2, <1>3

\* The caller closes the connection that the dial returned, if any.
LEMMA ReturnStep ==
    ASSUME FdInv, NEW s \in Dialers, CallerCloses(s)
    PROVE  FdInv'
<1>. USE DialAssumption
<1>1. DescriptorsOf(s) /\ ResultOf(s) /\ pc[s] = "done" /\ fd[s] = 0
  BY DEF FdInv, DescriptorsInv, DescriptorsOf, ResultInv, CallerCloses, Holding
<1>2. /\ fd' = fd /\ dupLost' = dupLost \ {s}
      /\ pc' = [pc EXCEPT ![s] = "idle"] /\ conn' = [conn EXCEPT ![s] = 0]
      /\ err' = [err EXCEPT ![s] = FALSE] /\ net' = [net EXCEPT ![s] = "tcp"]
      /\ file' = [f \in Fds |-> IF f = conn[s] THEN Closed ELSE file[f]]
  BY DEF CallerCloses, Goto
<1>3. /\ DialType'
      /\ pc'[s] = "idle" /\ conn'[s] = 0 /\ err'[s] = FALSE
      /\ \A f \in Fds : file'[f] = IF f = conn[s] THEN Closed ELSE file[f]
  BY <1>2 DEF FdInv, DialType, Bare, Closed
<1>4. Aside(s)
  <2>1. \A t \in Dialers \ {s} : conn[s] \in Fds => file[conn[s]].by # t
    BY <1>1 DEF DescriptorsOf, Fds
  <2>. QED
    BY <1>2, <1>3, <2>1 DEF FdInv, DialType, Aside
<1>5. DescriptorsOf(s)' /\ ResultOf(s)'
  BY <1>1, <1>2, <1>3 DEF DescriptorsOf, ResultOf, Holding
<1>6. UsedInv'
  BY <1>3 DEF FdInv, UsedInv, Closed
<1>7. OwnerInv'
  <2>. SUFFICES ASSUME NEW f \in Fds, f # conn[s], file[f] # Closed
                PROVE  file[f].by \in Dialers /\ f \in {fd[file[f].by], conn'[file[f].by]}
    BY <1>2, <1>3 DEF OwnerInv
  <2>1. file[f].by \in Dialers /\ f \in {fd[file[f].by], conn[file[f].by]} /\ f # 0
    BY DEF FdInv, OwnerInv, Fds
  <2>2. file[f].by # s
    BY <1>1, <2>1
  <2>. QED
    BY <1>2, <2>1, <2>2 DEF FdInv, DialType
<1>. QED
  BY <1>3, <1>4, <1>5, <1>6, <1>7, OneDial

-------------------------------------------------------------------------------
(* The addresses.                                                             *)

LEMMA TailHasNoOtherNil ==
    ASSUME NEW seq \in Lists, Len(seq) > 1
    PROVE  Tail(seq) \in Lists /\ Tail(seq) # <<>> /\ (HasNil(Tail(seq)) => HasNil(seq))
<1>1. seq # <<>>
  OBVIOUS
<1>2. /\ Tail(seq) \in Lists /\ Len(Tail(seq)) = Len(seq) - 1
      /\ \A i \in 1 .. Len(Tail(seq)) : Tail(seq)[i] = seq[i + 1]
  BY <1>1, HeadTailProperties DEF Lists
<1>3. DOMAIN Tail(seq) = 1 .. Len(Tail(seq)) /\ DOMAIN seq = 1 .. Len(seq)
  BY <1>2 DEF Lists
<1>4. Len(seq) \in Nat
  BY DEF Lists
<1>5. HasNil(Tail(seq)) => HasNil(seq)
  BY <1>2, <1>3, <1>4 DEF HasNil
<1>6. Tail(seq) # <<>>
  <2>1. Len(Tail(seq)) # 0
    <3>1. \A m \in Nat : m > 1 => m - 1 # 0
      OBVIOUS
    <3>. QED
      BY <1>2, <1>4, <3>1, Zenon
  <2>2. Len(<<>>) = 0
    OBVIOUS
  <2>. QED
    BY <2>1, <2>2, Zenon
<1>. QED
  BY <1>2, <1>5, <1>6

\* A step of the goroutine or the caller of a query.
LEMMA IpsQueryStep ==
    ASSUME Inv, NEW q \in Queries, QueryStep(q), UNCHANGED dialVars, ~Panicked
    PROVE  IpsInv'
<1>1. \A s \in Dialers : pc[s] # "panic"
  BY DEF Panicked
<1>2. UNCHANGED <<ips, pc>>
  BY DEF dialVars
<1>3. /\ \A p \in Queries \ {q} : task'[p] = task[p] /\ (p \in garbled => p \in garbled')
      /\ task[q] \in {"ok", "none"} => task'[q] \in {"ok", "none"} /\ (q \in garbled => q \in garbled')
  BY DEF QueryStep, Resolver, OnCancel, Success, Error, ResolverReturns, ResolverFails, Examine,
     Answer, ContextEnds, Run, RunSucceeds, RunFails, RunCancelled, CancelCallback, Collect,
     Inv, DnsInv, DnsType
<1>. QED
  BY <1>1, <1>2, <1>3 DEF Inv, IpsInv

\* A step of a dial.
LEMMA IpsDialStep ==
    ASSUME Inv, NEW s \in Dialers, DialStep(s), ~Panicked
    PROVE  IpsInv'
<1>. USE DialAssumption
<1>1. /\ \A t \in Dialers : pc[t] # "panic"
      /\ ips \in [Dialers -> Lists] /\ pc \in [Dialers -> Holding \cup Bare]
      /\ garbled' = garbled \/ (s \in Queries /\ garbled' = garbled \ {s})
  BY DEF Panicked, Inv, IpsInv, FdInv, DialType, DialStep, DialAddress, DialDomain, Ask,
     Unresolved, Resolved, Forget, TryNext, GetFd, GetFdFails, Protect, ProtectRefused, Connect,
     ConnectFails, FileConn, FileConnFails, FileClose, CallerCloses, DialNilPanics, Fail, dnsVars
<1>2. CASE DialAddress(s) \/ CallerCloses(s)
  <2>1. PICK one \in {<<"ip">>, <<>>} : /\ ips' = [ips EXCEPT ![s] = one]
                                       /\ UNCHANGED dnsVars
                                       /\ \/ pc' = [pc EXCEPT ![s] = "socket"] /\ one = <<"ip">>
                                          \/ pc' = [pc EXCEPT ![s] = "idle"] /\ one = <<>>
    BY <1>2 DEF DialAddress, CallerCloses, Goto
  <2>2. one \in Lists /\ ~HasNil(one) /\ <<"ip">> # <<>>
    <3>1. <<"ip">> \in Lists /\ <<"ip">> # <<>> /\ ~HasNil(<<"ip">>)
      BY DEF Lists, Parsed, HasNil
    <3>2. <<>> \in Lists
      BY DEF Lists
    <3>. QED
      BY <3>1, <3>2, EmptyHasNoNil
  <2>3. ips' \in [Dialers -> Lists] /\ ips'[s] = one /\ \A t \in Dialers \ {s} : ips'[t] = ips[t]
    BY <1>1, <2>1, <2>2
  <2>. QED
    BY <1>1, <2>1, <2>2, <2>3 DEF dnsVars, Inv, IpsInv
<1>3. CASE DialDomain(s)
  <2>1. /\ UNCHANGED ips /\ ips[s] = <<>> /\ garbled' = garbled \ {s}
        /\ pc' = [pc EXCEPT ![s] = "resolve"]
        /\ \A t \in Queries \ {s} : task'[t] = task[t]
    BY <1>3 DEF DialDomain, Ask, Goto, Inv, IpsInv, DnsInv, DnsType
  <2>. QED
    BY <1>1, <2>1, EmptyHasNoNil DEF Inv, IpsInv
<1>4. CASE Resolved(s)
  <2>1. /\ ips' = [ips EXCEPT ![s] = asked[s].value] /\ asked[s].value # <<>>
        /\ UNCHANGED <<task, garbled>>
        /\ pc' = [pc EXCEPT ![s] = "socket"]
        /\ asked[s].pc = "returned" /\ ~asked[s].err /\ pc[s] = "resolve"
    BY <1>4 DEF Resolved, Forget, Goto
  <2>2. s \in Queries
    BY <2>1 DEF Inv, FdInv, DialType
  <2>3. /\ task[s] = "ok" /\ asked[s].value \in Lists
        /\ HasNil(asked[s].value) => s \in garbled
    BY <2>1, <2>2 DEF Inv, DnsInv, DnsType, AnswerIsWhole
  <2>4. /\ ips' \in [Dialers -> Lists] /\ ips'[s] = asked[s].value
        /\ \A t \in Dialers \ {s} : ips'[t] = ips[t]
    BY <1>1, <2>1, <2>3
  <2>. QED
    BY <1>1, <2>1, <2>2, <2>3, <2>4 DEF Inv, IpsInv
<1>5. CASE TryNext(s)
  <2>1. CASE err[s] /\ Len(ips[s]) > 1
    <3>1. /\ ips' = [ips EXCEPT ![s] = Tail(ips[s])] /\ UNCHANGED dnsVars
          /\ pc' = [pc EXCEPT ![s] = "socket"]
      BY <1>1, <1>5, <2>1 DEF TryNext, Goto
    <3>2. /\ Tail(ips[s]) \in Lists /\ Tail(ips[s]) # <<>>
          /\ HasNil(Tail(ips[s])) => HasNil(ips[s])
      BY <1>1, <2>1, TailHasNoOtherNil
    <3>. QED
      BY <1>1, <3>1, <3>2 DEF dnsVars, Inv, IpsInv
  <2>2. CASE ~(err[s] /\ Len(ips[s]) > 1)
    <3>1. UNCHANGED <<ips, dnsVars>> /\ pc' = [pc EXCEPT ![s] = "done"]
      BY <1>5, <2>2 DEF TryNext, Goto
    <3>. QED
      BY <1>1, <3>1 DEF dnsVars, Inv, IpsInv
  <2>. QED
    BY <2>1, <2>2
<1>6. CASE DialNilPanics(s)
  <2>1. /\ UNCHANGED <<ips, dnsVars>> /\ pc' = [pc EXCEPT ![s] = "panic"]
        /\ Head(ips[s]) = "nil" /\ pc[s] = "socket"
    BY <1>6 DEF DialNilPanics, Goto
  <2>2. ips[s] \in Lists /\ ips[s] # <<>>
    BY <1>1, <2>1 DEF Inv, IpsInv
  <2>3. HasNil(ips[s])
    <3>1. 1 \in DOMAIN ips[s] /\ ips[s][1] = "nil"
      BY <2>1, <2>2 DEF Lists
    <3>. QED
      BY <3>1 DEF HasNil
  <2>. QED
    BY <1>1, <2>1, <2>3 DEF dnsVars, Inv, IpsInv
<1>7. CASE ~(DialAddress(s) \/ CallerCloses(s) \/ DialDomain(s) \/ Resolved(s) \/ TryNext(s)
            \/ DialNilPanics(s))
  <2>1. PICK step \in {"protect", "connect", "file", "close", "next", "done"} :
            pc' = [pc EXCEPT ![s] = step]
    BY <1>7 DEF DialStep, GetFd, GetFdFails, Protect, ProtectRefused, Connect, ConnectFails,
       FileConn, FileConnFails, FileClose, Unresolved, Fail, Goto
  <2>2. UNCHANGED <<ips, task, garbled>>
    BY <1>7 DEF DialStep, GetFd, GetFdFails, Protect, ProtectRefused, Connect, ConnectFails,
       FileConn, FileConnFails, FileClose, Unresolved, Forget, Fail, dnsVars
  <2>. QED
    BY <1>1, <2>1, <2>2 DEF Inv, IpsInv
<1>. QED
  BY <1>2, <1>3, <1>4, <1>5, <1>6, <1>7

LEMMA Step == Inv /\ [Next]_vars => Inv'
<1>. SUFFICES ASSUME Inv, [Next]_vars PROVE Inv'
  OBVIOUS
<1>1. CASE UNCHANGED vars
  BY <1>1 DEF vars, dnsVars, dialVars, DnsInv, DnsType, TaskInv, NilInv, AnswerIsWhole, FdInv, DialType,
     DescriptorsInv, DescriptorsOf, ResultInv, ResultOf, OwnerInv, UsedInv, IpsInv, Inv
<1>2. ASSUME NEW q \in Queries, QueryStep(q), UNCHANGED dialVars, ~Panicked
      PROVE  Inv'
  <2>1. DnsInv'
    BY <1>2, ResolverStep, CallerStep DEF QueryStep, Inv
  <2>2. FdInv'
    BY <1>2 DEF dialVars, FdInv, DialType, DescriptorsInv, DescriptorsOf, ResultInv, ResultOf,
       OwnerInv, UsedInv, Inv
  <2>. QED
    BY <1>2, <2>1, <2>2, IpsQueryStep DEF Inv
<1>3. ASSUME NEW s \in Dialers, DialStep(s), ~Panicked
      PROVE  Inv'
  <2>. USE DEF Inv
  <2>3. IpsInv'
    BY <1>3, IpsDialStep
  <2>1. CASE DialDomain(s) \/ Resolved(s) \/ Unresolved(s)
    <3>1. s \in Queries
      BY <2>1 DEF DialDomain, Resolved, Unresolved, FdInv, DialType
    <3>2. DnsInv'
      BY <2>1, <3>1, CallerStep DEF DialDomain, Resolved, Unresolved
    <3>. QED
      BY <2>1, <2>3, <3>2, QuietStep
  <2>2. CASE ~(DialDomain(s) \/ Resolved(s) \/ Unresolved(s))
    <3>1. UNCHANGED dnsVars
      BY <1>3, <2>2 DEF DialStep, DialAddress, TryNext, GetFd, GetFdFails, Protect, ProtectRefused,
         Connect, ConnectFails, FileConn, FileConnFails, FileClose, CallerCloses, DialNilPanics, Fail
    <3>2. DnsInv'
      BY <3>1 DEF dnsVars, DnsInv, DnsType, TaskInv, NilInv, AnswerIsWhole
    <3>3. FdInv'
      BY <1>3, <2>2, QuietStep, FailStep, AdvanceStep, OpenStep, CloseStep, ReturnStep
         DEF DialStep, GetFdFails, ProtectRefused, ConnectFails
    <3>. QED
      BY <2>3, <3>2, <3>3
  <2>. QED
    BY <2>1, <2>2
<1>. QED
  BY <1>1, <1>2, <1>3 DEF Next

\* The invariant that the theorems below rest on.
THEOREM Invariant == Spec => []Inv
BY Initial, Step, PTL DEF Spec

\* A query that succeeds returns what the resolver answered (ExchangeRaw and
\* Lookup), the nil of a line that did not parse included, for any callers and
\* however their contexts end.
THEOREM AnswersAreWhole == Spec => []AnswerIsWhole
BY Invariant, PTL DEF Inv, DnsInv

\* dial closes each descriptor it opened and does not return, and no other, for
\* any number of dials at a time.
THEOREM DescriptorsAccounted == Spec => []FdsAccounted
<1>1. Inv => FdsAccounted
  <2>. SUFFICES ASSUME Inv, NEW f \in Fds
                PROVE  LET holders == {s \in Dialers : f \in {fd[s], conn[s]}}
                       IN  IF file[f] = Closed THEN holders = {} ELSE holders = {file[f].by}
    BY DEF FdsAccounted
  <2>1. \A s \in Dialers : f \in {fd[s], conn[s]} => file[f].by = s
    BY DEF Inv, FdInv, DescriptorsInv, DescriptorsOf, Fds
  <2>2. file[f] = Closed => \A s \in Dialers : f \notin {fd[s], conn[s]}
    BY <2>1, DialAssumption DEF Closed
  <2>3. file[f] # Closed => file[f].by \in Dialers /\ f \in {fd[file[f].by], conn[file[f].by]}
    BY DEF Inv, FdInv, OwnerInv
  <2>. QED
    BY <2>1, <2>2, <2>3
<1>. QED
  BY <1>1, Invariant, PTL

\* protectedDialer connects and binds protected sockets only, and a dial that
\* reports no error has one, unless FilePacketConn failed.
THEOREM DialsAreProtected == Spec => []DialIsProtected
<1>1. Inv => DialIsProtected
  BY DEF Inv, FdInv, UsedInv, DescriptorsInv, DescriptorsOf, ResultInv, ResultOf, DialIsProtected
<1>. QED
  BY <1>1, Invariant, PTL

\* Dial panics at a line that did not parse and at nothing else, after every address
\* before it failed and was cleaned up.
THEOREM PanicsAreBadLines == Spec => []PanicNeedsBadLine
<1>1. Inv => PanicNeedsBadLine
  BY DEF Inv, FdInv, IpsInv, DescriptorsInv, DescriptorsOf, Holding, PanicNeedsBadLine
<1>. QED
  BY <1>1, Invariant, PTL
===============================================================================
