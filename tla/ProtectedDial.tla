----------------------------- MODULE ProtectedDial -----------------------------
(***************************************************************************)
(* protectedDialer.Dial (protect.go), from goroutines that share the file  *)
(* descriptors of the process: the addresses of a domain are tried one     *)
(* after another; for each a socket is opened, protected (Android's VPN    *)
(* would route it back into the tun), connected or bound, and made a       *)
(* net.Conn with a descriptor of its own.                                  *)
(*                                                                         *)
(* Domains are resolved by the local DNS client, as the dialer that        *)
(* NewTun2ray installs for DNS does.  Network_UNIX and the socket options  *)
(* are left out.                                                           *)
(***************************************************************************)
EXTENDS LocalDns, FiniteSets

CONSTANTS
    Dialers,   \* goroutines that dial; the Queries among them may dial domains
    MaxFd      \* the descriptors of the process are 1 .. MaxFd

ASSUME DialAssumption ==
    /\ Queries \subseteq Dialers
    /\ "none" \notin Dialers
    /\ MaxFd \in Nat

VARIABLES
    pc,      \* where each dialing goroutine is
    net,     \* the network it dials
    ips,     \* the addresses it has yet to try, the present one first
    fd,      \* its descriptor of the present attempt; 0 is none
    conn,    \* the descriptor of the connection it returns; 0 is nil
    err,     \* whether the last attempt failed
    file,    \* what each descriptor refers to
    dupLost  \* history: dialers whose FilePacketConn failed

dialVars == <<pc, net, ips, fd, conn, err, file, dupLost>>
vars == <<dnsVars, dialVars>>

Fds == 1 .. MaxFd
Closed == [by |-> "none", protected |-> FALSE, used |-> FALSE]
Socket(s) == [by |-> s, protected |-> FALSE, used |-> FALSE]

Init ==
    /\ DnsInit
    /\ pc = [s \in Dialers |-> "idle"]
    /\ net = [s \in Dialers |-> "tcp"]
    /\ ips = [s \in Dialers |-> <<>>]
    /\ fd = [s \in Dialers |-> 0]
    /\ conn = [s \in Dialers |-> 0]
    /\ err = [s \in Dialers |-> FALSE]
    /\ file = [f \in Fds |-> Closed]
    /\ dupLost = {}

Goto(s, step) == pc' = [pc EXCEPT ![s] = step]

\* The kernel gives out the lowest descriptor that is free.
Free == {f \in Fds : file[f] = Closed}
Lowest(f) == f \in Free /\ \A g \in Free : f <= g

-------------------------------------------------------------------------------
(* Dial                                                                       *)

\* A literal address needs no resolver.
DialAddress(s) ==
    /\ pc[s] = "idle"
    /\ \E n \in {"tcp", "udp"} : net' = [net EXCEPT ![s] = n]
    /\ ips' = [ips EXCEPT ![s] = <<"ip">>]
    /\ Goto(s, "socket")
    /\ UNCHANGED <<dnsVars, fd, conn, err, file, dupLost>>

DialDomain(s) ==
    /\ pc[s] = "idle"
    /\ s \in Queries
    /\ \E kind \in {"lookup", "raw"} : Ask(s, kind)
    /\ \E n \in {"tcp", "udp"} : net' = [net EXCEPT ![s] = n]
    /\ Goto(s, "resolve")
    /\ UNCHANGED <<ips, fd, conn, err, file, dupLost>>

Resolved(s) ==
    /\ pc[s] = "resolve"
    /\ ~asked[s].err
    /\ asked[s].value # <<>>
    /\ Forget(s)
    /\ ips' = [ips EXCEPT ![s] = asked[s].value]
    /\ Goto(s, "socket")
    /\ UNCHANGED <<net, fd, conn, err, file, dupLost>>

\* An error, or an empty list (dns.ErrEmptyResponse).
Unresolved(s) ==
    /\ pc[s] = "resolve"
    /\ asked[s].err \/ asked[s].value = <<>>
    /\ Forget(s)
    /\ err' = [err EXCEPT ![s] = TRUE]
    /\ Goto(s, "done")
    /\ UNCHANGED <<net, ips, fd, conn, file, dupLost>>

\* Variant: the next address is tried though the last one was not in vain.
TryNextAnyway(s) ==
    /\ pc[s] = "next"
    /\ IF Len(ips[s]) > 1
       THEN /\ ips' = [ips EXCEPT ![s] = Tail(@)]
            /\ err' = [err EXCEPT ![s] = FALSE]
            /\ Goto(s, "socket")
       ELSE Goto(s, "done") /\ UNCHANGED <<ips, err>>
    /\ UNCHANGED <<dnsVars, net, fd, conn, file, dupLost>>

\* The next address, if the last one failed and there is another.
TryNext(s) ==
    /\ pc[s] = "next"
    /\ IF err[s] /\ Len(ips[s]) > 1
       THEN /\ ips' = [ips EXCEPT ![s] = Tail(@)]
            /\ err' = [err EXCEPT ![s] = FALSE]
            /\ Goto(s, "socket")
       ELSE Goto(s, "done") /\ UNCHANGED <<ips, err>>
    /\ UNCHANGED <<dnsVars, net, fd, conn, file, dupLost>>

-------------------------------------------------------------------------------
(* dial: one address.                                                         *)

\* The attempt fails and its descriptor, if any, is closed.
Fail(s) ==
    /\ err' = [err EXCEPT ![s] = TRUE]
    /\ file' = [f \in Fds |-> IF f = fd[s] THEN Closed ELSE file[f]]
    /\ fd' = [fd EXCEPT ![s] = 0]
    /\ Goto(s, "next")
    /\ UNCHANGED <<dnsVars, net, ips, conn, dupLost>>

\* v2rayNet.IPAddress makes no Address of a nil; its IP method is called on nil and
\* the process ends.
DialNilPanics(s) ==
    /\ pc[s] = "socket"
    /\ Head(ips[s]) = "nil"
    /\ Goto(s, "panic")
    /\ UNCHANGED <<dnsVars, net, ips, fd, conn, err, file, dupLost>>

\* getFd
GetFd(s) ==
    /\ pc[s] = "socket"
    /\ Head(ips[s]) = "ip"
    /\ \E f \in Fds :
        /\ Lowest(f)
        /\ fd' = [fd EXCEPT ![s] = f]
        /\ file' = [file EXCEPT ![f] = Socket(s)]
    /\ Goto(s, "protect")
    /\ UNCHANGED <<dnsVars, net, ips, conn, err, dupLost>>

GetFdFails(s) ==
    /\ pc[s] = "socket"
    /\ Head(ips[s]) = "ip"
    /\ Fail(s)

Protect(s) ==
    /\ pc[s] = "protect"
    /\ file' = [file EXCEPT ![fd[s]].protected = TRUE]
    /\ Goto(s, "connect")
    /\ UNCHANGED <<dnsVars, net, ips, fd, conn, err, dupLost>>

\* Variant: the refusal of the protector is not looked at.
ProtectRefusedUnseen(s) ==
    /\ pc[s] = "protect"
    /\ Goto(s, "connect")
    /\ UNCHANGED <<dnsVars, net, ips, fd, conn, err, file, dupLost>>

\* "protect failed"
ProtectRefused(s) ==
    /\ pc[s] = "protect"
    /\ Fail(s)

\* unix.Connect of a TCP socket, unix.Bind of a UDP one
Connect(s) ==
    /\ pc[s] = "connect"
    /\ file' = [file EXCEPT ![fd[s]].used = TRUE]
    /\ Goto(s, "file")
    /\ UNCHANGED <<dnsVars, net, ips, fd, conn, err, dupLost>>

\* Variant: the socket that did not connect stays open.
ConnectFailsOpen(s) ==
    /\ pc[s] = "connect"
    /\ err' = [err EXCEPT ![s] = TRUE]
    /\ fd' = [fd EXCEPT ![s] = 0]
    /\ Goto(s, "next")
    /\ UNCHANGED <<dnsVars, net, ips, conn, file, dupLost>>

ConnectFails(s) ==
    /\ pc[s] = "connect"
    /\ Fail(s)

\* net.FileConn or net.FilePacketConn duplicates the descriptor.
FileConn(s) ==
    /\ pc[s] = "file"
    /\ \E f \in Fds :
        /\ Lowest(f)
        /\ conn' = [conn EXCEPT ![s] = f]
        /\ file' = [file EXCEPT ![f] = file[fd[s]]]
    /\ Goto(s, "close")
    /\ UNCHANGED <<dnsVars, net, ips, fd, err, dupLost>>

\* In the case of UDP err is a variable of the block: dial returns nil, nil.
FileConnFails(s) ==
    /\ pc[s] = "file"
    /\ Goto(s, "close")
    /\ err' = [err EXCEPT ![s] = net[s] = "tcp"]
    /\ dupLost' = IF net[s] = "udp" THEN dupLost \cup {s} ELSE dupLost
    /\ UNCHANGED <<dnsVars, net, ips, fd, conn, file>>

\* The deferred file.Close()
FileClose(s) ==
    /\ pc[s] = "close"
    /\ file' = [file EXCEPT ![fd[s]] = Closed]
    /\ fd' = [fd EXCEPT ![s] = 0]
    /\ Goto(s, "next")
    /\ UNCHANGED <<dnsVars, net, ips, conn, err, dupLost>>

-------------------------------------------------------------------------------
\* The caller of Dial uses the connection, closes it, and dials again.
CallerCloses(s) ==
    /\ pc[s] = "done"
    /\ file' = [f \in Fds |-> IF f = conn[s] THEN Closed ELSE file[f]]
    /\ conn' = [conn EXCEPT ![s] = 0]
    /\ err' = [err EXCEPT ![s] = FALSE]
    /\ ips' = [ips EXCEPT ![s] = <<>>]
    /\ net' = [net EXCEPT ![s] = "tcp"]
    /\ dupLost' = dupLost \ {s}
    /\ Goto(s, "idle")
    /\ UNCHANGED <<dnsVars, fd>>

DialStep(s) ==
    \/ DialAddress(s) \/ DialDomain(s) \/ Unresolved(s) \/ TryNext(s)
    \/ GetFd(s) \/ GetFdFails(s) \/ Protect(s) \/ ProtectRefused(s)
    \/ Connect(s) \/ ConnectFails(s) \/ FileConn(s) \/ FileConnFails(s)
    \/ FileClose(s) \/ CallerCloses(s)
    \/ Resolved(s) \/ DialNilPanics(s)

Panicked == \E s \in Dialers : pc[s] = "panic"

Next ==
    /\ ~Panicked
    /\ \/ \E s \in Dialers : DialStep(s)
       \/ \E q \in Queries : QueryStep(q) /\ UNCHANGED dialVars

Spec == Init /\ [][Next]_vars

-------------------------------------------------------------------------------
(* Properties.                                                                *)

\* Every open descriptor is that of one attempt under way or of one connection
\* that a caller has: nothing is left open by a failure, nothing is closed that
\* another dial has meanwhile got under the same number.
FdsAccounted ==
    \A f \in Fds :
        LET holders == {s \in Dialers : f \in {fd[s], conn[s]}}
        IN  IF file[f] = Closed THEN holders = {}
            ELSE holders = {file[f].by}

\* The process ends in a dial only at a line of the resolver's answer that did not
\* parse, and only when every address before it failed: the dial that ends it holds
\* neither a descriptor nor a connection.
PanicNeedsBadLine ==
    \A s \in Dialers : pc[s] = "panic" =>
        s \in Queries /\ s \in garbled /\ fd[s] = 0 /\ conn[s] = 0

\* No socket is connected or bound without the protector's consent; a dial that
\* reports no error has such a connection, unless FilePacketConn failed: then it
\* returns neither a connection nor an error.
DialIsProtected ==
    /\ \A f \in Fds : file[f].used => file[f].protected
    /\ \A s \in Dialers : pc[s] = "done" =>
           IF conn[s] # 0 THEN ~err[s] /\ file[conn[s]].used
           ELSE err[s] \/ s \in dupLost
===============================================================================
