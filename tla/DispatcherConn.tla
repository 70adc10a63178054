----------------------------- MODULE DispatcherConn -----------------------------
(***************************************************************************)
(* The packet connection behind a UDP or echo session: dispatcherConn      *)
(* (v2ray.go).  handleInput moves the replies of the outbound from the     *)
(* link into a channel of bounded capacity, the session's read loop takes  *)
(* them out, sendTo calls write datagrams to the link, an inactivity timer *)
(* and the app close it from outside.                                      *)
(*                                                                         *)
(* Close reads and sets the closed field without a lock, and closes the    *)
(* channel that handleInput sends on; both can end in a Go panic, which    *)
(* ends the process.                                                       *)
(***************************************************************************)
EXTENDS Naturals, Sequences, FiniteSets, SequencesExt

CONSTANTS
    Writers,      \* sendTo calls, one datagram each
    Capacity,     \* of the channel (16 in dialUDP and handleUDP)
    MaxBatch,     \* bound on the buffers of one ReadMultiBuffer
    MaxPackets    \* bound on the replies of the outbound

\* The callers of Close besides the writers: handleInput's defer, the timer, and
\* whoever else ends the connection (CloseConnections of the app).
Owners == {"input", "timer", "app"}
Closers == Owners \cup Writers

ASSUME ConnAssumption ==
    /\ Capacity \in Nat \ {0}
    /\ MaxBatch \in Nat \ {0}
    /\ MaxPackets \in Nat
    /\ Writers \cap Owners = {}

VARIABLES
    input,        \* where handleInput is
    batch,        \* the buffers of the last ReadMultiBuffer it has yet to move
    reader,       \* the session's read loop: reading, at the end, or gone
    close,        \* where each caller of Close is in it
    again,        \* writers that are past the Close of writeTo
    closed,       \* dispatcherConn.closed
    done,         \* whether the context is cancelled
    link,         \* up, ended by the outbound, or interrupted by Close
    cache,        \* the channel's packets
    cacheClosed,  \* whether close(c.cache) has run
    active,       \* whether the timer was updated since it last looked
    sent,         \* number of replies the outbound has produced
    got,          \* replies the read loop took
    dropped,      \* replies handleInput released
    panic,        \* what ended the process, if anything
    raced         \* whether two callers were past the closed check together

inVars == <<input, batch, sent, dropped>>
outVars == <<reader, got>>
flagVars == <<closed, done, link, cacheClosed>>
connVars == <<inVars, outVars, close, again, flagVars, cache, active, panic, raced>>

ConnTypeOK ==
    /\ input \in {"check", "read", "forward", "end"}
    /\ batch \in Seq(1 .. MaxPackets)
    /\ reader \in {"read", "eof", "gone"}
    /\ close \in [Closers -> {"idle", "check", "set", "cancel", "interrupt", "close", "done"}]
    /\ again \subseteq Writers
    /\ closed \in BOOLEAN
    /\ done \in BOOLEAN
    /\ link \in {"up", "ended", "interrupted"}
    /\ cache \in Seq(1 .. MaxPackets)
    /\ Len(cache) <= Capacity
    /\ cacheClosed \in BOOLEAN
    /\ active \in BOOLEAN
    /\ sent \in 0 .. MaxPackets
    /\ got \in Seq(1 .. MaxPackets)
    /\ dropped \subseteq 1 .. MaxPackets
    /\ panic \in {"none", "send on closed", "close of closed"}
    /\ raced \in BOOLEAN

ConnInit ==
    /\ input = "check"
    /\ batch = <<>>
    /\ reader = "read"
    /\ close = [c \in Closers |-> "idle"]
    /\ again = {}
    /\ closed = FALSE
    /\ done = FALSE
    /\ link = "up"
    /\ cache = <<>>
    /\ cacheClosed = FALSE
    /\ active = FALSE
    /\ sent = 0
    /\ got = <<>>
    /\ dropped = {}
    /\ panic = "none"
    /\ raced = FALSE

At(c, l) == close' = [close EXCEPT ![c] = l]

-------------------------------------------------------------------------------
(* handleInput                                                                *)

InputCheck ==
    /\ input = "check"
    /\ IF done
       THEN input' = "end" /\ At("input", "check")
       ELSE input' = "read" /\ UNCHANGED close
    /\ UNCHANGED <<batch, sent, dropped, outVars, again, flagVars, cache, active, panic, raced>>

\* ReadMultiBuffer returns some replies.  Those still in the link when the outbound
\* ends it can be read first; after Interrupt nothing can.
InputRead ==
    /\ input = "read"
    /\ link = "up"
    /\ \E n \in 1 .. MaxBatch :
        /\ sent + n <= MaxPackets
        /\ batch' = [i \in 1 .. n |-> sent + i]
        /\ sent' = sent + n
    /\ active' = TRUE
    /\ input' = "forward"
    /\ UNCHANGED <<dropped, outVars, close, again, flagVars, cache, panic, raced>>

\* ReadMultiBuffer fails; the deferred Close begins.
InputReadFails ==
    /\ input = "read"
    /\ link # "up"
    /\ input' = "end"
    /\ At("input", "check")
    /\ UNCHANGED <<batch, sent, dropped, outVars, again, flagVars, cache, active, panic, raced>>

HasRoom == ~cacheClosed /\ Len(cache) < Capacity

\* Variant: no continue after the send, so the buffer is released too.
InputSendReleases ==
    /\ input = "forward"
    /\ batch # <<>>
    /\ HasRoom
    /\ cache' = Append(cache, Head(batch))
    /\ batch' = Tail(batch)
    /\ dropped' = dropped \cup {Head(batch)}
    /\ UNCHANGED <<input, sent, outVars, close, again, flagVars, active, panic, raced>>

\* The select: any ready case may be taken.  A send on a closed channel is ready,
\* and panics.
InputSend ==
    /\ input = "forward"
    /\ batch # <<>>
    /\ HasRoom
    /\ cache' = Append(cache, Head(batch))
    /\ batch' = Tail(batch)
    /\ UNCHANGED <<input, sent, dropped, outVars, close, again, flagVars, active, panic, raced>>

InputSendPanics ==
    /\ input = "forward"
    /\ batch # <<>>
    /\ cacheClosed
    /\ panic' = "send on closed"
    /\ UNCHANGED <<inVars, outVars, close, again, flagVars, cache, active, raced>>

\* The context is done, or the default case because the channel is full.
InputDrop ==
    /\ input = "forward"
    /\ batch # <<>>
    /\ done \/ (~cacheClosed /\ ~HasRoom)
    /\ dropped' = dropped \cup {Head(batch)}
    /\ batch' = Tail(batch)
    /\ UNCHANGED <<input, sent, outVars, close, again, flagVars, cache, active, panic, raced>>

InputNext ==
    /\ input = "forward"
    /\ batch = <<>>
    /\ input' = "check"
    /\ UNCHANGED <<batch, sent, dropped, outVars, close, again, flagVars, cache, active, panic, raced>>

(* readFrom, called in a loop by the session                                  *)

ReaderGets ==
    /\ reader = "read"
    /\ cache # <<>>
    /\ got' = Append(got, Head(cache))
    /\ cache' = Tail(cache)
    /\ UNCHANGED <<inVars, reader, close, again, flagVars, active, panic, raced>>

\* io.EOF: the context is done, whatever is left in the channel, or the channel
\* is closed and empty.
ReaderEnds ==
    /\ reader = "read"
    /\ done \/ (cacheClosed /\ cache = <<>>)
    /\ reader' = "eof"
    /\ UNCHANGED <<inVars, got, close, again, flagVars, cache, active, panic, raced>>

\* A write to the tun failed: the loop ends and does not close the connection.
ReaderLeaves ==
    /\ reader = "read"
    /\ got # <<>>
    /\ reader' = "gone"
    /\ UNCHANGED <<inVars, got, close, again, flagVars, cache, active, panic, raced>>

-------------------------------------------------------------------------------
(* writeTo, and the conn.Close() sendTo adds after its failure.  The outbound  *)
(* may stop taking datagrams before it stops sending replies.                 *)

WriteOk(w) ==
    /\ close[w] = "idle"
    /\ link # "interrupted"
    /\ active' = TRUE
    /\ At(w, "done")
    /\ again' = again \cup {w}
    /\ UNCHANGED <<inVars, outVars, flagVars, cache, panic, raced>>

WriteFails(w) ==
    /\ close[w] = "idle"
    /\ At(w, "check")
    /\ UNCHANGED <<inVars, outVars, again, flagVars, cache, active, panic, raced>>

WriterClosesAgain(w) ==
    /\ close[w] = "done"
    /\ w \notin again
    /\ again' = again \cup {w}
    /\ At(w, "check")
    /\ UNCHANGED <<inVars, outVars, flagVars, cache, active, panic, raced>>

(* The inactivity timer, the app and the outbound.                            *)

\* Variant: the timer does not take the activity it has seen.
TimerTickKeeps ==
    /\ close["timer"] = "idle"
    /\ IF active THEN UNCHANGED close ELSE At("timer", "check")
    /\ UNCHANGED <<inVars, outVars, again, flagVars, cache, active, panic, raced>>

TimerTick ==
    /\ close["timer"] = "idle"
    /\ IF active
       THEN active' = FALSE /\ UNCHANGED close
       ELSE At("timer", "check") /\ UNCHANGED active
    /\ UNCHANGED <<inVars, outVars, again, flagVars, cache, panic, raced>>

AppCloses ==
    /\ close["app"] = "idle"
    /\ At("app", "check")
    /\ UNCHANGED <<inVars, outVars, again, flagVars, cache, active, panic, raced>>

OutboundEnds ==
    /\ link = "up"
    /\ link' = "ended"
    /\ UNCHANGED <<inVars, outVars, close, again, closed, done, cacheClosed, cache, active, panic, raced>>

-------------------------------------------------------------------------------
(* Close                                                                      *)

CloseCheck(c) ==
    /\ close[c] = "check"
    /\ At(c, IF closed THEN "done" ELSE "set")
    /\ raced' = (raced \/ (~closed /\ \E d \in Closers \ {c} : close[d] = "set"))
    /\ UNCHANGED <<inVars, outVars, again, flagVars, cache, active, panic>>

\* Variant: the field is not set.
CloseSetForgotten(c) ==
    /\ close[c] = "set"
    /\ At(c, "cancel")
    /\ UNCHANGED <<inVars, outVars, again, flagVars, cache, active, panic, raced>>

CloseSet(c) ==
    /\ close[c] = "set"
    /\ closed' = TRUE
    /\ At(c, "cancel")
    /\ UNCHANGED <<inVars, outVars, again, done, link, cacheClosed, cache, active, panic, raced>>

CloseCancel(c) ==
    /\ close[c] = "cancel"
    /\ done' = TRUE
    /\ At(c, "interrupt")
    /\ UNCHANGED <<inVars, outVars, again, closed, link, cacheClosed, cache, active, panic, raced>>

\* Variant: the link is left alone.
CloseInterruptForgotten(c) ==
    /\ close[c] = "interrupt"
    /\ At(c, "close")
    /\ UNCHANGED <<inVars, outVars, again, flagVars, cache, active, panic, raced>>

CloseInterrupt(c) ==
    /\ close[c] = "interrupt"
    /\ link' = "interrupted"
    /\ At(c, "close")
    /\ UNCHANGED <<inVars, outVars, again, closed, done, cacheClosed, cache, active, panic, raced>>

CloseCache(c) ==
    /\ close[c] = "close"
    /\ IF cacheClosed
       THEN panic' = "close of closed" /\ UNCHANGED cacheClosed
       ELSE cacheClosed' = TRUE /\ UNCHANGED panic
    /\ At(c, "done")
    /\ UNCHANGED <<inVars, outVars, again, closed, done, link, cache, active, raced>>

Close(c) ==
    \/ CloseCheck(c) \/ CloseSet(c) \/ CloseCancel(c) \/ CloseInterrupt(c) \/ CloseCache(c)

-------------------------------------------------------------------------------
Input ==
    \/ InputCheck \/ InputRead \/ InputReadFails
    \/ InputSend \/ InputSendPanics \/ InputDrop \/ InputNext
Reader == ReaderGets \/ ReaderEnds
External == ReaderLeaves \/ AppCloses \/ OutboundEnds

ConnNext ==
    /\ panic = "none"
    /\ \/ Input \/ Reader \/ TimerTick \/ External
       \/ \E w \in Writers : WriteOk(w) \/ WriteFails(w) \/ WriterClosesAgain(w)
       \/ \E c \in Closers : Close(c)

ConnSpec == ConnInit /\ [][ConnNext]_connVars

\* The goroutines run while they can, the timer keeps ticking.  That the outbound
\* produces a reply is not assumed, only that handleInput moves what it has read.
Running(A) == panic = "none" /\ A

ConnFairness ==
    /\ WF_connVars(Running(InputCheck \/ InputReadFails \/ InputSend \/ InputSendPanics \/ InputDrop \/ InputNext))
    /\ WF_connVars(Running(Reader))
    /\ WF_connVars(Running(TimerTick))
    /\ \A w \in Writers : WF_connVars(Running(WriterClosesAgain(w)))
    /\ \A c \in Closers : WF_connVars(Running(Close(c)))

ConnFairSpec == ConnSpec /\ ConnFairness

-------------------------------------------------------------------------------
(* Properties.                                                                *)

\* Replies reach the read loop in the order the outbound sent them, none twice,
\* and every reply is in exactly one place: delivered, in the channel, in
\* handleInput's hands, or released.
RepliesAccounted ==
    LET moving == got \o cache \o batch
    IN  /\ \A i, j \in DOMAIN moving : i < j => moving[i] < moving[j]
        /\ ToSet(moving) \cap dropped = {}
        /\ ToSet(moving) \cup dropped = 1 .. sent

\* close(c.cache) runs twice only if two callers of Close both found closed still
\* false, one of them before the other had set it.  The callers that follow one
\* another, like writeTo's Close and sendTo's, or the timer's after handleInput's,
\* are kept apart by the field.
ClosePanicNeedsRace == panic = "close of closed" => raced

\* Once a Close is past its check, handleInput and the read loop both end.
CloseEndsBoth ==
    closed ~> (input = "end" /\ reader # "read") \/ panic # "none"

\* A connection nobody uses is closed: after the last reply and the last datagram
\* the timer finds no activity, also when the read loop is gone.
IdleConnectionCloses == <>(cacheClosed \/ panic # "none")

(* The connection keeps the promise of a line of replies.                     *)

\* What is on its way to the read loop is in the channel or in handleInput's hands;
\* the closed field is what tells that a Close is past its check.
Channel == INSTANCE ReplyChannel WITH
    flight <- cache \o batch,
    lost <- dropped,
    shut <- closed

\* Every step of handleInput, the read loop and the callers of Close is a step of
\* ReplyChannel or leaves its state alone: no reply is released while the channel has
\* room and nobody closes, and none overtakes another.
ImplementsReplyChannel == Channel!Spec
===============================================================================
