# A TLA+ model of LibSagerNetCore

LibSagerNetCore is the Go core of the SagerNet app: it takes the packets of an
Android VPN interface, makes connections and datagrams of them, and hands those
to a v2ray instance. This directory models the parts of it that are concurrent
and stateful, checks them with TLC, and proves the central ones with TLAPS.

## 1. Inventory

| component | source | state | operations | interacts with |
|---|---|---|---|---|
| tun handler | `tun.go` | `udpTable`, `appStats`, `lockTable` (all `sync.Map`) | `NewConnection`, `NewPacket`, `NewPingPacket` | called by both tun stacks; dials through the v2ray instance |
| app statistics | `tun.go`, `stats.go` | `appStats`: connection counts, bytes, `deactivateAt`, list of connections | acquire and release (in the handler), `ResetAppTraffics`, `CloseConnections`, `ReadAppTraffics` | the app's threads against the handler's goroutines |
| tun construction | `tun.go` | three variables of the process: system dialer, `pingproto.ControlFunc`, DNS dialer | `NewTun2ray`, `Tun2ray.Close` | the v2ray instance it is given; every socket of the process |
| packet connection | `v2ray.go` | `dispatcherConn`: `closed`, context, link, a channel of 16 packets, inactivity timer | `handleInput`, `readFrom`, `writeTo`, `Close` | session read loop, `sendTo`, timer, outbound, `CloseConnections` |
| v2ray instance | `v2ray.go` | `core`, its features, `started`, without a lock for dials | `LoadConfig`, `Start`, `Close`, dials | everything that dials |
| system stack | `nat/` | TCP `sessions` (LRU cache), the buffer of the packet loop, buffers given to handlers | packet loop, TCP rewriting, accept loop, UDP and ICMP delivery, replies | kernel TCP, buffer pool, tun handler |
| gVisor stack | `gvisor/` | attached dispatcher, stop eventfd, row of views and iovecs | attach, stop, packet loop, delivery, replies | gVisor library, tun handler |
| DNS transport | `dns.go` | one `QueryContext` per query, shared with the app's resolver | `ExchangeRaw`, `Lookup`, the callbacks `Success`, `RawSuccess`, `Error...`, `OnCancel` | the app's resolver, `task.Run`, the protected dialer |
| protected dialer | `protect.go` | descriptors of the process | `Dial`, `dial`, `getFd` | Android's protector, DNS transport, kernel |
| discovery responder | `api.go` | `started`, `conn`, a mutex | `Start`, `Close`, `loop` | other devices |
| assets | `assets.go`, `io.go` | files and version files | extraction, decompression | restarts of the app |
| NAT type discovery | `stun/` | one socket, a listening goroutine | the tests of RFC 5780 | lost and late datagrams |
| HTTP, URL test, observatory, process lookup, logging | the remaining files | little or none of their own | wrappers over libraries and the system | |

What is hard here: the handler runs one goroutine per datagram and connection
over three maps without a common lock; it uses `sync.Cond` without a condition;
`dispatcherConn.Close` is called from four sides without a lock; buffers and
"closers" are handed from goroutine to goroutine by convention; `NewPingPacket`
runs on the goroutine that carries all other traffic. What makes each component
correct:

* **UDP and echo sessions** -- one leader per key, a stored session is served, a
  dead one leaves the table, a datagram's buffer and closer are handed over once,
  waiters get through, the dispatch goroutine never waits.
* **statistics** -- counters equal the connections inside, the end of the last
  connection is recorded, `CloseConnections` reaches every listed connection and
  does not deadlock with the connections it closes.
* **packet connection** -- replies stay in order and are delivered or released,
  the input side never blocks on the session, closing ends both loops.
* **responder** -- no leaked socket, no duplicate answers, silent when closed.
* **forwarder** -- a connection is dispatched to the port it was made to although
  sessions are keyed without it; one lost session does not stop the accept loop.
* **assets** -- a kill between two file operations is repaired by the next start,
  readers wait for that, a part of the certificates is never loaded.
* **NAT discovery** -- the right answer on a good network where there is a NAT, never
  one that is too good on a bad one, and no goroutine left behind without need.
* **instance** -- a dial that nothing disturbed uses a running core, the one of its
  context; a core that came up can still be closed, one whose `Start` failed cannot.
* **tun construction** -- the dialers of the process are those of the open tun.
* **packet loops** -- a packet a handler has is not overwritten, however many are
  read meanwhile; a detached endpoint is quiet; a reply tells its length and its
  sender and its
  checksum truly.
* **DNS and dialing** -- a successful query returns the resolver's answer; no socket
  is used unprotected, no descriptor is lost or closed twice, and a dial ends the
  process only at a line of the answer that is no address.

`PROJECT.json` lists every component, modelled or not, and every hazard at its
line.

## 2. Plan

| order | module | what | state |
|---|---|---|---|
| 1 | `CreateOnce` | the promise of the get-or-create idiom (abstract) | done, proved |
| 2 | `UdpSession` | `NewPacket`; refines `CreateOnce` | done, proved |
| 3 | `AppStats`, `AppTraffic` | statistics, and the byte counters beside them; refines `CreateOnce` | done, proved |
| 4 | `PingSession` | `NewPingPacket` and its callers; refines `CreateOnce` | done, proved |
| 5 | `ReplyChannel`, `DispatcherConn` | what a connection promises about replies (abstract), and the packet connection, which refines it | done, safety and refinement proved |
| 6 | `ApiInstance` | the responder | done, safety proved |
| 7 | `NatTcp` | TCP sessions: lookup, creation, expiry, late delete, port reuse | done, safety proved |
| 8 | `Assets` | extraction with a kill between any two file operations | done, proved |
| 9 | `Stun` | the tests over lost, late and duplicated answers | done, safety proved |
| 10 | `V2Ray`, `Tunnel` | load, start and close of the instance against dials; composed with opening and closing tuns | done, proved |
| 11 | `LocalDns`, `ProtectedDial` | query and cancellation; composed with the dials that resolve by it | done, safety proved |
| 12 | `PacketHandoff` | what a packet loop promises the handlers (abstract) | done |
| 13 | `SystemTun`, `GVisorEndpoint`, `Replies`, `TunDevice` | the packet loops of both stacks and their replies; `TunDevice` composes them and refines `PacketHandoff` | done, proved |
| 14 | `TunHandler` | composition of `UdpSession` with one `DispatcherConn` per session, `ConnEnds` and `WriteTarget` replaced by its actions | left out |

Row 14 is left out: the product of two sessions and two connections is beyond the
five minutes of a run, and the two meet in two places only. What a session needs of
its connection is in `UdpSession` as `ConnEnds`, which may happen at any time, and
`WriteTarget`, which may fail; both allow more than `DispatcherConn` does.

Every safety invariant and every refinement of the runs is a theorem. Abstract
specifications that could still be stated: "old or new file, never a part" for
`Assets`, and for `Stun` the set of NATs that the answers so far leave.

## 3. Modules

Every module begins with a comment that says what it models, and `PROJECT.json`
maps each definition to its lines. Common conventions:

* A goroutine is a process; its place is `pc[p]`, with one label between two
  accesses to shared state. Steps on goroutine-local data are merged into the
  next shared step.
* An object made at run time (a `sync.Cond`, a session, an `appStats`) has the
  name of the datagram or connection whose goroutine made it, so tables hold
  names and `None`.
* `sync.Map` operations are atomic, several of them are several steps.
* `cond.Wait` is two actions: `Wait` (lock, enter the wait queue, give the mutex
  back) and `Wake` (the mutex again, after a broadcast). `Broadcast` wakes exactly
  the goroutines that sleep then, as Go's `sync.Cond` does; one that comes later
  sleeps for ever and is in the history variable `missed`.
* Definitions under a comment that starts with "Variant" are not part of any
  specification: they are plausible mistakes in an action, used to see that a
  property can fail.

**`CreateOnce`** -- `Create` is `LoadOrStore` storing, `Join` is `LoadOrStore`
loading, `Finish` the deletion of the Cond, `Release` the end of the wait,
`Bypass` the fast path. It promises one creator per key and that a waiter goes on
only after the creator it joined has finished. It does not promise that the
waiter goes on at all. `UdpSession`, `PingSession` and `AppStats` implement it, each
with a `phase` of its own made of its `pc`.

**`UdpSession`** -- `NewPacket` from the first lookup to the last `Delete`.
`sendTo` is a lookup and a write, wherever it is called: `LoadHit`/`FastWrite`,
`WaiterLoad`/`WaiterWrite`, `AsyncLoad`/`AsyncWrite`. The leader goes through
`LockStored`, `DialOk`, `StatsAcquired`, `Store`, `Unlock`, `Broadcast`, `read`,
`LoopClose`, `Delete`. `DialFails` is the early return that leaves everything as
it is. `ConnEnds` stands for whoever closes the packet connection from outside.
`consumed` and `released` count the hand-overs of buffer and closer, `rivals`
remembers sessions that were open next to another one of their key.

**`AppStats`** -- the blocks `tun.go:228-266` and `393-431`, which are the same but
for the counter, and `stats.go:55-85`. The decrement and the read of the other
counter are two steps (`Leave`, `Sum`), as in the code. The mutex of an
`appStats` is held for one step by connections and over a walk by
`CloseConnections`; `NextElement` has the rule of `container/list` that a
removed element has no next. `CanGoOn`, the guards of the steps that need no app and
no peer, is what `NobodyStuck` means by going on.

**`AppTraffic`** -- extends `AppStats` by the counters of the connection wrappers
(`Transfer`) and by `ReadAppTraffics`: the swap of a counter, the addition to the
total and the report are three steps (`ReadSwap`, `ReadAdd`, `Report`). One counter
stands for uplink and downlink.

**`PingSession`** -- `NewPingPacket` with the dispatch goroutine of the stack
around it: `Deliver` takes the next request only when the last call has
returned, `Return` is what `nat/icmp.go` does with the answer (the gVisor stack
passes no closer and lends a copy, so it has less to get wrong).

**`DispatcherConn`** -- one connection with its four kinds of callers. `Close` is
five steps, the test of `closed` being one and the assignment another. A `select`
takes any ready case; sending on the closed channel is ready and panics. The
link is `up`, `ended` by the outbound or `interrupted`.

**`ReplyChannel`** -- one line of replies, `flight`, whose front `Deliver` takes. `Lose`
takes a reply out of the line only behind `Capacity` others or after `Shut`; the read
loop sees the end (`End`) only after `Shut` or leaves by itself. `DispatcherConn`
implements it: `flight` is `cache` followed by the batch that `handleInput` holds.

**`ApiInstance`** -- `Start` and `Close` under the mutex, the loops without it, which
read `started` (`LoopChecks`) and then `conn` (`LoopReadsConn`). A socket and a loop
have the number of the `Start` that made them.

**`NatTcp`** -- a flow is one attempt of an app to connect; its app's end, the end
of the listener in the kernel and the goroutine that relays it are `app`, `tcp` and
`relay`. `TouchEntry` is the lookup-or-create of `processIPv4` and `processIPv6`,
which are the same but for the header; `Accept` and `AcceptUnknown` are `dispatch`,
`DeleteSession` is the delayed Delete, `Expire` the cache. The kernel sees the
rewritten addresses only, so of the flows of one key it has at most one.

**`Assets`** -- one step per file operation, `Crash` between any two. `Extract(p)` is
`extractAssetName`, run by the goroutine of `InitializeV2Ray` or by a reader; one of
the three assets stands for all, since they do not touch each other's files. A reader
that finds no file opens the one in the package (`OpenPackaged`) or, when it is only
there compressed, extracts it (`OpenMissing`). `excuse` remembers what the properties make exceptions of.

**`Stun`** -- `Concludes` and `ConcludesFromSilence` are the bodies of `mappingTests`
and `filteringTests`, by the test that runs; `Take`, `Timeout` and `ChannelClosed` are
the cases of the `select` in `roundTrip`; `Receive` and `ListenFails` are `listen`.
The kind of NAT and of server is chosen in `Init`. The listener reads the next
datagram into the buffer of the message it has handed over, which is a data race:
`Take` may see the attributes of an answer that is arriving. The address that
`stun.go:108` compares with the mapped one is that of a socket bound to no address
(`LocalAddr`), which no server reports.

**`V2Ray`** -- the app's controlling thread makes its calls one after another (`ctl`
is its step); `AssignCore` and `AssignFeatures` are the assignments at the end of
`LoadConfig`, `StartCore`/`StartDone` and `CloseCore`/`CloseZero` the two halves of
`Start` and `Close`. A dial tests `started` (`DialCheck`), puts the core into its
context (`DialContext`, left out by `dialUDP`) and uses the dispatcher
(`DialDispatch`), three reads of fields that may change in between; the method of a
nil interface panics (`DialPanics`). `irregular` and `overwritten` remember a reload
of a started instance and a `Close` that failed.

**`Tunnel`** -- extends `V2Ray` by `NewTun2ray` (`NewDevice`, `InstallSystem`,
`InstallControl`, `PingOutbound`, `InstallDns`) and `Tun2ray.Close` (`ClearControl`,
`ClearSystem`, `ClearDns`, `CloseDevice`) of the same thread. Tuns may overlap.
`superseded` remembers tuns after which another one wrote the variables.

**`LocalDns`** -- `Ask` is the call and the goroutine `task.Run` starts; the resolver
calls back in any number and order (`Success`, `Error`, `OnCancel`); `Examine` and
`Answer` are the rest of that goroutine, `RunSucceeds`, `RunFails` and
`RunCancelled` the ways `task.Run` returns, whichever it notices first. An answer is
a sequence of what `net.ParseIP` makes of its lines, addresses and nil; `garbled`
remembers answers with a nil.

**`ProtectedDial`** -- extends `LocalDns` by the dials; the descriptors of the process
are given out lowest first, so a number closed by one dial is at once another's.
`TryNext` is the loop over the addresses, `GetFd` to `FileClose` one attempt,
`Fail` its error paths, which close the descriptor. An address that is nil ends the
process (`DialNilPanics`).

**`PacketHandoff`** -- memory is `filling` or `held`, and goes from one to the other.

**`SystemTun`** -- `dispatchLoop` and `deliverPacket` on the buffers. A handler that
takes a packet (`ProcessUdp`, `ProcessEcho`) takes the buffer, and the loop a new one
from the pool (`NewBuffer`); the pool may hand a released block to anyone
(`UsedElsewhere`). The first buffer is as long as the MTU and the only one that the
`defer` of the loop releases. The loop rewrites packets where they lie: a block holds
a flow and whether both its addresses are still there, which after `ProcessUdp` they
are not. A packet has the length of what follows its IP header (`Bodies`), as far as
the code tells lengths apart: the loop panics when the buffer (`PayloadPanics`) or the
transport header (`HeaderPanics`) ends too early, and so does the handler of a datagram
that is shorter than its header (`CutPanics`). Closures are the reply functions that
sessions keep, which point at the buffer of their first packet.

**`GVisorEndpoint`** -- `Attach` and its loop, `NextIovecs`, `ReadPacket` with
`pullViews`, delivery and the end by eventfd or by error. A view is named by its
place in the row and a number, a piece of memory that the garbage collector may hand
out again.

**`Replies`** -- the reply functions for datagrams and echo requests of both stacks and
both families as operators: the length told, the length written, the source, the
checksum and the quoted request. A datagram's reply has the sender that the session
names: none (DNS), an address of either family, or `net.AnyIP`.

**`TunDevice`** -- one of the two stacks, chosen as `NewTun2ray` does, and the
refinement of `PacketHandoff` by either.

A module with theorems, or its proof module, says what its variables range over.

## 4. Runs

| run | instance | shows | distinct states |
|---|---|---|---|
| `UdpSession` | 2 datagrams of one source, statistics on | safety, the refinement of `CreateOnce`, that waiters get through and closed sessions leave | 5,920 |
| `AppStats` | 1 TCP, 1 UDP, one app, 1 reset, 1 close, 1 reader, 2 bytes | safety, that nobody is stuck, and that bytes are conserved | 840,000 |
| `AppStatsPanic` | 1 TCP, 1 UDP, 1 reset | **violation**: the "unexpected" panic is reached | |
| `PingSession` | 3 requests, 2 hosts | safety | 112,000 |
| `DispatcherConn` | 1 writer, channel of 1, 2 replies, one or two at a time | safety, the refinement of `ReplyChannel`, and liveness | 301,000 |
| `ApiInstance` | 3 starts, one query of each kind | safety and liveness | 656,000 |
| `NatTcp` | 3 connections of one key, two with equal addresses | safety, and that the accept loop goes on | 131,000 |
| `Assets` | 2 readers, 3 packages one after the other, any number of kills, symmetry | safety | 1,198,000 |
| `Stun` | every kind of NAT and server | safety, and that listeners end | 349,000 |
| `Tunnel` | 2 tuns, 2 cores, 2 dials | dials use running cores, cores that came up can be closed, whose dialers are installed | 1,521,000 |
| `ProtectedDial` | 2 dials, 1 of them by domain with up to 2 lines, 3 descriptors | descriptors, protection, whole answers, and what a panic needs | 448,000 |
| `TunDevice` | IPv4 and IPv6 flow, 3 blocks, MTU at and above the buffer size; 2 places with 2 views, 2 attachments | packets stay intact, endpoints are quiet, replies are true, what a panic needs, and the refinement of `PacketHandoff` | 355,000 |

**Bounds.** Two datagrams of one key give a leader and a waiter, a late comer, or two
leaders that overlap: keys do not interact in `NewPacket` (every access is to the
entry of the own key), so one key is enough, and the safety properties are proved
for any number of datagrams. Two echo requests to one host reach every path twice in
a row, a third to another host separates the keys. In `AppStats` the two connections
are a creator and a waiter, or one that leaves while the other comes; one reset, one
walk and one reader are enough for the order of one against the rest, and two bytes
for one before and one after a swap (`MaxTraffic`). The finding needs only one reset.
A channel of one packet is full after one reply, and two replies, in one batch or
two, meet it empty, full and closed. Three starts let two old loops live beside the
current one. Keys do not interact in `NatTcp` either; two equal connections reuse an
entry and a third contends for it. Three packages allow an update that is interrupted
and another after it, and a second reader can open what the first is writing. `Stun`
needs no bound: its state is finite. Two cores (`MaxCores`) are a running one and the
one that replaces it, two tuns an old one and a new one in either order of closing;
a third would find what the second finds. Three descriptors (`MaxFd`) let one dial
fail for want of one and reuse the number another has just closed; two lines of an
answer (`MaxIps`) are one that fails and one to fall back to, either of which may be
no address. Three blocks (`Bufs` and
`First`) are one in the loop, one in a handler's hands and one in the pool; when all
are held the loop waits, where the program would allocate. One reply function at a
time (`MaxSessions`) is enough, since it only looks at its own buffer and changes
nothing. The same holds for the
views (`MaxViews`); two attachments (`MaxAttach`) are one before and one after a stop.
The lengths in `Requests` lie below, at and above the size of the error that quotes a
request. `MaxResets`, `MaxCloses`, `MaxTraffic`, `MaxBatch`, `MaxPackets`,
`MaxStarts`, `MaxVersion`, `MaxCores`, `MaxFd`, `MaxIps`, `MaxViews`, `MaxAttach`,
`MaxSessions` and `Bufs` are the only bounds on unbounded behaviour.

**Fairness.** Weak fairness on each goroutine: the Go scheduler runs what can run. In
`UdpSession` nothing forces a datagram, the end of a session or a failing write; in
`DispatcherConn` the timer ticks (the library's `ActivityTimer` is periodic), replies
and the app's `Close` are not forced; in `ApiInstance` a `Start` or `Close` that began
ends; in `NatTcp` the accept loop runs and a sleeping goroutine wakes up; in `Stun`
reading a closed socket returns. `AppStats`, `Tunnel`, `ProtectedDial` and `TunDevice`
are checked without fairness: `NobodyStuck` of `AppStats` states progress as a safety
property, that whoever waits can still be let go on by somebody. `CHECK_DEADLOCK
FALSE` everywhere, because all these systems stop when nothing arrives, and some
goroutines wait for ever (section 6).

**Symmetry** is used in `Assets` only, which has no liveness property.

## 5. Proofs

For every value of the constants, from the assumptions named in the modules:
`OnceAssumption`, `UdpAssumption`, `PingAssumption`, `NatAssumption`, `StatsAssumption`
(the key of a goroutine is a function, `None` is no goroutine and no address),
`AssetsAssumption` (the contents of a file that are no version are told apart),
`ConnAssumption` (the channel holds a packet at least, the owners of a connection are
no writers), `ApiAssumption`, `TrafficAssumption`, `SystemTunAssumption`,
`EndpointAssumption`, `TunDeviceAssumption`, `V2RayAssumption`, `TunAssumption`,
`DnsAssumption` and `DialAssumption` (bounds are natural numbers and what stands for
"none" is no flow, tun or goroutine), `StunAssumption` (no answer is `Nothing`).
Each proof strengthens its property to an invariant that every step keeps, tried with
TLC on the instance of section 4 first.

* `UdpSessionProofs` -- `IInv` is the conjunction of one part per concern, each
  with a lemma of its own (`TypeStep`, `LockStep`, `CondStep`, `CondLStep`,
  `ConnStep`, `EntryStep`, `RivalStep`, `StoredStep`, `HandStep`): who owns a Cond,
  who waits on whose, who holds its mutex, which leaders have a connection, whose
  entry is in the table, which sessions may be hidden, what was stored before a
  broadcast, and what was handed over. Every safety property of the run follows.
  `OnceInv` of `CreateOnce` is inductive too: a creator holds its key, and a waiter
  has joined a caller of its key that is creating or done, without which `Release`
  could not be shown to respect `ReleasedAfterCreator`. `Implementation` shows the
  refinement: each step maps to the step of `CreateOnce` with its name or to a
  stutter, with `holder <- lockTable`, `joined <- cond` and `phase` a function of `pc`.
  `WakeUpNotLost` rests on `WaitInv`: only a goroutine that came after the broadcast
  sleeps without its leader before it.
* `PingSessionProofs` -- that there is one dispatch goroutine is the invariant
  `CurInv` (only `cur` is in the middle of a call); with it `LockInv` (a Cond in
  `lockTable` is that of `cur`) gives `LoopNeverWaits`, and `EntryInv` that a
  leader finds its key empty. `OwnerInv` has the ownership of buffer and closer.
  `Implementation` needs that nobody waits and that a call which has not
  returned has no answer yet (`OwnerInv`): `CreateOnce` only ever sees callers that
  create or pass by.
* `AppStatsProofs` -- `UserInv` says which goroutines have an `appStats`; `CountInv`
  that the sets it counts are finite, so that the cardinality of one that gains or
  loses an element can be computed (`OneMore`, `OneLess`): only with it the
  decremented counters are natural numbers, so `TypeOK` needs it as well. `StampInv`:
  an `appStats` with users and no `deactivateAt` has somebody who will write it, one
  who enters or one whose sum is zero. `ListInv` says that the list holds each
  connection between `PushBack` and `Remove`, once, and `WalkInv` that everything
  before the cursor of `CloseConnections` is closed; the lemmas `AppendAt` and
  `RemovedAt` say what the list operations do. For `NobodyIsStuck`, `KeyInv` and
  `MutexInv` say who holds the key and the mutex of a Cond, `WaitInv` that a sleeper
  has missed the broadcast or its creator has it before it, `KeptInv` that the table
  forgets nothing before a reset. `Implementation` maps the search for an `appStats`
  to `CreateOnce`; `FindInv` has who holds the key and whom a waiter joined,
  without which the deletion of the Cond could be that of another one. A reset is a stutter, since the
  promise is about making an entry and not about its staying; `AppStatsMadeOnce` is
  what it gives for the statistics. `TrafficInv` counts bytes as pairs of a call and a
  number (`Bytes` of `AppTraffic`), so that what the calls have in hand is the
  cardinality of a finite set and no sum over the calls, which would need an
  induction.
* `SocketProofs` -- `NatTcp`: `RoutedRight` is inductive with `TypeOK`. The lemma `TouchKeeps`
  says that a packet never changes an entry that is there, `RemoveCuts` that a
  removal puts the connections that relied on the entry into `cut`, and `RoutedKept`
  covers every action that neither establishes nor dispatches a connection.
  `ApiInstance`: `SocketInv` adds to `NoSocketLeak` that a responder which is not
  started has no open socket, so that a failing `Start` forgets none. `Stun`: that a
  result is right depends on which answers can still arrive. `AskedInv` says that an
  answer under way is one of the running test or of an earlier one of its phase,
  `HeldInv` and `WaitInv` who holds and who awaits one, `FirstInv` that without a
  duplicate the answer that gave `first` is gone and cannot be compared with itself,
  `QuietInv` that on a good network only the answer of the running test is under way
  and which NATs the earlier tests have left. `EndStep`, `FollowStep`, `SendStep`,
  `ConnectStep` and `AnswerStep` are the groups of steps. Of what the liveness of the
  three rests on, `QueueHasLoop` says that whoever is in the accept queue has a
  running loop and an open listener, `LoopsCanEnd` that a loop reads an open socket
  only if it is that of the running responder, `SocketsAreClosed` that the socket
  behind a listener is closed when its tests are over.
* `AssetsProofs` -- the invariant behind `VersionTells`: the readers are not past the
  gate while the goroutine of `InitializeV2Ray` is at the asset (`GateInv`), so one
  goroutine at a time is between `Create` and the version file (`SoleInv`), the
  version file is older than the package while it is there (`WriteInv`), and there is
  none without an asset (`AbsentInv`). Two readers that extract at once break
  `SoleInv`, which is why `"overlap"` is an exception. Behind `ReadsWhole` are
  `OldInv` (nothing on the disk is newer than the package), `BlindInv` (nobody has
  opened anything before the extraction is over) and `FreshInv` (a start without an
  excuse keeps only an asset that is whole and current); behind `RootsWhole`,
  `CertInv` (the sum is written last, so a current sum means a current pem) and
  `LoadInv` (the roots are untouched until they are loaded from it).
* `TunDeviceProofs` -- for the system stack `SysInv` follows every block: the loop's is
  in nobody else's hands (`CacheInv`), each handler has one of its own that is not in
  the pool (`HeldInv`), and the first one is released once (`FirstInv`), though by
  whom is open. Without `FirstInv` the `defer` could put a block in the pool twice,
  and `HeldIntact` would not be inductive. For the gVisor stack `EpInv` says that a
  view in the row is the memory of its iovec and in no packet (`RowInv`). The
  refinement maps steps by the lemmas `ProvideMaps`, `HandOverMaps`, `LetGoMaps` and
  `DiscardMaps`; `NothingOverwritten` is what it gives. `RepliesTrue` follows from
  `HeldIntact`: while its handler has the request, the buffer has the addresses that
  the checksum of an IPv6 reply is computed with (`LentIntact`). `PanicOnCutPacket`
  says what a panic needs, from the lengths that a packet may have.
* `TunnelProofs` -- `CoreInv` ties the controlling thread to the fields (`ControlInv`),
  gives a started instance a running core unless it is irregular (`StartedInv`) and
  carries that to the undisturbed dials (`DialInv`); `TunInv` follows the step of
  `NewTun2ray` and `Close` (`InstallInv`, `DialersInv`). The lemmas are one per group
  of steps, and `DisturbedKept` serves all that change a field.
  `DispatcherConn`: `RaceInv` says that without a race one caller at most is between
  the test of `closed` and the end of `Close`, and none once the channel is closed;
  `RepliesInv` that what was delivered lies before what is in the channel and that
  before what `handleInput` holds, and that these and the released replies are all
  there are. `IncreasingAppend`, `IncreasingTail` and `IncreasingConcat` are the
  lemmas on sequences. `ReplyChannelImplemented` maps the channel and the batch to one
  line: a reply that goes from the batch into the channel does not move (`LineKept`),
  one that is read is the front of the line (`FrontOfLine`), and one that does not fit
  is behind the whole channel (`BehindTheChannel`), all from `HeadThenTail`.
  `CloseReachesEnd` follows from `EndsInv`: a `Close` past its test is at one of its
  three calls, none of which waits, or the effect of that call stands.
* `ProtectedDialProofs` -- `DescriptorsOf` and `ResultOf` say, by the step of one dial,
  what its descriptors are and what it has to show; `OwnerInv` that every open
  descriptor belongs to someone. `OneDial` reduces a step to the dial that makes it.
  `TaskInv` is the part of the DNS transport. `PanicsAreBadLines`: what a dial has yet
  to try is a part of an answer, so a nil in it is a nil of the answer.

Only model-checked: the liveness properties, since the prover has neither `ENABLED`
nor fairness. What each of them rests on besides the scheduler is proved where it is
an invariant:

| liveness, by TLC | safety core, by TLAPS |
|---|---|
| `WaitersReleased` | `WakeUpNotLost` |
| `ClosedSessionLeavesTable` | `EntriesAreServed` |
| `CloseEndsBoth` | `CloseReachesEnd` |
| `CloseEndsLoops` | `LoopsCanEnd` |
| `QueueMoves` | `QueueHasLoop` |
| `ListenersEnd` | `SocketsAreClosed` |
| `IdleConnectionCloses` | none: it rests on the timer |

`NobodyStuck` is stated with the guards of the steps (`CanGoOn`) and not with
`ENABLED`, so that it can be proved; TLC has found the two equal in every state of the
run's instance that has not panicked.

## 6. What the model says about the code

One assertion of the code is refuted (`AppStatsPanic`): `panic("unexpected sync
read failed")`, `tun.go:240` and `:405`, is reachable through `ResetAppTraffics`.

Other behaviour a maintainer should know of. Nothing in the repository claims
the opposite, so the properties are stated with these exceptions in them:

* a goroutine between `LoadOrStore` and `cond.Wait` when the leader broadcasts
  sleeps for ever (`missed`, `WaitersReleased`);
* a failed dial leaves the Cond in `lockTable`: the source address is dead until
  the process ends (`"failed"` in `CreatorHoldsLock`);
* two sessions of one source address can be open, and the end of one hides the
  other (`rivals` in `SoleSessionReachable`); in the same way a second `appStats` of
  one app can replace the first;
* after a reset the open connections of an app are counted nowhere and
  `CloseConnections` does not find them;
* `deactivateAt` may be set while a new connection is active;
* `dispatcherConn.Close` can close the channel twice, and `handleInput` can send on
  the closed channel; both panic (`ClosePanicNeedsRace`);
* cached replies are dropped when a connection is closed;
* after `Close` and `Start` of the responder the old loop may go on beside the new
  one;
* the entry of a TCP session is deleted five seconds after its connection, by key,
  and a connection that has taken the key over loses it: replies are dropped until
  the app sends again, and another connection of the key may take the entry (`cut`);
* an asset whose first extraction was interrupted has no version file, is there, and
  so is never extracted again (`"bare"`); interrupted between the rename and the
  version file, it works and is never updated;
* with `skipExtract`, or after a failed extraction, a second reader may open what the
  first is extracting (`"skip"`, `"io"`);
* a version file or a sum that could not be read once, followed by a kill, leaves a
  damaged file that passes for current (`"misread"`);
* `UpdateSystemRoots` during the extraction loads a part of the certificates, and the
  call at the end of the extraction does not correct it (`"early"`);
* without a NAT the tests say `EndpointIndependent`, never `EndpointIndependentNoNAT`,
  since the local address they compare with is a wildcard (`Tellable`);
* a STUN server without RESPONSE-ORIGIN makes `mappingTests` panic, and an answer too
  late for its test keeps the listening goroutine for ever;
* bytes counted on an `appStats` that a reset has removed are never reported;
* a dial that races with `Close` may call a method of a nil interface, which ends the
  process (`disturbed` in `DialOnRunningCore`); `LoadConfig` on a started instance
  loses the running core (`overwritten`); a core whose `Start` failed keeps what it
  had started, and `Close` does not touch it, since the instance does not count as
  started (`RunningCoreKept`);
* a line of a DNS answer that is no address, such as a scoped one, is kept as nil and
  counts as an answer; a dial that comes to it ends the process (`PanicNeedsBadLine`);
* `Tun2ray.Close` clears the dialers of the process also when a newer tun installed
  them (`superseded`);
* `protectedDialer` for UDP returns neither a connection nor an error when
  `FilePacketConn` fails (`dupLost`);
* the goroutine of `OnCancel` stays as long as its context does;
* the packet loop of the system stack panics on a packet longer than `buf.Size` once
  its first buffer is given away, which needs an MTU above that size, and at any MTU on
  a last IPv4 fragment of less than four bytes; one of four to seven bytes passes the
  loop, and whoever looks at its payload panics (`PanicNeedsCutPacket`);
* at its end the loop releases its first buffer, whoever has it;
* a reply to a datagram whose sender is of the other family, or `net.AnyIP` for a
  sender named by a domain, gets a source that is not the sender, and where the
  lengths differ a checksum that is wrong (`UdpReplyTrue` names the cases);
* the echo reply of the system stack to an IPv6 app takes the addresses of its
  checksum from a buffer that may have been released; of an unreachable IPv4 host
  both stacks tell a length that need not be that of the body and a checksum that is
  not its own, and the system stack quotes the request with its addresses swapped
  (`RepliesTrue` names these cases);
* a gVisor endpoint that was stopped once ends at once when it is attached again,
  since the eventfd is never read; one whose device fails stays attached; a stop waits
  as long as packets keep coming; `gvisor.New` does not look at the error of
  `newRwEndpoint`.

## 7. Not modelled

The bytes of packets and headers, IPv6 extension headers, logging, sniffing and routing decisions (a route is
found or not), the connection registry of the v2ray library, unix sockets, socket
options and `bind.go`, the options of the gVisor stack and its pcap sniffer,
`SetCurrentDomainNameSystemQueryInstance` and the conversion of DNS messages,
`QueryStats`. The calls that control the instance and the tun are assumed to come from
one thread of the app, one after another, as the fields without locks require.
Liveness of the statistics is covered only by `NobodyStuck`. A later IPv4 fragment that
is long enough is taken for a datagram with the ports that its bytes spell: to the
model it is a datagram of some flow. The model takes the addresses of an answer to
reach `protectedDialer` as `dns.go` gives them; a library that dropped nil before would
make `DialNilPanics` unreachable.

Not modelled as components (`not_modelled` in `PROJECT.json`): URL test and
observatory, HTTP client, share links and the plugins of `ssr.go` and `obfs.go`, which
wrap library calls and keep no state of their own; process lookup (`procfs.go`,
`uid.go`), which parses what the kernel answers; process setup, logging and the
generated code.
