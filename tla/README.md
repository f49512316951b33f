# Verification of gforward in TLA+

gforward carries TCP streams between a *client*, which works out where each
local connection wants to go, and a *server*, which dials that destination and
relays in both directions. This directory holds TLA+ modules translated from
the Go source, TLC configurations that model-check them on small instances, and
TLAPS proofs that hold for every size. `PROJECT.json` ties every definition to
the source lines it stands for, every property to the runs that check it, and
lists the hazards the properties are aimed at.

    tlc -workers 2 -config ServerBatch.cfg MCServerWorker.tla
    tlapm ServerWorkerProofs.tla
    tlapm ServerOrderProofs.tla
    tlapm ClientForwarderProofs.tla
    tlapm EndToEndProofs.tla
    tlapm DispatcherProofs.tla
    tlapm FramingProofs.tla
    tlapm SequenceLemmas.tla
    tlapm UserConnProofs.tla
    tlc -workers 2 -config UserConn.cfg MCUserConn.tla
    tlc -workers 2 -config EndToEnd.cfg MCEndToEnd.tla

## 1. Inventory

Paths are under `src/`.

| component | state | operations | who calls it |
|---|---|---|---|
| dialer (`network/dialer`) | `dialSem`, `dialResultChan`, the handler's `recvChan`; a gnet client event loop that owns every outbound connection and a queue of tasks | `AsyncDial` (one goroutine per call), `Dial`, `OnOpen`, `OnTraffic`, `OnClose` | server workers and the client forwarder, one Dialer each |
| server worker (`server/handler.go`, `server/session.go`) | `sessionTable`: `byClient`, `byDest`, and per session `dest`, `destConn`, `dialing`, `pending` | `handleClientMsg`, `forwardUpstream`, `handleDialResult` (upstream goroutine); `handleDestMsg` (downstream goroutine); `bindDial` and the write-error callback (dialer's loop) | dispatcher, dialer |
| dispatcher (`server/dispatcher.go`) | `nextWorkerIndex`, one bounded channel per worker, a worker index per connection | `OnOpen`, `OnTraffic`, `OnClose`, `dispatch` | the server's gnet engine |
| client forwarder (`client/forwarder.go`, `client/session.go`) | `sessionTable`: `byUser`, `byServer`, and per session `dest`, `serverConn`, `dialing`, `pending`, `sendMu` | `OnTraffic`, `OnClose` (users' loops); `handleServerMsg`, `handleDialClose`, `handleDialOpen`, `handleDialError` (one goroutine) | the client's gnet engine, its dialer |
| asynchronous write (`utils/gnet.go`) | none | `AsyncWrite` with a callback run once | both sides |
| packet loop (`network/message`) | none | `ParseAvailable`: Peek, Unmarshal, Discard until dry | dialer handler, dispatcher |
| internal protocol (`protocol`) | a packet's address, port, payload | `Marshal`, `Unmarshal` of `ForwardPacket` and `PlainPacket` | both sides |
| destination parsers (`client/destination`) | per connection: SOCKS5 stage, HTTP body remaining and chunk state, Shadowsocks ciphers and nonces | `Parse`, `EncodePayload`, `Clear` | client forwarder |
| DNS hijack (`client/dns.go`) | none between queries | answer A queries with the client's address | a DNS server |
| command line, logging | none after start | | |

**How they interact.** A user's bytes are read on the user's loop, a parser
names the destination, `Marshal` makes a frame, and `admitUpstream` decides
under the table's mutex whether the frame waits, is written, or causes a dial;
the I/O follows after the unlock. The server's dispatcher decodes the frames
of one read into one message for the worker the connection was assigned to.
The worker's upstream goroutine makes the same three-way decision, keyed by the
destination of each packet. Everything a destination sends goes from the
dialer's loop through `recvChan` to the downstream goroutine, which looks up
the route. The two sides differ on purpose: the server registers the route
inside `OnOpen`, on the dialer's loop, because dial results and destination
events are consumed by two goroutines; the client posts Open, Data, Close and
DialError on one channel to one goroutine, and needs `sendMu` because the replay
of pending packets and the forwards are then made by different goroutines.

**What is hard.** Three goroutines and an event loop share a table whose methods
are atomic, but whose decisions are carried out after the unlock. A dial may
succeed, fail or time out after its session was closed, replaced, or replaced
by another one for the same destination. A connection's first bytes, or its
end, may come before its dial result. Every channel is bounded, and the event
loop blocks when `recvChan` is full, with all its connections. Writes are only
queued; when one fails its connection closes, and the purge happens on another
thread than the next packet of the same client. The parsers are incremental: any
byte may be the last of a read.

**What makes each part correct.**

- dialer: the semaphore counts the dials past it exactly; every dial ends and
  reports once; the events of a connection keep their order.
- server worker: the two maps agree; a session is torn down only for a reason
  of its own; a destination receives an unbroken run of one client's packets;
  a client receives each destination's bytes from the first one on, in order,
  and never an old destination's after a new one's; nothing outlives its client.
- dispatcher: all messages of a connection go to one worker, in order.
- client forwarder: the same of users and server connections; besides, tunnel
  data is never parsed as a handshake.
- framing and parsers: what was encoded is decoded, however it is cut; no byte is
  handed over twice or dropped; a rejected input leaves no half state behind.

## 2. Modules

| module | models | |
|---|---|---|
| `Dialer` | the dialer, gnet's outbound side, and `utils.AsyncWrite` | no Next of its own: its actions are conjoined by the module that owns a Dialer |
| `ServerWorker` | one worker, its clients, its Dialer | EXTENDS Dialer |
| `MCServerWorker` | symmetry sets for TLC | |
| `ServerWorkerProofs` | the inductive invariant and its proof; what waits in a worker's queues is true; two clients stay apart; why sessions go | EXTENDS ServerWorker |
| `ServerOrderProofs` | both streams through a worker, in order and complete; how its connections close | EXTENDS ServerWorkerProofs |
| `ClientForwarder` | the forwarder, its users, its Dialer | EXTENDS Dialer |
| `MCClientForwarder` | symmetry sets for TLC | |
| `ClientForwarderProofs` | the client's inductive invariant and its proof; both streams through the client, in order and complete; how its connections close | EXTENDS ClientForwarder |
| `EndToEnd` | a client forwarder and a server worker, and the connections between them | INSTANCEs both as they are |
| `MCEndToEnd` | the destination its users name, for TLC | EXTENDS EndToEnd |
| `EndToEndProofs` | the order of what a user gets through both programs, and that an orderly close loses none of it | EXTENDS EndToEnd, INSTANCEs ClientForwarderProofs and ServerOrderProofs |
| `Dispatcher` | the server's event loops, the round robin, every worker's channel | above `ServerWorker`, which has one channel |
| `DispatcherProofs` | its inductive invariant, the order of each connection, the round robin | EXTENDS Dispatcher |
| `Destination` | `ParseResult`, default ports, HTTP heads, the HTTP Host parser | |
| `Socks5`, `HttpProxy`, `ClientHello`, `Shadowsocks` | one parser each, as functions of its state and the buffer | EXTEND Destination |
| `UserConn` | one user connection byte by byte: `OnTraffic` with the parser of its mode, `OnClose`, and the encoding on the way back | EXTENDS the parsers |
| `MCUserConn` | the streams users send | |
| `Framing` | one framed connection: `ForwardPacket`, `ParseAvailable`, the cut of a user's bytes into packets | independent of the above |
| `PacketPipe` | the FIFO of packets that `Framing` promises | abstract: `Framing` implements it |
| `MCFraming` | hosts for TLC | |
| `FramingProofs` | decoder against encoder, the inductive invariant, the refinement, concatenations | EXTENDS Framing, SequenceLemmas |
| `SequenceLemmas` | slices and fronts of sequences, induction over the naturals, `FlattenSeq`, channels of events | EXTENDed by the proofs |
| `UserConnProofs` | the way back to a user: what the Shadowsocks encrypter makes of any payloads is one stream that its decrypter reads back | EXTENDS UserConn, SequenceLemmas |

The layers rely on each other:

`ServerWorker` and `ClientForwarder` number packets; `Framing` entitles them to:
it shows that a connection between a client and a server carries a sequence of
packets, not of bytes. `UserConn` replaces the units of `ClientForwarder` by
bytes and real parsers, and takes from it that packets arrive in order.
`ServerWorker` has its clients' messages one after the other; `Dispatcher` shows
that they are all there, in order, with Close last. `EndToEnd` shows what
neither side can promise alone.

### Dialer

`dials[d]` is the goroutine started by the d-th `AsyncDial`; its `pc` follows
the function: `spawned` (waiting for `dialSem`), `dialing`, then `failed` or
`enrolling` (in `EnrollContext`), `opened` (after `OnOpen`), `done`. The
connection it makes is `conns[d]`, with what was written to it (`out`) and how
many packets its peer sent (`in`). `tasks` is the loop's queue of asynchronous
writes and closes. `loop.blocked` holds the event the loop could not push into
a full `recvChan`: while it is there the loop does nothing else. `loop.failed`
names the connection whose failed write has its callback still to come, after
`OnClose`. A goroutine whose Open event is the blocked one is still inside
`EnrollContext` and reports nothing before it is through (`OnOpenReturned`); with
the worker's hook `OnOpen` posts nothing. `DialErrorToRecvChan` selects the client's mode, in which a failed
dial and an Open are posted on `recvChan` and successes are not sent to
`dialResultChan`.

gnet is external and is modelled from what the code relies on: `EnrollContext`
returns only after `OnOpen` has run, `AsyncWrite` and `Close` queue a task in
order, a failing write closes the connection first and calls back once. A peer
may send, close or reset at any time, a write may fail at any time. One thing is
assumed beyond what gnet promises: bytes an accepted write has handed over reach
the peer before an orderly close does. gnet tries to flush what is left in its
outbound buffer when it closes a connection and does not guarantee it. On this
ground `DownCall` counts a packet as delivered, `ServerSeesClose` and
`ClientSeesClose` follow the data, and `OrderlyCloseLosesNothing` is to be read
with it; where the flush fails, the link was lost (`ServerLosesLink`,
`ClientLosesLink`).

### ServerWorker

`byClient` and `byDest` are the two Go maps, partial functions here. `sess` is
the heap: a position is a `*session`, so pointer comparison in `bindDial`,
`completeDial` and `abortDial` is equality of positions (`Current`). A dial
token is `[client, session]`. `channel` is the worker's message channel. `up`
is the upstream goroutine between its steps: the packets of the message it is
in (`pkts`), and the calls it has decided on but not made (`io`): close the old
connection, dial, write, replay. `down` is the same for the downstream
goroutine.

| action | code |
|---|---|
| `ClientSends`, `ClientCloses` | `dispatcher.OnTraffic` / `OnClose` and `dispatch` |
| `UpReceive` | `select` on `h.channel`, `handleClientMsg`, `purgeByClient` |
| `UpAdmit` = `AdmitQueued` \/ `AdmitForward` \/ `AdmitDial` | `admitUpstream`, one disjunct per `upstreamAction` |
| `UpCall` | the `Close`, `AsyncDial` and `AsyncWrite` made after the unlock |
| `UpDialResult` | `handleDialResult`: `abortDial`, or `completeDial` and the replay, or the close of a stale connection |
| `DownReceive`, `DownCall` | `handleDestMsg` under, and after, the lock |
| `LoopOpens` | `OnOpen` and the `bindDial` hook |
| `LoopWriteError` | the `AsyncWrite` callback: `purgeByDest`, `Close` |

Payloads are numbered, `[client, seq]` upstream and `[conn, seq]` downstream, so
that order, loss and mixing can be told; their bytes are not modelled.
A write to a client connection is recorded in `delivered` at once: the client's
loop only preserves the order. When the channel is full the dispatcher's loop
waits inside `dispatch`; that is the guard of the two client actions.

After a failed write the session is purged and the client is left connected:
its next packet dials again. This is what the code does on purpose, and is why
`UpstreamNotLost` speaks of connections that are open.

### ClientForwarder

`lp[u]` is the loop that serves user `u`: `lookup` (getDest, or Parse up to the
packet), `admit` (`admitUpstream`), `io` (after the unlock, under `sendMu`),
`reject` (OnTraffic returns `gnet.Close`). The gap between `lookup` and `admit`
is real: they take the mutex separately. `rcv` is the goroutine that consumes
`recvChan`, with the calls it owes and the session whose `sendMu` it holds.

The user's stream is a sequence of *units*, cut anywhere by reads (`ReadSizes`).
Parsers appear as what they return. `Kinds` says what a mode's parser accepts:
`{"request"}` for Shadowsocks, `{"handshake"}` for SOCKS5 and the DNS modes,
both for the HTTP proxy. `HandshakeKept` distinguishes the DNS modes, whose
handshake bytes are forwarded, from the ones whose parser consumes them.
`LongDests` lets a user name a destination `Marshal` refuses.

| action | code |
|---|---|
| `UserTraffic` | gnet reads and calls `OnTraffic` |
| `Lookup` (`LookupCached`, `LookupRequest`, `LookupHandshake`, `LookupRejected`) | one turn of `OnTraffic`'s loop up to `admitUpstream` |
| `Admit` (`AdmitDial`, `AdmitQueued`, `AdmitForward`) | `admitUpstream` |
| `UserCall` | `AsyncDial`, the write under `sendMu`, or the close owed by `OnClose` |
| `UserCloses` | `OnClose` |
| `Receive` (`HandleServerMsg`, `HandleDialClose`, `HandleDialOpen`, `HandleDialError`) | the loop of `start`; an encoder's error, which closes the user, is in `UserConn` |
| `ReceiveCall` | its writes and closes; `sendMu` is released after the last |

### UserConn and the parsers

A script is what one user sends: a mode and a sequence of items that the protocol
itself tells apart. The model reads any number of its bytes at a time and runs
the loop of `OnTraffic`; what is left of the script behind `ntaken` and before
`nread` is gnet's inbound buffer. An item states, independently of the parsers,
what it is worth: the bytes its destination must get, whether part of them may go
before the item is complete, the answers due, and whether it must be refused.

| definition | code |
|---|---|
| `ParseSocks5`, `ParseHTTPProxy`, `ParseHTTPS`, `ParseHTTP`, `ParseShadowsocks` | the `Parse` methods: result, bytes discarded, answers written, next state |
| `ConsumeChunked`, `Consume` | `httpChunkedBodyState.consume`, `httpProxyRequestState.consume`, byte by byte, data in bulk being the same |
| `Decrypt`, `Encrypt` | `ssDecrypter.decrypt`, `ssEncrypter.encrypt`, nonces as numbers |
| `TurnNeedsMore`, `TurnRejected`, `TurnForwards` | one turn of `OnTraffic`'s loop, by the parser's status |
| `OnClose` | `OnClose`: `Clear` and the end of the session |
| `HandleServerMsg`, `WriteToUser` | `handleServerMsg` before and after it has looked up the user: the connection may close in between |

Sizes are parameters: an IPv4 address has one byte, an IPv6 address two, a packet
nine, a chunk five, a size line six. Offsets in a ClientHello begin behind the
random (`SidAt`). Of the spaces `strings.TrimSpace` knows, a chunk's size line
has the ASCII ones. `http.ReadRequest` is external: a head is a few bytes from a
known set, and it tells the beginning of one from anything else. The cipher is
external and symbolic: a sealed byte names key, nonce and text, and opens under
the same key and nonce only.

### EndToEnd

The d-th connection of the client's dialer and client connection d of the worker
are the two ends of one TCP connection. `LinkUp` and `LinkDown` let one end read
what the other wrote; a close is seen after the data (`ServerSeesClose`,
`ClientSeesClose`), or at any time when the network fails (`ServerLosesLink`,
`ClientLosesLink`). `broken` remembers that a write or the network failed, which
excuses losses. Everything else is an action of `ClientForwarder` or
`ServerWorker` and leaves the other's variables alone. The user has opened a tunnel,
so all its packets name the destination of its handshake: `DestOf` gives one to each
user, and `LinkUp` has it in the packets of the user's links (`LinkDest`).

What `OrderlyCloseLosesNothing` promises had to be found out. Between
`purgeByDest`/`purgeByServer` and the hang-up, a packet of the user can still be
admitted and dial the destination again, on the same or on a new link; that second
connection is then torn down with whatever it had. So the promise is for the first
destination connection that was made for the user: it has closed by itself, and all
that was read from it has been written to the user. The run has one unit per user,
where the second dial cannot happen; instances with two, where it does, are too large
for a run of minutes. The theorem `OrderlyClose` has no such bound.

The server does not tell the client that a dial failed: the user then waits until
one of them hangs up. `TunnelDialed` therefore excuses failed dials.

### Dispatcher

`line[w]` is all that was ever pushed on worker w's channel, and `taken[w]` how
much of it was received. A loop that finds a channel full stops with its message
in `blocked`, and with it every connection it owns, whatever their workers are.

### Framing

`stream` is all that was written to one connection, `nread` how much of it the
receiver has read and `nparsed` how much it has consumed, so gnet's inbound
buffer is `buf`, the part between them. `peer` says who is at the other end. A
byte is a number below `Base`, 256 in the code: the length of an address is one
byte, ports and lengths are two, and `MaxAddr` and `MaxUint16` follow from it.

| definition | code |
|---|---|
| `Sendable`, `Header`, `Marshal` | `ForwardPacket.Marshal`, its errors and its bytes |
| `SetDestination` | the same; the host is a sequence of bytes, the port a number that may not fit |
| `Rejects`, `Complete`, `Decoded`, `Consumed` | the three answers of `ForwardPacket.Unmarshal`; neither `Rejects` nor `Complete` is `ParseNeedMoreData` |
| `ClientPacket` | one turn of the client's `OnTraffic` from `Peek` to `Marshal`: the cut at 65535 bytes, `Discard`, and the bytes lost when `Marshal` fails |
| `Read` | gnet reads any part of what was written and calls `OnTraffic` |
| `ParseNeedMoreData`, `ParseRejected`, `ParseDone` | one turn of `ParseAvailable`'s loop, with what `OnTraffic` does of its result |

TCP is external: it delivers the stream in order, in pieces of any size. The
payload a parser decodes itself (Shadowsocks) is not taken from the inbound
buffer: `UserConn` has it. `PlainPacket` takes the whole
buffer as one packet, which is what `Dialer` shows of a destination's reads.

## 3. Runs

The runs of the relay take capacities of one or two for every channel and for the semaphore:
a bounded channel behaves differently only when it is full or empty, and with
these it is full all the time.

| run | configuration | what it shows |
|---|---|---|
| `server_batch` | one client, two destinations, two packets read together or apart, destinations that send, fairness | the whole safety of a worker; nothing leaks, every dial settles |
| `server_switch` | three packets, two dials at a time, two results queued | x to y and back to x while the first dial to x has not been reported: the smallest instance in which comparing destinations instead of sessions goes wrong |
| `client_tunnel` | three units, requests and forwarded handshakes, destinations Marshal refuses, downstream data, fairness | the whole upstream safety of the forwarder; pipelining across pending, replay and forwards; a lost server connection disconnects its user; nothing leaks |
| `client_two_users` | two users, one request each, two downstream packets | users get all their own data and nothing of each other's |
| `user_conn` | 52 scripts in five modes, two downstream payloads | every byte to the right destination as soon as possible, refusals for cause, answers in time, a decodable way back |
| `end_to_end` | one tunnel, a destination that sends twice, fairness | dialed before the user speaks, banner delivered, orderly close without loss, close cascades |
| `dispatcher` | three connections, two loops, two workers, channels of one, fairness | per-connection order across loops and workers, even assignment, a Close behind a full channel arrives |
| `framing` | bytes of one bit; a client with four bytes for two packets, or any peer with twelve bytes | frames cut anywhere are decoded to what was encoded; other bytes are rejected for a reason |
| `dial_goroutines`, `client_lost_session`, `client_dial_failure`, `client_keep_alive` | | expected violations, see section 5 |

**Bounds.** `MaxUp` / `MaxUnits` bound what a client or user sends, `MaxIn` what a
peer sends on one connection, `UpBatches` / `ReadSizes` how much one read brings.
Each session needs a packet, so sessions and dials are bounded by them as well
(`Ids`). Two packets are the least that can be reordered; a packet in `pending`
and one forwarded after the replay need two to one destination; a switch needs
two, a switch back three. Two downstream packets are the least of which
one can be lost in front of the other (`client_two_users`, `end_to_end`); one is
enough to be overtaken by its dial result or to follow another connection's. Clients interact only through the shared
goroutines and channels, each of which a single other client can fill; that they
stay apart is proved for any number of them (`NoCrossTalk`).

`user_conn` tries every division of every script into reads. The scripts hold
each kind of handshake and request, each way to be refused, bodies and payloads
longer than a packet, pipelined requests, tunnel data that looks like a request,
addresses over several chunks, and lengths that reach past the end of a
ClientHello: there TLC would stop at an offset outside the record. They do not hold
a CONNECT behind a plain request, which is the finding `client_keep_alive`, nor
hosts `Marshal` refuses, which `client_tunnel` and `framing` have.
`end_to_end` has one tunnel with one packet: what a second packet adds on either
side is in `server_batch` and `client_tunnel`.

In `framing` a byte has two values, so an address has one byte, a port is 1 to
3, a payload has up to three bytes and a frame six to nine. `MaxUser` is four,
one more than a payload holds, so that the cut happens; the hosts include one
that is too long and the ports zero and one that does not fit. `MaxForeign` is
twelve, two of the shortest frames, so a rejected or unfinished frame may follow
a good one. Every division of the bytes into reads is tried. Nothing in the
decoder depends on the size of a byte, and the proofs are for every `Base`.

**Properties.** Beside `TypeOK`:

- `RouteConsistent`: the two maps are inverse to each other on bound sessions.
- `UpstreamInOrder`: each outbound connection is written a gapless run of the
  packets of the one client it was dialed for.
- `UpstreamNotLost`: while its connection is open, a session's written, queued,
  owed and pending packets are those from its first up to the last packet admitted,
  and no others (as a set: the order is `UpstreamInOrder`'s); on the server the
  packets behind it are in the channel or with the upstream goroutine.
- `DownstreamInOrder`: a client or user gets a prefix of each connection's data,
  and connections follow each other: nothing of an older one comes after a newer.
- `DownstreamNotLost`: what a routed connection sent (on the client, the connection
  of a current session, whether its Open was handled or not) was delivered or is in
  transit, and nothing else is.
- `SessionLossJustified` (action property): a session disappears without a
  successor only after its client or its connection closed or its own dial failed.
- `PipeImplemented` (framing): the packets received are those sent, in order. A
  packet `Marshal` refuses leaves nothing in the stream and shifts nothing; that
  its bytes are given up, and what is buffered behind them waits for the next
  read, is the code's choice and no property is about it. Nor is one about the
  packets dropped with a foreign peer's rejected frame: `NeverRejected` keeps a
  client's connection out of that case.
- `NoneWaits`, `NeverRejected`: a whole frame never stays in the buffer, and a
  client's frames are never rejected.
- `UserBytesKept`: the payloads cut from a user's bytes are those bytes.
- `Reencodes`, `RejectedForCause`: of any peer's bytes, each goes into one packet;
  a connection is closed only when no frame begins like its buffer.
- Liveness: `UnroutedClosed`, `ClosedUnrouted`, `ClientReclaimed`, `DialSettles`
  on the server; `ServerGoneTellsUser`, `UserReclaimed`, `DialSettles` on the
  client.
- `RightDestination`, `NothingHeld` (one user connection): what is forwarded is
  what the script is worth, in order, and none of it is held back while
  `OnTraffic` waits.
- `RejectsOnlyBad`: refused if and only if the script has something that must be.
- `Answered`, `ServerTold`: handshake answers are complete and come before data; a
  named destination is sent on with or without data.
- `UserDecodes`: what was written to the user decodes to what the server sent,
  however its loop's decrypting interleaves with the encrypting. `Clear` takes the
  state away only with the connection; a payload that finds none closes the user.
- `EndToEndInOrder`, `OrderlyCloseLosesNothing`, `TunnelDialed`, `BannerArrives`,
  `CloseCascades`: the promises of the whole, see `EndToEnd`.
- `PerConnectionOrder`, `Balanced`, `CloseTold`: the promises of the dispatcher.

Further invariants are not run but proved: `ReadyMeansBound` and `SemaphoreExact`
(server and client) and `BufferBounded` (framing).

**Fairness.** Weak fairness of each goroutine's and each loop's own steps: Go
schedules every runnable goroutine and gnet runs every queued task. Weak
fairness of each dial's steps: `Dial` has a two second timeout, so it ends, and
a channel operation that stays possible happens. A close the program itself has
queued for a client connection is run. Nothing is assumed of
clients, users, destinations, or of the choice `select` makes between two ready
channels. The semaphore is a Go channel: `AcquireSem` is only assumed to be taken
by a goroutine for which it stays enabled. (A finite number of dials competes for
it in a run, so no stronger fairness is needed there.)

In `Dispatcher` a loop that waits at a full channel is strongly fair: other loops
can fill the channel again whenever the worker makes room, and Go serves the
senders that wait on a channel first come, first served. In `EndToEnd` the links
are weakly fair besides both programs: the network delivers what it carries, and
a close behind it. `Framing` and `UserConn` are checked for safety only.

Deadlock checking is on in every run. `Quiescent` is the one state in which the
system may stop: every client gone, every queue empty; for a framed connection,
everything written was read or the connection is closed.

## 4. Proofs

`ServerWorkerProofs` and `ServerOrderProofs` prove, for every set of clients and destinations, every
number of packets and every capacity allowed by `DialerAssumption` and
`ServerAssumption` (capacities at least one, the server's mode of the Dialer):

| theorem | statement |
|---|---|
| `WorkerInvariant` | `Spec => []IInv` |
| `TypeCorrect` | `Spec => []TypeOK` |
| `RoutesAgree` | `Spec => []RouteConsistent` |
| `ReadySessionsBound` | `Spec => []ReadyMeansBound` |
| `SemaphoreCounts` | `Spec => []SemaphoreExact` |
| `EventsTrue` | `Spec => [](IInv /\ SafetyInv)` |
| `NoCrossTalk` | `Spec => []ClientsSeparate` |
| `SessionsGoForCause` | `Spec => SessionLossJustified` |
| `UpstreamInvariant` | `Spec => [](IInv /\ SafetyInv /\ UpInv)` |
| `UpstreamOrdered` | `Spec => []UpstreamInOrder` |
| `UpstreamComplete` | `Spec => []UpstreamNotLost` |
| `DownstreamInvariant` | `Spec => [](IInv /\ SafetyInv /\ UpInv /\ DownInv)` |
| `DownstreamOrdered` | `Spec => []DownstreamInOrder` |
| `DownstreamComplete` | `Spec => []DownstreamNotLost` |
| `ClosesComeLast` | `Spec => [](IInv /\ SafetyInv /\ UpInv /\ DownInv /\ ClosesLast /\ AllSent)` |

`RouteConsistent` is not inductive. `bindDial` adds the entry of the new
connection to `byDest` and overwrites `destConn`: agreement survives only if
the session had no connection before, which holds because a session is dialed
once. `completeDial` makes the session ready: `ReadyMeansBound` survives only
if `OnOpen` came first, which is what `EnrollContext` guarantees, and only if
the result in the queue tells the truth about it. `IInv` therefore adds to
the properties:

- `OwnSession`: two clients never share a session;
- `DialsDistinct`, `CallsFresh`: one dial per session, counting the dial the
  upstream goroutine still owes, which is always its last call;
- `DialsAgree`: a dial's pc, the state of its connection and its queued result
  say the same;
- `BoundByOwnDial`: a session's connection comes from its own dial;
- `OpenIsBound`: when a current session's connection exists, the session is
  bound to it.

The step is proved action by action; lemmas state once what `Put`, `Delete`,
`Unrouted`, the `...At` updates and the loop's `Post` do. Most actions change
only part of the state, so shared lemmas carry the untouched conjuncts over.
`SemaphoreCounts` has an induction of its own on the set of dials in flight,
using the library's facts on the cardinality of finite sets.

`SafetyInv` is about what waits in the queues of a worker: a Close in `recvChan`, or
held by a blocked loop, is of a closed connection; so is the connection of a
failed write whose callback is still to come; a Close in the worker's channel is
of a client that has closed; downstream packets name the connection they came
from, and a route, an owed write and a delivered packet belong to the client the
connection was dialed for. It is inductive together with `IInv`, because closed
connections stay closed (`Lasts`) and dials keep their tokens (`TokensKept`).
`ClientsSeparate` is its last conjunct and the first of `DownstreamInOrder`.
`SessionLossJustified` follows step by step: each of the four places where a
session goes is entered with an event whose truth `SafetyInv` states.

`ServerOrderProofs` has the order and the completeness of the streams. A packet on
its way sits at a position of one of several queues, and a stream is what these
positions hold, taken in order. `Line(f, lo, hi)` says that `f`, a function from
positions (integers) to intervals of packet numbers, holds exactly `lo` to `hi`,
rising from position to position. Since only the two ends are named, a step needs no
induction over a queue: what is taken at the front raises `lo`, what is added behind
raises `hi`, and a move from one queue to the next only renames positions
(`LineMoved`). Three streams are described so:

- `Pipe(out, queue, d)`, to destination connection `d`: what it was written, at
  positions up to 0, then the writes among the loop's tasks and the upstream
  goroutine's calls;
- `Inbox(channel, ...)`, of one client: the packets the upstream goroutine has
  received, then those in the channel;
- `Sent(...)`, from destination connection `d`: what its client was given, the
  packet the downstream goroutine is about to write, then the events in `recvChan`
  and the one the loop is stopped at.

Upstream the two meet in a number `a`, the packet of the client admitted last
(`Streams`): its inbox goes on from `a + 1` to the last packet it sent, and the
client's session ends with `a`, in `pending` while it is dialing and on its pipe
afterwards (`Kept`). That is what makes a destination switch go through: a new
session begins with `a` and an empty pipe, and the old pipe keeps its line
(`PipesLine`) without being extended. A pipe begins empty because nothing is
written to a connection before its dial result was received (`DialingUnused`), and
the result comes once (`ResultsFresh`); a replay finds `pending` whole because of
`Kept`. Only a closed connection has no line: its tasks fail one by one.

Downstream, a routed connection's line is complete from the first packet
(`RoutedLine`): the route is made in `OnOpen`, before any event of the connection,
and what the downstream goroutine takes it writes before it takes anything else. What
it writes continues what the client has (`DownNext`), and comes from a connection at
least as new as all of that (`NotNewer`). Connections can be compared because the
upstream goroutine makes every dial: the d-th dial is for the d-th session
(`DialsInOrder`), so a client's current session is its newest, and its connection is
the only one routed to it.

The end of a stream needs more than its order. `ClosesLast`: after the Close of a
connection there is no event of it, because a closed connection posts nothing and the
loop hands its events on one by one. With `RoutedComplete` the client of a closed
connection has been written all of it when the Close is taken. Three lemmas then say
what `EndToEndProofs` needs of a step. `NextSettled`: while no write fails and the
client does not switch (`KeepsDest`), every dial is for the session its client has,
or failed, or the client is `Closing` (`DialsSettled`). `NextAnswers`: a client
becomes `Closing` because it closes itself or because it was `Answered`, that is, the
first connection made for it has closed and the client was written its last packet.
`NamesStay`: if each client names one destination, so does everything made of its
packets (`Names`), and then `KeepsDest` holds (`NamesKeep`).

`ClientForwarderProofs` proves, for any users, number and division of units, parser
mode and capacities (`ClientAssumption`, `DialerAssumption`):

| theorem | statement |
|---|---|
| `ClientInvariant` | `Spec => []IInv` |
| `TypeCorrect` | `Spec => []TypeOK` |
| `RoutesAgree` | `Spec => []RouteConsistent` |
| `SemaphoreCounts` | `Spec => []SemaphoreExact` |

The argument is the server's with the roles the client's design gives them. The
server connects a session inside `OnOpen`; the client does so when it handles the
Open event, later and on another goroutine. So `IInv` has no `OpenIsBound`. It
needs `EventsTrue` instead: an Open that waits in `recvChan`, or that the blocked
loop holds, names a connection that was made, a DialError one that never will be.
The first keeps `completeDial` from binding a connection that does not exist, the
second gives `abortDial` a session without a route (`BoundByOwnDial`), which is why
it may leave `byServer` alone. `OwnSession` and `DialsDistinct` exclude a route that
is overwritten while another session holds it. `CallsFresh` speaks of all loops
at once: two users may owe a dial at the same time.

On top of it, in the same module:

| theorem | statement |
|---|---|
| `UpstreamOrdered` | `Spec => []UpstreamInOrder` |
| `UpstreamKept` | `Spec => []UpstreamNotLost` |
| `DownstreamOrdered` | `Spec => []DownstreamInOrder` |
| `DownstreamKept` | `Spec => []DownstreamNotLost` |
| `OnlySentDelivered` | `Spec => [](IInv /\ DownstreamInOrder /\ DeliveredSent)` |
| `ClosesAreTold` | `Spec => [](IInv /\ OrderInv /\ DownInv /\ DownstreamInOrder /\ DeliveredSent /\ EndInv)` |

Upstream, packets for a connection wait in three places, one behind the other: the dialer's
tasks, the replay the receiving goroutine is in the middle of, and the user's own
loop, which is about to forward. `Line(d, lo, hi)` says that the packets `lo` to
`hi` are there, in order, behind those written. The loop's forward comes last
because a replay holds the session's `sendMu` (`ReplayOwn`), which the forward
needs. Two facts make the invariant inductive: a line begins empty, because an Open
comes once and nothing is sent before it is handled (`OpensDistinct`,
`OpensUnbound`, `UnboundUnused`); and the last on it is the packet admitted last,
before the Open in `pending` and after it on the line (`PendingRun`,
`NewestLast`), so that the next packet admitted fits. No induction over the queues
is needed, since a line is described by its two ends.

Downstream, everything a connection sends goes through one channel to one goroutine, and
what has to be shown is what happens around it. A connection is `Live` while its Open
waits or it is routed to an open user. Of a live one, the packets from the next one its
user is to get (`Due`) up to the last it sent are in `recvChan` and then in the event
the loop is stopped at (`Coming`, in `SequenceLemmas`), and the Open is ahead of them
(`OpensFirst`). So nothing is taken before the route is there to take it
(`NotAwaiting`), and what is written is the next packet (`DeliversNext`). A connection
that was made for the session its user has is live until the user goes or its Close is
taken (`OpenedBound`, `CurrentLive`). That no packet of an older connection follows one
of a newer needs `DialsInOrder`: on the client any user's loop makes dials, so, unlike
on the server, the d-th dial need not be for the d-th session, but those of one user
come in the order of its sessions, and the one it owes is for the newest.

`EndInv` is about how connections to the server end. Besides `ClosesLast` it says that
only connections of users that are gone are asked to close (`CallsEnd`), and that a dial
is for the session its user has until it fails or the user is told (`DialsOwned`,
`OwedCurrent`). So a connection closes by itself only (`NextWhy`): the server closed it, a write
failed, or its user was told. And when a user is hung up on (`HangUp`), the step is the
one that takes the Close of its current connection, all that connection read has been
written to the user, and every other dial of the user failed.

`DispatcherProofs` proves, for any sets of loops and connections, any number of
workers, capacities and counter width (`DispatcherAssumption`):

| theorem | statement |
|---|---|
| `DispatcherInvariant` | `Spec => []IInv` |
| `DispatcherTypes` | `Spec => []TypeOK` |
| `MessagesInOrder` | `Spec => []PerConnectionOrder` |
| `DealtEvenly` | `Spec => []Balanced`, if no more than `Uint64` connections are opened |

`PerConnectionOrder` alone is not inductive: that a message pushed late is still
the newest of its connection needs that a stopped loop handles nothing else of
it, and that no message is numbered past `ndispatched`.

`Balanced` is not inductive either. `RoundRobin` says where the deal stands: of
`q * WorkerNum + r` connections opened, every worker has `q` and the first `r`
one more, and the counter is the number of connections opened. The hypothesis of
`DealtEvenly` is needed: 2^64 is not a multiple of every number of workers, so a
counter that wraps would begin a round in the middle of another. `Conns` stands
for all connections of a process's life, and there are never that many.

`EndToEndProofs` proves, for any finite set of users, any destinations, bounds and
capacities (`EndToEndAssumption`):

| theorem | statement |
|---|---|
| `JoinInvariant` | `Spec => []JoinInv` |
| `EndToEndOrdered` | `Spec => []EndToEndInOrder` |
| `OrderlyClose` | `Spec => []OrderlyCloseLosesNothing` |

It does not repeat the proofs of the two sides. Every step of `EndToEnd` is a step
of the client or leaves it alone, and likewise for the worker (`ClientRuns`: `Spec
=> CP!Spec`, `ServerRuns`: `Spec => SP!Spec`); the lemmas before them, action by
action, say that what `EndToEnd` composes is what the theorems are about. So all that
`ClientForwarderProofs` and `ServerOrderProofs` prove holds in the composition.
`LinkInv` joins them: the client has read no more of a link than the worker has
written to it. A payload of a user is then a position on one of its links
(`BothHops`), what it had before on that link is a prefix of what the worker wrote
there, and of that the payloads of one destination connection come last
(`SameDestination`). Payloads from older links are from other destination
connections, because a destination connection is dialed for one link only.

`OrderlyClose` follows the close from the destination to the user, while nothing is
`broken` (`FailedIsBroken`: so no write has failed). `OrderlyInv` says of each hop why it
closes, and each part rests on the one before:

- `OneDest`: all that the worker has of a link is for the destination the link's user
  named, and comes from a link the client has written to (`Named` grows, and never
  changes). So no client of the worker switches, and `DialsSettled` goes through;
- `ClientClosed`: a link that has closed at the client's end has a user that was told, or
  the server had gone before and the client has read all it wrote (`Ended`);
- `ServerClosed`: a client that is `Closing` was `Answered`, or its user was told: if the
  dispatcher saw the link close, then because the client's end had, and by
  `ClientClosed` not for the server;
- `UsersFull`: a user that was told has the last payload of the first destination
  connection made for it (`Full`). By `HangUp` its link has closed without the user
  having been told, so it is `Ended`, so `Answered`; the answer is on that link, the user
  was written all of the link, and no other link of the user was used, so no other
  destination connection of it is older.

What a user has of one destination connection is a run from the first payload on
(`SameDestination`), so who has the last one has them all (`LastIsAll`). A packet that is
admitted after `purgeByServer` and before the hang-up is done dials again; since `Full`
speaks of the first connection, every step keeps it (`FullStays`).

`FramingProofs` proves, under `FramingAssumption` alone, for every base, host,
port, payload, bound and way of cutting the stream:

| theorem | statement |
|---|---|
| `FrameDecides` | a buffer that begins with, or is the beginning of, `Marshal(pkt)` is not rejected; it is complete exactly when the frame is there, and then decodes to `pkt` and consumes the frame |
| `FramingInvariant` | `Spec => []FramingInv` |
| `FramingTypes` | `Spec => []TypeOK` |
| `ClientNeverRejected` | `Spec => []NeverRejected` |
| `NothingWaits` | `Spec => []NoneWaits` |
| `BufferIsBounded` | `Spec => []BufferBounded` |
| `PipeIsImplemented` | `Spec => PipeImplemented`, the refinement of `PacketPipe` |
| `UserBytesAreKept` | `Spec => []UserBytesKept` |
| `FrameKept` | `Marshal(Decoded(b))` is the first `FrameLen(b)` bytes of a complete buffer `b`, and `Decoded(b)` is `Sendable` |
| `ReencodesAlways` | `Spec => []Reencodes` |
| `OnlyRejectedForCause` | `Spec => []RejectedForCause` |

`FrameDecides` carries the argument. It rests on where each part of a frame lies
(`MarshalBytes`) and on `Uint16` undoing `PutUint16` (`Uint16Kept`). None of the
properties is inductive: that the next packet is decoded right needs the buffer
to begin at a frame's first byte, so `FramingInv` says that the stream is the
frames of the packets sent (`StreamIsFrames`), that the receiver stands between
two of them with the packets before (`ParsedIsPrefix`), and that between two
runs of `ParseAvailable` the buffer neither holds a frame nor is to be rejected
(`Drained`). That frames end in the order they were written is a conjunct
of its own, because it would otherwise take an induction. In the refinement a
`ClientPacket` that sends is a `Put`; the turn that ends a run with packets is a
`Get`; all other steps, and a peer that is not a client, stutter.

`UserBytesKept` and `Reencodes` speak of `FlattenSeq`, a recursive function in the
community modules. That it exists for every sequence of sequences (`FlattensExists`),
is unique (`FlattensUnique`) and takes one more piece at its end (`FlattenAppend`) is
an induction over data. The library's induction theorems have an operator for a
parameter, which the provers cannot instantiate; `LeastNumber` takes their place: a
nonempty set of naturals has a least element, from the well-foundedness of `<`
(`NatLessThanWellFounded`, `WFMin`), so a statement that fails fails for the first
time somewhere (all of these are in `SequenceLemmas`). After that both are step by step: a piece is appended at each turn,
and `FrameKept` is the converse of `FrameDecides`. A rejection drops the batch and closes
the connection, so `ReencodesInv` says two things: the packets received encode to a
beginning of the stream, which survives the rejection, and, while the connection is
open, those and the batch encode to all that was consumed. `RejectedInv` keeps what
`ParseRejected` saw in the buffer.

`UserConnProofs` proves, under `ShadowsocksAssumption` (a salt of at least one byte, a
largest chunk of at least one byte whose length fits the two bytes it has) and
`UserConnAssumption` (the server's payloads are sequences of bytes), for every tag,
salt, script, set of payloads and parser mode:

| theorem | statement |
|---|---|
| `DecryptsSealed` | `Decrypt` with no salt yet, given `Sealed(ps)`, returns `FlattenSeq(ps)` and consumes all of it |
| `WayInvariant` | `Spec => []WayInv` |
| `UserDecodesAlways` | `Spec => []UserDecodes` |

`Sealed(ps)` is the salt and then a length chunk and a payload chunk for each piece of
`ps`, with nonces 0, 1, 2 and so on. `TurnReads` says that one turn of `decrypt`'s loop at
the chunk of a piece takes that chunk and no byte more, and `DecryptsSealed` puts the
turns together: the loop is a recursive function, so it is first shown to be the
function that reads one more piece at each turn and then stays (`TurnStops`), by the
same induction as above. On the other side `PiecesCover` says that the pieces
`encrypt` cuts a payload into are its bytes, none empty and none longer than
`MaxChunk`, with the code's rounded-up division for their number, and `EncryptSeals` that
the chunks it makes continue the stream where its nonce stands.

`UserDecodes` is not inductive: that the next payload decodes needs the cipher to stand
behind the last chunk on its way. `WayInv` says that there are pieces whose stream is
what was written and waits, that the encrypter's nonce is behind the last of them
(`Behind`), or there is no salt and nothing on its way (`Fresh`), and that they hold the
payloads taken (`Conveys`). The parser runs between two writes and replaces the
connection's state; `ParseKeeps` says that whatever it reads it leaves `enc` alone or
drops the state with the connection: after a rejection the next `WriteToUser` finds no
state and sends nothing.

**Only model-checked.** The parsers, and the other five invariants of `UserConn`,
which runs them (`RightDestination`, `NothingHeld`, `RejectsOnlyBad`, `Answered`,
`ServerTold`): they compare what the code does with the annotations of `Scripts`, a
constant, so a theorem for every script would first have to define what a request
means, byte by byte, a second time. `FlattenSeq`, and the loop of `Decrypt`, are
recursive functions: what is proved of them is what the induction by `LeastNumber`
reaches. All liveness: the proof system does not reason about fairness.

## 5. Findings

Each is a run that violates one property, which states what a comment of the
repository says.

1. `dial_goroutines`. `dialer.go:16` says the limit keeps goroutines from growing
   without bound. `AsyncDial` starts the goroutine before it takes the semaphore,
   so goroutines that wait for it are not limited; dials under way are
   (`SemaphoreExact`, proved).
2. `client_lost_session`. `getDest` finds a cached destination, the dial fails,
   its session goes, and `admitUpstream` then opens a new session for the
   tunnel with an empty `dest`, the mark of PerRequest mode.
3. `client_dial_failure`. `handleDialError` leaves the user connected without a
   session; further tunnel data is parsed as a handshake, which is what the
   comment at `forwarder.go:123-125` sets out to exclude.
4. `client_keep_alive`. On a proxy connection that already carried a plain
   request, a CONNECT joins the existing session, which does not cache its
   destination; the tunnel's data is then parsed as an HTTP request.

In 2 to 4 the models without the triggering condition pass: the other client
properties hold in the same state spaces.

## 6. What was planned

Built in this order: `Dialer`, `ServerWorker` and its proofs, `ClientForwarder`,
`Framing` with `PacketPipe` and its proofs, the parsers with `UserConn`,
`EndToEnd`, `Dispatcher` and its proofs, `ClientForwarderProofs`,
`ServerOrderProofs`, `EndToEndProofs`, `SequenceLemmas` and `UserConnProofs`. An abstract
specification of the relay (for each client a sequence of sessions, each a pair
of streams) was planned; `EndToEnd` states what it would have promised as
properties of the composition instead, which covers both programs.

## 7. Not modelled

The command line and logging (no state); the DNS hijack (a stateless filter on
query class and type over a library, without concurrency); what net/http and the
crypto libraries do inside; the worker's and users' own gnet loops beyond
the order they keep; process crashes, since nothing is persisted: after a restart both
sides begin in `Init`. Memory growth of `pending`, which the code does not
bound, is not a property here: the number of packets is bounded by the run.
