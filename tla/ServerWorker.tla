---------------------------- MODULE ServerWorker ----------------------------
(***************************************************************************)
(* One server worker: the msgHandler of server/handler.go with its         *)
(* sessionTable (server/session.go), the client connections the dispatcher *)
(* (server/dispatcher.go) assigned to it, and its own Dialer.              *)
(*                                                                         *)
(* Four kinds of process share the session table, under its mutex:         *)
(*   - the upstream goroutine ("up"): client messages and dial results;    *)
(*   - the downstream goroutine ("down"): events of destination            *)
(*     connections;                                                        *)
(*   - the dialer's event loop: the bindDial hook and the callbacks of     *)
(*     failed writes;                                                      *)
(*   - the dispatcher's event loop only feeds the channel.                 *)
(* A method of sessionTable runs under the mutex: it is one step.  The I/O *)
(* it asks for is done after the unlock: "up.io" and "down.io" hold the    *)
(* calls a goroutine has decided on and not made yet.                      *)
(***************************************************************************)
EXTENDS Dialer, FiniteSets

CONSTANTS
  Clients,       \* client connections assigned to this worker
  Dests,         \* destination addresses
  MsgChanSize,   \* capacity of the worker's channel
  MaxUp,         \* bound: packets a client sends
  UpBatches      \* bound: packets one dispatcher OnTraffic may parse

ASSUME ServerAssumption ==
  /\ ~DialErrorToRecvChan
  /\ MsgChanSize \in Nat \ {0}
  /\ MaxUp \in Nat
  /\ UpBatches \subseteq Nat \ {0}

VARIABLES
  byClient,   \* map: client connection -> its current session
  byDest,     \* map: destination connection -> client connection
  sess,       \* every session ever allocated; a position is a pointer
  cstate,     \* client connection: "open", "closing" (Close queued), "closed"
  nup,        \* packets each client has sent
  channel,    \* the worker's channel
  up,         \* upstream goroutine: [conn, pkts, io]
  down,       \* downstream goroutine: [io]
  delivered   \* downstream payloads written to each client

tableVars == <<byClient, byDest, sess>>
clientVars == <<cstate, nup, channel>>
vars == <<dialerVars, tableVars, clientVars, up, down, delivered>>

\* delete(m, k) on a Go map.
Delete(m, k) == [x \in DOMAIN m \ {k} |-> m[x]]
\* m[k] = v on a Go map.
Put(m, k, v) == [x \in DOMAIN m \cup {k} |-> IF x = k THEN v ELSE m[x]]

UpIdle   == up.pkts = <<>> /\ up.io = <<>>
DownIdle == down.io = <<>>

DialCall(token) == [op |-> "dial", token |-> token]

NewSession(dest, payload) ==
  [dest |-> dest, destConn |-> NoConn, dialing |-> TRUE, pending |-> <<payload>>]

\* sess with one entry changed.
SessQueued(s, payload) ==
  [sess EXCEPT ![s] = [dest |-> @.dest, destConn |-> @.destConn,
                       dialing |-> @.dialing, pending |-> Append(@.pending, payload)]]
SessBound(s, d) ==
  [sess EXCEPT ![s] = [dest |-> @.dest, destConn |-> d,
                       dialing |-> @.dialing, pending |-> @.pending]]
SessReady(s, pending) ==
  [sess EXCEPT ![s] = [dest |-> @.dest, destConn |-> @.destConn,
                       dialing |-> FALSE, pending |-> pending]]

\* The upstream goroutine with other calls to make, other packets to take.
UpOwes(io)       == [conn |-> up.conn, pkts |-> up.pkts, io |-> io]
UpNext(io)       == [conn |-> up.conn, pkts |-> Tail(up.pkts), io |-> io]

Init ==
  /\ DialerInit
  /\ byClient = <<>>
  /\ byDest = <<>>
  /\ sess = <<>>
  /\ cstate = [c \in Clients |-> "open"]
  /\ nup = [c \in Clients |-> 0]
  /\ channel = <<>>
  /\ up = [conn |-> NoConn, pkts |-> <<>>, io |-> <<>>]
  /\ down = [io |-> <<>>]
  /\ delivered = [c \in Clients |-> <<>>]

(***************************************************************************)
(* The dispatcher's event loop                                             *)
(***************************************************************************)

\* OnTraffic: the packets parsed from one read are dispatched together.
ClientSends(c) ==
  /\ cstate[c] # "closed"
  /\ Len(channel) < MsgChanSize
  /\ \E n \in UpBatches :
       /\ nup[c] + n <= MaxUp
       /\ \E dest \in [1..n -> Dests] :
            channel' = Append(channel,
              [event |-> "Data", conn |-> c,
               pkts |-> [i \in 1..n |->
                 [dest |-> dest[i], payload |-> [client |-> c, seq |-> nup[c] + i]]]])
       /\ nup' = [nup EXCEPT ![c] = @ + n]
  /\ UNCHANGED <<dialerVars, tableVars, cstate, up, down, delivered>>

\* OnClose: the peer closed or failed, or the loop runs a queued Close.
ClientCloses(c) ==
  /\ cstate[c] # "closed"
  /\ Len(channel) < MsgChanSize
  /\ cstate' = [cstate EXCEPT ![c] = "closed"]
  /\ channel' = Append(channel, [event |-> "Close", conn |-> c, pkts |-> <<>>])
  /\ UNCHANGED <<dialerVars, tableVars, nup, up, down, delivered>>

(***************************************************************************)
(* sessionTable: what its methods look up, decide and change               *)
(***************************************************************************)

\* Mutant: sessions are told apart by destination, not by identity.
CurrentByDest(token) ==
  /\ token.client \in DOMAIN byClient
  /\ sess[byClient[token.client]].dest = sess[token.session].dest

\* Is the session of a dial still the current one of its client?
Current(token) ==
  /\ token.client \in DOMAIN byClient
  /\ byClient[token.client] = token.session

\* Mutant: the old session's reverse entry stays.
UnroutedForgotten(c) == byDest

\* byDest without the entry of the session c has now.
Unrouted(c) ==
  IF c \in DOMAIN byClient
    THEN Delete(byDest, sess[byClient[c]].destConn)
    ELSE byDest

\* Mutant: the old connection is not handed out to be closed.
OrphanForgotten(c) == <<>>

\* The connection the removal of c's session leaves to be closed.
Orphan(c) ==
  IF c \in DOMAIN byClient /\ sess[byClient[c]].destConn # NoConn
    THEN <<CloseTask(sess[byClient[c]].destConn)>>
    ELSE <<>>

\* Mutant: a session without a connection is left in place.
PurgeByClientBound(c) ==
  /\ byClient' = IF Orphan(c) = <<>> THEN byClient ELSE Delete(byClient, c)
  /\ byDest' = Unrouted(c)

PurgeByClient(c) ==
  /\ byClient' = Delete(byClient, c)
  /\ byDest' = Unrouted(c)

\* The client that purgeByDest(d) removes and returns; empty if none.
PurgedClient(d) ==
  {c \in DOMAIN byClient :
     d \in DOMAIN byDest /\ byDest[d] = c /\ sess[byClient[c]].destConn = d}

PurgeByDest(d) ==
  /\ byDest' = Delete(byDest, d)
  /\ byClient' = [c \in DOMAIN byClient \ PurgedClient(d) |-> byClient[c]]

\* Mutant: a route counts only once the dial result was handled.
GetByDestReady(d) ==
  {byDest[x] : x \in {y \in {d} \cap DOMAIN byDest : ~sess[byClient[byDest[y]]].dialing}}

\* The client d is routed to; empty if none.
GetByDest(d) == {byDest[x] : x \in {d} \cap DOMAIN byDest}

BindDial(d, token) ==
  /\ sess' = SessBound(token.session, d)
  /\ byDest' = Put(byDest, d, token.client)

CompleteDial(s) == sess' = SessReady(s, <<>>)

\* Mutant: the failed session stays.
AbortDialForgotten(c) == UNCHANGED byClient

AbortDial(c) == byClient' = Delete(byClient, c)

(***************************************************************************)
(* The upstream goroutine                                                  *)
(***************************************************************************)

\* It receives a client message.  On Close: purgeByClient, then the
\* connection it returned is closed.  On data: the packets, one by one.
UpReceive ==
  /\ UpIdle
  /\ channel # <<>>
  /\ LET msg == Head(channel) IN
       IF msg.event = "Close"
         THEN /\ PurgeByClient(msg.conn)
              /\ up' = UpOwes(Orphan(msg.conn))
         ELSE /\ up' = [conn |-> msg.conn, pkts |-> msg.pkts, io |-> <<>>]
              /\ UNCHANGED <<byClient, byDest>>
  /\ channel' = Tail(channel)
  /\ UNCHANGED <<dialerVars, sess, cstate, nup, down, delivered>>

\* admitUpstream finds the session of c for dest.
SameDest(c, dest) ==
  c \in DOMAIN byClient /\ sess[byClient[c]].dest = dest

\* Mutant: a bound session forwards already, ahead of the replay.
DialingUnlessBound(s) == sess[s].destConn = NoConn

\* Mutant: the dialing flag is not looked at.
DialingIgnored(s) == FALSE

Dialing(s) == sess[s].dialing

\* admitUpstream, one action per decision.  Still dialing: the payload waits.
AdmitQueued(c, pkt) ==
  /\ SameDest(c, pkt.dest)
  /\ Dialing(byClient[c])
  /\ sess' = SessQueued(byClient[c], pkt.payload)
  /\ up' = UpNext(<<>>)
  /\ UNCHANGED <<byClient, byDest>>

AdmitForward(c, pkt) ==
  /\ SameDest(c, pkt.dest)
  /\ ~Dialing(byClient[c])
  /\ up' = UpNext(<<WriteTask(sess[byClient[c]].destConn, pkt.payload)>>)
  /\ UNCHANGED <<byClient, byDest, sess>>

\* New or switched destination: the old session goes, with its connection.
AdmitDial(c, pkt) ==
  /\ ~SameDest(c, pkt.dest)
  /\ sess' = Append(sess, NewSession(pkt.dest, pkt.payload))
  /\ byClient' = Put(byClient, c, Len(sess) + 1)
  /\ byDest' = Unrouted(c)
  /\ up' = UpNext(Append(Orphan(c),
                    DialCall([client |-> c, session |-> Len(sess) + 1])))

UpAdmit ==
  /\ up.io = <<>>
  /\ up.pkts # <<>>
  /\ \/ AdmitQueued(up.conn, Head(up.pkts))
     \/ AdmitForward(up.conn, Head(up.pkts))
     \/ AdmitDial(up.conn, Head(up.pkts))
  /\ UNCHANGED <<dialerVars, clientVars, down, delivered>>

\* The goroutine makes the next call it owes, outside the mutex.
UpCall ==
  /\ up.io # <<>>
  /\ up' = UpOwes(Tail(up.io))
  /\ LET call == Head(up.io) IN
       IF call.op = "dial"
         THEN AsyncDial(call.token)
         ELSE /\ tasks' = Append(tasks, call)
              /\ UNCHANGED <<dials, conns, dialSem, loop, recvChan, dialResultChan>>
  /\ UNCHANGED <<tableVars, clientVars, down, delivered>>

\* Mutant: only the first pending payload is replayed.
ReplayFirst(d, pending) == <<WriteTask(d, pending[1])>>

\* The pending payloads, in order, as the writes that replay them.
Replay(d, pending) == [i \in DOMAIN pending |-> WriteTask(d, pending[i])]

DialFailed(token) ==
  /\ IF Current(token) THEN AbortDial(token.client) ELSE UNCHANGED byClient
  /\ UNCHANGED <<byDest, sess, up>>

\* Mutant: the route is registered again, current session or not.
DialSucceededRebinds(d, token) ==
  /\ IF Current(token)
       THEN /\ CompleteDial(token.session)
            /\ up' = UpOwes(Replay(d, sess[token.session].pending))
       ELSE /\ up' = UpOwes(<<CloseTask(d)>>)
            /\ UNCHANGED sess
  /\ byDest' = Put(byDest, d, token.client)
  /\ UNCHANGED byClient

\* completeDial and the replay; or the connection of a session that is no
\* longer current is closed.
DialSucceeded(d, token) ==
  /\ IF Current(token)
       THEN /\ CompleteDial(token.session)
            /\ up' = UpOwes(Replay(d, sess[token.session].pending))
       ELSE /\ up' = UpOwes(<<CloseTask(d)>>)
            /\ UNCHANGED sess
  /\ UNCHANGED <<byClient, byDest>>

UpDialResult ==
  /\ UpIdle
  /\ dialResultChan # <<>>
  /\ LET res == Head(dialResultChan) IN
       IF res.err
         THEN DialFailed(dials[res.conn].token)
         ELSE DialSucceeded(res.conn, dials[res.conn].token)
  /\ dialResultChan' = Tail(dialResultChan)
  /\ UNCHANGED <<dials, conns, dialSem, tasks, loop, recvChan>>
  /\ UNCHANGED <<clientVars, down, delivered>>

Upstream == UpReceive \/ UpAdmit \/ UpCall \/ UpDialResult

(***************************************************************************)
(* The downstream goroutine                                                *)
(***************************************************************************)

ClientWrite(c, pkt) == [op |-> "write", client |-> c, pkt |-> pkt]
ClientClose(c)      == [op |-> "close", client |-> c]

\* handleDestMsg, the part under the mutex.
DownReceive ==
  /\ DownIdle
  /\ recvChan # <<>>
  /\ LET msg == Head(recvChan)
         d   == msg.conn IN
       IF msg.event = "Close"
         THEN /\ PurgeByDest(d)
              /\ \/ /\ PurgedClient(d) = {}
                    /\ down' = [io |-> <<>>]
                 \/ \E c \in PurgedClient(d) : down' = [io |-> <<ClientClose(c)>>]
         ELSE /\ \/ /\ GetByDest(d) = {}
                    /\ down' = [io |-> <<>>]
                 \/ \E c \in GetByDest(d) :
                      down' = [io |-> [i \in DOMAIN msg.pkts |-> ClientWrite(c, msg.pkts[i])]]
              /\ UNCHANGED <<byClient, byDest>>
  /\ recvChan' = Tail(recvChan)
  /\ UNCHANGED <<dials, conns, dialSem, tasks, loop, dialResultChan>>
  /\ UNCHANGED <<sess, clientVars, up, delivered>>

\* The write or the close of the client connection, outside the mutex.  A
\* packet counts as delivered once AsyncWrite has accepted it.
DownCall ==
  /\ down.io # <<>>
  /\ down' = [io |-> Tail(down.io)]
  /\ LET call == Head(down.io)
         c    == call.client IN
       IF call.op = "write"
         THEN /\ delivered' = IF cstate[c] = "open"
                                THEN [delivered EXCEPT ![c] = Append(@, call.pkt)]
                                ELSE delivered
              /\ UNCHANGED cstate
         ELSE /\ cstate' = IF cstate[c] = "open"
                             THEN [cstate EXCEPT ![c] = "closing"]
                             ELSE cstate
              /\ UNCHANGED delivered
  /\ UNCHANGED <<dialerVars, tableVars, nup, channel, up>>

Downstream == DownReceive \/ DownCall

(***************************************************************************)
(* The dialer's event loop, where it enters this package                   *)
(***************************************************************************)

\* OnOpen runs the bindDial hook.
LoopOpens(d) ==
  /\ d \in DOMAIN dials
  /\ OnOpenHooked(d, Current(dials[d].token))
  /\ IF Current(dials[d].token)
       THEN BindDial(d, dials[d].token)
       ELSE UNCHANGED <<sess, byDest>>
  /\ UNCHANGED <<byClient, clientVars, up, down, delivered>>

\* The callback of a failed write: purgeByDest, then Close.
LoopWriteError ==
  /\ PurgeByDest(loop.failed)
  /\ WriteErrorDone(<<CloseTask(loop.failed)>>)
  /\ UNCHANGED <<sess, clientVars, up, down, delivered>>

\* Steps of the dialer that touch nothing of this module.
DialerAlone(A) == A /\ UNCHANGED <<tableVars, clientVars, up, down, delivered>>

\* Bound: sessions, hence dials and destination connections, a run can make.
Ids == 1..(Cardinality(Clients) * MaxUp)

DialerSteps ==
  \/ \E d \in DOMAIN dials :
       \/ LoopOpens(d)
       \/ DialerAlone(DialStep(d))
       \/ DialerAlone(PeerStep(d))
  \/ LoopWriteError
  \/ DialerAlone(LoopStep)

\* Every client is gone and nothing is left to do.
Quiescent ==
  /\ \A c \in Clients : cstate[c] = "closed"
  /\ channel = <<>> /\ UpIdle
  /\ recvChan = <<>> /\ DownIdle
  /\ tasks = <<>> /\ LoopIdle
  /\ dialResultChan = <<>>
  /\ \A d \in DOMAIN dials : dials[d].pc = "done" /\ conns[d].st # "open"

Next ==
  \/ \E c \in Clients : ClientSends(c) \/ ClientCloses(c)
  \/ Upstream
  \/ Downstream
  \/ DialerSteps
  \/ Quiescent /\ UNCHANGED vars

Spec == Init /\ [][Next]_vars

\* The goroutines and event loops keep running; a dial ends within its
\* timeout; a queued Close of a client connection is run by its loop.
\* Nothing is assumed of clients, of destinations or of the order in which
\* select serves its two channels.
Fairness ==
  /\ WF_vars(Upstream)
  /\ WF_vars(Downstream)
  /\ WF_vars(LoopWriteError \/ DialerAlone(LoopStep))
  /\ \A d \in Ids :
       /\ WF_vars(DialerAlone(AcquireSem(d)))
       /\ WF_vars(DialerAlone(DialFinishes(d)))
       /\ WF_vars(LoopOpens(d))
       /\ WF_vars(DialerAlone(DialReports(d)))
  /\ \A c \in Clients : WF_vars(cstate[c] = "closing" /\ ClientCloses(c))

FairSpec == Spec /\ Fairness

(***************************************************************************)
(* Types                                                                   *)
(***************************************************************************)
ConnIds    == Nat \ {NoConn}
Payload    == [client : Clients, seq : Nat]
Packet     == [dest : Dests, payload : Payload]
Token      == [client : Clients, session : ConnIds]
Pkt        == [conn : ConnIds, seq : Nat]
Task       == [op : {"write"}, conn : ConnIds, payload : Payload]
              \cup [op : {"close"}, conn : ConnIds]
UpIO       == Task \cup [op : {"dial"}, token : Token]
DownIO     == [op : {"write"}, client : Clients, pkt : Pkt]
              \cup [op : {"close"}, client : Clients]
ConnEvent  == [event : {"Data", "Close"}, conn : ConnIds, pkts : Seq(Pkt)]
ClientMsg  == [event : {"Data", "Close"}, conn : Clients, pkts : Seq(Packet)]
Session    == [dest : Dests, destConn : Nat, dialing : BOOLEAN, pending : Seq(Payload)]

Dial       == [token : Token, pc : DialPC]
Conn       == [st : {"new", "open", "closed"}, out : Seq(Payload), in : Nat]
Loop       == [blocked : Seq(ConnEvent), failed : Nat]
Result     == [conn : ConnIds, err : BOOLEAN]
Goroutine  == [conn : Clients \cup {NoConn}, pkts : Seq(Packet), io : Seq(UpIO)]

DialerTypeOK ==
  /\ dials \in Seq(Dial)
  /\ conns \in Seq(Conn)
  /\ Len(conns) = Len(dials)
  /\ dialSem \in Int
  /\ tasks \in Seq(Task)
  /\ loop \in Loop
  /\ recvChan \in Seq(ConnEvent)
  /\ dialResultChan \in Seq(Result)

TableTypeOK ==
  /\ sess \in Seq(Session)
  /\ DOMAIN byClient \subseteq Clients
  /\ \A c \in DOMAIN byClient : byClient[c] \in DOMAIN sess
  /\ DOMAIN byDest \subseteq DOMAIN conns
  /\ \A d \in DOMAIN byDest : byDest[d] \in Clients

ClientTypeOK ==
  /\ cstate \in [Clients -> {"open", "closing", "closed"}]
  /\ nup \in [Clients -> Nat]
  /\ channel \in Seq(ClientMsg)
  /\ delivered \in [Clients -> Seq(Pkt)]

GoroutineTypeOK ==
  /\ up \in Goroutine
  /\ up.pkts # <<>> => up.conn \in Clients
  /\ down \in [io : Seq(DownIO)]

\* TypeOK: every variable has its type, the maps refer to sessions and
\* connections that exist, and no write is addressed to a nil connection.
TypeOK == DialerTypeOK /\ TableTypeOK /\ ClientTypeOK /\ GoroutineTypeOK

(***************************************************************************)
(* Safety                                                                  *)
(***************************************************************************)

\* The two maps of sessionTable agree (session.go:38): a destination
\* connection is routed to a client exactly when the client's current
\* session has it as destConn.
RouteConsistent ==
  /\ \A d \in DOMAIN byDest :
       /\ byDest[d] \in DOMAIN byClient
       /\ sess[byClient[byDest[d]]].destConn = d
  /\ \A c \in DOMAIN byClient :
       LET d == sess[byClient[c]].destConn IN
         d # NoConn => d \in DOMAIN byDest /\ byDest[d] = c

\* A session leaves "dialing" only with a connection bound and its pending
\* payloads handed over, and waits with at least one: forwardUpstream never
\* writes to a nil connection, and nothing is left behind in pending.
ReadyMeansBound ==
  \A c \in DOMAIN byClient :
    LET s == sess[byClient[c]] IN
      IF s.dialing THEN s.pending # <<>>
                   ELSE s.destConn # NoConn /\ s.pending = <<>>

\* Consecutive packets of client c.
IsRun(s, c) ==
  \A i \in DOMAIN s : s[i].client = c /\ s[i].seq = s[1].seq + i - 1

\* What a destination connection receives is an unbroken run of the packets
\* of the one client it was dialed for: none lost, repeated or reordered
\* between the replay of pending (handler.go:97) and later forwards.
UpstreamInOrder ==
  \A d \in DOMAIN conns : IsRun(conns[d].out, dials[d].token.client)

\* Payloads among the writes to connection d in s.
WritesTo(d, s) ==
  {s[i].payload : i \in {j \in DOMAIN s : s[j].op = "write" /\ s[j].conn = d}}

\* Everything connection d was sent or is about to be sent.
Pipeline(d) ==
  {conns[d].out[i] : i \in DOMAIN conns[d].out} \cup WritesTo(d, tasks) \cup WritesTo(d, up.io)

\* Packets of c in the channel, and with the upstream goroutine.
InChannel(c) ==
  UNION {{channel[i].pkts[k] : k \in DOMAIN channel[i].pkts} :
           i \in {j \in DOMAIN channel : channel[j].conn = c}}
InHand(c) == {up.pkts[k] : k \in IF up.conn = c THEN DOMAIN up.pkts ELSE {}}

\* What c has sent and the upstream goroutine has not taken through
\* admitUpstream yet.
Unseen(c) == {pkt.payload : pkt \in InChannel(c) \cup InHand(c)}

\* The packets first to last of client c.
PacketsOf(c, first, last) == {[client |-> c, seq |-> q] : q \in first..last}

\* While the connection of a client's current session is open, the packets
\* admitted since the session began, up to the last, and no others, are
\* pending, or on their way to it, or written to it: neither the unlock
\* between a decision and its I/O nor the hand-over of pending to the replay
\* (session.go:108) loses one.
UpstreamNotLost ==
  \A c \in DOMAIN byClient :
    LET s == sess[byClient[c]]
        d == s.destConn
        kept == (IF d = NoConn THEN {} ELSE Pipeline(d)) \cup
                  {s.pending[i] : i \in DOMAIN s.pending}
    IN  d = NoConn \/ conns[d].st = "open" =>
          \E last \in 0..nup[c] : \E first \in 0..last :
            /\ kept = PacketsOf(c, first, last)
            /\ Unseen(c) = PacketsOf(c, last + 1, nup[c])

\* A client receives only what connections dialed for it received
\* (handler.go:184), however many clients share the worker.
ClientsSeparate ==
  \A c \in Clients : \A i \in DOMAIN delivered[c] :
    dials[delivered[c][i].conn].token.client = c

\* A client receives from its own connections one after the other, in the
\* order of its sessions, and from each one a prefix of what the destination
\* sent: the last p.seq payloads up to p are the first of its connection, and
\* all before them are of older ones.  A destination switch never lets old
\* data follow new, and a response is never cut in the middle and resumed.
DownstreamInOrder ==
  /\ ClientsSeparate
  /\ \A c \in Clients : \A i \in DOMAIN delivered[c] :
       LET p == delivered[c][i] IN
         /\ p.seq \in 1..i
         /\ \A j \in 1..i :
              IF j > i - p.seq
                THEN delivered[c][j] = [conn |-> p.conn, seq |-> j - (i - p.seq)]
                ELSE delivered[c][j].conn < p.conn

\* Packets of connection d that are still between its OnTraffic and the
\* downstream goroutine's write.
InTransit(d) ==
  LET Packets(msgs) == UNION {{msgs[i].pkts[k] : k \in DOMAIN msgs[i].pkts} : i \in DOMAIN msgs}
      writes == {i \in DOMAIN down.io : down.io[i].op = "write"}
  IN  {p \in Packets(recvChan) \cup Packets(loop.blocked) \cup {down.io[i].pkt : i \in writes} :
         p.conn = d}

\* Nothing a routed destination sends is lost while its client is open, from
\* its first byte on, even when it arrives before the dial result does: the
\* point of registering the route in OnOpen (session.go:88-91).
DownstreamNotLost ==
  \A d \in DOMAIN byDest :
    LET c == byDest[d]
        received == {p \in {delivered[c][i] : i \in DOMAIN delivered[c]} : p.conn = d}
    IN  cstate[c] = "open" =>
          received \cup InTransit(d) = {[conn |-> d, seq |-> n] : n \in 1..conns[d].in}

\* The semaphore counts the dials in flight, and bounds them
\* (dialer.go:93-94).
InFlight == {d \in DOMAIN dials : dials[d].pc \notin {"spawned", "done"}}

SemaphoreExact ==
  /\ dialSem = Cardinality(InFlight)
  /\ dialSem <= MaxConcurrentDials

\* dialer.go:16 says of maxConcurrentDials that it keeps goroutines and file
\* descriptors from growing without bound.
DialGoroutinesBounded ==
  Cardinality({d \in DOMAIN dials : dials[d].pc # "done"}) <= MaxConcurrentDials

\* What may cost client c the session it has: it closed, the session's
\* connection closed, or the session's own dial failed.
Justified(c) ==
  LET s == byClient[c]
      d == sess[s].destConn
  IN  \/ cstate[c] = "closed"
      \/ d # NoConn /\ conns[d].st = "closed"
      \/ \E f \in DOMAIN dials :
           dials[f].token.session = s /\ dials[f].pc = "done" /\ conns[f].st = "new"

LossJustified == \A c \in DOMAIN byClient \ DOMAIN byClient' : Justified(c)

\* A session goes only because its client closed, its connection closed, its
\* own dial failed, or (a new session taking its place) its client switched
\* destination: a late result or close of an older session takes nothing of
\* a newer one (session.go:127, handler_test.go:60).
SessionLossJustified == [][LossJustified]_vars

(***************************************************************************)
(* Liveness                                                                *)
(***************************************************************************)

\* An open destination connection without a route is closed in the end:
\* connections of switched, closed or stale sessions do not leak.
UnroutedClosed ==
  \A d \in Ids :
    (d \in DOMAIN conns /\ conns[d].st = "open" /\ d \notin DOMAIN byDest)
      ~> (d \in DOMAIN conns /\ conns[d].st = "closed")

\* A closed destination connection loses its route.
ClosedUnrouted ==
  \A d \in Ids :
    (d \in DOMAIN conns /\ conns[d].st = "closed") ~> d \notin DOMAIN byDest

\* After a client is gone nothing of it stays: no session, no route, no dial
\* goroutine and no open destination connection.
ClientReclaimed ==
  \A c \in Clients :
    cstate[c] = "closed" ~>
      [](/\ c \notin DOMAIN byClient
         /\ \A d \in DOMAIN dials :
              dials[d].token.client = c =>
                dials[d].pc = "done" /\ conns[d].st # "open")

\* A session does not dial for ever: the dial succeeds, or fails and the
\* session goes, or the session is replaced.
DialSettles ==
  \A s \in Ids :
    (s \in DOMAIN sess /\ sess[s].dialing) ~>
      (\/ s \in DOMAIN sess /\ ~sess[s].dialing
       \/ \A c \in DOMAIN byClient : byClient[c] # s)
=============================================================================
