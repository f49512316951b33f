-------------------------- MODULE ClientForwarder --------------------------
(***************************************************************************)
(* The client: the forwarder of client/forwarder.go with its sessionTable  *)
(* (client/session.go) and its Dialer, which posts everything, dial        *)
(* failures included, on recvChan.                                         *)
(*                                                                         *)
(* The processes are one event loop per user connection ("lp[u]"; in the   *)
(* code users may share a loop, which only removes interleavings), one     *)
(* goroutine that consumes recvChan ("rcv"), the dialer's loop and the     *)
(* dial goroutines.  A method of sessionTable is one step; the I/O it asks *)
(* for comes after the unlock.                                             *)
(*                                                                         *)
(* A user's stream is a sequence of units: what one Parse consumes, or the *)
(* data one read brings.  While the stream is not a tunnel its next unit   *)
(* is a request (plain HTTP proxying, Shadowsocks: ParseResult.PerRequest) *)
(* or a handshake that names the destination once for all that follows     *)
(* (CONNECT, SOCKS5, a first HTTP request or ClientHello in the DNS modes; *)
(* the last two are forwarded, the others are consumed by the parser).     *)
(* After a handshake the stream is opaque data.                            *)
(***************************************************************************)
EXTENDS Dialer, FiniteSets

CONSTANTS
  Users,         \* user connections
  Kinds,         \* what this mode's parser accepts: "request", "handshake"
  HandshakeKept, \* TRUE: the handshake is forwarded with the data
  LongDests,     \* TRUE: a user may name a destination Marshal refuses
  MaxUnits,      \* bound: units a user sends
  ReadSizes      \* bound: units one read may bring

ASSUME ClientAssumption ==
  /\ DialErrorToRecvChan
  /\ Kinds \subseteq {"request", "handshake"}
  /\ HandshakeKept \in BOOLEAN
  /\ LongDests \in BOOLEAN
  /\ MaxUnits \in Nat
  /\ ReadSizes \subseteq Nat \ {0}

VARIABLES
  byUser,     \* map: user connection -> its current session
  byServer,   \* map: server connection -> user connection
  sess,       \* every session ever allocated; a position is a pointer
  ustate,     \* user connection: "open", "closing" (Close queued), "closed"
  uin,        \* units read from each user so far
  ubuf,       \* how many of them are still in the inbound buffer
  tunnel,     \* whether the parser has seen the user's handshake
  npkt,       \* packets made of each user's stream; they are numbered
  lp,         \* the user's event loop: [pc, cached, io]
  rcv,        \* the recvChan goroutine: [io, sendMu]
  delivered   \* downstream payloads written to each user

tableVars == <<byUser, byServer, sess>>
userVars == <<ustate, uin, ubuf, tunnel, npkt, lp>>
vars == <<dialerVars, tableVars, userVars, rcv, delivered>>

Delete(m, k) == [x \in DOMAIN m \ {k} |-> m[x]]
Put(m, k, v) == [x \in DOMAIN m \cup {k} |-> IF x = k THEN v ELSE m[x]]

NoSession == 0

\* Mutant: the packet is saved and only the session made.
NewSessionAlone(cached, pkt) ==
  [cached |-> cached, serverConn |-> NoConn, dialing |-> TRUE, pending |-> <<>>]

NewSession(cached, pkt) ==
  [cached |-> cached, serverConn |-> NoConn, dialing |-> TRUE, pending |-> <<pkt>>]

\* sess with a packet added to session s, or with s bound to connection d
\* and its packets taken out.
SessQueued(s, p) ==
  [sess EXCEPT ![s] = [cached |-> @.cached, serverConn |-> @.serverConn,
                       dialing |-> @.dialing, pending |-> Append(@.pending, p)]]
SessReady(s, d) ==
  [sess EXCEPT ![s] = [cached |-> @.cached, serverConn |-> d,
                       dialing |-> FALSE, pending |-> <<>>]]

Init ==
  /\ DialerInit
  /\ byUser = <<>>
  /\ byServer = <<>>
  /\ sess = <<>>
  /\ ustate = [u \in Users |-> "open"]
  /\ uin = [u \in Users |-> 0]
  /\ ubuf = [u \in Users |-> 0]
  /\ lp = [u \in Users |-> [pc |-> "idle", cached |-> FALSE, io |-> <<>>]]
  /\ tunnel = [u \in Users |-> FALSE]
  /\ npkt = [u \in Users |-> 0]
  /\ rcv = [io |-> <<>>, sendMu |-> NoSession]
  /\ delivered = [u \in Users |-> <<>>]

(***************************************************************************)
(* sessionTable                                                            *)
(***************************************************************************)

\* Is the session of a dial still the current one of its user?
Current(token) ==
  /\ token.user \in DOMAIN byUser
  /\ byUser[token.user] = token.session

\* Mutant: the reverse entry stays.
PurgeByUserHalf(u) ==
  /\ byUser' = Delete(byUser, u)
  /\ byServer' = byServer

PurgeByUser(u) ==
  /\ byUser' = Delete(byUser, u)
  /\ byServer' = IF u \in DOMAIN byUser
                   THEN Delete(byServer, sess[byUser[u]].serverConn)
                   ELSE byServer

\* Mutant: the server connection is not handed out to be closed.
OrphanForgotten(u) == <<>>

\* The server connection purgeByUser(u) returns to be closed.
Orphan(u) ==
  IF u \in DOMAIN byUser /\ sess[byUser[u]].serverConn # NoConn
    THEN <<CloseTask(sess[byUser[u]].serverConn)>>
    ELSE <<>>

\* The user that purgeByServer(d) removes and returns; empty if none.
PurgedUser(d) ==
  {u \in DOMAIN byUser :
     d \in DOMAIN byServer /\ byServer[d] = u /\ sess[byUser[u]].serverConn = d}

PurgeByServer(d) ==
  /\ byServer' = Delete(byServer, d)
  /\ byUser' = [u \in DOMAIN byUser \ PurgedUser(d) |-> byUser[u]]

\* The user d is routed to; empty if none.
GetByServer(d) == {byServer[x] : x \in {d} \cap DOMAIN byServer}

\* getDest finds a cached destination.
HasDest(u) == u \in DOMAIN byUser /\ sess[byUser[u]].cached

\* Mutant: the route is not registered.
CompleteDialUnrouted(d, token) ==
  /\ sess' = SessReady(token.session, d)
  /\ UNCHANGED <<byUser, byServer>>

\* Mutant: the route names the user who dialed last.
CompleteDialLatest(d, token) ==
  /\ sess' = SessReady(token.session, d)
  /\ byServer' = Put(byServer, d, dials[Len(dials)].token.user)
  /\ UNCHANGED byUser

CompleteDial(d, token) ==
  /\ sess' = SessReady(token.session, d)
  /\ byServer' = Put(byServer, d, token.user)
  /\ UNCHANGED byUser

\* Mutant: the failed session stays.
AbortDialForgotten(u) == UNCHANGED byUser

AbortDial(u) == byUser' = Delete(byUser, u)

(***************************************************************************)
(* The event loop of a user connection                                     *)
(***************************************************************************)

\* The loop reads; OnTraffic starts with what is in the buffer.
UserTraffic(u) ==
  /\ lp[u].pc = "idle"
  /\ ustate[u] # "closed"
  /\ \E n \in ReadSizes :
       /\ uin[u] + n <= MaxUnits
       /\ uin' = [uin EXCEPT ![u] = @ + n]
       /\ ubuf' = [ubuf EXCEPT ![u] = @ + n]
  /\ lp' = [lp EXCEPT ![u].pc = "lookup"]
  /\ UNCHANGED <<dialerVars, tableVars, ustate, tunnel, npkt, rcv, delivered>>

\* The packet OnTraffic is about to admit.
Pkt(u) == [user |-> u, seq |-> npkt[u]]

\* Some units make a packet, ready for admitUpstream.
Take(u, units, cached) ==
  /\ ubuf' = [ubuf EXCEPT ![u] = @ - units]
  /\ npkt' = [npkt EXCEPT ![u] = @ + 1]
  /\ lp' = [lp EXCEPT ![u] = [pc |-> "admit", cached |-> cached, io |-> <<>>]]

\* Marshal refuses the destination: the units are gone, and OnTraffic
\* returns with the rest of the buffer unread.
MarshalFails(u, units) ==
  /\ LongDests
  /\ ubuf' = [ubuf EXCEPT ![u] = @ - units]
  /\ lp' = [lp EXCEPT ![u].pc = "idle"]
  /\ UNCHANGED npkt

\* One turn of OnTraffic's loop up to the packet: getDest, else Parse, then
\* the payload (cut at 65535 bytes), SetDestination and Marshal.
\* The session has the destination: all that is buffered, or its first part.
LookupCached(u) ==
  /\ HasDest(u)
  /\ \E units \in 1..ubuf[u] : Take(u, units, FALSE)
  /\ UNCHANGED tunnel

LookupRequest(u) ==
  /\ ~HasDest(u)
  /\ "request" \in Kinds /\ ~tunnel[u]
  /\ Take(u, 1, FALSE) \/ MarshalFails(u, 1)
  /\ UNCHANGED tunnel

\* The handshake, with the data behind it or none (the empty packet of
\* forwarder.go:123-128).  A forwarded handshake may come again.
LookupHandshake(u) ==
  /\ ~HasDest(u)
  /\ "handshake" \in Kinds
  /\ tunnel[u] => HandshakeKept
  /\ \E units \in 1..ubuf[u] :
       /\ units = 1 => HandshakeKept \/ ubuf[u] = 1
       /\ Take(u, units, TRUE) \/ MarshalFails(u, units)
  /\ tunnel' = [tunnel EXCEPT ![u] = TRUE]

\* Tunnel data is parsed for a destination: OnTraffic returns gnet.Close.
LookupRejected(u) ==
  /\ ~HasDest(u)
  /\ tunnel[u]
  /\ lp' = [lp EXCEPT ![u].pc = "reject"]
  /\ UNCHANGED <<ubuf, tunnel, npkt>>

Lookup(u) ==
  /\ lp[u].pc = "lookup"
  /\ \/ LookupCached(u)
     \/ LookupRequest(u)
     \/ LookupHandshake(u)
     \/ LookupRejected(u)
  /\ UNCHANGED <<dialerVars, tableVars, ustate, uin, rcv, delivered>>

\* Where OnTraffic goes after a packet.
Again(u) == IF ubuf[u] = 0 THEN "idle" ELSE "lookup"

DialCall(u, s)     == [op |-> "dial", token |-> [user |-> u, session |-> s]]
SendCall(d, pkt, s) == [op |-> "send", conn |-> d, pkt |-> pkt, session |-> s]

\* Mutant: the dialing flag is not looked at.
DialingIgnored(s) == FALSE

Dialing(s) == sess[s].dialing

\* admitUpstream, one action per decision.
AdmitDial(u) ==
  /\ u \notin DOMAIN byUser
  /\ sess' = Append(sess, NewSession(lp[u].cached, Pkt(u)))
  /\ byUser' = Put(byUser, u, Len(sess) + 1)
  /\ lp' = [lp EXCEPT ![u].pc = "io", ![u].io = <<DialCall(u, Len(sess) + 1)>>]

AdmitQueued(u) ==
  /\ u \in DOMAIN byUser
  /\ Dialing(byUser[u])
  /\ sess' = SessQueued(byUser[u], Pkt(u))
  /\ lp' = [lp EXCEPT ![u].pc = Again(u)]
  /\ UNCHANGED byUser

AdmitForward(u) ==
  /\ u \in DOMAIN byUser
  /\ ~Dialing(byUser[u])
  /\ lp' = [lp EXCEPT
       ![u].pc = "io",
       ![u].io = <<SendCall(sess[byUser[u]].serverConn, Pkt(u), byUser[u])>>]
  /\ UNCHANGED <<byUser, sess>>

Admit(u) ==
  /\ lp[u].pc = "admit"
  /\ AdmitDial(u) \/ AdmitQueued(u) \/ AdmitForward(u)
  /\ UNCHANGED <<dialerVars, byServer, ustate, uin, ubuf, tunnel, npkt, rcv, delivered>>

\* Mutant: no sendMu.
SendMuIgnored(s) == TRUE

\* The session's sendMu can be taken.
SendMuFree(s) == rcv.sendMu # s

\* The I/O after the unlock; the write is submitted under sendMu.
UserCall(u) ==
  /\ lp[u].pc = "io"
  /\ LET call == Head(lp[u].io) IN
       \/ /\ call.op = "dial"
          /\ AsyncDial(call.token)
       \/ /\ call.op = "send"
          /\ SendMuFree(call.session)
          /\ tasks' = Append(tasks, WriteTask(call.conn, call.pkt))
          /\ UNCHANGED <<dials, conns, dialSem, loop, recvChan, dialResultChan>>
       \/ /\ call.op = "close"
          /\ tasks' = Append(tasks, call)
          /\ UNCHANGED <<dials, conns, dialSem, loop, recvChan, dialResultChan>>
  /\ lp' = [lp EXCEPT ![u].io = <<>>,
                      ![u].pc = IF ustate[u] = "closed" THEN "idle" ELSE Again(u)]
  /\ UNCHANGED <<tableVars, ustate, uin, ubuf, tunnel, npkt, rcv, delivered>>

\* OnClose: the user closed or failed, OnTraffic returned gnet.Close, or the
\* loop runs a queued Close.
UserCloses(u) ==
  /\ lp[u].pc \in {"idle", "reject"}
  /\ ustate[u] # "closed"
  /\ ustate' = [ustate EXCEPT ![u] = "closed"]
  /\ PurgeByUser(u)
  /\ lp' = [lp EXCEPT ![u].io = Orphan(u),
                      ![u].pc = IF Orphan(u) = <<>> THEN "idle" ELSE "io"]
  /\ UNCHANGED <<dialerVars, sess, uin, ubuf, tunnel, npkt, rcv, delivered>>

UserLoop(u) == Lookup(u) \/ Admit(u) \/ UserCall(u)

(***************************************************************************)
(* The goroutine that consumes recvChan                                    *)
(***************************************************************************)

RcvIdle == rcv.io = <<>>

UserWrite(u, pkt) == [op |-> "deliver", user |-> u, pkt |-> pkt]
\* Mutant: the user connection is left alone.
TellUserNot(us) == <<>>

\* The user connection purgeByServer returned, if any, is closed.
TellUser(us) == IF us = {} THEN <<>>
                ELSE <<[op |-> "hangup", user |-> CHOOSE u \in us : TRUE]>>

\* Each payload is written to its user.  An encoder that fails instead closes
\* the user (forwarder.go:222-227): UserConn has the encoder and that step.
HandleServerMsg(msg) ==
  /\ msg.event = "Data"
  /\ rcv' = [rcv EXCEPT !.io =
       IF GetByServer(msg.conn) = {} THEN <<>>
       ELSE [i \in DOMAIN msg.pkts |-> UserWrite(byServer[msg.conn], msg.pkts[i])]]
  /\ UNCHANGED tableVars

HandleDialClose(msg) ==
  /\ msg.event = "Close"
  /\ PurgeByServer(msg.conn)
  /\ rcv' = [rcv EXCEPT !.io = TellUser(PurgedUser(msg.conn))]
  /\ UNCHANGED sess

\* Mutant: only the first pending packet is replayed.
ReplayFirst(d, pending) == <<WriteTask(d, pending[1])>>

Replay(d, pending) == [i \in DOMAIN pending |-> WriteTask(d, pending[i])]

RejectOpen(d) == <<CloseTask(d)>>

\* sendMu is held from completeDial to the end of the replay.
HandleDialOpen(msg) ==
  /\ msg.event = "Open"
  /\ LET token == dials[msg.conn].token IN
       IF Current(token)
         THEN /\ CompleteDial(msg.conn, token)
              /\ rcv' = [io |-> Replay(msg.conn, sess[token.session].pending),
                         sendMu |-> token.session]
         ELSE /\ rcv' = [io |-> RejectOpen(msg.conn), sendMu |-> token.session]
              /\ UNCHANGED tableVars

HandleDialError(msg) ==
  /\ msg.event = "DialError"
  /\ LET token == dials[msg.conn].token IN
       IF Current(token) THEN AbortDial(token.user) ELSE UNCHANGED byUser
  /\ UNCHANGED <<byServer, sess, rcv>>

Receive ==
  /\ RcvIdle
  /\ recvChan # <<>>
  /\ LET msg == Head(recvChan) IN
       \/ HandleServerMsg(msg)
       \/ HandleDialClose(msg)
       \/ HandleDialOpen(msg)
       \/ HandleDialError(msg)
  /\ recvChan' = Tail(recvChan)
  /\ UNCHANGED <<dials, conns, dialSem, tasks, loop, dialResultChan>>
  /\ UNCHANGED <<userVars, delivered>>

\* The next call the goroutine owes; sendMu is given back after the last.
ReceiveCall ==
  /\ rcv.io # <<>>
  /\ rcv' = [io |-> Tail(rcv.io),
             sendMu |-> IF Len(rcv.io) = 1 THEN NoSession ELSE rcv.sendMu]
  /\ LET call == Head(rcv.io) IN
       \/ /\ call.op = "deliver"
          /\ delivered' = IF ustate[call.user] = "open"
                            THEN [delivered EXCEPT ![call.user] = Append(@, call.pkt)]
                            ELSE delivered
          /\ UNCHANGED <<tasks, ustate>>
       \/ /\ call.op = "hangup"
          /\ ustate' = IF ustate[call.user] = "open"
                         THEN [ustate EXCEPT ![call.user] = "closing"]
                         ELSE ustate
          /\ UNCHANGED <<tasks, delivered>>
       \/ /\ call.op \in {"write", "close"}
          /\ tasks' = Append(tasks, call)
          /\ UNCHANGED <<ustate, delivered>>
  /\ UNCHANGED <<dials, conns, dialSem, loop, recvChan, dialResultChan>>
  /\ UNCHANGED <<tableVars, uin, ubuf, tunnel, npkt, lp>>

Consumer == Receive \/ ReceiveCall

(***************************************************************************)
(* The dialer: no hook, and nothing to do for a failed write               *)
(***************************************************************************)
DialerAlone(A) == A /\ UNCHANGED <<tableVars, userVars, rcv, delivered>>

LoopAlone == DialerAlone(LoopStep \/ WriteErrorDone(<<>>))

DialerSteps ==
  \/ \E d \in DOMAIN dials :
       \/ DialerAlone(OnOpenPosted(d))
       \/ DialerAlone(DialStep(d))
       \/ DialerAlone(PeerStep(d))
  \/ LoopAlone

\* Every user is gone and nothing is left to do.
Quiescent ==
  /\ \A u \in Users : ustate[u] = "closed" /\ lp[u].pc = "idle"
  /\ recvChan = <<>> /\ RcvIdle
  /\ tasks = <<>> /\ LoopIdle
  /\ \A d \in DOMAIN dials : dials[d].pc = "done" /\ conns[d].st # "open"

\* Bound: sessions, hence dials and server connections, a run can make.
Ids == 1..(Cardinality(Users) * MaxUnits)

Next ==
  \/ \E u \in Users : UserTraffic(u) \/ UserLoop(u) \/ UserCloses(u)
  \/ Consumer
  \/ DialerSteps
  \/ Quiescent /\ UNCHANGED vars

Spec == Init /\ [][Next]_vars

\* Loops and goroutines keep running, a dial ends within its timeout, and a
\* Close asked of a user's loop is run.  Nothing is assumed of users or of
\* the server.
Fairness ==
  /\ WF_vars(Consumer)
  /\ WF_vars(LoopAlone)
  /\ \A d \in Ids :
       /\ WF_vars(DialerAlone(AcquireSem(d)))
       /\ WF_vars(DialerAlone(DialFinishes(d)))
       /\ WF_vars(DialerAlone(OnOpenPosted(d)))
       /\ WF_vars(DialerAlone(DialReports(d)))
  /\ \A u \in Users :
       /\ WF_vars(UserLoop(u))
       /\ WF_vars((ustate[u] = "closing" \/ lp[u].pc = "reject") /\ UserCloses(u))

FairSpec == Spec /\ Fairness

(***************************************************************************)
(* Types                                                                   *)
(***************************************************************************)
ConnIds   == Nat \ {NoConn}
Packet    == [user : Users, seq : Nat]
Token     == [user : Users, session : ConnIds]
DownPkt   == [conn : ConnIds, seq : Nat]
Task      == [op : {"write"}, conn : ConnIds, payload : Packet]
             \cup [op : {"close"}, conn : ConnIds]
LoopCall  == [op : {"dial"}, token : Token]
             \cup [op : {"send"}, conn : ConnIds, pkt : Packet, session : ConnIds]
             \cup [op : {"close"}, conn : ConnIds]
RcvCall   == Task
             \cup [op : {"deliver"}, user : Users, pkt : DownPkt]
             \cup [op : {"hangup"}, user : Users]
ConnEvent == [event : {"Data", "Close", "Open", "DialError"},
              conn : ConnIds, pkts : Seq(DownPkt)]
Session   == [cached : BOOLEAN, serverConn : Nat, dialing : BOOLEAN, pending : Seq(Packet)]

Dial      == [token : Token, pc : DialPC]
Conn      == [st : {"new", "open", "closed"}, out : Seq(Packet), in : Nat]
Loop      == [blocked : Seq(ConnEvent), failed : Nat]
UserLoopState == [pc : {"idle", "lookup", "admit", "io", "reject"},
                  cached : BOOLEAN, io : Seq(LoopCall)]

DialerTypeOK ==
  /\ dials \in Seq(Dial)
  /\ conns \in Seq(Conn)
  /\ Len(conns) = Len(dials)
  /\ dialSem \in Int
  /\ tasks \in Seq(Task)
  /\ loop \in Loop
  /\ recvChan \in Seq(ConnEvent)
  /\ dialResultChan = <<>>

TableTypeOK ==
  /\ sess \in Seq(Session)
  /\ DOMAIN byUser \subseteq Users
  /\ \A u \in DOMAIN byUser : byUser[u] \in DOMAIN sess
  /\ DOMAIN byServer \subseteq DOMAIN conns
  /\ \A d \in DOMAIN byServer : byServer[d] \in Users

UserTypeOK ==
  /\ ustate \in [Users -> {"open", "closing", "closed"}]
  /\ uin \in [Users -> Nat] /\ ubuf \in [Users -> Nat] /\ npkt \in [Users -> Nat]
  /\ tunnel \in [Users -> BOOLEAN]
  /\ lp \in [Users -> UserLoopState]

ReceiverTypeOK ==
  /\ rcv \in [io : Seq(RcvCall), sendMu : Nat]
  /\ delivered \in [Users -> Seq(DownPkt)]

\* TypeOK: every variable has its type, the maps refer to sessions and
\* connections that exist, no send is addressed to a nil connection, and the
\* semaphore stays within its capacity.
TypeOK ==
  /\ DialerTypeOK /\ TableTypeOK /\ UserTypeOK /\ ReceiverTypeOK
  /\ dialSem \in 0..MaxConcurrentDials

(***************************************************************************)
(* Safety                                                                  *)
(***************************************************************************)

\* The two maps of sessionTable agree (session.go:36): a server connection
\* is routed to a user exactly when the user's session has it.
RouteConsistent ==
  /\ \A d \in DOMAIN byServer :
       /\ byServer[d] \in DOMAIN byUser
       /\ sess[byUser[byServer[d]]].serverConn = d
  /\ \A u \in DOMAIN byUser :
       LET d == sess[byUser[u]].serverConn IN
         d # NoConn => d \in DOMAIN byServer /\ byServer[d] = u

IsRun(s, u) ==
  \A i \in DOMAIN s : s[i].user = u /\ s[i].seq = s[1].seq + i - 1

\* A server connection receives an unbroken run of the packets of the one
\* user it was dialed for: the replay, done by one goroutine, never mixes
\* with the forwards of the user's own loop (session.go:11).
UpstreamInOrder ==
  \A d \in DOMAIN conns : IsRun(conns[d].out, dials[d].token.user)

\* The number of the packet of u admitted last.
Admitted(u) == npkt[u] - (IF lp[u].pc = "admit" THEN 1 ELSE 0)

\* Packets among the calls to connection d in s: writes that are queued or
\* to be replayed, and the forward a user's loop is about to do.
SentTo(d, s) ==
  {s[i].payload : i \in {j \in DOMAIN s : s[j].op = "write" /\ s[j].conn = d}} \cup
  {s[i].pkt : i \in {j \in DOMAIN s : s[j].op = "send" /\ s[j].conn = d}}

\* Packets written to d or on their way there.
Pipeline(d) ==
  {conns[d].out[i] : i \in DOMAIN conns[d].out} \cup
  SentTo(d, tasks) \cup SentTo(d, rcv.io) \cup SentTo(d, lp[dials[d].token.user].io)

\* While a user has a session, the packets admitted since the session began,
\* up to the last, and no others, are pending, or on their way on the
\* session's connection, or written to it: the unlock between a decision and
\* its I/O (forwarder.go:160) and the hand-over of the pending packets to the
\* replay (session.go:108, forwarder.go:252) leave none behind.
UpstreamNotLost ==
  \A u \in DOMAIN byUser :
    LET s == sess[byUser[u]]
        d == s.serverConn
        kept == IF s.dialing THEN {s.pending[i] : i \in DOMAIN s.pending} ELSE Pipeline(d)
    IN  d = NoConn \/ conns[d].st = "open" =>
          \E first \in 0..Admitted(u) :
            kept = {[user |-> u, seq |-> q] : q \in first..Admitted(u)}

\* A user receives from its connections one after the other, and from each
\* one a prefix of what the server sent on it: the last p.seq packets up to p
\* are the first of its connection, and all before them are of older ones.
\* The Open event precedes the connection's data on recvChan
\* (session.go:92-94), and no data of a session that was purged or replaced
\* follows that of a newer one.
DownstreamInOrder ==
  \A u \in Users : \A i \in DOMAIN delivered[u] :
    LET p == delivered[u][i] IN
      /\ dials[p.conn].token.user = u
      /\ p.seq \in 1..i
      /\ \A j \in 1..i :
           IF j > i - p.seq
             THEN delivered[u][j] = [conn |-> p.conn, seq |-> j - (i - p.seq)]
             ELSE delivered[u][j].conn < p.conn

\* Packets of connection d still on their way through recvChan and its
\* consumer.
InTransit(d) ==
  LET Packets(msgs) == UNION {{msgs[i].pkts[k] : k \in DOMAIN msgs[i].pkts} : i \in DOMAIN msgs}
      delivers == {i \in DOMAIN rcv.io : rcv.io[i].op = "deliver"}
  IN  {p \in Packets(recvChan) \cup Packets(loop.blocked) \cup {rcv.io[i].pkt : i \in delivers} :
         p.conn = d}

\* Nothing of it is lost while the user is open and the session is the
\* user's, neither before the session's Open is handled nor when the
\* connection has closed behind the data.
DownstreamNotLost ==
  \A d \in DOMAIN conns :
    LET token == dials[d].token
        got == delivered[token.user]
        received == {p \in {got[i] : i \in DOMAIN got} : p.conn = d}
    IN  Current(token) /\ ustate[token.user] = "open" =>
          received \cup InTransit(d) = {[conn |-> d, seq |-> n] : n \in 1..conns[d].in}

\* session.go:12 and 51: an empty session.dest is the mark of a PerRequest
\* session; the session of a tunnel caches the destination.
TunnelSessionCached ==
  \A u \in DOMAIN byUser :
    tunnel[u] /\ ustate[u] = "open" /\ lp[u].pc = "lookup" => sess[byUser[u]].cached

\* forwarder.go:123-125: the empty packet is sent so that tunnel data is
\* never parsed as a handshake again.
TunnelNotReparsed ==
  \A u \in Users : lp[u].pc = "reject" => ustate[u] # "open"

(***************************************************************************)
(* Liveness                                                                *)
(***************************************************************************)

\* When the server connection of a user's session closes, the user is
\* disconnected: forwarder.go:156-158 relies on it for failed writes.
ServerGoneTellsUser ==
  \A d \in Ids :
    (d \in DOMAIN byServer /\ conns[d].st = "closed") ~>
      (/\ d \in DOMAIN dials \ DOMAIN byServer
       /\ ustate[dials[d].token.user] = "closed")

\* After a user is gone nothing of it stays.
UserReclaimed ==
  \A u \in Users :
    ustate[u] = "closed" ~>
      [](/\ u \notin DOMAIN byUser
         /\ \A d \in DOMAIN dials :
              dials[d].token.user = u => dials[d].pc = "done" /\ conns[d].st # "open")

\* A dialing session becomes ready or goes away.
DialSettles ==
  \A s \in Ids :
    (s \in DOMAIN sess /\ sess[s].dialing) ~>
      (\/ s \in DOMAIN sess /\ ~sess[s].dialing
       \/ \A u \in DOMAIN byUser : byUser[u] # s)
=============================================================================
