------------------------------- MODULE EndToEnd -------------------------------
(***************************************************************************)
(* A user, the gforward client, a gforward server worker and a             *)
(* destination: ClientForwarder and ServerWorker as they are, joined where *)
(* they meet.  Connection d of the client's dialer and client connection d *)
(* of the server are the two ends of one TCP connection: what one side has *)
(* written the other reads, in order, packet by packet (module Framing has *)
(* the bytes), and a close at one end is seen at the other after the data, *)
(* or, when the network fails, at any time.                                *)
(*                                                                         *)
(* The user opens a tunnel (CONNECT or SOCKS5) to a destination that may   *)
(* speak first.  Its handshake names the destination of all its packets.   *)
(***************************************************************************)
EXTENDS Integers, Sequences, FiniteSets

CONSTANTS
  Users,               \* user connections
  Dests,               \* destinations
  DestOf,              \* the one each user names
  MaxUnits,            \* bound: units a user sends, the handshake included
  MaxIn,               \* bound: payloads a destination sends on a connection
  MaxConcurrentDials,  \* of both dialers
  DialResultChanSize, RecvChanSize, MsgChanSize

ASSUME EndToEndAssumption ==
  /\ IsFiniteSet(Users)
  /\ DestOf \in [Users -> Dests]
  /\ MaxUnits \in Nat
  /\ MaxIn \in Nat
  /\ MaxConcurrentDials \in Nat \ {0}
  /\ DialResultChanSize \in Nat \ {0}
  /\ RecvChanSize \in Nat \ {0}
  /\ MsgChanSize \in Nat \ {0}

VARIABLES
  \* the client's
  cdials, cconns, cdialSem, ctasks, cloop, crecvChan, cdialResultChan,
  byUser, byServer, csess, ustate, uin, ubuf, tunnel, npkt, lp, rcv, toUser,
  \* the server's
  dials, conns, dialSem, tasks, loop, recvChan, dialResultChan,
  byClient, byDest, sess, cstate, nup, channel, up, down, delivered,
  broken  \* a write or the network has failed

\* Bound: connections the client makes to the server.
Links == 1..(Cardinality(Users) * MaxUnits)

C == INSTANCE ClientForwarder WITH
       Kinds <- {"handshake"}, HandshakeKept <- FALSE, LongDests <- FALSE,
       ReadSizes <- {1}, DialErrorToRecvChan <- TRUE,
       MaxIn <- MaxIn * MaxUnits * Cardinality(Links),
       dials <- cdials, conns <- cconns, dialSem <- cdialSem, tasks <- ctasks,
       loop <- cloop, recvChan <- crecvChan, dialResultChan <- cdialResultChan,
       sess <- csess, delivered <- toUser

S == INSTANCE ServerWorker WITH
       Clients <- Links, MaxUp <- MaxUnits, UpBatches <- 1..MaxUnits,
       DialErrorToRecvChan <- FALSE

clientVars == <<cdials, cconns, cdialSem, ctasks, cloop, crecvChan, cdialResultChan,
                byUser, byServer, csess, ustate, uin, ubuf, tunnel, npkt, lp, rcv, toUser>>
serverVars == <<dials, conns, dialSem, tasks, loop, recvChan, dialResultChan,
                byClient, byDest, sess, cstate, nup, channel, up, down, delivered>>
vars == <<clientVars, serverVars, broken>>

Init == C!Init /\ S!Init /\ broken = FALSE

(***************************************************************************)
(* The connections between client and server                               *)
(***************************************************************************)

\* The destination the packets of link d name.
LinkDest(d) == DestOf[cdials[d].token.user]

\* The dispatcher reads packets the client has written.
LinkUp(d) ==
  /\ d \in DOMAIN cconns
  /\ S!ClientSends(d)
  /\ nup'[d] <= Len(cconns[d].out)
  /\ LET pkts == channel'[Len(channel')].pkts IN
       \A i \in DOMAIN pkts : pkts[i].dest = LinkDest(d)

\* The client's dialer reads a packet the worker has written.
LinkDown(d) ==
  /\ d \in DOMAIN cconns
  /\ cconns[d].in < Len(delivered[d])
  /\ C!DialerAlone(C!OnTraffic(d))

\* The dispatcher sees the connection close: the worker asked for it, or the
\* client's end is closed and everything it wrote has been read.
ServerSeesClose(d) ==
  /\ d \in DOMAIN cconns
  /\ \/ cstate[d] = "closing"
     \/ cconns[d].st = "closed" /\ nup[d] = Len(cconns[d].out)
  /\ S!ClientCloses(d)

\* The client's dialer does, after all that AsyncWrite accepted before the
\* close.  That gnet flushes it first is assumed; a link that drops some of it
\* is ClientLosesLink's.
ClientSeesClose(d) ==
  /\ d \in DOMAIN cconns
  /\ cstate[d] = "closed" /\ cconns[d].in = Len(delivered[d])
  /\ C!DialerAlone(C!PeerCloses(d))

\* The network fails: each end sees it in its own time.
ServerLosesLink(d) ==
  /\ d \in DOMAIN cconns
  /\ cconns[d].st # "new"
  /\ S!ClientCloses(d)

ClientLosesLink(d) == C!DialerAlone(C!PeerCloses(d))

(***************************************************************************)
(* What each side does by itself                                           *)
(***************************************************************************)
ClientSteps ==
  \/ \E u \in Users : C!UserTraffic(u) \/ C!UserLoop(u) \/ C!UserCloses(u)
  \/ C!Consumer
  \/ C!LoopAlone
  \/ \E d \in DOMAIN cdials :
       C!DialerAlone(C!OnOpenPosted(d)) \/ C!DialerAlone(C!DialStep(d))

ServerSteps ==
  \/ S!Upstream
  \/ S!Downstream
  \/ S!DialerSteps

WriteFails == cloop'.failed # C!NoConn \/ loop'.failed # S!NoConn

ClientStep == ClientSteps \/ \E d \in Links : LinkDown(d) \/ ClientSeesClose(d)
ServerStep == ServerSteps \/ \E d \in Links : LinkUp(d) \/ ServerSeesClose(d)

Next ==
  \/ ClientStep /\ UNCHANGED serverVars /\ broken' = (broken \/ WriteFails)
  \/ ServerStep /\ UNCHANGED clientVars /\ broken' = (broken \/ WriteFails)
  \/ \E d \in Links : ClientLosesLink(d) /\ UNCHANGED serverVars /\ broken' = TRUE
  \/ \E d \in Links : ServerLosesLink(d) /\ UNCHANGED clientVars /\ broken' = TRUE
  \/ C!Quiescent /\ UNCHANGED vars

Spec == Init /\ [][Next]_vars

\* Both programs run as ClientForwarder and ServerWorker say, and the network
\* delivers what it carries.  Nothing is assumed of user and destination.
Fairness ==
  /\ C!Fairness
  /\ S!Fairness
  /\ \A d \in Links :
       /\ WF_vars(LinkUp(d) /\ UNCHANGED <<clientVars, broken>>)
       /\ WF_vars(ServerSeesClose(d) /\ UNCHANGED <<clientVars, broken>>)
       /\ WF_vars(LinkDown(d) /\ UNCHANGED <<serverVars, broken>>)
       /\ WF_vars(ClientSeesClose(d) /\ UNCHANGED <<serverVars, broken>>)

FairSpec == Spec /\ Fairness

(***************************************************************************)
(* Safety                                                                  *)
(***************************************************************************)

\* The i-th payload a user got, as the destination sent it: the client's
\* packet names a link and a position on it, the worker's what it put there.
Sent(u, i) == delivered[toUser[u][i].conn][toUser[u][i].seq]

\* Destination connection e was dialed for user u.
Owns(u, e) == e \in DOMAIN conns /\ cdials[dials[e].token.client].token.user = u

FromDest(u, e) == {i \in DOMAIN toUser[u] : Sent(u, i).conn = e}

\* Through both programs a user gets what its own destination connections
\* sent, each from the first payload on and in order: whatever was dropped
\* or torn down on the way, never a later payload after a missing one.
EndToEndInOrder ==
  \A u \in Users : \A i \in DOMAIN toUser[u] :
    LET e == Sent(u, i).conn IN
      /\ Owns(u, e)
      /\ Sent(u, i).seq = Cardinality({j \in FromDest(u, e) : j <= i})

\* The dial of connection f failed.
NeverMade(f) == dials[f].pc = "done" /\ conns[f].st = "new"

\* Destination connection e is the first that was made for user u.
FirstMade(u, e) ==
  /\ Owns(u, e)
  /\ \A f \in DOMAIN conns : f < e /\ Owns(u, f) => NeverMade(f)

\* When a user is hung up on and neither a write nor the network has failed,
\* the first destination connection that was made for it has closed, and
\* everything read from it before that has been written to the user: a short
\* answer and a close are not one race.  (Packets that arrive between the
\* close and the hang-up may have dialed the destination again.)
OrderlyCloseLosesNothing ==
  \A u \in Users : ~broken /\ ustate[u] = "closing" =>
    \E e \in DOMAIN conns :
      /\ FirstMade(u, e)
      /\ conns[e].st = "closed"
      /\ Cardinality(FromDest(u, e)) = conns[e].in

(***************************************************************************)
(* Liveness                                                                *)
(***************************************************************************)

Gone(u) == ustate[u] = "closed"

DialFailed(ds, cs) == \E d \in DOMAIN ds : ds[d].pc = "done" /\ cs[d].st = "new"

\* forwarder.go:123-128: the empty packet of a new tunnel makes the server
\* dial the destination before the user sends anything, unless a dial or the
\* network fails.
TunnelDialed ==
  \A u \in Users : tunnel[u] ~>
    \/ \E e \in DOMAIN conns : Owns(u, e) /\ conns[e].st # "new"
    \/ DialFailed(cdials, cconns) \/ DialFailed(dials, conns)
    \/ Gone(u) \/ broken

\* What a destination sends, first or not, reaches its user: neither program
\* keeps it back while a dial result or an Open event is still on its way.
BannerArrives ==
  \A u \in Users : \A e \in S!Ids : \A n \in 1..MaxIn :
    (Owns(u, e) /\ conns[e].in >= n) ~>
      (broken \/ Gone(u) \/ Cardinality(FromDest(u, e)) >= n)

\* A close runs through: when the destination's connection has closed its
\* user is disconnected, and when a user is gone neither program keeps a
\* connection, a session or a dial of it, whatever has failed on the way.
CloseCascades ==
  /\ \A u \in Users : \A e \in S!Ids :
       (Owns(u, e) /\ conns[e].st = "closed") ~> (broken \/ Gone(u))
  /\ \A u \in Users : Gone(u) ~>
       [](/\ u \notin DOMAIN byUser
          /\ \A d \in DOMAIN cdials : cdials[d].token.user = u =>
               cconns[d].st # "open" /\ d \notin DOMAIN byClient
          /\ \A e \in DOMAIN dials : Owns(u, e) =>
               dials[e].pc = "done" /\ conns[e].st # "open")
=============================================================================
