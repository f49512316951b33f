------------------------------- MODULE UserConn -------------------------------
(***************************************************************************)
(* One user connection of the client, byte by byte: the loop of OnTraffic  *)
(* (client/forwarder.go) with the destination parser of the client's mode, *)
(* and the goroutine that writes the server's data back.                   *)
(*                                                                         *)
(* ClientForwarder has the same loop with units for bytes and is about the *)
(* session table; here the session is only what OnTraffic sees of it: none,*)
(* or one with a cached destination, or one without.  The packets are      *)
(* taken to arrive (ClientForwarder's UpstreamInOrder and UpstreamNotLost).*)
(*                                                                         *)
(* What the user sends is a script, a sequence of items that the protocol  *)
(* itself tells apart.  An item says what it is worth: the bytes the       *)
(* destination must get for it, whether those may come before the item is  *)
(* complete, the answers it gets, and whether it must be refused.          *)
(***************************************************************************)
EXTENDS Socks5, HttpProxy, ClientHello, Shadowsocks

CONSTANTS
  Scripts,  \* bound: what a user may send, [mode, items]
  Down      \* bound: the payloads the server sends, in order

Modes == {"http_dns", "https_dns", "http_proxy", "socks5", "shadowsocks"}

ASSUME UserConnAssumption ==
  /\ \A s \in Scripts : s.mode \in Modes
  /\ Down \in Seq(Seq(Byte))

VARIABLES
  script,     \* what the user sends, all of it
  nread,      \* bytes of it read into the inbound buffer so far
  ntaken,     \* bytes of it taken out of the buffer
  parser,     \* the parser's entry for the connection, <<>> or <<state>>
  session,    \* <<>>, or <<d>> with d the cached destination or NoDest
  running,    \* OnTraffic has not returned
  conn,       \* "open", "closing" (gnet.Close was returned), "closed"
  told,       \* the destination of the first packet
  delivered,  \* what the packets carry, each byte with its destination
  replies,    \* the parser's answers, with the data that went before
  ndown,      \* payloads the recvChan goroutine has taken up
  msg,        \* the one it is about to encode and write, <<>> if none
  writes,     \* AsyncWrite calls the loop has not run
  toUser      \* downstream bytes written to the user

upVars   == <<nread, ntaken, running, told, delivered, replies>>
downVars == <<ndown, msg, writes, toUser>>
vars     == <<script, upVars, parser, session, conn, downVars>>

Stream == FlattenSeq([i \in DOMAIN script.items |-> script.items[i].bytes])
Buffer == SubSeq(Stream, ntaken + 1, nread)

Init ==
  /\ script \in Scripts
  /\ nread = 0 /\ ntaken = 0
  /\ parser = <<>> /\ session = <<>>
  /\ running = FALSE /\ conn = "open"
  /\ told = NoDest /\ delivered = <<>> /\ replies = <<>>
  /\ ndown = 0 /\ msg = <<>> /\ writes = <<>> /\ toUser = <<>>

(***************************************************************************)
(* OnTraffic                                                               *)
(***************************************************************************)

\* NewForwarder and NewParser: the parser of a mode.
Parse(mode, state, buf) ==
  CASE mode = "http_dns"    -> ParseHTTP(state, buf)
    [] mode = "https_dns"   -> ParseHTTPS(state, buf)
    [] mode = "http_proxy"  -> ParseHTTPProxy(state, buf)
    [] mode = "socks5"      -> ParseSocks5(state, buf)
    [] mode = "shadowsocks" -> ParseShadowsocks(state, buf)

\* getDest finds a cached destination.
HasDest == session # <<>> /\ session[1] # NoDest

\* Where a turn gets its destination: the session or the parser.
Result ==
  IF HasDest THEN ParseDoneRequest(session[1], 0, parser)
             ELSE Parse(script.mode, parser, Buffer)

CachedDest(r) == IF r.perRequest THEN NoDest ELSE r.dest

\* A packet holds at most MaxPayload bytes.
Cut(b) == SubSeq(b, 1, Smaller(MaxPayload, Len(b)))

\* conn.Peek(payloadLen), for which 0 is all.
Peek(r) ==
  LET rest == SubSeq(Buffer, r.consumed + 1, Len(Buffer))
  IN  IF r.payloadLen = 0 THEN rest ELSE SubSeq(rest, 1, r.payloadLen)

\* What is sent, and what the loop itself takes out of the buffer for it.
Payload(r) == Cut(IF r.payload = <<>> THEN Peek(r) ELSE r.payload[1])
Discarded(r) == IF r.payload = <<>> THEN Len(Payload(r)) ELSE 0

\* Mutant: no packet without payload.
NothingToSendAnyway(r) == Payload(r) = <<>>

NothingToSend(r) == Payload(r) = <<>> /\ CachedDest(r) = NoDest /\ r.payload = <<>>

ToDest(dest, b) == [i \in DOMAIN b |-> <<dest, b[i]>>]

Answer(r) ==
  replies' = replies \o [i \in DOMAIN r.reply |-> [after |-> Len(toUser), reply |-> r.reply[i]]]

\* The loop of gnet reads, any number of bytes, and calls OnTraffic.
Read ==
  /\ conn = "open" /\ ~running
  /\ \E n \in (nread + 1)..Len(Stream) : nread' = n
  /\ running' = TRUE
  /\ UNCHANGED <<script, ntaken, parser, session, conn, told, delivered, replies, downVars>>

\* The parser waits for the rest.
TurnNeedsMore ==
  /\ running /\ Result.status = "more"
  /\ parser' = Result.state
  /\ ntaken' = ntaken + Result.consumed
  /\ Answer(Result)
  /\ running' = FALSE
  /\ UNCHANGED <<script, nread, session, conn, told, delivered, downVars>>

\* OnTraffic returns gnet.Close.
TurnRejected ==
  /\ running /\ Result.status = "rejected"
  /\ parser' = Result.state
  /\ Answer(Result)
  /\ running' = FALSE
  /\ conn' = "closing"
  /\ UNCHANGED <<script, nread, ntaken, session, told, delivered, downVars>>

\* A destination and a packet: admitUpstream makes a session if there is
\* none, and the loop goes on while the buffer holds anything.
Send(r) ==
  /\ ntaken' = ntaken + r.consumed + Discarded(r)
  /\ told' = IF session = <<>> THEN r.dest ELSE told
  /\ delivered' = delivered \o ToDest(r.dest, Payload(r))
  /\ session' = IF session = <<>> THEN <<CachedDest(r)>> ELSE session
  /\ running' = (ntaken' < nread)

TurnForwards ==
  /\ running /\ Result.status = "done"
  /\ parser' = Result.state
  /\ Answer(Result)
  /\ IF NothingToSend(Result)
       THEN /\ running' = FALSE
            /\ ntaken' = ntaken + Result.consumed
            /\ UNCHANGED <<told, delivered, session>>
       ELSE Send(Result)
  /\ UNCHANGED <<script, nread, conn, downVars>>

\* OnClose: after gnet.Close, or the user has gone.
OnClose ==
  /\ ~running /\ conn # "closed"
  /\ conn' = "closed"
  /\ parser' = <<>>
  /\ session' = <<>>
  /\ UNCHANGED <<script, upVars, downVars>>

(***************************************************************************)
(* The way back                                                            *)
(***************************************************************************)

\* handleServerMsg finds the user of the server's connection.
HandleServerMsg ==
  /\ session # <<>> /\ msg = <<>> /\ ndown < Len(Down)
  /\ ndown' = ndown + 1
  /\ msg' = <<Down[ndown + 1]>>
  /\ UNCHANGED <<script, upVars, parser, session, conn, writes, toUser>>

\* The rest of it: the connection may be gone by now, and its state too.
WriteToUser ==
  /\ msg # <<>>
  /\ msg' = <<>>
  /\ IF script.mode # "shadowsocks"
       THEN writes' = Append(writes, msg[1]) /\ UNCHANGED <<parser, conn>>
     ELSE IF parser = <<>>
       THEN /\ conn' = IF conn = "open" THEN "closing" ELSE conn
            /\ UNCHANGED <<parser, writes>>
     ELSE LET r == EncodePayload(parser, msg[1]) IN
            /\ parser' = r.state
            /\ writes' = Append(writes, r.out)
            /\ UNCHANGED conn
  /\ UNCHANGED <<script, upVars, session, ndown, toUser>>

\* The loop runs an AsyncWrite; on a closed connection it does nothing.
RunWrite ==
  /\ writes # <<>> /\ ~running /\ conn # "closing"
  /\ toUser' = IF conn = "open" THEN toUser \o Head(writes) ELSE toUser
  /\ writes' = Tail(writes)
  /\ UNCHANGED <<script, upVars, parser, session, conn, ndown, msg>>

\* The user is gone and nothing is left to do.
Quiescent == conn = "closed" /\ msg = <<>> /\ writes = <<>>

Next ==
  \/ Read
  \/ TurnNeedsMore \/ TurnRejected \/ TurnForwards
  \/ OnClose
  \/ HandleServerMsg \/ WriteToUser \/ RunWrite
  \/ Quiescent /\ UNCHANGED vars

Spec == Init /\ [][Next]_vars

(***************************************************************************)
(* What the script is worth                                                *)
(***************************************************************************)
Items == script.items
Waiting == conn = "open" /\ ~running

\* The bytes of the first i items, and how many of the items have been read.
EndOf(i) == Len(FlattenSeq([j \in 1..i |-> Items[j].bytes]))
ItemsRead == CHOOSE i \in 0..Len(Items) :
               EndOf(i) <= nread /\ (i < Len(Items) => EndOf(i + 1) > nread)

\* What the destinations must get for the first i items.
Worth(i) == FlattenSeq([j \in 1..i |-> ToDest(Items[j].dest, Items[j].out)])

\* Of the item that is being read, if it need not be complete.
WorthOfPart ==
  IF ItemsRead < Len(Items) /\ Items[ItemsRead + 1].stream
    THEN nread - EndOf(ItemsRead)
    ELSE 0

(***************************************************************************)
(* Safety                                                                  *)
(***************************************************************************)

\* However the stream is cut into reads, every byte goes to the destination
\* its request or handshake names, in order, none is sent that belongs to a
\* handshake the parser consumes, and none twice.
RightDestination == IsPrefix(delivered, Worth(Len(Items)))

\* When OnTraffic waits for data, all that can be forwarded has been: no
\* complete request, chunk or tunnel byte waits for the user to send more.
NothingHeld ==
  Waiting => Len(delivered) = Len(Worth(ItemsRead)) + WorthOfPart

\* A connection is refused because of something in it that must be refused,
\* and when all of that has been read it has been refused.
RejectsOnlyBad ==
  /\ conn = "closing" =>
       \E i \in DOMAIN Items : Items[i].bad /\ nread > EndOf(i - 1)
  /\ Waiting => \A i \in 1..ItemsRead : ~Items[i].bad

\* Every handshake step gets its answer as soon as it is complete, whatever
\* comes with it in the same read, and before any data of the tunnel.
Answered ==
  LET Due(i) == FlattenSeq([j \in 1..i |-> Items[j].reply])
  IN  /\ \A i \in DOMAIN replies : replies[i].after = 0
      /\ IsPrefix([i \in DOMAIN replies |-> replies[i].reply], Due(Len(Items)))
      /\ Waiting => Len(replies) = Len(Due(ItemsRead))

\* forwarder.go:123-128: as soon as the user has named a destination the
\* server is told, with data or without, or a server that speaks first and
\* a user that waits for it would wait for each other.
ServerTold ==
  LET naming == {i \in 1..ItemsRead : Items[i].dest # NoDest}
  IN  Waiting /\ naming # {} =>
        told = Items[CHOOSE i \in naming : \A j \in naming : i <= j].dest

\* The user can decode what it gets, and it is what the server sent.
UserDecodes ==
  LET wire  == toUser \o FlattenSeq(writes)
      given == FlattenSeq(SubSeq(Down, 1, ndown - Len(msg)))
      r     == Decrypt(NoSalt, wire, Len(wire))
  IN  conn = "open" =>
        IF script.mode = "shadowsocks"
          THEN r.out = given /\ r.consumed = Len(wire)
          ELSE wire = given
=============================================================================
