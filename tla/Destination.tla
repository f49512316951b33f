----------------------------- MODULE Destination -----------------------------
(***************************************************************************)
(* What the destination parsers share: destination/parser.go, the request  *)
(* head they have net/http read, and the parser of the transparent HTTP    *)
(* mode (destination/http.go), which is no more than that.                 *)
(*                                                                         *)
(* A parser is a function of what it remembers of a connection and of the  *)
(* bytes in its inbound buffer.  What it remembers is <<>> when its map    *)
(* has no entry, else a sequence of one state.  Its result has the fields  *)
(* of ParseResult, and what it did to the connection: the bytes it took    *)
(* out of the buffer, what it wrote to the user, its next state.           *)
(***************************************************************************)
EXTENDS Integers, Sequences, SequencesExt

CONSTANTS
  Heads,      \* HTTP heads: [bytes, connect, host, length, chunked]
  MaxPayload, \* bytes a parser may hand over at once, and a packet may hold
  V4Len,      \* net.IPv4len
  V6Len       \* net.IPv6len

Byte == 0..255

\* A destination is <<host, port>>; this is the empty string.
NoDest == <<>>

\* The address types of socks5, which Shadowsocks uses too.
AtypIPv4   == 1
AtypDomain == 3
AtypIPv6   == 4

Uint16(hi, lo) == hi * 256 + lo

ParseNeedMoreData(state) ==
  [status |-> "more", dest |-> NoDest, perRequest |-> FALSE, payloadLen |-> 0,
   payload |-> <<>>, consumed |-> 0, reply |-> <<>>, state |-> state]

ParseRejected == [ParseNeedMoreData(<<>>) EXCEPT !.status = "rejected"]

\* The destination of all that follows on the connection.
ParseDone(dest, consumed, state) ==
  [ParseNeedMoreData(state) EXCEPT
     !.status = "done", !.dest = dest, !.consumed = consumed]

\* The destination of payloadLen bytes that stay in the buffer.
ParseDoneRequest(dest, payloadLen, state) ==
  [ParseNeedMoreData(state) EXCEPT
     !.status = "done", !.dest = dest, !.perRequest = TRUE, !.payloadLen = payloadLen]

\* The destination of a payload the parser has decoded and taken out itself.
ParseDoneDecoded(dest, payload, consumed, state) ==
  [ParseNeedMoreData(state) EXCEPT
     !.status = "done", !.dest = dest, !.perRequest = TRUE,
     !.payload = <<payload>>, !.consumed = consumed]

\* extractDestWithPort: a host that names no port gets the default.
WithPort(host, defaultPort) ==
  <<host.name, IF host.port = 0 THEN defaultPort ELSE host.port>>

(***************************************************************************)
(* http.ReadRequest is external.  It returns a head that is all there, EOF *)
(* for the beginning of one, and an error for anything else.               *)
(***************************************************************************)
HeadIn(buf)     == {h \in Heads : IsPrefix(h.bytes, buf)}
HeadBegins(buf) == \E h \in Heads : IsStrictPrefix(buf, h.bytes)

\* HTTPParser: nothing is consumed, the head is forwarded with the rest.
ParseHTTP(state, buf) ==
  IF HeadIn(buf) # {}
    THEN LET h == CHOOSE h \in HeadIn(buf) : TRUE
         IN  ParseDone(WithPort(h.host, 80), 0, state)
    ELSE IF HeadBegins(buf) THEN ParseNeedMoreData(state)
                            ELSE ParseRejected
=============================================================================
