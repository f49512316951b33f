-------------------------------- MODULE Socks5 --------------------------------
(***************************************************************************)
(* The SOCKS5 parser, destination/socks5.go: negotiation and request, each *)
(* answered as soon as it is complete, and a connection that has had both  *)
(* is not parsed again.  The state of a connection is <<>> (no entry), or  *)
(* one of "init", "negotiated", "connected".                               *)
(*                                                                         *)
(* The socks5 library is external: on a packet whose length and version    *)
(* were checked it returns the fields.                                     *)
(***************************************************************************)
EXTENDS Destination
LOCAL INSTANCE FiniteSets

Ver == 5
MethodNone == 0
CmdConnect == 1

\* The answers written to the user.
NegotiationReply(method) == [ver |-> Ver, method |-> method]
MethodUnsupportAll == 255
Reply(rep, atyp) == [ver |-> Ver, rep |-> rep, atyp |-> atyp]
RepSuccess == 0
RepCommandNotSupported == 7

Range1(b, from, n) == {b[i] : i \in from..(from + n - 1)}

(***************************************************************************)
(* negotiationPacketLen and requestPacketLen                               *)
(***************************************************************************)
NegotiationInvalid(b) == Len(b) >= 2 /\ (b[1] # Ver \/ b[2] = 0)

NegotiationLen(b) == 2 + b[2]

NegotiationComplete(b) == Len(b) >= 2 /\ Len(b) >= NegotiationLen(b)

RequestInvalid(b) ==
  /\ Len(b) >= 4
  /\ \/ b[1] # Ver
     \/ b[4] \notin {AtypIPv4, AtypDomain, AtypIPv6}
     \/ b[4] = AtypDomain /\ Len(b) >= 5 /\ b[5] = 0

RequestLen(b) ==
  CASE b[4] = AtypIPv4   -> 4 + V4Len + 2
    [] b[4] = AtypIPv6   -> 4 + V6Len + 2
    [] b[4] = AtypDomain -> 5 + b[5] + 2

RequestComplete(b) ==
  /\ Len(b) >= 4
  /\ b[4] = AtypDomain => Len(b) >= 5
  /\ Len(b) >= RequestLen(b)

\* The address of a complete request: all between its type and its port.
RequestDest(b) ==
  LET n    == RequestLen(b)
      from == IF b[4] = AtypDomain THEN 6 ELSE 5
  IN  <<SubSeq(b, from, n - 2), Uint16(b[n - 1], b[n])>>

(***************************************************************************)
(* Parse                                                                   *)
(***************************************************************************)

\* The answer to a command other than CONNECT has an address of the kind the
\* request has; a domain counts as IPv4.
NotSupported(atyp) ==
  Reply(RepCommandNotSupported, IF atyp = AtypIPv6 THEN AtypIPv6 ELSE AtypIPv4)

\* The loop in the state "negotiated".
ParseRequest(b) ==
  IF RequestInvalid(b) THEN ParseRejected
  ELSE IF ~RequestComplete(b) THEN ParseNeedMoreData(<<"negotiated">>)
  ELSE IF b[2] # CmdConnect
    THEN [ParseRejected EXCEPT !.reply = <<NotSupported(b[4])>>]
    ELSE [ParseDone(RequestDest(b), RequestLen(b), <<"connected">>)
            EXCEPT !.reply = <<Reply(RepSuccess, AtypIPv4)>>]

\* What the loop returns when n bytes and an answer went before.
After(n, reply, r) ==
  [r EXCEPT !.consumed = n + @, !.reply = reply \o @]

\* Mutant: the request is left for the next read.
ParseNextNot(b) == ParseNeedMoreData(<<"negotiated">>)

\* The next turn of the loop, after a negotiation.
ParseNext(b) == ParseRequest(b)

\* The loop in the state "init": when the negotiation is complete the request
\* may be in the buffer already.
ParseNegotiation(b) ==
  IF NegotiationInvalid(b) THEN ParseRejected
  ELSE IF ~NegotiationComplete(b) THEN ParseNeedMoreData(<<"init">>)
  ELSE IF MethodNone \notin Range1(b, 3, b[2])
    THEN [ParseRejected EXCEPT !.reply = <<NegotiationReply(MethodUnsupportAll)>>]
    ELSE After(NegotiationLen(b), <<NegotiationReply(MethodNone)>>,
               ParseNext(SubSeq(b, NegotiationLen(b) + 1, Len(b))))

ParseSocks5(state, b) ==
  IF state \in {<<>>, <<"init">>} THEN ParseNegotiation(b)
  ELSE IF state = <<"negotiated">> THEN ParseRequest(b)
  ELSE ParseRejected
=============================================================================
