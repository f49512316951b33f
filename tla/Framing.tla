------------------------------- MODULE Framing -------------------------------
(***************************************************************************)
(* The internal protocol on a connection to the server:                    *)
(* protocol/forward.go, the loop of message.ParseAvailable that takes the  *)
(* bytes apart again, and the turn of the client's OnTraffic that makes    *)
(* packets of a user's bytes.                                              *)
(*                                                                         *)
(* A byte is a number below Base (256 in the code, less in TLC's runs):    *)
(* the length of an address is one byte, ports and payload lengths two.    *)
(* "stream" is all that was ever written to the connection; the receiver   *)
(* has read the first nread bytes and consumed the first nparsed, so its   *)
(* inbound buffer is what lies between.  TCP delivers the stream in        *)
(* pieces of any size.                                                     *)
(*                                                                         *)
(* ParseAvailable runs to its end inside OnTraffic; its turns are actions, *)
(* and only the sender's steps come between them.                          *)
(***************************************************************************)
EXTENDS Integers, Sequences, SequencesExt

CONSTANTS
  Base,       \* values of a byte
  Hosts,      \* hosts a parser may name, as sequences of bytes
  PortTexts,  \* ports a parser may name; not all need fit two bytes
  UserBytes,  \* bytes a user may send
  MaxUser,    \* bound: bytes of the user
  MaxSent,    \* bound: packets made of them
  MaxForeign  \* bound: bytes of a peer that is not a client

Byte == 0..(Base - 1)

ASSUME FramingAssumption ==
  /\ Base \in Nat /\ Base >= 2
  /\ Hosts \subseteq Seq(Byte)
  /\ PortTexts \subseteq Nat
  /\ UserBytes \subseteq Byte
  /\ MaxUser \in Nat /\ MaxSent \in Nat /\ MaxForeign \in Nat

VARIABLES
  peer,      \* who is at the other end: a gforward "client", or anyone else
  given,     \* the user's bytes
  ntaken,    \* how many of them were taken out of the inbound buffer
  pieces,    \* history: the payloads made of them
  sent,      \* history: [pkt, end], the packets written and where they end
  stream,    \* the bytes written to the connection
  nread,     \* how many of them the receiver has read
  nparsed,   \* how many of those ParseAvailable has consumed
  parsing,   \* whether ParseAvailable is running
  batch,     \* pkts: what it has parsed in this run
  received,  \* packets handed on
  closed     \* the receiver has closed the connection

senderVars == <<peer, given, ntaken, pieces, sent>>
receiverVars == <<nread, nparsed, parsing, batch, received, closed>>
vars == <<senderVars, stream, receiverVars>>

(***************************************************************************)
(* ForwardPacket                                                           *)
(***************************************************************************)
MaxAddr    == Base - 1
MaxUint16  == Base * Base - 1

\* PutUint16 and Uint16, big endian.
PutUint16(n) == <<n \div Base, n % Base>>

\* Mutant: read as little endian.
Uint16Little(hi, lo) == lo * Base + hi

Uint16(hi, lo) == hi * Base + lo

\* SetDestination: a port that does not fit, or is zero, clears the address.
SetDestination(host, port, payload) ==
  IF port \in 1..MaxUint16
    THEN [addr |-> host, port |-> port, payload |-> payload]
    ELSE [addr |-> <<>>, port |-> 0, payload |-> payload]

\* Marshal returns no error.
Sendable(pkt) ==
  /\ pkt.addr # <<>>
  /\ Len(pkt.addr) <= MaxAddr
  /\ pkt.port # 0
  /\ Len(pkt.payload) <= MaxUint16

Header(pkt) ==
  <<Len(pkt.addr)>> \o pkt.addr \o PutUint16(pkt.port) \o PutUint16(Len(pkt.payload))

Marshal(pkt) == Header(pkt) \o pkt.payload

\* Unmarshal, as what it reads in a buffer and the three answers it gives.
AddrLen(b)    == b[1]
HeaderLen(b)  == 5 + AddrLen(b)
Port(b)       == Uint16(b[2 + AddrLen(b)], b[3 + AddrLen(b)])
PayloadLen(b) == Uint16(b[4 + AddrLen(b)], b[5 + AddrLen(b)])

HasHeader(b) == b # <<>> /\ AddrLen(b) # 0 /\ HeaderLen(b) <= Len(b)

\* Mutant: the port is looked at before it is all there.
RejectsEarly(b) ==
  /\ b # <<>>
  /\ \/ AddrLen(b) = 0
     \/ Len(b) >= 2 + AddrLen(b) /\ b[2 + AddrLen(b)] = 0

Rejects(b) ==
  \/ b # <<>> /\ AddrLen(b) = 0
  \/ HasHeader(b) /\ Port(b) = 0

FrameLen(b) == HeaderLen(b) + PayloadLen(b)

Complete(b) == HasHeader(b) /\ Port(b) # 0 /\ FrameLen(b) <= Len(b)

Decoded(b) ==
  [addr    |-> SubSeq(b, 2, 1 + AddrLen(b)),
   port    |-> Port(b),
   payload |-> SubSeq(b, HeaderLen(b) + 1, FrameLen(b))]

\* Mutant: the header is consumed, the payload is left.
ConsumedHeader(b) == HeaderLen(b)

\* What Unmarshal reports as consumed.
Consumed(b) == FrameLen(b)

Init ==
  /\ peer \in {"client", "other"}
  /\ given = <<>> /\ ntaken = 0 /\ pieces = <<>> /\ sent = <<>>
  /\ stream = <<>> /\ nread = 0 /\ nparsed = 0
  /\ parsing = FALSE /\ batch = <<>> /\ received = <<>> /\ closed = FALSE

(***************************************************************************)
(* The client                                                              *)
(***************************************************************************)
UserSends ==
  /\ peer = "client"
  /\ Len(given) < MaxUser
  /\ \E b \in UserBytes : given' = Append(given, b)
  /\ UNCHANGED <<peer, ntaken, pieces, sent, stream, receiverVars>>

\* A payload of n bytes is cut to what a frame can hold.
Cut(n) == IF n > MaxUint16 THEN MaxUint16 ELSE n

\* Mutant: everything that was peeked is discarded.
DiscardedPeeked(n) == n

Discarded(n) == Cut(n)

\* Bytes Peek may return: some of the buffer (a request's payload), all of
\* it (a tunnel's), or nothing for the first packet of a tunnel.
Peeked ==
  LET buffered == Len(given) - ntaken
  IN  IF buffered > 0 THEN 1..buffered ELSE {n \in {0} : pieces = <<>>}

\* A turn of OnTraffic's loop.  When Marshal fails its bytes are gone.  The
\* frames of one connection reach it in the order they were made in
\* (UpstreamInOrder of ClientForwarder).
ClientPacket ==
  /\ peer = "client"
  /\ Len(pieces) < MaxSent
  /\ \E n \in Peeked, host \in Hosts, port \in PortTexts :
       LET payload == SubSeq(given, ntaken + 1, ntaken + Cut(n))
           pkt     == SetDestination(host, port, payload)
       IN  /\ ntaken' = ntaken + Discarded(n)
           /\ pieces' = Append(pieces, payload)
           /\ IF Sendable(pkt)
                THEN /\ stream' = stream \o Marshal(pkt)
                     /\ sent' = Append(sent, [pkt |-> pkt, end |-> Len(stream')])
                ELSE UNCHANGED <<stream, sent>>
  /\ UNCHANGED <<peer, given, receiverVars>>

\* Anyone else writes what it likes.
ForeignByte ==
  /\ peer = "other"
  /\ Len(stream) < MaxForeign
  /\ \E b \in Byte : stream' = Append(stream, b)
  /\ UNCHANGED <<senderVars, receiverVars>>

(***************************************************************************)
(* The receiver: OnTraffic of the server's dispatcher                      *)
(***************************************************************************)
buf == SubSeq(stream, nparsed + 1, nread)

Read ==
  /\ ~closed /\ ~parsing
  /\ \E n \in (nread + 1)..Len(stream) : nread' = n
  /\ parsing' = TRUE
  /\ UNCHANGED <<senderVars, stream, nparsed, batch, received, closed>>

\* Mutant: the packets parsed before an incomplete one are forgotten.
HandedOnForgotten(pkts) == received

\* A run of ParseAvailable ends and its packets are handed on as one message.
HandedOn(pkts) == received \o pkts

ParseNeedMoreData ==
  /\ parsing
  /\ ~Rejects(buf) /\ ~Complete(buf)
  /\ parsing' = FALSE
  /\ received' = HandedOn(batch)
  /\ batch' = <<>>
  /\ UNCHANGED <<senderVars, stream, nread, nparsed, closed>>

\* What was parsed in the same run is dropped, and the caller returns Close.
ParseRejected ==
  /\ parsing
  /\ Rejects(buf)
  /\ parsing' = FALSE
  /\ batch' = <<>>
  /\ closed' = TRUE
  /\ UNCHANGED <<senderVars, stream, nread, nparsed, received>>

\* The loop ends when the buffer is dry, else it goes on.
ParseDone ==
  /\ parsing
  /\ ~Rejects(buf) /\ Complete(buf)
  /\ nparsed' = nparsed + Consumed(buf)
  /\ IF nparsed' = nread
       THEN /\ parsing' = FALSE
            /\ received' = received \o Append(batch, Decoded(buf))
            /\ batch' = <<>>
       ELSE /\ batch' = Append(batch, Decoded(buf))
            /\ UNCHANGED <<parsing, received>>
  /\ UNCHANGED <<senderVars, stream, nread, closed>>

ParseTurn == ParseNeedMoreData \/ ParseRejected \/ ParseDone

\* Everything written was read, or the connection is gone.
Quiescent == closed \/ (~parsing /\ nread = Len(stream))

Next ==
  \/ UserSends
  \/ ClientPacket
  \/ ForeignByte
  \/ Read
  \/ ParseTurn
  \/ Quiescent /\ UNCHANGED vars

Spec == Init /\ [][Next]_vars

(***************************************************************************)
(* Types                                                                   *)
(***************************************************************************)
Packet == [addr : Seq(Byte), port : 0..MaxUint16, payload : Seq(Byte)]

\* TypeOK: every variable has its type; the receiver consumes no more than it
\* has read, and reads no more than was written.
TypeOK ==
  /\ peer \in {"client", "other"}
  /\ given \in Seq(Byte)
  /\ ntaken \in Nat /\ ntaken <= Len(given)
  /\ pieces \in Seq(Seq(Byte))
  /\ sent \in Seq([pkt : Packet, end : Nat])
  /\ stream \in Seq(Byte)
  /\ nread \in Nat /\ nparsed \in Nat
  /\ nparsed <= nread /\ nread <= Len(stream)
  /\ parsing \in BOOLEAN /\ closed \in BOOLEAN
  /\ batch \in Seq(Packet)
  /\ received \in Seq(Packet)

(***************************************************************************)
(* A gforward client at the other end                                      *)
(***************************************************************************)

\* The packets received are the packets sent, in order, each once and with
\* the destination the client's parser named: forward.go's Marshal against
\* its Unmarshal, whatever pieces the frames arrive in.
Pipe == INSTANCE PacketPipe WITH
  Packets <- {pkt \in Packet : Sendable(pkt)},
  put <- [i \in DOMAIN sent |-> sent[i].pkt],
  got <- IF peer = "client" THEN received ELSE <<>>

PipeImplemented == Pipe!Spec

\* No packet waits once its last byte was read: the loop of ParseAvailable
\* goes on until no complete frame is left (message.go:30).
NoneWaits ==
  ~parsing => \A i \in DOMAIN sent : sent[i].end <= nread => i <= Len(received)

\* What Marshal wrote is never rejected, at no cut of it (message.go:44).
NeverRejected == peer = "client" => ~closed

\* The payloads cut from a user's stream are the stream: nothing skipped or
\* repeated where a payload exceeds a frame (forwarder.go:132).
UserBytesKept == FlattenSeq(pieces) = SubSeq(given, 1, ntaken)

(***************************************************************************)
(* Any peer                                                                *)
(***************************************************************************)
EncodedAll(pkts) == FlattenSeq([i \in DOMAIN pkts |-> Marshal(pkts[i])])

\* What was parsed, encoded again, is what was consumed: each byte goes into
\* one packet.  After a rejection what was handed on is still the beginning
\* of the stream, cut between two frames.
Reencodes ==
  /\ ~closed => EncodedAll(received \o batch) = SubSeq(stream, 1, nparsed)
  /\ closed => IsPrefix(EncodedAll(received), SubSeq(stream, 1, nparsed))

\* The frames of every packet Marshal accepts.
Frames ==
  {Marshal(pkt) : pkt \in {p \in [addr : BoundedSeq(Byte, MaxAddr),
                                  port : 1..MaxUint16,
                                  payload : BoundedSeq(Byte, MaxUint16)] : Sendable(p)}}

\* A connection is closed only when no frame can begin with, or be the
\* beginning of, what is in the buffer.
RejectedForCause ==
  closed => \A f \in Frames : ~IsPrefix(f, buf) /\ ~IsPrefix(buf, f)

\* A peer never makes the receiver hold more than it needs for one frame: a
\* buffer of that length is parsed or rejected.
BufferBounded == ~parsing /\ ~closed => Len(buf) < 5 + MaxAddr + MaxUint16

(***************************************************************************)
(* The invariant behind the refinement                                     *)
(***************************************************************************)
Start(i) == IF i = 1 THEN 0 ELSE sent[i - 1].end

\* The stream is the frames of the packets sent, one after the other, each
\* ending after the ones before it.
StreamIsFrames ==
  /\ \A i \in DOMAIN sent :
       /\ Sendable(sent[i].pkt)
       /\ sent[i].end = Start(i) + Len(Marshal(sent[i].pkt))
       /\ \A k \in 1..Len(Marshal(sent[i].pkt)) :
            stream[Start(i) + k] = Marshal(sent[i].pkt)[k]
       /\ \A j \in DOMAIN sent : i < j => sent[i].end < sent[j].end
  /\ Len(stream) = Start(Len(sent) + 1)

\* The receiver stands between two of them, and has what is before.
ParsedIsPrefix ==
  LET pkts == received \o batch IN
    /\ Len(pkts) <= Len(sent)
    /\ nparsed = Start(Len(pkts) + 1)
    /\ \A i \in DOMAIN pkts : pkts[i] = sent[i].pkt

\* Between two runs of ParseAvailable there is no frame in the buffer, and
\* nothing to reject.
Drained == ~parsing /\ ~closed => batch = <<>> /\ ~Rejects(buf) /\ ~Complete(buf)

FramingInv ==
  /\ TypeOK
  /\ Drained
  /\ peer = "client" => StreamIsFrames /\ ParsedIsPrefix /\ ~closed
  /\ peer = "other" => sent = <<>>
=============================================================================
