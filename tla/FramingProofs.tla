---------------------------- MODULE FramingProofs ----------------------------
(***************************************************************************)
(* Proofs about Framing, for every base, packet, stream and cut.           *)
(***************************************************************************)
EXTENDS Framing, SequenceLemmas

(***************************************************************************)
(* Numbers of two bytes                                                    *)
(***************************************************************************)

\* PutUint16 writes two bytes, and Uint16 reads the number back.
LEMMA Uint16Kept ==
  ASSUME NEW n \in 0..MaxUint16
  PROVE  /\ n \div Base \in Byte
         /\ n % Base \in Byte
         /\ Uint16(n \div Base, n % Base) = n
  <1>1. Base \in Nat /\ Base >= 2
    BY FramingAssumption
  <1> DEFINE q == n \div Base
             r == n % Base
  <1>2. n \in Nat
    BY <1>1 DEF MaxUint16
  <1>3. q \in Nat /\ r \in 0..(Base - 1) /\ n = Base * q + r
    BY <1>1, <1>2
  <1>4. n < Base * Base
    BY <1>1 DEF MaxUint16
  <1>5. q < Base
    BY <1>1, <1>3, <1>4
  <1> QED
    BY <1>1, <1>3, <1>5 DEF Byte, Uint16

(***************************************************************************)
(* Frames                                                                  *)
(***************************************************************************)

\* The packets Marshal accepts.
SendablePacket == {pkt \in Packet : Sendable(pkt)}

LEMMA SendableFields ==
  ASSUME NEW pkt \in SendablePacket
  PROVE  /\ Base \in Nat /\ Base >= 2
         /\ pkt.addr \in Seq(Byte) /\ Len(pkt.addr) \in 1..(Base - 1)
         /\ Len(pkt.addr) \in Byte
         /\ pkt.port \in 0..MaxUint16 /\ pkt.port # 0
         /\ pkt.payload \in Seq(Byte) /\ Len(pkt.payload) \in 0..MaxUint16
         /\ pkt = [addr |-> pkt.addr, port |-> pkt.port, payload |-> pkt.payload]
  <1>1. pkt \in Packet /\ Sendable(pkt)
    BY DEF SendablePacket
  <1>2. Base \in Nat /\ Base >= 2 /\ MaxUint16 \in Nat
    BY FramingAssumption DEF MaxUint16
  <1>3. pkt.addr \in Seq(Byte) /\ pkt.payload \in Seq(Byte) /\ pkt.port \in 0..MaxUint16
    BY <1>1 DEF Packet
  <1>4. Len(pkt.addr) \in 1..(Base - 1) /\ Len(pkt.addr) \in Byte
    BY <1>1, <1>2, <1>3 DEF Sendable, MaxAddr, Byte
  <1>5. pkt = [addr |-> pkt.addr, port |-> pkt.port, payload |-> pkt.payload]
    BY <1>1 DEF Packet
  <1> QED
    BY <1>1, <1>2, <1>3, <1>4, <1>5 DEF Sendable

\* A frame byte by byte.
LEMMA MarshalBytes ==
  ASSUME NEW pkt \in SendablePacket
  PROVE  LET h == Len(pkt.addr)
             m == Marshal(pkt)
         IN  /\ m \in Seq(Byte)
             /\ Len(m) = 5 + h + Len(pkt.payload)
             /\ m[1] = h
             /\ \A i \in 2..(1 + h) : m[i] = pkt.addr[i - 1]
             /\ m[2 + h] = pkt.port \div Base
             /\ m[3 + h] = pkt.port % Base
             /\ m[4 + h] = Len(pkt.payload) \div Base
             /\ m[5 + h] = Len(pkt.payload) % Base
             /\ \A i \in (6 + h)..(5 + h + Len(pkt.payload)) : m[i] = pkt.payload[i - (5 + h)]
  <1> DEFINE a == pkt.addr
             d == pkt.payload
             h == Len(a)
             p1 == pkt.port \div Base
             p2 == pkt.port % Base
             l1 == Len(d) \div Base
             l2 == Len(d) % Base
  <1>1. /\ p1 \in Byte /\ p2 \in Byte /\ l1 \in Byte /\ l2 \in Byte
        /\ a \in Seq(Byte) /\ d \in Seq(Byte) /\ h \in Byte /\ Len(a) = h
    BY SendableFields, Uint16Kept
  <1>2. Marshal(pkt) = <<h>> \o a \o <<p1, p2>> \o <<l1, l2>> \o d
    BY DEF Marshal, Header, PutUint16
  <1> HIDE DEF a, d, h, p1, p2, l1, l2
  <1> DEFINE m == Marshal(pkt)
             b1 == <<h>> \o a
             b2 == b1 \o <<p1, p2>>
             b3 == b2 \o <<l1, l2>>
  <1>3. h \in Nat /\ Len(d) \in Nat
    BY <1>1
  <1>4. m = b3 \o d
    BY <1>2 DEF b3, b2, b1
  <1>5. /\ b1 \in Seq(Byte) /\ Len(b1) = 1 + h
        /\ \A i \in 1..(1 + h) : b1[i] = IF i <= 1 THEN <<h>>[i] ELSE a[i - 1]
    <2>1. <<h>> \in Seq(Byte) /\ Len(<<h>>) = 1
      BY <1>1
    <2> QED
      BY <1>1, <2>1, ConcatProperties
  <1> HIDE DEF b1
  <1>6. /\ b2 \in Seq(Byte) /\ Len(b2) = 3 + h
        /\ \A i \in 1..(3 + h) : b2[i] = IF i <= 1 + h THEN b1[i] ELSE <<p1, p2>>[i - (1 + h)]
    <2>1. <<p1, p2>> \in Seq(Byte) /\ Len(<<p1, p2>>) = 2
      BY <1>1
    <2>2. (1 + h) + 2 = 3 + h
      BY <1>3
    <2> QED
      BY <1>5, <2>1, <2>2, ConcatProperties
  <1> HIDE DEF b2
  <1>7. /\ b3 \in Seq(Byte) /\ Len(b3) = 5 + h
        /\ \A i \in 1..(5 + h) : b3[i] = IF i <= 3 + h THEN b2[i] ELSE <<l1, l2>>[i - (3 + h)]
    <2>1. <<l1, l2>> \in Seq(Byte) /\ Len(<<l1, l2>>) = 2
      BY <1>1
    <2>2. (3 + h) + 2 = 5 + h
      BY <1>3
    <2> QED
      BY <1>6, <2>1, <2>2, ConcatProperties
  <1> HIDE DEF b3
  <1>8. /\ m \in Seq(Byte) /\ Len(m) = 5 + h + Len(d)
        /\ \A i \in 1..(5 + h + Len(d)) : m[i] = IF i <= 5 + h THEN b3[i] ELSE d[i - (5 + h)]
    <2>1. b3 \in Seq(Byte) /\ Len(b3) = 5 + h
      BY <1>7
    <2>2. d \in Seq(Byte) /\ 5 + h \in Nat
      BY <1>1, <1>3
    <2>3. /\ b3 \o d \in Seq(Byte) /\ Len(b3 \o d) = 5 + h + Len(d)
          /\ \A i \in 1..(5 + h + Len(d)) :
               (b3 \o d)[i] = IF i <= 5 + h THEN b3[i] ELSE d[i - (5 + h)]
      BY <2>1, <2>2, ConcatProperties
    <2> QED
      BY <2>3, <1>4
  <1> HIDE DEF m
  <1>9. \A i \in 1..(5 + h) : m[i] = b3[i]
    BY <1>3, <1>8
  <1>10. \A i \in 1..(3 + h) : m[i] = b2[i]
    BY <1>3, <1>7, <1>9
  <1>11. \A i \in 1..(1 + h) : m[i] = b1[i]
    BY <1>3, <1>6, <1>10
  <1>12. m[1] = h
    BY <1>3, <1>5, <1>11
  <1>13. \A i \in 2..(1 + h) : m[i] = a[i - 1]
    BY <1>3, <1>5, <1>11
  <1>14. m[2 + h] = p1 /\ m[3 + h] = p2
    <2>1. /\ 2 + h \in 1..(3 + h) /\ ~(2 + h <= 1 + h) /\ (2 + h) - (1 + h) = 1
          /\ 3 + h \in 1..(3 + h) /\ ~(3 + h <= 1 + h) /\ (3 + h) - (1 + h) = 2
      BY <1>3
    <2> QED
      BY <2>1, <1>6, <1>10
  <1>15. m[4 + h] = l1 /\ m[5 + h] = l2
    <2>1. /\ 4 + h \in 1..(5 + h) /\ ~(4 + h <= 3 + h) /\ (4 + h) - (3 + h) = 1
          /\ 5 + h \in 1..(5 + h) /\ ~(5 + h <= 3 + h) /\ (5 + h) - (3 + h) = 2
      BY <1>3
    <2> QED
      BY <2>1, <1>7, <1>9
  <1>16. \A i \in (6 + h)..(5 + h + Len(d)) : m[i] = d[i - (5 + h)]
    BY <1>3, <1>8
  <1> QED
    BY <1>8, <1>12, <1>13, <1>14, <1>15, <1>16 DEF a, d, h, p1, p2, l1, l2, m

\* A buffer that begins with a frame, or is the beginning of one, is never
\* rejected; it is complete exactly when the whole frame is there, and then
\* the frame is what is consumed and its packet what is decoded
\* (forward.go: Unmarshal against Marshal).
THEOREM FrameDecides ==
  ASSUME NEW pkt \in SendablePacket, NEW b \in Seq(Byte),
         \A i \in 1..Len(Marshal(pkt)) : i <= Len(b) => b[i] = Marshal(pkt)[i]
  PROVE  /\ ~Rejects(b)
         /\ Complete(b) <=> Len(Marshal(pkt)) <= Len(b)
         /\ Complete(b) => FrameLen(b) = Len(Marshal(pkt)) /\ Decoded(b) = pkt
  <1> DEFINE h == Len(pkt.addr)
             n == Len(pkt.payload)
             m == Marshal(pkt)
  <1>1. /\ h \in Nat /\ h >= 1 /\ n \in Nat /\ Len(b) \in Nat
        /\ pkt.port \in 0..MaxUint16 /\ pkt.port # 0 /\ n \in 0..MaxUint16
    BY SendableFields
  <1>2. /\ Len(m) = 5 + h + n
        /\ m[1] = h
        /\ \A i \in 2..(1 + h) : m[i] = pkt.addr[i - 1]
        /\ m[2 + h] = pkt.port \div Base
        /\ m[3 + h] = pkt.port % Base
        /\ m[4 + h] = n \div Base
        /\ m[5 + h] = n % Base
        /\ \A i \in (6 + h)..(5 + h + n) : m[i] = pkt.payload[i - (5 + h)]
    BY MarshalBytes
  <1>3. \A i \in 1..(5 + h + n) : i <= Len(b) => b[i] = m[i]
    BY <1>2
  <1>4. /\ pkt.addr \in Seq(Byte) /\ pkt.payload \in Seq(Byte)
        /\ Len(pkt.addr) = h /\ Len(pkt.payload) = n
        /\ pkt = [addr |-> pkt.addr, port |-> pkt.port, payload |-> pkt.payload]
    BY SendableFields
  <1>5. Uint16(pkt.port \div Base, pkt.port % Base) = pkt.port
    BY <1>1, Uint16Kept
  <1>6. Uint16(n \div Base, n % Base) = n
    BY <1>1, Uint16Kept
  <1> HIDE DEF h, n, m
  <1>7. b # <<>> => AddrLen(b) = h
    BY <1>1, <1>2, <1>3 DEF AddrLen
  <1>8. HasHeader(b) <=> 5 + h <= Len(b)
    BY <1>1, <1>7 DEF HasHeader, HeaderLen
  <1>9. ASSUME HasHeader(b)
        PROVE  Port(b) = pkt.port /\ PayloadLen(b) = n
    <2>1. AddrLen(b) = h /\ 5 + h <= Len(b)
      BY <1>7, <1>8, <1>9 DEF HasHeader
    <2>2. /\ b[2 + h] = m[2 + h] /\ b[3 + h] = m[3 + h]
          /\ b[4 + h] = m[4 + h] /\ b[5 + h] = m[5 + h]
      BY <2>1, <1>1, <1>3
    <2> QED
      BY <2>1, <2>2, <1>2, <1>5, <1>6 DEF Port, PayloadLen
  <1>10. ~Rejects(b)
    BY <1>1, <1>7, <1>9 DEF Rejects
  <1>11. HasHeader(b) => FrameLen(b) = 5 + h + n
    BY <1>7, <1>9 DEF FrameLen, HeaderLen, HasHeader
  <1>12. Complete(b) <=> 5 + h + n <= Len(b)
    BY <1>1, <1>8, <1>9, <1>11 DEF Complete
  <1>13. ASSUME Complete(b)
         PROVE  Decoded(b) = pkt
    <2>1. HasHeader(b) /\ 5 + h + n <= Len(b) /\ AddrLen(b) = h
      BY <1>7, <1>12, <1>13 DEF Complete, HasHeader
    <2>2. SubSeq(b, 2, 1 + h) = pkt.addr
      <3>1. \A i \in 2..(1 + h) : b[i] = pkt.addr[i - 1]
        BY <2>1, <1>1, <1>2, <1>3
      <3>2. 1 \in Nat /\ 1 + h <= Len(b)
        BY <2>1, <1>1
      <3>3. SubSeq(b, 1 + 1, 1 + Len(pkt.addr)) = pkt.addr
        <4>1. \A i \in (1 + 1)..(1 + Len(pkt.addr)) : b[i] = pkt.addr[i - 1]
          BY <3>1, <1>4
        <4> QED
          BY <3>2, <4>1, <1>4, SliceIs
      <3> QED
        BY <3>3, <1>4
    <2>3. SubSeq(b, 5 + h + 1, 5 + h + n) = pkt.payload
      <3>1. \A i \in (5 + h + 1)..(5 + h + n) : b[i] = pkt.payload[i - (5 + h)]
        BY <2>1, <1>1, <1>2, <1>3
      <3>2. 5 + h \in Nat
        BY <1>1
      <3> QED
        BY <2>1, <3>1, <3>2, <1>1, <1>4, SliceIs
    <2>4. /\ HeaderLen(b) + 1 = 5 + h + 1
          /\ FrameLen(b) = 5 + h + n
      BY <2>1, <1>11 DEF HeaderLen
    <2> QED
      BY <2>1, <2>2, <2>3, <2>4, <1>4, <1>9 DEF Decoded
  <1> QED
    BY <1>2, <1>10, <1>11, <1>12, <1>13 DEF Complete, m

\* A frame is a string of bytes with at least a header.
LEMMA FrameBytes ==
  ASSUME NEW pkt \in SendablePacket
  PROVE  Marshal(pkt) \in Seq(Byte) /\ Len(Marshal(pkt)) \in Nat /\ Len(Marshal(pkt)) >= 5
  <1> DEFINE h == Len(pkt.addr)
             n == Len(pkt.payload)
  <1>1. h \in Nat /\ n \in Nat
    BY SendableFields
  <1>2. Marshal(pkt) \in Seq(Byte) /\ Len(Marshal(pkt)) = 5 + h + n
    BY MarshalBytes
  <1> HIDE DEF h, n
  <1>3. 5 + h + n \in Nat /\ 5 + h + n >= 5
    BY <1>1
  <1> QED
    BY <1>2, <1>3

(***************************************************************************)
(* The inductive invariant                                                 *)
(***************************************************************************)

\* Where the frames begin and end in the stream.
LEMMA Ends ==
  ASSUME TypeOK, StreamIsFrames
  PROVE  /\ \A i \in 1..Len(sent) :
              /\ sent[i].pkt \in SendablePacket /\ sent[i].end \in Nat
              /\ sent[i].end <= Len(stream)
         /\ \A i \in 1..(Len(sent) + 1) : Start(i) \in Nat
         /\ \A i \in 1..Len(sent) : Start(i + 1) = sent[i].end
         /\ Len(sent) \in Nat /\ Len(stream) \in Nat
  <1>1. sent \in Seq([pkt : Packet, end : Nat]) /\ stream \in Seq(Byte)
    BY DEF TypeOK
  <1>2. Len(sent) \in Nat /\ DOMAIN sent = 1..Len(sent) /\ Len(stream) \in Nat
    BY <1>1
  <1>3. ASSUME NEW i \in 1..Len(sent)
        PROVE  sent[i].pkt \in SendablePacket /\ sent[i].end \in Nat
    <2>1. sent[i] \in [pkt : Packet, end : Nat]
      BY <1>1, ElementOfSeq
    <2>2. Sendable(sent[i].pkt)
      BY <1>2 DEF StreamIsFrames
    <2> QED
      BY <2>1, <2>2 DEF SendablePacket
  <1>4. ASSUME NEW i \in 1..Len(sent)
        PROVE  Start(i + 1) = sent[i].end
    BY <1>2 DEF Start
  <1>5. ASSUME NEW i \in 1..(Len(sent) + 1)
        PROVE  Start(i) \in Nat
    <2>1. i = 1 \/ i - 1 \in 1..Len(sent)
      BY <1>2
    <2> QED
      BY <2>1, <1>3 DEF Start
  <1>6. ASSUME NEW i \in 1..Len(sent)
        PROVE  sent[i].end <= Len(stream)
    <2> DEFINE l == Len(sent)
    <2>1. l \in 1..Len(sent)
      BY <1>2
    <2>2. Len(stream) = sent[l].end
      BY <2>1, <1>4 DEF StreamIsFrames
    <2>3. sent[i].end \in Nat /\ sent[l].end \in Nat
      BY <2>1, <1>3
    <2>4. i < l => sent[i].end < sent[l].end
      BY <1>2, <2>1 DEF StreamIsFrames
    <2>5. l \in Nat
      BY <1>2
    <2> HIDE DEF l
    <2>6. i \in 1..l
      BY DEF l
    <2>7. i = l \/ i < l
      BY <2>5, <2>6
    <2> QED
      BY <2>2, <2>3, <2>4, <2>7
  <1> QED
    BY <1>2, <1>3, <1>4, <1>5, <1>6

\* The inbound buffer is a part of the stream.
LEMMA BufIs ==
  ASSUME TypeOK
  PROVE  /\ buf \in Seq(Byte) /\ Len(buf) = nread - nparsed
         /\ \A k \in 1..(nread - nparsed) : buf[k] = stream[nparsed + k]
  <1>1. /\ stream \in Seq(Byte) /\ Len(stream) \in Nat /\ nread \in Nat /\ nparsed \in Nat
        /\ nparsed <= nread /\ nread <= Len(stream)
    BY DEF TypeOK
  <1>2. \A i \in (nparsed + 1)..nread : stream[i] \in Byte
    BY <1>1
  <1>3. nparsed + 1 \in Int /\ nread \in Int
    BY <1>1
  <1>4. /\ SubSeq(stream, nparsed + 1, nread) \in Seq(Byte)
        /\ Len(SubSeq(stream, nparsed + 1, nread)) =
             IF nparsed + 1 <= nread THEN nread - (nparsed + 1) + 1 ELSE 0
        /\ \A k \in 1..(nread - (nparsed + 1) + 1) :
             SubSeq(stream, nparsed + 1, nread)[k] = stream[nparsed + 1 + k - 1]
    BY <1>2, <1>3, SubSeqProperties
  <1>5. \A k \in 1..(nread - nparsed) : nparsed + 1 + k - 1 = nparsed + k
    BY <1>1
  <1>6. nread - (nparsed + 1) + 1 = nread - nparsed
    BY <1>1
  <1> QED
    BY <1>1, <1>4, <1>5, <1>6 DEF buf

\* The number of the packet a turn of the loop is at.
Turn == Len(received \o batch) + 1

\* What a turn of the loop finds at the front of the buffer when a client is
\* at the other end.
LEMMA TurnFinds ==
  ASSUME TypeOK, StreamIsFrames, ParsedIsPrefix
  PROVE  /\ Turn \in 1..(Len(sent) + 1) /\ nparsed = Start(Turn)
         /\ ~Rejects(buf)
         /\ Complete(buf) <=> (Turn <= Len(sent) /\ sent[Turn].end <= nread)
         /\ Complete(buf) => /\ nparsed + FrameLen(buf) = sent[Turn].end
                             /\ Decoded(buf) = sent[Turn].pkt
  <1>1. /\ nread \in Nat /\ nparsed \in Nat /\ nparsed <= nread /\ nread <= Len(stream)
    BY DEF TypeOK
  <1>2. Len(received \o batch) \in Nat
    <2>1. received \o batch \in Seq(Packet)
      BY DEF TypeOK
    <2> QED
      BY <2>1
  <1>3. Len(received \o batch) <= Len(sent) /\ nparsed = Start(Turn)
    BY DEF ParsedIsPrefix, Turn
  <1>4. /\ buf \in Seq(Byte) /\ Len(buf) = nread - nparsed
        /\ \A k \in 1..(nread - nparsed) : buf[k] = stream[nparsed + k]
    BY BufIs
  <1>5. Len(sent) \in Nat /\ Len(stream) \in Nat
    BY Ends
  <1>6. Turn \in 1..(Len(sent) + 1)
    BY <1>2, <1>3, <1>5 DEF Turn
  <1>7. CASE Turn = Len(sent) + 1
    <2>1. Len(stream) = nparsed
      BY <1>3, <1>7 DEF StreamIsFrames
    <2>2. Len(buf) = 0
      BY <2>1, <1>1, <1>4
    <2>3. buf = <<>>
      BY <2>2, <1>4, EmptySeq
    <2>4. ~Rejects(buf) /\ ~Complete(buf)
      BY <2>3 DEF Rejects, Complete, HasHeader
    <2>5. ~(Turn <= Len(sent))
      BY <1>5, <1>7
    <2> QED
      BY <2>4, <2>5, <1>3, <1>6
  <1>8. CASE Turn \in 1..Len(sent)
    <2> DEFINE m == Marshal(sent[Turn].pkt)
               e == sent[Turn].end
    <2>1. Turn \in DOMAIN sent
      BY <1>8 DEF TypeOK
    <2>2. sent[Turn].pkt \in SendablePacket /\ e \in Nat
      BY <1>8, Ends
    <2>3. m \in Seq(Byte) /\ Len(m) \in Nat /\ Len(m) >= 5
      BY <2>2, FrameBytes
    <2>4. /\ e = nparsed + Len(m)
          /\ \A k \in 1..Len(m) : stream[nparsed + k] = m[k]
      BY <2>1, <1>3 DEF StreamIsFrames
    <2>5. /\ ~Rejects(buf)
          /\ Complete(buf) <=> Len(m) <= Len(buf)
          /\ Complete(buf) => FrameLen(buf) = Len(m) /\ Decoded(buf) = sent[Turn].pkt
      <3>1. ASSUME NEW k \in 1..Len(m), k <= Len(buf)
            PROVE  buf[k] = m[k]
        <4> HIDE DEF m, e
        <4>1. k \in 1..(nread - nparsed)
          BY <3>1, <2>3, <1>4
        <4> QED
          BY <4>1, <2>4, <1>4
      <3> QED
        BY <3>1, <2>2, <1>4, FrameDecides
    <2> HIDE DEF m, e
    <2>6. Len(m) <= Len(buf) <=> e <= nread
      BY <2>2, <2>3, <2>4, <1>1, <1>4
    <2>7. Turn <= Len(sent)
      BY <1>8, <1>5
    <2>8. FrameLen(buf) = Len(m) => nparsed + FrameLen(buf) = e
      BY <2>4
    <2> QED
      BY <2>5, <2>6, <2>7, <2>8, <1>3, <1>6 DEF e
  <1>9. Turn = Len(sent) + 1 \/ Turn \in 1..Len(sent)
    BY <1>5, <1>6
  <1> QED
    BY <1>7, <1>8, <1>9

\* The numbers a header holds, whoever sent it.
LEMMA HeaderFields ==
  ASSUME NEW b \in Seq(Byte), HasHeader(b)
  PROVE  /\ AddrLen(b) \in 0..MaxAddr
         /\ Port(b) \in 0..MaxUint16
         /\ PayloadLen(b) \in 0..MaxUint16
  <1> DEFINE h == AddrLen(b)
             l == Len(b)
  <1>1. Base \in Nat /\ Base >= 2 /\ l \in Nat
    BY FramingAssumption
  <1>2. \A i \in 1..l : b[i] \in 0..(Base - 1)
    BY ElementOfSeq DEF Byte
  <1>3. b # <<>> /\ 5 + h <= l
    BY DEF HasHeader, HeaderLen
  <1>4. 1 \in 1..l
    BY <1>1, <1>3, EmptySeq
  <1>5. h \in 0..(Base - 1)
    BY <1>2, <1>4 DEF AddrLen
  <1>6. /\ b[2 + h] \in 0..(Base - 1) /\ b[3 + h] \in 0..(Base - 1)
        /\ b[4 + h] \in 0..(Base - 1) /\ b[5 + h] \in 0..(Base - 1)
    <2> HIDE DEF h, l
    <2>1. 2 + h \in 1..l /\ 3 + h \in 1..l /\ 4 + h \in 1..l /\ 5 + h \in 1..l
      BY <1>1, <1>3, <1>5
    <2> QED
      BY <1>2, <2>1
  <1>7. ASSUME NEW hi \in 0..(Base - 1), NEW lo \in 0..(Base - 1)
        PROVE  Uint16(hi, lo) \in 0..MaxUint16
    <2>1. hi \in Nat /\ lo \in Nat /\ hi <= Base - 1 /\ lo <= Base - 1
      BY <1>1
    <2>2. hi * Base \in Nat /\ hi * Base <= (Base - 1) * Base
      BY <1>1, <2>1
    <2>3. (Base - 1) * Base + (Base - 1) = Base * Base - 1
      BY <1>1
    <2> QED
      BY <1>1, <2>1, <2>2, <2>3 DEF Uint16, MaxUint16
  <1> QED
    BY <1>5, <1>6, <1>7 DEF Port, PayloadLen, MaxAddr

\* A complete frame is a packet, and is not longer than the buffer.
LEMMA DecodedPacket ==
  ASSUME NEW b \in Seq(Byte), Complete(b)
  PROVE  FrameLen(b) \in 1..Len(b) /\ Decoded(b) \in Packet
  <1> DEFINE h == AddrLen(b)
             n == PayloadLen(b)
             l == Len(b)
  <1>1. Base \in Nat /\ Base >= 2 /\ l \in Nat
    BY FramingAssumption
  <1>2. \A i \in 1..l : b[i] \in 0..(Base - 1)
    BY ElementOfSeq DEF Byte
  <1>3. b # <<>> /\ 5 + h <= l /\ 5 + h + n <= l
    BY DEF Complete, HasHeader, HeaderLen, FrameLen
  <1>4. h \in 0..MaxAddr /\ Port(b) \in 0..MaxUint16 /\ n \in 0..MaxUint16
    BY HeaderFields DEF Complete
  <1>5. MaxUint16 \in Nat /\ MaxAddr \in Nat
    BY <1>1 DEF MaxUint16, MaxAddr
  <1>6. h \in Nat /\ n \in Nat
    BY <1>4, <1>5
  <1>7. FrameLen(b) = 5 + h + n
    BY DEF FrameLen, HeaderLen
  <1>8. SubSeq(b, 2, 1 + h) \in Seq(Byte)
    <2>1. \A i \in 2..(1 + h) : b[i] \in Byte
      <3> HIDE DEF h, l
      <3>1. \A i \in 2..(1 + h) : i \in 1..l
        BY <1>1, <1>3, <1>6
      <3> QED
        BY <3>1, <1>2 DEF Byte
    <2>2. 2 \in Int /\ 1 + h \in Int
      BY <1>6
    <2> QED
      BY <2>1, <2>2, SubSeqProperties
  <1>9. SubSeq(b, 5 + h + 1, 5 + h + n) \in Seq(Byte)
    <2>1. \A i \in (5 + h + 1)..(5 + h + n) : b[i] \in Byte
      <3> HIDE DEF h, n, l
      <3>1. \A i \in (5 + h + 1)..(5 + h + n) : i \in 1..l
        BY <1>1, <1>3, <1>6
      <3> QED
        BY <3>1, <1>2 DEF Byte
    <2>2. 5 + h + 1 \in Int /\ 5 + h + n \in Int
      BY <1>6
    <2> QED
      BY <2>1, <2>2, SubSeqProperties
  <1>10. Decoded(b) \in Packet
    BY <1>4, <1>7, <1>8, <1>9 DEF Decoded, Packet, HeaderLen
  <1>11. 5 + h + n \in 1..l
    <2> HIDE DEF h, n, l
    <2> QED
      BY <1>1, <1>3, <1>6
  <1> QED
    BY <1>7, <1>10, <1>11

\* What is written later changes neither what is in the buffer nor the
\* frames before it.
LEMMA StreamGrows ==
  ASSUME TypeOK, NEW m \in Seq(Byte), stream' = stream \o m,
         nread' = nread, nparsed' = nparsed
  PROVE  /\ stream' \in Seq(Byte) /\ Len(stream') = Len(stream) + Len(m)
         /\ \A k \in 1..Len(stream) : stream'[k] = stream[k]
         /\ \A k \in 1..Len(m) : stream'[Len(stream) + k] = m[k]
         /\ nread' <= Len(stream')
         /\ buf' = buf
  <1> DEFINE l == Len(stream)
             n == Len(m)
  <1>1. stream \in Seq(Byte) /\ l \in Nat /\ n \in Nat
    BY DEF TypeOK
  <1>2. nread \in Nat /\ nparsed \in Nat /\ nparsed <= nread /\ nread <= l
    BY DEF TypeOK
  <1>3. /\ stream \o m \in Seq(Byte) /\ Len(stream \o m) = l + n
        /\ \A k \in 1..(l + n) :
             (stream \o m)[k] = IF k <= l THEN stream[k] ELSE m[k - l]
    BY <1>1, ConcatProperties
  <1> HIDE DEF l, n
  <1>4. \A k \in 1..l : stream'[k] = stream[k]
    BY <1>1, <1>3
  <1>5. ASSUME NEW k \in 1..n PROVE stream'[l + k] = m[k]
    <2>1. l + k \in 1..(l + n) /\ ~(l + k <= l) /\ (l + k) - l = k
      BY <1>1
    <2> QED
      BY <2>1, <1>3
  <1>6. Len(stream') = l + n /\ nread' <= l + n
    BY <1>1, <1>2, <1>3
  <1>7. buf' = buf
    <2> DEFINE st == stream'
               f == SubSeq(st, nparsed + 1, nread)
               g == SubSeq(stream, nparsed + 1, nread)
    <2>1. nparsed + 1 \in Int /\ nread \in Int
      BY <1>2
    <2>2. /\ \A i \in (nparsed + 1)..nread : i \in 1..l
          /\ \A i \in 1..(nread - (nparsed + 1) + 1) : nparsed + 1 + i - 1 \in 1..l
      BY <1>1, <1>2
    <2>3. \A i \in 1..l : stream[i] \in Byte /\ st[i] \in Byte
      BY <1>1, <1>4, ElementOfSeq DEF l
    <2>4. \A i \in 1..l : st[i] = stream[i]
      BY <1>4
    <2> HIDE DEF st
    <2>5. /\ g \in Seq(Byte)
          /\ Len(g) = IF nparsed + 1 <= nread THEN nread - (nparsed + 1) + 1 ELSE 0
          /\ \A i \in 1..(nread - (nparsed + 1) + 1) : g[i] = stream[nparsed + 1 + i - 1]
      BY <2>1, <2>2, <2>3, SubSeqProperties
    <2>6. /\ f \in Seq(Byte)
          /\ Len(f) = IF nparsed + 1 <= nread THEN nread - (nparsed + 1) + 1 ELSE 0
          /\ \A i \in 1..(nread - (nparsed + 1) + 1) : f[i] = st[nparsed + 1 + i - 1]
      BY <2>1, <2>2, <2>3, SubSeqProperties
    <2> HIDE DEF f, g
    <2>7. Len(f) = Len(g)
      BY <2>5, <2>6
    <2>8. \A i \in 1..Len(g) : i \in 1..(nread - (nparsed + 1) + 1)
      BY <2>5, <1>2
    <2>9. \A i \in 1..Len(g) : f[i] = g[i]
      BY <2>2, <2>5, <2>6, <2>8, <2>4
    <2>10. f = g
      BY <2>5, <2>6, <2>7, <2>9, SeqEqual
    <2> QED
      BY <2>10 DEF f, g, st, buf
  <1> QED
    BY <1>3, <1>4, <1>5, <1>6, <1>7 DEF l, n

\* A turn of the client's loop takes some of the user's bytes, and writes a
\* frame or nothing.
LEMMA ClientPacketIs ==
  ASSUME TypeOK, ClientPacket
  PROVE  /\ pieces' \in Seq(Seq(Byte))
         /\ ntaken' \in Nat /\ ntaken' <= Len(given)
         /\ \/ UNCHANGED <<stream, sent>>
            \/ \E pkt \in SendablePacket :
                 /\ stream' = stream \o Marshal(pkt)
                 /\ sent' = Append(sent, [pkt |-> pkt, end |-> Len(stream')])
  <1> DEFINE cut(n) == SubSeq(given, ntaken + 1, ntaken + Cut(n))
             made(n, host, port) == SetDestination(host, port, cut(n))
  <1>1. PICK n \in Peeked, host \in Hosts, port \in PortTexts :
          /\ ntaken' = ntaken + Discarded(n)
          /\ pieces' = Append(pieces, cut(n))
          /\ IF Sendable(made(n, host, port))
               THEN /\ stream' = stream \o Marshal(made(n, host, port))
                    /\ sent' = Append(sent, [pkt |-> made(n, host, port), end |-> Len(stream')])
               ELSE UNCHANGED <<stream, sent>>
    BY DEF ClientPacket
  <1> DEFINE l == Len(given)
  <1>2. /\ given \in Seq(Byte) /\ l \in Nat /\ pieces \in Seq(Seq(Byte))
    BY DEF TypeOK
  <1>3. ntaken \in Nat /\ ntaken <= l
    BY DEF TypeOK
  <1>4. n \in Nat /\ ntaken + n <= l
    BY <1>2, <1>3 DEF Peeked
  <1>5. MaxUint16 \in Nat /\ Base \in Nat /\ Base >= 2
    BY FramingAssumption DEF MaxUint16
  <1>6. Cut(n) \in Nat /\ Cut(n) <= n
    BY <1>4, <1>5 DEF Cut
  <1>7. cut(n) \in Seq(Byte)
    <2>1. \A i \in (ntaken + 1)..(ntaken + Cut(n)) : given[i] \in Byte
      <3> HIDE DEF l
      <3>1. \A i \in (ntaken + 1)..(ntaken + Cut(n)) : i \in 1..l
        BY <1>2, <1>3, <1>4, <1>6
      <3> QED
        BY <3>1, <1>2, ElementOfSeq DEF l
    <2>2. ntaken + 1 \in Int /\ ntaken + Cut(n) \in Int
      BY <1>3, <1>6
    <2> QED
      BY <2>1, <2>2, SubSeqProperties
  <1>8. ntaken' \in Nat /\ ntaken' <= l
    <2> HIDE DEF l
    <2> QED
      BY <1>1, <1>2, <1>3, <1>4, <1>6 DEF Discarded
  <1>9. pieces' \in Seq(Seq(Byte))
    BY <1>1, <1>2, <1>7
  <1>10. made(n, host, port) \in Packet
    <2>1. host \in Seq(Byte) /\ port \in Nat /\ <<>> \in Seq(Byte)
      BY FramingAssumption
    <2> HIDE DEF cut
    <2>2. CASE port \in 1..MaxUint16
      BY <2>1, <2>2, <1>5, <1>7 DEF SetDestination, Packet
    <2>3. CASE port \notin 1..MaxUint16
      BY <2>1, <2>3, <1>5, <1>7 DEF SetDestination, Packet
    <2> QED
      BY <2>2, <2>3
  <1> HIDE DEF made, cut
  <1>11. CASE Sendable(made(n, host, port))
    BY <1>1, <1>8, <1>9, <1>10, <1>11 DEF SendablePacket
  <1>12. CASE ~Sendable(made(n, host, port))
    BY <1>1, <1>8, <1>9, <1>12
  <1> QED
    BY <1>11, <1>12

\* Every step keeps the types.
LEMMA TypeStep ==
  ASSUME TypeOK, [Next]_vars
  PROVE  TypeOK'
  <1>1. CASE UserSends
    <2>1. PICK b \in UserBytes : given' = Append(given, b)
      BY <1>1 DEF UserSends
    <2>2. given \in Seq(Byte) /\ b \in Byte /\ Len(given) \in Nat
      BY FramingAssumption DEF TypeOK
    <2>3. given' \in Seq(Byte) /\ Len(given') = Len(given) + 1
      BY <2>1, <2>2
    <2>4. ntaken' \in Nat /\ ntaken' <= Len(given')
      BY <1>1, <2>2, <2>3 DEF TypeOK, UserSends
    <2> QED
      BY <1>1, <2>3, <2>4 DEF TypeOK, UserSends, receiverVars
  <1>2. CASE ClientPacket
    <2>1. /\ pieces' \in Seq(Seq(Byte)) /\ ntaken' \in Nat /\ ntaken' <= Len(given')
          /\ UNCHANGED <<peer, given, nread, nparsed, parsing, batch, received, closed>>
      BY <1>2, ClientPacketIs DEF ClientPacket, receiverVars
    <2>2. CASE UNCHANGED <<stream, sent>>
      BY <2>1, <2>2 DEF TypeOK
    <2>3. CASE \E pkt \in SendablePacket :
                 /\ stream' = stream \o Marshal(pkt)
                 /\ sent' = Append(sent, [pkt |-> pkt, end |-> Len(stream')])
      <3>1. PICK pkt \in SendablePacket :
                 /\ stream' = stream \o Marshal(pkt)
                 /\ sent' = Append(sent, [pkt |-> pkt, end |-> Len(stream')])
        BY <2>3
      <3>2. Marshal(pkt) \in Seq(Byte)
        BY FrameBytes
      <3>3. stream' \in Seq(Byte) /\ nread' <= Len(stream')
        BY <2>1, <3>1, <3>2, StreamGrows
      <3>4. sent' \in Seq([pkt : Packet, end : Nat])
        <4>1. Len(stream') \in Nat
          BY <3>3
        <4>2. [pkt |-> pkt, end |-> Len(stream')] \in [pkt : Packet, end : Nat]
          BY <4>1 DEF SendablePacket
        <4>3. sent \in Seq([pkt : Packet, end : Nat])
          BY DEF TypeOK
        <4> QED
          BY <3>1, <4>2, <4>3, AppendProperties
      <3> QED
        BY <2>1, <3>3, <3>4 DEF TypeOK
    <2> QED
      BY <1>2, <2>2, <2>3, ClientPacketIs
  <1>3. CASE ForeignByte
    <2>1. PICK b \in Byte : stream' = Append(stream, b)
      BY <1>3 DEF ForeignByte
    <2>2. UNCHANGED <<peer, given, ntaken, pieces, sent, nread, nparsed, parsing, batch, received, closed>>
      BY <1>3 DEF ForeignByte, senderVars, receiverVars
    <2>3. stream \in Seq(Byte) /\ Len(stream) \in Nat /\ nread \in Nat /\ nread <= Len(stream)
      BY DEF TypeOK
    <2>4. stream' \in Seq(Byte) /\ Len(stream') = Len(stream) + 1
      BY <2>1, <2>3
    <2>5. nread' <= Len(stream')
      BY <2>2, <2>3, <2>4
    <2> QED
      BY <2>2, <2>4, <2>5 DEF TypeOK
  <1>4. CASE Read
    <2>1. nread' \in (nread + 1)..Len(stream)
      BY <1>4 DEF Read
    <2>2. stream \in Seq(Byte) /\ Len(stream) \in Nat /\ nread \in Nat /\ nparsed \in Nat /\ nparsed <= nread
      BY DEF TypeOK
    <2>3. nread' \in Nat /\ nparsed <= nread' /\ nread' <= Len(stream)
      BY <2>1, <2>2
    <2> QED
      BY <1>4, <2>3 DEF TypeOK, Read, senderVars
  <1>5. CASE ParseNeedMoreData
    <2>1. received' \in Seq(Packet) /\ <<>> \in Seq(Packet)
      <3>1. received \in Seq(Packet) /\ batch \in Seq(Packet)
        BY DEF TypeOK
      <3> QED
        BY <1>5, <3>1 DEF ParseNeedMoreData, HandedOn
    <2> QED
      BY <1>5, <2>1 DEF TypeOK, ParseNeedMoreData, senderVars
  <1>6. CASE ParseRejected
    <2>1. <<>> \in Seq(Packet)
      OBVIOUS
    <2> QED
      BY <1>6, <2>1 DEF TypeOK, ParseRejected, senderVars
  <1>7. CASE ParseDone
    <2>1. buf \in Seq(Byte) /\ Len(buf) = nread - nparsed /\ Complete(buf)
      BY <1>7, BufIs DEF ParseDone
    <2>2. FrameLen(buf) \in 1..Len(buf) /\ Decoded(buf) \in Packet
      BY <2>1, DecodedPacket
    <2>3. nparsed' = nparsed + FrameLen(buf)
      BY <1>7 DEF ParseDone, Consumed
    <2>4. nread \in Nat /\ nparsed \in Nat /\ nparsed <= nread /\ nread' = nread
      BY <1>7 DEF TypeOK, ParseDone
    <2>5. nparsed' \in Nat /\ nparsed' <= nread'
      BY <2>1, <2>2, <2>3, <2>4
    <2>6. received \in Seq(Packet) /\ batch \in Seq(Packet) /\ <<>> \in Seq(Packet)
      BY DEF TypeOK
    <2>7. Append(batch, Decoded(buf)) \in Seq(Packet)
      BY <2>2, <2>6, AppendProperties
    <2>8. received \o Append(batch, Decoded(buf)) \in Seq(Packet)
      BY <2>6, <2>7, ConcatProperties
    <2>9. received' \in Seq(Packet) /\ batch' \in Seq(Packet) /\ parsing' \in BOOLEAN
      BY <1>7, <2>6, <2>7, <2>8 DEF ParseDone, TypeOK
    <2> QED
      BY <1>7, <2>5, <2>9 DEF TypeOK, ParseDone, senderVars
  <1>8. CASE UNCHANGED vars
    BY <1>8 DEF TypeOK, vars, senderVars, receiverVars
  <1> QED
    BY <1>1, <1>2, <1>3, <1>4, <1>5, <1>6, <1>7, <1>8 DEF Next, ParseTurn

\* Writing one more frame keeps the stream a sequence of frames, and the
\* receiver where it was.
LEMMA FrameAppended ==
  ASSUME TypeOK, StreamIsFrames, ParsedIsPrefix, NEW pkt \in SendablePacket,
         stream' = stream \o Marshal(pkt),
         sent' = Append(sent, [pkt |-> pkt, end |-> Len(stream')]),
         UNCHANGED <<nread, nparsed, received, batch>>
  PROVE  StreamIsFrames' /\ ParsedIsPrefix'
  <1> DEFINE n == Len(sent)
             l == Len(stream)
             m == Marshal(pkt)
             st == stream'
             new == [pkt |-> pkt, end |-> Len(stream')]
  <1>1. /\ m \in Seq(Byte) /\ Len(m) \in Nat /\ Len(m) >= 5 /\ Sendable(pkt)
    BY FrameBytes DEF SendablePacket
  <1>2. /\ \A i \in 1..n : sent[i].end \in Nat /\ sent[i].end <= l
        /\ \A i \in 1..(n + 1) : Start(i) \in Nat
        /\ \A i \in 1..n : Start(i + 1) = sent[i].end
        /\ n \in Nat /\ l \in Nat
    BY Ends
  <1>3. /\ Len(st) = l + Len(m)
        /\ \A k \in 1..l : st[k] = stream[k]
        /\ \A k \in 1..Len(m) : st[l + k] = m[k]
    BY <1>1, StreamGrows
  <1>4. /\ DOMAIN sent = 1..n /\ DOMAIN sent' = 1..(n + 1) /\ Len(sent') = n + 1
        /\ \A i \in 1..n : sent'[i] = sent[i]
        /\ sent'[n + 1] = new
    <2>1. sent \in Seq([pkt : Packet, end : Nat])
      BY DEF TypeOK
    <2> QED
      BY <2>1
  <1>5. l = Start(n + 1)
    BY DEF StreamIsFrames
  <1>6. /\ \A i \in 1..n :
             /\ Sendable(sent[i].pkt)
             /\ sent[i].end = Start(i) + Len(Marshal(sent[i].pkt))
             /\ \A k \in 1..Len(Marshal(sent[i].pkt)) :
                  stream[Start(i) + k] = Marshal(sent[i].pkt)[k]
             /\ \A j \in 1..n : i < j => sent[i].end < sent[j].end
    BY <1>4 DEF StreamIsFrames
  <1>7. \A i \in 1..(n + 1) : Start(i)' = Start(i)
    <2> HIDE DEF n
    <2>1. \A i \in 1..(n + 1) : i # 1 => i - 1 \in 1..n
      BY <1>2
    <2> QED
      BY <2>1, <1>4 DEF Start
  <1>8. new.pkt = pkt /\ new.end = l + Len(m)
    BY <1>3
  <1>9. StreamIsFrames'
    <2>1. ASSUME NEW i \in 1..(n + 1)
          PROVE  /\ Sendable(sent'[i].pkt)
                 /\ sent'[i].end = Start(i)' + Len(Marshal(sent'[i].pkt))
                 /\ \A k \in 1..Len(Marshal(sent'[i].pkt)) :
                      st[Start(i)' + k] = Marshal(sent'[i].pkt)[k]
                 /\ \A j \in 1..(n + 1) : i < j => sent'[i].end < sent'[j].end
      <3>1. CASE i = n + 1
        <4>1. sent'[i] = new /\ Start(i)' = l
          BY <3>1, <1>4, <1>5, <1>7
        <4>2. \A j \in 1..(n + 1) : ~(i < j)
          <5> HIDE DEF n
          <5> QED
            BY <3>1, <1>2
        <4> HIDE DEF n, l, st, new
        <4> QED
          BY <4>1, <4>2, <1>1, <1>3, <1>8 DEF m
      <3>2. CASE i \in 1..n
        <4> DEFINE w == Marshal(sent[i].pkt)
        <4>1. sent'[i] = sent[i] /\ Start(i)' = Start(i) /\ Start(i) \in Nat
          BY <3>2, <1>2, <1>4, <1>7
        <4>2. /\ sent[i].end = Start(i) + Len(w) /\ sent[i].end \in Nat /\ sent[i].end <= l
              /\ w \in Seq(Byte) /\ Len(w) \in Nat
          <5>1. sent[i].pkt \in SendablePacket
            BY <3>2, Ends
          <5> QED
            BY <5>1, <3>2, <1>2, <1>6, FrameBytes
        <4>3. ASSUME NEW k \in 1..Len(w)
              PROVE  st[Start(i) + k] = w[k]
          <5>1. stream[Start(i) + k] = w[k]
            BY <3>2, <1>6
          <5> HIDE DEF w, l, st
          <5>2. Start(i) + k \in 1..l
            BY <4>1, <4>2, <1>2
          <5> QED
            BY <5>1, <5>2, <1>3
        <4>4. ASSUME NEW j \in 1..(n + 1), i < j
              PROVE  sent[i].end < sent'[j].end
          <5>1. CASE j = n + 1
            <6>1. sent'[j].end = l + Len(m)
              BY <5>1, <1>4, <1>8
            <6> DEFINE e == sent[i].end
            <6>2. e \in Nat /\ e <= l
              BY <4>2
            <6> HIDE DEF e, l, m
            <6>3. e < l + Len(m)
              BY <6>2, <1>1, <1>2
            <6> QED
              BY <6>1, <6>3 DEF e
          <5>2. CASE j \in 1..n
            BY <5>2, <4>4, <3>2, <1>4, <1>6
          <5>3. j = n + 1 \/ j \in 1..n
            <6> HIDE DEF n
            <6> QED
              BY <1>2
          <5> QED
            BY <5>1, <5>2, <5>3
        <4> QED
          BY <4>1, <4>2, <4>3, <4>4, <3>2, <1>6
      <3>3. i = n + 1 \/ i \in 1..n
        <4> HIDE DEF n
        <4> QED
          BY <1>2
      <3> QED
        BY <3>1, <3>2, <3>3
    <2>2. Len(st) = Start(Len(sent) + 1)'
      <3> DEFINE q == Len(sent')
      <3>1. q \in Nat /\ q = n + 1
        BY <1>2, <1>4
      <3>2. q + 1 # 1 /\ (q + 1) - 1 = q
        <4> HIDE DEF q, n
        <4> QED
          BY <3>1, <1>2
      <3>3. Start(Len(sent) + 1)' = sent'[q].end
        BY <3>2 DEF Start
      <3>4. sent'[q].end = l + Len(m)
        <4> HIDE DEF q, n, l, m
        <4> QED
          BY <3>1, <1>4, <1>8 DEF l, m
      <3> QED
        BY <3>3, <3>4, <1>3
    <2>3. ASSUME NEW i \in DOMAIN sent'
          PROVE  /\ Sendable(sent'[i].pkt)
                 /\ sent'[i].end = Start(i)' + Len(Marshal(sent'[i].pkt))
                 /\ \A k \in 1..Len(Marshal(sent'[i].pkt)) :
                      stream'[Start(i)' + k] = Marshal(sent'[i].pkt)[k]
                 /\ \A j \in DOMAIN sent' : i < j => sent'[i].end < sent'[j].end
      <3>1. DOMAIN sent' = 1..(n + 1) /\ i \in 1..(n + 1)
        BY <1>4
      <3>2. \A j \in 1..(n + 1) : i < j => sent'[i].end < sent'[j].end
        BY <3>1, <2>1
      <3>3. \A j \in DOMAIN sent' : i < j => sent'[i].end < sent'[j].end
        <4> HIDE DEF n
        <4> QED
          BY <3>1, <3>2, Zenon
      <3>4. /\ Sendable(sent'[i].pkt)
            /\ sent'[i].end = Start(i)' + Len(Marshal(sent'[i].pkt))
            /\ \A k \in 1..Len(Marshal(sent'[i].pkt)) :
                 stream'[Start(i)' + k] = Marshal(sent'[i].pkt)[k]
        BY <3>1, <2>1
      <3> QED
        BY <3>3, <3>4
    <2> QED
      BY <2>2, <2>3 DEF StreamIsFrames
  <1>10. ParsedIsPrefix'
    <2> DEFINE pkts == received \o batch
    <2>1. Len(pkts) \in Nat /\ DOMAIN pkts = 1..Len(pkts)
      <3>1. received \o batch \in Seq(Packet)
        BY DEF TypeOK
      <3> QED
        BY <3>1
    <2>2. /\ Len(pkts) <= n /\ nparsed = Start(Len(pkts) + 1)
          /\ \A i \in 1..Len(pkts) : pkts[i] = sent[i].pkt
      BY <2>1 DEF ParsedIsPrefix
    <2>3. pkts' = pkts
      OBVIOUS
    <2> HIDE DEF pkts, n
    <2>4. Len(pkts) + 1 \in 1..(n + 1) /\ Len(pkts) <= n + 1
      BY <2>1, <2>2, <1>2
    <2>5. nparsed = Start(Len(pkts) + 1)'
      BY <2>2, <2>3, <2>4, <1>7
    <2>6. \A i \in 1..Len(pkts) : i \in 1..n
      BY <2>1, <2>2, <1>2
    <2> QED
      BY <2>1, <2>2, <2>3, <2>4, <2>5, <2>6, <1>4 DEF ParsedIsPrefix, pkts
  <1> QED
    BY <1>9, <1>10

\* A turn that parses a packet takes the next one.
LEMMA ParsedNext ==
  ASSUME TypeOK, StreamIsFrames, ParsedIsPrefix, ParseDone
  PROVE  /\ received' \o batch' = Append(received \o batch, sent[Turn].pkt)
         /\ ParsedIsPrefix'
  <1> DEFINE pkts == received \o batch
             p == Decoded(buf)
  <1>1. /\ Turn \in 1..(Len(sent) + 1) /\ Turn <= Len(sent)
        /\ nparsed + FrameLen(buf) = sent[Turn].end
        /\ p = sent[Turn].pkt
    BY TurnFinds DEF ParseDone
  <1>2. received \in Seq(Packet) /\ batch \in Seq(Packet) /\ p \in Packet
    <2>1. buf \in Seq(Byte) /\ Complete(buf)
      BY BufIs DEF ParseDone
    <2> QED
      BY <2>1, DecodedPacket DEF TypeOK
  <1> HIDE DEF p
  <1>3. /\ received \o Append(batch, p) = Append(pkts, p)
        /\ (received \o Append(batch, p)) \o <<>> = received \o Append(batch, p)
    BY <1>2
  <1>4. received' \o batch' = Append(pkts, p)
    <2>1. CASE nparsed' = nread
      BY <2>1, <1>3 DEF ParseDone, p
    <2>2. CASE nparsed' # nread
      BY <2>2, <1>3 DEF ParseDone, p
    <2> QED
      BY <2>1, <2>2
  <1>5. /\ pkts \in Seq(Packet) /\ Len(pkts) \in Nat /\ DOMAIN pkts = 1..Len(pkts)
        /\ Turn = Len(pkts) + 1
    BY <1>2 DEF Turn
  <1>6. \A i \in 1..Len(pkts) : pkts[i] = sent[i].pkt
    BY <1>5 DEF ParsedIsPrefix
  <1> DEFINE after == Append(pkts, p)
  <1>7. /\ Len(after) = Turn /\ DOMAIN after = 1..Turn
        /\ \A i \in 1..Len(pkts) : after[i] = pkts[i]
        /\ after[Turn] = p
    BY <1>2, <1>5
  <1> HIDE DEF after, pkts
  <1>8. \A i \in 1..Turn : i \in 1..Len(pkts) \/ i = Turn
    BY <1>5
  <1>9. \A i \in 1..Turn : after[i] = sent[i].pkt
    BY <1>1, <1>6, <1>7, <1>8
  <1>10. /\ UNCHANGED sent /\ nparsed' = sent[Turn].end
    BY <1>1 DEF ParseDone, senderVars, Consumed
  <1>11. Turn \in 1..Len(sent) /\ Start(Turn + 1) = sent[Turn].end
    <2>1. Len(sent) \in Nat
      BY Ends
    <2>2. Turn \in 1..Len(sent)
      BY <1>1, <2>1
    <2> QED
      BY <2>2, Ends
  <1>12. (received \o batch)' = after
    BY <1>4 DEF after
  <1>13. Start(Len(received \o batch) + 1)' = Start(Turn + 1)
    BY <1>7, <1>10, <1>12 DEF Start
  <1>14. ParsedIsPrefix'
    BY <1>1, <1>7, <1>9, <1>10, <1>11, <1>12, <1>13 DEF ParsedIsPrefix
  <1> QED
    BY <1>1, <1>4, <1>14 DEF pkts

LEMMA InvInit ==
  ASSUME Init
  PROVE  FramingInv
  <1>1. TypeOK
    <2>1. /\ <<>> \in Seq(Byte) /\ <<>> \in Seq(Seq(Byte)) /\ <<>> \in Seq(Packet)
          /\ <<>> \in Seq([pkt : Packet, end : Nat]) /\ Len(<<>>) = 0
      OBVIOUS
    <2>2. 0 \in Nat /\ 0 <= 0
      OBVIOUS
    <2> QED
      BY <2>1, <2>2 DEF Init, TypeOK
  <1>2. buf = <<>>
    BY SubSeqEmpty DEF Init, buf
  <1>3. Drained
    BY <1>2 DEF Init, Drained, Rejects, Complete, HasHeader
  <1>4. StreamIsFrames
    BY DEF Init, StreamIsFrames, Start
  <1>5. ParsedIsPrefix
    <2>1. received \o batch = <<>>
      BY DEF Init
    <2> QED
      BY <2>1 DEF Init, ParsedIsPrefix, Start
  <1> QED
    BY <1>1, <1>3, <1>4, <1>5 DEF Init, FramingInv

LEMMA InvStep ==
  ASSUME FramingInv, [Next]_vars
  PROVE  FramingInv'
  <1>1. TypeOK /\ TypeOK'
    BY TypeStep DEF FramingInv
  <1>2. Drained
    BY DEF FramingInv
  <1>3. ASSUME peer = "client"
        PROVE  StreamIsFrames /\ ParsedIsPrefix /\ ~closed
    BY <1>3 DEF FramingInv
  <1>4. peer = "other" => sent = <<>>
    BY DEF FramingInv
  <1>5. CASE UserSends
    <2>1. UNCHANGED <<peer, sent, stream, nread, nparsed, parsing, batch, received, closed>>
      BY <1>5 DEF UserSends, receiverVars
    <2> QED
      BY <2>1, <1>1, <1>2, <1>3, <1>4
         DEF FramingInv, Drained, StreamIsFrames, ParsedIsPrefix, Start, buf
  <1>6. CASE ClientPacket
    <2>1. UNCHANGED <<peer, nread, nparsed, parsing, batch, received, closed>> /\ peer = "client"
      BY <1>6 DEF ClientPacket, receiverVars
    <2>2. CASE UNCHANGED <<stream, sent>>
      BY <2>1, <2>2, <1>1, <1>2, <1>3, <1>4
         DEF FramingInv, Drained, StreamIsFrames, ParsedIsPrefix, Start, buf
    <2>3. CASE \E pkt \in SendablePacket :
                 /\ stream' = stream \o Marshal(pkt)
                 /\ sent' = Append(sent, [pkt |-> pkt, end |-> Len(stream')])
      <3>1. PICK pkt \in SendablePacket :
                 /\ stream' = stream \o Marshal(pkt)
                 /\ sent' = Append(sent, [pkt |-> pkt, end |-> Len(stream')])
        BY <2>3
      <3>2. buf' = buf
        BY <3>1, <2>1, <1>1, FrameBytes, StreamGrows
      <3>3. Drained'
        BY <3>2, <2>1, <1>2 DEF Drained
      <3>4. StreamIsFrames' /\ ParsedIsPrefix'
        BY <3>1, <2>1, <1>1, <1>3, FrameAppended
      <3> QED
        BY <3>3, <3>4, <2>1, <1>1, <1>3 DEF FramingInv
    <2> QED
      BY <2>2, <2>3, <1>1, <1>6, ClientPacketIs
  <1>7. CASE ForeignByte
    <2>1. /\ UNCHANGED <<peer, sent, nread, nparsed, parsing, batch, received, closed>>
          /\ peer = "other"
      BY <1>7 DEF ForeignByte, senderVars, receiverVars
    <2>2. PICK b \in Byte : stream' = Append(stream, b)
      BY <1>7 DEF ForeignByte
    <2>3. stream' = stream \o <<b>> /\ <<b>> \in Seq(Byte)
      <3>1. stream \in Seq(Byte)
        BY <1>1 DEF TypeOK
      <3> QED
        BY <2>2, <3>1, AppendIsConcat
    <2>4. buf' = buf
      BY <2>1, <2>3, <1>1, StreamGrows
    <2>5. Drained'
      BY <2>1, <2>4, <1>2 DEF Drained
    <2> QED
      BY <2>1, <2>5, <1>1, <1>4 DEF FramingInv
  <1>8. CASE Read
    <2>1. /\ UNCHANGED <<peer, sent, stream, nparsed, batch, received, closed>>
          /\ parsing' = TRUE
      BY <1>8 DEF Read, senderVars
    <2> QED
      BY <2>1, <1>1, <1>3, <1>4
         DEF FramingInv, Drained, StreamIsFrames, ParsedIsPrefix, Start
  <1>9. CASE ParseNeedMoreData
    <2>1. /\ UNCHANGED <<peer, sent, stream, nread, nparsed, closed>>
          /\ received' = received \o batch /\ batch' = <<>>
          /\ ~Rejects(buf) /\ ~Complete(buf)
      BY <1>9 DEF ParseNeedMoreData, senderVars, HandedOn
    <2>2. Drained'
      BY <2>1 DEF Drained, buf
    <2>3. received' \o batch' = received \o batch
      <3>1. received \o batch \in Seq(Packet)
        BY <1>1 DEF TypeOK
      <3> QED
        BY <3>1, <2>1, ConcatEmptySeq
    <2>4. ASSUME peer = "client"
          PROVE  StreamIsFrames' /\ ParsedIsPrefix' /\ ~closed'
      BY <2>1, <2>3, <2>4, <1>3 DEF StreamIsFrames, ParsedIsPrefix, Start
    <2> QED
      BY <2>1, <2>2, <2>4, <1>1, <1>4 DEF FramingInv
  <1>10. CASE ParseRejected
    <2>1. UNCHANGED <<peer, sent>> /\ closed' = TRUE /\ Rejects(buf)
      BY <1>10 DEF ParseRejected, senderVars
    <2>2. peer # "client"
      BY <2>1, <1>1, <1>3, TurnFinds
    <2> QED
      BY <2>1, <2>2, <1>1, <1>4 DEF FramingInv, Drained
  <1>11. CASE ParseDone
    <2>1. UNCHANGED <<peer, sent, stream, nread, closed>>
      BY <1>11 DEF ParseDone, senderVars
    <2>2. Drained'
      <3>1. CASE nparsed' = nread
        <4>1. batch' = <<>>
          BY <1>11, <3>1 DEF ParseDone
        <4>2. buf' = <<>>
          <5>1. nparsed' + 1 \in Int /\ nread' \in Int /\ nread' < nparsed' + 1
            BY <2>1, <3>1, <1>1 DEF TypeOK
          <5> QED
            BY <5>1, SubSeqEmpty DEF buf
        <4> QED
          BY <4>1, <4>2 DEF Drained, Rejects, Complete, HasHeader
      <3>2. CASE nparsed' # nread
        BY <1>11, <3>2 DEF ParseDone, Drained
      <3> QED
        BY <3>1, <3>2
    <2>3. ASSUME peer = "client"
          PROVE  StreamIsFrames' /\ ParsedIsPrefix' /\ ~closed'
      <3>1. ParsedIsPrefix'
        BY <2>3, <1>1, <1>3, <1>11, ParsedNext
      <3>2. StreamIsFrames'
        BY <2>1, <2>3, <1>3 DEF StreamIsFrames, Start
      <3> QED
        BY <3>1, <3>2, <2>1, <2>3, <1>3
    <2> QED
      BY <2>1, <2>2, <2>3, <1>1, <1>4 DEF FramingInv
  <1>12. CASE UNCHANGED vars
    BY <1>12, <1>1, <1>2, <1>3, <1>4
       DEF FramingInv, Drained, StreamIsFrames, ParsedIsPrefix, Start, buf,
           vars, senderVars, receiverVars
  <1> QED
    BY <1>5, <1>6, <1>7, <1>8, <1>9, <1>10, <1>11, <1>12 DEF Next, ParseTurn

(***************************************************************************)
(* Theorems                                                                *)
(***************************************************************************)

\* The inductive invariant: the stream is the frames of the packets sent, the
\* receiver stands between two of them, and no frame waits between two runs
\* of ParseAvailable.
THEOREM FramingInvariant == Spec => []FramingInv
  <1>1. Init => FramingInv
    BY InvInit
  <1>2. FramingInv /\ [Next]_vars => FramingInv'
    BY InvStep
  <1> QED
    BY <1>1, <1>2, PTL DEF Spec

\* Every variable keeps its type, whoever sends: what Unmarshal returns for
\* any bytes is a packet, and it consumes no more than the buffer holds.
THEOREM FramingTypes == Spec => []TypeOK
  <1>1. FramingInv => TypeOK
    BY DEF FramingInv
  <1> QED
    BY <1>1, FramingInvariant, PTL

\* ParseAvailable never rejects what Marshal wrote, at no cut of it.
THEOREM ClientNeverRejected == Spec => []NeverRejected
  <1>1. FramingInv => NeverRejected
    BY DEF FramingInv, NeverRejected
  <1> QED
    BY <1>1, FramingInvariant, PTL

\* A packet whose last byte was read is handed on before ParseAvailable
\* returns.
THEOREM NothingWaits == Spec => []NoneWaits
  <1>1. FramingInv => NoneWaits
    <2> SUFFICES ASSUME FramingInv, ~parsing,
                        NEW i \in DOMAIN sent, sent[i].end <= nread
                 PROVE  i <= Len(received)
      BY DEF NoneWaits
    <2>1. peer = "client"
      BY DEF FramingInv, TypeOK
    <2>2. TypeOK /\ StreamIsFrames /\ ParsedIsPrefix /\ ~closed
      BY <2>1 DEF FramingInv
    <2>3. batch = <<>> /\ ~Complete(buf)
      BY <2>2 DEF FramingInv, Drained
    <2>4. ~(Turn <= Len(sent) /\ sent[Turn].end <= nread)
      BY <2>2, <2>3, TurnFinds
    <2>5. Turn = Len(received) + 1 /\ Len(received) \in Nat
      <3>1. received \in Seq(Packet)
        BY <2>2 DEF TypeOK
      <3> QED
        BY <3>1, <2>3, ConcatEmptySeq DEF Turn
    <2>6. Len(sent) \in Nat /\ i \in 1..Len(sent)
      BY <2>2 DEF TypeOK
    <2>7. sent[i].end \in Nat /\ nread \in Nat
      BY <2>2, <2>6, Ends DEF TypeOK
    <2>8. SUFFICES ASSUME i > Len(received)
                   PROVE  FALSE
      BY <2>5, <2>6
    <2>9. Turn \in 1..Len(sent)
      BY <2>5, <2>6, <2>8
    <2>10. sent[Turn].end \in Nat /\ sent[Turn].end > nread
      <3>1. sent[Turn].end \in Nat
        BY <2>2, <2>9, Ends
      <3>2. Turn <= Len(sent)
        BY <2>6, <2>9
      <3> QED
        BY <3>1, <3>2, <2>4, <2>7
    <2>11. CASE i = Turn
      BY <2>11, <2>10, <2>7
    <2>12. CASE Turn < i
      <3>1. sent[Turn].end < sent[i].end
        BY <2>2, <2>6, <2>9, <2>12 DEF StreamIsFrames
      <3> QED
        BY <3>1, <2>7, <2>10
    <2>13. i = Turn \/ Turn < i
      BY <2>5, <2>6, <2>8
    <2> QED
      BY <2>11, <2>12, <2>13
  <1> QED
    BY <1>1, FramingInvariant, PTL

\* Whoever sends, the inbound buffer never holds a longest frame's worth of
\* bytes between two events.
THEOREM BufferIsBounded == Spec => []BufferBounded
  <1>1. FramingInv => BufferBounded
    <2> SUFFICES ASSUME FramingInv, ~parsing, ~closed
                 PROVE  Len(buf) < 5 + MaxAddr + MaxUint16
      BY DEF BufferBounded
    <2>1. buf \in Seq(Byte) /\ Len(buf) \in Nat
      <3>1. buf \in Seq(Byte)
        BY BufIs DEF FramingInv
      <3> QED
        BY <3>1
    <2>2. ~Rejects(buf) /\ ~Complete(buf)
      BY DEF FramingInv, Drained
    <2>3. MaxAddr \in Nat /\ MaxUint16 \in Nat
      <3>1. Base \in Nat /\ Base >= 2 /\ Base * Base \in Nat /\ Base * Base >= 2
        <4>1. Base \in Nat /\ Base >= 2
          BY FramingAssumption
        <4> QED
          BY <4>1
      <3> QED
        BY <3>1 DEF MaxAddr, MaxUint16
    <2>4. CASE buf = <<>>
      <3>1. Len(buf) = 0
        BY <2>4
      <3> QED
        BY <3>1, <2>3
    <2>5. CASE HasHeader(buf)
      <3> DEFINE l == Len(buf)
                 h == AddrLen(buf)
                 n == PayloadLen(buf)
      <3>1. h \in 0..MaxAddr /\ n \in 0..MaxUint16
        BY <2>1, <2>5, HeaderFields
      <3>2. ~(5 + h + n <= l)
        BY <2>2, <2>5 DEF Rejects, Complete, FrameLen, HeaderLen
      <3> HIDE DEF l, h, n
      <3>3. l \in Nat
        BY <2>1 DEF l
      <3>4. l < 5 + MaxAddr + MaxUint16
        BY <3>1, <3>2, <3>3, <2>3
      <3> QED
        BY <3>4 DEF l
    <2>6. CASE buf # <<>> /\ ~HasHeader(buf)
      <3> DEFINE l == Len(buf)
                 h == AddrLen(buf)
      <3>1. ~(5 + h <= l)
        BY <2>2, <2>6 DEF Rejects, HasHeader, HeaderLen
      <3>2. h \in 0..MaxAddr
        <4>1. 1 \in 1..Len(buf)
          BY <2>1, <2>6, EmptySeq
        <4>2. buf[1] \in Byte
          BY <2>1, <4>1, ElementOfSeq
        <4> QED
          BY <4>2 DEF AddrLen, Byte, MaxAddr
      <3> HIDE DEF l, h
      <3>3. l \in Nat
        BY <2>1 DEF l
      <3>4. l < 5 + MaxAddr + MaxUint16
        BY <3>1, <3>2, <3>3, <2>3
      <3> QED
        BY <3>4 DEF l
    <2> QED
      BY <2>4, <2>5, <2>6
  <1> QED
    BY <1>1, FramingInvariant, PTL

(***************************************************************************)
(* Framing implements PacketPipe                                           *)
(***************************************************************************)
PutIn == [i \in DOMAIN sent |-> sent[i].pkt]

GotOut == IF peer = "client" THEN received ELSE <<>>

\* The packets that went in are as many as were sent, each in its place.
LEMMA PutInIs ==
  ASSUME TypeOK, StreamIsFrames
  PROVE  /\ PutIn \in Seq(SendablePacket) /\ Len(PutIn) = Len(sent)
         /\ \A i \in 1..Len(sent) : PutIn[i] = sent[i].pkt
  <1>1. DOMAIN sent = 1..Len(sent) /\ Len(sent) \in Nat
    BY DEF TypeOK
  <1>2. \A i \in 1..Len(sent) : sent[i].pkt \in SendablePacket
    BY Ends
  <1> DEFINE n == Len(sent)
  <1>3. PutIn = [i \in 1..n |-> sent[i].pkt]
    BY <1>1 DEF PutIn
  <1> HIDE DEF n
  <1>4. n \in Nat /\ \A i \in 1..n : sent[i].pkt \in SendablePacket
    BY <1>1, <1>2 DEF n
  <1>5. PutIn \in [1..n -> SendablePacket]
    BY <1>3, <1>4
  <1>6. PutIn \in Seq(SendablePacket)
    BY <1>4, <1>5
  <1>7. DOMAIN PutIn = 1..n
    BY <1>5
  <1>8. Len(PutIn) = n
    BY <1>4, <1>6, <1>7, LenProperties
  <1>9. \A i \in 1..n : PutIn[i] = sent[i].pkt
    BY <1>3
  <1> QED
    BY <1>6, <1>8, <1>9 DEF n

\* The same after a step.
LEMMA PutInLater ==
  TypeOK' /\ StreamIsFrames' =>
    /\ PutIn' \in Seq(SendablePacket) /\ Len(PutIn') = Len(sent')
    /\ \A i \in 1..Len(sent') : PutIn'[i] = sent'[i].pkt
  <1> DEFINE Is == /\ PutIn \in Seq(SendablePacket) /\ Len(PutIn) = Len(sent)
                   /\ \A i \in 1..Len(sent) : PutIn[i] = sent[i].pkt
  <1>1. TypeOK /\ StreamIsFrames => Is
    BY PutInIs
  <1>2. (TypeOK /\ StreamIsFrames => Is)'
    BY <1>1, PTL
  <1> QED
    BY <1>2

\* The first packets that went in, when the receiver has as many.
LEMMA PrefixOut ==
  ASSUME TypeOK, StreamIsFrames, NEW r \in Seq(Packet), Len(r) <= Len(sent),
         \A i \in 1..Len(r) : r[i] = sent[i].pkt
  PROVE  r = SubSeq(PutIn, 1, Len(r))
  <1>1. /\ PutIn \in Seq(SendablePacket) /\ Len(PutIn) = Len(sent)
        /\ \A i \in 1..Len(sent) : PutIn[i] = sent[i].pkt
    BY PutInIs
  <1> DEFINE k == Len(r)
  <1>2. k \in Nat /\ Len(sent) \in Nat /\ k <= Len(sent)
    BY Ends
  <1> HIDE DEF k
  <1>3. \A i \in 1..k : i \in 1..Len(sent)
    BY <1>2
  <1>4. \A i \in 1..k : PutIn[i] \in Packet
    BY <1>1, <1>3, Ends DEF SendablePacket
  <1>5. 1 \in Int /\ k \in Int
    BY <1>2
  <1>6. /\ SubSeq(PutIn, 1, k) \in Seq(Packet)
        /\ Len(SubSeq(PutIn, 1, k)) = IF 1 <= k THEN k - 1 + 1 ELSE 0
        /\ \A i \in 1..(k - 1 + 1) : SubSeq(PutIn, 1, k)[i] = PutIn[1 + i - 1]
    BY <1>4, <1>5, SubSeqProperties
  <1>7. Len(SubSeq(PutIn, 1, k)) = k
    BY <1>2, <1>6
  <1>8. \A i \in 1..k : i \in 1..(k - 1 + 1) /\ 1 + i - 1 = i
    BY <1>2
  <1>9. \A i \in 1..k : SubSeq(PutIn, 1, k)[i] = r[i]
    BY <1>1, <1>3, <1>6, <1>8 DEF k
  <1>10. Len(r) = k
    BY DEF k
  <1>11. SubSeq(PutIn, 1, k) = r
    BY <1>6, <1>7, <1>9, <1>10, SeqEqual
  <1> QED
    BY <1>11 DEF k

\* A step of the connection is a Put, a Get, or nothing.
LEMMA PipeStep ==
  ASSUME FramingInv, FramingInv', [Next]_vars
  PROVE  \/ /\ PutIn' \in Seq(SendablePacket)
            /\ Len(PutIn') = Len(PutIn) + 1
            /\ SubSeq(PutIn', 1, Len(PutIn)) = PutIn
            /\ GotOut' = GotOut
         \/ /\ \E n \in (Len(GotOut) + 1)..Len(PutIn) : GotOut' = SubSeq(PutIn, 1, n)
            /\ PutIn' = PutIn
         \/ PutIn' = PutIn /\ GotOut' = GotOut
  <1>1. TypeOK /\ TypeOK'
    BY DEF FramingInv
  <1>2. ASSUME UNCHANGED <<peer, sent, received>>
        PROVE  PutIn' = PutIn /\ GotOut' = GotOut
    BY <1>2 DEF PutIn, GotOut
  <1>3. ASSUME peer = "other", UNCHANGED <<peer, sent>>
        PROVE  PutIn' = PutIn /\ GotOut' = GotOut
    BY <1>3 DEF PutIn, GotOut
  <1>4. ASSUME peer = "client"
        PROVE  StreamIsFrames /\ ParsedIsPrefix /\ ~closed
    BY <1>4 DEF FramingInv
  <1>5. ASSUME peer = "client", UNCHANGED <<peer, sent>>, received' = received \o batch,
               StreamIsFrames, ParsedIsPrefix
        PROVE  \/ /\ \E n \in (Len(GotOut) + 1)..Len(PutIn) : GotOut' = SubSeq(PutIn, 1, n)
                  /\ PutIn' = PutIn
               \/ PutIn' = PutIn /\ GotOut' = GotOut
    <2> DEFINE r == received \o batch
    <2>1. /\ received \in Seq(Packet) /\ batch \in Seq(Packet) /\ r \in Seq(Packet)
          /\ Len(received) \in Nat /\ Len(batch) \in Nat /\ Len(r) = Len(received) + Len(batch)
      BY <1>1 DEF TypeOK
    <2>2. Len(r) <= Len(sent) /\ \A i \in 1..Len(r) : r[i] = sent[i].pkt
      <3>1. Len(r) <= Len(sent) /\ \A i \in DOMAIN r : r[i] = sent[i].pkt
        BY <1>5, Zenon DEF ParsedIsPrefix
      <3>2. DOMAIN r = 1..Len(r)
        BY <2>1, LenProperties
      <3> HIDE DEF r
      <3> QED
        BY <3>1, <3>2
    <2>3. r = SubSeq(PutIn, 1, Len(r))
      BY <1>1, <1>5, <2>1, <2>2, PrefixOut
    <2>4. Len(PutIn) = Len(sent) /\ Len(sent) \in Nat
      BY <1>1, <1>5, PutInIs, Ends
    <2>5. GotOut = received /\ GotOut' = r /\ PutIn' = PutIn
      BY <1>5 DEF GotOut, PutIn
    <2>6. CASE Len(batch) = 0
      <3>1. batch = <<>>
        BY <2>1, <2>6, EmptySeq
      <3> QED
        BY <3>1, <2>1, <2>5, ConcatEmptySeq
    <2>7. CASE Len(batch) > 0
      <3>1. Len(r) \in (Len(received) + 1)..Len(sent)
        BY <2>1, <2>2, <2>4, <2>7
      <3> QED
        BY <3>1, <2>3, <2>4, <2>5
    <2> QED
      BY <2>1, <2>6, <2>7
  <1>6. CASE UserSends
    BY <1>6, <1>2 DEF UserSends, receiverVars
  <1>7. CASE ClientPacket
    <2>1. UNCHANGED <<peer, received>> /\ peer = "client" /\ peer' = "client"
      BY <1>7 DEF ClientPacket, receiverVars
    <2>2. CASE UNCHANGED <<stream, sent>>
      BY <2>1, <2>2, <1>2
    <2>3. CASE \E pkt \in SendablePacket :
                 /\ stream' = stream \o Marshal(pkt)
                 /\ sent' = Append(sent, [pkt |-> pkt, end |-> Len(stream')])
      <3>1. PICK pkt \in SendablePacket :
                 sent' = Append(sent, [pkt |-> pkt, end |-> Len(stream')])
        BY <2>3
      <3>2. StreamIsFrames /\ StreamIsFrames'
        BY <2>1 DEF FramingInv
      <3>3. /\ PutIn \in Seq(SendablePacket) /\ Len(PutIn) = Len(sent)
            /\ \A i \in 1..Len(sent) : PutIn[i] = sent[i].pkt
        BY <1>1, <3>2, PutInIs
      <3>4. /\ PutIn' \in Seq(SendablePacket) /\ Len(PutIn') = Len(sent')
            /\ \A i \in 1..Len(sent') : PutIn'[i] = sent'[i].pkt
        BY <1>1, <3>2, PutInLater
      <3>5. /\ Len(sent) \in Nat /\ Len(sent') = Len(sent) + 1
            /\ \A i \in 1..Len(sent) : sent'[i] = sent[i]
        <4>1. sent \in Seq([pkt : Packet, end : Nat])
          BY <1>1 DEF TypeOK
        <4> QED
          BY <3>1, <4>1
      <3>6. SubSeq(PutIn', 1, Len(PutIn)) = PutIn
        <4> DEFINE a == PutIn
                   b == PutIn'
                   n == Len(sent)
        <4>1. a \in Seq(SendablePacket) /\ b \in Seq(SendablePacket) /\ Len(a) = n /\ Len(b) = n + 1 /\ n \in Nat
          BY <3>3, <3>4, <3>5
        <4>2. \A i \in 1..n : b[i] = a[i]
          <5>1. \A i \in 1..n : i \in 1..Len(sent')
            BY <3>5
          <5> QED
            BY <5>1, <3>3, <3>4, <3>5
        <4> HIDE DEF a, b, n
        <4>3. SubSeq(b, 0 + 1, 0 + Len(a)) = a
          <5>1. \A i \in (0 + 1)..(0 + Len(a)) : b[i] = a[i - 0]
            BY <4>1, <4>2
          <5>2. 0 + Len(a) <= Len(b)
            BY <4>1
          <5> QED
            BY <4>1, <5>1, <5>2, SliceIs
        <4>4. SubSeq(b, 1, Len(a)) = a
          BY <4>1, <4>3
        <4> QED
          BY <4>4 DEF a, b
      <3>7. GotOut' = GotOut
        BY <2>1 DEF GotOut
      <3> QED
        BY <3>3, <3>4, <3>5, <3>6, <3>7
    <2> QED
      BY <2>2, <2>3, <1>1, <1>7, ClientPacketIs
  <1>8. CASE ForeignByte
    BY <1>8, <1>2 DEF ForeignByte, senderVars, receiverVars
  <1>9. CASE Read
    BY <1>9, <1>2 DEF Read, senderVars
  <1>10. CASE ParseNeedMoreData
    <2>1. UNCHANGED <<peer, sent>> /\ received' = received \o batch
      BY <1>10 DEF ParseNeedMoreData, HandedOn, senderVars
    <2>2. CASE peer = "client"
      BY <2>1, <2>2, <1>4, <1>5
    <2>3. CASE peer = "other"
      BY <2>1, <2>3, <1>3
    <2> QED
      BY <2>2, <2>3, <1>1 DEF TypeOK
  <1>11. CASE ParseRejected
    BY <1>11, <1>2 DEF ParseRejected, senderVars
  <1>12. CASE ParseDone
    <2>1. UNCHANGED <<peer, sent>>
      BY <1>12 DEF ParseDone, senderVars
    <2>2. CASE peer = "other"
      BY <2>1, <2>2, <1>3
    <2>3. CASE peer = "client" /\ received' = received
      BY <2>1, <2>3, <1>2
    <2>4. CASE peer = "client" /\ received' # received
      <3>1. received' = received \o Append(batch, Decoded(buf)) /\ batch' = <<>>
        BY <1>12, <2>4 DEF ParseDone
      <3>2. StreamIsFrames' /\ ParsedIsPrefix'
        BY <2>1, <2>4 DEF FramingInv
      <3> DEFINE r == received'
      <3>3. r \in Seq(Packet) /\ Len(r) \in Nat /\ r \o <<>> = r
        BY <1>1, ConcatEmptySeq DEF TypeOK
      <3>4. /\ Len(r) <= Len(sent) /\ \A i \in 1..Len(r) : r[i] = sent[i].pkt
        <4>1. (received \o batch)' = r
          BY <3>1, <3>3
        <4>2. /\ Len((received \o batch)') <= Len(sent)
              /\ \A i \in DOMAIN (received \o batch)' : (received \o batch)'[i] = sent[i].pkt
          BY <2>1, <3>2 DEF ParsedIsPrefix
        <4>3. DOMAIN r = 1..Len(r)
          BY <3>3
        <4> QED
          BY <4>1, <4>2, <4>3
      <3>5. TypeOK /\ StreamIsFrames
        BY <1>1, <1>4, <2>4
      <3>6. r = SubSeq(PutIn, 1, Len(r))
        <4> HIDE DEF r
        <4> QED
          BY <3>3, <3>4, <3>5, PrefixOut
      <3>7. Len(PutIn) = Len(sent) /\ Len(sent) \in Nat
        BY <3>5, PutInIs, Ends
      <3>8. Len(received) \in Nat /\ Len(received) < Len(r)
        <4>1. received \in Seq(Packet) /\ batch \in Seq(Packet) /\ Decoded(buf) \in Packet
          <5>1. buf \in Seq(Byte) /\ Complete(buf)
            BY <1>1, <1>12, BufIs DEF ParseDone
          <5> QED
            BY <1>1, <5>1, DecodedPacket DEF TypeOK
        <4> DEFINE p == Decoded(buf)
        <4> HIDE DEF p
        <4>2. Len(received \o Append(batch, p)) = Len(received) + Len(batch) + 1
          BY <4>1 DEF p
        <4>3. Len(received) \in Nat /\ Len(batch) \in Nat
          BY <4>1
        <4>4. Len(r) = Len(received) + Len(batch) + 1
          BY <3>1, <4>2 DEF p
        <4> HIDE DEF r
        <4> QED
          BY <4>3, <4>4
      <3>9. GotOut = received /\ GotOut' = r /\ PutIn' = PutIn
        BY <2>1, <2>4 DEF GotOut, PutIn
      <3> HIDE DEF r
      <3>10. Len(r) \in (Len(received) + 1)..Len(sent)
        BY <3>3, <3>4, <3>7, <3>8
      <3> QED
        BY <3>6, <3>7, <3>9, <3>10
    <2> QED
      BY <2>2, <2>3, <2>4, <1>1 DEF TypeOK
  <1>13. CASE UNCHANGED vars
    BY <1>13, <1>2 DEF vars, senderVars, receiverVars
  <1> QED
    BY <1>6, <1>7, <1>8, <1>9, <1>10, <1>11, <1>12, <1>13 DEF Next, ParseTurn

\* Over a byte stream cut anywhere, the packets come out as they went in, in
\* order, each once, with their destinations.
THEOREM PipeIsImplemented == Spec => PipeImplemented
  <1>1. Init => Pipe!Init
    <2> SUFFICES ASSUME Init PROVE Pipe!Init
      OBVIOUS
    <2>1. [i \in DOMAIN sent |-> sent[i].pkt] = <<>>
      BY DEF Init
    <2> QED
      BY <2>1 DEF Init, Pipe!Init
  <1>2. FramingInv /\ FramingInv' /\ [Next]_vars => [Pipe!Next]_(Pipe!pipeVars)
    <2> SUFFICES ASSUME FramingInv, FramingInv', [Next]_vars
                 PROVE  [Pipe!Next]_(Pipe!pipeVars)
      OBVIOUS
    <2> QED
      BY PipeStep
         DEF PutIn, GotOut, SendablePacket, Pipe!Next, Pipe!Put, Pipe!Get, Pipe!pipeVars
  <1> QED
    BY <1>1, <1>2, FramingInvariant, PTL DEF Spec, PipeImplemented, Pipe!Spec

(***************************************************************************)
(* The user's bytes                                                        *)
(***************************************************************************)

\* The payloads a client cuts from what its user sends are, put together,
\* what it has taken of it: nothing skipped or repeated, however much is
\* peeked and wherever a payload exceeds a frame (forwarder.go:132).
THEOREM UserBytesAreKept == Spec => []UserBytesKept
  <1>1. Init => UserBytesKept
    <2> SUFFICES ASSUME Init PROVE UserBytesKept
      OBVIOUS
    <2>1. pieces = <<>> /\ given = <<>> /\ ntaken = 0
      BY DEF Init
    <2>2. FlattenSeq(<<>>) = <<>>
      BY DEF FlattenSeq
    <2>3. SubSeq(given, 1, 0) = <<>>
      BY SubSeqEmpty
    <2> QED
      BY <2>1, <2>2, <2>3 DEF UserBytesKept
  <1>2. TypeOK /\ UserBytesKept /\ [Next]_vars => UserBytesKept'
    <2> SUFFICES ASSUME TypeOK, UserBytesKept, [Next]_vars
                 PROVE  UserBytesKept'
      OBVIOUS
    <2>1. /\ given \in Seq(Byte) /\ pieces \in Seq(Seq(Byte)) /\ Len(given) \in Nat
          /\ ntaken \in 0..Len(given)
          /\ FlattenSeq(pieces) = SubSeq(given, 1, ntaken)
      BY DEF TypeOK, UserBytesKept
    <2>2. CASE UserSends
      <3>1. PICK b \in UserBytes : given' = Append(given, b)
        BY <2>2 DEF UserSends
      <3>2. UNCHANGED <<ntaken, pieces>> /\ <<b>> \in Seq(Byte)
        BY <2>2, FramingAssumption DEF UserSends
      <3>3. given' = given \o <<b>>
        BY <2>1, <3>1, <3>2, AppendIsConcat, FramingAssumption
      <3>4. SubSeq(given', 1, ntaken) = SubSeq(given, 1, ntaken)
        BY <2>1, <3>2, <3>3, FrontKept
      <3> QED
        BY <2>1, <3>2, <3>4 DEF UserBytesKept
    <2>3. CASE ClientPacket
      <3> DEFINE cut(n) == SubSeq(given, ntaken + 1, ntaken + Cut(n))
      <3>1. PICK n \in Peeked : ntaken' = ntaken + Discarded(n) /\ pieces' = Append(pieces, cut(n))
        BY <2>3 DEF ClientPacket
      <3>2. given' = given
        BY <2>3 DEF ClientPacket
      <3>3. ntaken \in Nat /\ n \in Nat /\ ntaken + n <= Len(given)
        BY <2>1 DEF Peeked
      <3>4. MaxUint16 \in Nat
        BY FramingAssumption DEF MaxUint16
      <3>5. Cut(n) \in Nat /\ Cut(n) <= n
        BY <3>3, <3>4 DEF Cut
      <3>6. PICK e \in ntaken..Len(given) : e = ntaken + Cut(n)
        BY <2>1, <3>3, <3>5
      <3>7. ntaken' = e /\ pieces' = Append(pieces, SubSeq(given, ntaken + 1, e))
        BY <3>1, <3>6 DEF Discarded
      <3>8. SubSeq(given, ntaken + 1, e) \in Seq(Byte)
        <4>1. \A i \in (ntaken + 1)..e : i \in 1..Len(given)
          BY <2>1, <3>3
        <4>2. \A i \in (ntaken + 1)..e : given[i] \in Byte
          BY <2>1, <4>1, ElementOfSeq
        <4>3. ntaken + 1 \in Int /\ e \in Int
          BY <3>3
        <4> QED
          BY <4>2, <4>3, SubSeqProperties
      <3>9. FlattenSeq(pieces') = FlattenSeq(pieces) \o SubSeq(given, ntaken + 1, e)
        BY <2>1, <3>7, <3>8, FlattenAppend
      <3>10. SubSeq(given, 1, ntaken) \o SubSeq(given, ntaken + 1, e) = SubSeq(given, 1, e)
        BY <2>1, FrontNext
      <3> QED
        BY <2>1, <3>2, <3>7, <3>9, <3>10 DEF UserBytesKept
    <2>4. CASE UNCHANGED <<given, ntaken, pieces>>
      BY <2>4 DEF UserBytesKept
    <2> QED
      BY <2>2, <2>3, <2>4
         DEF Next, ParseTurn, ForeignByte, Read, ParseNeedMoreData, ParseRejected, ParseDone,
             vars, senderVars
  <1>3. FramingInv => TypeOK
    BY DEF FramingInv
  <1> QED
    BY <1>1, <1>2, <1>3, FramingInvariant, PTL DEF Spec

(***************************************************************************)
(* Any peer                                                                *)
(***************************************************************************)

\* What Unmarshal takes for a packet is a frame: Marshal accepts the packet
\* and writes the very bytes consumed (forward.go: Marshal against Unmarshal,
\* the other way round than FrameDecides).
THEOREM FrameKept ==
  ASSUME NEW b \in Seq(Byte), Complete(b)
  PROVE  /\ Decoded(b) \in SendablePacket
         /\ Marshal(Decoded(b)) = SubSeq(b, 1, FrameLen(b))
  <1> DEFINE h == AddrLen(b)
             n == PayloadLen(b)
             l == Len(b)
             p == Decoded(b)
             m == Marshal(p)
  <1>1. Base \in Nat /\ Base >= 2 /\ l \in Nat
    BY FramingAssumption
  <1>2. \A i \in 1..l : b[i] \in 0..(Base - 1)
    BY ElementOfSeq DEF Byte
  <1>3. b # <<>> /\ h # 0 /\ 5 + h <= l /\ 5 + h + n <= l /\ Port(b) # 0
    BY DEF Complete, HasHeader, HeaderLen, FrameLen
  <1>4. h \in 0..MaxAddr /\ Port(b) \in 0..MaxUint16 /\ n \in 0..MaxUint16
    BY HeaderFields DEF Complete
  <1>5. MaxUint16 \in Nat /\ MaxAddr \in Nat
    BY <1>1 DEF MaxUint16, MaxAddr
  <1>6. h \in Nat /\ n \in Nat
    BY <1>4, <1>5
  <1>7. FrameLen(b) = 5 + h + n /\ HeaderLen(b) = 5 + h
    BY DEF FrameLen, HeaderLen
  <1>8. /\ p.addr = SubSeq(b, 2, 1 + h) /\ p.port = Port(b)
        /\ p.payload = SubSeq(b, 5 + h + 1, 5 + h + n)
    BY <1>7 DEF Decoded
  <1>9. p \in Packet
    BY DecodedPacket
  <1>10. /\ b[1] = h
         /\ Port(b) = b[2 + h] * Base + b[3 + h]
         /\ n = b[4 + h] * Base + b[5 + h]
    BY DEF AddrLen, Port, PayloadLen, Uint16
  <1> HIDE DEF h, n, l, p
  <1>11. /\ Len(p.addr) = h
         /\ \A i \in 1..h : p.addr[i] = b[1 + i]
    <2>1. PICK k \in Nat : k = 1
      OBVIOUS
    <2>2. h \in Nat /\ k + h <= Len(b)
      BY <2>1, <1>1, <1>3, <1>6 DEF l
    <2>3. p.addr = SubSeq(b, k + 1, k + h)
      BY <2>1, <1>8
    <2>4. \A i \in 1..h : p.addr[i] = b[k + i]
      BY <2>2, <2>3, SliceElements
    <2> QED
      BY <2>1, <2>2, <2>3, <2>4, SliceElements
  <1>12. /\ Len(p.payload) = n
         /\ \A i \in 1..n : p.payload[i] = b[5 + h + i]
    <2>1. PICK k \in Nat : k = 5 + h
      BY <1>6
    <2>2. n \in Nat /\ k + n <= Len(b)
      BY <2>1, <1>1, <1>3, <1>6 DEF l
    <2>3. p.payload = SubSeq(b, k + 1, k + n)
      BY <2>1, <1>8
    <2>4. Len(p.payload) = n /\ \A i \in 1..n : p.payload[i] = b[k + i]
      BY <2>2, <2>3, SliceElements
    <2>5. \A i \in 1..n : k + i = 5 + h + i
      BY <2>1
    <2> QED
      BY <2>4, <2>5
  <1>13. p \in SendablePacket
    <2>1. p.addr \in Seq(Byte)
      BY <1>9 DEF Packet
    <2>2. p.addr # <<>>
      BY <1>3, <1>11
    <2>3. Len(p.addr) <= MaxAddr /\ Len(p.payload) <= MaxUint16 /\ p.port # 0
      BY <1>3, <1>4, <1>5, <1>6, <1>8, <1>11, <1>12
    <2> QED
      BY <2>2, <2>3, <1>9 DEF SendablePacket, Sendable
  <1>14. /\ m \in Seq(Byte) /\ Len(m) = 5 + h + n
         /\ m[1] = h
         /\ \A i \in 2..(1 + h) : m[i] = p.addr[i - 1]
         /\ m[2 + h] = Port(b) \div Base
         /\ m[3 + h] = Port(b) % Base
         /\ m[4 + h] = n \div Base
         /\ m[5 + h] = n % Base
         /\ \A i \in (6 + h)..(5 + h + n) : m[i] = p.payload[i - (5 + h)]
    BY <1>8, <1>11, <1>12, <1>13, MarshalBytes
  <1>15. ASSUME NEW hi \in 0..(Base - 1), NEW lo \in 0..(Base - 1)
         PROVE  (hi * Base + lo) \div Base = hi /\ (hi * Base + lo) % Base = lo
    BY <1>1
  <1>16. /\ b[2 + h] \in 0..(Base - 1) /\ b[3 + h] \in 0..(Base - 1)
         /\ b[4 + h] \in 0..(Base - 1) /\ b[5 + h] \in 0..(Base - 1)
    <2>1. 2 + h \in 1..l /\ 3 + h \in 1..l /\ 4 + h \in 1..l /\ 5 + h \in 1..l
      BY <1>1, <1>3, <1>6
    <2> QED
      BY <2>1, <1>2
  <1> HIDE DEF m
  <1>17. m[2 + h] = b[2 + h] /\ m[3 + h] = b[3 + h]
    BY <1>10, <1>14, <1>15, <1>16
  <1>18. m[4 + h] = b[4 + h] /\ m[5 + h] = b[5 + h]
    BY <1>10, <1>14, <1>15, <1>16
  <1>19. ASSUME NEW i \in 1..(5 + h + n)
         PROVE  b[i] = m[i]
    <2>1. CASE i = 1
      BY <2>1, <1>10, <1>14
    <2>2. CASE i \in 2..(1 + h)
      <3>1. i - 1 \in 1..h /\ 1 + (i - 1) = i
        BY <2>2, <1>6
      <3> QED
        BY <2>2, <3>1, <1>11, <1>14
    <2>3. CASE i \in (2 + h)..(5 + h)
      <3>1. i = 2 + h \/ i = 3 + h \/ i = 4 + h \/ i = 5 + h
        BY <2>3, <1>6
      <3> QED
        BY <3>1, <1>17, <1>18
    <2>4. CASE i \in (6 + h)..(5 + h + n)
      <3>1. i - (5 + h) \in 1..n /\ 5 + h + (i - (5 + h)) = i
        BY <2>4, <1>6
      <3> QED
        BY <2>4, <3>1, <1>12, <1>14
    <2> QED
      BY <2>1, <2>2, <2>3, <2>4, <1>6
  <1>20. SubSeq(b, 1, 5 + h + n) = m
    <2>1. 0 + Len(m) <= Len(b)
      BY <1>1, <1>3, <1>6, <1>14 DEF l
    <2>2. \A i \in (0 + 1)..(0 + Len(m)) : b[i] = m[i - 0]
      BY <1>6, <1>14, <1>19
    <2>3. SubSeq(b, 0 + 1, 0 + Len(m)) = m
      BY <2>1, <2>2, <1>14, SliceIs
    <2> QED
      BY <2>3, <1>6, <1>14
  <1> QED
    BY <1>7, <1>13, <1>20 DEF m, p

\* Frames put one after the other.
LEMMA EncodedAppend ==
  ASSUME NEW pkts \in Seq(SendablePacket), NEW p \in SendablePacket
  PROVE  /\ EncodedAll(pkts) \in Seq(Byte)
         /\ EncodedAll(Append(pkts, p)) = EncodedAll(pkts) \o Marshal(p)
  <1> DEFINE n == Len(pkts)
             more == Append(pkts, p)
             f == [i \in DOMAIN pkts |-> Marshal(pkts[i])]
             g == [i \in DOMAIN more |-> Marshal(more[i])]
  <1>1. /\ n \in Nat /\ DOMAIN pkts = 1..n
        /\ \A i \in 1..n : pkts[i] \in SendablePacket
    BY ElementOfSeq
  <1>2. /\ more \in Seq(SendablePacket) /\ Len(more) = n + 1
        /\ \A i \in 1..n : more[i] = pkts[i]
        /\ more[n + 1] = p
    BY AppendProperties
  <1>3. DOMAIN more = 1..(n + 1)
    BY <1>2, LenProperties
  <1> HIDE DEF n, more
  <1>4. f \in Seq(Seq(Byte)) /\ Len(f) = n /\ \A i \in 1..n : f[i] = Marshal(pkts[i])
    <2>1. \A i \in 1..n : Marshal(pkts[i]) \in Seq(Byte)
      BY <1>1, FrameBytes
    <2>2. f = [i \in 1..n |-> Marshal(pkts[i])]
      BY <1>1
    <2>3. f \in [1..n -> Seq(Byte)]
      BY <2>1, <2>2
    <2> HIDE DEF f
    <2>4. f \in Seq(Seq(Byte)) /\ DOMAIN f = 1..n
      BY <2>3, <1>1
    <2>5. Len(f) = n
      BY <2>4, <1>1, LenProperties
    <2> QED
      BY <2>2, <2>4, <2>5
  <1>5. Marshal(p) \in Seq(Byte)
    BY FrameBytes
  <1>6. g = Append(f, Marshal(p))
    <2> DEFINE c == Append(f, Marshal(p))
    <2> HIDE DEF f
    <2>1. /\ c \in Seq(Seq(Byte)) /\ Len(c) = n + 1
          /\ \A i \in 1..n : c[i] = f[i]
          /\ c[n + 1] = Marshal(p)
      BY <1>4, <1>5, AppendProperties
    <2>2. c = [i \in 1..(n + 1) |-> c[i]]
      <3>1. DOMAIN c = 1..(n + 1)
        BY <2>1, LenProperties
      <3> HIDE DEF c
      <3>2. c \in [1..Len(c) -> Seq(Byte)]
        BY <2>1, LenProperties
      <3> QED
        BY <3>2, <2>1
    <2> HIDE DEF c
    <2>3. ASSUME NEW i \in 1..(n + 1)
          PROVE  c[i] = Marshal(more[i])
      <3>1. CASE i \in 1..n
        BY <3>1, <2>1, <1>2, <1>4
      <3>2. CASE i = n + 1
        BY <3>2, <2>1, <1>2
      <3> QED
        BY <3>1, <3>2, <1>1
    <2>4. g = [i \in 1..(n + 1) |-> Marshal(more[i])]
      BY <1>3
    <2>5. g = c
      BY <2>2, <2>3, <2>4
    <2> QED
      BY <2>5 DEF c
  <1> HIDE DEF f, g
  <1>7. FlattenSeq(f) \in Seq(Byte) /\ FlattenSeq(g) = FlattenSeq(f) \o Marshal(p)
    BY <1>4, <1>5, <1>6, FlattenAppend
  <1> QED
    BY <1>7 DEF EncodedAll, f, g, more

\* What was handed on is the front of the stream up to some place, and while
\* the connection is open the packets parsed since lead to the present one.
ReencodesInv ==
  /\ received \in Seq(SendablePacket) /\ batch \in Seq(SendablePacket)
  /\ \E k \in 0..nparsed : EncodedAll(received) = SubSeq(stream, 1, k)
  /\ ~closed => EncodedAll(received \o batch) = SubSeq(stream, 1, nparsed)
  /\ closed => ~parsing

\* What arrives later changes nothing of that.
LEMMA ReencodesLater ==
  ASSUME TypeOK, ReencodesInv, NEW m \in Seq(Byte), stream' = stream \o m,
         UNCHANGED receiverVars
  PROVE  ReencodesInv'
  <1>1. UNCHANGED <<nread, nparsed, parsing, batch, received, closed>>
    BY DEF receiverVars
  <1>2. /\ stream \in Seq(Byte) /\ Len(stream) \in Nat
        /\ nparsed \in Nat /\ nparsed <= Len(stream)
    BY DEF TypeOK
  <1>3. \A k \in 0..nparsed : SubSeq(stream', 1, k) = SubSeq(stream, 1, k)
    <2> SUFFICES ASSUME NEW k \in 0..nparsed
                 PROVE  SubSeq(stream', 1, k) = SubSeq(stream, 1, k)
      OBVIOUS
    <2>1. k \in 0..Len(stream)
      BY <1>2
    <2> QED
      BY <2>1, <1>2, FrontKept
  <1>4. nparsed \in 0..nparsed
    BY <1>2
  <1> QED
    BY <1>1, <1>3, <1>4 DEF ReencodesInv

LEMMA ReencodesStep ==
  ASSUME TypeOK, ReencodesInv, [Next]_vars
  PROVE  ReencodesInv'
  <1>1. /\ received \in Seq(SendablePacket) /\ batch \in Seq(SendablePacket)
        /\ received \o batch \in Seq(SendablePacket)
        /\ <<>> \in Seq(SendablePacket)
    BY ConcatProperties, EmptySeq DEF ReencodesInv
  <1>2. /\ stream \in Seq(Byte) /\ Len(stream) \in Nat /\ nread \in Nat
        /\ nparsed \in Nat /\ nparsed <= nread /\ nread <= Len(stream)
    BY DEF TypeOK
  <1>3. CASE UNCHANGED <<stream, nparsed, parsing, batch, received, closed>>
    BY <1>3 DEF ReencodesInv
  <1>4. CASE ClientPacket
    <2>1. UNCHANGED receiverVars
      BY <1>4 DEF ClientPacket
    <2>2. CASE UNCHANGED <<stream, sent>>
      BY <2>1, <2>2, <1>3 DEF receiverVars
    <2>3. CASE \E pkt \in SendablePacket :
                 /\ stream' = stream \o Marshal(pkt)
                 /\ sent' = Append(sent, [pkt |-> pkt, end |-> Len(stream')])
      BY <2>1, <2>3, FrameBytes, ReencodesLater
    <2> QED
      BY <2>2, <2>3, <1>4, ClientPacketIs
  <1>5. CASE ForeignByte
    <2>1. PICK x \in Byte : stream' = Append(stream, x)
      BY <1>5 DEF ForeignByte
    <2>2. stream' = stream \o <<x>> /\ <<x>> \in Seq(Byte)
      BY <2>1, <1>2, AppendIsConcat
    <2>3. UNCHANGED receiverVars
      BY <1>5 DEF ForeignByte
    <2> QED
      BY <2>2, <2>3, ReencodesLater
  <1>6. CASE ParseNeedMoreData
    <2>1. /\ UNCHANGED <<stream, nparsed, closed>>
          /\ received' = received \o batch /\ batch' = <<>>
      BY <1>6 DEF ParseNeedMoreData, HandedOn
    <2>2. ~closed
      BY <1>6 DEF ParseNeedMoreData, ReencodesInv
    <2>3. nparsed \in 0..nparsed /\ received' \o batch' = received \o batch
      BY <1>1, <1>2, <2>1, ConcatEmptySeq
    <2> QED
      BY <1>1, <2>1, <2>2, <2>3 DEF ReencodesInv
  <1>7. CASE ParseRejected
    BY <1>1, <1>7 DEF ParseRejected, ReencodesInv
  <1>8. CASE ParseDone
    <2>1. /\ parsing /\ Complete(buf) /\ UNCHANGED <<stream, closed>>
          /\ nparsed' = nparsed + FrameLen(buf)
      BY <1>8 DEF ParseDone, Consumed
    <2>2. buf \in Seq(Byte) /\ Len(buf) = nread - nparsed
      BY BufIs
    <2>3. PICK p \in SendablePacket : p = Decoded(buf) /\ Marshal(p) = SubSeq(buf, 1, FrameLen(buf))
      BY <2>1, <2>2, FrameKept
    <2>4. PICK n \in 1..(nread - nparsed) : n = FrameLen(buf)
      BY <2>1, <2>2, DecodedPacket
    <2>5. Marshal(p) = SubSeq(stream, nparsed + 1, nparsed + n)
      <3>1. /\ nparsed + 1 \in 1..Len(stream) /\ nread \in 1..Len(stream)
            /\ 1 \in 1..(nread - (nparsed + 1) + 1) /\ n \in 1..(nread - (nparsed + 1) + 1)
        BY <1>2, <2>4
      <3>2. SubSeq(SubSeq(stream, nparsed + 1, nread), 1, n)
              = SubSeq(stream, nparsed + 1 + 1 - 1, nparsed + 1 + n - 1)
        BY <1>2, <3>1, SubSeqOfSubSeq
      <3>3. nparsed + 1 + 1 - 1 = nparsed + 1 /\ nparsed + 1 + n - 1 = nparsed + n
        BY <1>2, <2>4
      <3> QED
        BY <2>3, <2>4, <3>2, <3>3 DEF buf
    <2>6. SubSeq(stream, 1, nparsed) \o SubSeq(stream, nparsed + 1, nparsed + n)
            = SubSeq(stream, 1, nparsed + n)
      <3>1. nparsed \in 0..Len(stream) /\ nparsed + n \in nparsed..Len(stream)
        BY <1>2, <2>4
      <3> QED
        BY <1>2, <3>1, FrontNext
    <2>7. received \o Append(batch, p) = Append(received \o batch, p)
      <3>1. <<p>> \in Seq(SendablePacket)
        OBVIOUS
      <3>2. /\ Append(batch, p) = batch \o <<p>>
            /\ Append(received \o batch, p) = (received \o batch) \o <<p>>
        BY <1>1, AppendIsConcat
      <3> QED
        BY <1>1, <3>1, <3>2, ConcatAssociative
    <2>8. ~closed
      BY <2>1 DEF ReencodesInv
    <2>9. EncodedAll(received \o Append(batch, p)) = SubSeq(stream, 1, nparsed + n)
      <3>1. EncodedAll(Append(received \o batch, p)) = EncodedAll(received \o batch) \o Marshal(p)
        BY <1>1, EncodedAppend
      <3> QED
        BY <2>5, <2>6, <2>7, <2>8, <3>1 DEF ReencodesInv
    <2>10. /\ nparsed' = nparsed + n /\ nparsed + n \in 0..(nparsed + n)
           /\ \A k \in 0..nparsed : k \in 0..(nparsed + n)
      BY <1>2, <2>1, <2>4
    <2>11. /\ Append(batch, p) \in Seq(SendablePacket)
           /\ received \o Append(batch, p) \in Seq(SendablePacket)
      BY <1>1, AppendProperties, ConcatProperties
    <2>12. CASE nparsed' = nread
      <3>1. received' = received \o Append(batch, p) /\ batch' = <<>>
        BY <1>8, <2>3, <2>12 DEF ParseDone
      <3>2. received' \o batch' = received'
        BY <2>11, <3>1, ConcatEmptySeq
      <3>3. closed' = closed /\ stream' = stream
        BY <2>1
      <3> QED
        BY <1>1, <2>8, <2>9, <2>10, <2>11, <3>1, <3>2, <3>3 DEF ReencodesInv
    <2>13. CASE nparsed' # nread
      <3>1. received' = received /\ batch' = Append(batch, p)
        BY <1>8, <2>3, <2>13 DEF ParseDone
      <3>2. closed' = closed /\ stream' = stream
        BY <2>1
      <3> QED
        BY <1>1, <2>8, <2>9, <2>10, <2>11, <3>1, <3>2 DEF ReencodesInv
    <2> QED
      BY <2>12, <2>13
  <1>9. CASE Read
    BY <1>9 DEF Read, ReencodesInv
  <1> QED
    BY <1>3, <1>4, <1>5, <1>6, <1>7, <1>8, <1>9
       DEF Next, ParseTurn, UserSends, vars, receiverVars

\* What was parsed, encoded again, is the part of the stream consumed, each
\* byte of it in one packet; a connection that was closed for what it sent
\* had handed on the beginning of its stream, cut between two frames.
THEOREM ReencodesAlways == Spec => []Reencodes
  <1>1. Init => ReencodesInv
    <2> SUFFICES ASSUME Init PROVE ReencodesInv
      OBVIOUS
    <2>1. received = <<>> /\ batch = <<>> /\ stream = <<>> /\ nparsed = 0 /\ ~closed
      BY DEF Init
    <2>2. <<>> \in Seq(SendablePacket) /\ <<>> \o <<>> = <<>>
      BY EmptySeq, ConcatEmptySeq
    <2>3. EncodedAll(<<>>) = <<>>
      <3>1. [i \in DOMAIN <<>> |-> Marshal(<<>>[i])] = <<>>
        OBVIOUS
      <3>2. FlattenSeq(<<>>) = <<>>
        BY DEF FlattenSeq
      <3> QED
        BY <3>1, <3>2 DEF EncodedAll
    <2>4. SubSeq(<<>>, 1, 0) = <<>> /\ 0 \in 0..0
      BY SubSeqEmpty
    <2> QED
      BY <2>1, <2>2, <2>3, <2>4 DEF ReencodesInv
  <1>2. TypeOK /\ ReencodesInv /\ [Next]_vars => ReencodesInv'
    BY ReencodesStep
  <1>3. TypeOK /\ ReencodesInv => Reencodes
    <2> SUFFICES ASSUME TypeOK, ReencodesInv PROVE Reencodes
      OBVIOUS
    <2>1. PICK k \in 0..nparsed : EncodedAll(received) = SubSeq(stream, 1, k)
      BY DEF ReencodesInv
    <2>2. stream \in Seq(Byte) /\ nparsed \in 0..Len(stream)
      BY DEF TypeOK
    <2>3. IsPrefix(SubSeq(stream, 1, k), SubSeq(stream, 1, nparsed))
      BY <2>2, FrontIsPrefix
    <2> QED
      BY <2>1, <2>3 DEF Reencodes, ReencodesInv
  <1>4. FramingInv => TypeOK
    BY DEF FramingInv
  <1> QED
    BY <1>1, <1>2, <1>3, <1>4, FramingInvariant, PTL DEF Spec

\* What is in the buffer of a connection that was closed is what was
\* rejected, whatever arrives afterwards.
RejectedInv == closed => ~parsing /\ Rejects(buf)

LEMMA RejectedStep ==
  ASSUME TypeOK, RejectedInv, [Next]_vars
  PROVE  RejectedInv'
  <1>1. CASE UNCHANGED <<stream, nread, nparsed, parsing, closed>>
    BY <1>1 DEF RejectedInv, buf
  <1>2. ASSUME buf' = buf, UNCHANGED receiverVars
        PROVE  RejectedInv'
    <2>1. closed' = closed /\ parsing' = parsing
      BY <1>2 DEF receiverVars
    <2>2. Rejects(buf') <=> Rejects(buf)
      BY <1>2
    <2> QED
      BY <2>1, <2>2 DEF RejectedInv
  <1>3. ASSUME NEW m \in Seq(Byte), stream' = stream \o m, UNCHANGED receiverVars
        PROVE  RejectedInv'
    <2>1. nread' = nread /\ nparsed' = nparsed
      BY <1>3 DEF receiverVars
    <2>2. buf' = buf
      BY <1>3, <2>1, StreamGrows
    <2> QED
      BY <1>2, <1>3, <2>2
  <1>4. CASE ClientPacket
    <2>1. UNCHANGED receiverVars
      BY <1>4 DEF ClientPacket
    <2>2. CASE UNCHANGED <<stream, sent>>
      BY <2>1, <2>2, <1>1 DEF receiverVars
    <2>3. CASE \E pkt \in SendablePacket :
                 /\ stream' = stream \o Marshal(pkt)
                 /\ sent' = Append(sent, [pkt |-> pkt, end |-> Len(stream')])
      BY <2>1, <2>3, FrameBytes, <1>3
    <2> QED
      BY <2>2, <2>3, <1>4, ClientPacketIs
  <1>5. CASE ForeignByte
    <2>1. PICK x \in Byte : stream' = Append(stream, x)
      BY <1>5 DEF ForeignByte
    <2>2. stream' = stream \o <<x>> /\ <<x>> \in Seq(Byte)
      BY <2>1, AppendIsConcat DEF TypeOK
    <2>3. UNCHANGED receiverVars
      BY <1>5 DEF ForeignByte
    <2> QED
      BY <2>2, <2>3, <1>3
  <1>6. CASE Read
    BY <1>6 DEF Read, RejectedInv
  <1>7. CASE ParseNeedMoreData
    BY <1>7 DEF ParseNeedMoreData, RejectedInv
  <1>8. CASE ParseRejected
    <2>1. Rejects(buf) /\ UNCHANGED <<stream, nread, nparsed>> /\ ~parsing'
      BY <1>8 DEF ParseRejected
    <2>2. buf' = buf
      BY <2>1 DEF buf
    <2>3. Rejects(buf')
      BY <2>1, <2>2
    <2> QED
      BY <2>1, <2>3 DEF RejectedInv
  <1>9. CASE ParseDone
    BY <1>9 DEF ParseDone, RejectedInv
  <1> QED
    BY <1>1, <1>4, <1>5, <1>6, <1>7, <1>8, <1>9
       DEF Next, ParseTurn, UserSends, vars, receiverVars

\* A connection is closed only for bytes that no frame begins with and that
\* begin no frame: no client's half-arrived packet is ever cut off.
THEOREM OnlyRejectedForCause == Spec => []RejectedForCause
  <1>1. Init => RejectedInv
    BY DEF Init, RejectedInv
  <1>2. TypeOK /\ RejectedInv /\ [Next]_vars => RejectedInv'
    BY RejectedStep
  <1>3. TypeOK /\ RejectedInv => RejectedForCause
    <2> SUFFICES ASSUME TypeOK, RejectedInv, closed, NEW f \in Frames
                 PROVE  ~IsPrefix(f, buf) /\ ~IsPrefix(buf, f)
      BY DEF RejectedForCause
    <2>1. PICK pkt \in SendablePacket : f = Marshal(pkt)
      <3>1. PICK p \in [addr : BoundedSeq(Byte, MaxAddr), port : 1..MaxUint16,
                        payload : BoundedSeq(Byte, MaxUint16)] : Sendable(p) /\ f = Marshal(p)
        BY DEF Frames
      <3>2. Base \in Nat /\ Base >= 2 /\ MaxAddr \in Nat /\ MaxUint16 \in Nat
        BY FramingAssumption DEF MaxAddr, MaxUint16
      <3>3. ASSUME NEW n \in Nat, NEW s \in BoundedSeq(Byte, n)
            PROVE  s \in Seq(Byte)
        <4>1. PICK m \in 0..n : s \in [1..m -> Byte]
          BY <3>3 DEF BoundedSeq, SeqOf
        <4> QED
          BY <4>1
      <3>4. p.addr \in Seq(Byte) /\ p.payload \in Seq(Byte) /\ p.port \in 0..MaxUint16
        BY <3>2, <3>3
      <3>5. p = [addr |-> p.addr, port |-> p.port, payload |-> p.payload]
        OBVIOUS
      <3>6. p \in Packet
        BY <3>4, <3>5 DEF Packet
      <3> QED
        BY <3>1, <3>6 DEF SendablePacket
    <2>2. f \in Seq(Byte) /\ Len(f) \in Nat
      BY <2>1, FrameBytes
    <2>3. buf \in Seq(Byte) /\ Len(buf) \in Nat /\ Rejects(buf)
      <3>1. buf \in Seq(Byte)
        BY BufIs
      <3> QED
        BY <3>1 DEF RejectedInv
    <2>4. ~(\A i \in 1..Len(f) : i <= Len(buf) => buf[i] = f[i])
      BY <2>1, <2>3, FrameDecides
    <2>5. ASSUME IsPrefix(f, buf) PROVE FALSE
      BY <2>2, <2>3, <2>4, <2>5, PrefixAgrees
    <2>6. ASSUME IsPrefix(buf, f) PROVE FALSE
      <3>1. \A i \in 1..Len(buf) : buf[i] = f[i]
        BY <2>2, <2>3, <2>6, PrefixAgrees
      <3>2. \A i \in 1..Len(f) : i <= Len(buf) => i \in 1..Len(buf)
        BY <2>2, <2>3
      <3> QED
        BY <2>4, <3>1, <3>2
    <2> QED
      BY <2>5, <2>6
  <1>4. FramingInv => TypeOK
    BY DEF FramingInv
  <1> QED
    BY <1>1, <1>2, <1>3, <1>4, FramingInvariant, PTL DEF Spec

=============================================================================
