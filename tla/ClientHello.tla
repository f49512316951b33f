----------------------------- MODULE ClientHello -----------------------------
(***************************************************************************)
(* The parser of the transparent HTTPS mode, destination/https.go: the     *)
(* server name in a TLS ClientHello.  Offsets count from 0, as in the      *)
(* code: b[i + 1] is its b[i].  The parser keeps no state.                 *)
(***************************************************************************)
EXTENDS Destination

CONSTANT SidAt  \* offset of the session id's length in a ClientHello, 34

RecordTypeHandshake == 22
MainVersionV3       == 3
TypeClientHello     == 1
ExtensionServerName == 0
ServerNameHost      == 0

At(b, i)  == b[i + 1]
At2(b, i) == Uint16(b[i + 1], b[i + 2])

(***************************************************************************)
(* The record                                                              *)
(***************************************************************************)
NotClientHello(buf) ==
  \/ Len(buf) >= 1 /\ At(buf, 0) # RecordTypeHandshake
  \/ Len(buf) >= 5 /\ At(buf, 1) # MainVersionV3
  \/ Len(buf) >= 6 /\ At(buf, 5) # TypeClientHello

HsLength(buf) == At(buf, 6) * 65536 + At2(buf, 7)

\* Mutant: a byte behind the message is waited for.
ClientHelloCompleteLate(buf) == Len(buf) >= 9 /\ Len(buf) > 9 + HsLength(buf)

ClientHelloComplete(buf) == Len(buf) >= 9 /\ Len(buf) >= 9 + HsLength(buf)

HsBuf(buf) == SubSeq(buf, 10, 9 + HsLength(buf))

(***************************************************************************)
(* The fields before the extensions.  Each is read only when the bytes     *)
(* that hold its length are known to be there.                             *)
(***************************************************************************)
SessionIdLen(hs)    == At(hs, SidAt)
CipherSuitesLen(hs) == At2(hs, SidAt + 1 + SessionIdLen(hs))
CompressionAt(hs)   == SidAt + 3 + SessionIdLen(hs) + CipherSuitesLen(hs)
ExtensionsLenAt(hs) == CompressionAt(hs) + 1 + At(hs, CompressionAt(hs))
ExtensionsAt(hs)    == ExtensionsLenAt(hs) + 2

HasSessionIdLen(hs)   == Len(hs) >= SidAt + 1
HasCipherSuitesLen(hs) ==
  HasSessionIdLen(hs) /\ Len(hs) >= SidAt + 3 + SessionIdLen(hs)
HasCompressionLen(hs) == HasCipherSuitesLen(hs) /\ Len(hs) >= CompressionAt(hs) + 1
HasExtensionsLen(hs)  == HasCompressionLen(hs) /\ Len(hs) >= ExtensionsAt(hs)
HeadValid(hs) ==
  HasExtensionsLen(hs) /\ Len(hs) - ExtensionsAt(hs) = At2(hs, ExtensionsLenAt(hs))

(***************************************************************************)
(* The extensions                                                          *)
(***************************************************************************)
HasExtensionHeader(hs, pos) == pos + 4 <= Len(hs)
ExtensionType(hs, pos) == At2(hs, pos)
ExtensionLen(hs, pos)  == At2(hs, pos + 2)
ExtensionEnd(hs, pos)  == pos + 4 + ExtensionLen(hs, pos)
NameLen(hs, pos)       == At2(hs, pos + 7)
NameEnd(hs, pos)       == pos + 9 + NameLen(hs, pos)

HasExtension(hs, pos) ==
  HasExtensionHeader(hs, pos) /\ ExtensionEnd(hs, pos) <= Len(hs)

NamesServer(hs, pos) == ExtensionType(hs, pos) = ExtensionServerName

NameTruncated(hs, pos) == NameEnd(hs, pos) > ExtensionEnd(hs, pos)

\* The first host name in a server name extension at or after each offset:
\* <<>> when there is none, or an extension before it cannot be read.
Sni(hs) ==
  LET From[pos \in 0..Len(hs)] ==
        IF pos = Len(hs) \/ ~HasExtension(hs, pos) THEN <<>>
        ELSE IF ~NamesServer(hs, pos) THEN From[ExtensionEnd(hs, pos)]
        ELSE IF ExtensionLen(hs, pos) < 5 THEN <<>>
        ELSE IF At(hs, pos + 6) # ServerNameHost THEN From[ExtensionEnd(hs, pos)]
        ELSE IF NameTruncated(hs, pos) THEN <<>>
        ELSE <<SubSeq(hs, pos + 10, NameEnd(hs, pos))>>
  IN  From[ExtensionsAt(hs)]

(***************************************************************************)
(* Parse: nothing is consumed, the ClientHello is forwarded with the rest. *)
(***************************************************************************)
ParseHTTPS(state, buf) ==
  IF NotClientHello(buf) THEN ParseRejected
  ELSE IF ~ClientHelloComplete(buf) THEN ParseNeedMoreData(state)
  ELSE IF ~HeadValid(HsBuf(buf)) \/ Sni(HsBuf(buf)) = <<>> THEN ParseRejected
  ELSE ParseDone(WithPort([name |-> Sni(HsBuf(buf))[1], port |-> 0], 443), 0, state)
=============================================================================
