----------------------------- MODULE Shadowsocks -----------------------------
(***************************************************************************)
(* The Shadowsocks parser, destination/shadowsocks.go: an AEAD stream in   *)
(* each direction, salt first, then pairs of a length chunk and a payload  *)
(* chunk, each sealed with the next nonce; the decrypted upstream begins   *)
(* with the destination's address.                                         *)
(*                                                                         *)
(* The ciphers are external and symbolic: a sealed byte names the key, the *)
(* nonce and the text it was sealed with, and Open succeeds on exactly     *)
(* what Seal returns.  A session key is named by its salt.  A byte is a    *)
(* <<salt, nonce, text, index>> whether it was sealed or not; a salt's own *)
(* bytes and noise have <<>> for the salt.                                 *)
(*                                                                         *)
(* The state of a connection is <<>> or <<sc>>, sc with the fields dec and *)
(* enc, [salt, nonce] with salt <<>> until there is one; plaintext;        *)
(* addrDone; dest.                                                         *)
(***************************************************************************)
EXTENDS Destination

CONSTANTS
  SaltLen,   \* ssAEAD.saltLen
  Tag,       \* aead.Overhead()
  MaxChunk,  \* ssMaxChunkSize
  OwnSalt    \* the salt rand.Read returns, a sequence of SaltLen bytes

\* The length of a chunk is two bytes on the wire (ssMaxChunkSize is 0x3FFF).
ASSUME ShadowsocksAssumption ==
  /\ SaltLen \in Nat \ {0} /\ Tag \in Nat /\ MaxChunk \in Nat \ {0} /\ MaxChunk < 65536
  /\ OwnSalt = [i \in 1..SaltLen |-> OwnSalt[i]]

(***************************************************************************)
(* cipher.AEAD                                                             *)
(***************************************************************************)
Seal(salt, nonce, plain) ==
  [i \in 1..(Len(plain) + Tag) |-> <<salt, nonce, plain, i>>]

OpenedText(sealed) == sealed[1][3]

Opens(salt, nonce, sealed) == sealed = Seal(salt, nonce, OpenedText(sealed))

(***************************************************************************)
(* ssDecrypter                                                             *)
(***************************************************************************)
NoSalt == [salt |-> <<>>, nonce |-> 0]

LenChunk(rem) == SubSeq(rem, 1, 2 + Tag)
PayLen(rem) == LET n == OpenedText(LenChunk(rem)) IN Uint16(n[1], n[2])
Need(rem) == 2 + Tag + PayLen(rem) + Tag
PayloadChunk(rem) == SubSeq(rem, 3 + Tag, Need(rem))

Broken(d, rem) ==
  \/ ~Opens(d.salt, d.nonce, LenChunk(rem))
  \/ PayLen(rem) = 0 \/ PayLen(rem) > MaxChunk

Fits(out, n, max) == out = <<>> \/ Len(out) + n <= max

\* Mutant: the nonce of the length chunk is spent before its payload is there.
WaitSpent(r) == [r EXCEPT !.verdict = "stop", !.dec.nonce = @ + 1]

\* A length chunk whose payload is not to be decrypted now changes nothing.
Wait(r) == [r EXCEPT !.verdict = "stop"]

\* One turn of the loop; verdict "more" goes on.
NextChunk(r, max) ==
  IF r.verdict # "more" THEN r
  ELSE IF Len(r.rem) < 2 + Tag THEN [r EXCEPT !.verdict = "stop"]
  ELSE IF Broken(r.dec, r.rem) THEN [r EXCEPT !.verdict = "error"]
  ELSE IF \/ Len(r.rem) < Need(r.rem)
          \/ ~Fits(r.out, PayLen(r.rem), max)
    THEN Wait(r)
  ELSE IF ~Opens(r.dec.salt, r.dec.nonce + 1, PayloadChunk(r.rem))
    THEN [r EXCEPT !.verdict = "error"]
  ELSE [r EXCEPT !.dec.nonce = @ + 2,
                 !.out = @ \o OpenedText(PayloadChunk(r.rem)),
                 !.consumed = @ + Need(r.rem),
                 !.rem = SubSeq(@, Need(r.rem) + 1, Len(@))]

\* decrypt: the text of the complete chunks in src, and the bytes they took.
Decrypt(d, src, max) ==
  LET salted == d.salt = <<>> /\ Len(src) >= SaltLen
      from   == IF salted THEN SaltLen ELSE 0
      dec    == IF salted THEN [salt |-> SubSeq(src, 1, SaltLen), nonce |-> 0] ELSE d
      start  == [verdict |-> IF dec.salt = <<>> THEN "stop" ELSE "more", dec |-> dec,
                 out |-> <<>>, consumed |-> from, rem |-> SubSeq(src, from + 1, Len(src))]
      Turn[i \in 0..Len(src)] == IF i = 0 THEN start ELSE NextChunk(Turn[i - 1], max)
  IN  Turn[Len(src)]

(***************************************************************************)
(* ssEncrypter.encrypt                                                     *)
(***************************************************************************)
Chunk(salt, nonce, plain) ==
  Seal(salt, nonce, <<Len(plain) \div 256, Len(plain) % 256>>) \o Seal(salt, nonce + 1, plain)

\* Mutant: every piece of a long payload is sealed with the same nonces.
NonceOfKept(nonce, i) == nonce

\* The nonce of the length chunk of the i-th piece.
NonceOf(nonce, i) == nonce + 2 * (i - 1)

PieceCount(plain) == (Len(plain) + MaxChunk - 1) \div MaxChunk

Piece(plain, i) ==
  SubSeq(plain, (i - 1) * MaxChunk + 1,
         IF i * MaxChunk < Len(plain) THEN i * MaxChunk ELSE Len(plain))

\* encrypt: the bytes for the user, and the state after them.
Encrypt(e, plain) ==
  LET salt  == IF e.salt = <<>> THEN OwnSalt ELSE e.salt
      nonce == IF e.salt = <<>> THEN 0 ELSE e.nonce
      n     == PieceCount(plain)
  IN  [out |-> (IF e.salt = <<>> THEN salt ELSE <<>>)
                 \o FlattenSeq([i \in 1..n |->
                      Chunk(salt, NonceOf(nonce, i), Piece(plain, i))]),
       enc |-> [salt |-> salt, nonce |-> NonceOf(nonce, n + 1)]]

(***************************************************************************)
(* parseShadowsocksAddress                                                 *)
(***************************************************************************)
AddressInvalid(b) ==
  \/ Len(b) >= 1 /\ b[1] \notin {AtypIPv4, AtypDomain, AtypIPv6}
  \/ Len(b) >= 2 /\ b[1] = AtypDomain /\ b[2] = 0

AddressLen(b) ==
  CASE b[1] = AtypIPv4   -> 1 + V4Len + 2
    [] b[1] = AtypIPv6   -> 1 + V6Len + 2
    [] b[1] = AtypDomain -> 2 + b[2] + 2

AddressComplete(b) ==
  /\ Len(b) >= 1
  /\ b[1] = AtypDomain => Len(b) >= 2
  /\ Len(b) >= AddressLen(b)

Address(b) ==
  LET n == AddressLen(b)
  IN  <<SubSeq(b, IF b[1] = AtypDomain THEN 3 ELSE 2, n - 2), Uint16(b[n - 1], b[n])>>

(***************************************************************************)
(* Parse                                                                   *)
(***************************************************************************)
NewConn ==
  [dec |-> NoSalt, enc |-> NoSalt, plaintext |-> <<>>, addrDone |-> FALSE, dest |-> NoDest]

\* What was decrypted before the address was complete is kept.
Kept(sc, plain) == sc.plaintext \o plain

ParseAddress(sc, plain, consumed) ==
  LET text == Kept(sc, plain)
      n    == AddressLen(text)
  IN  IF AddressInvalid(text) THEN ParseRejected
      ELSE IF ~AddressComplete(text)
        THEN [ParseNeedMoreData(<<[sc EXCEPT !.plaintext = text]>>)
                EXCEPT !.consumed = consumed]
      ELSE ParseDoneDecoded(Address(text), SubSeq(text, n + 1, Len(text)), consumed,
             <<[sc EXCEPT !.plaintext = <<>>, !.addrDone = TRUE, !.dest = Address(text)]>>)

ParseShadowsocks(state, buf) ==
  LET sc == IF state = <<>> THEN NewConn ELSE state[1]
      r  == Decrypt(sc.dec, buf, MaxPayload)
      s  == [sc EXCEPT !.dec = r.dec]
  IN  IF r.verdict = "error" THEN ParseRejected
      ELSE IF r.out = <<>>
        THEN [ParseNeedMoreData(<<s>>) EXCEPT !.consumed = r.consumed]
      ELSE IF sc.addrDone THEN ParseDoneDecoded(sc.dest, r.out, r.consumed, <<s>>)
      ELSE ParseAddress(s, r.out, r.consumed)

\* EncodePayload, for a connection that has a state.
EncodePayload(state, payload) ==
  LET r == Encrypt(state[1].enc, payload)
  IN  [out |-> r.out, state |-> <<[state[1] EXCEPT !.enc = r.enc]>>]
=============================================================================
