--------------------------- MODULE UserConnProofs ---------------------------
(***************************************************************************)
(* Proofs about UserConn, for every script, parser and cut: the way back.  *)
(* What ssEncrypter makes of any payloads, in any number of writes, is one *)
(* stream that an ssDecrypter reads back, whatever the tag and the salt.   *)
(***************************************************************************)
EXTENDS UserConn, SequenceLemmas

(***************************************************************************)
(* Sealed bytes                                                            *)
(***************************************************************************)

\* A byte to the user: in the clear, of the salt, or sealed.
Wire == Nat \cup {OwnSalt[i] : i \in 1..SaltLen}
            \cup {<<OwnSalt, n, p, i>> : n \in Nat, p \in Seq(Nat), i \in Nat}

\* What a chunk may hold, and what such pieces are sealed as, in turn.
Portion == {p \in Seq(Nat) : Len(p) \in 1..MaxChunk}

Chunks(ps) == [i \in 1..Len(ps) |-> Chunk(OwnSalt, 2 * (i - 1), ps[i])]
Sealed(ps) == OwnSalt \o FlattenSeq(Chunks(ps))

\* The sizes, and the salt, which is not empty.
LEMMA SizesAre == SaltLen \in Nat \ {0} /\ Tag \in Nat /\ MaxChunk \in Nat \ {0} /\ MaxChunk < 65536
  BY ShadowsocksAssumption

LEMMA SaltBytes ==
  OwnSalt \in Seq(Wire) /\ Len(OwnSalt) = SaltLen /\ SaltLen \in Nat \ {0} /\ OwnSalt # <<>>
  <1>1. OwnSalt = [i \in 1..SaltLen |-> OwnSalt[i]] /\ SaltLen \in Nat \ {0}
    BY ShadowsocksAssumption
  <1>2. \A i \in 1..SaltLen : OwnSalt[i] \in Wire
    BY DEF Wire
  <1>3. OwnSalt \in [1..SaltLen -> Wire]
    BY <1>1, <1>2
  <1>4. OwnSalt \in Seq(Wire) /\ Len(OwnSalt) = SaltLen
    BY <1>1, <1>3
  <1> QED
    BY <1>1, <1>4, EmptySeq

\* Seal makes Tag bytes more, and Open finds the text again.
LEMMA SealIs ==
  ASSUME NEW n \in Nat, NEW p \in Seq(Nat), Len(p) > 0
  PROVE  /\ Seal(OwnSalt, n, p) \in Seq(Wire)
         /\ Len(Seal(OwnSalt, n, p)) = Len(p) + Tag
         /\ OpenedText(Seal(OwnSalt, n, p)) = p
         /\ Opens(OwnSalt, n, Seal(OwnSalt, n, p))
  <1> DEFINE k == Len(p) + Tag
             s == Seal(OwnSalt, n, p)
  <1>1. k \in Nat /\ 1 \in 1..k
    BY ShadowsocksAssumption
  <1>2. s = [i \in 1..k |-> <<OwnSalt, n, p, i>>]
    BY DEF Seal
  <1>3. \A i \in 1..k : <<OwnSalt, n, p, i>> \in Wire
    <2>1. \A i \in 1..k : i \in Nat
      BY <1>1
    <2> QED
      BY <2>1 DEF Wire
  <1> HIDE DEF k
  <1>4. s \in [1..k -> Wire]
    BY <1>2, <1>3
  <1>5. s \in Seq(Wire) /\ Len(s) = k
    BY <1>1, <1>2, <1>4
  <1>6. s[1] = <<OwnSalt, n, p, 1>>
    BY <1>1, <1>2
  <1>7. OpenedText(s) = p
    BY <1>6 DEF OpenedText
  <1>8. Opens(OwnSalt, n, s)
    BY <1>7 DEF Opens
  <1> QED
    BY <1>5, <1>7, <1>8 DEF k

\* A chunk is a sealed length and a sealed payload.
Length(p) == <<Len(p) \div 256, Len(p) % 256>>

LEMMA ChunkIs ==
  ASSUME NEW n \in Nat, NEW p \in Portion
  PROVE  /\ Len(p) \in Nat /\ 1 <= Len(p) /\ Len(p) <= MaxChunk /\ p \in Seq(Nat)
         /\ Uint16(Length(p)[1], Length(p)[2]) = Len(p)
         /\ Seal(OwnSalt, n, Length(p)) \in Seq(Wire)
         /\ Len(Seal(OwnSalt, n, Length(p))) = 2 + Tag
         /\ OpenedText(Seal(OwnSalt, n, Length(p))) = Length(p)
         /\ Opens(OwnSalt, n, Seal(OwnSalt, n, Length(p)))
         /\ Seal(OwnSalt, n + 1, p) \in Seq(Wire)
         /\ Len(Seal(OwnSalt, n + 1, p)) = Len(p) + Tag
         /\ OpenedText(Seal(OwnSalt, n + 1, p)) = p
         /\ Opens(OwnSalt, n + 1, Seal(OwnSalt, n + 1, p))
         /\ Chunk(OwnSalt, n, p) = Seal(OwnSalt, n, Length(p)) \o Seal(OwnSalt, n + 1, p)
         /\ Chunk(OwnSalt, n, p) \in Seq(Wire)
         /\ Len(Chunk(OwnSalt, n, p)) = 2 + Tag + Len(p) + Tag
  <1>1. Len(p) \in Nat /\ 1 <= Len(p) /\ Len(p) <= MaxChunk /\ p \in Seq(Nat)
        /\ n + 1 \in Nat /\ Tag \in Nat
    BY SizesAre DEF Portion
  <1>2. Len(p) \div 256 \in Nat /\ Len(p) % 256 \in Nat
        /\ (Len(p) \div 256) * 256 + (Len(p) % 256) = Len(p)
    BY <1>1
  <1>3. Length(p) \in Seq(Nat) /\ Len(Length(p)) = 2 /\ Len(Length(p)) > 0
        /\ Length(p)[1] = Len(p) \div 256 /\ Length(p)[2] = Len(p) % 256
    BY <1>2 DEF Length
  <1>4. /\ Seal(OwnSalt, n, Length(p)) \in Seq(Wire)
        /\ Len(Seal(OwnSalt, n, Length(p))) = 2 + Tag
        /\ OpenedText(Seal(OwnSalt, n, Length(p))) = Length(p)
        /\ Opens(OwnSalt, n, Seal(OwnSalt, n, Length(p)))
    BY <1>3, SealIs
  <1>5. /\ Seal(OwnSalt, n + 1, p) \in Seq(Wire)
        /\ Len(Seal(OwnSalt, n + 1, p)) = Len(p) + Tag
        /\ OpenedText(Seal(OwnSalt, n + 1, p)) = p
        /\ Opens(OwnSalt, n + 1, Seal(OwnSalt, n + 1, p))
    <2>1. Len(p) > 0
      BY <1>1
    <2> QED
      BY <1>1, <2>1, SealIs
  <1>6. Uint16(Length(p)[1], Length(p)[2]) = Len(p)
    BY <1>2, <1>3 DEF Uint16
  <1>7. Chunk(OwnSalt, n, p) = Seal(OwnSalt, n, Length(p)) \o Seal(OwnSalt, n + 1, p)
    BY DEF Chunk, Length
  <1>8. /\ Chunk(OwnSalt, n, p) \in Seq(Wire)
        /\ Len(Chunk(OwnSalt, n, p)) = (2 + Tag) + (Len(p) + Tag)
    <2> DEFINE h == Seal(OwnSalt, n, Length(p))
               b == Seal(OwnSalt, n + 1, p)
    <2>1. h \in Seq(Wire) /\ b \in Seq(Wire) /\ Len(h) = 2 + Tag /\ Len(b) = Len(p) + Tag
          /\ Chunk(OwnSalt, n, p) = h \o b
      BY <1>4, <1>5, <1>7
    <2> HIDE DEF h, b
    <2>2. h \o b \in Seq(Wire) /\ Len(h \o b) = Len(h) + Len(b)
      BY <2>1, ConcatProperties
    <2> QED
      BY <2>1, <2>2
  <1> QED
    BY <1>1, <1>4, <1>5, <1>6, <1>7, <1>8

\* The parts of a chunk at the front of what remains.
LEMMA ChunkFound ==
  ASSUME NEW n \in Nat, NEW p \in Portion, NEW rest \in Seq(Wire)
  PROVE  LET rem == Chunk(OwnSalt, n, p) \o rest
         IN  /\ rem \in Seq(Wire)
             /\ Len(rem) = 2 + Tag + Len(p) + Tag + Len(rest)
             /\ LenChunk(rem) = Seal(OwnSalt, n, Length(p))
             /\ PayLen(rem) = Len(p)
             /\ Need(rem) = 2 + Tag + Len(p) + Tag
             /\ PayloadChunk(rem) = Seal(OwnSalt, n + 1, p)
             /\ SubSeq(rem, Need(rem) + 1, Len(rem)) = rest
  <1> DEFINE h == Seal(OwnSalt, n, Length(p))
             b == Seal(OwnSalt, n + 1, p)
             c == Chunk(OwnSalt, n, p)
             rem == c \o rest
  <1>1. /\ h \in Seq(Wire) /\ b \in Seq(Wire) /\ c \in Seq(Wire) /\ c = h \o b
        /\ Len(h) = 2 + Tag /\ Len(b) = Len(p) + Tag /\ Len(c) = 2 + Tag + Len(p) + Tag
        /\ OpenedText(h) = Length(p) /\ Uint16(Length(p)[1], Length(p)[2]) = Len(p)
        /\ Len(p) \in Nat /\ 1 <= Len(p)
    BY ChunkIs
  <1>2. Tag \in Nat /\ Len(rest) \in Nat
    BY SizesAre, LenProperties
  <1>3. rem = c \o rest
    OBVIOUS
  <1> HIDE DEF h, b, c, rem
  <1>4. /\ b \o rest \in Seq(Wire) /\ rem = h \o (b \o rest)
        /\ Len(b \o rest) = Len(b) + Len(rest)
    <2>1. h \in Seq(Wire) /\ b \in Seq(Wire) /\ rem = (h \o b) \o rest
      BY <1>1, <1>3
    <2>2. (h \o b) \o rest = h \o (b \o rest)
      BY <2>1, ConcatAssociative
    <2> QED
      BY <2>1, <2>2, ConcatProperties
  <1>5. rem \in Seq(Wire) /\ Len(rem) = Len(c) + Len(rest)
    BY <1>1, <1>3, ConcatProperties
  <1>6. LenChunk(rem) = h
    BY <1>1, <1>4, RestOfConcat DEF LenChunk
  <1>7. PayLen(rem) = Len(p)
    BY <1>1, <1>6 DEF PayLen
  <1>8. Need(rem) = Len(c)
    BY <1>1, <1>7 DEF Need
  <1>9. PayloadChunk(rem) = b
    <2>1. /\ 3 + Tag \in (Len(h) + 1)..(Len(h) + Len(b \o rest))
          /\ Len(c) \in (Len(h) + 1)..(Len(h) + Len(b \o rest))
          /\ 3 + Tag - Len(h) = 1 /\ Len(c) - Len(h) = Len(b)
      BY <1>1, <1>2, <1>4
    <2>2. SubSeq(h \o (b \o rest), 3 + Tag, Len(c)) = SubSeq(b \o rest, 1, Len(b))
      <3> DEFINE t == b \o rest
      <3>1. /\ h \in Seq(Wire) /\ t \in Seq(Wire)
            /\ 3 + Tag \in (Len(h) + 1)..(Len(h) + Len(t))
            /\ Len(c) \in (Len(h) + 1)..(Len(h) + Len(t))
        BY <1>1, <1>4, <2>1
      <3> DEFINE m == 3 + Tag
                 k == Len(c)
      <3> HIDE DEF t, m, k
      <3>2. SubSeq(h \o t, m, k) = SubSeq(t, m - Len(h), k - Len(h))
        BY <3>1, SubSeqOfConcat2 DEF m, k
      <3>3. m - Len(h) = 1 /\ k - Len(h) = Len(b)
        BY <1>1, <1>2 DEF m, k
      <3>4. SubSeq(h \o t, m, k) = SubSeq(t, 1, Len(b))
        BY <3>2, <3>3
      <3> QED
        BY <3>4 DEF t, m, k
    <2>3. SubSeq(b \o rest, 1, Len(b)) = b
      BY <1>1, RestOfConcat
    <2> QED
      BY <1>4, <1>8, <2>2, <2>3 DEF PayloadChunk
  <1>10. SubSeq(rem, Len(c) + 1, Len(rem)) = rest
    BY <1>1, <1>3, RestOfConcat
  <1> QED
    BY <1>1, <1>2, <1>5, <1>6, <1>7, <1>8, <1>9, <1>10 DEF h, b, c, rem

(***************************************************************************)
(* decrypt                                                                 *)
(***************************************************************************)

\* What decrypt has read, after m chunks.
ReadTo(m, out, consumed, rem) ==
  [verdict |-> "more", dec |-> [salt |-> OwnSalt, nonce |-> m], out |-> out,
   consumed |-> consumed, rem |-> rem]

LEMMA ReadToFields ==
  ASSUME NEW m, NEW out, NEW consumed, NEW rem
  PROVE  /\ ReadTo(m, out, consumed, rem).verdict = "more"
         /\ ReadTo(m, out, consumed, rem).dec = [salt |-> OwnSalt, nonce |-> m]
         /\ ReadTo(m, out, consumed, rem).dec.salt = OwnSalt
         /\ ReadTo(m, out, consumed, rem).dec.nonce = m
         /\ ReadTo(m, out, consumed, rem).out = out
         /\ ReadTo(m, out, consumed, rem).consumed = consumed
         /\ ReadTo(m, out, consumed, rem).rem = rem
  BY DEF ReadTo

\* A turn reads a chunk that fits.
LEMMA TurnReads ==
  ASSUME NEW n \in Nat, NEW p \in Portion, NEW rest \in Seq(Wire), NEW max \in Nat,
         NEW out \in Seq(Nat), NEW consumed \in Nat, Len(out) + Len(p) <= max
  PROVE  NextChunk(ReadTo(n, out, consumed, Chunk(OwnSalt, n, p) \o rest), max)
           = ReadTo(n + 2, out \o p, consumed + Len(Chunk(OwnSalt, n, p)), rest)
  <1> DEFINE rem == Chunk(OwnSalt, n, p) \o rest
             r == ReadTo(n, out, consumed, rem)
  <1>1. /\ rem \in Seq(Wire)
        /\ Len(rem) = 2 + Tag + Len(p) + Tag + Len(rest)
        /\ LenChunk(rem) = Seal(OwnSalt, n, Length(p))
        /\ PayLen(rem) = Len(p)
        /\ Need(rem) = 2 + Tag + Len(p) + Tag
        /\ PayloadChunk(rem) = Seal(OwnSalt, n + 1, p)
        /\ SubSeq(rem, Need(rem) + 1, Len(rem)) = rest
    BY ChunkFound
  <1>2. /\ Len(p) \in Nat /\ 1 <= Len(p) /\ Len(p) <= MaxChunk
        /\ Opens(OwnSalt, n, Seal(OwnSalt, n, Length(p)))
        /\ Opens(OwnSalt, n + 1, Seal(OwnSalt, n + 1, p))
        /\ OpenedText(Seal(OwnSalt, n + 1, p)) = p
        /\ Len(Chunk(OwnSalt, n, p)) = 2 + Tag + Len(p) + Tag
    BY ChunkIs
  <1>3. Tag \in Nat /\ MaxChunk \in Nat /\ Len(rest) \in Nat
    BY SizesAre, LenProperties
  <1> HIDE DEF rem
  <1>4. /\ r.verdict = "more" /\ r.dec = [salt |-> OwnSalt, nonce |-> n] /\ r.out = out
        /\ r.consumed = consumed /\ r.rem = rem /\ r.dec.salt = OwnSalt /\ r.dec.nonce = n
    BY ReadToFields
  <1>5. ~(Len(rem) < 2 + Tag) /\ ~(Len(rem) < Need(rem))
    BY <1>1, <1>2, <1>3
  <1>6. ~Broken(r.dec, rem)
    BY <1>1, <1>2, <1>3, <1>4 DEF Broken
  <1>7. Fits(out, PayLen(rem), max)
    BY <1>1 DEF Fits
  <1>8. Opens(OwnSalt, n + 1, PayloadChunk(rem)) /\ OpenedText(PayloadChunk(rem)) = p
    BY <1>1, <1>2
  <1>9. NextChunk(r, max) = [r EXCEPT !.dec.nonce = @ + 2,
                               !.out = @ \o OpenedText(PayloadChunk(r.rem)),
                               !.consumed = @ + Need(r.rem),
                               !.rem = SubSeq(@, Need(r.rem) + 1, Len(@))]
    <2> HIDE DEF r
    <2> QED
      BY <1>4, <1>5, <1>6, <1>7, <1>8 DEF NextChunk
  <1>10. /\ r.dec.nonce + 2 = n + 2
         /\ r.out \o OpenedText(PayloadChunk(r.rem)) = out \o p
         /\ r.consumed + Need(r.rem) = consumed + Need(rem)
         /\ SubSeq(r.rem, Need(r.rem) + 1, Len(r.rem)) = rest
    <2> HIDE DEF r
    <2> QED
      BY <1>1, <1>4, <1>8
  <1>11. NextChunk(r, max) = [r EXCEPT !.dec.nonce = n + 2, !.out = out \o p,
                                !.consumed = consumed + Need(rem), !.rem = rest]
    <2> HIDE DEF r
    <2> QED
      BY <1>9, <1>10
  <1>12. NextChunk(r, max) = ReadTo(n + 2, out \o p, consumed + Need(rem), rest)
    <2> DEFINE m2 == n + 2
               out2 == out \o p
               consumed2 == consumed + Need(rem)
               u1 == [r EXCEPT !.dec.nonce = m2]
               u2 == [u1 EXCEPT !.out = out2]
               u3 == [u2 EXCEPT !.consumed = consumed2]
               u4 == [u3 EXCEPT !.rem = rest]
    <2> HIDE DEF m2, out2, consumed2
    <2>1. u1 = ReadTo(m2, out, consumed, rem)
      <3>1. [[salt |-> OwnSalt, nonce |-> n] EXCEPT !.nonce = m2] = [salt |-> OwnSalt, nonce |-> m2]
        OBVIOUS
      <3>2. u1 = [r EXCEPT !.dec = [r.dec EXCEPT !.nonce = m2]]
        OBVIOUS
      <3>3. u1 = [r EXCEPT !.dec = [salt |-> OwnSalt, nonce |-> m2]]
        BY <1>4, <3>1, <3>2
      <3> HIDE DEF u1
      <3> QED
        BY <3>3 DEF ReadTo
    <2>2. u2 = ReadTo(m2, out2, consumed, rem)
      <3> HIDE DEF u1
      <3> QED
        BY <2>1 DEF ReadTo
    <2>3. u3 = ReadTo(m2, out2, consumed2, rem)
      <3> HIDE DEF u2
      <3> QED
        BY <2>2 DEF ReadTo
    <2>4. u4 = ReadTo(m2, out2, consumed2, rest)
      <3> HIDE DEF u3
      <3> QED
        BY <2>3 DEF ReadTo
    <2> HIDE DEF r
    <2> QED
      BY <1>11, <2>4 DEF m2, out2, consumed2
  <1> QED
    BY <1>1, <1>2, <1>12 DEF rem

(***************************************************************************)
(* A whole stream                                                          *)
(***************************************************************************)
Text(ps, i) == FlattenSeq(SubSeq(ps, 1, i))
Used(ps, i) == FlattenSeq(SubSeq(Chunks(ps), 1, i))
Rest(ps, i) == FlattenSeq(SubSeq(Chunks(ps), i + 1, Len(ps)))

LEMMA ChunksAre ==
  ASSUME NEW ps \in Seq(Portion)
  PROVE  /\ ps \in Seq(Seq(Nat)) /\ Len(ps) \in Nat
         /\ \A i \in 1..Len(ps) : ps[i] \in Portion
         /\ Chunks(ps) \in Seq(Seq(Wire)) /\ Len(Chunks(ps)) = Len(ps)
         /\ \A i \in 1..Len(ps) : Chunks(ps)[i] = Chunk(OwnSalt, 2 * (i - 1), ps[i])
  <1> DEFINE n == Len(ps)
  <1>1. n \in Nat /\ \A i \in 1..n : ps[i] \in Portion
    BY LenProperties, ElementOfSeq
  <1>2. ps \in Seq(Seq(Nat))
    <2>1. Portion \subseteq Seq(Nat)
      BY DEF Portion
    <2> QED
      BY <2>1, SeqMonotonic
  <1>3. ASSUME NEW i \in 1..n
        PROVE  Chunk(OwnSalt, 2 * (i - 1), ps[i]) \in Seq(Wire)
    <2>1. 2 * (i - 1) \in Nat /\ ps[i] \in Portion
      BY <1>1
    <2> QED
      BY <2>1, ChunkIs
  <1>4. Chunks(ps) = [i \in 1..n |-> Chunk(OwnSalt, 2 * (i - 1), ps[i])]
    BY DEF Chunks
  <1> HIDE DEF n
  <1>5. Chunks(ps) \in [1..n -> Seq(Wire)]
    BY <1>3, <1>4
  <1>6. Chunks(ps) \in Seq(Seq(Wire)) /\ Len(Chunks(ps)) = n
    BY <1>1, <1>4, <1>5
  <1> QED
    BY <1>1, <1>2, <1>4, <1>6 DEF n

\* One chunk more is read, and one less is left.
LEMMA OneMore ==
  ASSUME NEW ps \in Seq(Portion), NEW i \in Nat, i + 1 <= Len(ps)
  PROVE  /\ Text(ps, i) \in Seq(Nat) /\ Used(ps, i) \in Seq(Wire) /\ Rest(ps, i + 1) \in Seq(Wire)
         /\ Text(ps, i + 1) = Text(ps, i) \o ps[i + 1]
         /\ Used(ps, i + 1) = Used(ps, i) \o Chunk(OwnSalt, 2 * i, ps[i + 1])
         /\ Rest(ps, i) = Chunk(OwnSalt, 2 * i, ps[i + 1]) \o Rest(ps, i + 1)
  <1> DEFINE cs == Chunks(ps)
             c == Chunk(OwnSalt, 2 * i, ps[i + 1])
             n == Len(ps)
  <1>1. /\ ps \in Seq(Seq(Nat)) /\ n \in Nat /\ cs \in Seq(Seq(Wire)) /\ Len(cs) = n
        /\ i + 1 \in 1..n /\ n \in (i + 1)..n /\ cs[i + 1] = c
    <2>1. i + 1 \in 1..n /\ (i + 1) - 1 = i /\ n \in (i + 1)..n
      BY ChunksAre
    <2> QED
      BY <2>1, ChunksAre
  <1>2. i + 1 <= Len(cs) /\ i + 1 <= Len(ps)
    BY <1>1
  <1> HIDE DEF cs, c, n
  <1>3. /\ SubSeq(ps, 1, i) \in Seq(Seq(Nat)) /\ ps[i + 1] \in Seq(Nat)
        /\ SubSeq(ps, 1, i + 1) = Append(SubSeq(ps, 1, i), ps[i + 1])
    BY <1>1, <1>2, FrontAppend
  <1>4. Text(ps, i) \in Seq(Nat) /\ Text(ps, i + 1) = Text(ps, i) \o ps[i + 1]
    BY <1>3, FlattenAppend DEF Text
  <1>5. /\ SubSeq(cs, 1, i) \in Seq(Seq(Wire)) /\ cs[i + 1] \in Seq(Wire)
        /\ SubSeq(cs, 1, i + 1) = Append(SubSeq(cs, 1, i), cs[i + 1])
    BY <1>1, <1>2, FrontAppend
  <1>6. Used(ps, i) \in Seq(Wire) /\ Used(ps, i + 1) = Used(ps, i) \o c
    BY <1>1, <1>5, FlattenAppend DEF Used, cs
  <1>7. SubSeq(cs, i + 2, n) \in Seq(Seq(Wire)) /\ c \in Seq(Wire)
    <2>1. \A k \in (i + 2)..n : k \in 1..Len(cs)
      BY <1>1
    <2>2. \A k \in (i + 2)..n : cs[k] \in Seq(Wire)
      BY <1>1, <2>1, ElementOfSeq
    <2>3. i + 2 \in Int /\ n \in Int
      BY <1>1
    <2> QED
      BY <1>1, <1>5, <2>2, <2>3, SubSeqProperties
  <1>8. SubSeq(cs, i + 1, n) = <<c>> \o SubSeq(cs, i + 2, n)
    <2>1. i + 1 \in 1..Len(cs) /\ n \in (i + 1)..Len(cs) /\ i + 1 + 1 = i + 2
      BY <1>1
    <2>2. SubSeq(cs, i + 1, n) = <<cs[i + 1]>> \o SubSeq(cs, i + 1 + 1, n)
      BY <1>1, <2>1, SubSeqRecursiveFirst
    <2> QED
      BY <1>1, <2>1, <2>2
  <1>9. FlattenSeq(SubSeq(cs, i + 1, n)) = c \o FlattenSeq(SubSeq(cs, i + 2, n))
        /\ FlattenSeq(SubSeq(cs, i + 2, n)) \in Seq(Wire)
    <2>1. <<c>> \in Seq(Seq(Wire)) /\ FlattenSeq(<<c>>) = c
      BY <1>7, FlattenFew
    <2> DEFINE one == <<c>>
               more == SubSeq(cs, i + 2, n)
    <2>2. one \in Seq(Seq(Wire)) /\ more \in Seq(Seq(Wire))
      BY <1>7, <2>1
    <2> HIDE DEF one, more
    <2>3. FlattenSeq(more) \in Seq(Wire) /\ FlattenSeq(one \o more) = FlattenSeq(one) \o FlattenSeq(more)
      BY <2>2, FlattenConcat
    <2> QED
      BY <1>8, <2>1, <2>3 DEF one, more
  <1>10. Rest(ps, i + 1) = FlattenSeq(SubSeq(cs, i + 2, n)) /\ Rest(ps, i) = FlattenSeq(SubSeq(cs, i + 1, n))
    <2>1. (i + 1) + 1 = i + 2
      OBVIOUS
    <2> QED
      BY <2>1 DEF Rest, cs, n
  <1> QED
    BY <1>4, <1>6, <1>9, <1>10 DEF c

\* At the beginning and at the end.
LEMMA NoneAndAll ==
  ASSUME NEW ps \in Seq(Portion)
  PROVE  /\ Text(ps, 0) = <<>> /\ Used(ps, 0) = <<>> /\ Rest(ps, Len(ps)) = <<>>
         /\ Text(ps, Len(ps)) = FlattenSeq(ps)
         /\ Used(ps, Len(ps)) = FlattenSeq(Chunks(ps)) /\ Rest(ps, 0) = FlattenSeq(Chunks(ps))
         /\ FlattenSeq(ps) \in Seq(Nat) /\ FlattenSeq(Chunks(ps)) \in Seq(Wire)
  <1> DEFINE cs == Chunks(ps)
             n == Len(ps)
  <1>1. /\ ps \in Seq(Seq(Nat)) /\ n \in Nat /\ cs \in Seq(Seq(Wire)) /\ Len(cs) = n
    BY ChunksAre
  <1> HIDE DEF cs
  <1>2. FlattenSeq(<<>>) = <<>>
    BY DEF FlattenSeq
  <1>3. SubSeq(ps, 1, 0) = <<>> /\ SubSeq(cs, 1, 0) = <<>> /\ SubSeq(cs, n + 1, n) = <<>>
    BY <1>1, SubSeqEmpty
  <1>4. SubSeq(ps, 1, n) = ps /\ SubSeq(cs, 1, n) = cs /\ SubSeq(cs, 0 + 1, n) = cs
    BY <1>1, SubSeqFull
  <1>5. FlattenSeq(ps) \in Seq(Nat) /\ FlattenSeq(cs) \in Seq(Wire)
    BY <1>1, FlattenConcat
  <1> QED
    BY <1>2, <1>3, <1>4, <1>5 DEF Text, Used, Rest, cs

\* A chunk is longer than what it holds.
LEMMA Longer ==
  ASSUME NEW ps \in Seq(Portion)
  PROVE  \A i \in 0..Len(ps) :
           /\ Text(ps, i) \in Seq(Nat) /\ Used(ps, i) \in Seq(Wire)
           /\ Len(Text(ps, i)) + i <= Len(Used(ps, i))
  <1> DEFINE n == Len(ps)
             T == {i \in Nat : /\ Text(ps, i) \in Seq(Nat) /\ Used(ps, i) \in Seq(Wire)
                               /\ Len(Text(ps, i)) + i <= Len(Used(ps, i))}
  <1>1. n \in Nat /\ \A i \in 1..n : ps[i] \in Portion
    BY ChunksAre
  <1>2. 0 \in T
    <2>1. Text(ps, 0) = <<>> /\ Used(ps, 0) = <<>>
      BY NoneAndAll
    <2>2. <<>> \in Seq(Nat) /\ <<>> \in Seq(Wire) /\ Len(<<>>) + 0 <= Len(<<>>)
      BY EmptySeq
    <2> QED
      BY <2>1, <2>2
  <1>3. ASSUME NEW i \in Nat, i \in T, i + 1 <= n
        PROVE  i + 1 \in T
    <2> DEFINE p == ps[i + 1]
               c == Chunk(OwnSalt, 2 * i, p)
    <2>1. /\ Text(ps, i) \in Seq(Nat) /\ Used(ps, i) \in Seq(Wire)
          /\ Text(ps, i + 1) = Text(ps, i) \o p /\ Used(ps, i + 1) = Used(ps, i) \o c
      BY <1>3, OneMore
    <2>2. p \in Portion /\ 2 * i \in Nat
      BY <1>1, <1>3
    <2>3. /\ p \in Seq(Nat) /\ Len(p) \in Nat /\ c \in Seq(Wire)
          /\ Len(c) = 2 + Tag + Len(p) + Tag
      BY <2>2, ChunkIs
    <2>4. Tag \in Nat /\ Len(Text(ps, i)) + i <= Len(Used(ps, i)) /\ i + 1 \in Nat
      BY <1>3, SizesAre
    <2> HIDE DEF p, c
    <2>5. /\ Text(ps, i + 1) \in Seq(Nat) /\ Len(Text(ps, i + 1)) = Len(Text(ps, i)) + Len(p)
          /\ Len(Text(ps, i)) \in Nat
      BY <2>1, <2>3, ConcatProperties, LenProperties
    <2>6. /\ Used(ps, i + 1) \in Seq(Wire) /\ Len(Used(ps, i + 1)) = Len(Used(ps, i)) + Len(c)
          /\ Len(Used(ps, i)) \in Nat
      BY <2>1, <2>3, ConcatProperties, LenProperties
    <2>7. Len(Text(ps, i + 1)) + (i + 1) <= Len(Used(ps, i + 1))
      BY <2>3, <2>4, <2>5, <2>6
    <2> QED
      BY <2>4, <2>5, <2>6, <2>7
  <1>4. \A i \in 0..n : i \in T
    <2> HIDE DEF T, n
    <2> QED
      BY <1>1, <1>2, <1>3, UpTo
  <1> QED
    BY <1>4

\* What decrypt has after i chunks, all of which fit.
ChunksRead(ps, i) == ReadTo(2 * i, Text(ps, i), SaltLen + Len(Used(ps, i)), Rest(ps, i))

LEMMA TurnOnce ==
  ASSUME NEW ps \in Seq(Portion), NEW i \in Nat, i + 1 <= Len(ps),
         NEW max \in Nat, Len(Text(ps, Len(ps))) <= max
  PROVE  NextChunk(ChunksRead(ps, i), max) = ChunksRead(ps, i + 1)
  <1> DEFINE p == ps[i + 1]
             out == Text(ps, i)
             consumed == SaltLen + Len(Used(ps, i))
             rest == Rest(ps, i + 1)
             c == Chunk(OwnSalt, 2 * i, p)
  <1>1. /\ out \in Seq(Nat) /\ Used(ps, i) \in Seq(Wire) /\ rest \in Seq(Wire)
        /\ Text(ps, i + 1) = out \o p
        /\ Used(ps, i + 1) = Used(ps, i) \o c
        /\ Rest(ps, i) = c \o rest
    BY OneMore
  <1>2. p \in Portion /\ 2 * i \in Nat /\ p \in Seq(Nat) /\ c \in Seq(Wire) /\ 2 * i + 2 = 2 * (i + 1)
    <2>1. i + 1 \in 1..Len(ps) /\ 2 * i \in Nat
      BY ChunksAre
    <2>2. p \in Portion
      BY <2>1, ChunksAre
    <2>3. p \in Seq(Nat) /\ c \in Seq(Wire)
      BY <2>1, <2>2, ChunkIs
    <2>4. 2 * i + 2 = 2 * (i + 1)
      OBVIOUS
    <2> QED
      BY <2>1, <2>2, <2>3, <2>4
  <1>3. consumed \in Nat
    BY <1>1, SizesAre, LenProperties
  <1>4. Len(out) + Len(p) <= max
    <2> DEFINE n == Len(ps)
               later == SubSeq(ps, i + 2, n)
    <2>1. ps \in Seq(Seq(Nat)) /\ n \in Nat /\ i + 1 \in 0..n /\ n \in (i + 1)..n /\ i + 1 \in 0..(i + 1)
      BY ChunksAre
    <2>2. SubSeq(ps, 1, i + 1) \o later = SubSeq(ps, 1, n)
      <3>1. i + 1 + 1 = i + 2
        OBVIOUS
      <3>2. SubSeq(ps, 1, i + 1) \o SubSeq(ps, i + 1 + 1, n) = SubSeq(ps, 1, n)
        BY <2>1, FrontNext
      <3> QED
        BY <3>1, <3>2
    <2>3. SubSeq(ps, 1, i + 1) \in Seq(Seq(Nat)) /\ later \in Seq(Seq(Nat))
      <3>1. \A k \in (i + 2)..n : k \in 1..n
        BY <2>1
      <3>2. \A k \in (i + 2)..n : ps[k] \in Seq(Nat)
        BY <2>1, <3>1, ElementOfSeq
      <3>3. i + 2 \in Int /\ n \in Int
        BY <2>1
      <3>4. later \in Seq(Seq(Nat))
        BY <3>2, <3>3, SubSeqProperties
      <3> QED
        BY <2>1, <3>4, FrontOfFront
    <2> HIDE DEF later, n
    <2>4. /\ FlattenSeq(later) \in Seq(Nat) /\ Text(ps, i + 1) \in Seq(Nat)
          /\ Text(ps, n) = Text(ps, i + 1) \o FlattenSeq(later)
      BY <2>2, <2>3, FlattenConcat DEF Text
    <2>5. Len(Text(ps, n)) = Len(Text(ps, i + 1)) + Len(FlattenSeq(later))
          /\ Len(FlattenSeq(later)) \in Nat /\ Len(Text(ps, i + 1)) \in Nat
      BY <2>4, ConcatProperties, LenProperties
    <2>6. Len(Text(ps, i + 1)) = Len(out) + Len(p)
      BY <1>1, <1>2, ConcatProperties
    <2>7. Len(Text(ps, n)) <= max
      BY DEF n
    <2> QED
      BY <2>5, <2>6, <2>7
  <1> HIDE DEF p, out, consumed, rest, c
  <1>5. NextChunk(ReadTo(2 * i, out, consumed, c \o rest), max)
          = ReadTo(2 * i + 2, out \o p, consumed + Len(c), rest)
    BY <1>1, <1>2, <1>3, <1>4, TurnReads DEF c
  <1>6. ChunksRead(ps, i) = ReadTo(2 * i, out, consumed, c \o rest)
    BY <1>1 DEF ChunksRead, out, consumed
  <1>7. consumed + Len(c) = SaltLen + Len(Used(ps, i + 1))
    <2>1. Len(Used(ps, i + 1)) = Len(Used(ps, i)) + Len(c)
      BY <1>1, <1>2, ConcatProperties
    <2>2. Len(Used(ps, i)) \in Nat /\ Len(c) \in Nat /\ SaltLen \in Nat
      BY <1>1, <1>2, SizesAre, LenProperties
    <2> QED
      BY <2>1, <2>2 DEF consumed
  <1>8. ChunksRead(ps, i + 1) = ReadTo(2 * i + 2, out \o p, consumed + Len(c), rest)
    BY <1>1, <1>2, <1>7 DEF ChunksRead, rest
  <1> QED
    BY <1>5, <1>6, <1>8

\* The stream of some pieces, and how long it is.
LEMMA SealedIs ==
  ASSUME NEW ps \in Seq(Portion)
  PROVE  /\ Sealed(ps) \in Seq(Wire)
         /\ Len(Sealed(ps)) = SaltLen + Len(Used(ps, Len(ps)))
         /\ SubSeq(Sealed(ps), 1, SaltLen) = OwnSalt
         /\ SubSeq(Sealed(ps), SaltLen + 1, Len(Sealed(ps))) = Rest(ps, 0)
         /\ Len(ps) < Len(Sealed(ps)) /\ SaltLen <= Len(Sealed(ps))
         /\ Len(Text(ps, Len(ps))) <= Len(Sealed(ps))
  <1> DEFINE n == Len(ps)
             u == Used(ps, n)
             w == Sealed(ps)
  <1>1. /\ u = FlattenSeq(Chunks(ps)) /\ Rest(ps, 0) = u /\ u \in Seq(Wire) /\ n \in Nat
    BY NoneAndAll, LenProperties
  <1>2. OwnSalt \in Seq(Wire) /\ Len(OwnSalt) = SaltLen /\ SaltLen \in Nat \ {0}
    BY SaltBytes
  <1>3. w = OwnSalt \o u
    BY <1>1 DEF Sealed
  <1>4. Text(ps, n) \in Seq(Nat) /\ Len(Text(ps, n)) + n <= Len(u)
    <2>1. n \in 0..n
      BY <1>1
    <2> QED
      BY <2>1, Longer
  <1> HIDE DEF u, w, n
  <1>5. /\ w \in Seq(Wire) /\ Len(w) = SaltLen + Len(u) /\ Len(u) \in Nat
        /\ Len(Text(ps, n)) \in Nat
    BY <1>1, <1>2, <1>3, <1>4, ConcatProperties, LenProperties
  <1>6. SubSeq(w, 1, SaltLen) = OwnSalt /\ SubSeq(w, SaltLen + 1, Len(w)) = u
    BY <1>1, <1>2, <1>3, RestOfConcat
  <1>7. n < Len(w) /\ SaltLen <= Len(w) /\ Len(Text(ps, n)) <= Len(w)
    BY <1>1, <1>2, <1>4, <1>5
  <1> QED
    BY <1>1, <1>5, <1>6, <1>7 DEF u, w, n

\* Where there is nothing left to read, or it has stopped, the loop stays.
LEMMA TurnStops ==
  ASSUME NEW ps \in Seq(Portion), NEW max
  PROVE  LET stop == [ChunksRead(ps, Len(ps)) EXCEPT !.verdict = "stop"]
         IN  /\ NextChunk(ChunksRead(ps, Len(ps)), max) = stop
             /\ NextChunk(stop, max) = stop
             /\ stop.out = Text(ps, Len(ps))
             /\ stop.consumed = SaltLen + Len(Used(ps, Len(ps)))
  <1> DEFINE r == ChunksRead(ps, Len(ps))
             stop == [r EXCEPT !.verdict = "stop"]
  <1>1. r.verdict = "more" /\ r.rem = <<>>
    BY NoneAndAll DEF ChunksRead, ReadTo
  <1>2. Len(r.rem) < 2 + Tag
    BY <1>1, SizesAre, EmptySeq
  <1>3. /\ stop.verdict = "stop" /\ stop.out = Text(ps, Len(ps))
        /\ stop.consumed = SaltLen + Len(Used(ps, Len(ps)))
    BY DEF ChunksRead, ReadTo
  <1> HIDE DEF r
  <1>4. NextChunk(r, max) = stop
    BY <1>1, <1>2, Zenon DEF NextChunk
  <1> HIDE DEF stop
  <1>5. NextChunk(stop, max) = stop
    BY <1>3 DEF NextChunk
  <1> QED
    BY <1>3, <1>4, <1>5 DEF r, stop

\* A fresh decrypter reads the whole of a stream, and what was sealed in it.
THEOREM DecryptsSealed ==
  ASSUME NEW ps \in Seq(Portion)
  PROVE  LET r == Decrypt(NoSalt, Sealed(ps), Len(Sealed(ps)))
         IN  r.out = FlattenSeq(ps) /\ r.consumed = Len(Sealed(ps))
  <1> DEFINE w == Sealed(ps)
             N == Len(w)
             n == Len(ps)
             d == NoSalt
             salted == d.salt = <<>> /\ Len(w) >= SaltLen
             from   == IF salted THEN SaltLen ELSE 0
             dec    == IF salted THEN [salt |-> SubSeq(w, 1, SaltLen), nonce |-> 0] ELSE d
             start  == [verdict |-> IF dec.salt = <<>> THEN "stop" ELSE "more", dec |-> dec,
                        out |-> <<>>, consumed |-> from, rem |-> SubSeq(w, from + 1, Len(w))]
             Loop(f) == f = [i \in 0..Len(w) |->
                               IF i = 0 THEN start ELSE NextChunk(f[i - 1], N)]
             turn == CHOOSE f : Loop(f)
             stop == [ChunksRead(ps, n) EXCEPT !.verdict = "stop"]
             h == [i \in 0..N |-> IF i <= n THEN ChunksRead(ps, i) ELSE stop]
  <1>1. Decrypt(NoSalt, w, N) = turn[N]
    BY DEF Decrypt
  <1>2. /\ N = SaltLen + Len(Used(ps, n)) /\ SubSeq(w, 1, SaltLen) = OwnSalt
        /\ SubSeq(w, SaltLen + 1, N) = Rest(ps, 0) /\ n < N /\ SaltLen <= N
        /\ Len(Text(ps, n)) <= N /\ N \in Nat /\ n \in Nat
    BY SealedIs, LenProperties, ChunksAre
  <1>3. start = ChunksRead(ps, 0)
    <2>1. salted
      BY <1>2, SizesAre DEF NoSalt
    <2>2. from = SaltLen /\ dec = [salt |-> OwnSalt, nonce |-> 0]
      BY <1>2, <2>1
    <2>3. dec.salt # <<>>
      BY <2>2, SaltBytes
    <2>4. /\ Text(ps, 0) = <<>> /\ Used(ps, 0) = <<>> /\ SaltLen + Len(<<>>) = SaltLen
          /\ 2 * 0 = 0
      BY NoneAndAll, SizesAre, EmptySeq
    <2> HIDE DEF from, dec, w
    <2> QED
      BY <1>2, <2>2, <2>3, <2>4 DEF ChunksRead, ReadTo
  <1>4. /\ NextChunk(ChunksRead(ps, n), N) = stop /\ NextChunk(stop, N) = stop
        /\ stop.out = Text(ps, n) /\ stop.consumed = SaltLen + Len(Used(ps, n))
    BY TurnStops
  <1> HIDE DEF w, N, n, start, stop
  <1>5. ASSUME NEW i \in 0..N
        PROVE  h[i] = IF i = 0 THEN start ELSE NextChunk(h[i - 1], N)
    <2>1. CASE i = 0
      BY <1>2, <1>3, <2>1
    <2>2. CASE i # 0 /\ i <= n
      <3>1. i - 1 \in Nat /\ i - 1 + 1 <= n /\ i - 1 + 1 = i /\ i - 1 \in 0..N /\ i - 1 <= n
        BY <1>2, <2>2
      <3>2. NextChunk(ChunksRead(ps, i - 1), N) = ChunksRead(ps, i - 1 + 1)
        BY <1>2, <3>1, TurnOnce DEF n
      <3> QED
        BY <2>2, <3>1, <3>2
    <2>3. CASE i = n + 1
      <3>1. i - 1 = n /\ n \in 0..N /\ n <= n /\ ~(i <= n) /\ i # 0
        BY <1>2, <2>3
      <3>2. h[i] = stop /\ h[i - 1] = ChunksRead(ps, n)
        BY <3>1
      <3> QED
        BY <1>4, <3>1, <3>2
    <2>4. CASE i > n + 1
      <3>1. i - 1 \in 0..N /\ ~(i <= n) /\ ~(i - 1 <= n) /\ i # 0
        BY <1>2, <2>4
      <3>2. h[i] = stop /\ h[i - 1] = stop
        BY <3>1
      <3> QED
        BY <1>4, <3>1, <3>2
    <2> QED
      BY <1>2, <2>1, <2>2, <2>3, <2>4
  <1>6. Loop(h)
    <2>1. \A i \in 0..N : h[i] = IF i = 0 THEN start ELSE NextChunk(h[i - 1], N)
      BY <1>5
    <2>2. h = [i \in 0..N |-> h[i]]
      OBVIOUS
    <2> HIDE DEF h
    <2>3. [i \in 0..N |-> h[i]] = [i \in 0..N |-> IF i = 0 THEN start ELSE NextChunk(h[i - 1], N)]
      BY <2>1
    <2> QED
      BY <2>2, <2>3 DEF N
  <1>7. Loop(turn)
    <2> HIDE DEF Loop
    <2> QED
      BY <1>6
  <1> HIDE DEF h, turn
  <1>8. \A i \in 0..N : turn[i] = IF i = 0 THEN start ELSE NextChunk(turn[i - 1], N)
    <2>1. turn = [i \in 0..N |-> IF i = 0 THEN start ELSE NextChunk(turn[i - 1], N)]
      BY <1>7 DEF N
    <2> QED
      BY <2>1
  <1>9. \A i \in 0..N : i \in {j \in Nat : j <= N => turn[j] = h[j]}
    <2> DEFINE T == {j \in Nat : j <= N => turn[j] = h[j]}
    <2>1. 0 \in T
      <3>1. 0 \in 0..N
        BY <1>2
      <3> QED
        BY <1>5, <1>8, <3>1
    <2>2. ASSUME NEW j \in Nat, j \in T, j + 1 <= N
          PROVE  j + 1 \in T
      <3>1. j + 1 \in 0..N /\ j + 1 # 0 /\ (j + 1) - 1 = j /\ j <= N
        BY <1>2, <2>2
      <3>2. turn[j] = h[j]
        BY <2>2, <3>1
      <3>3. turn[j + 1] = NextChunk(turn[j], N) /\ h[j + 1] = NextChunk(h[j], N)
        BY <1>5, <1>8, <3>1
      <3> QED
        BY <3>1, <3>2, <3>3
    <2> HIDE DEF T
    <2>3. \A i \in 0..N : i \in T
      BY <1>2, <2>1, <2>2, UpTo
    <2> QED
      BY <2>3 DEF T
  <1>10. turn[N] = stop
    <2>1. N \in 0..N /\ N <= N /\ ~(N <= n)
      BY <1>2
    <2> QED
      BY <1>9, <2>1 DEF h
  <1>11. Text(ps, n) = FlattenSeq(ps)
    BY NoneAndAll DEF n
  <1> QED
    BY <1>1, <1>2, <1>4, <1>10, <1>11 DEF w, N

\* And of nothing, nothing.
LEMMA DecryptsNothing ==
  LET r == Decrypt(NoSalt, <<>>, Len(<<>>))
  IN  r.out = <<>> /\ r.consumed = 0
  <1> DEFINE w == <<>>
             d == NoSalt
             salted == d.salt = <<>> /\ Len(w) >= SaltLen
             from   == IF salted THEN SaltLen ELSE 0
             dec    == IF salted THEN [salt |-> SubSeq(w, 1, SaltLen), nonce |-> 0] ELSE d
             start  == [verdict |-> IF dec.salt = <<>> THEN "stop" ELSE "more", dec |-> dec,
                        out |-> <<>>, consumed |-> from, rem |-> SubSeq(w, from + 1, Len(w))]
             Loop(f) == f = [i \in 0..Len(w) |->
                               IF i = 0 THEN start ELSE NextChunk(f[i - 1], Len(w))]
             turn == CHOOSE f : Loop(f)
             h == [i \in 0..Len(w) |-> start]
  <1>1. Decrypt(NoSalt, w, Len(w)) = turn[Len(w)]
    BY DEF Decrypt
  <1>2. ~salted /\ Len(w) = 0
    BY SizesAre DEF NoSalt
  <1>3. start.out = <<>> /\ start.consumed = 0
    <2>1. from = 0
      BY <1>2
    <2> HIDE DEF from
    <2> QED
      BY <2>1
  <1> HIDE DEF start
  <1>4. Loop(h)
    <2>1. \A i \in 0..Len(w) : i = 0
      BY <1>2
    <2> QED
      BY <2>1
  <1>5. Loop(turn)
    <2> HIDE DEF Loop
    <2> QED
      BY <1>4
  <1> HIDE DEF turn
  <1>6. turn[0] = start
    <2>1. 0 \in 0..Len(w)
      BY <1>2
    <2> QED
      BY <1>5, <2>1
  <1> QED
    BY <1>1, <1>2, <1>3, <1>6

(***************************************************************************)
(* encrypt                                                                 *)
(***************************************************************************)
Pieces(plain) == [i \in 1..PieceCount(plain) |-> Piece(plain, i)]

\* Where the i-th piece ends.
End(plain, i) == IF i * MaxChunk < Len(plain) THEN i * MaxChunk ELSE Len(plain)

\* Rounding up.
LEMMA RoundedUp ==
  ASSUME NEW len \in Nat, NEW m \in Nat \ {0}
  PROVE  LET n == (len + m - 1) \div m
         IN  n \in Nat /\ len <= n * m /\ \A i \in Nat : i < n => i * m < len
  <1> DEFINE n == (len + m - 1) \div m
             r == (len + m - 1) % m
  <1>1. len + m - 1 \in Nat /\ m \in Nat /\ m > 0
    OBVIOUS
  <1>2. n \in Nat /\ r \in 0..(m - 1) /\ len + m - 1 = m * n + r
    BY <1>1
  <1> HIDE DEF n, r
  <1>3. m * n = n * m /\ n * m \in Nat
    BY <1>2
  <1>4. len <= n * m
    BY <1>1, <1>2, <1>3
  <1>5. ASSUME NEW i \in Nat, i < n
        PROVE  i * m < len
    <2> DEFINE k == n - 1 - i
    <2>1. k \in Nat /\ n = i + k + 1
      BY <1>2, <1>5
    <2> HIDE DEF k
    <2>2. n * m = i * m + k * m + m
      BY <1>1, <2>1
    <2>3. k * m \in Nat /\ i * m \in Nat
      BY <1>1, <2>1
    <2>4. i * m + m <= n * m
      BY <1>1, <1>3, <2>2, <2>3
    <2> QED
      BY <1>1, <1>2, <1>3, <2>3, <2>4
  <1> QED
    BY <1>2, <1>4, <1>5 DEF n

\* A piece begins where the one before it ends, and fits a chunk.
LEMMA PieceIs ==
  ASSUME NEW plain \in Seq(Nat)
  PROVE  /\ PieceCount(plain) \in Nat
         /\ End(plain, 0) = 0 /\ End(plain, PieceCount(plain)) = Len(plain)
         /\ \A i \in Nat : i + 1 <= PieceCount(plain) =>
              /\ End(plain, i) \in 0..Len(plain)
              /\ End(plain, i + 1) \in End(plain, i)..Len(plain)
              /\ Piece(plain, i + 1) = SubSeq(plain, End(plain, i) + 1, End(plain, i + 1))
              /\ Piece(plain, i + 1) \in Portion
  <1> DEFINE len == Len(plain)
             m == MaxChunk
             n == PieceCount(plain)
  <1>1. len \in Nat /\ m \in Nat \ {0}
    BY SizesAre, LenProperties
  <1>2. n = (len + m - 1) \div m
    BY DEF PieceCount
  <1> HIDE DEF len, m, n
  <1>3. n \in Nat /\ len <= n * m /\ \A i \in Nat : i < n => i * m < len
    BY <1>1, <1>2, RoundedUp
  <1>4. \A i \in Nat : i * m \in Nat /\ (i + 1) * m = i * m + m
    BY <1>1
  <1>5. \A i \in Nat : End(plain, i) = IF i * m < len THEN i * m ELSE len
    BY DEF End, len, m
  <1>6. End(plain, 0) = 0
    <2>1. 0 * m = 0
      BY <1>1
    <2>2. End(plain, 0) = IF 0 < len THEN 0 ELSE len
      BY <1>5, <2>1
    <2> QED
      BY <1>1, <2>2
  <1>7. End(plain, n) = len
    <2>1. n * m \in Nat /\ ~(n * m < len)
      BY <1>1, <1>3, <1>4
    <2> QED
      BY <1>3, <1>5, <2>1
  <1>8. ASSUME NEW i \in Nat, i + 1 <= n
        PROVE  /\ End(plain, i) \in 0..len
               /\ End(plain, i + 1) \in End(plain, i)..len
               /\ Piece(plain, i + 1) = SubSeq(plain, End(plain, i) + 1, End(plain, i + 1))
               /\ Piece(plain, i + 1) \in Portion
    <2> DEFINE b == i * m
               e == End(plain, i + 1)
    <2>1. b \in Nat /\ b < len /\ End(plain, i) = b /\ (i + 1) * m = b + m
      <3>1. i < n
        BY <1>3, <1>8
      <3>2. i * m \in Nat /\ i * m < len /\ (i + 1) * m = i * m + m
        BY <1>3, <1>4, <3>1
      <3> QED
        BY <1>5, <3>2
    <2>2. e = IF b + m < len THEN b + m ELSE len
      BY <1>5, <2>1
    <2> HIDE DEF b, e
    <2>3. e \in Nat /\ b < e /\ e <= len /\ e - b <= m
      BY <1>1, <2>1, <2>2
    <2>4. Piece(plain, i + 1) = SubSeq(plain, b + 1, e)
      <3> DEFINE k == i + 1
      <3>1. (k - 1) * MaxChunk = b /\ End(plain, k) = e
        BY DEF b, m, e
      <3> HIDE DEF k
      <3>2. Piece(plain, k) = SubSeq(plain, (k - 1) * MaxChunk + 1, End(plain, k))
        BY DEF Piece, End
      <3>3. Piece(plain, k) = SubSeq(plain, b + 1, e)
        BY <3>1, <3>2
      <3> QED
        BY <3>3 DEF k
    <2>5. SubSeq(plain, b + 1, e) \in Seq(Nat) /\ Len(SubSeq(plain, b + 1, e)) = e - b
      <3> DEFINE k == e - b
      <3>1. k \in Nat /\ b + k = e /\ b + k <= Len(plain)
        BY <2>1, <2>3 DEF len
      <3> HIDE DEF k
      <3>2. SubSeq(plain, b + 1, b + k) \in Seq(Nat) /\ Len(SubSeq(plain, b + 1, b + k)) = k
        BY <2>1, <3>1, SliceElements
      <3> QED
        BY <3>1, <3>2 DEF k
    <2>6. SubSeq(plain, b + 1, e) \in Portion
      BY <1>1, <2>1, <2>3, <2>5 DEF Portion, m
    <2>7. b \in 0..len /\ e \in b..len
      BY <1>1, <2>1, <2>3
    <2>8. End(plain, i) = b /\ End(plain, i + 1) = e
      BY <2>1 DEF e
    <2>9. Piece(plain, i + 1) \in Portion
      BY <2>4, <2>6
    <2> QED
      BY <2>4, <2>7, <2>8, <2>9
  <1> QED
    BY <1>3, <1>6, <1>7, <1>8 DEF len, n

\* The pieces of a payload are all of it, in order.
LEMMA PiecesCover ==
  ASSUME NEW plain \in Seq(Nat)
  PROVE  /\ Pieces(plain) \in Seq(Portion) /\ Len(Pieces(plain)) = PieceCount(plain)
         /\ FlattenSeq(Pieces(plain)) = plain
  <1> DEFINE n == PieceCount(plain)
             ps == Pieces(plain)
             T == {i \in Nat : i <= n => Text(ps, i) = SubSeq(plain, 1, End(plain, i))}
  <1>1. n \in Nat
    BY PieceIs
  <1>2. \A i \in 1..n : Piece(plain, i) \in Portion
    <2>1. \A i \in 1..n : i - 1 \in Nat /\ (i - 1) + 1 <= n /\ (i - 1) + 1 = i
      BY <1>1
    <2> QED
      BY <2>1, PieceIs
  <1>3. ps \in Seq(Portion) /\ Len(ps) = n /\ \A i \in 1..n : ps[i] = Piece(plain, i)
    <2>1. ps = [i \in 1..n |-> Piece(plain, i)]
      BY DEF Pieces
    <2> HIDE DEF ps, n
    <2>2. ps \in [1..n -> Portion]
      BY <1>2, <2>1
    <2> QED
      BY <1>1, <2>1, <2>2
  <1> HIDE DEF ps, n
  <1>4. 0 \in T
    <2>1. Text(ps, 0) = <<>> /\ End(plain, 0) = 0 /\ SubSeq(plain, 1, 0) = <<>>
      BY <1>3, NoneAndAll, PieceIs, SubSeqEmpty
    <2> QED
      BY <2>1
  <1>5. ASSUME NEW i \in Nat, i \in T, i + 1 <= n
        PROVE  i + 1 \in T
    <2>1. Text(ps, i + 1) = Text(ps, i) \o ps[i + 1]
      BY <1>3, <1>5, OneMore
    <2>2. ps[i + 1] = Piece(plain, i + 1) /\ i <= n
      <3>1. i + 1 \in 1..n /\ i <= n
        BY <1>1, <1>5
      <3> QED
        BY <1>3, <3>1
    <2>3. /\ End(plain, i) \in 0..Len(plain) /\ End(plain, i + 1) \in End(plain, i)..Len(plain)
          /\ Piece(plain, i + 1) = SubSeq(plain, End(plain, i) + 1, End(plain, i + 1))
      BY <1>5, PieceIs DEF n
    <2>4. SubSeq(plain, 1, End(plain, i)) \o SubSeq(plain, End(plain, i) + 1, End(plain, i + 1))
            = SubSeq(plain, 1, End(plain, i + 1))
      BY <2>3, FrontNext
    <2>5. Text(ps, i) = SubSeq(plain, 1, End(plain, i))
      BY <1>5, <2>2
    <2>6. Text(ps, i + 1) = SubSeq(plain, 1, End(plain, i + 1))
      BY <2>1, <2>2, <2>3, <2>4, <2>5
    <2> QED
      BY <2>6
  <1>6. n \in T
    <2>1. n \in 0..n
      BY <1>1
    <2> HIDE DEF T
    <2> QED
      BY <1>1, <1>4, <1>5, <2>1, UpTo
  <1>7. Text(ps, n) = FlattenSeq(ps)
    BY <1>3, NoneAndAll
  <1>8. SubSeq(plain, 1, End(plain, n)) = plain
    BY PieceIs, SubSeqFull DEF n
  <1>9. FlattenSeq(ps) = plain
    <2>1. Text(ps, n) = SubSeq(plain, 1, End(plain, n))
      BY <1>1, <1>6
    <2> QED
      BY <1>7, <1>8, <2>1
  <1> QED
    BY <1>3, <1>9 DEF n, ps

\* More pieces, sealed with the nonces that follow, are put behind the rest.
LEMMA MorePieces ==
  ASSUME NEW ps \in Seq(Portion), NEW qs \in Seq(Portion)
  PROVE  LET more == [i \in 1..Len(qs) |-> Chunk(OwnSalt, NonceOf(2 * Len(ps), i), qs[i])]
         IN  /\ ps \o qs \in Seq(Portion) /\ Len(ps \o qs) = Len(ps) + Len(qs)
             /\ more \in Seq(Seq(Wire)) /\ FlattenSeq(more) \in Seq(Wire)
             /\ Sealed(ps \o qs) = Sealed(ps) \o FlattenSeq(more)
             /\ FlattenSeq(ps \o qs) = FlattenSeq(ps) \o FlattenSeq(qs)
  <1> DEFINE n == Len(ps)
             k == Len(qs)
             all == ps \o qs
             more == [i \in 1..k |-> Chunk(OwnSalt, NonceOf(2 * n, i), qs[i])]
  <1>1. /\ n \in Nat /\ k \in Nat /\ all \in Seq(Portion) /\ Len(all) = n + k
        /\ \A i \in 1..(n + k) : all[i] = IF i <= n THEN ps[i] ELSE qs[i - n]
    BY ConcatProperties, LenProperties
  <1> HIDE DEF n, k, all
  <1>2. ASSUME NEW i \in 1..k
        PROVE  /\ more[i] = Chunk(OwnSalt, 2 * (n + i - 1), qs[i]) /\ more[i] \in Seq(Wire)
               /\ qs[i] \in Portion
    <2>1. 2 * n + 2 * (i - 1) = 2 * (n + i - 1) /\ 2 * (n + i - 1) \in Nat
      BY <1>1
    <2>2. NonceOf(2 * n, i) = 2 * (n + i - 1)
      BY <2>1 DEF NonceOf
    <2>3. qs[i] \in Portion
      BY ElementOfSeq DEF k
    <2>4. Chunk(OwnSalt, 2 * (n + i - 1), qs[i]) \in Seq(Wire)
      BY <2>1, <2>3, ChunkIs
    <2> QED
      BY <2>2, <2>3, <2>4
  <1>3. more \in Seq(Seq(Wire)) /\ Len(more) = k
    <2>1. more = [i \in 1..k |-> more[i]]
      OBVIOUS
    <2> HIDE DEF more
    <2>2. more \in [1..k -> Seq(Wire)]
      BY <1>2, <2>1
    <2> QED
      BY <1>1, <2>1, <2>2
  <1> HIDE DEF more
  <1>4. Chunks(all) = Chunks(ps) \o more
    <2>1. /\ Chunks(all) \in Seq(Seq(Wire)) /\ Len(Chunks(all)) = n + k
          /\ \A i \in 1..(n + k) : Chunks(all)[i] = Chunk(OwnSalt, 2 * (i - 1), all[i])
      BY <1>1, ChunksAre
    <2>2. /\ Chunks(ps) \in Seq(Seq(Wire)) /\ Len(Chunks(ps)) = n
          /\ \A i \in 1..n : Chunks(ps)[i] = Chunk(OwnSalt, 2 * (i - 1), ps[i])
      BY ChunksAre DEF n
    <2> DEFINE cs == Chunks(ps)
    <2> HIDE DEF cs
    <2>3. /\ cs \o more \in Seq(Seq(Wire)) /\ Len(cs \o more) = n + k
          /\ \A i \in 1..(n + k) : (cs \o more)[i] = IF i <= n THEN cs[i] ELSE more[i - n]
      BY <1>3, <2>2, ConcatProperties DEF cs
    <2>4. ASSUME NEW i \in 1..(n + k)
          PROVE  Chunks(all)[i] = (cs \o more)[i]
      <3>1. CASE i <= n
        <4>1. i \in 1..n /\ all[i] = ps[i] /\ (cs \o more)[i] = cs[i]
          BY <1>1, <2>3, <3>1
        <4> QED
          BY <2>1, <2>2, <4>1 DEF cs
      <3>2. CASE ~(i <= n)
        <4> DEFINE j == i - n
        <4>1. j \in 1..k /\ 2 * (n + j - 1) = 2 * (i - 1)
          BY <1>1, <3>2
        <4>2. all[i] = qs[j] /\ (cs \o more)[i] = more[j]
          BY <1>1, <2>3, <3>2
        <4> HIDE DEF j
        <4>3. more[j] = Chunk(OwnSalt, 2 * (i - 1), qs[j])
          BY <1>2, <4>1
        <4> QED
          BY <2>1, <4>2, <4>3
      <3> QED
        BY <3>1, <3>2
    <2>5. Chunks(all) = cs \o more
      BY <2>1, <2>3, <2>4, SeqEqual
    <2> QED
      BY <2>5 DEF cs
  <1>5. /\ FlattenSeq(more) \in Seq(Wire) /\ FlattenSeq(Chunks(ps)) \in Seq(Wire)
        /\ FlattenSeq(Chunks(all)) = FlattenSeq(Chunks(ps)) \o FlattenSeq(more)
    <2>1. Chunks(ps) \in Seq(Seq(Wire))
      BY ChunksAre
    <2> QED
      BY <1>3, <1>4, <2>1, FlattenConcat
  <1>6. Sealed(all) = Sealed(ps) \o FlattenSeq(more)
    <2> DEFINE f == FlattenSeq(Chunks(ps))
               g == FlattenSeq(more)
    <2>1. f \in Seq(Wire) /\ g \in Seq(Wire) /\ OwnSalt \in Seq(Wire)
          /\ Sealed(all) = OwnSalt \o (f \o g) /\ Sealed(ps) = OwnSalt \o f
      BY <1>5, SaltBytes DEF Sealed
    <2> HIDE DEF f, g
    <2>2. (OwnSalt \o f) \o g = OwnSalt \o (f \o g)
      BY <2>1, ConcatAssociative
    <2>3. Sealed(all) = Sealed(ps) \o g
      BY <2>1, <2>2
    <2> QED
      BY <2>3 DEF g
  <1>7. FlattenSeq(all) = FlattenSeq(ps) \o FlattenSeq(qs)
    <2>1. ps \in Seq(Seq(Nat)) /\ qs \in Seq(Seq(Nat))
      BY ChunksAre
    <2> QED
      BY <2>1, FlattenConcat DEF all
  <1> QED
    BY <1>1, <1>3, <1>5, <1>6, <1>7 DEF n, k, all, more

\* The cipher state after the pieces ps: none before the first write.
Fresh(enc, ps)  == enc = NoSalt /\ ps = <<>>
Behind(enc, ps) == enc = [salt |-> OwnSalt, nonce |-> 2 * Len(ps)]

\* A write seals the pieces of its payload behind those before it, and the
\* first one has the salt in front.
LEMMA EncryptSeals ==
  ASSUME NEW ps \in Seq(Portion), NEW plain \in Seq(Nat), NEW enc,
         Fresh(enc, ps) \/ Behind(enc, ps)
  PROVE  LET r   == Encrypt(enc, plain)
             all == ps \o Pieces(plain)
         IN  /\ all \in Seq(Portion) /\ FlattenSeq(all) = FlattenSeq(ps) \o plain
             /\ Behind(r.enc, all)
             /\ r.out \in Seq(Wire)
             /\ Fresh(enc, ps) => r.out = Sealed(all)
             /\ Behind(enc, ps) => Sealed(all) = Sealed(ps) \o r.out
  <1> DEFINE r == Encrypt(enc, plain)
             qs == Pieces(plain)
             all == ps \o qs
             n == PieceCount(plain)
             nonce == 2 * Len(ps)
             more == [i \in 1..Len(qs) |-> Chunk(OwnSalt, NonceOf(nonce, i), qs[i])]
             sent == FlattenSeq([i \in 1..n |->
                       Chunk(OwnSalt, NonceOf(nonce, i), Piece(plain, i))])
  <1>1. qs \in Seq(Portion) /\ Len(qs) = n /\ FlattenSeq(qs) = plain /\ n \in Nat
    BY PiecesCover, PieceIs
  <1>2. sent = FlattenSeq(more)
    <2>1. \A i \in 1..n : qs[i] = Piece(plain, i)
      BY DEF Pieces
    <2>2. [i \in 1..n |-> Chunk(OwnSalt, NonceOf(nonce, i), Piece(plain, i))] = more
      <3> HIDE DEF qs, n, nonce
      <3> QED
        BY <1>1, <2>1
    <2> QED
      BY <2>2
  <1>3. /\ all \in Seq(Portion) /\ Len(all) = Len(ps) + n
        /\ sent \in Seq(Wire) /\ Sealed(all) = Sealed(ps) \o sent
        /\ FlattenSeq(all) = FlattenSeq(ps) \o plain
    <2> HIDE DEF qs, sent, n
    <2> QED
      BY <1>1, <1>2, MorePieces
  <1>4. Len(ps) \in Nat /\ nonce + 2 * (n + 1 - 1) = 2 * (Len(ps) + n)
    BY <1>1, LenProperties
  <1>5. NonceOf(nonce, n + 1) = 2 * Len(all)
    <2> DEFINE k == n + 1
    <2> HIDE DEF all, n, nonce
    <2>1. nonce + 2 * (k - 1) = 2 * Len(all)
      <3>1. Len(ps) \in Nat /\ n \in Nat /\ nonce = 2 * Len(ps) /\ Len(all) = Len(ps) + n
        BY <1>1, <1>3, <1>4 DEF nonce
      <3> QED
        BY <3>1
    <2> HIDE DEF k
    <2>2. NonceOf(nonce, k) = nonce + 2 * (k - 1)
      BY DEF NonceOf
    <2> QED
      BY <2>1, <2>2 DEF k
  <1>6. CASE Fresh(enc, ps)
    <2>1. enc.salt = <<>> /\ nonce = 0 /\ ps = <<>>
      BY <1>6, EmptySeq DEF Fresh, NoSalt
    <2>2. r = [out |-> OwnSalt \o sent, enc |-> [salt |-> OwnSalt, nonce |-> NonceOf(nonce, n + 1)]]
      <3> HIDE DEF n, nonce
      <3> QED
        BY <2>1, Zenon DEF Encrypt, n
    <2>3. Sealed(ps) = OwnSalt
      <3>1. FlattenSeq(Chunks(ps)) = <<>>
        BY <2>1, NoneAndAll, EmptySeq
      <3> QED
        BY <3>1, SaltBytes, ConcatEmptySeq DEF Sealed
    <2>4. ~Behind(enc, ps)
      BY <1>6, SaltBytes DEF Fresh, Behind, NoSalt
    <2>5. OwnSalt \o sent \in Seq(Wire)
      BY <1>3, SaltBytes, ConcatProperties
    <2> HIDE DEF r, sent, nonce, n, qs, all
    <2> QED
      BY <1>3, <1>5, <2>2, <2>3, <2>4, <2>5 DEF Behind, all, qs, r
  <1>7. CASE Behind(enc, ps)
    <2>1. enc.salt = OwnSalt /\ enc.nonce = nonce /\ OwnSalt # <<>>
      BY <1>7, SaltBytes DEF Behind
    <2>2. r = [out |-> <<>> \o sent, enc |-> [salt |-> OwnSalt, nonce |-> NonceOf(nonce, n + 1)]]
      <3> HIDE DEF n, nonce
      <3> QED
        BY <2>1, Zenon DEF Encrypt, n
    <2>3. <<>> \o sent = sent
      BY <1>3, ConcatEmptySeq
    <2>4. ~Fresh(enc, ps)
      BY <1>7, SaltBytes DEF Fresh, Behind, NoSalt
    <2> HIDE DEF r, sent, nonce, n, qs, all
    <2> QED
      BY <1>3, <1>5, <2>2, <2>3, <2>4 DEF Behind, all, qs, r
  <1> QED
    BY <1>6, <1>7

(***************************************************************************)
(* The invariant                                                           *)
(***************************************************************************)
ToCome == SubSeq(Down, 1, ndown - Len(msg))
OnTheWay == toUser \o FlattenSeq(writes)

\* What the parser knows of the connection, if anything.
ParserOf(state) == state = <<>> \/ \E sc : state = <<sc>> /\ "enc" \in DOMAIN sc
Enc(state) == IF state = <<>> THEN NoSalt ELSE state[1].enc

\* As long as the connection is open, what goes to the user is a stream of
\* pieces, the cipher is behind the last of them, and they hold what the
\* server has sent; before there is any there is no salt.
Conveys(state, wire, text, open) ==
  \E ps \in Seq(Portion) :
    /\ \/ Fresh(Enc(state), ps) /\ (open => wire = <<>>)
       \/ Behind(Enc(state), ps) /\ (open => wire = Sealed(ps))
    /\ open => text = FlattenSeq(ps)

WayTypeOK ==
  /\ ndown \in 0..Len(Down)
  /\ msg = <<>> \/ (ndown # 0 /\ msg = <<Down[ndown]>>)
  /\ writes \in Seq(Seq(Wire)) /\ toUser \in Seq(Wire)

InTheClear ==
  script.mode # "shadowsocks" /\ conn = "open" => OnTheWay = FlattenSeq(ToCome)

InTheStream ==
  script.mode = "shadowsocks" =>
    /\ ParserOf(parser)
    /\ Conveys(parser, OnTheWay, FlattenSeq(ToCome), conn = "open")

WayInv == WayTypeOK /\ InTheClear /\ InTheStream

\* What parsing leaves of the connection: its cipher as it was.
Keeps(state) == ParserOf(state) /\ Enc(state) = Enc(parser)

LEMMA ParseKeeps ==
  ASSUME script.mode = "shadowsocks", ParserOf(parser)
  PROVE  IF Result.status = "rejected"
           THEN Result.state = <<>>
           ELSE Keeps(Result.state)
  <1> DEFINE sc == IF parser = <<>> THEN NewConn ELSE parser[1]
             r == Decrypt(sc.dec, Buffer, MaxPayload)
             s == [sc EXCEPT !.dec = r.dec]
  <1>1. "enc" \in DOMAIN sc /\ sc.enc = Enc(parser)
    BY DEF NewConn, ParserOf, Enc
  <1> HIDE DEF sc
  <1>2. "enc" \in DOMAIN s /\ s.enc = Enc(parser)
    BY <1>1
  <1> HIDE DEF s, r
  <1>3. \A t : "enc" \in DOMAIN t /\ t.enc = Enc(parser) => Keeps(<<t>>)
    BY DEF Keeps, ParserOf, Enc
  <1>4. CASE HasDest
    <2>1. Result.state = parser /\ Result.status = "done"
      BY <1>4 DEF Result, ParseDoneRequest, ParseNeedMoreData
    <2>2. Keeps(parser)
      BY DEF Keeps
    <2> QED
      BY <2>1, <2>2
  <1>5. CASE ~HasDest
    <2>1. Result = ParseShadowsocks(parser, Buffer)
      BY <1>5, Zenon DEF Result, Parse
    <2>2. ParseShadowsocks(parser, Buffer)
            = IF r.verdict = "error" THEN ParseRejected
              ELSE IF r.out = <<>>
                THEN [ParseNeedMoreData(<<s>>) EXCEPT !.consumed = r.consumed]
              ELSE IF sc.addrDone THEN ParseDoneDecoded(sc.dest, r.out, r.consumed, <<s>>)
              ELSE ParseAddress(s, r.out, r.consumed)
      BY DEF ParseShadowsocks, sc, r, s
    <2> DEFINE Fine(a) == IF a.status = "rejected" THEN a.state = <<>> ELSE Keeps(a.state)
    <2>3. Fine(ParseRejected)
      BY DEF ParseRejected, ParseNeedMoreData
    <2>4. ASSUME NEW t, NEW n, Keeps(t)
          PROVE  Fine([ParseNeedMoreData(t) EXCEPT !.consumed = n])
      <3>1. /\ [ParseNeedMoreData(t) EXCEPT !.consumed = n].state = t
            /\ [ParseNeedMoreData(t) EXCEPT !.consumed = n].status = "more"
        BY DEF ParseNeedMoreData
      <3> QED
        BY <2>4, <3>1
    <2>5. ASSUME NEW d, NEW p, NEW n, NEW t, Keeps(t)
          PROVE  Fine(ParseDoneDecoded(d, p, n, t))
      <3>1. /\ ParseDoneDecoded(d, p, n, t).state = t
            /\ ParseDoneDecoded(d, p, n, t).status = "done"
        BY DEF ParseDoneDecoded, ParseNeedMoreData
      <3> QED
        BY <2>5, <3>1
    <2> HIDE DEF Fine
    <2>6. Fine(ParseAddress(s, r.out, r.consumed))
      <3> DEFINE text == Kept(s, r.out)
                 n == AddressLen(text)
                 t1 == [s EXCEPT !.plaintext = text]
                 t2 == [s EXCEPT !.plaintext = <<>>, !.addrDone = TRUE, !.dest = Address(text)]
      <3>1. Keeps(<<t1>>)
        BY <1>2, <1>3
      <3>2. Keeps(<<t2>>)
        <4>1. "enc" \in DOMAIN t2 /\ t2.enc = Enc(parser)
          BY <1>2
        <4> QED
          BY <1>3, <4>1
      <3>3. ParseAddress(s, r.out, r.consumed)
              = IF AddressInvalid(text) THEN ParseRejected
                ELSE IF ~AddressComplete(text)
                  THEN [ParseNeedMoreData(<<t1>>) EXCEPT !.consumed = r.consumed]
                ELSE ParseDoneDecoded(Address(text), SubSeq(text, n + 1, Len(text)), r.consumed, <<t2>>)
        BY Zenon DEF ParseAddress
      <3> HIDE DEF text, n, t1, t2
      <3>4. CASE AddressInvalid(text)
        BY <2>3, <3>3, <3>4
      <3>5. CASE ~AddressInvalid(text) /\ ~AddressComplete(text)
        <4>1. Fine([ParseNeedMoreData(<<t1>>) EXCEPT !.consumed = r.consumed])
          BY <2>4, <3>1
        <4> QED
          BY <3>3, <3>5, <4>1
      <3>6. CASE ~AddressInvalid(text) /\ AddressComplete(text)
        <4>1. Fine(ParseDoneDecoded(Address(text), SubSeq(text, n + 1, Len(text)), r.consumed, <<t2>>))
          BY <2>5, <3>2
        <4> QED
          BY <3>3, <3>6, <4>1
      <3> QED
        BY <3>4, <3>5, <3>6
    <2>7. Keeps(<<s>>)
      BY <1>2, <1>3
    <2>8. Fine(Result)
      <3>1. Fine([ParseNeedMoreData(<<s>>) EXCEPT !.consumed = r.consumed])
        BY <2>4, <2>7
      <3>2. Fine(ParseDoneDecoded(sc.dest, r.out, r.consumed, <<s>>))
        BY <2>5, <2>7
      <3>3. CASE r.verdict = "error"
        BY <2>1, <2>2, <2>3, <3>3
      <3>4. CASE r.verdict # "error" /\ r.out = <<>>
        BY <2>1, <2>2, <3>1, <3>4
      <3>5. CASE r.verdict # "error" /\ r.out # <<>> /\ sc.addrDone
        BY <2>1, <2>2, <3>2, <3>5
      <3>6. CASE r.verdict # "error" /\ r.out # <<>> /\ ~sc.addrDone
        BY <2>1, <2>2, <2>6, <3>6
      <3> QED
        BY <3>3, <3>4, <3>5, <3>6
    <2> QED
      BY <2>8 DEF Fine
  <1> QED
    BY <1>4, <1>5

LEMMA InitWay == Init => WayInv
  <1> SUFFICES ASSUME Init PROVE WayInv
    OBVIOUS
  <1>1. /\ ndown = 0 /\ msg = <<>> /\ writes = <<>> /\ toUser = <<>> /\ parser = <<>>
    BY DEF Init
  <1>2. Len(Down) \in Nat /\ <<>> \in Seq(Seq(Wire)) /\ <<>> \in Seq(Wire)
    BY UserConnAssumption, LenProperties, EmptySeq
  <1>3. WayTypeOK
    <2>1. ndown \in 0..Len(Down)
      BY <1>1, <1>2
    <2>2. writes \in Seq(Seq(Wire)) /\ toUser \in Seq(Wire) /\ msg = <<>>
      BY <1>1, <1>2
    <2> QED
      BY <2>1, <2>2 DEF WayTypeOK
  <1>4. ToCome = <<>>
    BY <1>1, SubSeqEmpty, EmptySeq DEF ToCome
  <1>5. FlattenSeq(<<>>) = <<>> /\ <<>> \o <<>> = <<>>
    BY <1>2, ConcatEmptySeq DEF FlattenSeq
  <1>6. OnTheWay = <<>> /\ FlattenSeq(ToCome) = <<>>
    BY <1>1, <1>4, <1>5 DEF OnTheWay
  <1>7. Conveys(parser, OnTheWay, FlattenSeq(ToCome), conn = "open")
    <2>1. <<>> \in Seq(Portion)
      BY EmptySeq
    <2>2. Fresh(Enc(parser), <<>>)
      BY <1>1 DEF Fresh, Enc
    <2>3. OnTheWay = <<>> /\ FlattenSeq(ToCome) = FlattenSeq(<<>>)
      BY <1>5, <1>6
    <2> QED
      BY <2>1, <2>2, <2>3, Zenon DEF Conveys
  <1> QED
    BY <1>1, <1>3, <1>6, <1>7 DEF WayInv, InTheClear, InTheStream, ParserOf

\* Where only the parser moves, and its cipher stays.
LEMMA ParserMoves ==
  ASSUME WayInv, UNCHANGED <<script, ndown, msg, writes, toUser>>,
         conn' \in {conn, "closing", "closed"},
         script.mode = "shadowsocks" =>
           ParserOf(parser') /\ (Enc(parser') = Enc(parser) \/ (conn' # "open" /\ parser' = <<>>))
  PROVE  WayInv'
  <1>1. WayTypeOK'
    BY DEF WayInv, WayTypeOK
  <1>2. OnTheWay' = OnTheWay /\ ToCome' = ToCome
    BY DEF OnTheWay, ToCome
  <1>3. InTheClear'
    BY <1>2 DEF WayInv, InTheClear
  <1>4. InTheStream'
    <2> SUFFICES ASSUME script.mode = "shadowsocks"
                 PROVE  Conveys(parser', OnTheWay, FlattenSeq(ToCome), conn' = "open")
      BY <1>2 DEF InTheStream
    <2>1. CASE Enc(parser') = Enc(parser)
      <3>1. conn' = "open" => conn = "open"
        OBVIOUS
      <3>2. Conveys(parser, OnTheWay, FlattenSeq(ToCome), conn = "open")
        BY DEF WayInv, InTheStream
      <3> QED
        BY <2>1, <3>1, <3>2 DEF Conveys
    <2>2. CASE conn' # "open" /\ parser' = <<>>
      <3>1. Fresh(Enc(parser'), <<>>) /\ <<>> \in Seq(Portion)
        BY <2>2, EmptySeq DEF Fresh, Enc
      <3> QED
        BY <2>2, <3>1 DEF Conveys
    <2> QED
      BY <2>1, <2>2
  <1> QED
    BY <1>1, <1>3, <1>4 DEF WayInv

\* The next payload of the server.
LEMMA PayloadIs ==
  ASSUME WayTypeOK, msg # <<>>
  PROVE  /\ msg[1] \in Seq(Nat) /\ msg[1] \in Seq(Wire) /\ Len(msg) = 1
         /\ ToCome \in Seq(Seq(Nat)) /\ SubSeq(Down, 1, ndown) = Append(ToCome, msg[1])
         /\ FlattenSeq(ToCome) \in Seq(Nat)
         /\ FlattenSeq(SubSeq(Down, 1, ndown)) = FlattenSeq(ToCome) \o msg[1]
  <1> DEFINE k == ndown - 1
  <1>1. ndown \in 1..Len(Down) /\ msg = <<Down[ndown]>>
    BY DEF WayTypeOK
  <1>2. Down \in Seq(Seq(Nat))
    <2>1. Seq(Byte) \subseteq Seq(Nat)
      <3>1. Byte \subseteq Nat
        BY DEF Byte
      <3> QED
        BY <3>1, SeqMonotonic
    <2> QED
      BY <2>1, UserConnAssumption, SeqMonotonic
  <1>3. Len(Down) \in Nat /\ k \in Nat /\ k + 1 = ndown /\ k + 1 <= Len(Down)
    BY <1>1, <1>2, LenProperties
  <1>4. msg[1] = Down[ndown] /\ Len(msg) = 1
    BY <1>1
  <1>5. ToCome = SubSeq(Down, 1, k)
    BY <1>4 DEF ToCome
  <1> HIDE DEF k
  <1>6. /\ SubSeq(Down, 1, k) \in Seq(Seq(Nat)) /\ Down[k + 1] \in Seq(Nat)
        /\ SubSeq(Down, 1, k + 1) = Append(SubSeq(Down, 1, k), Down[k + 1])
    BY <1>2, <1>3, FrontAppend
  <1>7. /\ ToCome \in Seq(Seq(Nat)) /\ msg[1] \in Seq(Nat)
        /\ SubSeq(Down, 1, ndown) = Append(ToCome, msg[1])
    BY <1>3, <1>4, <1>5, <1>6
  <1>8. msg[1] \in Seq(Wire)
    <2>1. Nat \subseteq Wire
      BY DEF Wire
    <2> QED
      BY <1>7, <2>1, SeqMonotonic
  <1> QED
    BY <1>4, <1>7, <1>8, FlattenAppend

\* The rest of the loop's turns and closes: they move the parser at most.
LEMMA LoopSteps ==
  ASSUME WayInv, Read \/ TurnNeedsMore \/ TurnRejected \/ TurnForwards \/ OnClose
  PROVE  WayInv'
  <1>1. script.mode = "shadowsocks" => ParserOf(parser)
    BY DEF WayInv, InTheStream
  <1>2. CASE Read
    <2>1. UNCHANGED <<script, ndown, msg, writes, toUser, parser, conn>>
      BY <1>2 DEF Read, downVars
    <2> QED
      BY <1>1, <2>1, ParserMoves
  <1>3. CASE TurnNeedsMore
    <2>1. /\ UNCHANGED <<script, ndown, msg, writes, toUser, conn>>
          /\ parser' = Result.state /\ Result.status # "rejected"
      BY <1>3 DEF TurnNeedsMore, downVars
    <2>2. script.mode = "shadowsocks" => Keeps(parser')
      BY <1>1, <2>1, ParseKeeps
    <2> QED
      BY <2>1, <2>2, ParserMoves DEF Keeps
  <1>4. CASE TurnRejected
    <2>1. /\ UNCHANGED <<script, ndown, msg, writes, toUser>>
          /\ parser' = Result.state /\ Result.status = "rejected" /\ conn' = "closing"
      BY <1>4 DEF TurnRejected, downVars
    <2>2. script.mode = "shadowsocks" => ParserOf(parser') /\ (Enc(parser') = Enc(parser) \/ parser' = <<>>)
      BY <1>1, <2>1, ParseKeeps DEF ParserOf
    <2> QED
      BY <2>1, <2>2, ParserMoves
  <1>5. CASE TurnForwards
    <2>1. /\ UNCHANGED <<script, ndown, msg, writes, toUser, conn>>
          /\ parser' = Result.state /\ Result.status # "rejected"
      BY <1>5 DEF TurnForwards, downVars
    <2>2. script.mode = "shadowsocks" => Keeps(parser')
      BY <1>1, <2>1, ParseKeeps
    <2> QED
      BY <2>1, <2>2, ParserMoves DEF Keeps
  <1>6. CASE OnClose
    <2>1. /\ UNCHANGED <<script, ndown, msg, writes, toUser>>
          /\ parser' = <<>> /\ conn' = "closed"
      BY <1>6 DEF OnClose, downVars
    <2>2. ParserOf(parser')
      BY <2>1 DEF ParserOf
    <2> QED
      BY <2>1, <2>2, ParserMoves
  <1> QED
    BY <1>2, <1>3, <1>4, <1>5, <1>6

LEMMA HandleStep ==
  ASSUME WayInv, HandleServerMsg
  PROVE  WayInv'
  <1>1. /\ msg = <<>> /\ ndown < Len(Down) /\ ndown' = ndown + 1 /\ msg' = <<Down[ndown']>>
        /\ UNCHANGED <<script, parser, conn, writes, toUser>>
    BY DEF HandleServerMsg
  <1>2. ndown \in 0..Len(Down) /\ Len(Down) \in Nat
    BY UserConnAssumption, LenProperties DEF WayInv, WayTypeOK
  <1>3. WayTypeOK'
    <2>1. ndown' \in 0..Len(Down) /\ ndown' # 0
      BY <1>1, <1>2
    <2> QED
      BY <1>1, <2>1 DEF WayInv, WayTypeOK
  <1>4. ToCome' = ToCome /\ OnTheWay' = OnTheWay
    <2>1. Len(msg) = 0 /\ Len(msg') = 1
      BY <1>1
    <2>2. ndown' - Len(msg') = ndown - Len(msg)
      BY <1>1, <1>2, <2>1
    <2> QED
      BY <1>1, <2>2 DEF ToCome, OnTheWay
  <1> QED
    BY <1>1, <1>3, <1>4 DEF WayInv, InTheClear, InTheStream

\* What one more write puts behind what is on its way.
LEMMA OneMoreWrite ==
  ASSUME WayTypeOK, NEW w \in Seq(Wire)
  PROVE  /\ Append(writes, w) \in Seq(Seq(Wire))
         /\ OnTheWay \in Seq(Wire)
         /\ toUser \o FlattenSeq(Append(writes, w)) = OnTheWay \o w
  <1>1. writes \in Seq(Seq(Wire)) /\ toUser \in Seq(Wire)
    BY DEF WayTypeOK
  <1>2. FlattenSeq(writes) \in Seq(Wire) /\ FlattenSeq(Append(writes, w)) = FlattenSeq(writes) \o w
    BY <1>1, FlattenAppend
  <1>3. (toUser \o FlattenSeq(writes)) \o w = toUser \o (FlattenSeq(writes) \o w)
    BY <1>1, <1>2, ConcatAssociative
  <1> QED
    BY <1>1, <1>2, <1>3, ConcatProperties, AppendProperties DEF OnTheWay

LEMMA WriteStep ==
  ASSUME WayInv, WriteToUser
  PROVE  WayInv'
  <1>1. msg # <<>> /\ msg' = <<>> /\ UNCHANGED <<script, ndown, toUser>>
    BY DEF WriteToUser
  <1>2. /\ msg[1] \in Seq(Nat) /\ msg[1] \in Seq(Wire)
        /\ FlattenSeq(ToCome) \in Seq(Nat)
        /\ FlattenSeq(SubSeq(Down, 1, ndown)) = FlattenSeq(ToCome) \o msg[1]
    BY <1>1, PayloadIs DEF WayInv
  <1>3. FlattenSeq(ToCome') = FlattenSeq(ToCome) \o msg[1]
    <2>1. ndown' - Len(msg') = ndown
      BY <1>1 DEF WayInv, WayTypeOK
    <2> QED
      BY <1>2, <2>1 DEF ToCome
  <1>4. WayTypeOK
    BY DEF WayInv
  <1>5. writes' \in Seq(Seq(Wire)) => WayTypeOK'
    BY <1>1, <1>4 DEF WayTypeOK
  <1>6. CASE script.mode # "shadowsocks"
    <2>1. writes' = Append(writes, msg[1]) /\ UNCHANGED <<parser, conn>>
      BY <1>6 DEF WriteToUser
    <2>2. writes' \in Seq(Seq(Wire)) /\ OnTheWay' = OnTheWay \o msg[1]
      BY <1>1, <1>2, <1>4, <2>1, OneMoreWrite DEF OnTheWay
    <2>3. InTheClear'
      <3>1. conn' = "open" => OnTheWay = FlattenSeq(ToCome)
        BY <1>6, <2>1 DEF WayInv, InTheClear
      <3> QED
        BY <1>3, <2>2, <3>1 DEF InTheClear
    <2> QED
      BY <1>1, <1>5, <1>6, <2>2, <2>3 DEF WayInv, InTheStream
  <1>7. CASE script.mode = "shadowsocks" /\ parser = <<>>
    <2>1. UNCHANGED <<parser, writes>> /\ conn' # "open"
      BY <1>7 DEF WriteToUser
    <2>2. Fresh(Enc(parser'), <<>>) /\ <<>> \in Seq(Portion)
      BY <1>7, <2>1, EmptySeq DEF Fresh, Enc
    <2>3. Conveys(parser', OnTheWay', FlattenSeq(ToCome'), conn' = "open")
      BY <2>1, <2>2 DEF Conveys
    <2>4. ParserOf(parser')
      BY <1>7, <2>1 DEF ParserOf
    <2> QED
      BY <1>1, <1>4, <1>5, <1>7, <2>1, <2>3, <2>4
         DEF WayInv, WayTypeOK, InTheClear, InTheStream
  <1>8. CASE script.mode = "shadowsocks" /\ parser # <<>>
    <2> DEFINE enc == Enc(parser)
               r == Encrypt(enc, msg[1])
    <2>1. /\ parser' = <<[parser[1] EXCEPT !.enc = r.enc]>>
          /\ writes' = Append(writes, r.out) /\ conn' = conn
      BY <1>8 DEF WriteToUser, EncodePayload, Enc
    <2>2. "enc" \in DOMAIN parser[1]
      BY <1>8 DEF WayInv, InTheStream, ParserOf
    <2>3. ParserOf(parser') /\ Enc(parser') = r.enc
      <3> DEFINE t == [parser[1] EXCEPT !.enc = r.enc]
      <3>1. "enc" \in DOMAIN t /\ t.enc = r.enc
        BY <2>2
      <3> HIDE DEF t
      <3>2. parser' = <<t>>
        BY <2>1 DEF t
      <3> QED
        BY <3>1, <3>2 DEF ParserOf, Enc
    <2>4. PICK ps \in Seq(Portion) :
            /\ \/ Fresh(enc, ps) /\ (conn = "open" => OnTheWay = <<>>)
               \/ Behind(enc, ps) /\ (conn = "open" => OnTheWay = Sealed(ps))
            /\ conn = "open" => FlattenSeq(ToCome) = FlattenSeq(ps)
      BY <1>8 DEF WayInv, InTheStream, Conveys
    <2> DEFINE all == ps \o Pieces(msg[1])
    <2>5. /\ all \in Seq(Portion) /\ FlattenSeq(all) = FlattenSeq(ps) \o msg[1]
          /\ Behind(r.enc, all) /\ r.out \in Seq(Wire)
          /\ Fresh(enc, ps) => r.out = Sealed(all)
          /\ Behind(enc, ps) => Sealed(all) = Sealed(ps) \o r.out
      <3> DEFINE m == msg[1]
                 rr == Encrypt(enc, m)
                 both == ps \o Pieces(m)
      <3>1. m \in Seq(Nat) /\ (Fresh(enc, ps) \/ Behind(enc, ps))
        BY <1>2, <2>4
      <3> HIDE DEF enc, m
      <3>2. /\ both \in Seq(Portion) /\ FlattenSeq(both) = FlattenSeq(ps) \o m
            /\ Behind(rr.enc, both) /\ rr.out \in Seq(Wire)
            /\ Fresh(enc, ps) => rr.out = Sealed(both)
            /\ Behind(enc, ps) => Sealed(both) = Sealed(ps) \o rr.out
        <4> HIDE DEF r, all
        <4> QED
          BY <3>1, EncryptSeals
      <3>3. r = rr /\ all = both
        BY DEF m
      <3> HIDE DEF rr, both, r, all
      <3> QED
        BY <3>2, <3>3 DEF m
    <2> HIDE DEF all, r, enc
    <2>6. writes' \in Seq(Seq(Wire)) /\ OnTheWay' = OnTheWay \o r.out
      BY <1>1, <1>4, <2>1, <2>5, OneMoreWrite DEF OnTheWay
    <2>7. conn = "open" => OnTheWay' = Sealed(all)
      <3>1. <<>> \o r.out = r.out
        BY <2>5, ConcatEmptySeq
      <3> QED
        BY <2>4, <2>5, <2>6, <3>1
    <2>8. conn = "open" => FlattenSeq(ToCome') = FlattenSeq(all)
      BY <1>3, <2>4, <2>5
    <2>9. Conveys(parser', OnTheWay', FlattenSeq(ToCome'), conn' = "open")
      BY <2>1, <2>3, <2>5, <2>7, <2>8 DEF Conveys
    <2> QED
      BY <1>1, <1>5, <1>8, <2>3, <2>6, <2>9 DEF WayInv, InTheClear, InTheStream
  <1> QED
    BY <1>6, <1>7, <1>8

LEMMA RunStep ==
  ASSUME WayInv, RunWrite
  PROVE  WayInv'
  <1>1. /\ writes # <<>> /\ writes' = Tail(writes)
        /\ toUser' = IF conn = "open" THEN toUser \o Head(writes) ELSE toUser
        /\ UNCHANGED <<script, parser, conn, ndown, msg>>
    BY DEF RunWrite
  <1>2. WayTypeOK /\ writes \in Seq(Seq(Wire)) /\ toUser \in Seq(Wire)
    BY DEF WayInv, WayTypeOK
  <1>3. /\ Head(writes) \in Seq(Wire) /\ Tail(writes) \in Seq(Seq(Wire))
        /\ FlattenSeq(Tail(writes)) \in Seq(Wire)
        /\ FlattenSeq(writes) = Head(writes) \o FlattenSeq(Tail(writes))
    BY <1>1, <1>2, FlattenHead
  <1>4. toUser \o Head(writes) \in Seq(Wire)
    BY <1>2, <1>3, ConcatProperties
  <1>5. WayTypeOK'
    BY <1>1, <1>2, <1>3, <1>4 DEF WayTypeOK
  <1>6. ToCome' = ToCome
    BY <1>1 DEF ToCome
  <1>7. conn = "open" => OnTheWay' = OnTheWay
    <2>1. (toUser \o Head(writes)) \o FlattenSeq(Tail(writes))
            = toUser \o (Head(writes) \o FlattenSeq(Tail(writes)))
      <3> DEFINE first == Head(writes)
                 rest == FlattenSeq(Tail(writes))
      <3>1. toUser \in Seq(Wire) /\ first \in Seq(Wire) /\ rest \in Seq(Wire)
        BY <1>2, <1>3
      <3> HIDE DEF first, rest
      <3>2. (toUser \o first) \o rest = toUser \o (first \o rest)
        BY <3>1, ConcatAssociative
      <3> QED
        BY <3>2 DEF first, rest
    <2> QED
      BY <1>1, <1>3, <2>1 DEF OnTheWay
  <1>8. InTheClear'
    BY <1>1, <1>6, <1>7 DEF WayInv, InTheClear
  <1>9. InTheStream'
    BY <1>1, <1>6, <1>7 DEF WayInv, InTheStream, Conveys
  <1> QED
    BY <1>5, <1>8, <1>9 DEF WayInv

\* The invariant of the way back.
THEOREM WayInvariant == Spec => []WayInv
  <1>1. WayInv /\ [Next]_vars => WayInv'
    <2> SUFFICES ASSUME WayInv, [Next]_vars PROVE WayInv'
      OBVIOUS
    <2>1. CASE UNCHANGED vars
      BY <2>1 DEF vars, upVars, downVars, WayInv, WayTypeOK, InTheClear, InTheStream, OnTheWay, ToCome
    <2> QED
      BY <2>1, LoopSteps, HandleStep, WriteStep, RunStep DEF Next, Quiescent
  <1> QED
    BY <1>1, InitWay, PTL DEF Spec

\* Whatever the server sends and however it is cut into writes, what is
\* written to a user, and what is still to be, decodes to it: for Shadowsocks
\* (shadowsocks.go:180-222) one stream of chunks that a decrypter with the
\* same salt reads to the end, and in the clear for the others.
THEOREM UserDecodesAlways == Spec => []UserDecodes
  <1>1. WayInv => UserDecodes
    <2> SUFFICES ASSUME WayInv, conn = "open" PROVE UserDecodes
      BY DEF UserDecodes
    <2>1. CASE script.mode # "shadowsocks"
      BY <2>1 DEF WayInv, InTheClear, UserDecodes, OnTheWay, ToCome
    <2>2. CASE script.mode = "shadowsocks"
      <3> DEFINE r == Decrypt(NoSalt, OnTheWay, Len(OnTheWay))
      <3>1. PICK ps \in Seq(Portion) :
              /\ \/ Fresh(Enc(parser), ps) /\ OnTheWay = <<>>
                 \/ Behind(Enc(parser), ps) /\ OnTheWay = Sealed(ps)
              /\ FlattenSeq(ToCome) = FlattenSeq(ps)
        BY <2>2 DEF WayInv, InTheStream, Conveys
      <3>2. r.out = FlattenSeq(ps) /\ r.consumed = Len(OnTheWay)
        <4>1. CASE OnTheWay = <<>> /\ ps = <<>>
          <5>1. r.out = <<>> /\ r.consumed = 0 /\ FlattenSeq(<<>>) = <<>> /\ Len(<<>>) = 0
            BY <4>1, DecryptsNothing DEF FlattenSeq
          <5> QED
            BY <4>1, <5>1
        <4>2. CASE OnTheWay = Sealed(ps)
          BY <4>2, DecryptsSealed
        <4> QED
          BY <3>1, <4>1, <4>2 DEF Fresh
      <3> QED
        BY <2>2, <3>1, <3>2 DEF UserDecodes, OnTheWay, ToCome
    <2> QED
      BY <2>1, <2>2
  <1> QED
    BY <1>1, WayInvariant, PTL
=============================================================================
