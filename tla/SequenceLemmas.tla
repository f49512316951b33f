--------------------------- MODULE SequenceLemmas ---------------------------
(***************************************************************************)
(* What the proofs need to know of sequences, of FlattenSeq and of         *)
(* channels of events, whatever the sequences hold.                        *)
(***************************************************************************)
EXTENDS Integers, Sequences, SequencesExt, SequenceTheorems, WellFoundedInduction, TLAPS

(***************************************************************************)
(* One entry replaced                                                      *)
(***************************************************************************)
\* An update of one entry, where it exists, keeps the type, the length and
\* the other entries; elsewhere it changes nothing.
LEMMA EntryReplaced ==
  ASSUME NEW T, NEW s \in Seq(T), NEW i \in DOMAIN s, NEW r \in T
  PROVE  /\ [s EXCEPT ![i] = r] \in Seq(T)
         /\ Len([s EXCEPT ![i] = r]) = Len(s)
         /\ DOMAIN [s EXCEPT ![i] = r] = DOMAIN s
         /\ [s EXCEPT ![i] = r][i] = r
         /\ \A j \in DOMAIN s : j # i => [s EXCEPT ![i] = r][j] = s[j]
  OBVIOUS

LEMMA ExceptOutside ==
  ASSUME NEW T, NEW s \in Seq(T), NEW i, i \notin DOMAIN s, NEW r
  PROVE  [s EXCEPT ![i] = r] = s
  OBVIOUS

(***************************************************************************)
(* Slices and fronts                                                       *)
(***************************************************************************)

\* A slice equals r when it has r's length and elements.
LEMMA SliceIs ==
  ASSUME NEW T, NEW s \in Seq(T), NEW r \in Seq(T), NEW k \in Nat,
         k + Len(r) <= Len(s),
         \A i \in (k + 1)..(k + Len(r)) : s[i] = r[i - k]
  PROVE  SubSeq(s, k + 1, k + Len(r)) = r
  <1> DEFINE t == SubSeq(s, k + 1, k + Len(r))
  <1>1. Len(r) \in Nat
    OBVIOUS
  <1> DEFINE n == Len(r)
  <1>2. /\ t \in Seq(T) /\ Len(t) = n
        /\ \A i \in 1..n : t[i] = s[k + i]
    <2>1. n \in Nat /\ Len(s) \in Nat /\ k + n <= Len(s)
      BY <1>1
    <2>2. \A i \in (k + 1)..(k + n) : i \in 1..Len(s)
      <3> HIDE DEF n
      <3> QED
        BY <2>1
    <2>3. \A i \in (k + 1)..(k + n) : s[i] \in T
      BY <2>2, ElementOfSeq
    <2>4. k + 1 \in Int /\ k + n \in Int
      BY <2>1
    <2>5. /\ t \in Seq(T)
          /\ Len(t) = IF k + 1 <= k + n THEN k + n - (k + 1) + 1 ELSE 0
          /\ \A i \in 1..(k + n - (k + 1) + 1) : t[i] = s[k + 1 + i - 1]
      BY <2>3, <2>4, SubSeqProperties
    <2> HIDE DEF t, n
    <2>6. Len(t) = n
      BY <2>1, <2>5
    <2>7. \A i \in 1..n : i \in 1..(k + n - (k + 1) + 1) /\ k + 1 + i - 1 = k + i
      BY <2>1
    <2>8. \A i \in 1..n : t[i] = s[k + i]
      BY <2>5, <2>7
    <2> QED
      BY <2>5, <2>6, <2>8
  <1> HIDE DEF t
  <1>3. ASSUME NEW i \in 1..Len(r) PROVE t[i] = r[i]
    <2>1. k + i \in (k + 1)..(k + Len(r)) /\ (k + i) - k = i
      BY <1>1
    <2>2. s[k + i] = r[k + i - k]
      BY <2>1
    <2> QED
      BY <1>2, <2>1, <2>2
  <1>4. t = r
    BY <1>1, <1>2, <1>3, SeqEqual
  <1> QED
    BY <1>4 DEF t

\* A slice of a sequence.
LEMMA SliceElements ==
  ASSUME NEW T, NEW s \in Seq(T), NEW k \in Nat, NEW n \in Nat, k + n <= Len(s)
  PROVE  /\ SubSeq(s, k + 1, k + n) \in Seq(T)
         /\ Len(SubSeq(s, k + 1, k + n)) = n
         /\ \A i \in 1..n : SubSeq(s, k + 1, k + n)[i] = s[k + i]
  <1> DEFINE t == SubSeq(s, k + 1, k + n)
  <1>1. Len(s) \in Nat
    OBVIOUS
  <1>2. \A i \in (k + 1)..(k + n) : i \in 1..Len(s)
    BY <1>1
  <1>3. \A i \in (k + 1)..(k + n) : s[i] \in T
    BY <1>2, ElementOfSeq
  <1>4. k + 1 \in Int /\ k + n \in Int
    OBVIOUS
  <1>5. /\ t \in Seq(T)
        /\ Len(t) = IF k + 1 <= k + n THEN k + n - (k + 1) + 1 ELSE 0
        /\ \A i \in 1..(k + n - (k + 1) + 1) : t[i] = s[k + 1 + i - 1]
    BY <1>3, <1>4, SubSeqProperties
  <1> HIDE DEF t
  <1>6. Len(t) = n
    BY <1>5
  <1>7. \A i \in 1..n : i \in 1..(k + n - (k + 1) + 1) /\ k + 1 + i - 1 = k + i
    OBVIOUS
  <1>8. \A i \in 1..n : t[i] = s[k + i]
    BY <1>5, <1>7
  <1> QED
    BY <1>5, <1>6, <1>8 DEF t

\* The front of a sequence is in what is put behind it too.
LEMMA FrontKept ==
  ASSUME NEW T, NEW s \in Seq(T), NEW t \in Seq(T), NEW n \in 0..Len(s)
  PROVE  SubSeq(s \o t, 1, n) = SubSeq(s, 1, n)
  <1>1. CASE n = 0
    <2>1. n < 1 /\ 1 \in Int /\ n \in Int
      BY <1>1
    <2> QED
      BY <2>1, SubSeqEmpty
  <1>2. CASE n # 0
    <2>1. Len(s) \in Nat /\ 1 \in 1..Len(s) /\ n \in 1..Len(s)
      BY <1>2
    <2> QED
      BY <2>1, SubSeqOfConcat1
  <1> QED
    BY <1>1, <1>2

\* A front and what follows it are a longer front.
LEMMA FrontNext ==
  ASSUME NEW T, NEW s \in Seq(T), NEW k \in 0..Len(s), NEW n \in k..Len(s)
  PROVE  SubSeq(s, 1, k) \o SubSeq(s, k + 1, n) = SubSeq(s, 1, n)
  <1>1. Len(s) \in Nat /\ 1 \in 1..(Len(s) + 1) /\ k \in (1 - 1)..Len(s)
    OBVIOUS
  <1> QED
    BY <1>1, ConcatAdjacentSubSeq

\* The front of a front.
LEMMA FrontOfFront ==
  ASSUME NEW T, NEW s \in Seq(T), NEW n \in 0..Len(s), NEW k \in 0..n
  PROVE  /\ SubSeq(s, 1, n) \in Seq(T) /\ Len(SubSeq(s, 1, n)) = n
         /\ SubSeq(SubSeq(s, 1, n), 1, k) = SubSeq(s, 1, k)
  <1>1. Len(s) \in Nat
    OBVIOUS
  <1>2. 1 \in Int /\ n \in Int /\ \A i \in 1..n : s[i] \in T
    <2>1. \A i \in 1..n : i \in 1..Len(s)
      BY <1>1
    <2> QED
      BY <2>1, ElementOfSeq
  <1>3. /\ SubSeq(s, 1, n) \in Seq(T)
        /\ Len(SubSeq(s, 1, n)) = IF 1 <= n THEN n - 1 + 1 ELSE 0
    BY <1>2, SubSeqProperties
  <1>4. Len(SubSeq(s, 1, n)) = n
    BY <1>3
  <1>5. SubSeq(SubSeq(s, 1, n), 1, k) = SubSeq(s, 1, k)
    <2>1. CASE k = 0
      <3>1. k < 1 /\ 1 \in Int /\ k \in Int
        BY <2>1
      <3> QED
        BY <3>1, SubSeqEmpty
    <2>2. CASE k # 0
      <3>1. 1 \in 1..Len(s) /\ n \in 1..Len(s) /\ 1 \in 1..(n - 1 + 1) /\ k \in 1..(n - 1 + 1)
        BY <1>1, <2>2
      <3>2. SubSeq(SubSeq(s, 1, n), 1, k) = SubSeq(s, 1 + 1 - 1, 1 + k - 1)
        BY <3>1, SubSeqOfSubSeq
      <3>3. 1 + 1 - 1 = 1 /\ 1 + k - 1 = k
        OBVIOUS
      <3> QED
        BY <3>2, <3>3
    <2> QED
      BY <2>1, <2>2
  <1> QED
    BY <1>3, <1>4, <1>5

\* A front is a prefix.
LEMMA FrontIsPrefix ==
  ASSUME NEW T, NEW s \in Seq(T), NEW n \in 0..Len(s), NEW k \in 0..n
  PROVE  IsPrefix(SubSeq(s, 1, k), SubSeq(s, 1, n))
  <1>1. k \in 0..Len(s) /\ k <= n
    OBVIOUS
  <1>2. /\ Len(SubSeq(s, 1, n)) = n
        /\ SubSeq(SubSeq(s, 1, n), 1, k) = SubSeq(s, 1, k)
    BY FrontOfFront
  <1>3. /\ Len(SubSeq(s, 1, k)) = k
        /\ SubSeq(SubSeq(s, 1, k), 1, k) = SubSeq(s, 1, k)
    <2>1. k \in 0..k
      OBVIOUS
    <2> QED
      BY <1>1, <2>1, FrontOfFront
  <1> QED
    BY <1>1, <1>2, <1>3 DEF IsPrefix

\* A prefix has the same elements.
LEMMA PrefixAgrees ==
  ASSUME NEW T, NEW s \in Seq(T), NEW t \in Seq(T), IsPrefix(s, t)
  PROVE  Len(s) <= Len(t) /\ \A i \in 1..Len(s) : s[i] = t[i]
  <1> DEFINE n == Len(s)
  <1>1. n \in Nat /\ Len(t) \in Nat /\ n <= Len(t)
    BY DEF IsPrefix
  <1>2. SubSeq(s, 1, n) = SubSeq(t, 1, n)
    BY DEF IsPrefix
  <1>3. SubSeq(s, 1, n) = s
    BY SubSeqFull
  <1> HIDE DEF n
  <1>4. 1 \in Int /\ n \in Int /\ \A i \in 1..n : t[i] \in T
    <2>1. \A i \in 1..n : i \in 1..Len(t)
      BY <1>1
    <2> QED
      BY <1>1, <2>1, ElementOfSeq
  <1>5. \A i \in 1..(n - 1 + 1) : SubSeq(t, 1, n)[i] = t[1 + i - 1]
    BY <1>4, SubSeqProperties
  <1>6. ASSUME NEW i \in 1..n PROVE s[i] = t[i]
    <2>1. i \in 1..(n - 1 + 1) /\ 1 + i - 1 = i
      BY <1>1
    <2> QED
      BY <2>1, <1>2, <1>3, <1>5
  <1> QED
    BY <1>1, <1>6 DEF n

(***************************************************************************)
(* Sequences put one after the other                                       *)
(***************************************************************************)

\* A set of numbers has a least one: what induction is made of here.
LEMMA LeastNumber ==
  ASSUME NEW T, T \subseteq Nat, T # {}
  PROVE  \E x \in T : \A y \in T : x <= y
  <1> DEFINE R == {ss \in Nat \X Nat : ss[1] < ss[2]}
  <1>1. IsWellFoundedOn(OpToRel(<, Nat), Nat)
    BY NatLessThanWellFounded
  <1>2. IsWellFoundedOn(R, Nat)
    BY <1>1 DEF OpToRel
  <1>3. PICK x \in T : \A y \in T : ~(<<y, x>> \in R)
    <2> HIDE DEF R
    <2> QED
      BY <1>2, WFMin
  <1>4. ASSUME NEW y \in T PROVE x <= y
    <2>1. x \in Nat /\ y \in Nat /\ <<y, x>> \notin R
      BY <1>3
    <2>2. ~(y < x)
      BY <2>1
    <2> QED
      BY <2>1, <2>2
  <1> QED
    BY <1>4

\* What holds of 0, and of m + 1 when of m, holds of all the numbers up to n.
LEMMA UpTo ==
  ASSUME NEW n \in Nat, NEW T, 0 \in T,
         \A m \in Nat : m \in T /\ m + 1 <= n => m + 1 \in T
  PROVE  \A m \in 0..n : m \in T
  <1> DEFINE Bad == {m \in 0..n : m \notin T}
  <1>1. SUFFICES ASSUME Bad # {} PROVE FALSE
    OBVIOUS
  <1>2. PICK m \in Bad : \A y \in Bad : m <= y
    <2>1. Bad \subseteq Nat
      OBVIOUS
    <2> HIDE DEF Bad
    <2> QED
      BY <1>1, <2>1, LeastNumber
  <1>3. m \in 0..n /\ m \notin T /\ m # 0
    OBVIOUS
  <1>4. m - 1 \in Nat /\ m - 1 \in 0..n /\ (m - 1) + 1 = m /\ m <= n
    BY <1>3
  <1>5. m - 1 \in T
    BY <1>2, <1>4
  <1> QED
    BY <1>3, <1>4, <1>5

\* The first n of ss put one after the other, as FlattenSeq builds it.
Flattens(f, ss, n) ==
  \A i \in 1..n : f[i] = IF i = 1 THEN ss[i] ELSE f[i - 1] \o ss[i]

\* There is such a function for every n.
LEMMA FlattensExists ==
  ASSUME NEW S, NEW ss \in Seq(Seq(S)), NEW n \in 0..Len(ss)
  PROVE  \E f \in [1..n -> Seq(S)] : Flattens(f, ss, n)
  <1> DEFINE N == Len(ss)
             Some(m) == \E f \in [1..m -> Seq(S)] : Flattens(f, ss, m)
             T == {m \in Nat : Some(m)}
  <1>1. N \in Nat /\ \A i \in 1..N : ss[i] \in Seq(S)
    BY ElementOfSeq
  <1>2. ASSUME NEW m \in 0..N, m + 1 \in 0..N, Some(m)
        PROVE  Some(m + 1)
    <2>1. PICK f \in [1..m -> Seq(S)] : Flattens(f, ss, m)
      BY <1>2
    <2> DEFINE g == [i \in 1..(m + 1) |->
                       IF i <= m THEN f[i] ELSE IF i = 1 THEN ss[i] ELSE f[m] \o ss[i]]
    <2>2. m \in Nat /\ ss[m + 1] \in Seq(S)
      BY <1>1, <1>2
    <2>3. ASSUME NEW i \in 1..(m + 1)
          PROVE  g[i] \in Seq(S)
      <3>1. CASE i <= m
        BY <3>1, <2>2
      <3>2. CASE i = m + 1 /\ i = 1
        BY <3>2, <2>2
      <3>3. CASE i = m + 1 /\ i # 1
        <4>1. m \in 1..m
          BY <3>3, <2>2
        <4>2. f[m] \in Seq(S)
          BY <4>1, <2>1
        <4>3. f[m] \o ss[m + 1] \in Seq(S)
          BY <4>2, <2>2, ConcatProperties
        <4>4. ~(i <= m) /\ i # 1 /\ i \in 1..(m + 1)
          BY <3>3, <2>2
        <4>5. g[i] = f[m] \o ss[i]
          BY <4>4
        <4> QED
          BY <3>3, <4>3, <4>5
      <3> QED
        BY <3>1, <3>2, <3>3, <2>2
    <2>4. g \in [1..(m + 1) -> Seq(S)]
      BY <2>3
    <2>5. ASSUME NEW i \in 1..(m + 1)
          PROVE  g[i] = IF i = 1 THEN ss[i] ELSE g[i - 1] \o ss[i]
      <3>1. CASE i <= m
        <4>1. g[i] = f[i] /\ i \in 1..m
          BY <3>1, <2>2
        <4>2. f[i] = IF i = 1 THEN ss[i] ELSE f[i - 1] \o ss[i]
          BY <4>1, <2>1 DEF Flattens
        <4>3. i # 1 => g[i - 1] = f[i - 1]
          BY <4>1, <2>2
        <4> QED
          BY <4>1, <4>2, <4>3
      <3>2. CASE i = m + 1 /\ i = 1
        BY <3>2, <2>2
      <3>3. CASE i = m + 1 /\ i # 1
        <4>1. i - 1 = m /\ m <= m /\ m \in 1..(m + 1)
          BY <3>3, <2>2
        <4>2. g[i - 1] = f[m]
          BY <4>1
        <4>3. ~(i <= m) /\ i # 1 /\ i \in 1..(m + 1)
          BY <3>3, <2>2
        <4>4. g[i] = f[m] \o ss[i]
          BY <4>3
        <4> QED
          BY <4>2, <4>3, <4>4
      <3> QED
        BY <3>1, <3>2, <3>3, <2>2
    <2>6. Flattens(g, ss, m + 1)
      BY <2>5 DEF Flattens
    <2> QED
      BY <2>4, <2>6
  <1>3. Some(0)
    <2> DEFINE e == [i \in 1..0 |-> <<>>]
    <2>1. e \in [1..0 -> Seq(S)] /\ Flattens(e, ss, 0)
      BY DEF Flattens
    <2> QED
      BY <2>1
  <1> HIDE DEF Some, N
  <1>4. \A m \in 0..N : m \in T
    <2>1. 0 \in T /\ \A m \in Nat : m \in T /\ m + 1 <= N => m + 1 \in T
      <3>1. \A m \in Nat : m + 1 <= N => m \in 0..N /\ m + 1 \in 0..N
        BY <1>1
      <3> QED
        BY <1>2, <1>3, <3>1
    <2> HIDE DEF T
    <2> QED
      BY <1>1, <2>1, UpTo
  <1> QED
    BY <1>4 DEF Some, N

\* And only one: what any such function gives is what is put together.
LEMMA FlattensUnique ==
  ASSUME NEW S, NEW ss \in Seq(Seq(S)), NEW n \in Nat, n <= Len(ss),
         NEW f, NEW g, Flattens(f, ss, n), Flattens(g, ss, n), NEW i \in 1..n
  PROVE  f[i] = g[i]
  <1> DEFINE T == {j \in Nat : j \in 1..n => f[j] = g[j]}
  <1>1. ASSUME NEW j \in Nat, j \in T, j + 1 <= n
        PROVE  f[j + 1] = g[j + 1]
    <2>1. j + 1 \in 1..n /\ (j + 1) - 1 = j /\ (j + 1 # 1 => j \in 1..n)
      BY <1>1
    <2>2. /\ f[j + 1] = IF j + 1 = 1 THEN ss[j + 1] ELSE f[(j + 1) - 1] \o ss[j + 1]
          /\ g[j + 1] = IF j + 1 = 1 THEN ss[j + 1] ELSE g[(j + 1) - 1] \o ss[j + 1]
      BY <2>1 DEF Flattens
    <2> QED
      BY <1>1, <2>1, <2>2
  <1>2. 0 \in T
    OBVIOUS
  <1>3. \A j \in Nat : j \in T /\ j + 1 <= n => j + 1 \in T
    <2> SUFFICES ASSUME NEW j \in Nat, j \in T, j + 1 <= n
                 PROVE  j + 1 \in T
      OBVIOUS
    <2>1. f[j + 1] = g[j + 1] /\ j + 1 \in Nat
      <3> HIDE DEF T
      <3> QED
        BY <1>1
    <2> QED
      BY <2>1
  <1>4. i \in 0..n /\ i \in Nat
    OBVIOUS
  <1>5. i \in T
    <2> HIDE DEF T
    <2> QED
      BY <1>2, <1>3, <1>4, UpTo
  <1> QED
    BY <1>5

\* FlattenSeq is the last value of any such function.
LEMMA FlattenIs ==
  ASSUME NEW S, NEW ss \in Seq(Seq(S)), Len(ss) # 0,
         NEW g, Flattens(g, ss, Len(ss))
  PROVE  FlattenSeq(ss) = g[Len(ss)]
  <1> DEFINE n == Len(ss)
             Rec(f) == f = [i \in 1..n |-> IF i = 1 THEN ss[i] ELSE f[i - 1] \o ss[i]]
             h == CHOOSE f : Rec(f)
  <1>1. n \in Nat /\ n \in 1..n
    OBVIOUS
  <1>2. PICK f \in [1..n -> Seq(S)] : Flattens(f, ss, n)
    <2>1. n \in 0..Len(ss)
      BY <1>1
    <2> QED
      BY <2>1, FlattensExists
  <1>3. Rec(f)
    <2>1. f = [i \in 1..n |-> f[i]]
      OBVIOUS
    <2>2. \A i \in 1..n : f[i] = IF i = 1 THEN ss[i] ELSE f[i - 1] \o ss[i]
      BY <1>2 DEF Flattens
    <2> QED
      BY <2>1, <2>2
  <1>4. Rec(h)
    <2> HIDE DEF Rec
    <2> QED
      BY <1>3
  <1>5. FlattenSeq(ss) = h[n]
    BY DEF FlattenSeq
  <1> HIDE DEF h
  <1>6. Flattens(h, ss, n)
    <2>1. \A i \in 1..n : h[i] = [j \in 1..n |-> IF j = 1 THEN ss[j] ELSE h[j - 1] \o ss[j]][i]
      BY <1>4
    <2> QED
      BY <2>1 DEF Flattens
  <1>7. h[n] = g[n]
    <2> HIDE DEF n, Rec
    <2>1. n <= Len(ss) /\ Flattens(g, ss, n)
      BY <1>1 DEF n
    <2> QED
      BY <1>1, <1>6, <2>1, FlattensUnique
  <1> QED
    BY <1>5, <1>7

\* One more sequence at the end.
LEMMA FlattenAppend ==
  ASSUME NEW S, NEW ss \in Seq(Seq(S)), NEW s \in Seq(S)
  PROVE  /\ FlattenSeq(ss) \in Seq(S)
         /\ FlattenSeq(Append(ss, s)) = FlattenSeq(ss) \o s
  <1> DEFINE n == Len(ss)
             tt == Append(ss, s)
  <1>1. /\ tt \in Seq(Seq(S)) /\ Len(tt) = n + 1 /\ n \in Nat
        /\ tt[n + 1] = s /\ \A i \in 1..n : tt[i] = ss[i]
    BY AppendProperties
  <1>2. PICK f \in [1..(n + 1) -> Seq(S)] : Flattens(f, tt, n + 1)
    <2> HIDE DEF tt, n
    <2>1. n + 1 \in 0..Len(tt)
      BY <1>1
    <2> QED
      BY <1>1, <2>1, FlattensExists
  <1> HIDE DEF tt
  <1>3. FlattenSeq(tt) = f[n + 1]
    <2>1. Len(tt) # 0 /\ Flattens(f, tt, Len(tt))
      BY <1>1, <1>2
    <2> QED
      BY <1>1, <2>1, FlattenIs
  <1>4. f[n + 1] = IF n + 1 = 1 THEN s ELSE f[n] \o s
    <2>1. n + 1 \in 1..(n + 1) /\ (n + 1) - 1 = n
      BY <1>1
    <2>2. f[n + 1] = IF n + 1 = 1 THEN tt[n + 1] ELSE f[(n + 1) - 1] \o tt[n + 1]
      BY <2>1, <1>2 DEF Flattens
    <2> QED
      BY <2>1, <2>2, <1>1
  <1>5. CASE n = 0
    <2>1. ss = <<>>
      BY <1>5, EmptySeq
    <2>2. FlattenSeq(ss) = <<>>
      BY <2>1 DEF FlattenSeq
    <2>3. FlattenSeq(tt) = s
      BY <1>3, <1>4, <1>5
    <2> QED
      BY <2>2, <2>3, ConcatEmptySeq, EmptySeq DEF tt
  <1>6. CASE n # 0
    <2>1. Flattens(f, ss, n)
      <3>1. ASSUME NEW i \in 1..n
            PROVE  f[i] = IF i = 1 THEN ss[i] ELSE f[i - 1] \o ss[i]
        <4>1. i \in 1..(n + 1)
          BY <1>1
        <4> QED
          BY <4>1, <1>1, <1>2 DEF Flattens
      <3> QED
        BY <3>1 DEF Flattens
    <2>2. FlattenSeq(ss) = f[n]
      BY <1>6, <2>1, FlattenIs
    <2>3. n \in 1..(n + 1)
      BY <1>1, <1>6
    <2>4. f[n] \in Seq(S)
      BY <2>3
    <2>5. f[n + 1] = f[n] \o s
      BY <1>1, <1>4, <1>6
    <2> QED
      BY <1>3, <2>2, <2>4, <2>5 DEF tt
  <1> QED
    BY <1>5, <1>6

\* None, and one.
LEMMA FlattenFew ==
  ASSUME NEW S, NEW s \in Seq(S)
  PROVE  FlattenSeq(<<>>) = <<>> /\ FlattenSeq(<<s>>) = s
  <1>1. FlattenSeq(<<>>) = <<>>
    BY DEF FlattenSeq
  <1>2. <<>> \in Seq(Seq(S)) /\ Append(<<>>, s) = <<s>>
    OBVIOUS
  <1>3. FlattenSeq(<<s>>) = FlattenSeq(<<>>) \o s
    BY <1>2, FlattenAppend
  <1> QED
    BY <1>1, <1>3, ConcatEmptySeq

\* A front that is one longer.
LEMMA FrontAppend ==
  ASSUME NEW T, NEW s \in Seq(T), NEW n \in Nat, n + 1 <= Len(s)
  PROVE  /\ SubSeq(s, 1, n) \in Seq(T) /\ s[n + 1] \in T
         /\ SubSeq(s, 1, n + 1) = Append(SubSeq(s, 1, n), s[n + 1])
  <1>1. Len(s) \in Nat /\ n + 1 \in 1..Len(s) /\ n \in 0..Len(s) /\ n + 1 - 1 = n
        /\ 1 \in 1..Len(s) /\ n + 1 \in 1..Len(s)
    OBVIOUS
  <1>2. SubSeq(s, 1, n) \in Seq(T) /\ s[n + 1] \in T
    <2>1. n \in 0..n
      OBVIOUS
    <2> QED
      BY <1>1, <2>1, FrontOfFront, ElementOfSeq
  <1>3. SubSeq(s, 1, n + 1) = SubSeq(s, 1, n + 1 - 1) \o <<s[n + 1]>>
    BY <1>1, SubSeqRecursiveSecond
  <1>4. SubSeq(s, 1, n) \o <<s[n + 1]>> = Append(SubSeq(s, 1, n), s[n + 1])
    BY <1>2, AppendIsConcat
  <1> QED
    BY <1>1, <1>2, <1>3, <1>4

\* Two sequences of sequences, one after the other.
LEMMA FlattenConcat ==
  ASSUME NEW S, NEW ss \in Seq(Seq(S)), NEW tt \in Seq(Seq(S))
  PROVE  /\ ss \o tt \in Seq(Seq(S))
         /\ FlattenSeq(ss) \in Seq(S) /\ FlattenSeq(tt) \in Seq(S)
         /\ FlattenSeq(ss \o tt) = FlattenSeq(ss) \o FlattenSeq(tt)
  <1> DEFINE n == Len(tt)
             F(m) == SubSeq(tt, 1, m)
             Good(m) == FlattenSeq(ss \o F(m)) = FlattenSeq(ss) \o FlattenSeq(F(m))
             T == {m \in Nat : Good(m)}
  <1>1. n \in Nat /\ FlattenSeq(ss) \in Seq(S) /\ FlattenSeq(tt) \in Seq(S)
        /\ ss \o tt \in Seq(Seq(S))
    <2>1. <<>> \in Seq(S)
      OBVIOUS
    <2> QED
      BY <2>1, FlattenAppend, ConcatProperties
  <1>2. Good(0)
    <2>1. F(0) = <<>>
      BY SubSeqEmpty
    <2>2. ss \o <<>> = ss /\ FlattenSeq(ss) \o <<>> = FlattenSeq(ss)
      BY <1>1, ConcatEmptySeq
    <2>3. FlattenSeq(<<>>) = <<>>
      BY DEF FlattenSeq
    <2> QED
      BY <2>1, <2>2, <2>3
  <1>3. ASSUME NEW m \in Nat, m + 1 <= n, Good(m)
        PROVE  Good(m + 1)
    <2> DEFINE f == F(m)
               e == tt[m + 1]
    <2>1. f \in Seq(Seq(S)) /\ e \in Seq(S) /\ F(m + 1) = Append(f, e)
      BY <1>3, FrontAppend
    <2>2. FlattenSeq(ss \o f) = FlattenSeq(ss) \o FlattenSeq(f)
      BY <1>3
    <2> HIDE DEF f, e, F
    <2>3. ss \o Append(f, e) = Append(ss \o f, e) /\ ss \o f \in Seq(Seq(S))
      <3>1. ss \o f \in Seq(Seq(S)) /\ <<e>> \in Seq(Seq(S))
        BY <2>1, ConcatProperties
      <3>2. Append(f, e) = f \o <<e>> /\ Append(ss \o f, e) = (ss \o f) \o <<e>>
        BY <2>1, <3>1, AppendIsConcat
      <3>3. (ss \o f) \o <<e>> = ss \o (f \o <<e>>)
        <4> DEFINE one == <<e>>
        <4>1. ss \in Seq(Seq(S)) /\ f \in Seq(Seq(S)) /\ one \in Seq(Seq(S))
          BY <2>1, <3>1
        <4> HIDE DEF one
        <4>2. (ss \o f) \o one = ss \o (f \o one)
          BY <4>1, ConcatAssociative
        <4> QED
          BY <4>2 DEF one
      <3> QED
        BY <3>1, <3>2, <3>3
    <2>4. /\ FlattenSeq(f) \in Seq(S)
          /\ FlattenSeq(Append(f, e)) = FlattenSeq(f) \o e
          /\ FlattenSeq(Append(ss \o f, e)) = FlattenSeq(ss \o f) \o e
      BY <2>1, <2>3, FlattenAppend
    <2>5. (FlattenSeq(ss) \o FlattenSeq(f)) \o e = FlattenSeq(ss) \o (FlattenSeq(f) \o e)
      <3>1. FlattenSeq(ss) \in Seq(S) /\ FlattenSeq(f) \in Seq(S) /\ e \in Seq(S)
        BY <1>1, <2>1, <2>4
      <3> QED
        BY <3>1, ConcatAssociative
    <2> QED
      BY <2>1, <2>2, <2>3, <2>4, <2>5
  <1>4. Good(n) <=> FlattenSeq(ss \o tt) = FlattenSeq(ss) \o FlattenSeq(tt)
    BY SubSeqFull
  <1> HIDE DEF Good, n
  <1>5. \A m \in 0..n : m \in T
    <2>1. 0 \in T /\ \A m \in Nat : m \in T /\ m + 1 <= n => m + 1 \in T
      BY <1>2, <1>3
    <2> HIDE DEF T
    <2> QED
      BY <1>1, <2>1, UpTo
  <1>6. n \in 0..n
    BY <1>1
  <1> QED
    BY <1>1, <1>4, <1>5, <1>6

\* The first of several, and the rest.
LEMMA FlattenHead ==
  ASSUME NEW S, NEW ss \in Seq(Seq(S)), ss # <<>>
  PROVE  /\ Head(ss) \in Seq(S) /\ Tail(ss) \in Seq(Seq(S)) /\ FlattenSeq(Tail(ss)) \in Seq(S)
         /\ FlattenSeq(ss) = Head(ss) \o FlattenSeq(Tail(ss))
  <1>1. Head(ss) \in Seq(S) /\ Tail(ss) \in Seq(Seq(S))
    BY HeadTailProperties
  <1>2. <<Head(ss)>> \in Seq(Seq(S)) /\ FlattenSeq(<<Head(ss)>>) = Head(ss)
    BY <1>1, FlattenFew
  <1>3. ss = <<Head(ss)>> \o Tail(ss)
    <2>1. Len(ss) \in Nat \ {0}
      BY EmptySeq
    <2>2. 1 \in 1..Len(ss) /\ Len(ss) \in 1..Len(ss) /\ 1 + 1 = 2
      BY <2>1
    <2>3. SubSeq(ss, 1, Len(ss)) = <<ss[1]>> \o SubSeq(ss, 2, Len(ss))
      BY <2>2, SubSeqRecursiveFirst
    <2>4. Head(ss) = ss[1]
      BY <2>1
    <2> QED
      BY <2>3, <2>4, SubSeqFull, TailIsSubSeq
  <1> QED
    BY <1>1, <1>2, <1>3, FlattenConcat

\* What is left when the first part of a sequence is taken off.
LEMMA RestOfConcat ==
  ASSUME NEW T, NEW s \in Seq(T), NEW t \in Seq(T)
  PROVE  /\ SubSeq(s \o t, 1, Len(s)) = s
         /\ SubSeq(s \o t, Len(s) + 1, Len(s \o t)) = t
  <1>1. Len(s) \in Nat /\ Len(t) \in Nat /\ Len(s \o t) = Len(s) + Len(t)
    BY ConcatProperties
  <1>2. SubSeq(s \o t, 1, Len(s)) = s
    <2>1. Len(s) \in 0..Len(s)
      BY <1>1
    <2> QED
      BY <2>1, FrontKept, SubSeqFull
  <1>3. CASE Len(t) = 0
    <2>1. t = <<>> /\ Len(s) + Len(t) < Len(s) + 1
      BY <1>1, <1>3, EmptySeq
    <2> QED
      BY <1>1, <1>2, <2>1, SubSeqEmpty
  <1>4. CASE Len(t) # 0
    <2>1. /\ Len(s) + 1 \in (Len(s) + 1)..(Len(s) + Len(t))
          /\ Len(s) + Len(t) \in (Len(s) + 1)..(Len(s) + Len(t))
          /\ Len(s) + 1 - Len(s) = 1 /\ Len(s) + Len(t) - Len(s) = Len(t)
      BY <1>1, <1>4
    <2> QED
      BY <1>1, <1>2, <2>1, SubSeqOfConcat2, SubSeqFull
  <1> QED
    BY <1>3, <1>4

(***************************************************************************)
(* Sequences of events: s is a channel, b the event that waits to be put   *)
(* into it, if any; m.conn is the connection an event is about, m.pkts the *)
(* packets it carries, of which the first counts, numbered by seq.         *)
(***************************************************************************)

\* Where in s the packets from d are, and the number of the one at i.
Carries(s, d) == {i \in DOMAIN s : s[i].conn = d /\ s[i].pkts # <<>>}
Number(s, i) == s[i].pkts[1].seq
Holds(s, d, q) == \E i \in Carries(s, d) : Number(s, i) = q

\* s and then b hold the packets lo to hi from d, in order, and no others.
Coming(s, b, d, lo, hi) ==
  /\ \A i, j \in Carries(s, d) : i < j => Number(s, i) < Number(s, j)
  /\ \A i \in Carries(s, d), j \in Carries(b, d) : Number(s, i) < Number(b, j)
  /\ \A q \in Int : Holds(s, d, q) \/ Holds(b, d, q) <=> lo <= q /\ q <= hi

\* The Open of d comes before its packets.
OpensOf(s, d) == {i \in DOMAIN s : s[i].event = "Open" /\ s[i].conn = d}
OpenFirst(s, b, d) ==
  /\ \A i \in OpensOf(s, d), j \in Carries(s, d) : i < j
  /\ OpensOf(b, d) # {} => Carries(s, d) = {}

\* An event that counts for d: its Open, or a packet from it.
About(m, d) == m.conn = d /\ (m.event = "Open" \/ m.pkts # <<>>)

\* Of d, t has what s has, k places further back there.
SameOf(s, t, d, k) ==
  /\ \A i \in Carries(t, d) : i + k \in Carries(s, d) /\ Number(t, i) = Number(s, i + k)
  /\ \A j \in Carries(s, d) : j - k \in Carries(t, d) /\ Number(t, j - k) = Number(s, j)
  /\ \A i \in OpensOf(t, d) : i + k \in OpensOf(s, d)
  /\ \A j \in OpensOf(s, d) : j - k \in OpensOf(t, d)

\* Positions are integers, from 1 on.
LEMMA PlacesTyped ==
  ASSUME NEW E, NEW s \in Seq(E), NEW d
  PROVE  /\ \A i \in Carries(s, d) : i \in Int /\ 1 <= i
         /\ \A i \in OpensOf(s, d) : i \in Int /\ 1 <= i
  BY DEF Carries, OpensOf

\* Numbers are natural where the events of E have such.
HasNumbers(E) == \A m \in E : m.pkts # <<>> => m.pkts[1].seq \in Nat

LEMMA NumbersTyped ==
  ASSUME NEW E, HasNumbers(E), NEW s \in Seq(E), NEW d
  PROVE  \A i \in Carries(s, d) : Number(s, i) \in Nat
  <1> SUFFICES ASSUME NEW i \in Carries(s, d) PROVE Number(s, i) \in Nat
    OBVIOUS
  <1>1. s[i] \in E /\ s[i].pkts # <<>>
    BY DEF Carries
  <1> QED
    BY <1>1 DEF HasNumbers, Number

LEMMA SameItself ==
  ASSUME NEW E, NEW s \in Seq(E), NEW d
  PROVE  SameOf(s, s, d, 0)
  <1>1. \A i \in Int : i + 0 = i /\ i - 0 = i
    OBVIOUS
  <1> QED
    BY <1>1, PlacesTyped DEF SameOf

\* r is s with m behind the others.
EventAdded(s, m, r, d) ==
  \E n \in Int :
    /\ Carries(r, d) = Carries(s, d) \cup {k \in {n} : m.conn = d /\ m.pkts # <<>>}
    /\ OpensOf(r, d) = OpensOf(s, d) \cup {k \in {n} : m.conn = d /\ m.event = "Open"}
    /\ \A i \in Carries(s, d) : i < n /\ Number(r, i) = Number(s, i)
    /\ \A i \in OpensOf(s, d) : i < n
    /\ Number(r, n) = m.pkts[1].seq

LEMMA EventAppended ==
  ASSUME NEW E, NEW s \in Seq(E), NEW m \in E, NEW r, r = Append(s, m), NEW d
  PROVE  EventAdded(s, m, r, d)
  <1>1. /\ Len(s) \in Nat /\ DOMAIN s = 1..Len(s)
        /\ DOMAIN r = 1..(Len(s) + 1)
        /\ \A i \in DOMAIN s : r[i] = s[i]
        /\ r[Len(s) + 1] = m
    OBVIOUS
  <1>2. PICK n \in Nat : n = Len(s)
    BY <1>1
  <1>3. DOMAIN r = DOMAIN s \cup {n + 1} /\ \A i \in DOMAIN s : i < n + 1
    BY <1>1, <1>2
  <1>4. Carries(r, d) = Carries(s, d) \cup {k \in {n + 1} : m.conn = d /\ m.pkts # <<>>}
    BY <1>1, <1>2, <1>3 DEF Carries
  <1>5. OpensOf(r, d) = OpensOf(s, d) \cup {k \in {n + 1} : m.conn = d /\ m.event = "Open"}
    BY <1>1, <1>2, <1>3 DEF OpensOf
  <1>6. \A i \in Carries(s, d) : i < n + 1 /\ Number(r, i) = Number(s, i)
    BY <1>1, <1>3 DEF Carries, Number
  <1>7. \A i \in OpensOf(s, d) : i < n + 1
    BY <1>3 DEF OpensOf
  <1>8. Number(r, n + 1) = m.pkts[1].seq
    BY <1>1, <1>2 DEF Number
  <1> QED
    BY <1>4, <1>5, <1>6, <1>7, <1>8 DEF EventAdded

LEMMA SameAppended ==
  ASSUME NEW E, NEW s \in Seq(E), NEW m \in E, NEW r, r = Append(s, m), NEW d, ~About(m, d)
  PROVE  SameOf(s, r, d, 0)
  <1>0. ~(m.conn = d /\ m.pkts # <<>>) /\ ~(m.conn = d /\ m.event = "Open")
    BY DEF About
  <1>1. EventAdded(s, m, r, d)
    BY EventAppended
  <1>2. /\ Carries(r, d) = Carries(s, d) /\ OpensOf(r, d) = OpensOf(s, d)
        /\ \A i \in Carries(s, d) : Number(r, i) = Number(s, i)
    BY <1>0, <1>1 DEF EventAdded
  <1>3. \A i \in Int : i + 0 = i /\ i - 0 = i
    OBVIOUS
  <1> QED
    BY <1>2, <1>3, PlacesTyped DEF SameOf

\* The first event taken.
EventGone(s, r, d) ==
  /\ \A i \in Carries(r, d) : i + 1 \in Carries(s, d) /\ Number(r, i) = Number(s, i + 1)
  /\ \A j \in Carries(s, d) :
       j # 1 => j - 1 \in Carries(r, d) /\ Number(r, j - 1) = Number(s, j)
  /\ \A i \in OpensOf(r, d) : i + 1 \in OpensOf(s, d)
  /\ \A j \in OpensOf(s, d) : j # 1 => j - 1 \in OpensOf(r, d)
  /\ 1 \in Carries(s, d) <=> s[1].conn = d /\ s[1].pkts # <<>>
  /\ 1 \in OpensOf(s, d) <=> s[1].conn = d /\ s[1].event = "Open"

LEMMA EventTaken ==
  ASSUME NEW E, NEW s \in Seq(E), s # <<>>, NEW r, r = Tail(s), NEW d
  PROVE  EventGone(s, r, d)
  <1>1. /\ Len(s) \in Nat \ {0} /\ DOMAIN s = 1..Len(s)
        /\ DOMAIN r = 1..(Len(s) - 1)
        /\ \A i \in DOMAIN r : r[i] = s[i + 1]
    OBVIOUS
  <1>2. PICK n \in Nat \ {0} : n = Len(s)
    BY <1>1
  <1>3. /\ \A i \in DOMAIN r : i + 1 \in DOMAIN s
        /\ \A j \in DOMAIN s : j # 1 => j - 1 \in DOMAIN r /\ r[j - 1] = s[j]
        /\ 1 \in DOMAIN s
    BY <1>1, <1>2
  <1> QED
    BY <1>1, <1>3 DEF Carries, OpensOf, Number, EventGone

LEMMA SameTaken ==
  ASSUME NEW E, NEW s \in Seq(E), s # <<>>, NEW r, r = Tail(s), NEW d, ~About(s[1], d)
  PROVE  SameOf(s, r, d, 1)
  <1>1. EventGone(s, r, d)
    BY EventTaken
  <1>2. 1 \notin Carries(s, d) /\ 1 \notin OpensOf(s, d)
    BY <1>1 DEF EventGone, About
  <1> QED
    BY <1>1, <1>2 DEF EventGone, SameOf

\* Where of d nothing changes, what is said of d stays.
LEMMA SameKeeps ==
  ASSUME NEW E, NEW s \in Seq(E), NEW t \in Seq(E), NEW d, NEW k \in {0, 1},
         NEW b \in Seq(E), NEW c \in Seq(E),
         SameOf(s, t, d, k), SameOf(b, c, d, 0)
  PROVE  /\ OpensOf(t, d) # {} <=> OpensOf(s, d) # {}
         /\ OpensOf(c, d) # {} <=> OpensOf(b, d) # {}
         /\ OpenFirst(s, b, d) => OpenFirst(t, c, d)
         /\ \A lo, hi : Coming(s, b, d, lo, hi) => Coming(t, c, d, lo, hi)
  <1>1. /\ \A i \in Carries(t, d) : i \in Int /\ i + k \in Carries(s, d) /\ Number(t, i) = Number(s, i + k)
        /\ \A j \in Carries(s, d) : j - k \in Carries(t, d) /\ Number(t, j - k) = Number(s, j)
        /\ \A i \in OpensOf(t, d) : i \in Int /\ i + k \in OpensOf(s, d)
        /\ \A j \in OpensOf(s, d) : j - k \in OpensOf(t, d)
    BY PlacesTyped DEF SameOf
  <1>2. /\ Carries(c, d) = Carries(b, d) /\ OpensOf(c, d) = OpensOf(b, d)
        /\ \A j \in Carries(b, d) : Number(c, j) = Number(b, j)
    <2>1. \A i \in Int : i + 0 = i /\ i - 0 = i
      OBVIOUS
    <2>2. \A i \in Carries(c, d) \cup OpensOf(c, d) \cup Carries(b, d) \cup OpensOf(b, d) : i \in Int
      BY PlacesTyped
    <2>3. /\ \A i \in Carries(c, d) : i \in Carries(b, d) /\ Number(c, i) = Number(b, i)
          /\ \A i \in OpensOf(c, d) : i \in OpensOf(b, d)
      BY <2>1, <2>2 DEF SameOf
    <2>4. /\ \A i \in Carries(b, d) : i \in Carries(c, d)
          /\ \A i \in OpensOf(b, d) : i \in OpensOf(c, d)
      BY <2>1, <2>2 DEF SameOf
    <2> QED
      BY <2>3, <2>4
  <1>3. \A i, j \in Int : i + k < j + k <=> i < j
    OBVIOUS
  <1>4. /\ \A q : Holds(t, d, q) <=> Holds(s, d, q)
        /\ \A q : Holds(c, d, q) <=> Holds(b, d, q)
    BY <1>1, <1>2 DEF Holds
  <1>5. OpenFirst(s, b, d) => OpenFirst(t, c, d)
    BY <1>1, <1>2, <1>3 DEF OpenFirst
  <1>6. ASSUME NEW lo, NEW hi, Coming(s, b, d, lo, hi) PROVE Coming(t, c, d, lo, hi)
    <2>1. \A i, j \in Carries(t, d) : i < j => Number(t, i) < Number(t, j)
      BY <1>1, <1>3, <1>6 DEF Coming
    <2>2. \A i \in Carries(t, d), j \in Carries(c, d) : Number(t, i) < Number(c, j)
      BY <1>1, <1>2, <1>6 DEF Coming
    <2>3. \A q \in Int : Holds(t, d, q) \/ Holds(c, d, q) <=> lo <= q /\ q <= hi
      BY <1>4, <1>6 DEF Coming
    <2> QED
      BY <2>1, <2>2, <2>3 DEF Coming
  <1> QED
    BY <1>1, <1>2, <1>5, <1>6

\* Nothing of d is in an empty sequence.
LEMMA NothingIn ==
  ASSUME NEW b, b = <<>>, NEW d
  PROVE  Carries(b, d) = {} /\ OpensOf(b, d) = {} /\ \A q : ~Holds(b, d, q)
  <1>1. DOMAIN b = {}
    OBVIOUS
  <1> QED
    BY <1>1 DEF Carries, OpensOf, Holds

\* A stopped loop holds one event.
LEMMA OneEvent ==
  ASSUME NEW E, NEW m \in E, NEW b, b = <<m>>, NEW d
  PROVE  /\ b \in Seq(E)
         /\ Carries(b, d) = {i \in {1} : m.conn = d /\ m.pkts # <<>>}
         /\ OpensOf(b, d) = {i \in {1} : m.conn = d /\ m.event = "Open"}
         /\ Number(b, 1) = m.pkts[1].seq
  <1>1. b \in Seq(E) /\ DOMAIN b = {1} /\ b[1] = m
    OBVIOUS
  <1> QED
    BY <1>1 DEF Carries, OpensOf, Number

\* What Post does with recvChan, s, and the loop's event, b, of which there
\* is none.
Posting(s, b, m, r, c) ==
  /\ b = <<>>
  /\ \/ r = Append(s, m) /\ c = <<>>
     \/ r = s /\ c = <<m>>

LEMMA PostingType ==
  ASSUME NEW E, NEW s \in Seq(E), NEW m \in E, NEW b, NEW r, NEW c, Posting(s, b, m, r, c)
  PROVE  b \in Seq(E) /\ r \in Seq(E) /\ c \in Seq(E)
  <1>1. /\ <<m>> \in Seq(E) /\ <<>> \in Seq(E)
        /\ Append(s, m) \in Seq(E)
    OBVIOUS
  <1> QED
    BY <1>1, Zenon DEF Posting

\* An event that does not count for d.
LEMMA OtherPosting ==
  ASSUME NEW E, NEW s \in Seq(E), NEW m \in E, NEW b, NEW r, NEW c,
         Posting(s, b, m, r, c), NEW d, ~About(m, d)
  PROVE  SameOf(s, r, d, 0) /\ SameOf(b, c, d, 0)
  <1>1. CASE r = Append(s, m) /\ c = <<>>
    <2>1. c = b /\ b \in Seq(E)
      BY <1>1 DEF Posting
    <2> QED
      BY <1>1, <2>1, SameAppended, SameItself
  <1>2. CASE r = s /\ c = <<m>>
    <2>1. Carries(c, d) = {} /\ OpensOf(c, d) = {}
      BY <1>2, OneEvent DEF About
    <2>2. Carries(b, d) = {} /\ OpensOf(b, d) = {}
      BY NothingIn DEF Posting
    <2>3. SameOf(b, c, d, 0)
      BY <2>1, <2>2 DEF SameOf
    <2> QED
      BY <1>2, <2>3, SameItself
  <1> QED
    BY <1>1, <1>2 DEF Posting

\* The next packet from d, its number hi + 1, came.
PacketCame(s, b, r, c, d, hi) ==
  /\ OpenFirst(s, b, d) => OpenFirst(r, c, d)
  /\ OpensOf(r, d) # {} \/ OpensOf(c, d) # {} <=> OpensOf(s, d) # {} \/ OpensOf(b, d) # {}
  /\ \A lo \in Int : lo <= hi + 1 /\ Coming(s, b, d, lo, hi) => Coming(r, c, d, lo, hi + 1)

LEMMA DataPosting ==
  ASSUME NEW E, HasNumbers(E), NEW s \in Seq(E), NEW m \in E, NEW b, NEW r, NEW c,
         Posting(s, b, m, r, c), NEW d, m.conn = d, m.pkts # <<>>, m.event # "Open",
         NEW hi \in Int, m.pkts[1].seq = hi + 1
  PROVE  PacketCame(s, b, r, c, d, hi)
  <1>0. /\ Carries(b, d) = {} /\ OpensOf(b, d) = {} /\ \A q : ~Holds(b, d, q)
    BY NothingIn DEF Posting
  <1>1. CASE r = Append(s, m) /\ c = <<>>
    <2>1. Carries(c, d) = {} /\ OpensOf(c, d) = {} /\ \A q : ~Holds(c, d, q)
      BY <1>1, NothingIn
    <2>2. EventAdded(s, m, r, d)
      BY <1>1, EventAppended
    <2>3. PICK n \in Int :
            /\ Carries(r, d) = Carries(s, d) \cup {n} /\ OpensOf(r, d) = OpensOf(s, d)
            /\ \A i \in Carries(s, d) : i < n /\ Number(r, i) = Number(s, i)
            /\ \A i \in OpensOf(s, d) : i < n
            /\ Number(r, n) = hi + 1
      BY <2>2 DEF EventAdded
    <2>4. \A i \in Carries(s, d) : i \in Int /\ Number(s, i) \in Int
      BY PlacesTyped, NumbersTyped
    <2>5. OpenFirst(s, b, d) => OpenFirst(r, c, d)
      BY <2>1, <2>3 DEF OpenFirst
    <2>6. \A q : Holds(r, d, q) <=> Holds(s, d, q) \/ q = hi + 1
      BY <2>3 DEF Holds
    <2>7. ASSUME NEW lo \in Int, lo <= hi + 1, Coming(s, b, d, lo, hi)
          PROVE  Coming(r, c, d, lo, hi + 1)
      <3>1. \A q \in Int : Holds(s, d, q) <=> lo <= q /\ q <= hi
        BY <1>0, <2>7 DEF Coming
      <3>2. \A i \in Carries(s, d) : Number(s, i) <= hi
        BY <2>4, <3>1 DEF Holds
      <3>3. \A i, j \in Carries(r, d) : i < j => Number(r, i) < Number(r, j)
        <4>1. \A i, j \in Carries(s, d) : i < j => Number(s, i) < Number(s, j)
          BY <2>7 DEF Coming
        <4>2. \A i \in Carries(s, d) : i < n /\ ~(n < i) /\ Number(s, i) < hi + 1
          BY <2>3, <2>4, <3>2
        <4> QED
          BY <2>3, <4>1, <4>2
      <3>4. \A q \in Int : Holds(r, d, q) \/ Holds(c, d, q) <=> lo <= q /\ q <= hi + 1
        BY <2>1, <2>6, <2>7, <3>1
      <3> QED
        BY <2>1, <3>3, <3>4 DEF Coming
    <2> QED
      BY <1>0, <2>1, <2>3, <2>5, <2>7 DEF PacketCame
  <1>2. CASE r = s /\ c = <<m>>
    <2>1. Carries(c, d) = {1} /\ OpensOf(c, d) = {} /\ Number(c, 1) = hi + 1
      BY <1>2, OneEvent
    <2>2. OpenFirst(s, b, d) => OpenFirst(r, c, d)
      BY <1>2, <2>1 DEF OpenFirst
    <2>3. \A q : Holds(c, d, q) <=> q = hi + 1
      BY <2>1 DEF Holds
    <2>4. ASSUME NEW lo \in Int, lo <= hi + 1, Coming(s, b, d, lo, hi)
          PROVE  Coming(r, c, d, lo, hi + 1)
      <3>1. \A q \in Int : Holds(s, d, q) <=> lo <= q /\ q <= hi
        BY <1>0, <2>4 DEF Coming
      <3>2. \A i \in Carries(s, d) : Number(s, i) < hi + 1
        <4>1. \A i \in Carries(s, d) : Number(s, i) \in Int
          BY PlacesTyped, NumbersTyped
        <4> QED
          BY <3>1, <4>1 DEF Holds
      <3>3. \A q \in Int : Holds(r, d, q) \/ Holds(c, d, q) <=> lo <= q /\ q <= hi + 1
        BY <1>2, <2>3, <2>4, <3>1
      <3> QED
        BY <1>2, <2>1, <2>4, <3>2, <3>3 DEF Coming
    <2> QED
      BY <1>0, <1>2, <2>1, <2>2, <2>4 DEF PacketCame
  <1> QED
    BY <1>1, <1>2 DEF Posting

\* The Open of d, of which nothing came before.
LEMMA OpenPosting ==
  ASSUME NEW E, NEW s \in Seq(E), NEW m \in E, NEW b, NEW r, NEW c,
         Posting(s, b, m, r, c), NEW d, m.conn = d, m.pkts = <<>>, m.event = "Open",
         Carries(s, d) = {}
  PROVE  /\ OpenFirst(r, c, d)
         /\ OpensOf(r, d) # {} \/ OpensOf(c, d) # {}
         /\ Coming(r, c, d, 1, 0)
  <1>1. Carries(r, d) = {} /\ Carries(c, d) = {} /\ (OpensOf(r, d) # {} \/ OpensOf(c, d) # {})
    <2>1. CASE r = Append(s, m) /\ c = <<>>
      <3>1. EventAdded(s, m, r, d)
        BY <2>1, EventAppended
      <3>2. Carries(c, d) = {}
        BY <2>1, NothingIn
      <3> QED
        BY <3>1, <3>2 DEF EventAdded
    <2>2. CASE r = s /\ c = <<m>>
      <3>1. /\ Carries(c, d) = {i \in {1} : m.conn = d /\ m.pkts # <<>>}
            /\ OpensOf(c, d) = {i \in {1} : m.conn = d /\ m.event = "Open"}
        BY <2>2, OneEvent
      <3>2. Carries(c, d) = {} /\ 1 \in OpensOf(c, d)
        BY <3>1
      <3> QED
        BY <2>2, <3>2
    <2> QED
      BY <2>1, <2>2 DEF Posting
  <1>2. \A q \in Int : ~(1 <= q /\ q <= 0)
    OBVIOUS
  <1> QED
    BY <1>1, <1>2 DEF OpenFirst, Coming, Holds

\* The loop gets rid of its event.
Unblocked(s, b, r, c, d) ==
  /\ OpenFirst(s, b, d) => OpenFirst(r, c, d)
  /\ OpensOf(r, d) # {} \/ OpensOf(c, d) # {} <=> OpensOf(s, d) # {} \/ OpensOf(b, d) # {}
  /\ \A lo, hi : Coming(s, b, d, lo, hi) => Coming(r, c, d, lo, hi)

LEMMA Unblocking ==
  ASSUME NEW E, NEW s \in Seq(E), NEW m \in E, NEW b, b = <<m>>,
         NEW r, r = Append(s, m), NEW c, c = <<>>, NEW d, m.event = "Open" => m.pkts = <<>>
  PROVE  Unblocked(s, b, r, c, d)
  <1>1. Carries(c, d) = {} /\ OpensOf(c, d) = {} /\ \A q : ~Holds(c, d, q)
    BY NothingIn
  <1>2. /\ Carries(b, d) = {i \in {1} : m.conn = d /\ m.pkts # <<>>}
        /\ OpensOf(b, d) = {i \in {1} : m.conn = d /\ m.event = "Open"}
        /\ Number(b, 1) = m.pkts[1].seq
    BY OneEvent
  <1>3. EventAdded(s, m, r, d)
    BY EventAppended
  <1>4. PICK n \in Int :
          /\ Carries(r, d) = Carries(s, d) \cup {k \in {n} : m.conn = d /\ m.pkts # <<>>}
          /\ OpensOf(r, d) = OpensOf(s, d) \cup {k \in {n} : m.conn = d /\ m.event = "Open"}
          /\ \A i \in Carries(s, d) : i < n /\ Number(r, i) = Number(s, i)
          /\ \A i \in OpensOf(s, d) : i < n
          /\ Number(r, n) = Number(b, 1)
    BY <1>2, <1>3 DEF EventAdded
  <1>5. \A i \in Carries(s, d) : i \in Int /\ i < n /\ ~(n < i)
    BY <1>4, PlacesTyped
  <1>6. OpenFirst(s, b, d) => OpenFirst(r, c, d)
    <2>1. CASE m.conn = d /\ m.event = "Open"
      BY <1>1, <1>2, <1>4, <2>1 DEF OpenFirst
    <2>2. CASE ~(m.conn = d /\ m.event = "Open")
      BY <1>1, <1>4, <2>2 DEF OpenFirst
    <2> QED
      BY <2>1, <2>2
  <1>7. \A q : Holds(r, d, q) <=> Holds(s, d, q) \/ Holds(b, d, q)
    BY <1>2, <1>4 DEF Holds
  <1>8. ASSUME NEW lo, NEW hi, Coming(s, b, d, lo, hi) PROVE Coming(r, c, d, lo, hi)
    <2>1. \A i, j \in Carries(r, d) : i < j => Number(r, i) < Number(r, j)
      <3>1. \A i, j \in Carries(s, d) : i < j => Number(s, i) < Number(s, j)
        BY <1>8 DEF Coming
      <3>2. \A i \in Carries(s, d), j \in Carries(b, d) : Number(s, i) < Number(b, j)
        BY <1>8 DEF Coming
      <3>3. \A i \in Carries(s, d) : n \in Carries(r, d) => Number(r, i) < Number(r, n) \/ i = n
        BY <1>2, <1>4, <1>5, <3>2
      <3> QED
        BY <1>4, <1>5, <3>1, <3>3
    <2>2. \A q \in Int : Holds(r, d, q) \/ Holds(c, d, q) <=> lo <= q /\ q <= hi
      BY <1>1, <1>7, <1>8 DEF Coming
    <2> QED
      BY <1>1, <2>1, <2>2 DEF Coming
  <1>9. OpensOf(r, d) # {} \/ OpensOf(c, d) # {} <=> OpensOf(s, d) # {} \/ OpensOf(b, d) # {}
    BY <1>1, <1>2, <1>4
  <1> QED
    BY <1>6, <1>8, <1>9 DEF Unblocked

\* The first packet of d is the next, and leaves the others.
LEMMA ComingNext ==
  ASSUME NEW E, HasNumbers(E), NEW s \in Seq(E), s # <<>>, NEW r, r = Tail(s), NEW d,
         1 \in Carries(s, d), NEW b \in Seq(E),
         NEW lo \in Int, NEW hi \in Int, Coming(s, b, d, lo, hi)
  PROVE  /\ Number(s, 1) = lo /\ lo <= hi
         /\ Coming(r, b, d, lo + 1, hi)
  <1>1. EventGone(s, r, d)
    BY EventTaken
  <1>2. /\ \A i \in Carries(s, d) : i \in Int /\ 1 <= i /\ Number(s, i) \in Int
        /\ \A i \in Carries(r, d) : i \in Int /\ 1 <= i /\ Number(r, i) \in Int
        /\ \A i \in Carries(b, d) : Number(b, i) \in Int
    <2>1. r \in Seq(E)
      OBVIOUS
    <2>2. \A i \in Carries(s, d) : i \in Int /\ 1 <= i /\ Number(s, i) \in Int
      BY PlacesTyped, NumbersTyped
    <2>3. \A i \in Carries(r, d) : i \in Int /\ 1 <= i /\ Number(r, i) \in Int
      <3>1. PICK q \in Seq(E) : q = r
        BY <2>1
      <3>2. \A i \in Carries(q, d) : i \in Int /\ 1 <= i /\ Number(q, i) \in Int
        BY PlacesTyped, NumbersTyped
      <3> QED
        BY <3>1, <3>2, Zenon
    <2>4. \A i \in Carries(b, d) : Number(b, i) \in Int
      BY PlacesTyped, NumbersTyped
    <2> QED
      BY <2>2, <2>3, <2>4
  <1>3. PICK n \in Int : n = Number(s, 1)
    BY <1>2
  <1>4. /\ \A j \in Carries(s, d) : j # 1 => n < Number(s, j)
        /\ \A j \in Carries(b, d) : n < Number(b, j)
    BY <1>2, <1>3 DEF Coming
  <1>5. \A q \in Int : Holds(s, d, q) \/ Holds(b, d, q) => n <= q
    <2>1. \A j \in Carries(s, d) : n <= Number(s, j)
      BY <1>2, <1>3, <1>4
    <2>2. \A j \in Carries(b, d) : n <= Number(b, j)
      BY <1>2, <1>4
    <2> QED
      BY <2>1, <2>2 DEF Holds
  <1>6. Holds(s, d, n) /\ lo <= n /\ n <= hi
    <2>1. Holds(s, d, n)
      BY <1>3 DEF Holds
    <2> QED
      BY <2>1 DEF Coming
  <1>7. n = lo
    <2>1. Holds(s, d, lo) \/ Holds(b, d, lo)
      <3>1. lo <= lo /\ lo <= hi
        BY <1>6
      <3> QED
        BY <3>1 DEF Coming
    <2> QED
      BY <1>5, <1>6, <2>1
  <1>8. \A i \in Carries(r, d) :
          i + 1 \in Carries(s, d) /\ i + 1 # 1 /\ Number(r, i) = Number(s, i + 1)
    BY <1>1, <1>2 DEF EventGone
  <1>9. \A q \in Int : Holds(r, d, q) <=> Holds(s, d, q) /\ q # n
    <2>1. ASSUME NEW q \in Int, Holds(r, d, q) PROVE Holds(s, d, q) /\ q # n
      BY <1>4, <1>8, <2>1 DEF Holds
    <2>2. ASSUME NEW q \in Int, Holds(s, d, q), q # n PROVE Holds(r, d, q)
      <3>1. PICK j \in Carries(s, d) : Number(s, j) = q
        BY <2>2 DEF Holds
      <3>2. j # 1
        BY <1>3, <2>2, <3>1
      <3>3. j - 1 \in Carries(r, d) /\ Number(r, j - 1) = q
        BY <1>1, <3>1, <3>2 DEF EventGone
      <3> QED
        BY <3>3 DEF Holds
    <2> QED
      BY <2>1, <2>2
  <1>10. Coming(r, b, d, lo + 1, hi)
    <2>1. \A i, j \in Carries(r, d) : i < j => Number(r, i) < Number(r, j)
      <3>1. \A i, j \in Carries(r, d) : i < j => i + 1 < j + 1
        BY <1>2
      <3> QED
        BY <1>8, <3>1 DEF Coming
    <2>2. \A i \in Carries(r, d), j \in Carries(b, d) : Number(r, i) < Number(b, j)
      BY <1>8 DEF Coming
    <2>3. \A q \in Int : Holds(b, d, q) => q # n
      BY <1>2, <1>3, <1>4 DEF Holds
    <2>4. \A q \in Int : Holds(r, d, q) \/ Holds(b, d, q) <=> lo <= q /\ q <= hi /\ q # lo
      BY <1>7, <1>9, <2>3 DEF Coming
    <2>5. \A q \in Int : lo <= q /\ q # lo <=> lo + 1 <= q
      OBVIOUS
    <2>6. \A q \in Int : Holds(r, d, q) \/ Holds(b, d, q) <=> lo + 1 <= q /\ q <= hi
      BY <2>4, <2>5
    <2> QED
      BY <2>1, <2>2, <2>6 DEF Coming
  <1> QED
    BY <1>3, <1>6, <1>7, <1>10

\* What stays of d when the first event goes.
TakenKept(s, r, b, d) ==
  /\ OpenFirst(s, b, d) => OpenFirst(r, b, d)
  /\ 1 \notin Carries(s, d) =>
       \A lo, hi : Coming(s, b, d, lo, hi) => Coming(r, b, d, lo, hi)

LEMMA TakenKeeps ==
  ASSUME NEW E, NEW s \in Seq(E), s # <<>>, NEW r \in Seq(E), r = Tail(s), NEW d, NEW b
  PROVE  TakenKept(s, r, b, d)
  <1>1. EventGone(s, r, d)
    BY EventTaken
  <1>2. \A i \in Carries(r, d) \cup OpensOf(r, d) \cup Carries(s, d) : i \in Int
    <2>1. \A i \in Carries(s, d) : i \in Int
      BY PlacesTyped
    <2>2. \A i \in Carries(r, d) \cup OpensOf(r, d) : i \in Int
      <3>1. DOMAIN r \subseteq Int
        OBVIOUS
      <3> QED
        BY <3>1 DEF Carries, OpensOf
    <2> QED
      BY <2>1, <2>2
  <1>3. \A i, j \in Carries(r, d) \cup OpensOf(r, d) : i + 1 < j + 1 <=> i < j
    BY <1>2
  <1>4. /\ \A i \in Carries(r, d) : i + 1 \in Carries(s, d) /\ Number(r, i) = Number(s, i + 1)
        /\ \A i \in OpensOf(r, d) : i + 1 \in OpensOf(s, d)
    BY <1>1 DEF EventGone
  <1>5. OpenFirst(s, b, d) => OpenFirst(r, b, d)
    BY <1>3, <1>4 DEF OpenFirst
  <1>6. ASSUME 1 \notin Carries(s, d), NEW lo, NEW hi, Coming(s, b, d, lo, hi)
        PROVE  Coming(r, b, d, lo, hi)
    <2>1. \A i, j \in Carries(r, d) : i < j => Number(r, i) < Number(r, j)
      BY <1>3, <1>4, <1>6 DEF Coming
    <2>2. \A i \in Carries(r, d), j \in Carries(b, d) : Number(r, i) < Number(b, j)
      BY <1>4, <1>6 DEF Coming
    <2>3. \A q : Holds(r, d, q) <=> Holds(s, d, q)
      <3>1. \A j \in Carries(s, d) : j - 1 \in Carries(r, d) /\ Number(r, j - 1) = Number(s, j)
        BY <1>1, <1>6 DEF EventGone
      <3> QED
        BY <1>4, <3>1 DEF Holds
    <2>4. \A q \in Int : Holds(r, d, q) \/ Holds(b, d, q) <=> lo <= q /\ q <= hi
      BY <1>6, <2>3 DEF Coming
    <2> QED
      BY <2>1, <2>2, <2>4 DEF Coming
  <1> QED
    BY <1>5, <1>6 DEF TakenKept

\* In s and then b, the Close of a connection is of a closed one, and after
\* it there is no event of the connection.
ClosesEnd(s, b, cs) ==
  /\ \A i \in DOMAIN s :
       s[i].event = "Close" =>
         /\ s[i].conn \in DOMAIN cs /\ cs[s[i].conn].st = "closed"
         /\ \A j \in DOMAIN s : s[j].conn = s[i].conn => j <= i
         /\ \A j \in DOMAIN b : b[j].conn # s[i].conn
  /\ \A j \in DOMAIN b :
       b[j].event = "Close" => b[j].conn \in DOMAIN cs /\ cs[b[j].conn].st = "closed"

ClosedStay(cs, ds) ==
  \A e \in DOMAIN cs : e \in DOMAIN ds /\ (cs[e].st = "closed" => ds[e].st = "closed")

\* An event of a connection that was not closed comes last.
LEMMA EndAppended ==
  ASSUME NEW E, NEW s \in Seq(E), NEW b, NEW m \in E, NEW cs, NEW ds,
         ClosesEnd(s, b, cs), ClosedStay(cs, ds),
         m.conn \in DOMAIN cs => cs[m.conn].st # "closed",
         m.event = "Close" => /\ m.conn \in DOMAIN ds /\ ds[m.conn].st = "closed"
                              /\ \A j \in DOMAIN b : b[j].conn # m.conn
  PROVE  ClosesEnd(Append(s, m), b, ds)
  <1>1. PICK r : r = Append(s, m)
    OBVIOUS
  <1>2. \A i \in DOMAIN r : /\ i \in Int /\ i <= Len(s) + 1
                            /\ \/ i \in DOMAIN s /\ i <= Len(s) /\ r[i] = s[i]
                               \/ i = Len(s) + 1 /\ r[i] = m
    BY <1>1
  <1>3. ASSUME NEW i \in DOMAIN r, r[i].event = "Close"
        PROVE  /\ r[i].conn \in DOMAIN ds /\ ds[r[i].conn].st = "closed"
               /\ \A j \in DOMAIN r : r[j].conn = r[i].conn => j <= i
               /\ \A j \in DOMAIN b : b[j].conn # r[i].conn
    <2>1. CASE i \in DOMAIN s /\ r[i] = s[i]
      <3>1. /\ s[i].conn \in DOMAIN cs /\ cs[s[i].conn].st = "closed"
            /\ \A j \in DOMAIN s : s[j].conn = s[i].conn => j <= i
            /\ \A j \in DOMAIN b : b[j].conn # s[i].conn
        BY <1>3, <2>1 DEF ClosesEnd
      <3>2. s[i].conn # m.conn
        BY <3>1
      <3>3. \A j \in DOMAIN r : r[j].conn = r[i].conn => j <= i
        BY <1>2, <2>1, <3>1, <3>2
      <3> QED
        BY <2>1, <3>1, <3>3 DEF ClosedStay
    <2>2. CASE i = Len(s) + 1 /\ r[i] = m
      BY <1>2, <1>3, <2>2
    <2> QED
      BY <1>2, <2>1, <2>2
  <1>4. \A j \in DOMAIN b :
          b[j].event = "Close" => b[j].conn \in DOMAIN ds /\ ds[b[j].conn].st = "closed"
    BY DEF ClosesEnd, ClosedStay
  <1> QED
    BY <1>1, <1>3, <1>4 DEF ClosesEnd

\* An event is posted.
LEMMA EndPosted ==
  ASSUME NEW E, NEW s \in Seq(E), NEW b, NEW m \in E, NEW r, NEW c, NEW cs, NEW ds,
         Posting(s, b, m, r, c), ClosesEnd(s, b, cs), ClosedStay(cs, ds),
         m.conn \in DOMAIN cs, cs[m.conn].st # "closed",
         m.event = "Close" => ds[m.conn].st = "closed"
  PROVE  ClosesEnd(r, c, ds)
  <1>1. m.conn \in DOMAIN ds
    BY DEF ClosedStay
  <1>2. CASE r = Append(s, m) /\ c = <<>>
    <2>1. c = b /\ \A j \in DOMAIN b : b[j].conn # m.conn
      BY <1>2 DEF Posting
    <2> QED
      BY <1>1, <1>2, <2>1, EndAppended
  <1>3. CASE r = s /\ c = <<m>>
    <2>1. DOMAIN c = {1} /\ c[1] = m
      BY <1>3
    <2>2. \A i \in DOMAIN s :
            s[i].event = "Close" =>
              /\ s[i].conn \in DOMAIN ds /\ ds[s[i].conn].st = "closed"
              /\ \A j \in DOMAIN s : s[j].conn = s[i].conn => j <= i
              /\ s[i].conn # m.conn
      BY DEF ClosesEnd, ClosedStay
    <2> QED
      BY <1>1, <1>3, <2>1, <2>2 DEF ClosesEnd
  <1> QED
    BY <1>2, <1>3 DEF Posting

\* The first event is taken.
LEMMA EndTaken ==
  ASSUME NEW E, NEW s \in Seq(E), s # <<>>, NEW b, NEW cs, ClosesEnd(s, b, cs)
  PROVE  ClosesEnd(Tail(s), b, cs)
  <1>1. PICK r : r = Tail(s)
    OBVIOUS
  <1>2. \A i \in DOMAIN r : i \in Int /\ i + 1 \in DOMAIN s /\ r[i] = s[i + 1]
    BY <1>1
  <1>3. ASSUME NEW i \in DOMAIN r, r[i].event = "Close"
        PROVE  /\ r[i].conn \in DOMAIN cs /\ cs[r[i].conn].st = "closed"
               /\ \A j \in DOMAIN r : r[j].conn = r[i].conn => j <= i
               /\ \A j \in DOMAIN b : b[j].conn # r[i].conn
    <2>1. PICK k \in DOMAIN s : k = i + 1 /\ r[i] = s[k]
      BY <1>2
    <2>2. /\ s[k].conn \in DOMAIN cs /\ cs[s[k].conn].st = "closed"
          /\ \A j \in DOMAIN s : s[j].conn = s[k].conn => j <= k
          /\ \A j \in DOMAIN b : b[j].conn # s[k].conn
      BY <1>3, <2>1 DEF ClosesEnd
    <2>3. ASSUME NEW j \in DOMAIN r, r[j].conn = r[i].conn
          PROVE  j <= i
      <3>1. j + 1 <= i + 1
        BY <1>2, <2>1, <2>2, <2>3
      <3> QED
        BY <1>2, <3>1
    <2> QED
      BY <2>1, <2>2, <2>3
  <1> QED
    BY <1>1, <1>3 DEF ClosesEnd

\* The loop gets rid of its event.
LEMMA EndUnblocked ==
  ASSUME NEW E, NEW s \in Seq(E), NEW m \in E, NEW cs, ClosesEnd(s, <<m>>, cs)
  PROVE  ClosesEnd(Append(s, m), <<>>, cs)
  <1>1. PICK r, b : r = Append(s, m) /\ b = <<m>>
    OBVIOUS
  <1>2. \A i \in DOMAIN r : /\ i \in Int /\ i <= Len(s) + 1
                            /\ \/ i \in DOMAIN s /\ i <= Len(s) /\ r[i] = s[i]
                               \/ i = Len(s) + 1 /\ r[i] = m
    BY <1>1
  <1>3. 1 \in DOMAIN b /\ b[1] = m
    BY <1>1
  <1>4. ASSUME NEW i \in DOMAIN r, r[i].event = "Close"
        PROVE  /\ r[i].conn \in DOMAIN cs /\ cs[r[i].conn].st = "closed"
               /\ \A j \in DOMAIN r : r[j].conn = r[i].conn => j <= i
    <2>1. CASE i \in DOMAIN s /\ r[i] = s[i]
      <3>1. /\ s[i].conn \in DOMAIN cs /\ cs[s[i].conn].st = "closed"
            /\ \A j \in DOMAIN s : s[j].conn = s[i].conn => j <= i
            /\ m.conn # s[i].conn
        BY <1>1, <1>3, <1>4, <2>1 DEF ClosesEnd
      <3> QED
        BY <1>2, <2>1, <3>1
    <2>2. CASE i = Len(s) + 1 /\ r[i] = m
      <3>1. m.conn \in DOMAIN cs /\ cs[m.conn].st = "closed"
        BY <1>1, <1>3, <1>4, <2>2 DEF ClosesEnd
      <3> QED
        BY <1>2, <2>2, <3>1
    <2> QED
      BY <1>2, <2>1, <2>2
  <1> QED
    BY <1>1, <1>4 DEF ClosesEnd
=============================================================================
