------------------------- MODULE ServerOrderProofs -------------------------
(***************************************************************************)
(* The order and the completeness of both streams through a server worker, *)
(* for every number of clients, destinations and packets and every         *)
(* capacity of the channels: what a destination is written, and what a     *)
(* client is written, is in order and without a gap, however the           *)
(* goroutines and the event loops interleave.                              *)
(***************************************************************************)
EXTENDS ServerWorkerProofs

(***************************************************************************)
(* Numbers in a line                                                       *)
(*                                                                         *)
(* What is on its way in a stream sits at increasing positions of several  *)
(* queues.  A line gives each position the interval of the numbers it      *)
(* holds: in order, from lo to hi, none missing and none twice.            *)
(***************************************************************************)
Intervals(f) ==
  \A i \in DOMAIN f : i \in Int /\ f[i].first \in Int /\ f[i].last \in Int /\ f[i].first <= f[i].last

Rising(f) == \A i, j \in DOMAIN f : i < j => f[i].last < f[j].first

Covers(f, lo, hi) ==
  \A q \in Int : (\E i \in DOMAIN f : f[i].first <= q /\ q <= f[i].last) <=> lo <= q /\ q <= hi

Line(f, lo, hi) ==
  /\ lo \in Int /\ hi \in Int /\ lo <= hi + 1
  /\ Intervals(f)
  /\ Rising(f)
  /\ Covers(f, lo, hi)

Single(q) == [first |-> q, last |-> q]

(***************************************************************************)
(* Upstream: the invariant                                                 *)
(***************************************************************************)

\* The calls decided on and not made yet come after the tasks queued.
queue == tasks \o up.io

\* Positions of the writes to connection d in s.
Writes(s, d) == {i \in DOMAIN s : s[i].op = "write" /\ s[i].conn = d}

\* What connection d was written, at positions up to 0, and what is about to
\* be written to it from s, at positions from 1.
Pipe(out, s, d) ==
  [i \in Writes(s, d) \cup (1 - Len(out))..0 |->
     IF i > 0 THEN Single(s[i].payload.seq) ELSE Single(out[i + Len(out)].seq)]

\* The packets of c in the channel, and at position 0 those the upstream
\* goroutine has received.
Span(pkts) == [first |-> pkts[1].payload.seq, last |-> pkts[Len(pkts)].payload.seq]

Inbox(s, conn, pkts, c) ==
  [i \in {k \in DOMAIN s : s[k].conn = c /\ s[k].pkts # <<>>}
           \cup {k \in {0} : conn = c /\ pkts # <<>>} |->
     IF i = 0 THEN Span(pkts) ELSE Span(s[i].pkts)]

\* The d-th dial is for the d-th session: one session, one dial.
DialsInOrder ==
  /\ \A d \in DOMAIN dials : dials[d].token.session = d
  /\ \A i \in DOMAIN up.io : up.io[i].op = "dial" => up.io[i].token.session = Len(dials) + 1
  /\ Len(sess) <= Len(dials) + 1
  /\ (\A i \in DOMAIN up.io : up.io[i].op # "dial") => Len(sess) = Len(dials)

\* A write is addressed to a connection dialed for the client it is from.
Own(s, ds) ==
  \A i \in DOMAIN s :
    s[i].op = "write" =>
      s[i].conn \in DOMAIN ds /\ s[i].payload.client = ds[s[i].conn].token.client

\* The packets of one read of client c: consecutive, and all its own.
Batch(pkts, c) ==
  \A k \in DOMAIN pkts :
    pkts[k].payload.client = c /\ pkts[k].payload.seq = pkts[1].payload.seq + k - 1

BatchesRun ==
  /\ \A i \in DOMAIN channel :
       Batch(channel[i].pkts, channel[i].conn) /\ (channel[i].event = "Data" <=> channel[i].pkts # <<>>)
  /\ Batch(up.pkts, up.conn)

\* Nothing is written to a connection before its dial result was handled.
Unused(out, s, d) == out = <<>> /\ Writes(s, d) = {}

DialingUnused ==
  \A d \in DOMAIN dials : sess[d].dialing => Unused(conns[d].out, queue, d)

\* A session is dialing until the result of its dial is received.
ResultsFresh ==
  /\ \A d \in DOMAIN dials : dials[d].pc # "done" => sess[d].dialing
  /\ \A i \in DOMAIN dialResultChan : sess[dialResultChan[i].conn].dialing
  /\ \A i, j \in DOMAIN dialResultChan :
       dialResultChan[i].conn = dialResultChan[j].conn => i = j
  /\ \A s \in DOMAIN sess : s \notin DOMAIN dials => sess[s].dialing

PipesLine ==
  \A d \in DOMAIN conns :
    conns[d].st # "closed" => \E lo, hi \in Int : Line(Pipe(conns[d].out, queue, d), lo, hi)

\* The packets of a client up to a that its session still has to answer for.
PendingTo(pending, c, a) ==
  \A i \in DOMAIN pending :
    pending[i].client = c /\ pending[i].seq = a - Len(pending) + i

Kept(c, a) ==
  LET s == byClient[c] IN
    IF sess[s].dialing
      THEN PendingTo(sess[s].pending, c, a)
      ELSE /\ s \in DOMAIN conns
           /\ conns[s].st # "closed" =>
                \E lo \in Int : lo <= a /\ Line(Pipe(conns[s].out, queue, s), lo, a)

\* Of each client, the packets up to a went through admitUpstream, and those
\* after a are in the channel or with the upstream goroutine.
Streams ==
  \A c \in Clients : \E a \in Nat :
    /\ Line(Inbox(channel, up.conn, up.pkts, c), a + 1, nup[c])
    /\ c \in DOMAIN byClient => Kept(c, a)

UpInv ==
  /\ DialsInOrder
  /\ Own(queue, dials)
  /\ BatchesRun
  /\ DialingUnused
  /\ ResultsFresh
  /\ PipesLine
  /\ Streams
  /\ UpstreamInOrder

(***************************************************************************)
(* Downstream: the invariant                                               *)
(***************************************************************************)

\* The event the loop is stopped at comes after those in recvChan.
events == recvChan \o loop.blocked

\* The downstream goroutine is about to write a packet of connection d.
Writing(io, d) == io # <<>> /\ io[1].op = "write" /\ io[1].pkt.conn = d

\* What connection d has sent: the part written to its client at negative
\* positions, the part about to be at 0, the part still to be received after.
Sent(got, io, s, d) ==
  [i \in {k \in DOMAIN s : s[k].conn = d /\ s[k].pkts # <<>>}
           \cup {k \in {0} : Writing(io, d)}
           \cup {k \in (-Len(got))..(-1) : got[k + 1 + Len(got)].conn = d} |->
     IF i > 0 THEN Single(s[i].pkts[1].seq)
     ELSE IF i = 0 THEN Single(io[1].pkt.seq)
     ELSE Single(got[i + 1 + Len(got)].seq)]

\* An event has at most one packet, and is of a connection that was opened.
EventsWellFormed ==
  /\ Len(loop.blocked) <= 1
  /\ \A i \in DOMAIN events :
       /\ Len(events[i].pkts) <= 1
       /\ events[i].event = "Close" => events[i].pkts = <<>>
       /\ conns[events[i].conn].st # "new"

NewUnread == \A d \in DOMAIN conns : conns[d].st = "new" => conns[d].in = 0

RoutedLine ==
  \A d \in DOMAIN byDest :
    cstate[byDest[d]] = "open" =>
      Line(Sent(delivered[byDest[d]], down.io, events, d), 1, conns[d].in)

\* The number that comes after what got ends with, on connection d.
NextOf(got, d) == IF got # <<>> /\ got[Len(got)].conn = d THEN got[Len(got)].seq + 1 ELSE 1

\* Connection d is no newer than the session c has.
NotNewer(d, c) == d \in DOMAIN conns /\ conns[d].st # "new" /\ (c \in DOMAIN byClient => d <= byClient[c])

DownNext ==
  /\ Len(down.io) <= 1
  /\ \A i \in DOMAIN down.io :
       down.io[i].op = "write" =>
         LET p == down.io[i].pkt
             c == down.io[i].client
         IN  /\ NotNewer(p.conn, c)
             /\ cstate[c] = "open" => p.seq = NextOf(delivered[c], p.conn)
             /\ \A k \in DOMAIN delivered[c] : delivered[c][k].conn <= p.conn

DeliveredNotNewer ==
  \A c \in Clients : \A k \in DOMAIN delivered[c] : NotNewer(delivered[c][k].conn, c)

\* A client's payloads are of older connections first, and of each one a
\* prefix of what it sent.
Runs(got) ==
  \A i \in DOMAIN got :
    LET p == got[i] IN
      /\ p.seq \in 1..i
      /\ \A j \in 1..i :
           IF j > i - p.seq
             THEN got[j] = [conn |-> p.conn, seq |-> j - (i - p.seq)]
             ELSE got[j].conn < p.conn

DeliveredRuns == \A c \in Clients : Runs(delivered[c])

DownInv ==
  /\ EventsWellFormed
  /\ NewUnread
  /\ RoutedLine
  /\ DownNext
  /\ DeliveredNotNewer
  /\ DeliveredRuns

(***************************************************************************)
(* Lines                                                                   *)
(***************************************************************************)

\* No number of a line is outside its bounds.
LEMMA LineBounds ==
  ASSUME NEW f, NEW lo, NEW hi, Line(f, lo, hi), NEW i \in DOMAIN f
  PROVE  /\ i \in Int /\ f[i].first \in Int /\ f[i].last \in Int
         /\ lo <= f[i].first /\ f[i].first <= f[i].last /\ f[i].last <= hi
  BY DEF Line, Intervals, Covers

\* A line without a position has no number.
LEMMA LineNothing ==
  ASSUME NEW f, DOMAIN f = {}, NEW hi \in Int
  PROVE  Line(f, hi + 1, hi)
  BY DEF Line, Intervals, Rising, Covers

\* g is f at other positions, in the same order: h gives the old positions.
Moved(f, g, h) ==
  /\ \A i \in DOMAIN g : i \in Int /\ h[i] \in DOMAIN f /\ g[i] = f[h[i]]
  /\ \A i, j \in DOMAIN g : i < j => h[i] < h[j]
  /\ \A k \in DOMAIN f : \E i \in DOMAIN g : h[i] = k

\* The numbers stay in line when positions change and their order does not.
LEMMA LineMoved ==
  ASSUME NEW f, NEW g, NEW h, NEW lo, NEW hi, Line(f, lo, hi), Moved(f, g, h)
  PROVE  Line(g, lo, hi)
  <1>1. Intervals(g)
    BY DEF Line, Intervals, Moved
  <1>2. Rising(g)
    BY DEF Line, Rising, Moved
  <1>3. Covers(g, lo, hi)
    <2> SUFFICES ASSUME NEW q \in Int
                 PROVE  (\E i \in DOMAIN g : g[i].first <= q /\ q <= g[i].last)
                          <=> (\E k \in DOMAIN f : f[k].first <= q /\ q <= f[k].last)
      BY DEF Line, Covers
    <2>1. ASSUME NEW i \in DOMAIN g, g[i].first <= q, q <= g[i].last
          PROVE  \E k \in DOMAIN f : f[k].first <= q /\ q <= f[k].last
      BY <2>1 DEF Moved
    <2>2. ASSUME NEW k \in DOMAIN f, f[k].first <= q, q <= f[k].last
          PROVE  \E i \in DOMAIN g : g[i].first <= q /\ q <= g[i].last
      <3>1. PICK i \in DOMAIN g : h[i] = k
        BY DEF Moved
      <3> QED
        BY <2>2, <3>1 DEF Moved
    <2> QED
      BY <2>1, <2>2
  <1> QED
    BY <1>1, <1>2, <1>3 DEF Line

\* The next numbers may follow at a later position.
LEMMA LineMore ==
  ASSUME NEW f, NEW g, NEW lo, NEW hi, Line(f, lo, hi),
         NEW k \in Int, \A i \in DOMAIN f : i < k,
         DOMAIN g = DOMAIN f \cup {k}, \A i \in DOMAIN f : g[i] = f[i],
         NEW hi2 \in Int, hi < hi2, g[k].first = hi + 1, g[k].last = hi2
  PROVE  Line(g, lo, hi2)
  <1>0. /\ lo \in Int /\ hi \in Int /\ lo <= hi + 1
        /\ \A i \in DOMAIN f : i # k
    BY DEF Line, Intervals
  <1>1. Intervals(g)
    BY <1>0 DEF Line, Intervals
  <1>2. Rising(g)
    <2> SUFFICES ASSUME NEW i \in DOMAIN g, NEW j \in DOMAIN g, i < j
                 PROVE  g[i].last < g[j].first
      BY DEF Rising
    <2>1. CASE i \in DOMAIN f /\ j \in DOMAIN f
      BY <2>1 DEF Line, Rising
    <2>2. CASE i \in DOMAIN f /\ j = k
      BY <2>2, <1>0, LineBounds
    <2>3. CASE i = k
      BY <2>3, <1>0, LineBounds
    <2> QED
      BY <2>1, <2>2, <2>3
  <1>3. Covers(g, lo, hi2)
    <2> SUFFICES ASSUME NEW q \in Int
                 PROVE  (\E i \in DOMAIN g : g[i].first <= q /\ q <= g[i].last)
                          <=> lo <= q /\ q <= hi2
      BY DEF Covers
    <2>1. (\E i \in DOMAIN f : f[i].first <= q /\ q <= f[i].last) <=> lo <= q /\ q <= hi
      BY DEF Line, Covers
    <2>2. (\E i \in DOMAIN g : g[i].first <= q /\ q <= g[i].last)
            <=> \/ \E i \in DOMAIN f : f[i].first <= q /\ q <= f[i].last
                \/ hi + 1 <= q /\ q <= hi2
      OBVIOUS
    <2> QED
      BY <2>1, <2>2, <1>0
  <1> QED
    BY <1>0, <1>1, <1>2, <1>3 DEF Line

\* The first position holds the first number.
LEMMA LineFirst ==
  ASSUME NEW f, NEW lo, NEW hi, Line(f, lo, hi),
         NEW k \in DOMAIN f, \A i \in DOMAIN f : k <= i
  PROVE  f[k].first = lo
  <1>1. /\ lo \in Int /\ hi \in Int /\ k \in Int
        /\ lo <= f[k].first /\ f[k].first <= f[k].last /\ f[k].last <= hi
        /\ f[k].first \in Int /\ f[k].last \in Int
    BY LineBounds DEF Line
  <1>2. PICK j \in DOMAIN f : f[j].first <= lo /\ lo <= f[j].last
    <2>1. lo <= lo /\ lo <= hi
      BY <1>1
    <2> QED
      BY <2>1, <1>1 DEF Line, Covers
  <1>3. CASE j = k
    BY <1>1, <1>2, <1>3
  <1>4. CASE j # k
    <2>1. j \in Int /\ k < j /\ f[j].first \in Int
      BY <1>1, <1>4, LineBounds
    <2>2. f[k].last < f[j].first
      BY <2>1 DEF Line, Rising
    <2> QED
      BY <1>1, <1>2, <2>1, <2>2
  <1> QED
    BY <1>3, <1>4

\* Two positions with none between them hold numbers that follow each other.
LEMMA LineNext ==
  ASSUME NEW f, NEW lo, NEW hi, Line(f, lo, hi),
         NEW k \in DOMAIN f, NEW j \in DOMAIN f, k < j,
         \A i \in DOMAIN f : i <= k \/ j <= i
  PROVE  f[j].first = f[k].last + 1
  <1>1. /\ lo \in Int /\ hi \in Int /\ k \in Int /\ j \in Int
        /\ lo <= f[k].first /\ f[k].first <= f[k].last
        /\ f[k].first \in Int /\ f[k].last \in Int
        /\ f[j].first <= f[j].last /\ f[j].last <= hi
        /\ f[j].first \in Int /\ f[j].last \in Int
    BY LineBounds DEF Line
  <1>2. f[k].last < f[j].first
    BY DEF Line, Rising
  <1>3. PICK m \in DOMAIN f : f[m].first <= f[k].last + 1 /\ f[k].last + 1 <= f[m].last
    <2>1. lo <= f[k].last + 1 /\ f[k].last + 1 <= hi /\ f[k].last + 1 \in Int
      BY <1>1, <1>2
    <2> QED
      BY <2>1 DEF Line, Covers
  <1>4. m \in Int /\ f[m].first \in Int /\ f[m].last \in Int
    BY LineBounds
  <1>5. ~(m <= k)
    <2>1. m = k => FALSE
      BY <1>1, <1>3, <1>4
    <2>2. m < k => f[m].last < f[k].first
      BY DEF Line, Rising
    <2> QED
      BY <1>1, <1>3, <1>4, <2>1, <2>2
  <1>6. CASE m = j
    BY <1>1, <1>2, <1>3, <1>6
  <1>7. CASE m # j
    <2>1. j < m
      BY <1>1, <1>4, <1>5, <1>7
    <2>2. f[j].last < f[m].first
      BY <2>1 DEF Line, Rising
    <2> QED
      BY <1>1, <1>2, <1>3, <1>4, <2>2
  <1> QED
    BY <1>6, <1>7

\* The first number may go: the rest is a line.
LEMMA LineTrimmed ==
  ASSUME NEW f, NEW g, NEW lo, NEW hi, Line(f, lo, hi),
         NEW k \in DOMAIN f, \A i \in DOMAIN f : k <= i,
         IF f[k].first = f[k].last
           THEN DOMAIN g = DOMAIN f \ {k}
           ELSE DOMAIN g = DOMAIN f /\ g[k].first = f[k].first + 1 /\ g[k].last = f[k].last,
         \A i \in DOMAIN f : i # k => g[i] = f[i]
  PROVE  Line(g, lo + 1, hi)
  <1>1. /\ lo \in Int /\ hi \in Int /\ k \in Int
        /\ f[k].first <= f[k].last /\ f[k].last <= hi
        /\ f[k].first \in Int /\ f[k].last \in Int
        /\ f[k].first = lo
    BY LineBounds, LineFirst DEF Line
  <1>2. \A i \in DOMAIN f : /\ i \in Int /\ f[i].first \in Int /\ f[i].last \in Int
                            /\ f[i].first <= f[i].last
                            /\ i # k => f[k].last < f[i].first
    <2> SUFFICES ASSUME NEW i \in DOMAIN f
                 PROVE  /\ i \in Int /\ f[i].first \in Int /\ f[i].last \in Int
                        /\ f[i].first <= f[i].last
                        /\ i # k => f[k].last < f[i].first
      OBVIOUS
    <2>1. i \in Int /\ f[i].first \in Int /\ f[i].last \in Int /\ f[i].first <= f[i].last
      BY LineBounds
    <2>2. i # k => k < i
      BY <2>1, <1>1
    <2> QED
      BY <2>1, <2>2 DEF Line, Rising
  <1>3. Intervals(g)
    BY <1>1, <1>2 DEF Intervals
  <1>4. Rising(g)
    <2> SUFFICES ASSUME NEW i \in DOMAIN g, NEW j \in DOMAIN g, i < j
                 PROVE  g[i].last < g[j].first
      BY DEF Rising
    <2>1. i \in DOMAIN f /\ j \in DOMAIN f /\ j # k
      BY <1>1, <1>2
    <2>2. g[i].last = f[i].last /\ g[j] = f[j]
      BY <2>1
    <2> QED
      BY <2>1, <2>2 DEF Line, Rising
  <1>5. Covers(g, lo + 1, hi)
    <2> SUFFICES ASSUME NEW q \in Int
                 PROVE  (\E i \in DOMAIN g : g[i].first <= q /\ q <= g[i].last)
                          <=> lo + 1 <= q /\ q <= hi
      BY DEF Covers
    <2>1. (\E i \in DOMAIN f : f[i].first <= q /\ q <= f[i].last) <=> lo <= q /\ q <= hi
      BY DEF Line, Covers
    <2>2. ASSUME NEW i \in DOMAIN g, g[i].first <= q, q <= g[i].last
          PROVE  lo + 1 <= q /\ q <= hi
      <3>1. i \in DOMAIN f
        OBVIOUS
      <3>2. i = k => lo + 1 <= q /\ q <= hi
        BY <2>2, <1>1
      <3>3. i # k => g[i] = f[i] /\ f[k].last < f[i].first
        BY <3>1, <1>2
      <3>4. i # k => lo + 1 <= q /\ q <= hi
        BY <2>1, <2>2, <3>1, <3>3, <1>1, <1>2
      <3> QED
        BY <3>2, <3>4
    <2>3. ASSUME lo + 1 <= q, q <= hi
          PROVE  \E i \in DOMAIN g : g[i].first <= q /\ q <= g[i].last
      <3>1. PICK i \in DOMAIN f : f[i].first <= q /\ q <= f[i].last
        BY <2>1, <2>3, <1>1
      <3>2. CASE i = k
        BY <3>1, <3>2, <2>3, <1>1
      <3>3. CASE i # k
        BY <3>1, <3>3
      <3> QED
        BY <3>2, <3>3
    <2> QED
      BY <2>2, <2>3
  <1>6. lo + 1 <= hi + 1
    BY <1>1
  <1> QED
    BY <1>1, <1>3, <1>4, <1>5, <1>6 DEF Line

(***************************************************************************)
(* What is written to a connection                                         *)
(***************************************************************************)

\* The positions of a pipe and what they hold.
IsPipe(f, out, s, d) ==
  /\ DOMAIN f = Writes(s, d) \cup (1 - Len(out))..0
  /\ \A i \in Writes(s, d) : i \in 1..Len(s) /\ f[i] = Single(s[i].payload.seq)
  /\ \A i \in (1 - Len(out))..0 :
       i + Len(out) \in DOMAIN out /\ f[i] = Single(out[i + Len(out)].seq)

LEMMA PipeAt ==
  ASSUME NEW out \in Seq(Payload), NEW s \in Seq(UpIO), NEW d
  PROVE  IsPipe(Pipe(out, s, d), out, s, d)
  <1> DEFINE f == Pipe(out, s, d)
  <1>1. DOMAIN f = Writes(s, d) \cup (1 - Len(out))..0
    BY DEF Pipe
  <1>2. ASSUME NEW i \in Writes(s, d)
        PROVE  i \in 1..Len(s) /\ f[i] = Single(s[i].payload.seq)
    <2>1. i \in 1..Len(s) /\ i > 0
      BY DEF Writes
    <2> QED
      BY <2>1 DEF Pipe
  <1>3. ASSUME NEW i \in (1 - Len(out))..0
        PROVE  i + Len(out) \in DOMAIN out /\ f[i] = Single(out[i + Len(out)].seq)
    <2>1. i \in Int /\ Len(out) \in Nat /\ ~(i > 0) /\ i + Len(out) \in 1..Len(out)
      OBVIOUS
    <2>2. i + Len(out) \in DOMAIN out
      BY <2>1
    <2> QED
      BY <2>1, <2>2 DEF Pipe
  <1> QED
    BY <1>1, <1>2, <1>3 DEF IsPipe

\* s is s2 with one more entry, the k-th.
OneMore(s2, s, k) ==
  /\ k \in 1..Len(s)
  /\ Len(s) = Len(s2) + 1
  /\ \A i \in 1..Len(s2) : s2[i] = IF i < k THEN s[i] ELSE s[i + 1]

\* A call that is no write to d may come and go.
LEMMA PipeWithout ==
  ASSUME NEW out \in Seq(Payload), NEW s \in Seq(UpIO), NEW s2 \in Seq(UpIO),
         NEW k, OneMore(s2, s, k), NEW d, k \notin Writes(s, d), NEW lo, NEW hi,
         Line(Pipe(out, s, d), lo, hi)
  PROVE  Line(Pipe(out, s2, d), lo, hi)
  <1> DEFINE f == Pipe(out, s, d)
             g == Pipe(out, s2, d)
             h == [i \in DOMAIN g |-> IF i < k THEN i ELSE i + 1]
  <1>f. IsPipe(f, out, s, d) /\ IsPipe(g, out, s2, d)
    BY PipeAt
  <1> HIDE DEF f, g
  <1>0. k \in Int /\ k > 0 /\ k <= Len(s) /\ Len(out) \in Nat /\ Len(s2) \in Nat
        /\ Len(s) = Len(s2) + 1
    BY DEF OneMore
  <1>1. ASSUME NEW i \in DOMAIN g
        PROVE  i \in Int /\ h[i] \in DOMAIN f /\ g[i] = f[h[i]]
    <2>1. h[i] = IF i < k THEN i ELSE i + 1
      OBVIOUS
    <2>2. CASE i \in Writes(s2, d)
      <3>1. i \in 1..Len(s2) /\ s2[i].op = "write" /\ s2[i].conn = d
        BY <2>2 DEF Writes
      <3>2. s2[i] = s[h[i]] /\ h[i] \in 1..Len(s)
        BY <3>1, <2>1, <1>0 DEF OneMore
      <3>3. h[i] \in Writes(s, d)
        BY <3>1, <3>2 DEF Writes
      <3> QED
        BY <2>2, <3>1, <3>2, <3>3, <1>f DEF IsPipe
    <2>3. CASE i \in (1 - Len(out))..0
      <3>1. i \in Int /\ i < k
        BY <2>3, <1>0
      <3> QED
        BY <2>1, <2>3, <3>1, <1>f DEF IsPipe
    <2> QED
      BY <2>2, <2>3, <1>f DEF IsPipe
  <1>2. ASSUME NEW i \in DOMAIN g, NEW j \in DOMAIN g, i < j
        PROVE  h[i] < h[j]
    <2>1. i \in Int /\ j \in Int
      BY <1>1
    <2> QED
      BY <1>0, <1>2, <2>1
  <1>3. ASSUME NEW m \in DOMAIN f
        PROVE  \E i \in DOMAIN g : h[i] = m
    <2>1. CASE m \in Writes(s, d)
      <3> DEFINE i == IF m < k THEN m ELSE m - 1
      <3>1. m \in 1..Len(s) /\ s[m].op = "write" /\ s[m].conn = d /\ m # k
        BY <2>1 DEF Writes
      <3>2. i \in 1..Len(s2) /\ (IF i < k THEN i ELSE i + 1) = m
        BY <3>1, <1>0
      <3>3. s2[i] = s[m]
        BY <3>2 DEF OneMore
      <3>4. i \in Writes(s2, d)
        BY <3>1, <3>2, <3>3 DEF Writes
      <3>5. i \in DOMAIN g
        BY <3>4, <1>f DEF IsPipe
      <3> QED
        BY <3>2, <3>5
    <2>2. CASE m \in (1 - Len(out))..0
      <3>1. m \in DOMAIN g /\ m < k
        BY <2>2, <1>0, <1>f DEF IsPipe
      <3> QED
        BY <3>1
    <2> QED
      BY <2>1, <2>2, <1>f DEF IsPipe
  <1> HIDE DEF h
  <1>4. Line(g, lo, hi)
    <2>1. Moved(f, g, h)
      BY <1>1, <1>2, <1>3 DEF Moved
    <2>2. Line(f, lo, hi)
      BY DEF f
    <2> QED
      BY <2>1, <2>2, LineMoved
  <1> QED
    BY <1>4 DEF g

LEMMA PipeWith ==
  ASSUME NEW out \in Seq(Payload), NEW s \in Seq(UpIO), NEW s2 \in Seq(UpIO),
         NEW k, OneMore(s2, s, k), NEW d, k \notin Writes(s, d), NEW lo, NEW hi,
         Line(Pipe(out, s2, d), lo, hi)
  PROVE  Line(Pipe(out, s, d), lo, hi)
  <1> DEFINE f == Pipe(out, s2, d)
             g == Pipe(out, s, d)
             h == [i \in DOMAIN g |-> IF i < k THEN i ELSE i - 1]
  <1>f. IsPipe(f, out, s2, d) /\ IsPipe(g, out, s, d)
    BY PipeAt
  <1> HIDE DEF f, g
  <1>0. k \in Int /\ k > 0 /\ k <= Len(s) /\ Len(out) \in Nat /\ Len(s2) \in Nat
        /\ Len(s) = Len(s2) + 1
    BY DEF OneMore
  <1>1. ASSUME NEW i \in DOMAIN g
        PROVE  i \in Int /\ i # k /\ h[i] \in DOMAIN f /\ g[i] = f[h[i]]
    <2>1. h[i] = IF i < k THEN i ELSE i - 1
      OBVIOUS
    <2>2. CASE i \in Writes(s, d)
      <3>1. i \in 1..Len(s) /\ s[i].op = "write" /\ s[i].conn = d /\ i # k
        BY <2>2 DEF Writes
      <3>2. h[i] \in 1..Len(s2) /\ (IF h[i] < k THEN h[i] ELSE h[i] + 1) = i
        BY <3>1, <2>1, <1>0
      <3>3. s2[h[i]] = s[i]
        BY <3>2 DEF OneMore
      <3>4. h[i] \in Writes(s2, d)
        BY <3>1, <3>2, <3>3 DEF Writes
      <3> QED
        BY <2>2, <3>1, <3>3, <3>4, <1>f DEF IsPipe
    <2>3. CASE i \in (1 - Len(out))..0
      <3>1. i \in Int /\ i < k
        BY <2>3, <1>0
      <3> QED
        BY <2>1, <2>3, <3>1, <1>f DEF IsPipe
    <2> QED
      BY <2>2, <2>3, <1>f DEF IsPipe
  <1>2. ASSUME NEW i \in DOMAIN g, NEW j \in DOMAIN g, i < j
        PROVE  h[i] < h[j]
    <2>1. i \in Int /\ j \in Int /\ i # k /\ j # k
      BY <1>1
    <2> QED
      BY <1>0, <1>2, <2>1
  <1>3. ASSUME NEW m \in DOMAIN f
        PROVE  \E i \in DOMAIN g : h[i] = m
    <2>1. CASE m \in Writes(s2, d)
      <3> DEFINE i == IF m < k THEN m ELSE m + 1
      <3>1. m \in 1..Len(s2) /\ s2[m].op = "write" /\ s2[m].conn = d
        BY <2>1 DEF Writes
      <3>2. i \in 1..Len(s) /\ (IF i < k THEN i ELSE i - 1) = m
        BY <3>1, <1>0
      <3>3. s2[m] = s[i]
        BY <3>1 DEF OneMore
      <3>4. i \in Writes(s, d)
        BY <3>1, <3>2, <3>3 DEF Writes
      <3>5. i \in DOMAIN g
        BY <3>4, <1>f DEF IsPipe
      <3> QED
        BY <3>2, <3>5
    <2>2. CASE m \in (1 - Len(out))..0
      <3>1. m \in DOMAIN g /\ m < k
        BY <2>2, <1>0, <1>f DEF IsPipe
      <3> QED
        BY <3>1
    <2> QED
      BY <2>1, <2>2, <1>f DEF IsPipe
  <1> HIDE DEF h
  <1>4. Line(g, lo, hi)
    <2>1. Moved(f, g, h)
      BY <1>1, <1>2, <1>3 DEF Moved
    <2>2. Line(f, lo, hi)
      BY DEF f
    <2> QED
      BY <2>1, <2>2, LineMoved
  <1> QED
    BY <1>4 DEF g

\* The next packet is put behind what is on its way.
LEMMA PipeAppended ==
  ASSUME NEW out \in Seq(Payload), NEW s \in Seq(UpIO), NEW t \in UpIO, NEW d,
         NEW lo, NEW hi, Line(Pipe(out, s, d), lo, hi),
         t.op = "write", t.conn = d, t.payload.seq = hi + 1
  PROVE  Line(Pipe(out, Append(s, t), d), lo, hi + 1)
  <1> DEFINE f == Pipe(out, s, d)
             s2 == Append(s, t)
             g == Pipe(out, s2, d)
             k == Len(s) + 1
  <1>1. /\ s2 \in Seq(UpIO) /\ Len(s2) = k /\ k \in Nat /\ hi \in Int
        /\ s2[k] = t /\ \A i \in 1..Len(s) : s2[i] = s[i]
    BY DEF Line
  <1>f. IsPipe(f, out, s, d) /\ IsPipe(g, out, s2, d)
    BY <1>1, PipeAt
  <1> HIDE DEF f, g, s2, k
  <1>2. Writes(s2, d) = Writes(s, d) \cup {k}
    BY <1>1 DEF Writes, k
  <1>3. DOMAIN g = DOMAIN f \cup {k}
    BY <1>1, <1>2, <1>f DEF IsPipe
  <1>4. ASSUME NEW i \in DOMAIN f
        PROVE  i < k /\ g[i] = f[i]
    <2>1. CASE i \in Writes(s, d)
      <3>1. i \in 1..Len(s) /\ i \in Writes(s2, d)
        BY <2>1, <1>2 DEF Writes
      <3> QED
        BY <2>1, <3>1, <1>1, <1>f DEF IsPipe, k
    <2>2. CASE i \in (1 - Len(out))..0
      <3>1. i < k
        BY <2>2 DEF k
      <3> QED
        BY <2>2, <3>1, <1>1, <1>f DEF IsPipe
    <2> QED
      BY <2>1, <2>2, <1>f DEF IsPipe
  <1>5. g[k].first = hi + 1 /\ g[k].last = hi + 1
    <2>1. g[k] = Single(hi + 1)
      BY <1>1, <1>2, <1>f DEF IsPipe
    <2> QED
      BY <2>1 DEF Single
  <1>6. hi < hi + 1 /\ hi + 1 \in Int
    BY <1>1
  <1>7. Line(f, lo, hi)
    BY DEF f
  <1>8. Line(g, lo, hi + 1)
    <2>1. k \in Int /\ (\A i \in DOMAIN f : i < k) /\ \A i \in DOMAIN f : g[i] = f[i]
      BY <1>1, <1>4
    <2> QED
      BY <1>3, <1>5, <1>6, <1>7, <2>1, LineMore
  <1> QED
    BY <1>8 DEF g, s2

\* The first write in the queue is carried out: it was the next.
LEMMA PipeWritten ==
  ASSUME NEW out \in Seq(Payload), NEW s \in Seq(UpIO), NEW s2 \in Seq(UpIO), NEW d,
         NEW lo, NEW hi, Line(Pipe(out, s, d), lo, hi), OneMore(s2, s, 1),
         s[1].op = "write", s[1].conn = d, NEW p \in Payload, s[1].payload = p
  PROVE  /\ Line(Pipe(Append(out, p), s2, d), lo, hi)
         /\ Len(out) # 0 => p.seq = out[Len(out)].seq + 1
  <1> DEFINE f == Pipe(out, s, d)
             o == Append(out, p)
             g == Pipe(o, s2, d)
             h == [i \in DOMAIN g |-> i + 1]
             n == Len(out)
  <1>0. /\ o \in Seq(Payload) /\ Len(o) = n + 1 /\ n \in Nat /\ o[n + 1] = p
        /\ \A i \in 1..n : o[i] = out[i]
        /\ Len(s2) \in Nat /\ Len(s) = Len(s2) + 1
    BY DEF OneMore
  <1>f. IsPipe(f, out, s, d) /\ IsPipe(g, o, s2, d)
    BY <1>0, PipeAt
  <1> HIDE DEF f, g
  <1>w. 1 \in Writes(s, d) /\ f[1] = Single(p.seq)
    <2>1. 1 \in Writes(s, d)
      BY <1>0 DEF Writes
    <2> QED
      BY <2>1, <1>f DEF IsPipe
  <1> HIDE DEF o, n
  <1>1. ASSUME NEW i \in DOMAIN g
        PROVE  i \in Int /\ h[i] \in DOMAIN f /\ g[i] = f[h[i]]
    <2>1. h[i] = i + 1
      OBVIOUS
    <2>2. CASE i \in Writes(s2, d)
      <3>1. i \in 1..Len(s2) /\ s2[i].op = "write" /\ s2[i].conn = d
        BY <2>2 DEF Writes
      <3>2. s2[i] = s[i + 1] /\ i + 1 \in 1..Len(s)
        BY <3>1, <1>0 DEF OneMore
      <3>3. i + 1 \in Writes(s, d)
        BY <3>1, <3>2 DEF Writes
      <3>4. i > 0 /\ i + 1 > 0
        BY <3>1
      <3>5. i + 1 \in DOMAIN f /\ f[i + 1] = Single(s[i + 1].payload.seq)
        BY <3>3, <3>4, <1>f DEF IsPipe
      <3>6. g[i] = Single(s2[i].payload.seq)
        BY <2>2, <3>4, <1>f DEF IsPipe
      <3> QED
        BY <2>1, <3>1, <3>2, <3>5, <3>6
    <2>3. CASE i \in (1 - Len(o))..0
      <3>1. i \in Int /\ i + n + 1 \in 1..(n + 1) /\ g[i] = Single(o[i + (n + 1)].seq)
        BY <2>3, <1>0, <1>f DEF IsPipe
      <3>2. CASE i = 0
        BY <3>1, <3>2, <2>1, <1>0, <1>w, <1>f DEF IsPipe
      <3>3. CASE i # 0
        <4>1. i + 1 \in (1 - n)..0 /\ i + (n + 1) \in 1..n /\ i + 1 + n = i + (n + 1)
          BY <3>1, <3>3, <2>3, <1>0
        <4>2. f[i + 1] = Single(out[i + (n + 1)].seq)
          BY <4>1, <1>f DEF IsPipe, n
        <4> QED
          BY <4>1, <4>2, <3>1, <2>1, <1>0, <1>f DEF IsPipe, n
      <3> QED
        BY <3>2, <3>3
    <2> QED
      BY <2>2, <2>3, <1>0, <1>f DEF IsPipe
  <1>2. ASSUME NEW i \in DOMAIN g, NEW j \in DOMAIN g, i < j
        PROVE  h[i] < h[j]
    <2>1. i \in Int /\ j \in Int
      BY <1>1
    <2> QED
      BY <1>2, <2>1
  <1>3. ASSUME NEW m \in DOMAIN f
        PROVE  \E i \in DOMAIN g : h[i] = m
    <2>1. CASE m \in Writes(s, d) /\ m # 1
      <3>1. m \in 1..Len(s) /\ s[m].op = "write" /\ s[m].conn = d
        BY <2>1 DEF Writes
      <3>2. m - 1 \in 1..Len(s2) /\ (m - 1) + 1 = m
        BY <2>1, <3>1, <1>0
      <3>3. s2[m - 1] = s[m]
        BY <3>2 DEF OneMore
      <3>4. m - 1 \in Writes(s2, d)
        BY <3>1, <3>2, <3>3 DEF Writes
      <3>5. m - 1 \in DOMAIN g
        BY <3>4, <1>0, <1>f DEF IsPipe
      <3> QED
        BY <3>2, <3>5
    <2>2. CASE m = 1
      <3>1. 0 \in (1 - Len(o))..0
        BY <1>0
      <3>2. 0 \in DOMAIN g
        BY <3>1, <1>0, <1>f DEF IsPipe
      <3> QED
        BY <2>2, <3>2
    <2>3. CASE m \in (1 - n)..0
      <3>1. m - 1 \in (1 - Len(o))..0 /\ (m - 1) + 1 = m
        BY <2>3, <1>0
      <3>2. m - 1 \in DOMAIN g
        BY <3>1, <1>0, <1>f DEF IsPipe
      <3> QED
        BY <3>1, <3>2
    <2> QED
      BY <2>1, <2>2, <2>3, <1>f DEF IsPipe, n
  <1>4. n # 0 => p.seq = out[n].seq + 1
    <2> SUFFICES ASSUME n # 0
                 PROVE  p.seq = out[n].seq + 1
      OBVIOUS
    <2>1. 0 \in (1 - n)..0 /\ 0 + n = n
      BY <1>0
    <2>2. 0 \in DOMAIN f /\ f[0] = Single(out[n].seq) /\ 1 \in DOMAIN f
      BY <2>1, <1>w, <1>f DEF IsPipe, n
    <2>3. \A i \in DOMAIN f : i <= 0 \/ 1 <= i
      BY LineBounds DEF f
    <2>4. f[1].first = f[0].last + 1
      BY <2>2, <2>3, LineNext DEF f
    <2> QED
      BY <2>2, <2>4, <1>w DEF Single
  <1> HIDE DEF h
  <1>5. Line(g, lo, hi)
    <2>1. Moved(f, g, h)
      BY <1>1, <1>2, <1>3 DEF Moved
    <2>2. Line(f, lo, hi)
      BY DEF f
    <2> QED
      BY <2>1, <2>2, LineMoved
  <1> QED
    BY <1>4, <1>5 DEF g, o, n


\* What was pending is replayed to a connection nothing was written to.
LEMMA PipeReplayed ==
  ASSUME NEW s \in Seq(UpIO), NEW d \in ConnIds, NEW pending \in Seq(Payload),
         NEW c, NEW a \in Int, PendingTo(pending, c, a), Writes(s, d) = {}
  PROVE  Line(Pipe(<<>>, s \o Replay(d, pending), d), a + 1 - Len(pending), a)
  <1> DEFINE s2 == s \o Replay(d, pending)
             g == Pipe(<<>>, s2, d)
             n == Len(pending)
             m == Len(s)
  <1>1. /\ Replay(d, pending) \in Seq(UpIO) /\ Len(Replay(d, pending)) = n
        /\ n \in Nat /\ m \in Nat
        /\ \A i \in 1..n : Replay(d, pending)[i] = WriteTask(d, pending[i])
    BY ReplayType DEF Replay
  <1>2. /\ s2 \in Seq(UpIO) /\ Len(s2) = m + n
        /\ \A i \in 1..m : s2[i] = s[i]
        /\ \A i \in (m + 1)..(m + n) : s2[i] = WriteTask(d, pending[i - m])
    BY <1>1
  <1>f. IsPipe(g, <<>>, s2, d)
    <2>1. <<>> \in Seq(Payload)
      OBVIOUS
    <2> QED
      BY <2>1, <1>2, PipeAt
  <1> HIDE DEF g, s2, n, m
  <1>3. Writes(s2, d) = (m + 1)..(m + n)
    <2>1. ASSUME NEW i \in Writes(s2, d)
          PROVE  i \in (m + 1)..(m + n)
      <3>1. i \in 1..(m + n) /\ s2[i].op = "write" /\ s2[i].conn = d
        BY <1>2 DEF Writes
      <3>2. ~(i \in 1..m)
        BY <3>1, <1>2 DEF Writes, m
      <3> QED
        BY <3>1, <3>2, <1>1
    <2>2. ASSUME NEW i \in (m + 1)..(m + n)
          PROVE  i \in Writes(s2, d)
      <3>1. i \in 1..(m + n) /\ s2[i].op = "write" /\ s2[i].conn = d
        BY <1>1, <1>2 DEF WriteTask
      <3> QED
        BY <3>1, <1>2 DEF Writes
    <2> QED
      BY <2>1, <2>2
  <1>4. /\ DOMAIN g = (m + 1)..(m + n)
        /\ \A i \in (m + 1)..(m + n) : g[i].first = a - n + (i - m) /\ g[i].last = a - n + (i - m)
    <2>1. <<>> \in Seq(Payload) /\ Len(<<>>) = 0 /\ (1 - 0)..0 = {}
      OBVIOUS
    <2>2. DOMAIN g = (m + 1)..(m + n)
      BY <2>1, <1>2, <1>3, <1>f DEF IsPipe
    <2>3. ASSUME NEW i \in (m + 1)..(m + n)
          PROVE  g[i].first = a - n + (i - m) /\ g[i].last = a - n + (i - m)
      <3>1. g[i] = Single(s2[i].payload.seq)
        BY <2>1, <1>2, <1>3, <1>f DEF IsPipe
      <3>2. i - m \in DOMAIN pending
        BY <1>1 DEF n
      <3>3. s2[i].payload.seq = a - n + (i - m)
        <4>1. s2[i].payload = pending[i - m]
          <5>1. s2[i] = WriteTask(d, pending[i - m])
            BY <1>2
          <5> QED
            BY <5>1 DEF WriteTask
        <4>2. pending[i - m].seq = a - n + (i - m)
          BY <3>2 DEF PendingTo, n
        <4> QED
          BY <4>1, <4>2
      <3> QED
        BY <3>1, <3>3 DEF Single
    <2> QED
      BY <2>2, <2>3
  <1>5. Intervals(g) /\ Rising(g)
    BY <1>1, <1>4 DEF Intervals, Rising
  <1>6. Covers(g, a + 1 - n, a)
    <2> SUFFICES ASSUME NEW q \in Int
                 PROVE  (\E i \in DOMAIN g : g[i].first <= q /\ q <= g[i].last)
                          <=> a + 1 - n <= q /\ q <= a
      BY DEF Covers
    <2>1. ASSUME NEW i \in DOMAIN g, g[i].first <= q, q <= g[i].last
          PROVE  a + 1 - n <= q /\ q <= a
      BY <2>1, <1>1, <1>4
    <2>2. ASSUME a + 1 - n <= q, q <= a
          PROVE  \E i \in DOMAIN g : g[i].first <= q /\ q <= g[i].last
      <3>1. q - a + n + m \in (m + 1)..(m + n) /\ a - n + ((q - a + n + m) - m) = q
        BY <2>2, <1>1
      <3> QED
        BY <3>1, <1>4
    <2> QED
      BY <2>1, <2>2
  <1>7. a + 1 - n \in Int /\ a + 1 - n <= a + 1
    BY <1>1
  <1> QED
    BY <1>5, <1>6, <1>7 DEF Line, g, s2, n

(***************************************************************************)
(* Upstream: steps that admit nothing and replay nothing                   *)
(***************************************************************************)

\* The pipes of connections that stay open keep their lines.
PipeKept(d) ==
  /\ d \in DOMAIN conns'
  /\ conns'[d].st # "closed" =>
       /\ conns[d].st # "closed"
       /\ \A lo, hi \in Int :
            Line(Pipe(conns[d].out, queue, d), lo, hi)
              => Line(Pipe(conns'[d].out, queue', d), lo, hi)

PipesKept == \A d \in DOMAIN conns : PipeKept(d)

\* No write joins the queue.
NoNewWrites ==
  \A i \in DOMAIN queue' :
    queue'[i].op = "write" => \E j \in DOMAIN queue : queue[j] = queue'[i]

\* Only a connection with a write queued is written to.
WrittenIfQueued ==
  \A d \in DOMAIN conns : conns'[d].out = conns[d].out \/ Writes(queue, d) # {}

\* No connection is written to, and a closed one stays closed.
OutsSame ==
  \A d \in DOMAIN conns :
    /\ d \in DOMAIN conns'
    /\ conns'[d].out = conns[d].out
    /\ conns[d].st = "closed" => conns'[d].st = "closed"

\* No client is heard less of, or more than what it sent.
InboxKept ==
  \A c \in Clients : \A a \in Int :
    Line(Inbox(channel, up.conn, up.pkts, c), a + 1, nup[c])
      => Line(Inbox(channel', up'.conn, up'.pkts, c), a + 1, nup'[c])

\* Sessions may lose their client; what waits for a dial stays.
SessionsKept ==
  /\ DOMAIN byClient' \subseteq DOMAIN byClient
  /\ \A c \in DOMAIN byClient' : byClient'[c] = byClient[c]
  /\ DOMAIN sess' = DOMAIN sess
  /\ \A s \in DOMAIN sess :
       sess'[s].dialing = sess[s].dialing /\ sess'[s].pending = sess[s].pending

\* The dial the upstream goroutine owes, if any, stays owed.
DialOwedSame ==
  /\ \A i \in DOMAIN up'.io :
       up'.io[i].op = "dial" => \E j \in DOMAIN up.io : up.io[j] = up'.io[i]
  /\ \A j \in DOMAIN up.io :
       up.io[j].op = "dial" => \E i \in DOMAIN up'.io : up'.io[i] = up.io[j]

\* The queue is a sequence of calls, and connections and dials are numbered
\* alike.
LEMMA QueueType ==
  ASSUME IInv
  PROVE  /\ queue \in Seq(UpIO) /\ tasks \in Seq(UpIO) /\ up.io \in Seq(UpIO)
         /\ Len(queue) = Len(tasks) + Len(up.io)
         /\ \A i \in 1..Len(tasks) : queue[i] = tasks[i]
         /\ \A i \in 1..Len(up.io) : queue[Len(tasks) + i] = up.io[i]
  <1>1. tasks \in Seq(Task) /\ up.io \in Seq(UpIO)
    BY DEF IInv, TypeOK, DialerTypeOK, GoroutineTypeOK, Goroutine
  <1>2. tasks \in Seq(UpIO)
    BY <1>1 DEF UpIO
  <1> QED
    BY <1>1, <1>2 DEF queue

LEMMA ConnsType ==
  ASSUME IInv
  PROVE  /\ conns \in Seq(Conn) /\ dials \in Seq(Dial) /\ sess \in Seq(Session)
         /\ DOMAIN conns = DOMAIN dials /\ DOMAIN dials = 1..Len(dials)
         /\ \A d \in DOMAIN conns : conns[d].out \in Seq(Payload) /\ conns[d].in \in Nat
                                     /\ conns[d].st \in {"new", "open", "closed"}
  <1>1. DialerTypeOK /\ TableTypeOK
    BY DEF IInv, TypeOK
  <1>2. conns \in Seq(Conn) /\ dials \in Seq(Dial) /\ sess \in Seq(Session)
    BY <1>1 DEF DialerTypeOK, TableTypeOK
  <1> QED
    BY <1>1, <1>2, DomainsEqual, ConnFields

LEMMA NextTypes ==
  ASSUME IInv'
  PROVE  /\ conns' \in Seq(Conn) /\ dials' \in Seq(Dial) /\ sess' \in Seq(Session)
         /\ tasks' \in Seq(UpIO) /\ up'.io \in Seq(UpIO)
         /\ DOMAIN conns' = DOMAIN dials'
  <1>1. /\ conns' \in Seq(Conn) /\ dials' \in Seq(Dial) /\ sess' \in Seq(Session)
        /\ tasks' \in Seq(Task) /\ up' \in Goroutine /\ Len(conns') = Len(dials')
    BY DEF IInv, TypeOK, DialerTypeOK, TableTypeOK, GoroutineTypeOK
  <1>2. tasks' \in Seq(UpIO)
    BY <1>1 DEF UpIO
  <1>3. up'.io \in Seq(UpIO)
    BY <1>1 DEF Goroutine
  <1>4. DOMAIN conns' = 1..Len(conns') /\ DOMAIN dials' = 1..Len(dials')
    BY <1>1
  <1> QED
    BY <1>1, <1>2, <1>3, <1>4

\* The numbers of the sessions and of the dials agree.
LEMMA SessionNumbers ==
  ASSUME IInv, DialsInOrder
  PROVE  /\ DOMAIN dials \subseteq DOMAIN sess
         /\ Len(dials) <= Len(sess)
         /\ \A s \in DOMAIN sess :
              sess[s].destConn # NoConn => sess[s].destConn = s /\ s \in DOMAIN dials
  <1>1. sess \in Seq(Session) /\ dials \in Seq(Dial)
    BY ConnsType
  <1>2. DOMAIN dials \subseteq DOMAIN sess
    BY DEF IInv, Core, DialsDistinct, DialsInOrder
  <1>3. Len(dials) <= Len(sess)
    <2>1. Len(dials) \in Nat /\ Len(sess) \in Nat /\ DOMAIN dials = 1..Len(dials) /\ DOMAIN sess = 1..Len(sess)
      BY <1>1
    <2>2. Len(dials) # 0 => Len(dials) \in DOMAIN dials
      BY <2>1
    <2> QED
      BY <2>1, <2>2, <1>2
  <1>4. ASSUME NEW s \in DOMAIN sess, sess[s].destConn # NoConn
        PROVE  sess[s].destConn = s /\ s \in DOMAIN dials
    BY <1>4 DEF IInv, Core, BoundByOwnDial, DialsInOrder
  <1> QED
    BY <1>2, <1>3, <1>4

\* What a session answers for, it still does.
LEMMA KeptStays ==
  ASSUME NEW c, NEW a \in Nat, Kept(c, a), NEW s, s = byClient[c], byClient'[c] = s,
         sess'[s].dialing = sess[s].dialing, sess'[s].pending = sess[s].pending,
         s \in DOMAIN conns => PipeKept(s)
  PROVE  Kept(c, a)'
  <1>1. CASE sess[s].dialing
    BY <1>1 DEF Kept
  <1>2. CASE ~sess[s].dialing
    <2>1. s \in DOMAIN conns /\ s \in DOMAIN conns'
      BY <1>2 DEF Kept, PipeKept
    <2>2. ASSUME conns'[s].st # "closed"
          PROVE  \E lo \in Int : lo <= a /\ Line(Pipe(conns'[s].out, queue', s), lo, a)
      <3>1. conns[s].st # "closed"
        BY <2>1, <2>2 DEF PipeKept
      <3>2. PICK lo \in Int : lo <= a /\ Line(Pipe(conns[s].out, queue, s), lo, a)
        BY <1>2, <3>1 DEF Kept
      <3>3. a \in Int
        OBVIOUS
      <3> QED
        BY <2>1, <2>2, <3>2, <3>3 DEF PipeKept
    <2> QED
      BY <1>2, <2>1, <2>2 DEF Kept
  <1> QED
    BY <1>1, <1>2

\* The lines outlive a step that keeps the pipes, the inbox and the sessions.
LEMMA PipesStayLines ==
  ASSUME PipesLine, PipesKept,
         \A d \in DOMAIN conns' \ DOMAIN conns :
           \E lo, hi \in Int : Line(Pipe(conns'[d].out, queue', d), lo, hi)
  PROVE  PipesLine'
  <1>1. ASSUME NEW d \in DOMAIN conns', conns'[d].st # "closed"
        PROVE  \E lo, hi \in Int : Line(Pipe(conns'[d].out, queue', d), lo, hi)
    <2>1. CASE d \in DOMAIN conns
      <3>1. PICK lo \in Int, hi \in Int : Line(Pipe(conns[d].out, queue, d), lo, hi)
        BY <1>1, <2>1 DEF PipesKept, PipeKept, PipesLine
      <3> QED
        BY <1>1, <2>1, <3>1 DEF PipesKept, PipeKept
    <2> QED
      BY <2>1
  <1> QED
    BY <1>1 DEF PipesLine

LEMMA StreamsStay ==
  ASSUME IInv, Streams, PipesKept, InboxKept, SessionsKept
  PROVE  Streams'
  <1>1. ASSUME NEW c \in Clients
        PROVE  \E a \in Nat :
                 /\ Line(Inbox(channel', up'.conn, up'.pkts, c), a + 1, nup'[c])
                 /\ c \in DOMAIN byClient' => Kept(c, a)'
    <2>1. PICK a \in Nat : /\ Line(Inbox(channel, up.conn, up.pkts, c), a + 1, nup[c])
                           /\ c \in DOMAIN byClient => Kept(c, a)
      BY DEF Streams
    <2>2. Line(Inbox(channel', up'.conn, up'.pkts, c), a + 1, nup'[c])
      BY <2>1 DEF InboxKept
    <2>3. ASSUME c \in DOMAIN byClient'
          PROVE  Kept(c, a)'
      <3>1. PICK s : s = byClient[c]
        OBVIOUS
      <3>2. c \in DOMAIN byClient /\ byClient'[c] = s /\ Kept(c, a) /\ s \in DOMAIN sess
        BY <2>1, <2>3, <3>1 DEF SessionsKept, IInv, TypeOK, TableTypeOK
      <3>3. sess'[s].dialing = sess[s].dialing /\ sess'[s].pending = sess[s].pending
        BY <3>2 DEF SessionsKept
      <3> QED
        BY <3>1, <3>2, <3>3, KeptStays DEF PipesKept
    <2> QED
      BY <2>1, <2>2, <2>3
  <1> QED
    BY <1>1 DEF Streams

\* The dials are the same, and for the same sessions.
TokensSame ==
  /\ DOMAIN dials' = DOMAIN dials
  /\ \A d \in DOMAIN dials : dials'[d].token = dials[d].token

\* A quiet step keeps the parts of the invariant about dials and sessions,
\* the queue and the lines.
QuietStep ==
  /\ TokensSame
  /\ DialOwedSame
  /\ SessionsKept
  /\ NoNewWrites
  /\ WrittenIfQueued
  /\ PipesKept
  /\ InboxKept

LEMMA QuietKeeps ==
  ASSUME IInv, IInv', UpInv, QuietStep
  PROVE  DialsInOrder' /\ Own(queue, dials)' /\ DialingUnused' /\ PipesLine' /\ Streams'
  <1> USE DEF QuietStep
  <1>0. /\ DialsInOrder /\ Own(queue, dials) /\ DialingUnused /\ PipesLine /\ Streams
        /\ DOMAIN conns = DOMAIN dials /\ DOMAIN conns' = DOMAIN dials'
        /\ DOMAIN dials' = DOMAIN dials
    BY ConnsType, NextTypes DEF UpInv, TokensSame
  <1>1. DialsInOrder'
    <2>1. Len(sess') = Len(sess) /\ Len(dials') = Len(dials)
      <3>1. /\ sess \in Seq(Session) /\ sess' \in Seq(Session)
            /\ dials \in Seq(Dial) /\ dials' \in Seq(Dial)
        BY ConnsType, NextTypes
      <3> QED
        BY <3>1 DEF SessionsKept, TokensSame
    <2>2. \A d \in DOMAIN dials' : dials'[d].token.session = d
      BY <1>0 DEF DialsInOrder, TokensSame
    <2> QED
      BY <1>0, <2>1, <2>2 DEF DialsInOrder, DialOwedSame
  <1>2. Own(queue, dials)'
    <2> SUFFICES ASSUME NEW i \in DOMAIN queue', queue'[i].op = "write"
                 PROVE  /\ queue'[i].conn \in DOMAIN dials'
                        /\ queue'[i].payload.client = dials'[queue'[i].conn].token.client
      BY DEF Own
    <2>1. PICK j \in DOMAIN queue : queue[j] = queue'[i]
      BY DEF NoNewWrites
    <2> QED
      BY <1>0, <2>1 DEF Own, TokensSame
  <1>3. DialingUnused'
    <2> SUFFICES ASSUME NEW d \in DOMAIN dials', sess'[d].dialing
                 PROVE  conns'[d].out = <<>> /\ Writes(queue', d) = {}
      BY DEF DialingUnused, Unused
    <2>1. d \in DOMAIN dials /\ d \in DOMAIN sess /\ sess[d].dialing
      BY <1>0, SessionNumbers DEF SessionsKept
    <2>2. conns[d].out = <<>> /\ Writes(queue, d) = {}
      BY <1>0, <2>1 DEF DialingUnused, Unused
    <2>3. conns'[d].out = <<>>
      BY <1>0, <2>1, <2>2 DEF WrittenIfQueued
    <2>4. ASSUME NEW i \in Writes(queue', d)
          PROVE  FALSE
      <3>1. i \in DOMAIN queue' /\ queue'[i].op = "write" /\ queue'[i].conn = d
        BY <2>4 DEF Writes
      <3>2. PICK j \in DOMAIN queue : queue[j] = queue'[i]
        BY <3>1 DEF NoNewWrites
      <3>3. j \in Writes(queue, d)
        BY <3>1, <3>2 DEF Writes
      <3> QED
        BY <2>2, <3>3
    <2> QED
      BY <2>3, <2>4
  <1>4. PipesLine' /\ Streams'
    <2>1. \A d \in DOMAIN conns' \ DOMAIN conns :
            \E lo, hi \in Int : Line(Pipe(conns'[d].out, queue', d), lo, hi)
      BY <1>0
    <2> QED
      BY <1>0, <2>1, PipesStayLines, StreamsStay
  <1> QED
    BY <1>1, <1>2, <1>3, <1>4

\* The queue as it is.
LEMMA QueueSame ==
  ASSUME OutsSame, queue' = queue
  PROVE  PipesKept /\ NoNewWrites /\ WrittenIfQueued
  <1>1. PipesKept
    BY DEF PipesKept, PipeKept, OutsSame
  <1>2. NoNewWrites
    BY DEF NoNewWrites
  <1>3. WrittenIfQueued
    BY DEF WrittenIfQueued, OutsSame
  <1> QED
    BY <1>1, <1>2, <1>3

\* A queue that only loses an entry gains no write.
LEMMA QueueShorter ==
  ASSUME IInv, NEW s2 \in Seq(UpIO), queue' = s2, NEW k, OneMore(s2, queue, k)
  PROVE  NoNewWrites
  <1>1. queue \in Seq(UpIO)
    BY QueueType
  <1> SUFFICES ASSUME NEW i \in DOMAIN s2
               PROVE  \E j \in DOMAIN queue : queue[j] = s2[i]
    BY DEF NoNewWrites
  <1>2. i \in 1..Len(s2) /\ k \in 1..Len(queue) /\ Len(queue) = Len(s2) + 1
        /\ s2[i] = IF i < k THEN queue[i] ELSE queue[i + 1]
    BY DEF OneMore
  <1>3. i \in DOMAIN queue /\ i + 1 \in DOMAIN queue
    BY <1>1, <1>2
  <1> QED
    BY <1>2, <1>3

LEMMA QueueGains ==
  ASSUME IInv, OutsSame, NEW s2 \in Seq(UpIO), queue' = s2,
         NEW k, OneMore(queue, s2, k), s2[k].op # "write"
  PROVE  PipesKept /\ NoNewWrites /\ WrittenIfQueued
  <1>1. queue \in Seq(UpIO) /\ \A d \in DOMAIN conns : conns[d].out \in Seq(Payload)
    BY QueueType, ConnsType
  <1>2. \A d \in DOMAIN conns : k \notin Writes(s2, d)
    BY DEF Writes
  <1>3. ASSUME NEW d \in DOMAIN conns, NEW lo \in Int, NEW hi \in Int,
               Line(Pipe(conns[d].out, queue, d), lo, hi)
        PROVE  Line(Pipe(conns[d].out, s2, d), lo, hi)
    BY <1>1, <1>2, <1>3, PipeWith
  <1>4. PipesKept
    BY <1>3 DEF PipesKept, PipeKept, OutsSame
  <1>5. NoNewWrites
    <2> SUFFICES ASSUME NEW i \in DOMAIN s2, s2[i].op = "write"
                 PROVE  \E j \in DOMAIN queue : queue[j] = s2[i]
      BY DEF NoNewWrites
    <2>1. i \in 1..Len(s2) /\ k \in 1..Len(s2) /\ Len(s2) = Len(queue) + 1
          /\ Len(queue) \in Nat /\ i # k
      BY <1>1 DEF OneMore
    <2>2. CASE i < k
      <3>1. i \in DOMAIN queue /\ queue[i] = s2[i]
        BY <1>1, <2>1, <2>2 DEF OneMore
      <3> QED
        BY <3>1
    <2>3. CASE ~(i < k)
      <3>1. i - 1 \in 1..Len(queue) /\ ~(i - 1 < k) /\ (i - 1) + 1 = i
        BY <2>1, <2>3
      <3>2. queue[i - 1] = s2[i] /\ i - 1 \in DOMAIN queue
        BY <1>1, <3>1 DEF OneMore
      <3> QED
        BY <3>2
    <2> QED
      BY <2>2, <2>3
  <1>6. WrittenIfQueued
    BY DEF WrittenIfQueued, OutsSame
  <1> QED
    BY <1>4, <1>5, <1>6

\* An update of one connection's state, or of what was read from it, leaves
\* what the connections were written alone.
LEMMA ConnAtKeeps ==
  ASSUME conns \in Seq(Conn), NEW d \in DOMAIN conns, NEW st
  PROVE  /\ DOMAIN ConnAt(d, st) = DOMAIN conns
         /\ ConnAt(d, st)[d].st = st
         /\ \A e \in DOMAIN conns : /\ ConnAt(d, st)[e].out = conns[e].out
                                    /\ ConnAt(d, st)[e].in = conns[e].in
                                    /\ e # d => ConnAt(d, st)[e].st = conns[e].st
  BY DEF ConnAt

LEMMA ConnReadKeeps ==
  ASSUME conns \in Seq(Conn), NEW d \in DOMAIN conns
  PROVE  /\ DOMAIN ConnRead(d) = DOMAIN conns
         /\ ConnRead(d)[d].in = conns[d].in + 1
         /\ \A e \in DOMAIN conns : /\ ConnRead(d)[e].out = conns[e].out
                                    /\ ConnRead(d)[e].st = conns[e].st
                                    /\ e # d => ConnRead(d)[e].in = conns[e].in
  BY DEF ConnRead

LEMMA ConnWrittenKeeps ==
  ASSUME conns \in Seq(Conn), NEW d \in DOMAIN conns, NEW p
  PROVE  /\ DOMAIN ConnWritten(d, p) = DOMAIN conns
         /\ ConnWritten(d, p)[d].out = Append(conns[d].out, p)
         /\ \A e \in DOMAIN conns : /\ ConnWritten(d, p)[e].in = conns[e].in
                                    /\ ConnWritten(d, p)[e].st = conns[e].st
                                    /\ e # d => ConnWritten(d, p)[e].out = conns[e].out
  BY DEF ConnWritten

LEMMA ClosingKeepsOuts ==
  ASSUME conns \in Seq(Conn), NEW d \in DOMAIN conns, conns' = ConnAt(d, "closed")
  PROVE  OutsSame
  BY ConnAtKeeps DEF OutsSame

\* What the connections were written is as it was.
LEMMA WrittenInOrder ==
  ASSUME IInv, IInv', UpstreamInOrder, TokensSame, OutsSame
  PROVE  UpstreamInOrder'
  <1>1. DOMAIN conns' = DOMAIN conns /\ DOMAIN conns = DOMAIN dials
    BY ConnsType, NextTypes DEF TokensSame
  <1> SUFFICES ASSUME NEW d \in DOMAIN conns'
               PROVE  IsRun(conns'[d].out, dials'[d].token.client)
    BY DEF UpstreamInOrder
  <1> QED
    BY <1>1 DEF UpstreamInOrder, TokensSame, OutsSame

\* Results are received in turn, and no dial starts over.
DialsAdvance ==
  /\ \A d \in DOMAIN dials : dials'[d].pc # "done" => dials[d].pc # "done"
  /\ \/ UNCHANGED dialResultChan
     \/ dialResultChan # <<>> /\ dialResultChan' = Tail(dialResultChan)

LEMMA ResultsStayFresh ==
  ASSUME IInv, DialsInOrder, ResultsFresh, TokensSame, SessionsKept, DialsAdvance
  PROVE  ResultsFresh'
  <1>0. /\ dialResultChan \in Seq(Result)
        /\ DOMAIN dials \subseteq DOMAIN sess /\ DOMAIN dials' = DOMAIN dials
        /\ \A i \in DOMAIN dialResultChan : dialResultChan[i].conn \in DOMAIN dials
    BY SessionNumbers DEF IInv, TypeOK, DialerTypeOK, Core, DialsAgree, TokensSame
  <1>1. \A d \in DOMAIN dials' : dials'[d].pc # "done" => sess'[d].dialing
    BY <1>0 DEF ResultsFresh, DialsAdvance, SessionsKept
  <1>2. \A s \in DOMAIN sess' : s \notin DOMAIN dials' => sess'[s].dialing
    BY <1>0 DEF ResultsFresh, SessionsKept
  <1>3. /\ \A i \in DOMAIN dialResultChan : sess'[dialResultChan[i].conn].dialing
        /\ \A i, j \in DOMAIN dialResultChan :
             dialResultChan[i].conn = dialResultChan[j].conn => i = j
    BY <1>0 DEF ResultsFresh, SessionsKept
  <1>4. CASE UNCHANGED dialResultChan
    BY <1>1, <1>2, <1>3, <1>4 DEF ResultsFresh
  <1>5. CASE dialResultChan # <<>> /\ dialResultChan' = Tail(dialResultChan)
    <2>1. /\ Len(dialResultChan) \in Nat /\ DOMAIN dialResultChan = 1..Len(dialResultChan)
          /\ DOMAIN dialResultChan' = 1..(Len(dialResultChan) - 1)
          /\ \A i \in DOMAIN dialResultChan' :
               i + 1 \in DOMAIN dialResultChan /\ dialResultChan'[i] = dialResultChan[i + 1]
      BY <1>0, <1>5
    <2>2. \A i \in DOMAIN dialResultChan' : sess'[dialResultChan'[i].conn].dialing
      BY <1>3, <2>1
    <2>3. ASSUME NEW i \in DOMAIN dialResultChan', NEW j \in DOMAIN dialResultChan',
                 dialResultChan'[i].conn = dialResultChan'[j].conn
          PROVE  i = j
      <3>1. i + 1 = j + 1
        BY <1>3, <2>1, <2>3
      <3> QED
        BY <2>1, <3>1
    <2> QED
      BY <1>1, <1>2, <2>2, <2>3 DEF ResultsFresh
  <1> QED
    BY <1>4, <1>5 DEF DialsAdvance

\* Most steps: the queue keeps its writes, no packet is taken or sent, no
\* connection is written to.
QueueKept == PipesKept /\ NoNewWrites /\ WrittenIfQueued

PacketsSame == UNCHANGED <<channel, nup>> /\ up'.conn = up.conn /\ up'.pkts = up.pkts

LEMMA QuietUp ==
  ASSUME IInv, IInv', UpInv, TokensSame, DialOwedSame, SessionsKept, DialsAdvance,
         OutsSame, QueueKept, PacketsSame
  PROVE  UpInv'
  <1>1. InboxKept
    BY DEF InboxKept, PacketsSame
  <1>2. QuietStep
    BY <1>1 DEF QuietStep, QueueKept
  <1>3. DialsInOrder' /\ Own(queue, dials)' /\ DialingUnused' /\ PipesLine' /\ Streams'
    BY <1>2, QuietKeeps
  <1>4. BatchesRun'
    BY DEF BatchesRun, PacketsSame, UpInv
  <1>5. ResultsFresh'
    BY ResultsStayFresh DEF UpInv
  <1>6. UpstreamInOrder'
    BY WrittenInOrder DEF UpInv
  <1> QED
    BY <1>3, <1>4, <1>5, <1>6 DEF UpInv

\* The session table and the queue are left alone.
LEMMA SessionsSame ==
  ASSUME UNCHANGED <<byClient, sess>>
  PROVE  SessionsKept
  BY DEF SessionsKept

LEMMA DialsSame ==
  ASSUME UNCHANGED <<dials, conns, dialResultChan>>
  PROVE  TokensSame /\ DialsAdvance /\ OutsSame
  BY DEF TokensSame, DialsAdvance, OutsSame

LEMMA CallsSame ==
  ASSUME UNCHANGED up
  PROVE  DialOwedSame /\ (UNCHANGED <<channel, nup>> => PacketsSame)
  BY DEF DialOwedSame, PacketsSame

LEMMA DialStepUp ==
  ASSUME ServerAssumption, IInv, IInv', UpInv, NEW d \in DOMAIN dials, DialStep(d),
         UNCHANGED <<tableVars, clientVars, up, down, delivered>>
  PROVE  UpInv'
  <1>0. UNCHANGED <<byClient, sess, channel, nup, up, conns, tasks>>
    BY DEF DialStep, AcquireSem, DialFinishes, DialReports, tableVars, clientVars
  <1>1. SessionsKept /\ DialOwedSame /\ PacketsSame
    BY <1>0, SessionsSame, CallsSame
  <1>2. OutsSame /\ QueueKept
    <2>1. OutsSame /\ queue' = queue
      BY <1>0 DEF OutsSame, queue
    <2> QED
      BY <2>1, QueueSame DEF QueueKept
  <1>3. PICK pc \in DialPC : dials' = DialAt(d, pc)
    BY DEF DialStep, AcquireSem, DialFinishes, DialReports, DialPC
  <1>4. DialsMoved(d, pc)
    BY <1>3, DialMoves, ConnsType
  <1>5. TokensSame
    BY <1>0, <1>4 DEF TokensSame, DialsMoved
  <1>6. dials[d].pc # "done"
    BY DEF DialStep, AcquireSem, DialFinishes, DialReports
  <1>7. CASE UNCHANGED dialResultChan
    <2>1. DialsAdvance
      BY <1>4, <1>6, <1>7 DEF DialsAdvance, DialsMoved
    <2> QED
      BY <1>1, <1>2, <1>5, <2>1, QuietUp
  <1>8. CASE DialReports(d)
    <2>1. /\ dialResultChan' = Append(dialResultChan, [conn |-> d, err |-> dials[d].pc = "failed"])
          /\ dialResultChan \in Seq(Result)
      BY <1>8 DEF DialReports, ServerAssumption, IInv, TypeOK, DialerTypeOK
    <2>2. QuietStep
      <3>1. InboxKept
        BY <1>1 DEF InboxKept, PacketsSame
      <3> QED
        BY <1>1, <1>2, <1>5, <3>1 DEF QuietStep, QueueKept
    <2>3. DialsInOrder' /\ Own(queue, dials)' /\ DialingUnused' /\ PipesLine' /\ Streams'
      BY <2>2, QuietKeeps
    <2>4. BatchesRun' /\ UpstreamInOrder'
      BY <1>1, <1>2, <1>5, WrittenInOrder DEF BatchesRun, PacketsSame, UpInv
    <2>5. ResultsFresh'
      <3> DEFINE n == Len(dialResultChan)
                 r == dialResultChan'
      <3>1. /\ n \in Nat /\ DOMAIN r = 1..(n + 1) /\ DOMAIN dialResultChan = 1..n
            /\ r[n + 1].conn = d /\ \A i \in 1..n : r[i] = dialResultChan[i]
        BY <2>1
      <3>2. \A i \in 1..n : r[i].conn # d /\ sess[r[i].conn].dialing
        BY <1>6, <3>1 DEF IInv, Core, DialsAgree, UpInv, ResultsFresh
      <3>3. sess[d].dialing /\ sess' = sess
        BY <1>0, <1>6 DEF UpInv, ResultsFresh
      <3> HIDE DEF n
      <3>4. \A i \in DOMAIN r : sess'[r[i].conn].dialing
        <4> SUFFICES ASSUME NEW i \in 1..(n + 1)
                     PROVE  sess'[r[i].conn].dialing
          BY <3>1
        <4>1. i = n + 1 \/ i \in 1..n
          BY <3>1
        <4> QED
          BY <3>1, <3>2, <3>3, <4>1
      <3>5. ASSUME NEW i \in 1..(n + 1), NEW j \in 1..(n + 1), r[i].conn = r[j].conn
            PROVE  i = j
        <4>1. (i = n + 1 \/ i \in 1..n) /\ (j = n + 1 \/ j \in 1..n)
          BY <3>1
        <4>2. CASE i \in 1..n /\ j \in 1..n
          BY <3>1, <3>5, <4>2 DEF UpInv, ResultsFresh
        <4> QED
          BY <3>1, <3>2, <3>5, <4>1, <4>2
      <3>6. \A e \in DOMAIN dials' : dials'[e].pc # "done" => sess'[e].dialing
        BY <1>4, <1>6, <3>3 DEF DialsMoved, UpInv, ResultsFresh
      <3>7. \A s \in DOMAIN sess' : s \notin DOMAIN dials' => sess'[s].dialing
        BY <1>4, <3>3 DEF DialsMoved, UpInv, ResultsFresh
      <3> QED
        BY <3>1, <3>4, <3>5, <3>6, <3>7 DEF ResultsFresh
    <2> QED
      BY <2>3, <2>4, <2>5 DEF UpInv
  <1> QED
    BY <1>7, <1>8 DEF DialStep, AcquireSem, DialFinishes

LEMMA PeerStepUp ==
  ASSUME IInv, IInv', UpInv, NEW d \in DOMAIN dials, PeerStep(d),
         UNCHANGED <<tableVars, clientVars, up, down, delivered>>
  PROVE  UpInv'
  <1>0. UNCHANGED <<byClient, sess, channel, nup, up, dials, tasks, dialResultChan>>
    BY DEF PeerStep, OnTraffic, PeerCloses, tableVars, clientVars
  <1>1. SessionsKept /\ DialOwedSame /\ PacketsSame /\ DialsAdvance
    BY <1>0, SessionsSame, CallsSame DEF DialsAdvance
  <1>2. d \in DOMAIN conns /\ conns \in Seq(Conn) /\ conns[d].st = "open"
        /\ (conns' = ConnRead(d) \/ conns' = ConnAt(d, "closed"))
    BY ConnsType DEF PeerStep, OnTraffic, PeerCloses
  <1>3. OutsSame /\ TokensSame
    <2>1. TokensSame
      BY PeerStepOK DEF DialerStepOK, SameDials, TokensSame, IInv, TypeOK, Core
    <2>2. CASE conns' = ConnRead(d)
      BY <1>2, <2>1, <2>2, ConnReadKeeps DEF OutsSame
    <2>3. CASE conns' = ConnAt(d, "closed")
      BY <1>2, <2>1, <2>3, ClosingKeepsOuts
    <2> QED
      BY <1>2, <2>1, <2>2, <2>3
  <1>4. QueueKept
    <2>1. queue' = queue
      BY <1>0 DEF queue
    <2> QED
      BY <1>3, <2>1, QueueSame DEF QueueKept
  <1> QED
    BY <1>1, <1>3, <1>4, QuietUp

\* The head of a queue of calls leaves it.
LEMMA TailLosesFirst ==
  ASSUME NEW a \in Seq(UpIO), NEW b \in Seq(UpIO), a # <<>>
  PROVE  /\ OneMore(Tail(a) \o b, a \o b, 1) /\ Tail(a) \o b \in Seq(UpIO)
         /\ (a \o b)[1] = Head(a) /\ 1 \in DOMAIN (a \o b)
  BY DEF OneMore

\* The loop carries out the first write in the queue.
LEMMA WriteUp ==
  ASSUME IInv, IInv', UpInv, tasks # <<>>, NEW d, d = Head(tasks).conn, NEW p,
         p = Head(tasks).payload, Head(tasks).op = "write",
         conns[d].st = "open", conns' = ConnWritten(d, p), tasks' = Tail(tasks),
         UNCHANGED <<dials, dialResultChan>>,
         UNCHANGED <<byClient, sess, channel, nup, up>>
  PROVE  UpInv'
  <1>0. /\ tasks \in Seq(UpIO) /\ up.io \in Seq(UpIO) /\ conns \in Seq(Conn)
        /\ queue \in Seq(UpIO) /\ queue = tasks \o up.io /\ queue' = Tail(tasks) \o up.io
        /\ DOMAIN conns = DOMAIN dials
        /\ \A e \in DOMAIN conns : conns[e].out \in Seq(Payload)
    BY QueueType, ConnsType DEF queue
  <1>1. PICK s2 : s2 = Tail(tasks) \o up.io
    OBVIOUS
  <1>2. /\ s2 \in Seq(UpIO) /\ queue' = s2 /\ OneMore(s2, queue, 1)
        /\ queue[1] = Head(tasks) /\ 1 \in DOMAIN queue
    BY <1>0, <1>1, TailLosesFirst
  <1>3. 1 \in Writes(queue, d) /\ queue[1].op = "write" /\ queue[1].conn = d
    BY <1>2 DEF Writes
  <1>4. d \in DOMAIN conns /\ p.client = dials[d].token.client /\ p \in Payload
    <2>1. d \in DOMAIN dials /\ p.client = dials[d].token.client
      BY <1>2, <1>3 DEF UpInv, Own
    <2>2. tasks \in Seq(Task)
      BY DEF IInv, TypeOK, DialerTypeOK
    <2>3. p \in Payload
      BY <2>2, TaskFields
    <2> QED
      BY <1>0, <2>1, <2>3
  <1>w. ASSUME NEW lo \in Int, NEW hi \in Int, NEW o, o = conns[d].out, NEW q, q = queue,
               Line(Pipe(o, q, d), lo, hi)
        PROVE  /\ Line(Pipe(Append(o, p), s2, d), lo, hi)
               /\ Len(o) # 0 => p.seq = o[Len(o)].seq + 1
    <2>1. /\ o \in Seq(Payload) /\ q \in Seq(UpIO) /\ OneMore(s2, q, 1)
          /\ q[1].op = "write" /\ q[1].conn = d /\ q[1].payload = p
          /\ s2 \in Seq(UpIO) /\ p \in Payload /\ Line(Pipe(o, q, d), lo, hi)
      <3>1. o \in Seq(Payload) /\ q \in Seq(UpIO) /\ Line(Pipe(o, q, d), lo, hi)
        BY <1>0, <1>2, <1>3, <1>4, <1>w
      <3>2. OneMore(s2, q, 1) /\ q[1].op = "write" /\ q[1].conn = d /\ q[1].payload = p
        BY <1>0, <1>2, <1>3, <1>4, <1>w
      <3>3. s2 \in Seq(UpIO) /\ p \in Payload
        BY <1>0, <1>2, <1>3, <1>4, <1>w
      <3> QED
        BY <3>1, <3>2, <3>3
    <2> QED
      BY <2>1, PipeWritten
  <1>5. /\ DOMAIN conns' = DOMAIN conns
        /\ conns'[d].out = Append(conns[d].out, p)
        /\ \A e \in DOMAIN conns : /\ conns'[e].st = conns[e].st
                                   /\ e # d => conns'[e].out = conns[e].out
    BY <1>0, <1>4, ConnWrittenKeeps, SMTT(30)
  <1>6. NoNewWrites
    BY <1>2, QueueShorter
  <1>7. WrittenIfQueued
    BY <1>3, <1>5 DEF WrittenIfQueued
  <1>8. ASSUME NEW e \in DOMAIN conns, NEW lo \in Int, NEW hi \in Int,
               Line(Pipe(conns[e].out, queue, e), lo, hi)
        PROVE  Line(Pipe(conns'[e].out, s2, e), lo, hi)
    <2>1. CASE e = d
      BY <1>w, <1>5, <1>8, <2>1
    <2>2. CASE e # d
      <3>1. 1 \notin Writes(queue, e)
        BY <1>3, <2>2 DEF Writes
      <3>2. Line(Pipe(conns[e].out, s2, e), lo, hi)
        BY <1>0, <1>2, <1>8, <3>1, PipeWithout
      <3> QED
        BY <1>5, <2>2, <3>2
    <2> QED
      BY <2>1, <2>2
  <1>9. PipesKept
    BY <1>2, <1>5, <1>8 DEF PipesKept, PipeKept
  <1>10. SessionsKept /\ DialOwedSame /\ PacketsSame /\ DialsAdvance /\ TokensSame
    BY <1>0, <1>5, SessionsSame, CallsSame DEF DialsAdvance, TokensSame
  <1>11. QuietStep
    BY <1>6, <1>7, <1>9, <1>10 DEF QuietStep, InboxKept, PacketsSame
  <1>12. DialsInOrder' /\ Own(queue, dials)' /\ DialingUnused' /\ PipesLine' /\ Streams'
    BY <1>11, QuietKeeps
  <1>13. BatchesRun' /\ ResultsFresh'
    BY <1>10, ResultsStayFresh DEF BatchesRun, PacketsSame, UpInv
  <1>14. UpstreamInOrder'
    <2> SUFFICES ASSUME NEW e \in DOMAIN conns
                 PROVE  IsRun(conns'[e].out, dials[e].token.client)
      BY <1>5 DEF UpstreamInOrder
    <2>1. IsRun(conns[e].out, dials[e].token.client)
      BY DEF UpInv, UpstreamInOrder
    <2>2. CASE e # d
      BY <1>5, <2>1, <2>2
    <2>3. CASE e = d
      <3>1. PICK lo \in Int, hi \in Int : Line(Pipe(conns[d].out, queue, d), lo, hi)
        BY <1>4 DEF UpInv, PipesLine
      <3>2. PICK o : o = conns[d].out
        OBVIOUS
      <3>3. o \in Seq(Payload) /\ Len(o) \in Nat /\ DOMAIN o = 1..Len(o)
            /\ \A i \in DOMAIN o : o[i].seq \in Nat
        <4>1. o \in Seq(Payload)
          BY <1>0, <1>4, <3>2
        <4>2. \A i \in DOMAIN o : o[i].seq \in Nat
          <5>1. \A i \in DOMAIN o : o[i] \in Payload
            BY <4>1, ElementOfSeq
          <5> QED
            BY <5>1 DEF Payload
        <4> QED
          BY <4>1, <4>2
      <3>4. Len(o) # 0 => p.seq = o[Len(o)].seq + 1
        <4>1. PICK q : q = queue
          OBVIOUS
        <4>2. Line(Pipe(o, q, d), lo, hi)
          BY <3>1, <3>2, <4>1
        <4> QED
          BY <1>w, <3>2, <4>1, <4>2
      <3>5. conns'[d].out = Append(o, p)
        BY <1>5, <3>2
      <3>6. IsRun(o, dials[d].token.client)
        BY <2>1, <2>3, <3>2
      <3>7. IsRun(Append(o, p), dials[d].token.client)
        <4> DEFINE o2 == Append(o, p)
                   n == Len(o)
        <4>1. /\ DOMAIN o2 = 1..(n + 1) /\ o2[n + 1] = p
              /\ \A i \in 1..n : o2[i] = o[i]
          BY <3>3
        <4> HIDE DEF o2
        <4>2. p.seq \in Int
          BY <1>4 DEF Payload
        <4>3. o2[1].seq = IF n = 0 THEN p.seq ELSE o[1].seq
          BY <3>3, <4>1
        <4>4. ASSUME NEW i \in 1..(n + 1)
              PROVE  o2[i].client = dials[d].token.client /\ o2[i].seq = o2[1].seq + i - 1
          <5>1. CASE i \in 1..n
            BY <3>3, <3>6, <4>1, <4>3, <5>1 DEF IsRun
          <5>2. CASE i = n + 1 /\ n = 0
            BY <1>4, <4>1, <4>2, <4>3, <5>2
          <5>3. CASE i = n + 1 /\ n # 0
            <6>1. n \in DOMAIN o /\ 1 \in DOMAIN o
              BY <3>3, <5>3
            <6>2. o[n].seq = o[1].seq + n - 1 /\ o[1].seq \in Int
              BY <3>3, <3>6, <6>1 DEF IsRun
            <6>3. p.seq = o[1].seq + n
              BY <3>3, <3>4, <5>3, <6>2
            <6> QED
              BY <1>4, <3>3, <4>1, <4>3, <5>3, <6>2, <6>3
          <5> QED
            BY <3>3, <5>1, <5>2, <5>3
        <4> QED
          BY <4>1, <4>4 DEF IsRun, o2
      <3> QED
        BY <2>3, <3>5, <3>7
    <2> QED
      BY <2>2, <2>3
  <1> QED
    BY <1>12, <1>13, <1>14 DEF UpInv

\* A task is taken and no connection is written to, and with it nothing is
\* lost of a connection that is still open.
LEMMA TaskDroppedUp ==
  ASSUME IInv, IInv', UpInv, tasks # <<>>, OutsSame, TokensSame,
         tasks' = Tail(tasks),
         Head(tasks).op = "write" => conns'[Head(tasks).conn].st = "closed",
         UNCHANGED <<dials, dialResultChan>>,
         UNCHANGED <<byClient, sess, channel, nup, up>>
  PROVE  UpInv'
  <1>0. /\ tasks \in Seq(UpIO) /\ up.io \in Seq(UpIO) /\ queue \in Seq(UpIO)
        /\ queue = tasks \o up.io /\ queue' = Tail(tasks) \o up.io
        /\ \A e \in DOMAIN conns : conns[e].out \in Seq(Payload)
    BY QueueType, ConnsType DEF queue
  <1>1. PICK s2 : s2 = Tail(tasks) \o up.io
    OBVIOUS
  <1>2. s2 \in Seq(UpIO) /\ queue' = s2 /\ OneMore(s2, queue, 1) /\ queue[1] = Head(tasks)
    BY <1>0, <1>1, TailLosesFirst
  <1>3. NoNewWrites
    BY <1>2, QueueShorter
  <1>4. WrittenIfQueued
    BY DEF WrittenIfQueued, OutsSame
  <1>5. ASSUME NEW e \in DOMAIN conns, conns'[e].st # "closed",
               NEW lo \in Int, NEW hi \in Int, Line(Pipe(conns[e].out, queue, e), lo, hi)
        PROVE  Line(Pipe(conns[e].out, s2, e), lo, hi)
    <2>1. 1 \notin Writes(queue, e)
      BY <1>2, <1>5 DEF Writes
    <2> QED
      BY <1>0, <1>2, <1>5, <2>1, PipeWithout
  <1>6. PipesKept
    BY <1>2, <1>5 DEF PipesKept, PipeKept, OutsSame
  <1>7. SessionsKept /\ DialOwedSame /\ PacketsSame /\ DialsAdvance
    BY SessionsSame, CallsSame DEF DialsAdvance
  <1> QED
    BY <1>3, <1>4, <1>6, <1>7, QuietUp DEF QueueKept

LEMMA LoopStepUp ==
  ASSUME IInv, IInv', UpInv, SafetyInv, LoopStep,
         UNCHANGED <<tableVars, clientVars, up, down, delivered>>
  PROVE  UpInv'
  <1>0. UNCHANGED <<byClient, sess, channel, nup, up>>
    BY DEF tableVars, clientVars
  <1>1. TokensSame
    BY LoopStepOK DEF DialerStepOK, SameDials, TokensSame, IInv, TypeOK, Core
  <1>2. conns \in Seq(Conn) /\ tasks \in Seq(Task)
    BY DEF IInv, TypeOK, DialerTypeOK
  <1>3. tasks # <<>> => Head(tasks) \in Task /\ Head(tasks).conn \in DOMAIN conns
    <2>1. tasks # <<>> => Head(tasks) \in Task
      BY <1>2
    <2>2. \A t \in Task : t.op # "dial"
      BY DEF Task
    <2> QED
      BY <1>2, <2>1, <2>2, KnownTail DEF SafetyInv, DialerTold
  <1>4. CASE LoopUnblocks
    <2>1. UNCHANGED <<dials, conns, tasks, dialResultChan>>
      BY <1>4 DEF LoopUnblocks
    <2>2. TokensSame /\ DialsAdvance /\ OutsSame
      BY <2>1, DialsSame
    <2>3. SessionsKept /\ DialOwedSame /\ PacketsSame
      BY <1>0, SessionsSame, CallsSame
    <2>4. QueueKept
      <3>1. queue' = queue
        BY <1>0, <2>1 DEF queue
      <3> QED
        BY <2>2, <3>1, QueueSame DEF QueueKept
    <2> QED
      BY <2>2, <2>3, <2>4, QuietUp
  <1>5. CASE RunWrite
    <2>1. tasks # <<>> /\ Head(tasks).op = "write" /\ tasks' = Tail(tasks)
          /\ UNCHANGED <<dials, dialResultChan>>
      BY <1>5 DEF RunWrite
    <2>2. PICK d : d = Head(tasks).conn
      OBVIOUS
    <2>3. CASE conns[d].st = "open" /\ conns' = ConnWritten(d, Head(tasks).payload)
      BY <1>0, <2>1, <2>2, <2>3, WriteUp
    <2>4. CASE conns' = ConnAt(d, "closed")
      <3>1. OutsSame /\ conns'[d].st = "closed"
        BY <1>2, <1>3, <2>1, <2>2, <2>4, ClosingKeepsOuts, ConnAtKeeps
      <3> QED
        BY <1>0, <1>1, <2>1, <2>2, <3>1, TaskDroppedUp
    <2>5. CASE conns[d].st = "closed" /\ UNCHANGED conns
      <3>1. OutsSame
        BY <2>5 DEF OutsSame
      <3> QED
        BY <1>0, <1>1, <2>1, <2>2, <2>5, <3>1, TaskDroppedUp
    <2> QED
      BY <1>5, <2>2, <2>3, <2>4, <2>5 DEF RunWrite
  <1>6. CASE RunClose
    <2>1. tasks # <<>> /\ Head(tasks).op = "close" /\ tasks' = Tail(tasks)
          /\ UNCHANGED <<dials, dialResultChan>>
          /\ (conns' = ConnAt(Head(tasks).conn, "closed") \/ UNCHANGED conns)
      BY <1>6 DEF RunClose
    <2>2. OutsSame
      <3>1. CASE conns' = ConnAt(Head(tasks).conn, "closed")
        BY <1>2, <1>3, <2>1, <3>1, ClosingKeepsOuts
      <3>2. CASE UNCHANGED conns
        BY <3>2 DEF OutsSame
      <3> QED
        BY <2>1, <3>1, <3>2
    <2> QED
      BY <1>0, <1>1, <2>1, <2>2, TaskDroppedUp
  <1> QED
    BY <1>4, <1>5, <1>6 DEF LoopStep

\* OnOpen: the session is bound; nothing is written yet.
LEMMA LoopOpensUp ==
  ASSUME IInv, IInv', UpInv, NEW d \in DOMAIN dials, LoopOpens(d)
  PROVE  UpInv'
  <1>0. UNCHANGED <<byClient, channel, nup, up, tasks, dialResultChan>>
    BY DEF LoopOpens, OnOpenHooked, clientVars
  <1>1. DialOwedSame /\ PacketsSame
    BY <1>0, CallsSame
  <1>2. PICK accepted \in BOOLEAN : OnOpenHooked(d, accepted) /\ accepted = Current(dials[d].token)
    BY DEF LoopOpens, Current
  <1>3. /\ DialsMoved(d, "opened")
        /\ DOMAIN conns' = DOMAIN conns
        /\ conns[d].st = "new" /\ conns'[d].st # "new"
        /\ \A e \in DOMAIN conns : e # d => conns'[e] = conns[e]
    BY <1>2, OnOpenOK DEF IInv, TypeOK, Core
  <1>4. TokensSame
    BY <1>3 DEF TokensSame, DialsMoved
  <1>5. OutsSame
    <2>1. d \in DOMAIN conns /\ conns \in Seq(Conn)
      BY ConnsType
    <2>2. conns' = ConnAt(d, "open") \/ conns' = ConnAt(d, "closed")
      BY <1>2 DEF OnOpenHooked
    <2>3. conns'[d].out = conns[d].out
      BY <2>1, <2>2, ConnAtKeeps
    <2> QED
      BY <1>3, <2>3 DEF OutsSame
  <1>6. SessionsKept
    <2>1. CASE UNCHANGED sess
      BY <1>0, <2>1 DEF SessionsKept
    <2>2. CASE BindDial(d, dials[d].token)
      <3>1. /\ dials[d].token.session \in DOMAIN sess /\ sess \in Seq(Session) /\ d \in Nat
            /\ sess' = SessBound(dials[d].token.session, d)
        BY <2>2, ConnsType DEF BindDial, IInv, Core, DialsDistinct
      <3>2. PICK s \in DOMAIN sess : s = dials[d].token.session
        BY <3>1
      <3>3. /\ SessShape(sess', s, d, sess[s].dialing)
            /\ sess'[s].pending = sess[s].pending
        BY <3>1, <3>2, SessBoundShape
      <3> QED
        BY <1>0, <3>3 DEF SessionsKept, SessShape
    <2> QED
      BY <2>1, <2>2 DEF LoopOpens
  <1>7. QueueKept
    <2>1. queue' = queue
      BY <1>0 DEF queue
    <2> QED
      BY <1>5, <2>1, QueueSame DEF QueueKept
  <1>8. DialsAdvance
    BY <1>0, <1>2, <1>3 DEF DialsAdvance, DialsMoved, OnOpenHooked
  <1> QED
    BY <1>1, <1>4, <1>5, <1>6, <1>7, <1>8, QuietUp

\* An entry joins between two parts of a queue.
LEMMA JoinedBetween ==
  ASSUME NEW T, NEW a \in Seq(T), NEW b \in Seq(T), NEW t, Append(a, t) \in Seq(T)
  PROVE  /\ OneMore(a \o b, Append(a, t) \o b, Len(a) + 1)
         /\ (Append(a, t) \o b)[Len(a) + 1] = t
  <1> DEFINE n == Len(a)
             m == Len(b)
             s == Append(a, t) \o b
             r == a \o b
  <1>1. /\ n \in Nat /\ m \in Nat /\ Len(s) = n + 1 + m /\ Len(r) = n + m
        /\ \A i \in 1..n : s[i] = a[i] /\ r[i] = a[i]
        /\ s[n + 1] = t
    OBVIOUS
  <1>2. \A i \in (n + 1)..(n + m) : r[i] = b[i - n] /\ s[i + 1] = b[i - n]
    OBVIOUS
  <1> HIDE DEF n, m, s, r
  <1>3. \A i \in 1..Len(r) : r[i] = IF i < n + 1 THEN s[i] ELSE s[i + 1]
    <2> SUFFICES ASSUME NEW i \in 1..(n + m)
                 PROVE  r[i] = IF i < n + 1 THEN s[i] ELSE s[i + 1]
      BY <1>1
    <2>1. CASE i \in 1..n
      BY <1>1, <2>1
    <2>2. CASE i \in (n + 1)..(n + m)
      BY <1>1, <1>2, <2>2
    <2> QED
      BY <1>1, <2>1, <2>2
  <1>4. OneMore(r, s, n + 1)
    BY <1>1, <1>3 DEF OneMore
  <1> QED
    BY <1>1, <1>4 DEF r, s, n

\* The callback of a failed write puts a close behind the tasks.
LEMMA LoopWriteErrorUp ==
  ASSUME IInv, IInv', UpInv, LoopWriteError
  PROVE  UpInv'
  <1>0. UNCHANGED <<sess, channel, nup, up, dials, conns, dialResultChan>>
    BY DEF LoopWriteError, WriteErrorDone, clientVars
  <1>1. TokensSame /\ DialsAdvance /\ OutsSame
    BY <1>0, DialsSame
  <1>2. DialOwedSame /\ PacketsSame
    BY <1>0, CallsSame
  <1>3. SessionsKept
    BY <1>0 DEF LoopWriteError, PurgeByDest, SessionsKept
  <1>4. QueueKept
    <2>1. PICK t : t = CloseTask(loop.failed)
      OBVIOUS
    <2>2. tasks' = Append(tasks, t) /\ t.op = "close"
      BY <2>1 DEF LoopWriteError, WriteErrorDone, CloseTask, IInv, TypeOK, DialerTypeOK
    <2>3. PICK k : k = Len(tasks) + 1
      OBVIOUS
    <2>4. PICK s2 : s2 = tasks' \o up.io
      OBVIOUS
    <2>5. /\ s2 \in Seq(UpIO) /\ queue' = s2
          /\ tasks \in Seq(UpIO) /\ tasks' \in Seq(UpIO) /\ up.io \in Seq(UpIO)
          /\ queue = tasks \o up.io
      BY <1>0, <2>4, QueueType, NextTypes DEF queue
    <2>6. OneMore(queue, s2, k) /\ s2[k] = t
      <3>1. PICK a \in Seq(UpIO), b \in Seq(UpIO) :
              a = tasks /\ b = up.io /\ Append(a, t) \in Seq(UpIO)
        BY <2>2, <2>5
      <3>2. queue = a \o b /\ s2 = Append(a, t) \o b /\ k = Len(a) + 1
        BY <2>2, <2>3, <2>4, <2>5, <3>1
      <3>3. OneMore(a \o b, Append(a, t) \o b, Len(a) + 1) /\ (Append(a, t) \o b)[Len(a) + 1] = t
        BY <3>1, JoinedBetween
      <3> QED
        BY <3>2, <3>3
    <2> QED
      BY <1>1, <2>2, <2>5, <2>6, QueueGains DEF QueueKept
  <1> QED
    BY <1>1, <1>2, <1>3, <1>4, QuietUp

(***************************************************************************)
(* What is in the channel and with the upstream goroutine                  *)
(***************************************************************************)

\* The positions of an inbox and what they hold.
IsInbox(f, s, conn, pkts, c) ==
  /\ DOMAIN f = {k \in DOMAIN s : s[k].conn = c /\ s[k].pkts # <<>>}
                  \cup {k \in {0} : conn = c /\ pkts # <<>>}
  /\ \A i \in DOMAIN f : f[i] = IF i = 0 THEN Span(pkts) ELSE Span(s[i].pkts)

LEMMA InboxAt ==
  ASSUME NEW s, NEW conn, NEW pkts, NEW c
  PROVE  IsInbox(Inbox(s, conn, pkts, c), s, conn, pkts, c)
  BY DEF IsInbox, Inbox

\* A message of another client, or with no packet, changes nothing.
LEMMA InboxOfOthers ==
  ASSUME NEW s \in Seq(ClientMsg), NEW m \in ClientMsg, NEW conn, NEW pkts, NEW c,
         m.conn # c \/ m.pkts = <<>>
  PROVE  Inbox(Append(s, m), conn, pkts, c) = Inbox(s, conn, pkts, c)
  <1> DEFINE r == Append(s, m)
             n == Len(s)
  <1>1. /\ n \in Nat /\ DOMAIN s = 1..n /\ DOMAIN r = 1..(n + 1) /\ r[n + 1] = m
        /\ \A i \in 1..n : r[i] = s[i]
    OBVIOUS
  <1> HIDE DEF r, n
  <1>2. {k \in DOMAIN r : r[k].conn = c /\ r[k].pkts # <<>>}
          = {k \in DOMAIN s : s[k].conn = c /\ s[k].pkts # <<>>}
    <2>1. \A k \in 1..(n + 1) : k \in 1..n \/ k = n + 1
      BY <1>1
    <2>2. \A k \in 1..n : k \in 1..(n + 1)
      BY <1>1
    <2> QED
      BY <1>1, <2>1, <2>2
  <1>3. \A i \in {k \in DOMAIN s : s[k].conn = c /\ s[k].pkts # <<>>}
                   \cup {k \in {0} : conn = c /\ pkts # <<>>} :
          (IF i = 0 THEN Span(pkts) ELSE Span(r[i].pkts))
            = (IF i = 0 THEN Span(pkts) ELSE Span(s[i].pkts))
    BY <1>1
  <1>4. Inbox(r, conn, pkts, c) = Inbox(s, conn, pkts, c)
    BY <1>2, <1>3 DEF Inbox
  <1> QED
    BY <1>4 DEF r

\* The packets of one read follow those before.
LEMMA InboxSent ==
  ASSUME NEW s \in Seq(ClientMsg), NEW m \in ClientMsg, NEW conn, NEW pkts, NEW c,
         m.conn = c, m.pkts # <<>>, NEW lo, NEW hi, Line(Inbox(s, conn, pkts, c), lo, hi),
         NEW hi2 \in Int, hi < hi2,
         m.pkts[1].payload.seq = hi + 1, m.pkts[Len(m.pkts)].payload.seq = hi2
  PROVE  Line(Inbox(Append(s, m), conn, pkts, c), lo, hi2)
  <1> DEFINE r == Append(s, m)
             k == Len(s) + 1
             f == Inbox(s, conn, pkts, c)
             g == Inbox(r, conn, pkts, c)
  <1>1. /\ k \in Nat /\ k > 0 /\ DOMAIN s = 1..(k - 1) /\ DOMAIN r = 1..k /\ r[k] = m
        /\ \A i \in 1..(k - 1) : r[i] = s[i]
    OBVIOUS
  <1>2. IsInbox(f, s, conn, pkts, c) /\ IsInbox(g, r, conn, pkts, c) /\ Line(f, lo, hi)
    BY InboxAt
  <1> HIDE DEF r, k, f, g
  <1>3. DOMAIN g = DOMAIN f \cup {k}
    <2>1. {i \in DOMAIN r : r[i].conn = c /\ r[i].pkts # <<>>}
            = {i \in DOMAIN s : s[i].conn = c /\ s[i].pkts # <<>>} \cup {k}
      <3>1. \A i \in 1..k : i \in 1..(k - 1) \/ i = k
        BY <1>1
      <3>2. \A i \in 1..(k - 1) : i \in 1..k
        BY <1>1
      <3>3. k \in 1..k
        BY <1>1
      <3> QED
        BY <1>1, <3>1, <3>2, <3>3
    <2> QED
      BY <1>2, <2>1 DEF IsInbox
  <1>4. \A i \in DOMAIN f : i < k /\ g[i] = f[i]
    BY <1>1, <1>2, <1>3 DEF IsInbox
  <1>5. g[k].first = hi + 1 /\ g[k].last = hi2
    <2>1. k \in DOMAIN g /\ k # 0
      BY <1>1, <1>3
    <2>2. g[k] = Span(m.pkts)
      BY <1>1, <1>2, <2>1 DEF IsInbox
    <2> QED
      BY <2>2 DEF Span
  <1>6. k \in Int
    BY <1>1
  <1>7. Line(g, lo, hi2)
    BY <1>2, <1>3, <1>4, <1>5, <1>6, LineMore
  <1> QED
    BY <1>7 DEF g, r

\* A message is received: its packets stay ahead of the rest of the channel.
LEMMA InboxReceived ==
  ASSUME NEW s \in Seq(ClientMsg), s # <<>>, NEW conn, NEW conn2, NEW pkts2,
         pkts2 = Head(s).pkts, conn2 = Head(s).conn \/ pkts2 = <<>>, NEW c,
         NEW lo, NEW hi, Line(Inbox(s, conn, <<>>, c), lo, hi)
  PROVE  Line(Inbox(Tail(s), conn2, pkts2, c), lo, hi)
  <1> DEFINE f == Inbox(s, conn, <<>>, c)
             r == Tail(s)
             g == Inbox(r, conn2, pkts2, c)
             h == [i \in DOMAIN g |-> i + 1]
             n == Len(s)
  <1>1. /\ n \in Nat /\ n > 0 /\ DOMAIN s = 1..n /\ DOMAIN r = 1..(n - 1) /\ Head(s) = s[1]
        /\ \A i \in 1..(n - 1) : r[i] = s[i + 1]
    OBVIOUS
  <1>2. IsInbox(f, s, conn, <<>>, c) /\ IsInbox(g, r, conn2, pkts2, c) /\ Line(f, lo, hi)
    BY InboxAt
  <1> HIDE DEF f, r, g, n
  <1>3. ASSUME NEW i \in DOMAIN g
        PROVE  i \in Int /\ i + 1 \in DOMAIN f /\ g[i] = f[i + 1]
    <2>1. CASE i = 0
      <3>1. pkts2 # <<>> /\ conn2 = c
        BY <1>1, <1>2, <2>1 DEF IsInbox
      <3>2. 1 \in DOMAIN f /\ g[0] = Span(pkts2) /\ f[1] = Span(s[1].pkts)
        BY <1>1, <1>2, <2>1, <3>1 DEF IsInbox
      <3> QED
        BY <1>1, <2>1, <3>2
    <2>2. CASE i # 0
      <3>1. i \in 1..(n - 1) /\ r[i].conn = c /\ r[i].pkts # <<>> /\ g[i] = Span(r[i].pkts)
        BY <1>1, <1>2, <2>2 DEF IsInbox
      <3>2. i + 1 \in 1..n /\ i + 1 # 0 /\ r[i] = s[i + 1]
        BY <1>1, <3>1
      <3>3. i + 1 \in DOMAIN f
        BY <1>1, <1>2, <3>1, <3>2 DEF IsInbox
      <3> QED
        BY <1>2, <3>1, <3>2, <3>3 DEF IsInbox
    <2> QED
      BY <2>1, <2>2
  <1>4. ASSUME NEW m \in DOMAIN f
        PROVE  \E i \in DOMAIN g : i + 1 = m
    <2>1. m \in 1..n /\ s[m].conn = c /\ s[m].pkts # <<>>
      BY <1>1, <1>2 DEF IsInbox
    <2>2. CASE m = 1
      <3>1. 0 \in DOMAIN g
        BY <1>1, <1>2, <2>1, <2>2 DEF IsInbox
      <3> QED
        BY <2>2, <3>1
    <2>3. CASE m # 1
      <3>1. m - 1 \in 1..(n - 1) /\ (m - 1) + 1 = m
        BY <1>1, <2>1, <2>3
      <3>2. r[m - 1] = s[m]
        BY <1>1, <3>1
      <3>3. m - 1 \in DOMAIN g
        BY <1>1, <1>2, <2>1, <3>1, <3>2 DEF IsInbox
      <3> QED
        BY <3>1, <3>3
    <2> QED
      BY <2>2, <2>3
  <1>5. Moved(f, g, h)
    <2>1. \A i \in DOMAIN g : h[i] = i + 1
      OBVIOUS
    <2> HIDE DEF h
    <2>2. \A i, j \in DOMAIN g : i < j => h[i] < h[j]
      BY <1>3, <2>1
    <2>3. \A k \in DOMAIN f : \E i \in DOMAIN g : h[i] = k
      BY <1>4, <2>1
    <2> QED
      BY <1>3, <2>1, <2>2, <2>3 DEF Moved
  <1>6. Line(g, lo, hi)
    BY <1>2, <1>5, LineMoved
  <1> QED
    BY <1>6 DEF g, r

\* The first packet is taken: it is the next of its client.
LEMMA InboxTaken ==
  ASSUME NEW s \in Seq(ClientMsg), NEW c, NEW pkts \in Seq(Packet), pkts # <<>>,
         Batch(pkts, c), NEW lo, NEW hi, Line(Inbox(s, c, pkts, c), lo, hi)
  PROVE  /\ Line(Inbox(s, c, Tail(pkts), c), lo + 1, hi)
         /\ Head(pkts).payload.seq = lo /\ Head(pkts).payload.client = c
         /\ Batch(Tail(pkts), c)
  <1> DEFINE f == Inbox(s, c, pkts, c)
             r == Tail(pkts)
             g == Inbox(s, c, r, c)
             n == Len(pkts)
  <1>1. /\ n \in Nat /\ n > 0 /\ DOMAIN pkts = 1..n /\ Head(pkts) = pkts[1]
        /\ DOMAIN r = 1..(n - 1) /\ (r = <<>> <=> n = 1)
        /\ \A i \in 1..(n - 1) : r[i] = pkts[i + 1]
        /\ \A i \in DOMAIN s : i \in Nat /\ i > 0
    <2>1. n \in Nat /\ n > 0 /\ DOMAIN pkts = 1..n /\ Head(pkts) = pkts[1]
      OBVIOUS
    <2>2. r \in Seq(Packet) /\ Len(r) = n - 1 /\ \A i \in 1..(n - 1) : r[i] = pkts[i + 1]
      OBVIOUS
    <2>3. \A i \in DOMAIN s : i \in Nat /\ i > 0
      OBVIOUS
    <2> HIDE DEF r, n
    <2>4. DOMAIN r = 1..(n - 1)
      BY <2>2
    <2>5. r = <<>> => Len(r) = 0
      BY EmptySeq
    <2>6. r # <<>> => Len(r) # 0
      BY <2>2, EmptySeq
    <2> QED
      BY <2>1, <2>2, <2>3, <2>4, <2>5, <2>6
  <1>2. IsInbox(f, s, c, pkts, c) /\ IsInbox(g, s, c, r, c) /\ Line(f, lo, hi)
    BY InboxAt
  <1>r. Len(r) = n - 1
    OBVIOUS
  <1>3. Span(pkts).first = pkts[1].payload.seq /\ Span(pkts).last = pkts[n].payload.seq
    BY DEF Span
  <1> HIDE DEF f, r, g, n
  <1>4. 0 \in DOMAIN f /\ f[0] = Span(pkts) /\ \A i \in DOMAIN f : 0 <= i
    BY <1>1, <1>2 DEF IsInbox
  <1>5. f[0].first = lo /\ lo \in Int
    BY <1>2, <1>4, LineFirst DEF Line
  <1>6. pkts[1].payload.seq = lo /\ pkts[1].payload.client = c
    BY <1>1, <1>3, <1>4, <1>5 DEF Batch
  <1>7. \A i \in 1..n : pkts[i].payload.seq = lo + i - 1 /\ pkts[i].payload.client = c
    BY <1>1, <1>6 DEF Batch
  <1>8. Batch(r, c)
    <2>1. \A i \in 1..(n - 1) :
            r[i].payload.seq = lo + i /\ r[i].payload.client = c
      BY <1>1, <1>5, <1>7
    <2>2. \A i \in 1..(n - 1) : 1 \in 1..(n - 1)
      BY <1>1
    <2> QED
      BY <1>1, <1>5, <2>1, <2>2 DEF Batch
  <1>9. f[0].last = lo + n - 1
    BY <1>1, <1>3, <1>4, <1>7
  <1>10. \A i \in DOMAIN f : i # 0 => g[i] = f[i]
    BY <1>1, <1>2 DEF IsInbox
  <1>11. CASE n = 1
    <2>1. DOMAIN g = DOMAIN f \ {0}
      BY <1>1, <1>2, <1>11 DEF IsInbox
    <2>2. f[0].first = f[0].last
      BY <1>5, <1>9, <1>11
    <2>3. Line(g, lo + 1, hi)
      BY <1>2, <1>4, <1>10, <2>1, <2>2, LineTrimmed
    <2> QED
      BY <1>1, <1>6, <1>8, <2>3 DEF g, r
  <1>12. CASE n # 1
    <2>1. DOMAIN g = DOMAIN f /\ g[0] = Span(r)
      BY <1>1, <1>2, <1>4, <1>12 DEF IsInbox
    <2>2. Span(r).first = lo + 1 /\ Span(r).last = lo + n - 1
      <3>1. 1 \in 1..(n - 1) /\ n - 1 \in 1..(n - 1) /\ (n - 1) + 1 = n
        BY <1>1, <1>12
      <3>2. r[1] = pkts[2] /\ r[n - 1] = pkts[n] /\ 2 \in 1..n /\ n \in 1..n
        BY <1>1, <3>1
      <3> QED
        BY <1>1, <1>r, <1>5, <1>7, <3>2 DEF Span
    <2>3. g[0].first = f[0].first + 1 /\ g[0].last = f[0].last /\ f[0].first # f[0].last
      BY <1>1, <1>5, <1>9, <1>12, <2>1, <2>2
    <2>4. Line(g, lo + 1, hi)
      BY <1>2, <1>4, <1>10, <2>1, <2>3, LineTrimmed
    <2> QED
      BY <1>1, <1>6, <1>8, <2>4 DEF g, r
  <1> QED
    BY <1>11, <1>12

\* What the goroutine holds of one client says nothing of another.
LEMMA InboxElse ==
  ASSUME NEW s, NEW conn, NEW pkts, NEW pkts2, NEW c, c # conn
  PROVE  Inbox(s, conn, pkts, c) = Inbox(s, conn, pkts2, c)
  BY DEF Inbox

(***************************************************************************)
(* Upstream: what clients send, and what the goroutine receives            *)
(***************************************************************************)

\* Calls that are no write to d may join the end of the queue.
LEMMA PipeJoined ==
  ASSUME NEW out, NEW s \in Seq(UpIO), NEW r \in Seq(UpIO), NEW d,
         \A i \in DOMAIN r : ~(r[i].op = "write" /\ r[i].conn = d)
  PROVE  /\ Writes(s \o r, d) = Writes(s, d)
         /\ Pipe(out, s \o r, d) = Pipe(out, s, d)
  <1> DEFINE q == s \o r
             n == Len(s)
             m == Len(r)
  <1>1. /\ n \in Nat /\ m \in Nat /\ DOMAIN q = 1..(n + m) /\ DOMAIN s = 1..n /\ DOMAIN r = 1..m
        /\ \A i \in 1..n : q[i] = s[i]
        /\ \A i \in (n + 1)..(n + m) : q[i] = r[i - n]
    OBVIOUS
  <1> HIDE DEF q, n, m
  <1>2. Writes(q, d) = Writes(s, d)
    <2>1. ASSUME NEW i \in Writes(q, d)
          PROVE  i \in Writes(s, d)
      <3>1. i \in 1..(n + m) /\ q[i].op = "write" /\ q[i].conn = d
        BY <1>1, <2>1 DEF Writes
      <3>2. ~(i \in (n + 1)..(n + m))
        <4>1. i \in (n + 1)..(n + m) => i - n \in 1..m
          BY <1>1
        <4> QED
          BY <1>1, <3>1, <4>1
      <3>3. i \in 1..n
        BY <1>1, <3>1, <3>2
      <3> QED
        BY <1>1, <3>1, <3>3 DEF Writes
    <2>2. ASSUME NEW i \in Writes(s, d)
          PROVE  i \in Writes(q, d)
      <3>1. i \in 1..n /\ i \in 1..(n + m) /\ s[i].op = "write" /\ s[i].conn = d
        BY <1>1, <2>2 DEF Writes
      <3> QED
        BY <1>1, <3>1 DEF Writes
    <2> QED
      BY <2>1, <2>2
  <1>3. Pipe(out, q, d) = Pipe(out, s, d)
    <2>1. \A i \in Writes(s, d) : i \in 1..n
      BY <1>1 DEF Writes
    <2>2. \A i \in (1 - Len(out))..0 : ~(i > 0)
      OBVIOUS
    <2>3. \A i \in Writes(s, d) \cup (1 - Len(out))..0 :
            (IF i > 0 THEN Single(q[i].payload.seq) ELSE Single(out[i + Len(out)].seq))
              = (IF i > 0 THEN Single(s[i].payload.seq) ELSE Single(out[i + Len(out)].seq))
      BY <1>1, <2>1, <2>2
    <2> QED
      BY <1>2, <2>3 DEF Pipe
  <1> QED
    BY <1>2, <1>3 DEF q

\* The goroutine decides on calls that are no writes.
LEMMA QueueJoined ==
  ASSUME IInv, OutsSame, up.io = <<>>, UNCHANGED tasks, NEW r \in Seq(UpIO), up'.io = r,
         \A i \in DOMAIN r : r[i].op # "write"
  PROVE  QueueKept
  <1>1. tasks \in Seq(UpIO) /\ queue = tasks /\ queue' = tasks \o r
    BY QueueType DEF queue
  <1>2. ASSUME NEW d
        PROVE  /\ Writes(queue', d) = Writes(queue, d)
               /\ \A out : Pipe(out, queue', d) = Pipe(out, queue, d)
    <2>1. PICK s : s = tasks
      OBVIOUS
    <2>2. s \in Seq(UpIO) /\ queue = s /\ queue' = s \o r
      BY <1>1, <2>1
    <2>3. \A i \in DOMAIN r : ~(r[i].op = "write" /\ r[i].conn = d)
      OBVIOUS
    <2>4. /\ Writes(s \o r, d) = Writes(s, d)
          /\ \A out : Pipe(out, s \o r, d) = Pipe(out, s, d)
      BY <2>2, <2>3, PipeJoined
    <2> QED
      BY <2>2, <2>4
  <1>3. PipesKept
    BY <1>2 DEF PipesKept, PipeKept, OutsSame
  <1>4. NoNewWrites
    <2> SUFFICES ASSUME NEW i \in DOMAIN queue', queue'[i].op = "write"
                 PROVE  \E j \in DOMAIN queue : queue[j] = queue'[i]
      BY DEF NoNewWrites
    <2>1. i \in Writes(queue', queue'[i].conn)
      BY DEF Writes
    <2>2. i \in DOMAIN queue
      BY <1>2, <2>1 DEF Writes
    <2>3. queue'[i] = queue[i]
      BY <1>1, <2>2
    <2> QED
      BY <2>2, <2>3
  <1>5. WrittenIfQueued
    BY DEF WrittenIfQueued, OutsSame
  <1> QED
    BY <1>3, <1>4, <1>5 DEF QueueKept

\* Messages join the channel: nothing else of the stream moves.
LEMMA ChannelUp ==
  ASSUME IInv, IInv', UpInv, InboxKept, BatchesRun',
         UNCHANGED <<dials, conns, tasks, dialResultChan>>,
         UNCHANGED <<byClient, sess, up>>
  PROVE  UpInv'
  <1>1. TokensSame /\ DialsAdvance /\ OutsSame /\ SessionsKept
    BY DialsSame, SessionsSame
  <1>2. DialOwedSame
    BY CallsSame
  <1>3. QueueKept
    <2>1. queue' = queue
      BY DEF queue
    <2> QED
      BY <1>1, <2>1, QueueSame DEF QueueKept
  <1>4. QuietStep
    BY <1>1, <1>2, <1>3 DEF QuietStep, QueueKept
  <1>5. DialsInOrder' /\ Own(queue, dials)' /\ DialingUnused' /\ PipesLine' /\ Streams'
    BY <1>4, QuietKeeps
  <1>6. ResultsFresh' /\ UpstreamInOrder'
    BY <1>1, ResultsStayFresh, WrittenInOrder DEF UpInv
  <1> QED
    BY <1>5, <1>6 DEF UpInv

\* A batch joins the channel.
LEMMA BatchJoins ==
  ASSUME IInv, BatchesRun, NEW m \in ClientMsg, channel' = Append(channel, m),
         Batch(m.pkts, m.conn), m.event = "Data" <=> m.pkts # <<>>, UNCHANGED up
  PROVE  BatchesRun'
  <1>1. channel \in Seq(ClientMsg)
    BY DEF IInv, TypeOK, ClientTypeOK
  <1> SUFFICES ASSUME NEW i \in DOMAIN channel'
               PROVE  /\ Batch(channel'[i].pkts, channel'[i].conn)
                      /\ channel'[i].event = "Data" <=> channel'[i].pkts # <<>>
    BY DEF BatchesRun
  <1>2. i \in DOMAIN channel \/ i = Len(channel) + 1
    BY <1>1
  <1>3. CASE i \in DOMAIN channel
    BY <1>1, <1>3 DEF BatchesRun
  <1>4. CASE i = Len(channel) + 1
    BY <1>1, <1>4
  <1> QED
    BY <1>2, <1>3, <1>4

LEMMA ClientSendsUp ==
  ASSUME ServerAssumption, IInv, IInv', UpInv, NEW c \in Clients, ClientSends(c)
  PROVE  UpInv'
  <1>0. /\ UNCHANGED <<dials, conns, tasks, dialResultChan>> /\ UNCHANGED <<byClient, sess, up>>
        /\ channel \in Seq(ClientMsg) /\ nup \in [Clients -> Nat]
    BY DEF ClientSends, dialerVars, tableVars, IInv, TypeOK, ClientTypeOK
  <1>n. PICK n \in UpBatches : \E dest \in [1..n -> Dests] :
          /\ channel' = Append(channel,
               [event |-> "Data", conn |-> c,
                pkts |-> [i \in 1..n |->
                  [dest |-> dest[i], payload |-> [client |-> c, seq |-> nup[c] + i]]]])
          /\ nup' = [nup EXCEPT ![c] = @ + n]
    BY DEF ClientSends
  <1>1. PICK dest \in [1..n -> Dests] :
          /\ channel' = Append(channel,
               [event |-> "Data", conn |-> c,
                pkts |-> [i \in 1..n |->
                  [dest |-> dest[i], payload |-> [client |-> c, seq |-> nup[c] + i]]]])
          /\ nup' = [nup EXCEPT ![c] = @ + n]
    BY <1>n
  <1>2. PICK pkts : pkts = [i \in 1..n |->
                              [dest |-> dest[i], payload |-> [client |-> c, seq |-> nup[c] + i]]]
    OBVIOUS
  <1>3. PICK m : m = [event |-> "Data", conn |-> c, pkts |-> pkts]
    OBVIOUS
  <1>4. n \in Nat /\ n > 0 /\ nup[c] \in Nat
    BY <1>0 DEF ServerAssumption
  <1>5. /\ pkts \in Seq(Packet) /\ Len(pkts) = n /\ DOMAIN pkts = 1..n /\ pkts # <<>>
        /\ \A i \in 1..n : pkts[i].payload.client = c /\ pkts[i].payload.seq = nup[c] + i
    <2>1. \A i \in 1..n : pkts[i] \in Packet /\ pkts[i].payload.client = c
                            /\ pkts[i].payload.seq = nup[c] + i
      BY <1>2, <1>4 DEF Packet, Payload
    <2>2. DOMAIN pkts = 1..n /\ pkts \in [1..n -> Packet]
      BY <1>2, <2>1
    <2>3. pkts \in Seq(Packet)
      BY <1>4, <2>2
    <2>4. Len(pkts) = n
      BY <1>4, <2>2, <2>3
    <2>5. pkts # <<>>
      BY <1>4, <2>4, EmptySeq
    <2> QED
      BY <2>1, <2>2, <2>3, <2>4, <2>5
  <1>6. m \in ClientMsg /\ m.conn = c /\ m.pkts = pkts /\ m.event = "Data"
    BY <1>3, <1>5 DEF ClientMsg
  <1>7. channel' = Append(channel, m)
    BY <1>1, <1>2, <1>3
  <1>8. Batch(pkts, c)
    <2>1. 1 \in 1..n
      BY <1>4
    <2> QED
      BY <1>4, <1>5, <2>1 DEF Batch
  <1>9. BatchesRun'
    BY <1>0, <1>5, <1>6, <1>7, <1>8, BatchJoins DEF UpInv
  <1>10. InboxKept
    <2> SUFFICES ASSUME NEW e \in Clients, NEW a \in Int,
                        Line(Inbox(channel, up.conn, up.pkts, e), a + 1, nup[e])
                 PROVE  Line(Inbox(channel', up.conn, up.pkts, e), a + 1, nup'[e])
      BY <1>0 DEF InboxKept
    <2>1. CASE e = c
      <3>1. nup'[e] = nup[c] + n
        BY <1>0, <1>1, <2>1
      <3>2. /\ m.pkts[1].payload.seq = nup[c] + 1
            /\ m.pkts[Len(m.pkts)].payload.seq = nup[c] + n
            /\ nup[c] < nup[c] + n /\ nup[c] + n \in Int
        BY <1>4, <1>5, <1>6
      <3>3. PICK lo, hi, hi2, conn, pk :
              lo = a + 1 /\ hi = nup[c] /\ hi2 = nup[c] + n /\ conn = up.conn /\ pk = up.pkts
        OBVIOUS
      <3>4. Line(Inbox(channel, conn, pk, c), lo, hi)
        BY <2>1, <3>3
      <3>5. /\ m.pkts[1].payload.seq = hi + 1 /\ m.pkts[Len(m.pkts)].payload.seq = hi2
            /\ hi < hi2 /\ hi2 \in Int
        BY <3>2, <3>3
      <3>6. Line(Inbox(Append(channel, m), conn, pk, c), lo, hi2)
        BY <1>0, <1>5, <1>6, <3>4, <3>5, InboxSent
      <3> QED
        BY <1>7, <2>1, <3>1, <3>3, <3>6
    <2>2. CASE e # c
      <3>1. nup'[e] = nup[e]
        BY <1>0, <1>1, <2>2
      <3> QED
        BY <1>0, <1>6, <1>7, <2>2, <3>1, InboxOfOthers
    <2> QED
      BY <2>1, <2>2
  <1> QED
    BY <1>0, <1>9, <1>10, ChannelUp

LEMMA ClientClosesUp ==
  ASSUME IInv, IInv', UpInv, NEW c \in Clients, ClientCloses(c)
  PROVE  UpInv'
  <1>0. /\ UNCHANGED <<dials, conns, tasks, dialResultChan>> /\ UNCHANGED <<byClient, sess, up>>
        /\ channel \in Seq(ClientMsg) /\ UNCHANGED nup
    BY DEF ClientCloses, dialerVars, tableVars, IInv, TypeOK, ClientTypeOK
  <1>1. PICK m : m = [event |-> "Close", conn |-> c, pkts |-> <<>>]
    OBVIOUS
  <1>2. m \in ClientMsg /\ m.pkts = <<>> /\ m.event # "Data" /\ channel' = Append(channel, m)
    <2>1. <<>> \in Seq(Packet)
      OBVIOUS
    <2> QED
      BY <1>1, <2>1 DEF ClientCloses, ClientMsg
  <1>3. Batch(m.pkts, m.conn)
    BY <1>2 DEF Batch
  <1>4. BatchesRun'
    BY <1>0, <1>2, <1>3, BatchJoins DEF UpInv
  <1>5. InboxKept
    BY <1>0, <1>2, InboxOfOthers DEF InboxKept
  <1> QED
    BY <1>0, <1>4, <1>5, ChannelUp

LEMMA UpReceiveUp ==
  ASSUME IInv, IInv', UpInv, UpReceive
  PROVE  UpInv'
  <1>0. /\ UNCHANGED <<dials, conns, tasks, dialResultChan, sess, nup>>
        /\ channel \in Seq(ClientMsg) /\ channel # <<>> /\ channel' = Tail(channel)
        /\ up.io = <<>> /\ up.pkts = <<>>
    BY DEF UpReceive, UpIdle, dialerVars, IInv, TypeOK, ClientTypeOK
  <1>1. PICK m : m = Head(channel)
    OBVIOUS
  <1>2. /\ m = channel[1] /\ 1 \in DOMAIN channel /\ m \in ClientMsg
        /\ Batch(m.pkts, m.conn) /\ (m.event = "Data" <=> m.pkts # <<>>)
    <2>1. m = channel[1] /\ 1 \in DOMAIN channel /\ m \in ClientMsg
      BY <1>0, <1>1
    <2> QED
      BY <2>1 DEF UpInv, BatchesRun
  <1>3. /\ up'.pkts = m.pkts
        /\ up'.conn = m.conn \/ m.pkts = <<>>
        /\ up'.io \in Seq(UpIO)
        /\ \A i \in DOMAIN up'.io : up'.io[i].op \notin {"write", "dial"}
        /\ SessionsKept
    <2>1. CASE m.event = "Close"
      <3>1. m.pkts = <<>>
        BY <1>2, <2>1
      <3>2. up' = UpOwes(Orphan(m.conn)) /\ byClient' = Delete(byClient, m.conn)
        BY <1>1, <2>1 DEF UpReceive, PurgeByClient
      <3>3. SessionsKept
        BY <1>0, <3>2 DEF SessionsKept, Delete
      <3>4. /\ up'.pkts = <<>> /\ up'.io = Orphan(m.conn)
        BY <1>0, <3>2 DEF UpOwes
      <3>5. Orphan(m.conn) \in Seq(UpIO)
        BY OrphanType DEF IInv, TypeOK
      <3>6. \A i \in DOMAIN Orphan(m.conn) : Orphan(m.conn)[i].op \notin {"write", "dial"}
        BY DEF Orphan, CloseTask
      <3> QED
        BY <3>1, <3>3, <3>4, <3>5, <3>6
    <2>2. CASE m.event # "Close"
      <3>1. up' = [conn |-> m.conn, pkts |-> m.pkts, io |-> <<>>] /\ UNCHANGED byClient
        BY <1>1, <2>2 DEF UpReceive
      <3>2. up'.io = <<>> /\ up'.pkts = m.pkts /\ up'.conn = m.conn
        BY <3>1
      <3>3. <<>> \in Seq(UpIO) /\ DOMAIN <<>> = {}
        OBVIOUS
      <3>4. SessionsKept
        BY <1>0, <3>1, SessionsSame
      <3> QED
        BY <3>2, <3>3, <3>4
    <2> QED
      BY <2>1, <2>2
  <1>4. TokensSame /\ DialsAdvance /\ OutsSame
    BY <1>0 DEF TokensSame, DialsAdvance, OutsSame
  <1>5. DialOwedSame
    BY <1>0, <1>3 DEF DialOwedSame
  <1>6. QueueKept
    <2>1. PICK r : r = up'.io
      OBVIOUS
    <2>2. r \in Seq(UpIO) /\ \A i \in DOMAIN r : r[i].op # "write"
      BY <1>3, <2>1
    <2> QED
      BY <1>0, <1>4, <2>1, <2>2, QueueJoined
  <1>7. InboxKept
    <2>1. PICK conn2, pkts2, conn : conn2 = up'.conn /\ pkts2 = up'.pkts /\ conn = up.conn
      OBVIOUS
    <2>2. pkts2 = Head(channel).pkts /\ (conn2 = Head(channel).conn \/ pkts2 = <<>>)
      BY <1>1, <1>3, <2>1
    <2>3. \A c, lo, hi : Line(Inbox(channel, conn, <<>>, c), lo, hi)
            => Line(Inbox(Tail(channel), conn2, pkts2, c), lo, hi)
      BY <1>0, <2>2, InboxReceived
    <2> QED
      BY <1>0, <2>1, <2>3 DEF InboxKept
  <1>8. BatchesRun'
    <2>1. \A i \in DOMAIN channel' : i + 1 \in DOMAIN channel /\ channel'[i] = channel[i + 1]
      BY <1>0
    <2>2. Batch(up'.pkts, up'.conn)
      BY <1>2, <1>3 DEF Batch
    <2>3. \A i \in DOMAIN channel' :
            /\ Batch(channel'[i].pkts, channel'[i].conn)
            /\ channel'[i].event = "Data" <=> channel'[i].pkts # <<>>
      BY <2>1 DEF UpInv, BatchesRun
    <2> QED
      BY <2>2, <2>3 DEF BatchesRun
  <1>9. QuietStep
    BY <1>3, <1>4, <1>5, <1>6, <1>7 DEF QuietStep, QueueKept
  <1>10. DialsInOrder' /\ Own(queue, dials)' /\ DialingUnused' /\ PipesLine' /\ Streams'
    BY <1>9, QuietKeeps
  <1>11. ResultsFresh' /\ UpstreamInOrder'
    BY <1>3, <1>4, ResultsStayFresh, WrittenInOrder DEF UpInv
  <1> QED
    BY <1>8, <1>10, <1>11 DEF UpInv

LEMMA DownstreamUp ==
  ASSUME IInv, IInv', UpInv, DownReceive \/ DownCall
  PROVE  UpInv'
  <1>0. UNCHANGED <<dials, conns, tasks, dialResultChan, sess, channel, nup, up>>
    BY DEF DownReceive, DownCall, dialerVars, tableVars, clientVars
  <1>1. TokensSame /\ DialsAdvance /\ OutsSame
    BY <1>0 DEF TokensSame, DialsAdvance, OutsSame
  <1>2. DialOwedSame /\ PacketsSame
    BY <1>0, CallsSame
  <1>3. SessionsKept
    BY <1>0 DEF DownReceive, DownCall, PurgeByDest, tableVars, SessionsKept
  <1>4. QueueKept
    <2>1. queue' = queue
      BY <1>0 DEF queue
    <2> QED
      BY <1>1, <2>1, QueueSame DEF QueueKept
  <1> QED
    BY <1>1, <1>2, <1>3, <1>4, QuietUp

(***************************************************************************)
(* Upstream: admitUpstream                                                 *)
(***************************************************************************)

\* One call more is one call appended.
LEMMA OneCall ==
  ASSUME NEW T, NEW s \in Seq(T), NEW t \in T
  PROVE  /\ <<t>> \in Seq(T) /\ DOMAIN <<t>> = {1} /\ <<t>>[1] = t
         /\ s \o <<t>> = Append(s, t)
  <1>1. /\ <<t>> \in Seq(T) /\ DOMAIN <<t>> = {1} /\ <<t>>[1] = t
    OBVIOUS
  <1>2. Len(s) \in Nat /\ DOMAIN s = 1..Len(s)
    OBVIOUS
  <1>3. /\ s \o <<t>> \in Seq(T) /\ Append(s, t) \in Seq(T)
        /\ Len(s \o <<t>>) = Len(s) + 1 /\ Len(Append(s, t)) = Len(s) + 1
    BY <1>1
  <1>4. ASSUME NEW i \in 1..(Len(s) + 1)
        PROVE  (s \o <<t>>)[i] = Append(s, t)[i]
    BY <1>1, <1>2
  <1> QED
    BY <1>1, <1>3, <1>4, SeqEqual

\* An element of a joined sequence is from one of its parts.
LEMMA JoinedFrom ==
  ASSUME NEW T, NEW s \in Seq(T), NEW r \in Seq(T)
  PROVE  \A i \in DOMAIN (s \o r) : \/ i \in DOMAIN s /\ (s \o r)[i] = s[i]
                                    \/ \E j \in DOMAIN r : (s \o r)[i] = r[j]
  <1>1. /\ Len(s) \in Nat /\ Len(r) \in Nat /\ DOMAIN s = 1..Len(s) /\ DOMAIN r = 1..Len(r)
        /\ DOMAIN (s \o r) = 1..(Len(s) + Len(r))
    BY LenProperties, ConcatProperties
  <1>2. ASSUME NEW i \in 1..(Len(s) + Len(r)), i \notin 1..Len(s)
        PROVE  i - Len(s) \in 1..Len(r) /\ Len(s) + (i - Len(s)) = i
    BY <1>1, <1>2
  <1> QED
    BY <1>1, <1>2, ConcatProperties

\* And every element of a part is in the whole.
LEMMA JoinedHas ==
  ASSUME NEW T, NEW s \in Seq(T), NEW r \in Seq(T)
  PROVE  /\ \A i \in DOMAIN s : i \in DOMAIN (s \o r) /\ (s \o r)[i] = s[i]
         /\ \A j \in DOMAIN r : \E i \in DOMAIN (s \o r) : (s \o r)[i] = r[j]
  <1>1. /\ Len(s) \in Nat /\ Len(r) \in Nat /\ DOMAIN s = 1..Len(s) /\ DOMAIN r = 1..Len(r)
        /\ DOMAIN (s \o r) = 1..(Len(s) + Len(r))
    BY LenProperties, ConcatProperties
  <1>2. \A i \in 1..Len(s) : i \in 1..(Len(s) + Len(r))
    BY <1>1
  <1>3. \A j \in 1..Len(r) : Len(s) + j \in 1..(Len(s) + Len(r))
    BY <1>1
  <1>4. /\ \A i \in 1..Len(s) : (s \o r)[i] = s[i]
        /\ \A j \in 1..Len(r) : (s \o r)[Len(s) + j] = r[j]
    BY ConcatProperties
  <1>5. \A j \in DOMAIN r : \E i \in DOMAIN (s \o r) : (s \o r)[i] = r[j]
    BY <1>1, <1>3, <1>4, Zenon
  <1> QED
    BY <1>1, <1>2, <1>4, <1>5

\* The packet at hand is the next of its client, and leaves the inbox.
LEMMA PacketTaken ==
  ASSUME IInv, UpInv, up.pkts # <<>>, UNCHANGED <<channel, nup>>,
         up'.conn = up.conn, up'.pkts = Tail(up.pkts), NEW c, c = up.conn,
         NEW p, p = Head(up.pkts).payload
  PROVE  /\ c \in Clients /\ p \in Payload /\ p.client = c
         /\ Head(up.pkts) \in Packet
         /\ BatchesRun'
         /\ \E a \in Nat :
              /\ p.seq = a + 1
              /\ Line(Inbox(channel', up'.conn, up'.pkts, c), (a + 1) + 1, nup'[c])
              /\ c \in DOMAIN byClient => Kept(c, a)
         /\ \A e \in Clients \ {c} :
              Inbox(channel', up'.conn, up'.pkts, e) = Inbox(channel, up.conn, up.pkts, e)
  <1>0. /\ up.pkts \in Seq(Packet) /\ c \in Clients /\ channel \in Seq(ClientMsg)
        /\ Batch(up.pkts, c) /\ BatchesRun
    BY DEF IInv, TypeOK, GoroutineTypeOK, Goroutine, ClientTypeOK, UpInv, BatchesRun
  <1>1. Head(up.pkts) \in Packet
    BY <1>0
  <1>2. p \in Payload
    BY <1>1 DEF Packet
  <1>3. PICK a \in Nat : /\ Line(Inbox(channel, up.conn, up.pkts, c), a + 1, nup[c])
                         /\ c \in DOMAIN byClient => Kept(c, a)
    BY <1>0 DEF UpInv, Streams
  <1>4. /\ Line(Inbox(channel, c, Tail(up.pkts), c), (a + 1) + 1, nup[c])
        /\ p.seq = a + 1 /\ p.client = c
        /\ Batch(Tail(up.pkts), c)
    <2>1. PICK pkts, lo, hi : pkts = up.pkts /\ lo = a + 1 /\ hi = nup[c]
      OBVIOUS
    <2>2. pkts \in Seq(Packet) /\ pkts # <<>> /\ Batch(pkts, c) /\ Line(Inbox(channel, c, pkts, c), lo, hi)
      BY <1>0, <1>3, <2>1
    <2>3. /\ Line(Inbox(channel, c, Tail(pkts), c), lo + 1, hi)
          /\ Head(pkts).payload.seq = lo /\ Head(pkts).payload.client = c
          /\ Batch(Tail(pkts), c)
      BY <1>0, <2>2, InboxTaken
    <2> QED
      BY <2>1, <2>3
  <1>5. BatchesRun'
    BY <1>0, <1>4 DEF BatchesRun
  <1>6. \A e \in Clients \ {c} :
          Inbox(channel', up'.conn, up'.pkts, e) = Inbox(channel, up.conn, up.pkts, e)
    BY InboxElse
  <1> QED
    BY <1>0, <1>1, <1>2, <1>3, <1>4, <1>5, <1>6

\* The session of the client answers for one packet more; the sessions of
\* the others for as many as before.
LEMMA StreamsAdmit ==
  ASSUME IInv, UpInv, up.pkts # <<>>, UNCHANGED <<channel, nup>>,
         up'.conn = up.conn, up'.pkts = Tail(up.pkts), NEW c, c = up.conn,
         NEW p, p = Head(up.pkts).payload,
         \A a \in Nat : p.seq = a + 1 /\ (c \in DOMAIN byClient => Kept(c, a)) => Kept(c, a + 1)',
         \A e \in DOMAIN byClient' : e # c => e \in DOMAIN byClient,
         \A e \in DOMAIN byClient \ {c}, a \in Nat : Kept(e, a) => Kept(e, a)'
  PROVE  Streams'
  <1>0. /\ c \in Clients
        /\ \E a \in Nat :
              /\ p.seq = a + 1
              /\ Line(Inbox(channel', up'.conn, up'.pkts, c), (a + 1) + 1, nup'[c])
              /\ c \in DOMAIN byClient => Kept(c, a)
        /\ \A e \in Clients \ {c} :
              Inbox(channel', up'.conn, up'.pkts, e) = Inbox(channel, up.conn, up.pkts, e)
    BY PacketTaken
  <1> SUFFICES ASSUME NEW e \in Clients
               PROVE  \E b \in Nat :
                        /\ Line(Inbox(channel', up'.conn, up'.pkts, e), b + 1, nup'[e])
                        /\ e \in DOMAIN byClient' => Kept(e, b)'
    BY DEF Streams
  <1>1. CASE e = c
    <2>1. PICK a \in Nat :
              /\ p.seq = a + 1
              /\ Line(Inbox(channel', up'.conn, up'.pkts, c), (a + 1) + 1, nup'[c])
              /\ c \in DOMAIN byClient => Kept(c, a)
      BY <1>0
    <2>2. Kept(c, a + 1)' /\ a + 1 \in Nat
      BY <2>1
    <2> QED
      BY <1>1, <2>1, <2>2
  <1>2. CASE e # c
    <2>1. PICK a \in Nat : /\ Line(Inbox(channel, up.conn, up.pkts, e), a + 1, nup[e])
                           /\ e \in DOMAIN byClient => Kept(e, a)
      BY DEF UpInv, Streams
    <2>2. Line(Inbox(channel', up'.conn, up'.pkts, e), a + 1, nup'[e])
      BY <1>0, <1>2, <2>1
    <2>3. e \in DOMAIN byClient' => Kept(e, a)'
      BY <1>2, <2>1
    <2> QED
      BY <2>1, <2>2, <2>3
  <1> QED
    BY <1>1, <1>2

\* Two clients have two sessions.
LEMMA OtherSessions ==
  ASSUME IInv, NEW c \in DOMAIN byClient, NEW e \in DOMAIN byClient, e # c
  PROVE  byClient[e] # byClient[c] /\ byClient[e] \in DOMAIN sess
  BY DEF IInv, Core, OwnSession, TypeOK, TableTypeOK

LEMMA AdmitQueuedUp ==
  ASSUME IInv, IInv', UpInv, up.io = <<>>, up.pkts # <<>>,
         AdmitQueued(up.conn, Head(up.pkts)), UNCHANGED <<dialerVars, clientVars>>
  PROVE  UpInv'
  <1>0. /\ UNCHANGED <<dials, conns, tasks, dialResultChan, channel, nup, byClient>>
        /\ up' = UpNext(<<>>) /\ up'.io = up.io /\ up'.conn = up.conn /\ up'.pkts = Tail(up.pkts)
    BY DEF AdmitQueued, dialerVars, clientVars, UpNext
  <1>1. PICK c, p, s : c = up.conn /\ p = Head(up.pkts).payload /\ s = byClient[c]
    OBVIOUS
  <1>2. c \in Clients /\ p \in Payload /\ p.client = c /\ BatchesRun'
    BY <1>0, <1>1, PacketTaken
  <1>3. /\ c \in DOMAIN byClient /\ s \in DOMAIN sess /\ sess[s].dialing
        /\ sess' = SessQueued(s, p) /\ sess \in Seq(Session)
    BY <1>1, ConnsType DEF AdmitQueued, SameDest, Dialing, IInv, TypeOK, TableTypeOK
  <1>4. /\ DOMAIN sess' = DOMAIN sess
        /\ \A t \in DOMAIN sess : sess'[t].dialing = sess[t].dialing
                                   /\ (t # s => sess'[t].pending = sess[t].pending)
        /\ sess'[s].pending = Append(sess[s].pending, p)
    <2>1. SessShape(SessQueued(s, p), s, sess[s].destConn, sess[s].dialing)
      BY <1>2, <1>3, SessQueuedShape
    <2>2. SessQueued(s, p)[s].pending = Append(sess[s].pending, p)
      BY <1>3 DEF SessQueued
    <2> QED
      BY <1>3, <2>1, <2>2 DEF SessShape
  <1>5. queue' = queue
    BY <1>0 DEF queue
  <1>6. TokensSame /\ OutsSame
    BY <1>0 DEF TokensSame, OutsSame
  <1>7. PipesKept
    BY <1>5, <1>6, QueueSame
  <1>8. DialsInOrder'
    <2>1. Len(sess') = Len(sess)
      BY <1>3, <1>4, NextTypes
    <2> QED
      BY <1>0, <2>1 DEF UpInv, DialsInOrder
  <1>9. Own(queue, dials)' /\ UpstreamInOrder'
    BY <1>0, <1>5 DEF UpInv, UpstreamInOrder
  <1>10. DialingUnused'
    <2>1. \A d \in DOMAIN dials : d \in DOMAIN sess
      BY SessionNumbers DEF UpInv
    <2> QED
      BY <1>0, <1>4, <1>5, <2>1 DEF UpInv, DialingUnused
  <1>11. ResultsFresh'
    <2>1. DOMAIN dials \subseteq DOMAIN sess
      BY SessionNumbers DEF UpInv
    <2>2. \A i \in DOMAIN dialResultChan : dialResultChan[i].conn \in DOMAIN sess
      BY <2>1 DEF IInv, Core, DialsAgree
    <2> QED
      BY <1>0, <1>4, <2>1, <2>2 DEF UpInv, ResultsFresh
  <1>12. PipesLine'
    BY <1>0, <1>7, PipesStayLines DEF UpInv
  <1>13. ASSUME NEW a \in Nat, p.seq = a + 1, Kept(c, a)
         PROVE  Kept(c, a + 1)'
    <2>1. PICK q : q = sess[s].pending
      OBVIOUS
    <2>2. q \in Seq(Payload) /\ PendingTo(q, c, a)
      BY <1>1, <1>3, <1>13, <2>1, SessFields DEF Kept
    <2>3. PendingTo(Append(q, p), c, a + 1)
      <3>1. /\ Len(q) \in Nat /\ DOMAIN q = 1..Len(q) /\ Len(Append(q, p)) = Len(q) + 1
            /\ DOMAIN Append(q, p) = 1..(Len(q) + 1) /\ Append(q, p)[Len(q) + 1] = p
            /\ \A i \in 1..Len(q) : Append(q, p)[i] = q[i]
        BY <2>2
      <3>2. ASSUME NEW i \in 1..(Len(q) + 1)
            PROVE  /\ Append(q, p)[i].client = c
                   /\ Append(q, p)[i].seq = a + 1 - (Len(q) + 1) + i
        <4>1. CASE i \in 1..Len(q)
          <5>1. q[i].client = c /\ q[i].seq = a - Len(q) + i
            BY <2>2, <3>1, <4>1 DEF PendingTo
          <5> QED
            BY <3>1, <4>1, <5>1
        <4>2. CASE i = Len(q) + 1
          <5>1. Append(q, p)[i] = p
            BY <3>1, <4>2
          <5>2. p.client = c /\ p.seq = a + 1
            BY <1>2, <1>13
          <5>3. a + 1 - (Len(q) + 1) + i = a + 1
            BY <1>2, <3>1, <4>2
          <5> QED
            BY <5>1, <5>2, <5>3
        <4> QED
          BY <3>1, <4>1, <4>2
      <3> QED
        BY <3>1, <3>2, SMTT(30) DEF PendingTo
    <2> QED
      BY <1>0, <1>1, <1>3, <1>4, <2>1, <2>3 DEF Kept
  <1>14. ASSUME NEW e \in DOMAIN byClient \ {c}, NEW a \in Nat, Kept(e, a)
         PROVE  Kept(e, a)'
    <2>1. PICK t : t = byClient[e]
      OBVIOUS
    <2>2. t # s /\ t \in DOMAIN sess
      BY <1>1, <1>3, <2>1, OtherSessions
    <2> QED
      BY <1>0, <1>4, <1>7, <1>14, <2>1, <2>2, KeptStays DEF PipesKept
  <1>15. Streams'
    BY <1>0, <1>1, <1>3, <1>13, <1>14, StreamsAdmit
  <1> QED
    BY <1>2, <1>8, <1>9, <1>10, <1>11, <1>12, <1>15 DEF UpInv

LEMMA AdmitForwardUp ==
  ASSUME IInv, IInv', UpInv, RoutesOwn, up.io = <<>>, up.pkts # <<>>,
         AdmitForward(up.conn, Head(up.pkts)), UNCHANGED <<dialerVars, clientVars>>
  PROVE  UpInv'
  <1>0. UNCHANGED <<dials, conns, tasks, dialResultChan, channel, nup, byClient, byDest, sess>>
    BY DEF AdmitForward, dialerVars, clientVars
  <1>1. PICK c, p, s : c = up.conn /\ p = Head(up.pkts).payload /\ s = byClient[c]
    OBVIOUS
  <1>2. PICK t : t = WriteTask(s, p)
    OBVIOUS
  <1>3. /\ c \in DOMAIN byClient /\ s \in DOMAIN sess /\ ~sess[s].dialing
        /\ sess[s].destConn = s /\ s \in DOMAIN dials /\ s \in DOMAIN conns
        /\ dials[s].token.client = c
    <2>1. c \in DOMAIN byClient /\ s \in DOMAIN sess /\ ~sess[s].dialing
      BY <1>1 DEF AdmitForward, SameDest, Dialing, IInv, TypeOK, TableTypeOK
    <2>2. sess[s].destConn # NoConn
      BY <1>1, <2>1 DEF IInv, Core, ReadyMeansBound
    <2>3. sess[s].destConn = s /\ s \in DOMAIN dials
      BY <2>1, <2>2, SessionNumbers DEF UpInv
    <2>4. s \in DOMAIN byDest /\ byDest[s] = c
      BY <1>1, <2>1, <2>2, <2>3 DEF IInv, Core, RouteConsistent
    <2>5. dials[s].token.client = c
      BY <2>4 DEF RoutesOwn
    <2> QED
      BY <2>1, <2>3, <2>5, ConnsType
  <1>4. /\ up' = UpNext(<<t>>) /\ up'.io = <<t>>
        /\ up'.conn = up.conn /\ up'.pkts = Tail(up.pkts)
    <2>1. up' = UpNext(<<t>>)
      BY <1>1, <1>2, <1>3 DEF AdmitForward
    <2> QED
      BY <2>1 DEF UpNext
  <1>5. c \in Clients /\ p \in Payload /\ p.client = c /\ BatchesRun'
    BY <1>0, <1>1, <1>4, PacketTaken
  <1>6. PICK q : q = tasks
    OBVIOUS
  <1>7. /\ q \in Seq(UpIO) /\ t \in UpIO /\ queue = q /\ queue' = Append(q, t)
        /\ t.op = "write" /\ t.conn = s /\ t.payload = p
    <2>1. q \in Seq(UpIO) /\ queue = q
      BY <1>6, QueueType DEF queue
    <2>2. t \in UpIO
      <3>1. s \in ConnIds
        BY <1>3, ConnsType DEF ConnIds, NoConn
      <3> QED
        BY <1>2, <1>5, <3>1 DEF WriteTask, UpIO, Task
    <2>3. queue' = q \o <<t>>
      BY <1>0, <1>4, <1>6 DEF queue
    <2>4. q \o <<t>> = Append(q, t)
      BY <2>1, <2>2, OneCall
    <2> QED
      BY <1>2, <2>1, <2>2, <2>3, <2>4 DEF WriteTask
  <1>8. ASSUME NEW d, d # s
        PROVE  /\ Writes(Append(q, t), d) = Writes(q, d)
               /\ \A out : Pipe(out, Append(q, t), d) = Pipe(out, q, d)
    <2>0. <<t>> \in Seq(UpIO) /\ q \o <<t>> = Append(q, t)
      BY <1>7, OneCall
    <2>1. PICK r \in Seq(UpIO) : r = <<t>> /\ q \o r = Append(q, t)
      BY <2>0
    <2>2. \A i \in DOMAIN r : ~(r[i].op = "write" /\ r[i].conn = d)
      BY <1>7, <1>8, <2>1, OneCall
    <2>3. Writes(q \o r, d) = Writes(q, d)
      BY <1>7, <2>2, PipeJoined
    <2>4. ASSUME NEW out
          PROVE  Pipe(out, q \o r, d) = Pipe(out, q, d)
      BY <1>7, <2>2, PipeJoined
    <2> QED
      BY <2>1, <2>3, <2>4
  <1>9. \A d \in DOMAIN conns \ {s} : PipeKept(d)
    BY <1>0, <1>7, <1>8 DEF PipeKept
  <1>10. ASSUME NEW lo \in Int, NEW hi \in Int, p.seq = hi + 1, NEW out \in Seq(Payload),
                Line(Pipe(out, q, s), lo, hi)
         PROVE  Line(Pipe(out, Append(q, t), s), lo, hi + 1)
    BY <1>7, <1>10, PipeAppended
  <1>11. PICK a \in Nat : p.seq = a + 1 /\ Kept(c, a)
    BY <1>0, <1>1, <1>3, <1>4, PacketTaken
  <1>12. DialsInOrder'
    <2>1. \A i \in DOMAIN up'.io : up'.io[i].op # "dial"
      BY <1>4, <1>7
    <2>2. \A i \in DOMAIN up.io : up.io[i].op # "dial"
      OBVIOUS
    <2> QED
      BY <1>0, <2>1, <2>2 DEF UpInv, DialsInOrder
  <1>13. Own(queue, dials)'
    <2>1. \A i \in DOMAIN Append(q, t) : (i \in DOMAIN q /\ Append(q, t)[i] = q[i]) \/ Append(q, t)[i] = t
      BY <1>7
    <2>2. Own(q, dials)
      BY <1>7 DEF UpInv
    <2>3. Own(Append(q, t), dials)
      BY <1>3, <1>5, <1>7, <2>1, <2>2 DEF Own
    <2> QED
      BY <1>0, <1>7, <2>3
  <1>14. DialingUnused'
    <2> SUFFICES ASSUME NEW d \in DOMAIN dials, sess[d].dialing
                 PROVE  conns[d].out = <<>> /\ Writes(Append(q, t), d) = {}
      BY <1>0, <1>7 DEF DialingUnused, Unused
    <2>1. d # s
      BY <1>3
    <2> QED
      BY <1>7, <1>8, <2>1 DEF UpInv, DialingUnused, Unused
  <1>15. ResultsFresh' /\ UpstreamInOrder'
    BY <1>0 DEF UpInv, ResultsFresh, UpstreamInOrder
  <1>16. PipesLine'
    <2> SUFFICES ASSUME NEW d \in DOMAIN conns, conns[d].st # "closed"
                 PROVE  \E lo, hi \in Int : Line(Pipe(conns[d].out, Append(q, t), d), lo, hi)
      BY <1>0, <1>7 DEF PipesLine
    <2>1. CASE d # s
      BY <1>7, <1>8, <2>1 DEF UpInv, PipesLine
    <2>2. CASE d = s
      <3>1. PICK lo \in Int : Line(Pipe(conns[s].out, queue, s), lo, a)
        BY <1>1, <1>3, <1>11, <2>2 DEF Kept
      <3>2. a \in Int /\ a + 1 \in Int /\ conns[s].out \in Seq(Payload)
        BY <1>3, ConnsType
      <3>3. Line(Pipe(conns[s].out, Append(q, t), s), lo, a + 1)
        BY <1>7, <1>10, <1>11, <3>1, <3>2
      <3> QED
        BY <2>2, <3>2, <3>3
    <2> QED
      BY <2>1, <2>2
  <1>17. ASSUME NEW b \in Nat, p.seq = b + 1, Kept(c, b)
         PROVE  Kept(c, b + 1)'
    <2>1. ASSUME conns[s].st # "closed"
          PROVE  \E lo \in Int : lo <= b + 1 /\ Line(Pipe(conns[s].out, Append(q, t), s), lo, b + 1)
      <3>1. PICK lo \in Int : lo <= b /\ Line(Pipe(conns[s].out, queue, s), lo, b)
        BY <1>1, <1>3, <1>17, <2>1 DEF Kept
      <3>2. b \in Int /\ conns[s].out \in Seq(Payload) /\ lo <= b + 1
        BY <1>3, <3>1, ConnsType
      <3>3. Line(Pipe(conns[s].out, Append(q, t), s), lo, b + 1)
        BY <1>7, <1>10, <1>17, <3>1, <3>2
      <3> QED
        BY <3>2, <3>3
    <2> QED
      BY <1>0, <1>1, <1>3, <1>7, <2>1 DEF Kept
  <1>18. ASSUME NEW e \in DOMAIN byClient \ {c}, NEW b \in Nat, Kept(e, b)
         PROVE  Kept(e, b)'
    <2>1. PICK u : u = byClient[e]
      OBVIOUS
    <2>2. u # s /\ u \in DOMAIN sess
      BY <1>1, <1>3, <2>1, OtherSessions
    <2> QED
      BY <1>0, <1>9, <1>18, <2>1, <2>2, KeptStays
  <1>19. Streams'
    BY <1>0, <1>1, <1>3, <1>4, <1>17, <1>18, StreamsAdmit
  <1> QED
    BY <1>5, <1>12, <1>13, <1>14, <1>15, <1>16, <1>19 DEF UpInv

\* Without a write nothing is addressed that was not.
LEMMA WritesStayOwn ==
  ASSUME NoNewWrites, TokensSame, Own(queue, dials)
  PROVE  Own(queue, dials)'
  BY DEF NoNewWrites, TokensSame, Own

LEMMA AdmitDialUp ==
  ASSUME IInv, IInv', UpInv, up.io = <<>>, up.pkts # <<>>,
         AdmitDial(up.conn, Head(up.pkts)), UNCHANGED <<dialerVars, clientVars>>
  PROVE  UpInv'
  <1>0. UNCHANGED <<dials, conns, tasks, dialResultChan, channel, nup>>
    BY DEF dialerVars, clientVars
  <1>1. PICK c, pkt, p, n : /\ c = up.conn /\ pkt = Head(up.pkts)
                            /\ p = pkt.payload /\ n = Len(sess) + 1
    OBVIOUS
  <1>2. PICK t, r : t = DialCall([client |-> c, session |-> n]) /\ r = Append(Orphan(c), t)
    OBVIOUS
  <1>3. /\ sess' = Append(sess, NewSession(pkt.dest, p))
        /\ byClient' = Put(byClient, c, n)
        /\ up' = UpNext(r) /\ up'.io = r /\ up'.conn = up.conn /\ up'.pkts = Tail(up.pkts)
    <2>1. /\ sess' = Append(sess, NewSession(pkt.dest, p))
          /\ byClient' = Put(byClient, c, n) /\ up' = UpNext(r)
      BY <1>1, <1>2 DEF AdmitDial
    <2> QED
      BY <2>1 DEF UpNext
  <1>4. c \in Clients /\ p \in Payload /\ p.client = c /\ BatchesRun' /\ pkt \in Packet
    BY <1>0, <1>1, <1>3, PacketTaken
  <1>5. /\ sess \in Seq(Session) /\ Len(sess) \in Nat /\ DOMAIN sess = 1..Len(sess)
        /\ n \in ConnIds /\ n \notin DOMAIN sess
        /\ DOMAIN byClient \subseteq Clients
        /\ \A e \in DOMAIN byClient : byClient[e] \in DOMAIN sess
    BY <1>1 DEF IInv, TypeOK, TableTypeOK, ConnIds, NoConn
  <1>6. /\ DOMAIN sess' = DOMAIN sess \cup {n} /\ Len(sess') = n
        /\ \A s \in DOMAIN sess : sess'[s] = sess[s]
        /\ sess'[n].dialing = TRUE /\ sess'[n].pending = <<p>>
    <2>1. PICK v : v = NewSession(pkt.dest, p)
      OBVIOUS
    <2>2. v.dialing = TRUE /\ v.pending = <<p>>
      BY <2>1 DEF NewSession
    <2>3. /\ DOMAIN Append(sess, v) = DOMAIN sess \cup {n} /\ Len(Append(sess, v)) = n
          /\ \A s \in DOMAIN sess : Append(sess, v)[s] = sess[s]
          /\ Append(sess, v)[n] = v
      <3>1. Append(sess, v) \in Seq(Session \cup {v}) /\ sess \in Seq(Session \cup {v})
        BY <1>5, SeqMonotonic, AppendProperties
      <3> QED
        BY <1>1, <1>5, <3>1
    <2> QED
      BY <1>3, <2>1, <2>2, <2>3
  <1>7. /\ t.op = "dial" /\ t.token.session = n /\ t \in UpIO
        /\ Orphan(c) \in Seq(UpIO) /\ \A i \in DOMAIN Orphan(c) : Orphan(c)[i].op = "close"
    <2>1. t.op = "dial" /\ t.token.session = n /\ t \in UpIO
      BY <1>2, <1>4, <1>5 DEF DialCall, UpIO, Token
    <2>2. \A i \in DOMAIN Orphan(c) : Orphan(c)[i].op = "close"
      BY DEF Orphan, CloseTask
    <2> QED
      BY <2>1, <2>2, OrphanType DEF IInv, TypeOK
  <1>8. /\ r \in Seq(UpIO) /\ \A i \in DOMAIN r : r[i].op \in {"close", "dial"}
        /\ \A i \in DOMAIN r : r[i].op = "dial" => r[i] = t
        /\ \E i \in DOMAIN r : r[i].op = "dial"
    <2>1. PICK o : o = Orphan(c)
      OBVIOUS
    <2>2. /\ o \in Seq(UpIO) /\ \A i \in DOMAIN o : o[i].op = "close"
          /\ r = Append(o, t)
      BY <1>2, <1>7, <2>1
    <2>3. /\ r \in Seq(UpIO) /\ DOMAIN r = DOMAIN o \cup {Len(o) + 1} /\ r[Len(o) + 1] = t
          /\ \A i \in DOMAIN o : r[i] = o[i]
      BY <1>7, <2>2
    <2> QED
      BY <1>7, <2>2, <2>3
  <1>9. TokensSame /\ OutsSame
    BY <1>0, DialsSame
  <1>10. QueueKept
    BY <1>0, <1>3, <1>8, <1>9, QueueJoined
  <1>11. Len(sess) = Len(dials) /\ DOMAIN dials = DOMAIN sess /\ Len(dials) \in Nat
    <2>1. \A i \in DOMAIN up.io : up.io[i].op # "dial"
      OBVIOUS
    <2>2. Len(sess) = Len(dials)
      BY <2>1 DEF UpInv, DialsInOrder
    <2> QED
      BY <1>5, <2>2, ConnsType
  <1>12. DialsInOrder'
    <2>1. \A d \in DOMAIN dials : dials[d].token.session = d
      BY DEF UpInv, DialsInOrder
    <2>2. n = Len(dials) + 1
      BY <1>1, <1>11
    <2>3. Len(sess') <= Len(dials) + 1
      BY <1>5, <1>6, <1>11, <2>2
    <2>4. \A i \in DOMAIN up'.io : up'.io[i].op = "dial" => up'.io[i].token.session = Len(dials) + 1
      BY <1>3, <1>7, <1>8, <2>2
    <2>5. ~ \A i \in DOMAIN up'.io : up'.io[i].op # "dial"
      BY <1>3, <1>8
    <2> QED
      BY <1>0, <2>1, <2>3, <2>4, <2>5 DEF DialsInOrder
  <1>13. Own(queue, dials)'
    BY <1>9, <1>10, WritesStayOwn DEF QueueKept, UpInv
  <1>14. DialingUnused'
    <2> SUFFICES ASSUME NEW d \in DOMAIN dials, sess'[d].dialing
                 PROVE  conns[d].out = <<>> /\ Writes(queue', d) = {}
      BY <1>0 DEF DialingUnused, Unused
    <2>1. sess[d].dialing
      BY <1>6, <1>11
    <2>2. conns[d].out = <<>> /\ Writes(queue, d) = {}
      BY <2>1 DEF UpInv, DialingUnused, Unused
    <2>3. \A i \in DOMAIN queue : ~(queue[i].op = "write" /\ queue[i].conn = d)
      BY <2>2 DEF Writes
    <2> QED
      BY <1>10, <2>2, <2>3 DEF QueueKept, NoNewWrites, Writes
  <1>15. ResultsFresh'
    <2>1. \A i \in DOMAIN dialResultChan : dialResultChan[i].conn \in DOMAIN dials
      BY DEF IInv, Core, DialsAgree
    <2>2. \A s \in DOMAIN sess : sess'[s].dialing = sess[s].dialing
      BY <1>6
    <2>3. \A s \in DOMAIN sess' : s \notin DOMAIN dials => sess'[s].dialing
      BY <1>6, <1>11
    <2> QED
      BY <1>0, <1>11, <2>1, <2>2, <2>3 DEF UpInv, ResultsFresh
  <1>16. PipesLine' /\ UpstreamInOrder'
    <2>1. UpstreamInOrder'
      BY <1>0 DEF UpInv, UpstreamInOrder
    <2> QED
      BY <1>0, <1>10, <2>1, PipesStayLines DEF UpInv, QueueKept
  <1>17. ASSUME NEW a \in Nat, p.seq = a + 1
         PROVE  Kept(c, a + 1)'
    <2>1. byClient'[c] = n
      BY <1>3 DEF Put
    <2>2. PendingTo(<<p>>, c, a + 1)
      BY <1>4, <1>17 DEF PendingTo
    <2> QED
      BY <1>6, <2>1, <2>2 DEF Kept
  <1>18. \A e \in DOMAIN byClient' : e # c => e \in DOMAIN byClient /\ byClient'[e] = byClient[e]
    BY <1>3 DEF Put
  <1>19. ASSUME NEW e \in DOMAIN byClient \ {c}, NEW a \in Nat, Kept(e, a)
         PROVE  Kept(e, a)'
    <2>1. PICK s : s = byClient[e]
      OBVIOUS
    <2>2. s \in DOMAIN sess /\ byClient'[e] = s
      BY <1>3, <1>5, <2>1 DEF Put
    <2>3. s \in DOMAIN conns => PipeKept(s)
      BY <1>10 DEF QueueKept, PipesKept
    <2>4. sess'[s].dialing = sess[s].dialing /\ sess'[s].pending = sess[s].pending
      BY <1>6, <2>2
    <2> QED
      BY <1>19, <2>1, <2>2, <2>3, <2>4, KeptStays
  <1>20. Streams'
    BY <1>0, <1>1, <1>3, <1>17, <1>18, <1>19, StreamsAdmit
  <1> QED
    BY <1>4, <1>12, <1>13, <1>14, <1>15, <1>16, <1>20 DEF UpInv

LEMMA UpAdmitUp ==
  ASSUME IInv, IInv', UpInv, SafetyInv, UpAdmit
  PROVE  UpInv'
  <1>1. up.io = <<>> /\ up.pkts # <<>> /\ UNCHANGED <<dialerVars, clientVars>>
    BY DEF UpAdmit
  <1>2. CASE AdmitQueued(up.conn, Head(up.pkts))
    BY <1>1, <1>2, AdmitQueuedUp
  <1>3. CASE AdmitForward(up.conn, Head(up.pkts))
    BY <1>1, <1>3, AdmitForwardUp DEF SafetyInv
  <1>4. CASE AdmitDial(up.conn, Head(up.pkts))
    BY <1>1, <1>4, AdmitDialUp
  <1> QED
    BY <1>2, <1>3, <1>4 DEF UpAdmit

(***************************************************************************)
(* Upstream: the calls, and the dial results                               *)
(***************************************************************************)

\* The dial at the head of the calls is the last of them.
LEMMA DialIsLast ==
  ASSUME IInv, up.io # <<>>, Head(up.io).op = "dial"
  PROVE  /\ queue = tasks \o up.io /\ Tail(up.io) = <<>>
         /\ OneMore(tasks, queue, Len(tasks) + 1) /\ queue[Len(tasks) + 1] = Head(up.io)
  <1>1. PICK u : u = up.io
    OBVIOUS
  <1>2. u \in Seq(UpIO) /\ u # <<>> /\ Len(u) \in Nat /\ 1 \in DOMAIN u /\ u[1] = Head(u)
    BY <1>1, QueueType
  <1>3. Len(u) = 1
    <2>1. 1 \in DOMAIN up.io /\ up.io[1].op = "dial"
      BY <1>1, <1>2
    <2>2. 1 = Len(up.io)
      BY <2>1 DEF IInv, Core, CallsFresh
    <2> QED
      BY <1>1, <2>2
  <1>4. Tail(u) = <<>>
    <2>1. Tail(u) \in Seq(UpIO) /\ Len(Tail(u)) = 0
      BY <1>2, <1>3, HeadTailProperties
    <2> QED
      BY <2>1, EmptySeq
  <1>5. /\ Len(tasks) \in Nat /\ tasks \in Seq(UpIO)
        /\ Len(queue) = Len(tasks) + 1
        /\ \A i \in 1..Len(tasks) : queue[i] = tasks[i]
        /\ queue[Len(tasks) + 1] = u[1]
    BY <1>1, <1>2, <1>3, QueueType
  <1>6. OneMore(tasks, queue, Len(tasks) + 1)
    BY <1>5 DEF OneMore
  <1> QED
    BY <1>1, <1>2, <1>4, <1>5, <1>6 DEF queue

LEMMA DialStartedUp ==
  ASSUME IInv, IInv', UpInv, up.io # <<>>, Head(up.io).op = "dial",
         up' = UpOwes(Tail(up.io)), AsyncDial(Head(up.io).token),
         UNCHANGED <<tableVars, clientVars, down>>
  PROVE  UpInv'
  <1>0. /\ UNCHANGED <<tasks, dialResultChan, channel, nup, byClient, sess>>
        /\ up'.io = <<>> /\ up'.conn = up.conn /\ up'.pkts = up.pkts
    BY DialIsLast DEF AsyncDial, tableVars, clientVars, UpOwes
  <1>1. PICK call, m, n, q : /\ call = Head(up.io) /\ m = Len(tasks) + 1 /\ n = Len(dials) + 1
                             /\ q = queue
    OBVIOUS
  <1>2. /\ OneMore(tasks, q, m) /\ q[m] = call /\ call.op = "dial"
        /\ tasks \in Seq(UpIO) /\ q \in Seq(UpIO)
    BY <1>1, DialIsLast, QueueType
  <1>3. queue' = tasks
    <2>1. queue' = tasks \o <<>>
      BY <1>0 DEF queue
    <2> QED
      BY <1>2, <2>1
  <1>4. /\ call \in UpIO /\ call.token \in Token /\ 1 \in DOMAIN up.io /\ up.io[1] = call
    <2>1. up.io \in Seq(UpIO) /\ up.io # <<>>
      BY QueueType
    <2>2. call \in UpIO /\ 1 \in DOMAIN up.io /\ up.io[1] = call
      BY <1>1, <2>1
    <2> QED
      BY <1>2, <2>2 DEF UpIO, Task
  <1>5. /\ DOMAIN dials' = DOMAIN dials \cup {n} /\ n \notin DOMAIN dials
        /\ DOMAIN conns' = DOMAIN conns \cup {n} /\ DOMAIN conns = DOMAIN dials
        /\ dials'[n].token = call.token /\ dials'[n].pc = "spawned"
        /\ Len(dials') = n /\ Len(dials) \in Nat
        /\ conns'[n].out = <<>>
        /\ \A e \in DOMAIN dials : dials'[e] = dials[e] /\ conns'[e] = conns[e]
    <2>1. AsyncDial(call.token) /\ dials \in Seq(Dial) /\ conns \in Seq(Conn) /\ Len(conns) = Len(dials)
      BY <1>1 DEF IInv, TypeOK, DialerTypeOK
    <2>2. PICK v, w : v = [token |-> call.token, pc |-> "spawned"] /\ w = NewConn
      OBVIOUS
    <2>3. v \in Dial /\ w \in Conn /\ w.out = <<>> /\ v.token = call.token /\ v.pc = "spawned"
      BY <1>4, <2>2 DEF Dial, Conn, DialPC, NewConn
    <2>4. dials' = Append(dials, v) /\ conns' = Append(conns, w)
      BY <2>1, <2>2 DEF AsyncDial
    <2> QED
      BY <1>1, <2>1, <2>3, <2>4
  <1>6. /\ n \in DOMAIN sess /\ Len(sess) = n /\ call.token.session = n
    <2>1. call.token.session = n
      BY <1>1, <1>2, <1>4 DEF UpInv, DialsInOrder
    <2>2. n \in DOMAIN sess
      BY <1>2, <1>4, <2>1 DEF IInv, Core, CallsFresh
    <2>3. sess \in Seq(Session) /\ Len(sess) <= n
      BY <1>1, ConnsType DEF UpInv, DialsInOrder
    <2> QED
      BY <1>5, <2>1, <2>2, <2>3
  <1>7. sess[n].dialing
    BY <1>5, <1>6 DEF UpInv, ResultsFresh
  <1>8. Writes(tasks, n) = {}
    <2>1. Writes(q, n) = {}
      BY <1>1, <1>5 DEF UpInv, Own, Writes
    <2>2. \A i \in DOMAIN tasks : i \in DOMAIN q /\ tasks[i] = q[i]
      BY <1>1, QueueType, <1>2
    <2> QED
      BY <2>1, <2>2 DEF Writes
  <1>9. NoNewWrites
    BY <1>1, <1>2, <1>3, QueueShorter
  <1>10. PipesKept
    <2> SUFFICES ASSUME NEW d \in DOMAIN conns
                 PROVE  PipeKept(d)
      BY DEF PipesKept
    <2>1. conns'[d] = conns[d] /\ d \in DOMAIN conns' /\ conns[d].out \in Seq(Payload)
      BY <1>5, ConnsType
    <2>2. m \notin Writes(q, d)
      BY <1>2 DEF Writes
    <2>3. ASSUME NEW lo \in Int, NEW hi \in Int, Line(Pipe(conns[d].out, q, d), lo, hi)
          PROVE  Line(Pipe(conns[d].out, tasks, d), lo, hi)
      BY <1>2, <2>1, <2>2, <2>3, PipeWithout
    <2> QED
      BY <1>1, <1>3, <2>1, <2>3 DEF PipeKept
  <1>11. DialsInOrder'
    <2>1. \A d \in DOMAIN dials' : dials'[d].token.session = d
      BY <1>5, <1>6 DEF UpInv, DialsInOrder
    <2> QED
      BY <1>0, <1>5, <1>6, <2>1 DEF DialsInOrder
  <1>12. Own(queue, dials)'
    <2>1. Own(queue, dials)
      BY DEF UpInv
    <2> QED
      BY <1>5, <1>9, <2>1 DEF Own, NoNewWrites
  <1>13. BatchesRun'
    BY <1>0 DEF UpInv, BatchesRun
  <1>14. DialingUnused'
    <2> SUFFICES ASSUME NEW d \in DOMAIN dials', sess[d].dialing
                 PROVE  conns'[d].out = <<>> /\ Writes(tasks, d) = {}
      BY <1>0, <1>3 DEF DialingUnused, Unused
    <2>1. CASE d = n
      BY <1>5, <1>8, <2>1
    <2>2. CASE d \in DOMAIN dials
      <3>1. conns[d].out = <<>> /\ Writes(q, d) = {}
        BY <1>1, <2>2 DEF UpInv, DialingUnused, Unused
      <3>2. \A i \in DOMAIN tasks : i \in DOMAIN q /\ tasks[i] = q[i]
        BY <1>1, <1>2, QueueType
      <3> QED
        BY <1>5, <2>2, <3>1, <3>2 DEF Writes
    <2> QED
      BY <1>5, <2>1, <2>2
  <1>15. ResultsFresh'
    <2>1. \A d \in DOMAIN dials' : dials'[d].pc # "done" => sess[d].dialing
      BY <1>5, <1>7 DEF UpInv, ResultsFresh
    <2> QED
      BY <1>0, <1>5, <2>1 DEF UpInv, ResultsFresh
  <1>16. PipesLine'
    <2>1. \E lo, hi \in Int : Line(Pipe(conns'[n].out, queue', n), lo, hi)
      <3>1. PICK f : f = Pipe(<<>>, tasks, n)
        OBVIOUS
      <3>2. DOMAIN f = {}
        BY <1>8, <3>1 DEF Pipe
      <3>3. Line(f, 0 + 1, 0) /\ 0 + 1 \in Int /\ 0 \in Int
        BY <3>2, LineNothing
      <3> QED
        BY <1>3, <1>5, <3>1, <3>3
    <2>2. \A d \in DOMAIN conns' \ DOMAIN conns : d = n
      BY <1>5
    <2> QED
      BY <1>10, <2>1, <2>2, PipesStayLines DEF UpInv
  <1>17. UpstreamInOrder'
    <2> SUFFICES ASSUME NEW d \in DOMAIN conns'
                 PROVE  IsRun(conns'[d].out, dials'[d].token.client)
      BY DEF UpstreamInOrder
    <2>1. CASE d = n
      BY <1>5, <2>1 DEF IsRun
    <2>2. CASE d \in DOMAIN conns
      BY <1>5, <2>2 DEF UpInv, UpstreamInOrder
    <2> QED
      BY <1>5, <2>1, <2>2
  <1>18. Streams'
    <2>1. InboxKept
      BY <1>0 DEF InboxKept
    <2>2. SessionsKept
      BY <1>0, SessionsSame
    <2> QED
      BY <1>10, <2>1, <2>2, StreamsStay DEF UpInv
  <1> QED
    BY <1>11, <1>12, <1>13, <1>14, <1>15, <1>16, <1>17, <1>18 DEF UpInv

\* A call moved from one end of the queue's middle to the other.
LEMMA HeadMoved ==
  ASSUME NEW T, NEW q \in Seq(T), NEW u \in Seq(T), u # <<>>
  PROVE  Append(q, Head(u)) \o Tail(u) = q \o u
  <1>1. /\ Len(u) \in Nat /\ Len(u) >= 1 /\ Head(u) = u[1] /\ Head(u) \in T
        /\ Tail(u) \in Seq(T) /\ Len(Tail(u)) = Len(u) - 1
        /\ \A i \in 1..Len(Tail(u)) : Tail(u)[i] = u[i + 1]
        /\ Len(q) \in Nat
    BY HeadTailProperties, EmptySeq, LenProperties
  <1>2. PICK v, a, b, m, n : /\ v = Tail(u) /\ a = Append(q, Head(u)) /\ b = a \o v
                             /\ m = Len(q) /\ n = Len(u)
    OBVIOUS
  <1>3. /\ m \in Nat /\ n \in Nat /\ n >= 1 /\ v \in Seq(T) /\ Len(v) = n - 1
        /\ \A i \in 1..(n - 1) : v[i] = u[i + 1]
    BY <1>1, <1>2
  <1>4. /\ a \in Seq(T) /\ Len(a) = m + 1 /\ a[m + 1] = u[1]
        /\ \A i \in 1..m : a[i] = q[i]
    BY <1>1, <1>2
  <1>5. /\ b \in Seq(T) /\ Len(b) = m + 1 + (n - 1)
        /\ \A i \in 1..(m + 1) : b[i] = a[i]
        /\ \A i \in 1..(n - 1) : b[m + 1 + i] = v[i]
    BY <1>2, <1>3, <1>4, ConcatProperties
  <1>6. /\ q \o u \in Seq(T) /\ Len(q \o u) = m + n
        /\ \A i \in 1..m : (q \o u)[i] = q[i]
        /\ \A i \in 1..n : (q \o u)[m + i] = u[i]
    BY <1>2, ConcatProperties
  <1>7. ASSUME NEW i \in 1..(m + n)
        PROVE  b[i] = (q \o u)[i]
    <2>1. i \in 1..m \/ i = m + 1 \/ i \in (m + 2)..(m + n)
      BY <1>3
    <2>2. CASE i \in 1..m
      <3>1. i \in 1..(m + 1)
        BY <1>3, <2>2
      <3> QED
        BY <1>4, <1>5, <1>6, <2>2, <3>1
    <2>3. CASE i = m + 1
      <3>1. 1 \in 1..n /\ m + 1 \in 1..(m + 1)
        BY <1>3
      <3> QED
        BY <1>4, <1>5, <1>6, <2>3, <3>1
    <2>4. CASE i \in (m + 2)..(m + n)
      <3>1. PICK k : k = i - (m + 1)
        OBVIOUS
      <3>2. k \in 1..(n - 1) /\ k + 1 \in 1..n /\ i = m + 1 + k /\ i = m + (k + 1)
        BY <1>3, <2>4, <3>1
      <3>3. b[i] = v[k] /\ v[k] = u[k + 1] /\ (q \o u)[i] = u[k + 1]
        BY <1>3, <1>5, <1>6, <3>2
      <3> QED
        BY <3>3
    <2> QED
      BY <2>1, <2>2, <2>3, <2>4
  <1>8. Len(b) = m + n
    BY <1>3, <1>5
  <1> QED
    BY <1>2, <1>5, <1>6, <1>7, <1>8, SeqEqual

\* A call that is no dial, made: the dials owed are the same.
LEMMA CallMade ==
  ASSUME NEW u \in Seq(UpIO), u # <<>>, Head(u).op # "dial"
  PROVE  /\ \A i \in DOMAIN Tail(u) : \E j \in DOMAIN u : u[j] = Tail(u)[i]
         /\ \A j \in DOMAIN u : u[j].op = "dial" => \E i \in DOMAIN Tail(u) : Tail(u)[i] = u[j]
  <1>1. /\ Len(u) \in Nat /\ Len(u) >= 1 /\ Head(u) = u[1] /\ DOMAIN u = 1..Len(u)
        /\ DOMAIN Tail(u) = 1..(Len(u) - 1)
        /\ \A i \in 1..(Len(u) - 1) : Tail(u)[i] = u[i + 1]
    OBVIOUS
  <1>2. ASSUME NEW i \in DOMAIN Tail(u)
        PROVE  \E j \in DOMAIN u : u[j] = Tail(u)[i]
    BY <1>1
  <1>3. ASSUME NEW j \in DOMAIN u, u[j].op = "dial"
        PROVE  \E i \in DOMAIN Tail(u) : Tail(u)[i] = u[j]
    <2>1. j \in 2..Len(u)
      <3>1. j # 1
        BY <1>1, <1>3
      <3> QED
        BY <1>1, <3>1
    <2>2. PICK k : k = j - 1
      OBVIOUS
    <2>3. k \in 1..(Len(u) - 1) /\ j = k + 1
      BY <1>1, <2>1, <2>2
    <2> QED
      BY <1>1, <2>3
  <1> QED
    BY <1>2, <1>3

LEMMA UpCallUp ==
  ASSUME IInv, IInv', UpInv, UpCall
  PROVE  UpInv'
  <1>0. up.io # <<>> /\ up' = UpOwes(Tail(up.io)) /\ UNCHANGED <<tableVars, clientVars, down>>
    BY DEF UpCall
  <1>1. CASE Head(up.io).op = "dial"
    <2>1. AsyncDial(Head(up.io).token)
      BY <1>1 DEF UpCall
    <2> QED
      BY <1>0, <1>1, <2>1, DialStartedUp
  <1>2. CASE Head(up.io).op # "dial"
    <2>1. /\ tasks' = Append(tasks, Head(up.io))
          /\ UNCHANGED <<dials, conns, dialResultChan>>
      BY <1>2 DEF UpCall
    <2>2. UNCHANGED <<byClient, sess, channel, nup>> /\ PacketsSame /\ up'.io = Tail(up.io)
      BY <1>0 DEF tableVars, clientVars, PacketsSame, UpOwes
    <2>3. up.io \in Seq(UpIO) /\ up.io # <<>> /\ tasks \in Seq(UpIO)
      BY <1>0, QueueType
    <2>4. queue' = queue
      <3>1. PICK u, q : u = up.io /\ q = tasks
        OBVIOUS
      <3>2. u \in Seq(UpIO) /\ u # <<>> /\ q \in Seq(UpIO)
        BY <2>3, <3>1
      <3>3. Append(q, Head(u)) \o Tail(u) = q \o u
        BY <3>2, HeadMoved
      <3> QED
        BY <2>1, <2>2, <3>1, <3>3 DEF queue
    <2>5. TokensSame /\ DialsAdvance /\ OutsSame
      BY <2>1, DialsSame
    <2>6. SessionsKept
      BY <2>2, SessionsSame
    <2>7. QueueKept
      BY <2>4, <2>5, QueueSame DEF QueueKept
    <2>8. DialOwedSame
      <3>1. PICK u : u = up.io
        OBVIOUS
      <3>2. u \in Seq(UpIO) /\ u # <<>> /\ Head(u).op # "dial" /\ up'.io = Tail(u)
        BY <1>2, <2>2, <2>3, <3>1
      <3> QED
        BY <3>1, <3>2, CallMade DEF DialOwedSame
    <2> QED
      BY <2>2, <2>5, <2>6, <2>7, <2>8, QuietUp
  <1> QED
    BY <1>1, <1>2

\* No session is without its dial while the upstream goroutine is idle.
LEMMA IdleDialed ==
  ASSUME IInv, DialsInOrder, up.io = <<>>
  PROVE  Len(sess) = Len(dials) /\ DOMAIN sess = DOMAIN dials
  <1>1. \A i \in DOMAIN up.io : up.io[i].op # "dial"
    OBVIOUS
  <1>2. Len(sess) = Len(dials)
    BY <1>1 DEF DialsInOrder
  <1> QED
    BY <1>2, ConnsType

\* One result less.
LEMMA ResultTaken ==
  ASSUME dialResultChan \in Seq(Result), dialResultChan # <<>>, dialResultChan' = Tail(dialResultChan)
  PROVE  /\ 1 \in DOMAIN dialResultChan /\ dialResultChan[1] = Head(dialResultChan)
         /\ \A i \in DOMAIN dialResultChan' :
              /\ i + 1 \in DOMAIN dialResultChan /\ i + 1 # 1
              /\ dialResultChan'[i] = dialResultChan[i + 1]
         /\ \A i, j \in DOMAIN dialResultChan' : i + 1 = j + 1 => i = j
  <1>1. PICK s : s = dialResultChan
    OBVIOUS
  <1>2. s \in Seq(Result) /\ s # <<>>
    BY <1>1
  <1>3. 1 \in DOMAIN s /\ s[1] = Head(s)
    BY <1>2
  <1>4. ASSUME NEW i \in DOMAIN Tail(s)
        PROVE  i \in Nat \ {0} /\ i + 1 \in DOMAIN s /\ i + 1 # 1 /\ Tail(s)[i] = s[i + 1]
    BY <1>2
  <1>5. \A i, j \in DOMAIN Tail(s) : i + 1 = j + 1 => i = j
    BY <1>4
  <1> QED
    BY <1>1, <1>3, <1>4, <1>5

\* The result of a dial that failed, or whose session is gone.
LEMMA ResultDroppedUp ==
  ASSUME IInv, IInv', UpInv, UpIdle, dialResultChan # <<>>,
         UNCHANGED <<dials, conns, tasks, sess, channel, nup>>,
         dialResultChan' = Tail(dialResultChan),
         up'.conn = up.conn, up'.pkts = up.pkts,
         NEW r \in Seq(UpIO), up'.io = r, \A i \in DOMAIN r : r[i].op = "close",
         DOMAIN byClient' \subseteq DOMAIN byClient,
         \A c \in DOMAIN byClient' : byClient'[c] = byClient[c]
  PROVE  UpInv'
  <1>1. TokensSame /\ OutsSame
    BY DEF TokensSame, OutsSame
  <1>2. DialsAdvance
    BY DEF DialsAdvance
  <1>3. PacketsSame
    BY DEF PacketsSame
  <1>4. DialOwedSame
    BY DEF DialOwedSame, UpIdle
  <1>5. SessionsKept
    BY DEF SessionsKept
  <1>6. QueueKept
    BY <1>1, QueueJoined DEF UpIdle
  <1> QED
    BY <1>1, <1>2, <1>3, <1>4, <1>5, <1>6, QuietUp

LEMMA DialFailedUp ==
  ASSUME IInv, IInv', UpInv, UpDialResult, Head(dialResultChan).err
  PROVE  UpInv'
  <1>0. /\ UpIdle /\ dialResultChan # <<>> /\ dialResultChan' = Tail(dialResultChan)
        /\ UNCHANGED <<dials, conns, tasks, channel, nup>>
        /\ DialFailed(dials[Head(dialResultChan).conn].token)
    BY DEF UpDialResult, clientVars
  <1>1. UNCHANGED <<sess, up>>
    BY <1>0 DEF DialFailed
  <1>2. /\ DOMAIN byClient' \subseteq DOMAIN byClient
        /\ \A c \in DOMAIN byClient' : byClient'[c] = byClient[c]
    BY <1>0 DEF DialFailed, AbortDial, Delete
  <1>3. up'.io \in Seq(UpIO) /\ \A i \in DOMAIN up'.io : up'.io[i].op = "close"
    BY <1>0, <1>1, NextTypes DEF UpIdle
  <1>4. PICK r \in Seq(UpIO) : up'.io = r
    BY <1>3
  <1> QED
    BY <1>0, <1>1, <1>2, <1>3, <1>4, ResultDroppedUp

LEMMA DialStaleUp ==
  ASSUME IInv, IInv', UpInv, UpDialResult, ~Head(dialResultChan).err,
         ~Current(dials[Head(dialResultChan).conn].token)
  PROVE  UpInv'
  <1>0. /\ UpIdle /\ dialResultChan # <<>> /\ dialResultChan' = Tail(dialResultChan)
        /\ UNCHANGED <<dials, conns, tasks, channel, nup>>
        /\ DialSucceeded(Head(dialResultChan).conn, dials[Head(dialResultChan).conn].token)
    BY DEF UpDialResult, clientVars
  <1>1. PICK d, t : d = Head(dialResultChan).conn /\ t = CloseTask(d)
    OBVIOUS
  <1>2. /\ UNCHANGED <<byClient, sess>>
        /\ up'.io = <<t>> /\ up'.conn = up.conn /\ up'.pkts = up.pkts
    <2>1. UNCHANGED <<byClient, sess>> /\ up' = UpOwes(<<t>>)
      BY <1>0, <1>1 DEF DialSucceeded
    <2> QED
      BY <2>1 DEF UpOwes
  <1>3. t.op = "close"
    BY <1>1 DEF CloseTask
  <1>4. \A i \in DOMAIN <<t>> : <<t>>[i].op = "close"
    BY <1>3
  <1>5. PICK r \in Seq(UpIO) : r = <<t>>
    BY <1>2, NextTypes
  <1> QED
    BY <1>0, <1>2, <1>4, <1>5, ResultDroppedUp

LEMMA DialCompletedUp ==
  ASSUME IInv, IInv', UpInv, UpDialResult, ~Head(dialResultChan).err,
         Current(dials[Head(dialResultChan).conn].token)
  PROVE  UpInv'
  <1>0. /\ UpIdle /\ dialResultChan # <<>> /\ dialResultChan' = Tail(dialResultChan)
        /\ UNCHANGED <<dials, conns, tasks, channel, nup>>
        /\ DialSucceeded(Head(dialResultChan).conn, dials[Head(dialResultChan).conn].token)
    BY DEF UpDialResult, clientVars
  <1>1. PICK d, token, c, w : /\ d = Head(dialResultChan).conn /\ token = dials[d].token
                              /\ c = token.client /\ w = sess[d].pending
    OBVIOUS
  <1>2. dialResultChan \in Seq(Result) /\ 1 \in DOMAIN dialResultChan /\ dialResultChan[1].conn = d
    BY <1>0, <1>1, ResultTaken DEF IInv, TypeOK, DialerTypeOK
  <1>3. /\ d \in DOMAIN dials /\ d \in DOMAIN conns /\ d \in DOMAIN sess /\ d \in ConnIds
        /\ dials[d].pc = "done" /\ conns[d].st # "new" /\ sess[d].dialing
        /\ token.session = d /\ Current(token)
        /\ c \in DOMAIN byClient /\ byClient[c] = d /\ c \in Clients
    <2>1. d \in DOMAIN dials /\ dials[d].pc = "done" /\ conns[d].st # "new"
      BY <1>1, <1>2 DEF IInv, Core, DialsAgree
    <2>2. sess[d].dialing /\ token.session = d /\ Current(token)
      BY <1>1, <1>2, <2>1 DEF UpInv, ResultsFresh, DialsInOrder
    <2>3. d \in DOMAIN conns /\ d \in DOMAIN sess /\ d \in ConnIds
      BY <2>1, ConnsType, IdleDialed, <1>0 DEF UpInv, UpIdle, ConnIds, NoConn
    <2>4. c \in DOMAIN byClient /\ byClient[c] = d /\ c \in Clients
      BY <1>1, <2>2 DEF Current, IInv, TypeOK, TableTypeOK
    <2> QED
      BY <2>1, <2>2, <2>3, <2>4
  <1>4. Unused(conns[d].out, queue, d)
    BY <1>3 DEF UpInv, DialingUnused
  <1>5. PICK r : r = Replay(d, w)
    OBVIOUS
  <1>6. /\ w \in Seq(Payload) /\ r \in Seq(UpIO)
        /\ DOMAIN r = DOMAIN w
        /\ \A i \in DOMAIN r : r[i].op = "write" /\ r[i].conn = d /\ r[i].payload = w[i]
    <2>1. w \in Seq(Payload)
      BY <1>1, <1>3, ConnsType, SessFields
    <2> QED
      BY <1>3, <1>5, <2>1, ReplayType DEF Replay, WriteTask
  <1>7. /\ UNCHANGED byClient /\ sess' = SessReady(d, <<>>)
        /\ up'.io = r /\ up'.conn = up.conn /\ up'.pkts = up.pkts
    <2>1. UNCHANGED byClient /\ sess' = SessReady(d, <<>>) /\ up' = UpOwes(r)
      BY <1>0, <1>1, <1>3, <1>5 DEF DialSucceeded, CompleteDial
    <2> QED
      BY <2>1 DEF UpOwes
  <1>8. /\ DOMAIN sess' = DOMAIN sess /\ Len(sess') = Len(sess)
        /\ sess'[d].dialing = FALSE
        /\ \A s \in DOMAIN sess : s # d => sess'[s] = sess[s]
    BY <1>3, <1>7, ConnsType, SessReadyShape DEF SessShape
  <1>9. PICK q : q = tasks
    OBVIOUS
  <1>10. /\ q \in Seq(UpIO) /\ queue = q /\ queue' = q \o r
    BY <1>0, <1>7, <1>9, QueueType DEF queue, UpIdle
  <1>11. ASSUME NEW e, e # d
         PROVE  /\ Writes(q \o r, e) = Writes(q, e)
                /\ \A out : Pipe(out, q \o r, e) = Pipe(out, q, e)
    <2>1. \A i \in DOMAIN r : ~(r[i].op = "write" /\ r[i].conn = e)
      BY <1>6, <1>11
    <2>2. Writes(q \o r, e) = Writes(q, e)
      BY <1>6, <1>10, <2>1, PipeJoined
    <2>3. ASSUME NEW out
          PROVE  Pipe(out, q \o r, e) = Pipe(out, q, e)
      BY <1>6, <1>10, <2>1, PipeJoined
    <2> QED
      BY <2>2, <2>3
  <1>12. ASSUME NEW a \in Nat, PendingTo(w, c, a)
         PROVE  /\ a + 1 - Len(w) \in Int /\ a + 1 - Len(w) <= a
                /\ Line(Pipe(conns[d].out, q \o r, d), a + 1 - Len(w), a)
    <2>1. Writes(q, d) = {} /\ conns[d].out = <<>>
      BY <1>4, <1>10 DEF Unused
    <2>2. a \in Int
      OBVIOUS
    <2>3. Line(Pipe(<<>>, q \o Replay(d, w), d), a + 1 - Len(w), a)
      BY <1>3, <1>6, <1>10, <1>12, <2>1, <2>2, PipeReplayed
    <2>4. w # <<>>
      BY <1>1, <1>3 DEF IInv, Core, ReadyMeansBound
    <2>5. Len(w) \in Nat /\ Len(w) >= 1
      BY <1>6, <2>4, EmptySeq
    <2> QED
      BY <1>5, <2>1, <2>3, <2>5
  <1>13. PICK a \in Nat : PendingTo(w, c, a)
    BY <1>1, <1>3 DEF UpInv, Streams, Kept
  <1>14. DialsInOrder'
    <2>1. Len(sess) = Len(dials)
      BY <1>0, IdleDialed DEF UpInv, UpIdle
    <2>2. \A i \in DOMAIN up'.io : up'.io[i].op # "dial"
      BY <1>6, <1>7
    <2> QED
      BY <1>0, <1>8, <2>1, <2>2 DEF UpInv, DialsInOrder
  <1>15. Own(queue, dials)'
    <2>1. /\ Own(q, dials)
          /\ \A i \in DOMAIN w : w[i].client = c
      BY <1>10, <1>13 DEF UpInv, PendingTo
    <2>2. \A i \in DOMAIN (q \o r) : \/ i \in DOMAIN q /\ (q \o r)[i] = q[i]
                                     \/ \E j \in DOMAIN r : (q \o r)[i] = r[j]
      <3>1. q \in Seq(UpIO) /\ r \in Seq(UpIO)
        BY <1>6, <1>10
      <3> QED
        BY <3>1, JoinedFrom
    <2>3. Own(q \o r, dials)
      BY <1>1, <1>3, <1>6, <2>1, <2>2 DEF Own
    <2> QED
      BY <1>0, <1>10, <2>3
  <1>16. BatchesRun'
    BY <1>0, <1>7 DEF UpInv, BatchesRun
  <1>17. DialingUnused'
    <2> SUFFICES ASSUME NEW e \in DOMAIN dials, sess'[e].dialing
                 PROVE  conns[e].out = <<>> /\ Writes(q \o r, e) = {}
      BY <1>0, <1>10 DEF DialingUnused, Unused
    <2>1. e # d
      BY <1>8
    <2>2. e \in DOMAIN sess /\ sess[e].dialing
      BY <1>8, <2>1, SessionNumbers DEF UpInv
    <2> QED
      BY <1>10, <1>11, <2>1, <2>2 DEF UpInv, DialingUnused, Unused
  <1>18. ResultsFresh'
    <2>1. DOMAIN dials = DOMAIN sess
      BY <1>0, IdleDialed DEF UpInv, UpIdle
    <2>2. \A e \in DOMAIN dials : dials[e].pc # "done" => sess'[e].dialing
      BY <1>3, <1>8, <2>1 DEF UpInv, ResultsFresh
    <2>3. /\ \A i \in DOMAIN dialResultChan' :
               /\ i + 1 \in DOMAIN dialResultChan /\ i + 1 # 1
               /\ dialResultChan'[i] = dialResultChan[i + 1]
          /\ \A i, j \in DOMAIN dialResultChan' : i + 1 = j + 1 => i = j
      BY <1>0, <1>2, ResultTaken
    <2>4. ASSUME NEW i \in DOMAIN dialResultChan'
          PROVE  sess'[dialResultChan'[i].conn].dialing
      <3>1. PICK e, k : e = dialResultChan'[i].conn /\ k = i + 1
        OBVIOUS
      <3>2. k \in DOMAIN dialResultChan /\ dialResultChan[k].conn = e /\ k # 1
        BY <2>3, <3>1
      <3>3. e # d /\ sess[e].dialing /\ e \in DOMAIN dials
        BY <1>2, <3>2 DEF UpInv, ResultsFresh, IInv, Core, DialsAgree
      <3> QED
        BY <1>8, <2>1, <3>1, <3>3
    <2>5. ASSUME NEW i \in DOMAIN dialResultChan', NEW j \in DOMAIN dialResultChan',
                 dialResultChan'[i].conn = dialResultChan'[j].conn
          PROVE  i = j
      BY <2>3, <2>5 DEF UpInv, ResultsFresh
    <2>6. \A s \in DOMAIN sess' : s \notin DOMAIN dials => sess'[s].dialing
      BY <1>8, <2>1
    <2> QED
      BY <1>0, <2>2, <2>4, <2>5, <2>6 DEF ResultsFresh
  <1>19. PipesLine'
    <2> SUFFICES ASSUME NEW e \in DOMAIN conns, conns[e].st # "closed"
                 PROVE  \E lo, hi \in Int : Line(Pipe(conns[e].out, q \o r, e), lo, hi)
      BY <1>0, <1>10 DEF PipesLine
    <2>1. CASE e = d
      BY <1>12, <1>13, <2>1
    <2>2. CASE e # d
      BY <1>10, <1>11, <2>2 DEF UpInv, PipesLine
    <2> QED
      BY <2>1, <2>2
  <1>20. UpstreamInOrder'
    BY <1>0 DEF UpInv, UpstreamInOrder
  <1>21. Streams'
    <2> SUFFICES ASSUME NEW e \in Clients, NEW b \in Nat, e \in DOMAIN byClient, Kept(e, b)
                 PROVE  Kept(e, b)'
      BY <1>0, <1>7 DEF UpInv, Streams
    <2>1. CASE e = c
      <3>1. PendingTo(w, c, b)
        BY <1>1, <1>3, <2>1 DEF Kept
      <3>2. b + 1 - Len(w) <= b /\ b + 1 - Len(w) \in Int
            /\ Line(Pipe(conns[d].out, q \o r, d), b + 1 - Len(w), b)
        BY <1>12, <3>1
      <3>3. byClient'[e] = d /\ d \in DOMAIN conns' /\ ~sess'[d].dialing /\ conns'[d].out = conns[d].out
        BY <1>0, <1>3, <1>7, <1>8, <2>1
      <3> QED
        BY <1>10, <3>2, <3>3 DEF Kept
    <2>2. CASE e # c
      <3>1. PICK s : s = byClient[e]
        OBVIOUS
      <3>2. s # d /\ s \in DOMAIN sess /\ byClient'[e] = s /\ sess'[s] = sess[s]
        BY <1>3, <1>7, <1>8, <2>2, <3>1, OtherSessions
      <3>3. s \in DOMAIN conns => PipeKept(s)
        BY <1>0, <1>10, <1>11, <3>2 DEF PipeKept
      <3> QED
        BY <3>1, <3>2, <3>3, KeptStays
    <2> QED
      BY <2>1, <2>2
  <1> QED
    BY <1>14, <1>15, <1>16, <1>17, <1>18, <1>19, <1>20, <1>21 DEF UpInv

LEMMA UpDialResultUp ==
  ASSUME IInv, IInv', UpInv, UpDialResult
  PROVE  UpInv'
  BY DialFailedUp, DialStaleUp, DialCompletedUp

(***************************************************************************)
(* Upstream: the theorems                                                  *)
(***************************************************************************)

LEMMA InitUp ==
  ASSUME Init
  PROVE  UpInv
  <1>1. /\ dials = <<>> /\ conns = <<>> /\ tasks = <<>> /\ dialResultChan = <<>>
        /\ byClient = <<>> /\ sess = <<>> /\ channel = <<>>
        /\ up.pkts = <<>> /\ up.io = <<>>
        /\ nup = [c \in Clients |-> 0]
    BY DEF Init, DialerInit
  <1>2. queue = <<>>
    BY <1>1 DEF queue
  <1>3. DialsInOrder /\ Own(queue, dials) /\ BatchesRun /\ DialingUnused /\ ResultsFresh
        /\ PipesLine /\ UpstreamInOrder
    BY <1>1, <1>2
       DEF DialsInOrder, Own, BatchesRun, Batch, DialingUnused, ResultsFresh, PipesLine, UpstreamInOrder
  <1>4. Streams
    <2> SUFFICES ASSUME NEW c \in Clients
                 PROVE  Line(Inbox(channel, up.conn, up.pkts, c), 0 + 1, nup[c])
      BY <1>1 DEF Streams
    <2>1. PICK f : f = Inbox(channel, up.conn, up.pkts, c)
      OBVIOUS
    <2>2. DOMAIN f = {}
      BY <1>1, <2>1 DEF Inbox
    <2>3. Line(f, 0 + 1, 0)
      BY <2>2, LineNothing
    <2> QED
      BY <1>1, <2>1, <2>3
  <1> QED
    BY <1>3, <1>4 DEF UpInv

LEMMA UnchangedUp ==
  ASSUME IInv, IInv', UpInv, UNCHANGED vars
  PROVE  UpInv'
  <1>1. /\ UNCHANGED <<dials, conns, dialResultChan, tasks>>
        /\ UNCHANGED <<byClient, sess, channel, nup, up>>
    BY DEF vars, dialerVars, tableVars, clientVars
  <1>2. SessionsKept /\ DialOwedSame /\ PacketsSame
    BY <1>1, SessionsSame, CallsSame
  <1>3. TokensSame /\ DialsAdvance /\ OutsSame
    BY <1>1, DialsSame
  <1>4. QueueKept
    BY <1>1, <1>3, QueueSame DEF queue, QueueKept
  <1> QED
    BY <1>2, <1>3, <1>4, QuietUp

LEMMA NextUp ==
  ASSUME ServerAssumption, IInv, IInv', SafetyInv, UpInv, [Next]_vars
  PROVE  UpInv'
  <1>1. CASE UNCHANGED vars
    BY <1>1, UnchangedUp
  <1>2. CASE \E c \in Clients : ClientSends(c) \/ ClientCloses(c)
    BY <1>2, ClientSendsUp, ClientClosesUp
  <1>3. CASE Upstream
    BY <1>3, UpReceiveUp, UpAdmitUp, UpCallUp, UpDialResultUp DEF Upstream
  <1>4. CASE Downstream
    BY <1>4, DownstreamUp DEF Downstream
  <1>5. CASE DialerSteps
    <2>1. ASSUME NEW d \in DOMAIN dials, LoopOpens(d)
          PROVE  UpInv'
      BY <2>1, LoopOpensUp
    <2>2. ASSUME NEW d \in DOMAIN dials, DialerAlone(DialStep(d))
          PROVE  UpInv'
      BY <2>2, DialStepUp DEF DialerAlone
    <2>3. ASSUME NEW d \in DOMAIN dials, DialerAlone(PeerStep(d))
          PROVE  UpInv'
      BY <2>3, PeerStepUp DEF DialerAlone
    <2>4. CASE LoopWriteError
      BY <2>4, LoopWriteErrorUp
    <2>5. CASE DialerAlone(LoopStep)
      BY <2>5, LoopStepUp DEF DialerAlone
    <2> QED
      BY <1>5, <2>1, <2>2, <2>3, <2>4, <2>5 DEF DialerSteps
  <1> QED
    BY <1>1, <1>2, <1>3, <1>4, <1>5 DEF Next

\* What is on its way to the destinations is in a line, given the routes and
\* the types.
THEOREM UpstreamInvariant == Spec => [](IInv /\ SafetyInv /\ UpInv)
  <1>1. ServerAssumption
    BY ServerAssumption
  <1>2. Init => IInv /\ SafetyInv /\ UpInv
    BY InitIInv, InitSafe, InitUp
  <1>3. IInv /\ SafetyInv /\ UpInv /\ [Next]_vars => IInv' /\ SafetyInv' /\ UpInv'
    BY <1>1, NextIInv, NextSafe, NextUp
  <1> QED
    BY <1>2, <1>3, PTL DEF Spec

\* What a destination connection is written is an unbroken run of the packets
\* of the client it was dialed for, whatever the table, the dials and the
\* loop do between two of them.
THEOREM UpstreamOrdered == Spec => []UpstreamInOrder
  <1>1. UpInv => UpstreamInOrder
    BY DEF UpInv
  <1> QED
    BY <1>1, UpstreamInvariant, PTL

\* A payload is its client and its number.
LEMMA PayloadIs ==
  ASSUME NEW p \in Payload
  PROVE  /\ p.seq \in Nat /\ p.client \in Clients
         /\ \A c, q : p = [client |-> c, seq |-> q] <=> p.client = c /\ p.seq = q
  BY DEF Payload

\* Membership in PacketsOf.
LEMMA PacketsAre ==
  ASSUME NEW c, NEW lo \in Int, NEW hi \in Int, NEW p \in Payload
  PROVE  p \in PacketsOf(c, lo, hi) <=> p.client = c /\ lo <= p.seq /\ p.seq <= hi
  <1>1. p.seq \in Nat
    BY PayloadIs
  <1>2. ASSUME p \in PacketsOf(c, lo, hi)
        PROVE  p.client = c /\ lo <= p.seq /\ p.seq <= hi
    BY <1>2 DEF PacketsOf
  <1>3. ASSUME p.client = c, lo <= p.seq, p.seq <= hi
        PROVE  p \in PacketsOf(c, lo, hi)
    <2>1. p = [client |-> c, seq |-> p.seq]
      BY <1>3, PayloadIs
    <2>2. p.seq \in lo..hi
      BY <1>1, <1>3
    <2> QED
      BY <2>1, <2>2 DEF PacketsOf
  <1> QED
    BY <1>2, <1>3

\* What connection d was written, or is about to be from s, is of client c.
AllOf(out, s, d, c) ==
  /\ \A i \in DOMAIN out : out[i].client = c
  /\ \A i \in Writes(s, d) : s[i].payload.client = c

\* The packets of a pipe.
Contents(out, s, d) == {out[i] : i \in DOMAIN out} \cup WritesTo(d, s)

\* What a connection was written and what is on its way to it, as packets.
LEMMA PipeHolds ==
  ASSUME NEW out \in Seq(Payload), NEW s \in Seq(UpIO), NEW d, NEW c \in Clients,
         NEW lo \in Int, NEW hi \in Int,
         Line(Pipe(out, s, d), lo, hi), AllOf(out, s, d, c)
  PROVE  /\ Contents(out, s, d) = PacketsOf(c, lo, hi)
         /\ lo <= hi => lo \in Nat
  <1>1. PICK f : f = Pipe(out, s, d)
    OBVIOUS
  <1>2. IsPipe(f, out, s, d) /\ Line(f, lo, hi)
    BY <1>1, PipeAt
  <1>3. Len(out) \in Nat /\ DOMAIN out = 1..Len(out)
    OBVIOUS
  <1>4. \A i \in DOMAIN out : out[i] \in Payload /\ out[i].client = c /\ out[i].seq \in Nat
    BY PayloadIs DEF AllOf
  <1>5. \A i \in Writes(s, d) : s[i].payload \in Payload /\ s[i].payload.client = c
    BY DEF Writes, UpIO, Task, AllOf
  <1>6. WritesTo(d, s) = {s[i].payload : i \in Writes(s, d)}
    BY DEF WritesTo, Writes
  <1>7. ASSUME NEW i \in DOMAIN out
        PROVE  out[i] \in PacketsOf(c, lo, hi)
    <2>1. PICK k : k = i - Len(out)
      OBVIOUS
    <2>2. k \in (1 - Len(out))..0 /\ k + Len(out) = i
      BY <1>3, <2>1
    <2>3. k \in DOMAIN f /\ f[k] = Single(out[i].seq)
      BY <1>2, <2>2 DEF IsPipe
    <2>4. lo <= out[i].seq /\ out[i].seq <= hi
      BY <1>2, <2>3, LineBounds DEF Single
    <2> QED
      BY <1>4, <2>4, PacketsAre
  <1>8. ASSUME NEW i \in Writes(s, d)
        PROVE  s[i].payload \in PacketsOf(c, lo, hi)
    <2>1. i \in DOMAIN f /\ f[i] = Single(s[i].payload.seq)
      BY <1>2 DEF IsPipe
    <2>2. lo <= s[i].payload.seq /\ s[i].payload.seq <= hi
      BY <1>2, <2>1, LineBounds DEF Single
    <2> QED
      BY <1>5, <2>2, PacketsAre
  <1>9. ASSUME NEW q \in lo..hi
        PROVE  /\ q \in Nat
               /\ \/ \E i \in DOMAIN out : out[i] = [client |-> c, seq |-> q]
                  \/ \E i \in Writes(s, d) : s[i].payload = [client |-> c, seq |-> q]
    <2>1. PICK k \in DOMAIN f : f[k].first <= q /\ q <= f[k].last
      BY <1>2 DEF Line, Covers
    <2>2. CASE k \in Writes(s, d)
      <3>1. PICK p : p = s[k].payload
        OBVIOUS
      <3>2. f[k] = Single(p.seq) /\ p \in Payload /\ p.client = c
        BY <1>2, <1>5, <2>2, <3>1 DEF IsPipe
      <3>3. p.seq \in Nat
        BY <3>2, PayloadIs
      <3>4. p.seq = q
        BY <2>1, <3>2, <3>3 DEF Single
      <3>5. s[k].payload = [client |-> c, seq |-> q]
        BY <3>1, <3>2, <3>4, PayloadIs
      <3> QED
        BY <2>2, <3>3, <3>4, <3>5
    <2>3. CASE k \in (1 - Len(out))..0
      <3>1. PICK i : i = k + Len(out)
        OBVIOUS
      <3>2. i \in DOMAIN out /\ f[k] = Single(out[i].seq)
        BY <1>2, <2>3, <3>1 DEF IsPipe
      <3>3. out[i].seq = q
        BY <1>4, <2>1, <3>2 DEF Single
      <3>4. out[i] = [client |-> c, seq |-> q]
        <4>1. PICK v : v = out[i]
          OBVIOUS
        <4>2. v \in Payload /\ v.client = c /\ v.seq = q
          BY <1>4, <3>2, <3>3, <4>1
        <4> QED
          BY <4>1, <4>2, PayloadIs
      <3> QED
        BY <1>4, <3>2, <3>3, <3>4
    <2> QED
      BY <1>2, <2>2, <2>3 DEF IsPipe
  <1>10. {out[i] : i \in DOMAIN out} \cup WritesTo(d, s) \subseteq PacketsOf(c, lo, hi)
    BY <1>6, <1>7, <1>8
  <1>11. ASSUME NEW p \in PacketsOf(c, lo, hi)
         PROVE  p \in {out[i] : i \in DOMAIN out} \cup WritesTo(d, s)
    <2>1. PICK q \in lo..hi : p = [client |-> c, seq |-> q]
      BY <1>11 DEF PacketsOf
    <2> QED
      BY <1>6, <1>9, <2>1
  <1>12. lo <= hi => lo \in lo..hi
    OBVIOUS
  <1>13. Contents(out, s, d) = PacketsOf(c, lo, hi)
    BY <1>10, <1>11 DEF Contents
  <1> QED
    BY <1>9, <1>12, <1>13

\* The packets of a batch, as numbers.
LEMMA BatchHolds ==
  ASSUME NEW pkts \in Seq(Packet), pkts # <<>>, NEW c, Batch(pkts, c)
  PROVE  /\ \A k \in DOMAIN pkts :
              /\ pkts[k].payload \in Payload /\ pkts[k].payload.client = c
              /\ Span(pkts).first <= pkts[k].payload.seq /\ pkts[k].payload.seq <= Span(pkts).last
         /\ \A q \in Int :
              Span(pkts).first <= q /\ q <= Span(pkts).last =>
                \E k \in DOMAIN pkts : pkts[k].payload = [client |-> c, seq |-> q]
  <1>1. PICK n, x : n = Len(pkts) /\ x = pkts[1].payload.seq
    OBVIOUS
  <1>2. n \in Nat /\ n >= 1 /\ DOMAIN pkts = 1..n
    BY <1>1, EmptySeq
  <1>3. \A k \in 1..n : pkts[k].payload \in Payload /\ pkts[k].payload.client = c
                         /\ pkts[k].payload.seq = x + k - 1
    <2>1. \A k \in 1..n : pkts[k] \in Packet
      BY <1>2
    <2>2. \A k \in 1..n : pkts[k].payload \in Payload
      BY <2>1 DEF Packet
    <2> QED
      BY <1>1, <1>2, <2>2 DEF Batch
  <1>4. x \in Nat
    BY <1>1, <1>2, <1>3, PayloadIs
  <1>5. Span(pkts).first = x /\ Span(pkts).last = x + n - 1
    BY <1>1, <1>2, <1>3 DEF Span
  <1>6. ASSUME NEW k \in 1..n
        PROVE  x <= x + k - 1 /\ x + k - 1 <= x + n - 1
    BY <1>2, <1>4
  <1>7. ASSUME NEW q \in Int, x <= q, q <= x + n - 1
        PROVE  \E k \in DOMAIN pkts : pkts[k].payload = [client |-> c, seq |-> q]
    <2>1. PICK k : k = q - x + 1
      OBVIOUS
    <2>2. k \in 1..n /\ x + k - 1 = q
      BY <1>2, <1>4, <1>7, <2>1
    <2>3. PICK v : v = pkts[k].payload
      OBVIOUS
    <2>4. v \in Payload /\ v.client = c /\ v.seq = q
      BY <1>3, <2>2, <2>3
    <2>5. v = [client |-> c, seq |-> q]
      BY <2>4, PayloadIs
    <2> QED
      BY <1>2, <2>2, <2>3, <2>5
  <1> QED
    BY <1>2, <1>3, <1>5, <1>6, <1>7

\* p is of client c and in the channel or with the upstream goroutine.
Held(s, conn, pkts, c, p) ==
  \/ \E i \in DOMAIN s : s[i].conn = c /\ \E k \in DOMAIN s[i].pkts : s[i].pkts[k].payload = p
  \/ conn = c /\ \E k \in DOMAIN pkts : pkts[k].payload = p

LEMMA UnseenAre ==
  ASSUME NEW c, NEW p
  PROVE  p \in Unseen(c) <=> Held(channel, up.conn, up.pkts, c, p)
  <1>1. ASSUME NEW pkt
        PROVE  pkt \in InChannel(c) <=>
                 \E i \in {j \in DOMAIN channel : channel[j].conn = c} :
                   \E k \in DOMAIN channel[i].pkts : pkt = channel[i].pkts[k]
    BY DEF InChannel
  <1>2. ASSUME NEW pkt
        PROVE  pkt \in InHand(c) <=> up.conn = c /\ \E k \in DOMAIN up.pkts : pkt = up.pkts[k]
    BY DEF InHand
  <1>3. p \in Unseen(c) <=> \E pkt \in InChannel(c) \cup InHand(c) : p = pkt.payload
    BY DEF Unseen
  <1>4. ASSUME p \in Unseen(c)
        PROVE  Held(channel, up.conn, up.pkts, c, p)
    <2>1. PICK pkt \in InChannel(c) \cup InHand(c) : p = pkt.payload
      BY <1>3, <1>4
    <2> QED
      BY <1>1, <1>2, <2>1 DEF Held
  <1>5. ASSUME NEW i \in DOMAIN channel, channel[i].conn = c,
               NEW k \in DOMAIN channel[i].pkts, channel[i].pkts[k].payload = p
        PROVE  p \in Unseen(c)
    <2>1. channel[i].pkts[k] \in InChannel(c)
      BY <1>1, <1>5
    <2> QED
      BY <1>3, <1>5, <2>1
  <1>6. ASSUME up.conn = c, NEW k \in DOMAIN up.pkts, up.pkts[k].payload = p
        PROVE  p \in Unseen(c)
    <2>1. up.pkts[k] \in InHand(c)
      BY <1>2, <1>6
    <2> QED
      BY <1>3, <1>6, <2>1
  <1> QED
    BY <1>4, <1>5, <1>6 DEF Held

LEMMA InboxHolds ==
  ASSUME NEW s \in Seq(ClientMsg), NEW conn, NEW pkts \in Seq(Packet), NEW c \in Clients,
         \A i \in DOMAIN s : Batch(s[i].pkts, s[i].conn), Batch(pkts, conn),
         NEW lo \in Int, NEW hi \in Int, Line(Inbox(s, conn, pkts, c), lo, hi)
  PROVE  \A p : Held(s, conn, pkts, c, p) <=> p \in PacketsOf(c, lo, hi)
  <1>1. PICK f : f = Inbox(s, conn, pkts, c)
    OBVIOUS
  <1>2. IsInbox(f, s, conn, pkts, c) /\ Line(f, lo, hi)
    BY <1>1, InboxAt
  <1>3. \A i \in DOMAIN s : i # 0 /\ s[i].pkts \in Seq(Packet)
    <2>1. \A i \in DOMAIN s : s[i] \in ClientMsg /\ i \in Nat \ {0}
      OBVIOUS
    <2> QED
      BY <2>1 DEF ClientMsg
  <1>4. ASSUME NEW b \in Seq(Packet), NEW k \in DOMAIN b, Batch(b, c),
               NEW i \in DOMAIN f, f[i] = Span(b)
        PROVE  b[k].payload \in PacketsOf(c, lo, hi)
    <2>1. b # <<>>
      OBVIOUS
    <2>2. /\ b[k].payload \in Payload /\ b[k].payload.client = c
          /\ Span(b).first <= b[k].payload.seq /\ b[k].payload.seq <= Span(b).last
      BY <1>4, <2>1, BatchHolds
    <2>3. /\ lo <= Span(b).first /\ Span(b).last <= hi
          /\ Span(b).first \in Int /\ Span(b).last \in Int
      BY <1>2, <1>4, LineBounds
    <2>4. b[k].payload.seq \in Int
      BY <2>2, PayloadIs
    <2>5. lo <= b[k].payload.seq /\ b[k].payload.seq <= hi
      BY <2>2, <2>3, <2>4
    <2> QED
      BY <2>2, <2>5, PacketsAre
  <1>5. ASSUME NEW i \in DOMAIN s, s[i].conn = c, NEW k \in DOMAIN s[i].pkts
        PROVE  s[i].pkts[k].payload \in PacketsOf(c, lo, hi)
    <2>1. PICK b : b = s[i].pkts
      OBVIOUS
    <2>2. b \in Seq(Packet) /\ b # <<>> /\ k \in DOMAIN b /\ Batch(b, c) /\ i # 0
      BY <1>3, <1>5, <2>1
    <2>3. i \in DOMAIN f /\ f[i] = Span(b)
      BY <1>2, <1>5, <2>1, <2>2 DEF IsInbox
    <2> QED
      BY <1>4, <2>1, <2>2, <2>3
  <1>6. ASSUME conn = c, NEW k \in DOMAIN pkts
        PROVE  pkts[k].payload \in PacketsOf(c, lo, hi)
    <2>1. pkts # <<>> /\ Batch(pkts, c)
      BY <1>6
    <2>2. 0 \in DOMAIN f /\ f[0] = Span(pkts)
      BY <1>2, <1>6, <2>1 DEF IsInbox
    <2> QED
      BY <1>4, <2>1, <2>2
  <1>7. ASSUME NEW q \in lo..hi
        PROVE  \/ \E i \in DOMAIN s : /\ s[i].conn = c
                                      /\ \E k \in DOMAIN s[i].pkts : s[i].pkts[k].payload = [client |-> c, seq |-> q]
               \/ conn = c /\ \E k \in DOMAIN pkts : pkts[k].payload = [client |-> c, seq |-> q]
    <2>1. PICK j \in DOMAIN f : f[j].first <= q /\ q <= f[j].last
      BY <1>2 DEF Line, Covers
    <2>2. CASE j = 0
      <3>1. conn = c /\ pkts # <<>> /\ f[0] = Span(pkts)
        BY <1>2, <1>3, <2>1, <2>2 DEF IsInbox
      <3>2. \E k \in DOMAIN pkts : pkts[k].payload = [client |-> c, seq |-> q]
        BY <2>1, <2>2, <3>1, BatchHolds
      <3> QED
        BY <3>1, <3>2
    <2>3. CASE j # 0
      <3>1. j \in DOMAIN s /\ s[j].conn = c /\ s[j].pkts # <<>> /\ f[j] = Span(s[j].pkts)
        BY <1>2, <2>1, <2>3 DEF IsInbox
      <3>2. PICK b : b = s[j].pkts
        OBVIOUS
      <3>3. b \in Seq(Packet) /\ b # <<>> /\ Batch(b, c) /\ Span(b).first <= q /\ q <= Span(b).last
        BY <1>3, <2>1, <3>1, <3>2
      <3>4. \E k \in DOMAIN b : b[k].payload = [client |-> c, seq |-> q]
        BY <3>3, BatchHolds
      <3> QED
        BY <3>1, <3>2, <3>4
    <2> QED
      BY <2>2, <2>3
  <1>8. ASSUME NEW p, Held(s, conn, pkts, c, p)
        PROVE  p \in PacketsOf(c, lo, hi)
    BY <1>5, <1>6, <1>8 DEF Held
  <1>9. ASSUME NEW p \in PacketsOf(c, lo, hi)
        PROVE  Held(s, conn, pkts, c, p)
    <2>1. PICK q \in lo..hi : p = [client |-> c, seq |-> q]
      BY <1>9 DEF PacketsOf
    <2> QED
      BY <1>7, <2>1 DEF Held
  <1> QED
    BY <1>8, <1>9

\* The payloads of pending, as packets.
LEMMA PendingHolds ==
  ASSUME NEW w \in Seq(Payload), w # <<>>, NEW c, NEW a \in Nat, PendingTo(w, c, a)
  PROVE  \E first \in 0..a : {w[i] : i \in DOMAIN w} = PacketsOf(c, first, a)
  <1>1. PICK n, first : n = Len(w) /\ first = a + 1 - n
    OBVIOUS
  <1>2. n \in Nat /\ n >= 1 /\ DOMAIN w = 1..n
    BY <1>1, EmptySeq
  <1>3. \A i \in 1..n : w[i] \in Payload /\ w[i].client = c /\ w[i].seq = a - n + i
    BY <1>1, <1>2 DEF PendingTo
  <1>4. first \in 0..a
    <2>1. w[1].seq \in Nat /\ w[1].seq = a - n + 1
      BY <1>2, <1>3, PayloadIs
    <2> QED
      BY <1>1, <1>2, <2>1
  <1>5. ASSUME NEW i \in 1..n
        PROVE  w[i] \in PacketsOf(c, first, a)
    <2>1. first <= w[i].seq /\ w[i].seq <= a /\ first \in Int /\ a \in Int
      BY <1>1, <1>2, <1>3, <1>4
    <2> QED
      BY <1>3, <2>1, PacketsAre
  <1>6. ASSUME NEW p \in PacketsOf(c, first, a)
        PROVE  \E i \in 1..n : w[i] = p
    <2>1. PICK q \in first..a : p = [client |-> c, seq |-> q]
      BY <1>6 DEF PacketsOf
    <2>2. PICK i : i = q - a + n
      OBVIOUS
    <2>3. i \in 1..n /\ a - n + i = q
      BY <1>1, <1>2, <1>4, <2>1, <2>2
    <2>4. PICK v : v = w[i]
      OBVIOUS
    <2>5. v \in Payload /\ v.client = c /\ v.seq = q
      BY <1>3, <2>3, <2>4
    <2>6. v = [client |-> c, seq |-> q]
      BY <2>5, PayloadIs
    <2> QED
      BY <2>1, <2>3, <2>4, <2>6
  <1> QED
    BY <1>2, <1>4, <1>5, <1>6

\* All that a connection was sent or is about to be sent is in queue and out.
LEMMA PipelineIs ==
  ASSUME IInv, NEW d
  PROVE  Pipeline(d) = Contents(conns[d].out, queue, d)
  <1>1. PICK a, b, q : a = tasks /\ b = up.io /\ q = queue
    OBVIOUS
  <1>2. /\ a \in Seq(UpIO) /\ b \in Seq(UpIO) /\ q = a \o b
    BY <1>1, QueueType DEF queue
  <1>3. WritesTo(d, q) = WritesTo(d, a) \cup WritesTo(d, b)
    <2>1. /\ \A i \in DOMAIN q : \/ i \in DOMAIN a /\ q[i] = a[i]
                                 \/ \E j \in DOMAIN b : q[i] = b[j]
      BY <1>2, JoinedFrom
    <2>2. /\ \A i \in DOMAIN a : i \in DOMAIN q /\ q[i] = a[i]
          /\ \A j \in DOMAIN b : \E i \in DOMAIN q : q[i] = b[j]
      BY <1>2, JoinedHas
    <2>3. WritesTo(d, q) \subseteq WritesTo(d, a) \cup WritesTo(d, b)
      BY <2>1 DEF WritesTo
    <2>4. WritesTo(d, a) \cup WritesTo(d, b) \subseteq WritesTo(d, q)
      BY <2>2 DEF WritesTo
    <2> QED
      BY <2>3, <2>4
  <1> QED
    BY <1>1, <1>3 DEF Pipeline, Contents

\* UpstreamNotLost, of one client.
LEMMA ClientNotLost ==
  ASSUME IInv, SafetyInv, UpInv, NEW c \in DOMAIN byClient, NEW d, NEW w, NEW s,
         s = byClient[c], d = sess[s].destConn, w = sess[s].pending,
         d = NoConn \/ conns[d].st = "open"
  PROVE  \E last \in 0..nup[c] : \E first \in 0..last :
           /\ (IF d = NoConn THEN {} ELSE Pipeline(d)) \cup {w[i] : i \in DOMAIN w}
                = PacketsOf(c, first, last)
           /\ Unseen(c) = PacketsOf(c, last + 1, nup[c])
  <1>1. /\ c \in Clients /\ s \in DOMAIN sess /\ w \in Seq(Payload) /\ nup[c] \in Nat
        /\ d # NoConn => d = s /\ d \in DOMAIN dials /\ d \in DOMAIN conns
    <2>1. c \in Clients /\ s \in DOMAIN sess /\ nup[c] \in Nat
      BY DEF IInv, TypeOK, TableTypeOK, ClientTypeOK
    <2> QED
      BY <2>1, SessionNumbers, ConnsType, SessFields DEF UpInv
  <1>2. PICK a \in Nat : /\ Line(Inbox(channel, up.conn, up.pkts, c), a + 1, nup[c])
                         /\ Kept(c, a)
    BY <1>1 DEF UpInv, Streams
  <1>3. a \in 0..nup[c] /\ a + 1 \in Int
    <2>1. a + 1 <= nup[c] + 1
      BY <1>2 DEF Line
    <2> QED
      BY <1>1, <2>1
  <1>4. Unseen(c) = PacketsOf(c, a + 1, nup[c])
    <2>1. /\ channel \in Seq(ClientMsg) /\ up.pkts \in Seq(Packet)
          /\ \A i \in DOMAIN channel : Batch(channel[i].pkts, channel[i].conn)
          /\ Batch(up.pkts, up.conn)
      BY DEF IInv, TypeOK, ClientTypeOK, GoroutineTypeOK, Goroutine, UpInv, BatchesRun
    <2>2. \A p : Held(channel, up.conn, up.pkts, c, p) <=> p \in PacketsOf(c, a + 1, nup[c])
      BY <1>1, <1>2, <1>3, <2>1, InboxHolds
    <2> QED
      BY <2>2, UnseenAre
  <1>5. \E first \in 0..a :
          (IF d = NoConn THEN {} ELSE Pipeline(d)) \cup {w[i] : i \in DOMAIN w} = PacketsOf(c, first, a)
    <2>1. CASE sess[s].dialing
      <3>1. w # <<>>
        BY <2>1 DEF IInv, Core, ReadyMeansBound
      <3>2. PendingTo(w, c, a)
        BY <1>2, <2>1 DEF Kept
      <3>3. d # NoConn => Pipeline(d) = {}
        <4>1. SUFFICES ASSUME d # NoConn
                       PROVE  Pipeline(d) = {}
          OBVIOUS
        <4>2. conns[d].out = <<>> /\ Writes(queue, d) = {}
          BY <1>1, <2>1, <4>1 DEF UpInv, DialingUnused, Unused
        <4>3. WritesTo(d, queue) = {}
          BY <4>2 DEF WritesTo, Writes
        <4> QED
          BY <4>2, <4>3, PipelineIs DEF Contents
      <3>4. (IF d = NoConn THEN {} ELSE Pipeline(d)) = {}
        BY <3>3
      <3>5. \E first \in 0..a : {w[i] : i \in DOMAIN w} = PacketsOf(c, first, a)
        BY <1>1, <3>1, <3>2, PendingHolds
      <3> QED
        BY <3>4, <3>5
    <2>2. CASE ~sess[s].dialing
      <3>1. d # NoConn /\ w = <<>>
        BY <2>2 DEF IInv, Core, ReadyMeansBound
      <3>2. conns[d].st = "open" /\ d = s /\ d \in DOMAIN conns /\ d \in DOMAIN dials
        BY <1>1, <3>1
      <3>3. PICK lo \in Int : lo <= a /\ Line(Pipe(conns[d].out, queue, d), lo, a)
        BY <1>2, <2>2, <3>2 DEF Kept
      <3>4. dials[d].token.client = c
        <4>1. d \in DOMAIN byDest /\ byDest[d] = c
          BY <3>1 DEF IInv, Core, RouteConsistent
        <4> QED
          BY <4>1 DEF SafetyInv, RoutesOwn
      <3>5. PICK out, q : out = conns[d].out /\ q = queue
        OBVIOUS
      <3>6. /\ out \in Seq(Payload) /\ q \in Seq(UpIO) /\ Line(Pipe(out, q, d), lo, a)
            /\ AllOf(out, q, d, c)
        <4>1. \A i \in DOMAIN out : out[i].client = c
          BY <3>2, <3>4, <3>5 DEF UpInv, UpstreamInOrder, IsRun
        <4>2. \A i \in Writes(q, d) : q[i].payload.client = c
          BY <3>4, <3>5 DEF UpInv, Own, Writes
        <4> QED
          BY <3>2, <3>3, <3>5, <4>1, <4>2, ConnsType, QueueType DEF AllOf
      <3>7. /\ Contents(out, q, d) = PacketsOf(c, lo, a)
            /\ lo <= a => lo \in Nat
        <4>1. lo \in Int /\ a \in Int /\ c \in Clients
          BY <1>1
        <4> QED
          BY <3>6, <4>1, PipeHolds
      <3>8. Pipeline(d) = PacketsOf(c, lo, a)
        <4>1. Pipeline(d) = Contents(out, q, d)
          BY <3>5, PipelineIs
        <4> QED
          BY <3>7, <4>1
      <3>9. {w[i] : i \in DOMAIN w} = {}
        BY <3>1
      <3>10. lo \in 0..a
        BY <3>3, <3>7
      <3> QED
        BY <3>1, <3>8, <3>9, <3>10
    <2> QED
      BY <2>1, <2>2
  <1> QED
    BY <1>3, <1>4, <1>5

\* While the connection of a client's session is open, every packet the
\* client sent since the session began is pending, on its way, written, or
\* not admitted yet: the unlock between a decision and its call, the hand-over
\* of pending to the replay and the purge of older sessions lose none.
THEOREM UpstreamComplete == Spec => []UpstreamNotLost
  <1>1. ASSUME IInv, SafetyInv, UpInv
        PROVE  UpstreamNotLost
    BY <1>1, ClientNotLost, SMTT(30) DEF UpstreamNotLost
  <1> QED
    BY <1>1, UpstreamInvariant, PTL

(***************************************************************************)
(* Downstream: lines of what a connection sent                             *)
(***************************************************************************)
IsSent(f, got, io, s, d) ==
  /\ DOMAIN f \subseteq Int
  /\ \A k \in Int :
       k \in DOMAIN f <=>
         \/ k \in DOMAIN s /\ s[k].conn = d /\ s[k].pkts # <<>>
         \/ k = 0 /\ Writing(io, d)
         \/ k \in (-Len(got))..(-1) /\ got[k + 1 + Len(got)].conn = d
  /\ \A k \in DOMAIN f :
       f[k] = IF k > 0 THEN Single(s[k].pkts[1].seq)
              ELSE IF k = 0 THEN Single(io[1].pkt.seq)
              ELSE Single(got[k + 1 + Len(got)].seq)

LEMMA SentAt ==
  ASSUME NEW got \in Seq(Pkt), NEW io, NEW s \in Seq(ConnEvent), NEW d
  PROVE  IsSent(Sent(got, io, s, d), got, io, s, d)
  <1>1. DOMAIN s \subseteq Int /\ Len(got) \in Nat
    OBVIOUS
  <1>2. (-Len(got))..(-1) \subseteq Int
    BY <1>1
  <1> QED
    BY <1>1, <1>2 DEF Sent, IsSent

\* Two sequences of events with the same packets of d at the same places.
SamePackets(s2, s, d) ==
  /\ \A k : (k \in DOMAIN s2 /\ s2[k].conn = d /\ s2[k].pkts # <<>>)
             <=> (k \in DOMAIN s /\ s[k].conn = d /\ s[k].pkts # <<>>)
  /\ \A k \in DOMAIN s : k \in DOMAIN s2 => s2[k] = s[k]

LEMMA SentSame ==
  ASSUME NEW got \in Seq(Pkt), NEW io, NEW io2,
         NEW s \in Seq(ConnEvent), NEW s2 \in Seq(ConnEvent), NEW d,
         SamePackets(s2, s, d), Writing(io2, d) <=> Writing(io, d), Writing(io, d) => io2 = io
  PROVE  Sent(got, io2, s2, d) = Sent(got, io, s, d)
  <1>1. PICK f, g : f = Sent(got, io, s, d) /\ g = Sent(got, io2, s2, d)
    OBVIOUS
  <1>2. IsSent(f, got, io, s, d) /\ IsSent(g, got, io2, s2, d)
    BY <1>1, SentAt
  <1>3. \A k \in Int : k \in DOMAIN f <=> k \in DOMAIN g
    BY <1>2 DEF IsSent, SamePackets
  <1>4. DOMAIN f = DOMAIN g
    BY <1>2, <1>3 DEF IsSent
  <1>5. ASSUME NEW k \in DOMAIN f
        PROVE  f[k] = g[k]
    <2>1. k \in Int /\ k \in DOMAIN g
      BY <1>2, <1>4 DEF IsSent
    <2>2. CASE k > 0
      <3>1. k # 0 /\ k \notin (-Len(got))..(-1)
        BY <2>1, <2>2
      <3>2. k \in DOMAIN s /\ s2[k] = s[k]
        BY <1>2, <2>1, <3>1 DEF IsSent, SamePackets
      <3> QED
        BY <1>2, <2>1, <2>2, <3>2 DEF IsSent
    <2>3. CASE k = 0
      <3>1. k \notin DOMAIN s /\ k \notin (-Len(got))..(-1)
        BY <2>3
      <3>2. Writing(io, d)
        BY <1>2, <2>1, <3>1 DEF IsSent
      <3> QED
        BY <1>2, <2>1, <2>3, <3>2 DEF IsSent
    <2>4. CASE k < 0
      <3>1. ~(k > 0) /\ k # 0
        BY <2>1, <2>4
      <3> QED
        BY <1>2, <2>1, <3>1 DEF IsSent
    <2> QED
      BY <2>1, <2>2, <2>3, <2>4
  <1>6. f = [k \in DOMAIN f |-> f[k]] /\ g = [k \in DOMAIN g |-> g[k]]
    BY <1>1 DEF Sent
  <1> QED
    BY <1>1, <1>4, <1>5, <1>6

\* One more event without a packet of d.
LEMMA SentOfOthers ==
  ASSUME NEW got \in Seq(Pkt), NEW io, NEW s \in Seq(ConnEvent), NEW m \in ConnEvent, NEW d,
         m.conn # d \/ m.pkts = <<>>
  PROVE  Sent(got, io, Append(s, m), d) = Sent(got, io, s, d)
  <1>1. PICK n, s2 : n = Len(s) /\ s2 = Append(s, m)
    OBVIOUS
  <1>2. /\ n \in Nat /\ DOMAIN s = 1..n /\ DOMAIN s2 = 1..(n + 1) /\ s2[n + 1] = m
        /\ \A k \in 1..n : s2[k] = s[k]
    BY <1>1
  <1>3. \A k : k \in 1..(n + 1) <=> k \in 1..n \/ k = n + 1
    BY <1>2
  <1>4. n + 1 \notin 1..n
    BY <1>2
  <1>5. \A k : (k \in DOMAIN s2 /\ s2[k].conn = d /\ s2[k].pkts # <<>>)
                 <=> (k \in DOMAIN s /\ s[k].conn = d /\ s[k].pkts # <<>>)
    BY <1>2, <1>3, <1>4
  <1>6. \A k \in DOMAIN s : k \in DOMAIN s2 => s2[k] = s[k]
    BY <1>2
  <1>7. SamePackets(s2, s, d) /\ s2 \in Seq(ConnEvent)
    BY <1>1, <1>5, <1>6 DEF SamePackets
  <1>8. /\ Writing(io, d) <=> Writing(io, d)
        /\ Writing(io, d) => io = io
    OBVIOUS
  <1>9. Sent(got, io, s2, d) = Sent(got, io, s, d)
    BY <1>7, <1>8, SentSame
  <1> QED
    BY <1>1, <1>9

\* One more packet of d, the next.
LEMMA SentMore ==
  ASSUME NEW got \in Seq(Pkt), NEW io, NEW s \in Seq(ConnEvent), NEW m \in ConnEvent, NEW d,
         NEW lo, NEW hi, Line(Sent(got, io, s, d), lo, hi),
         m.conn = d, m.pkts # <<>>, m.pkts[1].seq = hi + 1
  PROVE  Line(Sent(got, io, Append(s, m), d), lo, hi + 1)
  <1>1. PICK n, s2, f, g : /\ n = Len(s) /\ s2 = Append(s, m)
                           /\ f = Sent(got, io, s, d) /\ g = Sent(got, io, s2, d)
    OBVIOUS
  <1>2. /\ n \in Nat /\ DOMAIN s = 1..n /\ DOMAIN s2 = 1..(n + 1) /\ s2[n + 1] = m
        /\ \A k \in 1..n : s2[k] = s[k]
        /\ s2 \in Seq(ConnEvent)
    BY <1>1
  <1>3. IsSent(f, got, io, s, d) /\ IsSent(g, got, io, s2, d) /\ Line(f, lo, hi)
    BY <1>1, <1>2, SentAt
  <1>4. PICK j : j = n + 1
    OBVIOUS
  <1>5. /\ j \in Int /\ j > 0 /\ j \notin 1..n /\ s2[j] = m
        /\ \A k \in Int : k \in 1..(n + 1) <=> k \in 1..n \/ k = j
    BY <1>2, <1>4
  <1>6. j \notin (-Len(got))..(-1) /\ j # 0
    BY <1>5
  <1>7. ASSUME NEW i \in DOMAIN f
        PROVE  i < j /\ i \in DOMAIN g /\ g[i] = f[i]
    <2>1. i \in Int
      BY <1>3 DEF IsSent
    <2>2. \/ i \in 1..n /\ s[i].conn = d /\ s[i].pkts # <<>>
          \/ i = 0 /\ Writing(io, d)
          \/ i \in (-Len(got))..(-1) /\ got[i + 1 + Len(got)].conn = d
      BY <1>2, <1>3, <2>1 DEF IsSent
    <2>3. i < j
      BY <1>2, <1>4, <2>1, <2>2
    <2>4. i \in DOMAIN g
      BY <1>2, <1>3, <1>5, <2>1, <2>2 DEF IsSent
    <2>5. i > 0 => s2[i] = s[i]
      BY <1>2, <2>1, <2>2
    <2> QED
      BY <1>3, <2>3, <2>4, <2>5 DEF IsSent
  <1>8. j \in DOMAIN g /\ g[j] = Single(hi + 1)
    BY <1>2, <1>3, <1>5 DEF IsSent
  <1>9. DOMAIN g = DOMAIN f \cup {j}
    <2>1. ASSUME NEW i \in DOMAIN g, i # j
          PROVE  i \in DOMAIN f
      <3>1. i \in Int
        BY <1>3 DEF IsSent
      <3>2. \/ i \in 1..(n + 1) /\ s2[i].conn = d /\ s2[i].pkts # <<>>
            \/ i = 0 /\ Writing(io, d)
            \/ i \in (-Len(got))..(-1) /\ got[i + 1 + Len(got)].conn = d
        BY <1>2, <1>3, <3>1 DEF IsSent
      <3>3. i \in 1..(n + 1) => i \in 1..n /\ s2[i] = s[i]
        BY <1>2, <1>5, <2>1, <3>1
      <3> QED
        BY <1>2, <1>3, <3>1, <3>2, <3>3 DEF IsSent
    <2> QED
      BY <1>7, <1>8, <2>1
  <1>10. hi \in Int /\ hi + 1 \in Int /\ hi < hi + 1
    BY <1>3 DEF Line
  <1>11. g[j].first = hi + 1 /\ g[j].last = hi + 1
    BY <1>8 DEF Single
  <1>12. Line(g, lo, hi + 1)
    BY <1>3, <1>5, <1>7, <1>9, <1>10, <1>11, LineMore
  <1> QED
    BY <1>1, <1>12

\* The first event is received: its packet, if it is d's, is at hand.
LEMMA SentTaken ==
  ASSUME NEW got \in Seq(Pkt), NEW s \in Seq(ConnEvent), s # <<>>, NEW io, NEW d,
         NEW lo, NEW hi, Line(Sent(got, <<>>, s, d), lo, hi),
         Writing(io, d) <=> Head(s).conn = d /\ Head(s).pkts # <<>>,
         Writing(io, d) => io[1].pkt.seq = Head(s).pkts[1].seq
  PROVE  Line(Sent(got, io, Tail(s), d), lo, hi)
  <1>1. PICK n, m, s2, f, g : /\ n = Len(s) /\ s2 = Tail(s) /\ m = Len(got)
                              /\ f = Sent(got, <<>>, s, d) /\ g = Sent(got, io, s2, d)
    OBVIOUS
  <1>2. /\ n \in Nat /\ n >= 1 /\ DOMAIN s = 1..n /\ DOMAIN s2 = 1..(n - 1)
        /\ \A k \in 1..(n - 1) : s2[k] = s[k + 1]
        /\ s2 \in Seq(ConnEvent) /\ Head(s) = s[1] /\ m \in Nat
    BY <1>1
  <1>3. IsSent(f, got, <<>>, s, d) /\ IsSent(g, got, io, s2, d) /\ Line(f, lo, hi)
    BY <1>1, <1>2, SentAt
  <1>4. ~Writing(<<>>, d)
    BY DEF Writing
  <1>5. ASSUME NEW k \in Int
        PROVE  /\ k \in DOMAIN f <=> \/ k \in 1..n /\ s[k].conn = d /\ s[k].pkts # <<>>
                                     \/ k \in (-m)..(-1) /\ got[k + 1 + m].conn = d
               /\ k \in DOMAIN g <=> \/ k \in 1..(n - 1) /\ s2[k].conn = d /\ s2[k].pkts # <<>>
                                     \/ k = 0 /\ Writing(io, d)
                                     \/ k \in (-m)..(-1) /\ got[k + 1 + m].conn = d
    BY <1>1, <1>2, <1>3, <1>4 DEF IsSent
  <1>6. PICK h : h = [i \in DOMAIN g |-> IF i >= 0 THEN i + 1 ELSE i]
    OBVIOUS
  <1>7. ASSUME NEW i \in DOMAIN g
        PROVE  /\ i \in Int /\ h[i] = (IF i >= 0 THEN i + 1 ELSE i)
               /\ h[i] \in DOMAIN f /\ g[i] = f[h[i]]
    <2>1. i \in Int /\ h[i] = IF i >= 0 THEN i + 1 ELSE i
      BY <1>3, <1>6 DEF IsSent
    <2>2. CASE i \in 1..(n - 1) /\ s2[i].conn = d /\ s2[i].pkts # <<>>
      <3>1. i >= 0 /\ i > 0 /\ i + 1 \in 1..n /\ i + 1 > 0 /\ i + 1 \in Int /\ s2[i] = s[i + 1]
        BY <1>2, <2>1, <2>2
      <3>2. i + 1 \in DOMAIN f
        BY <1>5, <2>2, <3>1
      <3>3. g[i] = Single(s2[i].pkts[1].seq) /\ f[i + 1] = Single(s[i + 1].pkts[1].seq)
        BY <1>3, <3>1, <3>2 DEF IsSent
      <3> QED
        BY <2>1, <3>1, <3>2, <3>3
    <2>3. CASE i = 0 /\ Writing(io, d)
      <3>1. 1 \in 1..n /\ s[1].conn = d /\ s[1].pkts # <<>>
        BY <1>2, <2>3
      <3>2. 1 \in DOMAIN f
        BY <1>5, <3>1
      <3>3. g[0] = Single(io[1].pkt.seq) /\ f[1] = Single(s[1].pkts[1].seq)
        BY <1>3, <2>3, <3>2 DEF IsSent
      <3> QED
        BY <1>2, <2>1, <2>3, <3>2, <3>3
    <2>4. CASE i \in (-m)..(-1) /\ got[i + 1 + m].conn = d
      <3>1. ~(i >= 0) /\ ~(i > 0) /\ i # 0
        BY <1>2, <2>4
      <3>2. i \in DOMAIN f
        BY <1>5, <2>1, <2>4
      <3>3. g[i] = Single(got[i + 1 + m].seq) /\ f[i] = Single(got[i + 1 + m].seq)
        BY <1>1, <1>3, <3>1, <3>2 DEF IsSent
      <3> QED
        BY <2>1, <3>1, <3>2, <3>3
    <2> QED
      BY <1>5, <2>1, <2>2, <2>3, <2>4
  <1>8. ASSUME NEW i \in DOMAIN g, NEW j \in DOMAIN g, i < j
        PROVE  h[i] < h[j]
    BY <1>7, <1>8
  <1>9. ASSUME NEW k \in DOMAIN f
        PROVE  \E i \in DOMAIN g : h[i] = k
    <2>1. k \in Int
      BY <1>3 DEF IsSent
    <2>2. CASE k \in 1..n /\ s[k].conn = d /\ s[k].pkts # <<>>
      <3>1. PICK i : i = k - 1
        OBVIOUS
      <3>2. i \in Int /\ i >= 0 /\ i + 1 = k
        BY <1>2, <2>1, <2>2, <3>1
      <3>3. i \in DOMAIN g
        <4>1. CASE i = 0
          BY <1>2, <1>5, <2>2, <3>2, <4>1
        <4>2. CASE i # 0
          <5>1. i \in 1..(n - 1) /\ s2[i] = s[k]
            BY <1>2, <2>2, <3>2, <4>2
          <5> QED
            BY <1>5, <2>2, <3>2, <5>1
        <4> QED
          BY <4>1, <4>2
      <3> QED
        BY <1>7, <3>2, <3>3
    <2>3. CASE k \in (-m)..(-1) /\ got[k + 1 + m].conn = d
      <3>1. k \in DOMAIN g /\ ~(k >= 0)
        BY <1>2, <1>5, <2>1, <2>3
      <3> QED
        BY <1>7, <3>1
    <2> QED
      BY <1>5, <2>1, <2>2, <2>3
  <1>10. Moved(f, g, h)
    BY <1>7, <1>8, <1>9 DEF Moved
  <1> QED
    BY <1>1, <1>3, <1>10, LineMoved

\* The packet at hand is written to the client.
LEMMA SentDelivered ==
  ASSUME NEW got \in Seq(Pkt), NEW s \in Seq(ConnEvent), NEW io, NEW p \in Pkt, NEW d,
         NEW lo, NEW hi, Line(Sent(got, io, s, d), lo, hi),
         Writing(io, d) <=> p.conn = d, Writing(io, d) => io[1].pkt = p
  PROVE  Line(Sent(Append(got, p), <<>>, s, d), lo, hi)
  <1>1. PICK n, m, got2, f, g : /\ n = Len(s) /\ got2 = Append(got, p) /\ m = Len(got)
                                /\ f = Sent(got, io, s, d) /\ g = Sent(got2, <<>>, s, d)
    OBVIOUS
  <1>2. /\ n \in Nat /\ DOMAIN s = 1..n /\ m \in Nat
        /\ got2 \in Seq(Pkt) /\ Len(got2) = m + 1 /\ got2[m + 1] = p
        /\ \A k \in 1..m : got2[k] = got[k]
    BY <1>1
  <1>3. IsSent(f, got, io, s, d) /\ IsSent(g, got2, <<>>, s, d) /\ Line(f, lo, hi)
    BY <1>1, <1>2, SentAt
  <1>4. ~Writing(<<>>, d)
    BY DEF Writing
  <1>5. ASSUME NEW k \in Int
        PROVE  /\ k \in DOMAIN f <=> \/ k \in 1..n /\ s[k].conn = d /\ s[k].pkts # <<>>
                                     \/ k = 0 /\ Writing(io, d)
                                     \/ k \in (-m)..(-1) /\ got[k + 1 + m].conn = d
               /\ k \in DOMAIN g <=> \/ k \in 1..n /\ s[k].conn = d /\ s[k].pkts # <<>>
                                     \/ k \in (-(m + 1))..(-1) /\ got2[k + 1 + (m + 1)].conn = d
    BY <1>1, <1>2, <1>3, <1>4 DEF IsSent
  <1>6. PICK h : h = [i \in DOMAIN g |-> IF i < 0 THEN i + 1 ELSE i]
    OBVIOUS
  <1>7. ASSUME NEW i \in DOMAIN g
        PROVE  /\ i \in Int /\ i # 0 /\ h[i] = (IF i < 0 THEN i + 1 ELSE i)
               /\ h[i] \in DOMAIN f /\ g[i] = f[h[i]]
    <2>1. i \in Int /\ h[i] = IF i < 0 THEN i + 1 ELSE i
      BY <1>3, <1>6 DEF IsSent
    <2>2. CASE i \in 1..n /\ s[i].conn = d /\ s[i].pkts # <<>>
      <3>1. ~(i < 0) /\ i > 0
        BY <1>2, <2>1, <2>2
      <3>2. i \in DOMAIN f
        BY <1>5, <2>1, <2>2
      <3>3. g[i] = Single(s[i].pkts[1].seq) /\ f[i] = Single(s[i].pkts[1].seq)
        BY <1>3, <3>1, <3>2 DEF IsSent
      <3> QED
        BY <2>1, <3>1, <3>2, <3>3
    <2>3. CASE i \in (-(m + 1))..(-1) /\ got2[i + 1 + (m + 1)].conn = d
      <3>1. i < 0 /\ ~(i > 0) /\ i # 0 /\ i + 1 \in Int
        BY <1>2, <2>1, <2>3
      <3>2. g[i] = Single(got2[i + 1 + (m + 1)].seq)
        BY <1>2, <1>3, <3>1 DEF IsSent
      <3>3. CASE i = -1
        <4>1. i + 1 + (m + 1) = m + 1 /\ i + 1 = 0
          BY <1>2, <3>3
        <4>2. 0 \in DOMAIN f /\ Writing(io, d)
          BY <1>2, <1>5, <2>3, <4>1
        <4>3. f[0] = Single(p.seq)
          BY <1>3, <4>2 DEF IsSent
        <4> QED
          BY <1>2, <2>1, <3>1, <3>2, <4>1, <4>2, <4>3
      <3>4. CASE i # -1
        <4>1. PICK k : k = i + 1
          OBVIOUS
        <4>2. /\ k \in Int /\ k \in (-m)..(-1) /\ k + 1 + m = i + 1 + (m + 1)
              /\ k + 1 + m \in 1..m /\ ~(k > 0) /\ k # 0
          <5>1. i \in Int /\ m \in Nat /\ -(m + 1) <= i /\ i <= -1 /\ i # -1
            BY <1>2, <2>1, <2>3, <3>4
          <5> QED
            BY <4>1, <5>1
        <4>3. got2[k + 1 + m] = got[k + 1 + m]
          BY <1>2, <4>2
        <4>4. k \in DOMAIN f
          BY <1>5, <2>3, <4>2, <4>3
        <4>5. f[k] = Single(got[k + 1 + m].seq)
          BY <1>1, <1>3, <4>2, <4>4 DEF IsSent
        <4>6. g[i] = f[k]
          BY <3>2, <4>2, <4>3, <4>5
        <4> QED
          BY <2>1, <3>1, <4>1, <4>4, <4>6
      <3> QED
        BY <3>3, <3>4
    <2> QED
      BY <1>5, <2>1, <2>2, <2>3
  <1>8. ASSUME NEW i \in DOMAIN g, NEW j \in DOMAIN g, i < j
        PROVE  h[i] < h[j]
    BY <1>7, <1>8
  <1>9. ASSUME NEW k \in DOMAIN f
        PROVE  \E i \in DOMAIN g : h[i] = k
    <2>1. k \in Int
      BY <1>3 DEF IsSent
    <2>2. CASE k \in 1..n /\ s[k].conn = d /\ s[k].pkts # <<>>
      <3>1. k \in DOMAIN g /\ ~(k < 0)
        BY <1>2, <1>5, <2>1, <2>2
      <3> QED
        BY <1>7, <3>1
    <2>3. CASE k = 0 /\ Writing(io, d)
      <3>1. -1 \in Int /\ -1 \in (-(m + 1))..(-1) /\ -1 + 1 + (m + 1) = m + 1 /\ -1 < 0 /\ -1 + 1 = 0
        BY <1>2
      <3>2. -1 \in DOMAIN g
        BY <1>2, <1>5, <2>3, <3>1
      <3> QED
        BY <1>7, <2>3, <3>1, <3>2
    <2>4. CASE k \in (-m)..(-1) /\ got[k + 1 + m].conn = d
      <3>1. PICK i : i = k - 1
        OBVIOUS
      <3>2. /\ i \in Int /\ i < 0 /\ i + 1 = k /\ i \in (-(m + 1))..(-1)
            /\ i + 1 + (m + 1) = k + 1 + m /\ k + 1 + m \in 1..m
        BY <1>2, <2>1, <2>4, <3>1
      <3>3. got2[i + 1 + (m + 1)] = got[k + 1 + m]
        BY <1>2, <3>2
      <3>4. i \in DOMAIN g
        BY <1>5, <2>4, <3>2, <3>3
      <3> QED
        BY <1>7, <3>2, <3>4
    <2> QED
      BY <1>5, <2>1, <2>2, <2>3, <2>4
  <1>10. Moved(f, g, h)
    BY <1>7, <1>8, <1>9 DEF Moved
  <1> QED
    BY <1>1, <1>3, <1>10, LineMoved

(***************************************************************************)
(* Downstream: what a step leaves as it is                                 *)
(***************************************************************************)

\* A connection that was opened is not new again.
OpenedStay ==
  \A d \in DOMAIN conns :
    /\ d \in DOMAIN conns'
    /\ conns[d].st # "new" => conns'[d].st # "new"

\* No connection has sent more than it had.
ConnsLast ==
  /\ OpenedStay
  /\ \A d \in DOMAIN conns : conns'[d].in = conns[d].in
  /\ \A d \in DOMAIN conns' \ DOMAIN conns : conns'[d].in = 0

\* A client's session stays, goes, or gives way to a newer one.
SessionsRise ==
  \A c \in DOMAIN byClient' :
    \/ c \in DOMAIN byClient /\ byClient'[c] = byClient[c]
    \/ \A d \in DOMAIN conns : d <= byClient'[c]

\* A client connection is open only from the start.
ClosedForGood == \A c \in Clients : cstate'[c] = "open" => cstate[c] = "open"

EventsKept == events' = events /\ Len(loop'.blocked) <= 1

EventsAdded(msg) == events' = Append(events, msg) /\ Len(loop'.blocked) <= 1

LEMMA NotNewerKept ==
  ASSUME OpenedStay, SessionsRise, NEW d, NEW c, NotNewer(d, c)
  PROVE  NotNewer(d, c)'
  BY DEF OpenedStay, SessionsRise, NotNewer

LEMMA EventsType ==
  ASSUME IInv
  PROVE  /\ events \in Seq(ConnEvent) /\ recvChan \in Seq(ConnEvent) /\ loop.blocked \in Seq(ConnEvent)
         /\ \A c \in Clients : delivered[c] \in Seq(Pkt)
         /\ down.io \in Seq(DownIO)
  <1>1. recvChan \in Seq(ConnEvent) /\ loop.blocked \in Seq(ConnEvent)
    BY DEF IInv, TypeOK, DialerTypeOK, Loop
  <1>2. events \in Seq(ConnEvent)
    BY <1>1 DEF events
  <1> QED
    BY <1>1, <1>2 DEF IInv, TypeOK, ClientTypeOK, GoroutineTypeOK

\* Every event is of a connection that was dialed, and so are its packets.
LEMMA EventTold ==
  ASSUME IInv, SafetyInv
  PROVE  \A i \in DOMAIN events :
           /\ events[i].conn \in DOMAIN conns
           /\ \A k \in DOMAIN events[i].pkts : events[i].pkts[k].conn = events[i].conn
  <1>1. PICK a, b : a = recvChan /\ b = loop.blocked
    OBVIOUS
  <1>2. a \in Seq(ConnEvent) /\ b \in Seq(ConnEvent) /\ events = a \o b
    BY <1>1, EventsType DEF events
  <1>3. \A i \in DOMAIN (a \o b) : \/ i \in DOMAIN a /\ (a \o b)[i] = a[i]
                                   \/ \E j \in DOMAIN b : (a \o b)[i] = b[j]
    BY <1>2, JoinedFrom
  <1>4. Told(a, conns) /\ Told(b, conns)
    BY <1>1 DEF SafetyInv, DialerTold
  <1> QED
    BY <1>2, <1>3, <1>4 DEF Told

\* The events stay of connections that were opened.
LEMMA EventsStayWellFormed ==
  ASSUME IInv, EventsWellFormed, OpenedStay, SafetyInv, EventsKept
  PROVE  EventsWellFormed'
  <1>1. \A i \in DOMAIN events : events[i].conn \in DOMAIN conns
    BY EventTold
  <1> QED
    BY <1>1 DEF EventsWellFormed, OpenedStay, EventsKept

LEMMA EventsGrowWellFormed ==
  ASSUME IInv, EventsWellFormed, OpenedStay, SafetyInv, NEW msg \in ConnEvent, EventsAdded(msg),
         Len(msg.pkts) <= 1, msg.event = "Close" => msg.pkts = <<>>, conns'[msg.conn].st # "new"
  PROVE  EventsWellFormed'
  <1>1. PICK s : s = events
    OBVIOUS
  <1>2. s \in Seq(ConnEvent)
    BY <1>1, EventsType
  <1>3. \A i \in DOMAIN Append(s, msg) : (i \in DOMAIN s /\ Append(s, msg)[i] = s[i]) \/ Append(s, msg)[i] = msg
    BY <1>2
  <1>4. \A i \in DOMAIN s : /\ s[i].conn \in DOMAIN conns /\ Len(s[i].pkts) <= 1
                            /\ s[i].event = "Close" => s[i].pkts = <<>>
                            /\ conns[s[i].conn].st # "new"
    BY <1>1, EventTold DEF EventsWellFormed
  <1>5. \A i \in DOMAIN s : conns'[s[i].conn].st # "new"
    BY <1>4 DEF OpenedStay
  <1>6. events' = Append(s, msg) /\ Len(loop'.blocked) <= 1
    BY <1>1 DEF EventsAdded
  <1> QED
    BY <1>3, <1>4, <1>5, <1>6 DEF EventsWellFormed

\* What is about to be written, and what was, is of connections that are no
\* newer than the session of their client: it stays so.
LEMMA DownRest ==
  ASSUME IInv, DownInv, OpenedStay, SessionsRise, ClosedForGood,
         EventsWellFormed', NewUnread', RoutedLine', UNCHANGED <<down, delivered>>
  PROVE  DownInv'
  <1>1. DownNext'
    <2> SUFFICES ASSUME NEW i \in DOMAIN down.io, down.io[i].op = "write",
                        NEW p, p = down.io[i].pkt, NEW c, c = down.io[i].client
                 PROVE  /\ NotNewer(p.conn, c)'
                        /\ cstate'[c] = "open" => p.seq = NextOf(delivered[c], p.conn)
                        /\ \A k \in DOMAIN delivered[c] : delivered[c][k].conn <= p.conn
      BY DEF DownNext, DownInv
    <2>1. c \in Clients
      <3>1. down.io[i] \in DownIO
        BY EventsType
      <3> QED
        BY <3>1 DEF DownIO
    <2>2. /\ NotNewer(p.conn, c)
          /\ cstate[c] = "open" => p.seq = NextOf(delivered[c], p.conn)
          /\ \A k \in DOMAIN delivered[c] : delivered[c][k].conn <= p.conn
      BY DEF DownInv, DownNext
    <2> QED
      BY <2>1, <2>2, NotNewerKept DEF ClosedForGood
  <1>2. DeliveredNotNewer'
    BY NotNewerKept DEF DownInv, DeliveredNotNewer
  <1>3. DeliveredRuns'
    BY DEF DownInv, DeliveredRuns
  <1> QED
    BY <1>1, <1>2, <1>3 DEF DownInv

\* A step that is about neither the routes nor a packet of theirs.
LEMMA DownFrame ==
  ASSUME IInv, DownInv, ConnsLast, SessionsRise, ClosedForGood, RoutesShrink,
         EventsWellFormed', UNCHANGED <<down, delivered>>,
         \A d \in DOMAIN byDest :
           Sent(delivered[byDest[d]], down.io, events', d)
             = Sent(delivered[byDest[d]], down.io, events, d)
  PROVE  DownInv'
  <1>1. NewUnread'
    BY DEF DownInv, NewUnread, ConnsLast, OpenedStay
  <1>2. RoutedLine'
    <2> SUFFICES ASSUME NEW d \in DOMAIN byDest', cstate'[byDest'[d]] = "open"
                 PROVE  Line(Sent(delivered[byDest[d]], down.io, events', d), 1, conns'[d].in)
      BY DEF RoutedLine, RoutesShrink
    <2>1. d \in DOMAIN byDest /\ byDest'[d] = byDest[d] /\ byDest[d] \in Clients /\ d \in DOMAIN conns
      BY DEF RoutesShrink, IInv, TypeOK, TableTypeOK
    <2>2. cstate[byDest[d]] = "open"
      BY <2>1 DEF ClosedForGood
    <2>3. Line(Sent(delivered[byDest[d]], down.io, events, d), 1, conns[d].in)
      BY <2>1, <2>2 DEF DownInv, RoutedLine
    <2>4. conns'[d].in = conns[d].in
      BY <2>1 DEF ConnsLast
    <2> QED
      BY <2>1, <2>3, <2>4
  <1> QED
    BY <1>1, <1>2, DownRest DEF ConnsLast
(***************************************************************************)
(* Downstream: steps that bring no packet                                  *)
(***************************************************************************)
LEMMA QuietDown ==
  ASSUME IInv, SafetyInv, DownInv, ConnsLast, SessionsRise, ClosedForGood, RoutesShrink,
         EventsKept, UNCHANGED <<down, delivered>>
  PROVE  DownInv'
  <1>1. EventsWellFormed'
    BY EventsStayWellFormed DEF DownInv, ConnsLast
  <1> QED
    BY <1>1, DownFrame DEF EventsKept

\* The event loop posts the end of a connection.
LEMMA CloseAddedDown ==
  ASSUME IInv, SafetyInv, DownInv, ConnsLast, SessionsRise, ClosedForGood, RoutesShrink,
         NEW d \in DOMAIN conns, EventsAdded(CloseMsg(d)), conns'[d].st = "closed",
         UNCHANGED <<down, delivered>>
  PROVE  DownInv'
  <1>1. PICK m, s : m = CloseMsg(d) /\ s = events
    OBVIOUS
  <1>2. d \in ConnIds
    BY ConnsType, DomainsEqual DEF IInv, TypeOK
  <1>3. /\ m \in ConnEvent /\ m.conn = d /\ m.pkts = <<>> /\ Len(m.pkts) <= 1
        /\ s \in Seq(ConnEvent) /\ events' = Append(s, m)
    BY <1>1, <1>2, CloseType, EventsType DEF CloseMsg, EventsAdded
  <1>4. EventsWellFormed'
    BY <1>1, <1>3, EventsGrowWellFormed DEF DownInv, ConnsLast
  <1>5. ASSUME NEW e \in DOMAIN byDest
        PROVE  Sent(delivered[byDest[e]], down.io, events', e)
                 = Sent(delivered[byDest[e]], down.io, events, e)
    <2>1. PICK got, io : got = delivered[byDest[e]] /\ io = down.io
      OBVIOUS
    <2>2. got \in Seq(Pkt)
      BY <2>1, EventsType DEF IInv, TypeOK, TableTypeOK
    <2>3. Sent(got, io, Append(s, m), e) = Sent(got, io, s, e)
      BY <1>3, <2>2, SentOfOthers
    <2> QED
      BY <1>1, <1>3, <2>1, <2>3
  <1> QED
    BY <1>4, <1>5, DownFrame

LEMMA ConnsSame ==
  ASSUME UNCHANGED conns
  PROVE  ConnsLast
  BY DEF ConnsLast, OpenedStay

LEMMA TablesSameDown ==
  ASSUME UNCHANGED <<tableVars, clientVars>>
  PROVE  SessionsRise /\ ClosedForGood /\ RoutesShrink
  BY DEF tableVars, clientVars, SessionsRise, ClosedForGood, RoutesShrink

LEMMA EventsSame ==
  ASSUME DownInv, UNCHANGED <<recvChan, loop>>
  PROVE  EventsKept
  BY DEF DownInv, EventsWellFormed, EventsKept, events

LEMMA DispatcherDown ==
  ASSUME IInv, SafetyInv, DownInv, NEW c \in Clients, ClientSends(c) \/ ClientCloses(c)
  PROVE  DownInv'
  <1>0. UNCHANGED <<conns, recvChan, loop, byClient, byDest, down, delivered>>
    BY DEF ClientSends, ClientCloses, dialerVars, tableVars
  <1>1. ClosedForGood
    <2>1. CASE ClientSends(c)
      BY <2>1 DEF ClientSends, ClosedForGood
    <2>2. CASE ClientCloses(c)
      <3>1. cstate \in [Clients -> {"open", "closing", "closed"}]
        BY DEF IInv, TypeOK, ClientTypeOK
      <3>2. cstate' = [cstate EXCEPT ![c] = "closed"]
        BY <2>2 DEF ClientCloses
      <3> QED
        BY <3>1, <3>2 DEF ClosedForGood
    <2> QED
      BY <2>1, <2>2
  <1>2. SessionsRise /\ RoutesShrink
    BY <1>0 DEF SessionsRise, RoutesShrink
  <1> QED
    BY <1>0, <1>1, <1>2, ConnsSame, EventsSame, QuietDown

LEMMA UpReceiveDown ==
  ASSUME IInv, SafetyInv, DownInv, UpReceive
  PROVE  DownInv'
  <1>0. UNCHANGED <<conns, recvChan, loop, cstate, down, delivered>>
    BY DEF UpReceive, dialerVars
  <1>1. SessionsRise /\ RoutesShrink
    <2>1. CASE Head(channel).event = "Close"
      <3>1. PurgeByClient(Head(channel).conn)
        BY <2>1 DEF UpReceive
      <3>2. SessionsRise
        BY <3>1 DEF PurgeByClient, Delete, SessionsRise
      <3> QED
        BY <3>1, <3>2, UnroutedShrinks DEF PurgeByClient
    <2>2. CASE Head(channel).event # "Close"
      BY <2>2 DEF UpReceive, SessionsRise, RoutesShrink
    <2> QED
      BY <2>1, <2>2
  <1>2. ClosedForGood
    BY <1>0 DEF ClosedForGood
  <1> QED
    BY <1>0, <1>1, <1>2, ConnsSame, EventsSame, QuietDown

LEMMA UpAdmitDown ==
  ASSUME IInv, SafetyInv, UpInv, DownInv, UpAdmit
  PROVE  DownInv'
  <1>0. UNCHANGED <<conns, recvChan, loop, cstate, down, delivered>>
    BY DEF UpAdmit, dialerVars, clientVars
  <1>1. SessionsRise /\ RoutesShrink
    <2>1. CASE AdmitDial(up.conn, Head(up.pkts))
      <3>1. byClient' = Put(byClient, up.conn, Len(sess) + 1) /\ byDest' = Unrouted(up.conn)
        BY <2>1 DEF AdmitDial
      <3>2. \A d \in DOMAIN conns : d <= Len(sess) + 1
        <4>1. Len(dials) <= Len(sess) /\ Len(dials) \in Nat /\ Len(sess) \in Nat
          BY SessionNumbers, ConnsType DEF UpInv
        <4> QED
          BY <4>1, ConnsType
      <3>3. SessionsRise
        BY <3>1, <3>2 DEF Put, SessionsRise
      <3> QED
        BY <3>1, <3>3, UnroutedShrinks
    <2>2. CASE AdmitQueued(up.conn, Head(up.pkts)) \/ AdmitForward(up.conn, Head(up.pkts))
      BY <2>2 DEF AdmitQueued, AdmitForward, SessionsRise, RoutesShrink
    <2> QED
      BY <2>1, <2>2 DEF UpAdmit
  <1>2. ClosedForGood
    BY <1>0 DEF ClosedForGood
  <1> QED
    BY <1>0, <1>1, <1>2, ConnsSame, EventsSame, QuietDown

LEMMA UpCallDown ==
  ASSUME IInv, SafetyInv, DownInv, UpCall
  PROVE  DownInv'
  <1>0. UNCHANGED <<recvChan, loop, tableVars, clientVars, down, delivered>>
    BY DEF UpCall, AsyncDial
  <1>1. ConnsLast
    <2>1. CASE Head(up.io).op = "dial"
      <3>1. conns' = Append(conns, NewConn) /\ conns \in Seq(Conn)
        BY <2>1, ConnsType DEF UpCall, AsyncDial
      <3>2. PICK w : w = NewConn
        OBVIOUS
      <3>3. w \in Conn /\ w.in = 0
        BY <3>2 DEF Conn, NewConn
      <3>4. /\ DOMAIN conns' = DOMAIN conns \cup {Len(conns) + 1}
            /\ conns'[Len(conns) + 1].in = 0
            /\ \A d \in DOMAIN conns : conns'[d] = conns[d]
        BY <3>1, <3>2, <3>3
      <3> QED
        BY <3>4 DEF ConnsLast, OpenedStay
    <2>2. CASE Head(up.io).op # "dial"
      BY <2>2, ConnsSame DEF UpCall
    <2> QED
      BY <2>1, <2>2
  <1> QED
    BY <1>0, <1>1, TablesSameDown, EventsSame, QuietDown

LEMMA UpDialResultDown ==
  ASSUME IInv, SafetyInv, DownInv, UpDialResult
  PROVE  DownInv'
  <1>0. UNCHANGED <<conns, recvChan, loop, cstate, down, delivered>>
    BY DEF UpDialResult, clientVars
  <1>1. SessionsRise /\ RoutesShrink
    <2>1. UNCHANGED byDest
      BY DEF UpDialResult, DialFailed, DialSucceeded
    <2>2. /\ DOMAIN byClient' \subseteq DOMAIN byClient
          /\ \A c \in DOMAIN byClient' : byClient'[c] = byClient[c]
      BY DEF UpDialResult, DialFailed, AbortDial, Delete, DialSucceeded
    <2> QED
      BY <2>1, <2>2 DEF SessionsRise, RoutesShrink
  <1>2. ClosedForGood
    BY <1>0 DEF ClosedForGood
  <1> QED
    BY <1>0, <1>1, <1>2, ConnsSame, EventsSame, QuietDown

LEMMA DialStepDown ==
  ASSUME ServerAssumption, IInv, SafetyInv, DownInv, NEW d \in DOMAIN dials, DialStep(d),
         UNCHANGED <<tableVars, clientVars, up, down, delivered>>
  PROVE  DownInv'
  <1>1. UNCHANGED <<conns, recvChan, loop>>
    BY DEF DialStep, AcquireSem, DialFinishes, DialReports, ServerAssumption
  <1> QED
    BY <1>1, ConnsSame, TablesSameDown, EventsSame, QuietDown

LEMMA LoopWriteErrorDown ==
  ASSUME IInv, SafetyInv, DownInv, LoopWriteError
  PROVE  DownInv'
  <1>0. UNCHANGED <<conns, recvChan, clientVars, down, delivered>>
    BY DEF LoopWriteError, WriteErrorDone
  <1>1. SessionsRise /\ RoutesShrink
    <2>1. PurgeByDest(loop.failed)
      BY DEF LoopWriteError
    <2> QED
      BY <2>1, PurgeByDestShrinks DEF PurgeByDest, SessionsRise
  <1>2. ClosedForGood
    BY <1>0 DEF ClosedForGood, clientVars
  <1>3. EventsKept
    <2>1. loop'.blocked = loop.blocked
      BY DEF LoopWriteError, WriteErrorDone
    <2> QED
      BY <1>0, <2>1 DEF DownInv, EventsWellFormed, EventsKept, events
  <1> QED
    BY <1>0, <1>1, <1>2, <1>3, ConnsSame, QuietDown

\* What Post does to the events.
LEMMA PostAdds ==
  ASSUME IInv, loop.blocked = <<>>, NEW msg \in ConnEvent, NEW failed, Post(msg, failed)
  PROVE  EventsAdded(msg)
  <1>1. PICK s : s = recvChan
    OBVIOUS
  <1>2. s \in Seq(ConnEvent)
    BY <1>1, EventsType
  <1>3. events = s
    BY <1>1, <1>2 DEF events
  <1>4. CASE Len(recvChan) < RecvChanSize
    <2>1. recvChan' = Append(s, msg) /\ loop'.blocked = <<>>
      BY <1>1, <1>4 DEF Post
    <2>2. Append(s, msg) \in Seq(ConnEvent)
      BY <1>2
    <2>3. Append(s, msg) \o <<>> = Append(s, msg)
      BY <2>2
    <2> QED
      BY <1>3, <2>1, <2>3 DEF EventsAdded, events
  <1>5. CASE ~(Len(recvChan) < RecvChanSize)
    <2>1. recvChan' = s /\ loop'.blocked = <<msg>>
      BY <1>1, <1>5 DEF Post
    <2>2. s \o <<msg>> = Append(s, msg)
      BY <1>2, OneCall
    <2> QED
      BY <1>3, <2>1, <2>2 DEF EventsAdded, events
  <1> QED
    BY <1>4, <1>5

\* The loop closes a connection.
LEMMA ClosedDown ==
  ASSUME IInv, SafetyInv, DownInv, NEW d \in DOMAIN conns, loop.blocked = <<>>,
         conns' = ConnAt(d, "closed"), NEW failed, Post(CloseMsg(d), failed),
         SessionsRise, ClosedForGood, RoutesShrink, UNCHANGED <<down, delivered>>
  PROVE  DownInv'
  <1>1. ConnsLast /\ conns'[d].st = "closed"
    BY ConnsType, ConnAtKeeps DEF ConnsLast, OpenedStay
  <1>2. CloseMsg(d) \in ConnEvent
    BY ConnsType, DomainsEqual, CloseType DEF IInv, TypeOK
  <1>3. EventsAdded(CloseMsg(d))
    BY <1>2, PostAdds
  <1> QED
    BY <1>1, <1>3, CloseAddedDown

LEMMA SingleSeq ==
  ASSUME NEW T, NEW s \in Seq(T), Len(s) = 1
  PROVE  s = <<s[1]>>
  <1>1. s \in [1..1 -> T]
    OBVIOUS
  <1>2. <<s[1]>> \in [1..1 -> T]
    BY <1>1
  <1>3. \A i \in 1..1 : s[i] = <<s[1]>>[i]
    OBVIOUS
  <1> QED
    BY <1>1, <1>2, <1>3

LEMMA LoopStepDown ==
  ASSUME IInv, SafetyInv, DownInv, LoopStep,
         UNCHANGED <<tableVars, clientVars, up, down, delivered>>
  PROVE  DownInv'
  <1>0. SessionsRise /\ ClosedForGood /\ RoutesShrink
    BY TablesSameDown
  <1>1. CASE LoopUnblocks
    <2>1. PICK s, b : s = recvChan /\ b = loop.blocked
      OBVIOUS
    <2>2. s \in Seq(ConnEvent) /\ b \in Seq(ConnEvent) /\ b # <<>> /\ Len(b) <= 1 /\ events = s \o b
      BY <1>1, <2>1, EventsType DEF LoopUnblocks, DownInv, EventsWellFormed, events
    <2>3. Head(b) \in ConnEvent /\ b = <<Head(b)>>
      <3>1. Len(b) = 1
        <4>1. PICK n : n = Len(b)
          OBVIOUS
        <4>2. n \in Nat \ {0}
          BY <2>2, <4>1, EmptySeq
        <4>3. n <= 1
          BY <2>2, <4>1
        <4>4. n = 1
          BY <4>2, <4>3
        <4> QED
          BY <4>1, <4>4
      <3>2. DOMAIN b = 1..1 /\ Head(b) = b[1] /\ b[1] \in ConnEvent
        BY <2>2, <3>1
      <3> QED
        BY <2>2, <3>1, <3>2, SingleSeq
    <2>4. s \o b = Append(s, Head(b)) /\ Append(s, Head(b)) \in Seq(ConnEvent)
      BY <2>2, <2>3, OneCall
    <2>5. recvChan' = Append(s, Head(b)) /\ loop'.blocked = <<>> /\ UNCHANGED conns
      BY <1>1, <2>1 DEF LoopUnblocks
    <2>6. Append(s, Head(b)) \o <<>> = Append(s, Head(b))
      BY <2>4
    <2>7. EventsKept
      BY <2>2, <2>4, <2>5, <2>6 DEF EventsKept, events
    <2> QED
      BY <1>0, <2>5, <2>7, ConnsSame, QuietDown
  <1>2. ASSUME UNCHANGED recvChan, loop'.blocked = loop.blocked, ConnsLast
        PROVE  DownInv'
    <2>1. EventsKept
      BY <1>2 DEF DownInv, EventsWellFormed, EventsKept, events
    <2> QED
      BY <1>0, <1>2, <2>1, QuietDown
  <1>3. ASSUME RunWrite \/ RunClose
        PROVE  Head(tasks).conn \in DOMAIN conns
    <2>1. tasks \in Seq(Task) /\ tasks # <<>> /\ Known(tasks, conns)
      BY <1>3 DEF RunWrite, RunClose, IInv, TypeOK, DialerTypeOK, SafetyInv, DialerTold
    <2>2. Head(tasks).op # "dial" => Head(tasks).conn \in DOMAIN conns
      BY <2>1, KnownTail
    <2> QED
      BY <1>3, <2>2 DEF RunWrite, RunClose
  <1>4. CASE RunWrite
    <2>1. PICK d, p : d = Head(tasks).conn /\ p = Head(tasks).payload
      OBVIOUS
    <2>2. loop.blocked = <<>> /\ d \in DOMAIN conns
      BY <1>3, <1>4, <2>1 DEF RunWrite, LoopIdle
    <2>3. CASE conns' = ConnWritten(d, p) /\ UNCHANGED <<loop, recvChan>>
      <3>1. ConnsLast
        BY <2>2, <2>3, ConnsType, ConnWrittenKeeps DEF ConnsLast, OpenedStay
      <3> QED
        BY <1>2, <2>3, <3>1
    <2>4. CASE conns' = ConnAt(d, "closed") /\ Post(CloseMsg(d), d)
      BY <1>0, <2>2, <2>4, ClosedDown
    <2>5. CASE loop' = [blocked |-> <<>>, failed |-> d] /\ UNCHANGED <<conns, recvChan>>
      BY <1>2, <2>2, <2>5, ConnsSame
    <2> QED
      BY <1>4, <2>1, <2>3, <2>4, <2>5 DEF RunWrite
  <1>5. CASE RunClose
    <2>1. PICK d : d = Head(tasks).conn
      OBVIOUS
    <2>2. loop.blocked = <<>> /\ d \in DOMAIN conns
      BY <1>3, <1>5, <2>1 DEF RunClose, LoopIdle
    <2>3. CASE conns' = ConnAt(d, "closed") /\ Post(CloseMsg(d), NoConn)
      BY <1>0, <2>2, <2>3, ClosedDown
    <2>4. CASE UNCHANGED <<conns, loop, recvChan>>
      BY <1>2, <2>4, ConnsSame
    <2> QED
      BY <1>5, <2>1, <2>3, <2>4 DEF RunClose
  <1> QED
    BY <1>1, <1>4, <1>5 DEF LoopStep

(***************************************************************************)
(* Downstream: a destination sends                                         *)
(***************************************************************************)

\* The packet that was read comes after those of the same connection.
LEMMA OnTrafficDown ==
  ASSUME IInv, SafetyInv, DownInv, NEW d \in DOMAIN conns, OnTraffic(d),
         UNCHANGED <<tableVars, clientVars, up, down, delivered>>
  PROVE  DownInv'
  <1>1. PICK p : p = [conn |-> d, seq |-> conns[d].in + 1]
    OBVIOUS
  <1>2. PICK m, s : m = DataMsg(d, <<p>>) /\ s = events
    OBVIOUS
  <1>3. d \in ConnIds /\ conns[d].in \in Nat
    BY ConnsType, DomainsEqual DEF IInv, TypeOK
  <1>4. p \in Pkt /\ p.conn = d /\ p.seq = conns[d].in + 1
    BY <1>1, <1>3 DEF Pkt
  <1>5. /\ m \in ConnEvent /\ m.conn = d /\ m.pkts = <<p>> /\ m.event = "Data"
        /\ s \in Seq(ConnEvent)
    BY <1>2, <1>3, <1>4, DataType, EventsType DEF DataMsg
  <1>6. m.pkts # <<>> /\ m.pkts[1] = p /\ Len(m.pkts) <= 1
    BY <1>5
  <1>7. /\ loop.blocked = <<>> /\ conns[d].st = "open" /\ conns' = ConnRead(d)
        /\ Post(m, NoConn)
    BY <1>1, <1>2 DEF OnTraffic, LoopIdle
  <1>8. EventsAdded(m)
    BY <1>5, <1>7, PostAdds
  <1>9. SessionsRise /\ ClosedForGood /\ RoutesShrink
    BY TablesSameDown
  <1>10. /\ DOMAIN conns' = DOMAIN conns
         /\ conns'[d].in = conns[d].in + 1
         /\ \A e \in DOMAIN conns : /\ conns'[e].st = conns[e].st
                                    /\ e # d => conns'[e].in = conns[e].in
    BY <1>7, ConnsType, ConnReadKeeps
  <1>11. OpenedStay
    BY <1>10 DEF OpenedStay
  <1>12. EventsWellFormed'
    <2>1. conns'[m.conn].st # "new"
      BY <1>5, <1>7, <1>10
    <2>2. m.event = "Close" => m.pkts = <<>>
      BY <1>5
    <2> QED
      BY <1>5, <1>6, <1>8, <1>11, <2>1, <2>2, EventsGrowWellFormed DEF DownInv
  <1>13. NewUnread'
    BY <1>7, <1>10 DEF DownInv, NewUnread
  <1>14. RoutedLine'
    <2> SUFFICES ASSUME NEW e \in DOMAIN byDest, cstate[byDest[e]] = "open",
                        NEW got, got = delivered[byDest[e]], NEW io, io = down.io
                 PROVE  Line(Sent(got, io, Append(s, m), e), 1, conns'[e].in)
      BY <1>2, <1>8 DEF RoutedLine, tableVars, clientVars, EventsAdded
    <2>1. e \in DOMAIN conns /\ got \in Seq(Pkt)
      BY EventsType DEF IInv, TypeOK, TableTypeOK
    <2>2. Line(Sent(got, io, s, e), 1, conns[e].in)
      BY <1>2 DEF DownInv, RoutedLine
    <2>3. CASE e = d
      <3>1. m.conn = e /\ m.pkts # <<>> /\ m.pkts[1].seq = conns[e].in + 1
        BY <1>4, <1>5, <1>6, <2>3
      <3>2. Line(Sent(got, io, Append(s, m), e), 1, conns[e].in + 1)
        BY <1>5, <2>1, <2>2, <3>1, SentMore
      <3> QED
        BY <1>10, <2>3, <3>2
    <2>4. CASE e # d
      <3>1. Sent(got, io, Append(s, m), e) = Sent(got, io, s, e)
        BY <1>5, <2>1, <2>4, SentOfOthers
      <3> QED
        BY <1>10, <2>1, <2>2, <2>4, <3>1
    <2> QED
      BY <2>3, <2>4
  <1> QED
    BY <1>9, <1>11, <1>12, <1>13, <1>14, DownRest

LEMMA PeerStepDown ==
  ASSUME IInv, SafetyInv, DownInv, NEW d \in DOMAIN dials, PeerStep(d),
         UNCHANGED <<tableVars, clientVars, up, down, delivered>>
  PROVE  DownInv'
  <1>1. CASE OnTraffic(d)
    BY <1>1, OnTrafficDown DEF OnTraffic
  <1>2. CASE PeerCloses(d)
    BY <1>2, ClosedDown, TablesSameDown DEF PeerCloses, LoopIdle
  <1> QED
    BY <1>1, <1>2 DEF PeerStep

(***************************************************************************)
(* Downstream: a connection is opened                                      *)
(***************************************************************************)

\* A connection that is new has sent nothing, anywhere.
LEMMA NothingSent ==
  ASSUME IInv, SafetyInv, DownInv, NEW d \in DOMAIN conns, conns[d].st = "new", NEW c \in Clients
  PROVE  Line(Sent(delivered[c], down.io, events, d), 1, conns[d].in)
  <1>1. PICK got, io, s : got = delivered[c] /\ io = down.io /\ s = events
    OBVIOUS
  <1>2. PICK f : f = Sent(got, io, s, d)
    OBVIOUS
  <1>3. got \in Seq(Pkt) /\ s \in Seq(ConnEvent) /\ io \in Seq(DownIO)
    BY <1>1, EventsType
  <1>4. IsSent(f, got, io, s, d)
    BY <1>2, <1>3, SentAt
  <1>5. \A k \in DOMAIN s : s[k].conn # d
    BY <1>1 DEF DownInv, EventsWellFormed
  <1>6. ~Writing(io, d)
    <2> SUFFICES ASSUME Writing(io, d)
                 PROVE  FALSE
      OBVIOUS
    <2>1. 1 \in DOMAIN io /\ io[1].op = "write" /\ io[1].pkt.conn = d
      BY <1>3, EmptySeq DEF Writing
    <2> QED
      BY <1>1, <2>1 DEF DownInv, DownNext, NotNewer
  <1>7. \A k \in DOMAIN got : got[k].conn # d
    BY <1>1 DEF DownInv, DeliveredNotNewer, NotNewer
  <1>8. ASSUME NEW k \in (-Len(got))..(-1)
        PROVE  k + 1 + Len(got) \in DOMAIN got
    <2>1. PICK n : n = Len(got)
      OBVIOUS
    <2>2. n \in Nat /\ DOMAIN got = 1..n /\ k \in (-n)..(-1)
      BY <1>3, <2>1
    <2>3. k + 1 + n \in 1..n
      BY <2>2
    <2> QED
      BY <2>1, <2>2, <2>3
  <1>9. DOMAIN f = {}
    <2> SUFFICES ASSUME NEW k \in DOMAIN f
                 PROVE  FALSE
      OBVIOUS
    <2>1. k \in Int
      BY <1>4 DEF IsSent
    <2> QED
      BY <1>4, <1>5, <1>6, <1>7, <1>8, <2>1 DEF IsSent
  <1>10. Line(f, 0 + 1, 0)
    BY <1>9, LineNothing
  <1>11. conns[d].in = 0
    BY DEF DownInv, NewUnread
  <1> QED
    BY <1>1, <1>2, <1>10, <1>11

LEMMA LoopOpensDown ==
  ASSUME IInv, SafetyInv, UpInv, DownInv, NEW d \in DOMAIN dials, LoopOpens(d)
  PROVE  DownInv'
  <1>0. /\ UNCHANGED <<byClient, cstate, down, delivered>>
        /\ loop.blocked = <<>> /\ d \in DOMAIN conns /\ conns[d].st = "new"
    <2>1. dials[d].pc = "enrolling" /\ loop.blocked = <<>>
      BY DEF LoopOpens, OnOpenHooked, LoopIdle
    <2> QED
      BY <2>1, ConnsType DEF LoopOpens, clientVars, IInv, Core, DialsAgree
  <1>1. SessionsRise /\ ClosedForGood
    BY <1>0 DEF SessionsRise, ClosedForGood
  <1>2. CASE Current(dials[d].token)
    <2>1. PICK c : c = dials[d].token.client
      OBVIOUS
    <2>2. c \in Clients
      <3>1. dials[d] \in Dial
        BY ConnsType, ElementOfSeq
      <3> QED
        BY <2>1, <3>1 DEF Dial, Token
    <2>3. /\ conns' = ConnAt(d, "open") /\ UNCHANGED <<loop, recvChan>>
          /\ byDest' = Put(byDest, d, c)
      BY <1>2, <2>1 DEF LoopOpens, OnOpenHooked, BindDial
    <2>4. ConnsLast
      <3>1. /\ DOMAIN conns' = DOMAIN conns /\ conns'[d].st = "open"
            /\ \A e \in DOMAIN conns : /\ conns'[e].in = conns[e].in
                                       /\ e # d => conns'[e].st = conns[e].st
        BY <1>0, <2>3, ConnsType, ConnAtKeeps
      <3> QED
        BY <3>1 DEF ConnsLast, OpenedStay
    <2>5. EventsKept
      BY <2>3, EventsSame
    <2>6. EventsWellFormed' /\ OpenedStay
      BY <2>4, <2>5, EventsStayWellFormed DEF DownInv, ConnsLast
    <2>7. NewUnread'
      BY <2>4 DEF DownInv, NewUnread, ConnsLast, OpenedStay
    <2>8. RoutedLine'
      <3> SUFFICES ASSUME NEW e \in DOMAIN byDest', cstate[byDest'[e]] = "open"
                   PROVE  Line(Sent(delivered[byDest'[e]], down.io, events, e), 1, conns'[e].in)
        BY <1>0, <2>5 DEF RoutedLine, EventsKept
      <3>1. CASE e = d
        <4>1. byDest'[e] = c /\ conns'[e].in = conns[d].in
          BY <1>0, <2>3, <2>4, <3>1 DEF Put, ConnsLast
        <4> QED
          BY <1>0, <2>2, <3>1, <4>1, NothingSent
      <3>2. CASE e # d
        <4>1. e \in DOMAIN byDest /\ byDest'[e] = byDest[e] /\ e \in DOMAIN conns
          BY <2>3, <3>2 DEF Put, IInv, TypeOK, TableTypeOK
        <4>2. Line(Sent(delivered[byDest[e]], down.io, events, e), 1, conns[e].in)
          BY <4>1 DEF DownInv, RoutedLine
        <4>3. conns'[e].in = conns[e].in
          BY <2>4, <4>1 DEF ConnsLast
        <4> QED
          BY <4>1, <4>2, <4>3
      <3> QED
        BY <3>1, <3>2
    <2> QED
      BY <1>0, <1>1, <2>6, <2>7, <2>8, DownRest
  <1>3. CASE ~Current(dials[d].token)
    <2>1. conns' = ConnAt(d, "closed") /\ Post(CloseMsg(d), NoConn) /\ UNCHANGED byDest
      BY <1>3 DEF LoopOpens, OnOpenHooked
    <2>2. RoutesShrink
      BY <2>1 DEF RoutesShrink
    <2> QED
      BY <1>0, <1>1, <2>1, <2>2, ClosedDown
  <1> QED
    BY <1>2, <1>3

(***************************************************************************)
(* Downstream: the goroutine                                               *)
(***************************************************************************)

\* The first event waits in recvChan.
LEMMA FirstEvent ==
  ASSUME IInv, recvChan # <<>>, recvChan' = Tail(recvChan), UNCHANGED loop
  PROVE  events # <<>> /\ Head(events) = Head(recvChan) /\ events' = Tail(events)
  <1>1. PICK s, b : s = recvChan /\ b = loop.blocked
    OBVIOUS
  <1>2. s \in Seq(ConnEvent) /\ b \in Seq(ConnEvent) /\ s # <<>>
    BY <1>1, EventsType
  <1>3. s \o b # <<>> /\ Head(s \o b) = Head(s) /\ Tail(s \o b) = Tail(s) \o b
    BY <1>2
  <1> QED
    BY <1>1, <1>3 DEF events


\* What the goroutine takes from the events: one of them, and the tables
\* lose at most a session.
LEMMA DownTakes ==
  ASSUME IInv, DownReceive
  PROVE  /\ UNCHANGED <<conns, loop, cstate, delivered, dials>>
         /\ recvChan # <<>> /\ recvChan' = Tail(recvChan) /\ down.io = <<>>
         /\ SessionsRise /\ ClosedForGood /\ RoutesShrink /\ ConnsLast
  <1>1. /\ UNCHANGED <<conns, loop, cstate, delivered, dials>>
        /\ recvChan # <<>> /\ recvChan' = Tail(recvChan) /\ down.io = <<>>
    BY DEF DownReceive, DownIdle, clientVars
  <1>2. SessionsRise /\ RoutesShrink
    <2>1. CASE Head(recvChan).event = "Close"
      <3>1. PurgeByDest(Head(recvChan).conn)
        BY <2>1 DEF DownReceive
      <3> QED
        BY <3>1, PurgeByDestShrinks DEF PurgeByDest, SessionsRise
    <2>2. CASE Head(recvChan).event # "Close"
      BY <2>2 DEF DownReceive, SessionsRise, RoutesShrink
    <2> QED
      BY <2>1, <2>2
  <1> QED
    BY <1>1, <1>2, ConnsSame DEF ClosedForGood

\* What the goroutine may do to the client of the first event's connection.
DownOwes(msg, io) ==
  \/ io = <<>> /\ (msg.event # "Close" => GetByDest(msg.conn) = {})
  \/ \E c \in Clients : io = <<ClientClose(c)>> /\ msg.event = "Close"
  \/ /\ msg.event # "Close" /\ msg.conn \in DOMAIN byDest
     /\ io = [i \in DOMAIN msg.pkts |-> ClientWrite(byDest[msg.conn], msg.pkts[i])]

LEMMA DownDecides ==
  ASSUME IInv, DownReceive
  PROVE  DownOwes(Head(recvChan), down'.io)
  <1>1. CASE Head(recvChan).event = "Close"
    <2>1. PurgedClient(Head(recvChan).conn) \subseteq Clients
      BY DEF PurgedClient, IInv, TypeOK, TableTypeOK
    <2>2. \/ down' = [io |-> <<>>]
          \/ \E c \in PurgedClient(Head(recvChan).conn) : down' = [io |-> <<ClientClose(c)>>]
      BY <1>1 DEF DownReceive
    <2>3. down'.io = <<>> \/ \E c \in Clients : down'.io = <<ClientClose(c)>>
      BY <2>1, <2>2
    <2> QED
      BY <1>1, <2>3 DEF DownOwes
  <1>2. CASE Head(recvChan).event # "Close"
    <2>1. PICK m : m = Head(recvChan)
      OBVIOUS
    <2>2. \/ GetByDest(m.conn) = {} /\ down' = [io |-> <<>>]
          \/ \E c \in GetByDest(m.conn) :
               down' = [io |-> [i \in DOMAIN m.pkts |-> ClientWrite(c, m.pkts[i])]]
      BY <1>2, <2>1 DEF DownReceive
    <2>3. CASE GetByDest(m.conn) = {} /\ down' = [io |-> <<>>]
      BY <2>1, <2>3 DEF DownOwes
    <2>4. ASSUME NEW c \in GetByDest(m.conn),
                 down' = [io |-> [i \in DOMAIN m.pkts |-> ClientWrite(c, m.pkts[i])]]
          PROVE  DownOwes(m, down'.io)
      <3>1. m.conn \in DOMAIN byDest /\ byDest[m.conn] = c
        BY DEF GetByDest
      <3> QED
        BY <1>2, <2>1, <2>4, <3>1 DEF DownOwes
    <2> QED
      BY <2>1, <2>2, <2>3, <2>4
  <1> QED
    BY <1>1, <1>2

\* The packet of an event, and of which connection it is.
LEMMA FirstPacket ==
  ASSUME IInv, SafetyInv, DownInv, recvChan # <<>>
  PROVE  LET m == Head(recvChan) IN
         /\ m = events[1] /\ 1 \in DOMAIN events /\ m \in ConnEvent
         /\ m.conn \in DOMAIN conns /\ conns[m.conn].st # "new"
         /\ m.event = "Close" => m.pkts = <<>>
         /\ m.pkts # <<>> => /\ DOMAIN m.pkts = {1} /\ Len(m.pkts) = 1
                             /\ m.pkts[1] \in Pkt /\ m.pkts[1].conn = m.conn
  <1>1. PICK m, s, b : m = Head(recvChan) /\ s = recvChan /\ b = loop.blocked
    OBVIOUS
  <1>2. s \in Seq(ConnEvent) /\ b \in Seq(ConnEvent) /\ s # <<>>
    BY <1>1, EventsType
  <1>3. m = (s \o b)[1] /\ 1 \in DOMAIN (s \o b) /\ m \in ConnEvent
    BY <1>1, <1>2
  <1>4. m = events[1] /\ 1 \in DOMAIN events
    BY <1>1, <1>3 DEF events
  <1>5. /\ m.conn \in DOMAIN conns /\ conns[m.conn].st # "new"
        /\ m.event = "Close" => m.pkts = <<>>
        /\ \A k \in DOMAIN m.pkts : m.pkts[k].conn = m.conn
        /\ Len(m.pkts) <= 1
    BY <1>4, EventTold DEF DownInv, EventsWellFormed
  <1>6. PICK w, n : w = m.pkts /\ n = Len(w)
    OBVIOUS
  <1>7. w \in Seq(Pkt) /\ n <= 1
    BY <1>3, <1>5, <1>6 DEF ConnEvent
  <1>8. ASSUME w # <<>>
        PROVE  DOMAIN w = {1} /\ Len(w) = 1 /\ w[1] \in Pkt
    <2>1. n \in Nat \ {0}
      BY <1>6, <1>7, <1>8, EmptySeq
    <2>2. n = 1
      BY <1>7, <2>1
    <2>3. DOMAIN w = 1..n
      BY <1>6, <1>7, LenProperties
    <2> QED
      BY <1>6, <1>7, <2>2, <2>3
  <1> QED
    BY <1>1, <1>3, <1>4, <1>5, <1>6, <1>8

\* A routed connection is that of its client's session.
LEMMA RouteIsSession ==
  ASSUME IInv, UpInv, NEW d \in DOMAIN byDest
  PROVE  /\ byDest[d] \in Clients /\ byDest[d] \in DOMAIN byClient /\ byClient[byDest[d]] = d
         /\ d \in DOMAIN conns /\ d \in Int
  <1>1. /\ byDest[d] \in DOMAIN byClient /\ sess[byClient[byDest[d]]].destConn = d
        /\ byDest[d] \in Clients /\ d \in DOMAIN conns
        /\ byClient[byDest[d]] \in DOMAIN sess
    BY DEF IInv, Core, RouteConsistent, TypeOK, TableTypeOK
  <1>2. d # NoConn /\ d \in Int
    BY <1>1, ConnsType, DomainsEqual DEF IInv, TypeOK, ConnIds
  <1> QED
    BY <1>1, <1>2, SessionNumbers DEF UpInv

\* Of the newest connection a client has payloads last, or none.
LEMMA NoneOfNewest ==
  ASSUME NEW got \in Seq(Pkt), Runs(got), NEW d \in Int,
         \A k \in DOMAIN got : got[k].conn <= d,
         got # <<>> => got[Len(got)].conn # d
  PROVE  \A k \in DOMAIN got : got[k].conn # d
  <1> SUFFICES ASSUME NEW k \in DOMAIN got
               PROVE  got[k].conn # d
    OBVIOUS
  <1>1. PICK n : n = Len(got)
    OBVIOUS
  <1>2. n \in Nat /\ DOMAIN got = 1..n /\ k \in 1..n /\ n \in 1..n /\ got # <<>>
    BY <1>1
  <1>3. PICK p : p = got[n]
    OBVIOUS
  <1>4. p.conn # d /\ p.conn <= d /\ p \in Pkt /\ got[k] \in Pkt
    BY <1>1, <1>2, <1>3
  <1>5. p.conn \in Int /\ got[k].conn \in Int
    BY <1>4 DEF Pkt, ConnIds
  <1>6. IF k > n - p.seq THEN got[k] = [conn |-> p.conn, seq |-> k - (n - p.seq)]
                         ELSE got[k].conn < p.conn
    BY <1>2, <1>3 DEF Runs
  <1>7. got[k].conn = p.conn \/ got[k].conn < p.conn
    BY <1>6
  <1> QED
    BY <1>4, <1>5, <1>7

\* The packet the goroutine receives is the next of its connection.
LEMMA NextReceived ==
  ASSUME NEW got \in Seq(Pkt), NEW s \in Seq(ConnEvent), s # <<>>, NEW d \in Int, NEW hi,
         Line(Sent(got, <<>>, s, d), 1, hi), Runs(got), \A k \in DOMAIN got : got[k].conn <= d,
         s[1].conn = d, s[1].pkts # <<>>
  PROVE  s[1].pkts[1].seq = NextOf(got, d)
  <1>1. PICK f, n, q : f = Sent(got, <<>>, s, d) /\ n = Len(got) /\ q = s[1].pkts[1].seq
    OBVIOUS
  <1>2. n \in Nat /\ DOMAIN got = 1..n /\ 1 \in DOMAIN s /\ DOMAIN s \subseteq Int
    BY <1>1, EmptySeq
  <1>3. IsSent(f, got, <<>>, s, d) /\ Line(f, 1, hi)
    BY <1>1, SentAt
  <1>4. ~Writing(<<>>, d)
    BY DEF Writing
  <1>5. 1 \in DOMAIN f /\ f[1] = Single(q)
    BY <1>1, <1>2, <1>3 DEF IsSent
  <1>6. f[1].first = q
    BY <1>5 DEF Single
  <1>7. ASSUME NEW i \in DOMAIN f
        PROVE  /\ i \in Int
               /\ \/ 1 <= i
                  \/ i \in (-n)..(-1) /\ i + 1 + n \in 1..n /\ got[i + 1 + n].conn = d
    <2>1. i \in Int
      BY <1>3 DEF IsSent
    <2>2. \/ i \in DOMAIN s
          \/ i \in (-n)..(-1) /\ got[i + 1 + n].conn = d
      BY <1>1, <1>3, <1>4, <2>1 DEF IsSent
    <2>3. i \in DOMAIN s => 1 <= i
      OBVIOUS
    <2>4. i \in (-n)..(-1) => i + 1 + n \in 1..n
      BY <1>2, <2>1
    <2> QED
      BY <2>1, <2>2, <2>3, <2>4
  <1>8. CASE got # <<>> /\ got[n].conn = d
    <2>1. n >= 1
      BY <1>1, <1>8, EmptySeq
    <2>2. -1 \in Int /\ -1 \in (-n)..(-1) /\ -1 + 1 + n = n /\ ~(-1 > 0) /\ -1 # 0 /\ -1 < 1
      BY <1>2, <2>1
    <2>3. -1 \in DOMAIN f
      BY <1>1, <1>3, <1>8, <2>2 DEF IsSent
    <2>4. f[-1] = Single(got[n].seq)
      BY <1>1, <1>3, <2>2, <2>3 DEF IsSent
    <2>5. \A i \in DOMAIN f : i <= -1 \/ 1 <= i
      BY <1>2, <1>7
    <2>6. f[1].first = f[-1].last + 1
      BY <1>3, <1>5, <2>2, <2>3, <2>5, LineNext
    <2>7. q = got[n].seq + 1
      BY <1>6, <2>4, <2>6 DEF Single
    <2> QED
      BY <1>1, <1>8, <2>7 DEF NextOf
  <1>9. CASE ~(got # <<>> /\ got[n].conn = d)
    <2>1. \A k \in DOMAIN got : got[k].conn # d
      BY <1>1, <1>9, NoneOfNewest
    <2>2. \A i \in DOMAIN f : 1 <= i
      BY <1>2, <1>7, <2>1
    <2>3. f[1].first = 1
      BY <1>3, <1>5, <2>2, LineFirst
    <2> QED
      BY <1>1, <1>6, <1>9, <2>3 DEF NextOf
  <1> QED
    BY <1>8, <1>9

\* What the goroutine owes after it received m: the packet of m, if m is of
\* a routed connection and has one, and else nothing to be written.
Owed(m, io, dests) ==
  /\ Len(io) <= 1
  /\ \A i \in DOMAIN io : io[i].op = "write" =>
       i = 1 /\ m.event # "Close" /\ m.pkts # <<>> /\ m.conn \in DOMAIN dests
  /\ m.pkts # <<>> /\ m.conn \in DOMAIN dests =>
       1 \in DOMAIN io /\ io # <<>> /\ io[1] = ClientWrite(dests[m.conn], m.pkts[1])

LEMMA DownOwed ==
  ASSUME IInv, IInv', SafetyInv, DownInv, DownReceive
  PROVE  Owed(Head(recvChan), down'.io, byDest)
  <1>1. PICK m, io, w : m = Head(recvChan) /\ io = down'.io /\ w = m.pkts
    OBVIOUS
  <1>2. DownOwes(m, io) /\ recvChan # <<>>
    BY <1>1, DownDecides DEF DownReceive
  <1>3. /\ m \in ConnEvent
        /\ m.event = "Close" => w = <<>>
        /\ w # <<>> => DOMAIN w = {1} /\ Len(w) = 1
    BY <1>1, <1>2, FirstPacket
  <1>4. w \in Seq(Pkt)
    BY <1>1, <1>3 DEF ConnEvent
  <1>5. CASE io = <<>> /\ (m.event # "Close" => GetByDest(m.conn) = {})
    <2>1. Len(io) = 0 /\ DOMAIN io = {}
      BY <1>5
    <2>2. m.event # "Close" => m.conn \notin DOMAIN byDest
      BY <1>5 DEF GetByDest
    <2> QED
      BY <1>1, <1>3, <2>1, <2>2 DEF Owed
  <1>6. ASSUME NEW c, io = <<ClientClose(c)>>, m.event = "Close"
        PROVE  Owed(m, io, byDest)
    <2>1. Len(io) = 1 /\ \A i \in DOMAIN io : io[i] = ClientClose(c)
      BY <1>6
    <2>2. ClientClose(c).op # "write"
      BY DEF ClientClose
    <2> QED
      BY <1>1, <1>3, <1>6, <2>1, <2>2 DEF Owed
  <1>7. CASE /\ m.event # "Close" /\ m.conn \in DOMAIN byDest
             /\ io = [i \in DOMAIN w |-> ClientWrite(byDest[m.conn], w[i])]
    <2>1. DOMAIN io = DOMAIN w /\ \A i \in DOMAIN w : io[i] = ClientWrite(byDest[m.conn], w[i])
      BY <1>7
    <2>2. io \in Seq(DownIO)
      BY <1>1 DEF IInv, TypeOK, GoroutineTypeOK
    <2>3. CASE w = <<>>
      <3>1. DOMAIN io = {}
        BY <2>1, <2>3
      <3>2. Len(io) = 0
        BY <2>2, <3>1, LenProperties, EmptySeq
      <3> QED
        BY <1>1, <2>3, <3>1, <3>2 DEF Owed
    <2>4. CASE w # <<>>
      <3>1. DOMAIN io = {1} /\ io[1] = ClientWrite(byDest[m.conn], w[1])
        BY <1>3, <2>1, <2>4
      <3>2. io # <<>>
        BY <3>1
      <3>3. Len(io) = 1
        <4>1. PICK n : n = Len(io)
          OBVIOUS
        <4>2. n \in Nat /\ 1..n = {1}
          BY <2>2, <3>1, <4>1, LenProperties
        <4>3. n \in 1..n \/ n = 0
          BY <4>2
        <4>4. n = 1
          BY <4>2, <4>3
        <4> QED
          BY <4>1, <4>4
      <3> QED
        BY <1>1, <1>7, <2>4, <3>1, <3>2, <3>3 DEF Owed
    <2> QED
      BY <2>3, <2>4
  <1> QED
    BY <1>1, <1>2, <1>5, <1>6, <1>7 DEF DownOwes

\* The goroutine is about to write to a client the packet it received, if it
\* is to be written at all.
LEMMA WritingReceived ==
  ASSUME NEW m, NEW io, NEW dests, Owed(m, io, dests), NEW e \in DOMAIN dests,
         m.pkts # <<>> => m.pkts[1].conn = m.conn,
         io # <<>> => 1 \in DOMAIN io
  PROVE  /\ Writing(io, e) <=> m.conn = e /\ m.pkts # <<>>
         /\ Writing(io, e) => io[1].pkt = m.pkts[1]
  <1>1. CASE m.pkts # <<>> /\ m.conn \in DOMAIN dests
    <2>1. /\ io # <<>> /\ io[1].op = "write" /\ io[1].pkt = m.pkts[1]
      BY <1>1 DEF Owed, ClientWrite
    <2> QED
      BY <1>1, <2>1 DEF Writing
  <1>2. CASE ~(m.pkts # <<>> /\ m.conn \in DOMAIN dests)
    <2>1. ~Writing(io, e)
      BY <1>2 DEF Owed, Writing
    <2> QED
      BY <1>2, <2>1
  <1> QED
    BY <1>1, <1>2

LEMMA DownReceiveDown ==
  ASSUME IInv, IInv', SafetyInv, UpInv, DownInv, DownReceive
  PROVE  DownInv'
  <1>0. /\ UNCHANGED <<conns, loop, cstate, delivered, dials>>
        /\ recvChan # <<>> /\ recvChan' = Tail(recvChan) /\ down.io = <<>>
        /\ SessionsRise /\ ClosedForGood /\ RoutesShrink /\ ConnsLast /\ OpenedStay
    BY DownTakes DEF ConnsLast
  <1>1. PICK m, s, io : m = Head(recvChan) /\ s = events /\ io = down'.io
    OBVIOUS
  <1>2. /\ s \in Seq(ConnEvent) /\ s # <<>> /\ Head(s) = m /\ events' = Tail(s)
        /\ Tail(s) \in Seq(ConnEvent) /\ m = s[1] /\ 1 \in DOMAIN s
        /\ \A i \in DOMAIN Tail(s) : i + 1 \in DOMAIN s /\ Tail(s)[i] = s[i + 1]
    <2>1. s \in Seq(ConnEvent) /\ s # <<>> /\ Head(s) = m /\ events' = Tail(s)
      BY <1>0, <1>1, EventsType, FirstEvent
    <2> QED
      BY <2>1
  <1>3. /\ m.conn \in DOMAIN conns /\ conns[m.conn].st # "new"
        /\ m.pkts # <<>> => m.pkts[1] \in Pkt /\ m.pkts[1].conn = m.conn
    BY <1>0, <1>1, FirstPacket
  <1>4. Owed(m, io, byDest)
    BY <1>1, DownOwed
  <1>5. EventsWellFormed'
    <2>1. \A i \in DOMAIN s : /\ Len(s[i].pkts) <= 1
                              /\ s[i].event = "Close" => s[i].pkts = <<>>
                              /\ conns[s[i].conn].st # "new"
      BY <1>1 DEF DownInv, EventsWellFormed
    <2>2. Len(loop'.blocked) <= 1
      BY <1>0 DEF DownInv, EventsWellFormed
    <2>3. PICK t : t = Tail(s)
      OBVIOUS
    <2>4. \A i \in DOMAIN t : /\ Len(t[i].pkts) <= 1
                              /\ t[i].event = "Close" => t[i].pkts = <<>>
                              /\ conns[t[i].conn].st # "new"
      BY <1>2, <2>1, <2>3
    <2>5. events' = t
      BY <1>2, <2>3
    <2> QED
      BY <1>0, <2>2, <2>4, <2>5 DEF EventsWellFormed
  <1>6. NewUnread'
    BY <1>0 DEF DownInv, NewUnread
  <1>7. io # <<>> => 1 \in DOMAIN io
    <2>1. io \in Seq(DownIO)
      BY <1>1 DEF IInv, TypeOK, GoroutineTypeOK
    <2> QED
      BY <2>1, EmptySeq
  <1>8. RoutedLine'
    <2> SUFFICES ASSUME NEW e \in DOMAIN byDest', cstate[byDest'[e]] = "open"
                 PROVE  Line(Sent(delivered[byDest'[e]], io, Tail(s), e), 1, conns[e].in)
      BY <1>0, <1>1, <1>2 DEF RoutedLine
    <2>1. e \in DOMAIN byDest /\ byDest'[e] = byDest[e]
      BY <1>0 DEF RoutesShrink
    <2>2. PICK got : got = delivered[byDest[e]]
      OBVIOUS
    <2>3. got \in Seq(Pkt)
      BY <2>1, <2>2, EventsType DEF IInv, TypeOK, TableTypeOK
    <2>4. Line(Sent(got, <<>>, s, e), 1, conns[e].in)
      BY <1>0, <1>1, <2>1, <2>2 DEF DownInv, RoutedLine
    <2>5. /\ Writing(io, e) <=> m.conn = e /\ m.pkts # <<>>
          /\ Writing(io, e) => io[1].pkt = m.pkts[1]
      BY <1>3, <1>4, <1>7, <2>1, WritingReceived
    <2>6. /\ Writing(io, e) <=> Head(s).conn = e /\ Head(s).pkts # <<>>
          /\ Writing(io, e) => io[1].pkt.seq = Head(s).pkts[1].seq
      BY <1>2, <2>5
    <2>7. Line(Sent(got, io, Tail(s), e), 1, conns[e].in)
      BY <1>2, <2>3, <2>4, <2>6, SentTaken
    <2> QED
      BY <2>1, <2>2, <2>7
  <1>9. DownNext'
    <2> SUFFICES ASSUME NEW i \in DOMAIN io, io[i].op = "write",
                        NEW p, p = io[i].pkt, NEW c, c = io[i].client
                 PROVE  /\ NotNewer(p.conn, c)'
                        /\ cstate[c] = "open" => p.seq = NextOf(delivered[c], p.conn)
                        /\ \A k \in DOMAIN delivered[c] : delivered[c][k].conn <= p.conn
      <3>1. Len(io) <= 1
        BY <1>4 DEF Owed
      <3> QED
        BY <1>0, <1>1, <3>1 DEF DownNext
    <2>1. i = 1 /\ m.pkts # <<>> /\ m.conn \in DOMAIN byDest
      BY <1>4 DEF Owed
    <2>2. PICK d : d = m.conn
      OBVIOUS
    <2>3. p = m.pkts[1] /\ c = byDest[d] /\ p.conn = d
      BY <1>3, <1>4, <2>1, <2>2 DEF Owed, ClientWrite
    <2>4. /\ c \in Clients /\ c \in DOMAIN byClient /\ byClient[c] = d
          /\ d \in DOMAIN conns /\ d \in Int
      BY <2>1, <2>2, <2>3, RouteIsSession
    <2>5. NotNewer(d, c)
      BY <1>3, <2>2, <2>4 DEF NotNewer
    <2>6. NotNewer(d, c)'
      BY <1>0, <2>5, NotNewerKept
    <2>7. PICK got : got = delivered[c]
      OBVIOUS
    <2>8. got \in Seq(Pkt) /\ Runs(got)
      BY <2>4, <2>7, EventsType DEF DownInv, DeliveredRuns
    <2>9. \A k \in DOMAIN got : got[k].conn <= d
      BY <2>4, <2>7 DEF DownInv, DeliveredNotNewer, NotNewer
    <2>10. ASSUME cstate[c] = "open"
           PROVE  p.seq = NextOf(got, d)
      <3>1. Line(Sent(got, <<>>, s, d), 1, conns[d].in)
        BY <1>0, <1>1, <2>1, <2>2, <2>3, <2>7, <2>10 DEF DownInv, RoutedLine
      <3>2. s[1].conn = d /\ s[1].pkts # <<>> /\ s[1].pkts[1] = p
        BY <1>2, <2>1, <2>2, <2>3
      <3>3. s[1].pkts[1].seq = NextOf(got, d)
        BY <1>2, <2>4, <2>8, <2>9, <3>1, <3>2, NextReceived
      <3> QED
        BY <3>2, <3>3
    <2> QED
      BY <2>3, <2>6, <2>7, <2>9, <2>10
  <1>10. DeliveredNotNewer'
    BY <1>0, NotNewerKept DEF DownInv, DeliveredNotNewer
  <1>11. DeliveredRuns'
    BY <1>0 DEF DownInv, DeliveredRuns
  <1> QED
    BY <1>5, <1>6, <1>8, <1>9, <1>10, <1>11 DEF DownInv

LEMMA LastCall ==
  ASSUME NEW T, NEW io \in Seq(T), io # <<>>, Len(io) <= 1
  PROVE  1 \in DOMAIN io /\ Head(io) = io[1] /\ Tail(io) = <<>>
  <1>1. PICK n, t : n = Len(io) /\ t = Tail(io)
    OBVIOUS
  <1>2. n \in Nat \ {0} /\ n <= 1
    BY <1>1, EmptySeq
  <1>3. n = 1
    BY <1>2
  <1>4. DOMAIN io = 1..n /\ Head(io) = io[1]
    BY <1>1, LenProperties
  <1>5. t \in Seq(T) /\ Len(t) = n - 1
    BY <1>1, HeadTailProperties
  <1>6. Len(t) = 0
    BY <1>3, <1>5
  <1>7. t = <<>>
    BY <1>5, <1>6, EmptySeq
  <1> QED
    BY <1>1, <1>3, <1>4, <1>7

\* The next payload of its connection, no older than those before, goes on
\* with the runs of a client.
LEMMA RunsGrow ==
  ASSUME NEW got \in Seq(Pkt), Runs(got), NEW p \in Pkt, p.seq = NextOf(got, p.conn),
         \A k \in DOMAIN got : got[k].conn <= p.conn
  PROVE  Runs(Append(got, p))
  <1>1. PICK n, got2 : n = Len(got) /\ got2 = Append(got, p)
    OBVIOUS
  <1>2. /\ n \in Nat /\ DOMAIN got = 1..n /\ DOMAIN got2 = 1..(n + 1) /\ got2[n + 1] = p
        /\ \A k \in 1..n : got2[k] = got[k] /\ got[k] \in Pkt
    BY <1>1
  <1>3. p.conn \in Int /\ p.seq \in Nat /\ p = [conn |-> p.conn, seq |-> p.seq]
        /\ \A k \in 1..n : got[k].conn \in Int /\ got[k].seq \in Nat
    BY <1>2 DEF Pkt, ConnIds
  <1>4. ASSUME NEW i \in 1..n
        PROVE  /\ got2[i].seq \in 1..i
               /\ \A j \in 1..i :
                    IF j > i - got2[i].seq
                      THEN got2[j] = [conn |-> got2[i].conn, seq |-> j - (i - got2[i].seq)]
                      ELSE got2[j].conn < got2[i].conn
    <2>1. \A j \in 1..i : j \in 1..n
      BY <1>2
    <2>2. /\ got[i].seq \in 1..i
          /\ \A j \in 1..i :
               IF j > i - got[i].seq
                 THEN got[j] = [conn |-> got[i].conn, seq |-> j - (i - got[i].seq)]
                 ELSE got[j].conn < got[i].conn
      BY <1>2 DEF Runs
    <2> QED
      BY <1>2, <2>1, <2>2
  <1>5. /\ p.seq \in 1..(n + 1)
        /\ \A j \in 1..(n + 1) :
             IF j > n + 1 - p.seq
               THEN got2[j] = [conn |-> p.conn, seq |-> j - (n + 1 - p.seq)]
               ELSE got2[j].conn < p.conn
    <2>1. CASE got # <<>> /\ got[n].conn = p.conn
      <3>1. n \in 1..n
        BY <1>1, <1>2, <2>1, EmptySeq
      <3>2. PICK q : q = got[n].seq
        OBVIOUS
      <3>3. p.seq = q + 1 /\ q \in Nat
        BY <1>1, <1>3, <2>1, <3>1, <3>2 DEF NextOf
      <3>4. /\ q \in 1..n
            /\ \A j \in 1..n : IF j > n - q THEN got[j] = [conn |-> p.conn, seq |-> j - (n - q)]
                                            ELSE got[j].conn < p.conn
        BY <1>2, <2>1, <3>1, <3>2 DEF Runs
      <3>5. n + 1 - p.seq = n - q /\ p.seq \in 1..(n + 1) /\ n + 1 > n - q
            /\ n + 1 - (n - q) = p.seq
        BY <1>2, <3>3, <3>4
      <3>6. \A j \in 1..(n + 1) : j \in 1..n \/ j = n + 1
        BY <1>2
      <3>7. got2[n + 1] = [conn |-> p.conn, seq |-> n + 1 - (n - q)]
        BY <1>2, <1>3, <3>5
      <3> QED
        BY <1>2, <3>4, <3>5, <3>6, <3>7
    <2>2. CASE ~(got # <<>> /\ got[n].conn = p.conn)
      <3>1. p.seq = 1
        BY <1>1, <2>2 DEF NextOf
      <3>2. \A k \in DOMAIN got : got[k].conn # p.conn
        BY <1>1, <1>3, <2>2, NoneOfNewest
      <3>3. ASSUME NEW k \in 1..n
            PROVE  got[k].conn < p.conn
        <4>1. got[k].conn \in Int /\ got[k].conn <= p.conn /\ got[k].conn # p.conn
          BY <1>2, <1>3, <3>2
        <4> QED
          BY <1>3, <4>1
      <3>4. /\ 1 \in 1..(n + 1) /\ n + 1 - 1 = n /\ n + 1 > n /\ n + 1 - n = 1
            /\ \A j \in 1..(n + 1) : (j \in 1..n /\ ~(j > n)) \/ j = n + 1
        BY <1>2
      <3>5. got2[n + 1] = [conn |-> p.conn, seq |-> n + 1 - n]
        BY <1>2, <1>3, <3>1, <3>4
      <3> QED
        BY <1>2, <3>1, <3>3, <3>4, <3>5
    <2> QED
      BY <2>1, <2>2
  <1>6. \A i \in 1..(n + 1) : i \in 1..n \/ i = n + 1
    BY <1>2
  <1>7. Runs(got2)
    BY <1>2, <1>4, <1>5, <1>6, SMTT(30) DEF Runs
  <1> QED
    BY <1>1, <1>7

\* The client connection is told to close: nothing more is written to it.
LEMMA DownClosesDown ==
  ASSUME IInv, SafetyInv, DownInv, DownCall, Head(down.io).op # "write"
  PROVE  DownInv'
  <1>1. PICK io : io = down.io
    OBVIOUS
  <1>2. io \in Seq(DownIO) /\ io # <<>> /\ Len(io) <= 1
    BY <1>1, EventsType DEF DownCall, DownInv, DownNext
  <1>3. 1 \in DOMAIN io /\ Head(io) = io[1] /\ Tail(io) = <<>>
    BY <1>2, LastCall
  <1>4. /\ UNCHANGED <<conns, recvChan, loop, byClient, byDest, delivered>>
        /\ down'.io = Tail(io) /\ ClosedForGood
    <2>1. cstate \in [Clients -> {"open", "closing", "closed"}]
      BY DEF IInv, TypeOK, ClientTypeOK
    <2>2. \A c \in Clients : cstate'[c] = "open" => cstate[c] = "open"
      BY <2>1 DEF DownCall
    <2> QED
      BY <1>1, <2>2 DEF DownCall, dialerVars, tableVars, ClosedForGood
  <1>5. ConnsLast /\ OpenedStay /\ SessionsRise
    BY <1>4, ConnsSame DEF ConnsLast, SessionsRise
  <1>6. EventsWellFormed' /\ EventsKept
    BY <1>4, <1>5, EventsSame, EventsStayWellFormed DEF DownInv
  <1>7. NewUnread' /\ DeliveredRuns'
    BY <1>4 DEF DownInv, NewUnread, DeliveredRuns
  <1>8. DeliveredNotNewer'
    BY <1>4, <1>5, NotNewerKept DEF DownInv, DeliveredNotNewer
  <1>9. DownNext'
    <2>1. down'.io = <<>>
      BY <1>3, <1>4
    <2> QED
      BY <2>1 DEF DownNext
  <1>10. RoutedLine'
    <2> SUFFICES ASSUME NEW d \in DOMAIN byDest, cstate'[byDest[d]] = "open",
                        NEW got, got = delivered[byDest[d]], NEW s, s = events
                 PROVE  Line(Sent(got, Tail(io), s, d), 1, conns[d].in)
      BY <1>4, <1>6 DEF RoutedLine, EventsKept
    <2>1. byDest[d] \in Clients /\ cstate[byDest[d]] = "open" /\ got \in Seq(Pkt) /\ s \in Seq(ConnEvent)
      BY <1>4, EventsType DEF ClosedForGood, IInv, TypeOK, TableTypeOK
    <2>2. Line(Sent(got, io, s, d), 1, conns[d].in)
      BY <1>1, <2>1 DEF DownInv, RoutedLine
    <2>3. ~Writing(io, d) /\ ~Writing(Tail(io), d)
      <3>1. ~Writing(io, d)
        BY <1>1, <1>3 DEF Writing
      <3> QED
        BY <1>3, <3>1 DEF Writing
    <2>4. SamePackets(s, s, d)
      BY DEF SamePackets
    <2>5. Sent(got, Tail(io), s, d) = Sent(got, io, s, d)
      BY <2>1, <2>3, <2>4, SentSame
    <2> QED
      BY <2>2, <2>5
  <1> QED
    BY <1>6, <1>7, <1>8, <1>9, <1>10 DEF DownInv

\* The packet is written to its client, or, if the client is closing, not.
LEMMA DownWritesDown ==
  ASSUME IInv, SafetyInv, DownInv, DownCall, Head(down.io).op = "write"
  PROVE  DownInv'
  <1>1. PICK io : io = down.io
    OBVIOUS
  <1>2. io \in Seq(DownIO) /\ io # <<>> /\ Len(io) <= 1
    BY <1>1, EventsType DEF DownCall, DownInv, DownNext
  <1>3. 1 \in DOMAIN io /\ Head(io) = io[1] /\ Tail(io) = <<>>
    BY <1>2, LastCall
  <1>4. PICK c, p : c = io[1].client /\ p = io[1].pkt
    OBVIOUS
  <1>5. io[1].op = "write" /\ c \in Clients /\ p \in Pkt
    <2>1. io[1] \in DownIO /\ io[1].op = "write"
      BY <1>1, <1>2, <1>3
    <2> QED
      BY <1>4, <2>1 DEF DownIO
  <1>6. /\ UNCHANGED <<conns, recvChan, loop, byClient, byDest, cstate>> /\ down'.io = <<>>
        /\ delivered' = IF cstate[c] = "open" THEN [delivered EXCEPT ![c] = Append(@, p)] ELSE delivered
    BY <1>1, <1>3, <1>4, <1>5 DEF DownCall, dialerVars, tableVars
  <1>7. ConnsLast /\ OpenedStay /\ SessionsRise
    BY <1>6, ConnsSame DEF ConnsLast, SessionsRise
  <1>8. EventsWellFormed' /\ EventsKept
    BY <1>6, <1>7, EventsSame, EventsStayWellFormed DEF DownInv
  <1>9. NewUnread' /\ DownNext'
    BY <1>6 DEF DownInv, NewUnread, DownNext
  <1>10. /\ NotNewer(p.conn, c)
         /\ cstate[c] = "open" => p.seq = NextOf(delivered[c], p.conn)
         /\ \A k \in DOMAIN delivered[c] : delivered[c][k].conn <= p.conn
    BY <1>1, <1>3, <1>4, <1>5 DEF DownInv, DownNext
  <1>11. PICK got : got = delivered[c]
    OBVIOUS
  <1>12. got \in Seq(Pkt) /\ delivered \in [Clients -> Seq(Pkt)]
    BY <1>5, <1>11, EventsType DEF IInv, TypeOK, ClientTypeOK
  <1>13. /\ cstate[c] = "open" => delivered'[c] = Append(got, p)
         /\ cstate[c] # "open" => delivered'[c] = got
         /\ \A e \in Clients : e # c => delivered'[e] = delivered[e]
    BY <1>5, <1>6, <1>11, <1>12
  <1>14. \A k \in DOMAIN delivered'[c] :
           (k \in DOMAIN got /\ delivered'[c][k] = got[k]) \/ delivered'[c][k] = p
    BY <1>5, <1>12, <1>13, SMTT(30)
  <1>15. DeliveredNotNewer'
    <2> SUFFICES ASSUME NEW e \in Clients, NEW k \in DOMAIN delivered'[e],
                        NEW q, q = delivered'[e][k].conn
                 PROVE  NotNewer(q, e)'
      BY DEF DeliveredNotNewer, NotNewer
    <2>1. NotNewer(q, e)
      BY <1>10, <1>11, <1>13, <1>14 DEF DownInv, DeliveredNotNewer
    <2> QED
      BY <1>7, <2>1, NotNewerKept
  <1>16. DeliveredRuns'
    <2> SUFFICES ASSUME NEW e \in Clients
                 PROVE  Runs(delivered'[e])
      BY DEF DeliveredRuns
    <2>1. Runs(delivered[e])
      BY DEF DownInv, DeliveredRuns
    <2>2. CASE e = c /\ cstate[c] = "open"
      <3>1. Runs(Append(got, p))
        BY <1>5, <1>10, <1>11, <1>12, <2>1, <2>2, RunsGrow
      <3> QED
        BY <1>13, <2>2, <3>1
    <2> QED
      BY <1>11, <1>13, <2>1, <2>2
  <1>17. RoutedLine'
    <2> SUFFICES ASSUME NEW d \in DOMAIN byDest, cstate[byDest[d]] = "open", NEW s, s = events
                 PROVE  Line(Sent(delivered'[byDest[d]], <<>>, s, d), 1, conns[d].in)
      BY <1>6, <1>8 DEF RoutedLine, EventsKept
    <2>1. PICK g, hi : g = delivered[byDest[d]] /\ hi = conns[d].in
      OBVIOUS
    <2>2. byDest[d] \in Clients /\ g \in Seq(Pkt) /\ s \in Seq(ConnEvent)
      BY <2>1, EventsType DEF IInv, TypeOK, TableTypeOK
    <2>3. Line(Sent(g, io, s, d), 1, hi)
      BY <1>1, <2>1 DEF DownInv, RoutedLine
    <2>4. Writing(io, d) <=> p.conn = d
      BY <1>2, <1>4, <1>5 DEF Writing
    <2>5. CASE byDest[d] = c
      <3>1. Line(Sent(Append(g, p), <<>>, s, d), 1, hi)
        BY <1>4, <1>5, <2>2, <2>3, <2>4, SentDelivered
      <3> QED
        BY <1>11, <1>13, <2>1, <2>5, <3>1
    <2>6. CASE byDest[d] # c
      <3>1. From(p, c)
        BY <1>1, <1>3, <1>4, <1>5 DEF SafetyInv, DownOwn
      <3>2. dials[d].token.client = byDest[d]
        BY DEF SafetyInv, RoutesOwn
      <3>3. p.conn # d
        BY <2>6, <3>1, <3>2 DEF From
      <3>4. ~Writing(io, d) /\ ~Writing(<<>>, d)
        BY <2>4, <3>3 DEF Writing
      <3>5. SamePackets(s, s, d)
        BY DEF SamePackets
      <3>6. Sent(g, <<>>, s, d) = Sent(g, io, s, d)
        BY <2>2, <3>4, <3>5, SentSame
      <3> QED
        BY <1>13, <2>1, <2>2, <2>3, <2>6, <3>6
    <2> QED
      BY <2>5, <2>6
  <1> QED
    BY <1>8, <1>9, <1>15, <1>16, <1>17 DEF DownInv

(***************************************************************************)
(* Downstream: the theorems                                                *)
(***************************************************************************)
LEMMA InitDown ==
  ASSUME Init
  PROVE  DownInv
  <1>1. /\ conns = <<>> /\ recvChan = <<>> /\ loop.blocked = <<>> /\ byDest = <<>> /\ down.io = <<>>
        /\ delivered = [c \in Clients |-> <<>>]
    BY DEF Init, DialerInit
  <1>2. events = <<>>
    BY <1>1 DEF events
  <1> QED
    BY <1>1, <1>2
       DEF DownInv, EventsWellFormed, NewUnread, RoutedLine, DownNext, DeliveredNotNewer,
           DeliveredRuns, Runs

LEMMA NextDown ==
  ASSUME ServerAssumption, IInv, IInv', SafetyInv, UpInv, DownInv, [Next]_vars
  PROVE  DownInv'
  <1>1. CASE UNCHANGED vars
    <2>1. /\ UNCHANGED <<conns, recvChan, loop, tableVars, clientVars, down, delivered>>
      BY <1>1 DEF vars, dialerVars
    <2> QED
      BY <2>1, ConnsSame, TablesSameDown, EventsSame, QuietDown
  <1>2. CASE \E c \in Clients : ClientSends(c) \/ ClientCloses(c)
    BY <1>2, DispatcherDown
  <1>3. CASE Upstream
    BY <1>3, UpReceiveDown, UpAdmitDown, UpCallDown, UpDialResultDown DEF Upstream
  <1>4. CASE Downstream
    BY <1>4, DownReceiveDown, DownClosesDown, DownWritesDown DEF Downstream
  <1>5. CASE DialerSteps
    <2>1. ASSUME NEW d \in DOMAIN dials, LoopOpens(d)
          PROVE  DownInv'
      BY <2>1, LoopOpensDown
    <2>2. ASSUME NEW d \in DOMAIN dials, DialerAlone(DialStep(d))
          PROVE  DownInv'
      BY <2>2, DialStepDown DEF DialerAlone
    <2>3. ASSUME NEW d \in DOMAIN dials, DialerAlone(PeerStep(d))
          PROVE  DownInv'
      BY <2>3, PeerStepDown DEF DialerAlone
    <2>4. CASE LoopWriteError
      BY <2>4, LoopWriteErrorDown
    <2>5. CASE DialerAlone(LoopStep)
      BY <2>5, LoopStepDown DEF DialerAlone
    <2> QED
      BY <1>5, <2>1, <2>2, <2>3, <2>4, <2>5 DEF DialerSteps
  <1> QED
    BY <1>1, <1>2, <1>3, <1>4, <1>5 DEF Next

\* What is on its way to a client, and what it got, is in a line, given the
\* routes, the session numbers and the types.
THEOREM DownstreamInvariant == Spec => [](IInv /\ SafetyInv /\ UpInv /\ DownInv)
  <1>1. ServerAssumption
    BY ServerAssumption
  <1>2. Init => IInv /\ SafetyInv /\ UpInv /\ DownInv
    BY InitIInv, InitSafe, InitUp, InitDown
  <1>3. IInv /\ SafetyInv /\ UpInv /\ DownInv /\ [Next]_vars
          => IInv' /\ SafetyInv' /\ UpInv' /\ DownInv'
    BY <1>1, NextIInv, NextSafe, NextUp, NextDown
  <1> QED
    BY <1>2, <1>3, PTL DEF Spec

\* A client receives from its own connections one after the other, in the
\* order of its sessions, and from each one a prefix of what the destination
\* sent: a switch of destination never lets old data follow new.
THEOREM DownstreamOrdered == Spec => []DownstreamInOrder
  <1>1. ASSUME SafetyInv, DownInv
        PROVE  DownstreamInOrder
    <2>1. ClientsSeparate
      BY <1>1 DEF SafetyInv, DeliveredOwn, From, ClientsSeparate
    <2> QED
      BY <1>1, <2>1 DEF DownInv, DeliveredRuns, Runs, DownstreamInOrder
  <1> QED
    BY <1>1, DownstreamInvariant, PTL

\* The packets of d among got, the call at hand and the events in s.
SentPackets(got, io, s, d) ==
  {p \in Pkt :
     /\ p.conn = d
     /\ \/ \E k \in DOMAIN got : p = got[k]
        \/ Writing(io, d) /\ p = io[1].pkt
        \/ \E k \in DOMAIN s : \E j \in DOMAIN s[k].pkts : p = s[k].pkts[j]}

\* They are those whose numbers are in the line.
LEMMA SentHolds ==
  ASSUME NEW got \in Seq(Pkt), NEW io \in Seq(DownIO), NEW s \in Seq(ConnEvent), NEW d \in ConnIds,
         NEW hi \in Int, Line(Sent(got, io, s, d), 1, hi),
         \A k \in DOMAIN s : /\ Len(s[k].pkts) <= 1
                             /\ \A j \in DOMAIN s[k].pkts : s[k].pkts[j].conn = s[k].conn
  PROVE  SentPackets(got, io, s, d) = {[conn |-> d, seq |-> n] : n \in 1..hi}
  <1>1. PICK f, n : f = Sent(got, io, s, d) /\ n = Len(got)
    OBVIOUS
  <1>2. IsSent(f, got, io, s, d) /\ Line(f, 1, hi)
    BY <1>1, SentAt
  <1>3. n \in Nat /\ DOMAIN got = 1..n /\ DOMAIN s \subseteq Int
    BY <1>1
  <1>4. \A k \in DOMAIN s : k > 0 /\ k \in Int
    OBVIOUS
  <1>5. ASSUME NEW k \in DOMAIN s, NEW j \in DOMAIN s[k].pkts
        PROVE  j = 1 /\ s[k].pkts # <<>> /\ s[k].pkts[1] \in Pkt
    <2>1. s[k] \in ConnEvent
      OBVIOUS
    <2>2. PICK w, m : w = s[k].pkts /\ m = Len(w)
      OBVIOUS
    <2>3. w \in Seq(Pkt) /\ m <= 1 /\ j \in 1..m /\ m \in Nat
      BY <2>1, <2>2 DEF ConnEvent
    <2>4. j = 1 /\ m # 0
      BY <2>3
    <2> QED
      BY <2>2, <2>3, <2>4
  <1>6. ASSUME NEW k \in DOMAIN s, s[k].pkts # <<>>
        PROVE  1 \in DOMAIN s[k].pkts
    <2>1. s[k] \in ConnEvent
      OBVIOUS
    <2>2. s[k].pkts \in Seq(Pkt)
      BY <2>1 DEF ConnEvent
    <2> QED
      BY <1>6, <2>2, EmptySeq
  <1>7. ASSUME Writing(io, d)
        PROVE  io[1].pkt \in Pkt /\ io[1].pkt.conn = d
    <2>1. 1 \in DOMAIN io
      BY <1>7, EmptySeq DEF Writing
    <2>2. io[1] \in DownIO /\ io[1].op = "write"
      BY <1>7, <2>1 DEF Writing
    <2> QED
      BY <1>7, <2>2 DEF DownIO, Writing
  <1>8. ASSUME NEW p \in SentPackets(got, io, s, d)
        PROVE  \E i \in DOMAIN f : f[i] = Single(p.seq)
    <2>1. p.conn = d
      BY DEF SentPackets
    <2>2. ASSUME NEW k \in DOMAIN got, p = got[k]
          PROVE  \E i \in DOMAIN f : f[i] = Single(p.seq)
      <3>1. PICK i : i = k - 1 - n
        OBVIOUS
      <3>2. i \in Int /\ i \in (-n)..(-1) /\ i + 1 + n = k /\ ~(i > 0) /\ i # 0
        <4>1. k \in Int /\ 1 <= k /\ k <= n /\ n \in Nat
          BY <1>3
        <4> QED
          BY <3>1, <4>1
      <3>3. i \in DOMAIN f
        BY <1>1, <1>2, <2>1, <2>2, <3>2 DEF IsSent
      <3>4. f[i] = Single(got[k].seq)
        BY <1>1, <1>2, <3>2, <3>3 DEF IsSent
      <3> QED
        BY <2>2, <3>3, <3>4
    <2>3. CASE Writing(io, d) /\ p = io[1].pkt
      <3>1. 0 \in DOMAIN f
        BY <1>2, <2>3 DEF IsSent
      <3>2. f[0] = Single(io[1].pkt.seq)
        BY <1>2, <3>1 DEF IsSent
      <3> QED
        BY <2>3, <3>1, <3>2
    <2>4. ASSUME NEW k \in DOMAIN s, NEW j \in DOMAIN s[k].pkts, p = s[k].pkts[j]
          PROVE  \E i \in DOMAIN f : f[i] = Single(p.seq)
      <3>1. j = 1 /\ s[k].pkts # <<>> /\ s[k].conn = d
        BY <1>5, <2>1, <2>4
      <3>2. k \in DOMAIN f
        BY <1>2, <1>4, <3>1 DEF IsSent
      <3>3. f[k] = Single(s[k].pkts[1].seq)
        BY <1>2, <1>4, <3>2 DEF IsSent
      <3> QED
        BY <2>4, <3>1, <3>2, <3>3
    <2> QED
      BY <2>2, <2>3, <2>4 DEF SentPackets
  <1>9. ASSUME NEW i \in DOMAIN f
        PROVE  \E p \in SentPackets(got, io, s, d) : f[i] = Single(p.seq)
    <2>1. i \in Int
      BY <1>2 DEF IsSent
    <2>2. CASE i \in DOMAIN s /\ s[i].conn = d /\ s[i].pkts # <<>>
      <3>1. 1 \in DOMAIN s[i].pkts /\ s[i].pkts[1] \in Pkt /\ s[i].pkts[1].conn = d
        BY <1>5, <1>6, <2>2
      <3>2. f[i] = Single(s[i].pkts[1].seq)
        BY <1>2, <1>4, <2>2 DEF IsSent
      <3>3. s[i].pkts[1] \in SentPackets(got, io, s, d)
        BY <2>2, <3>1 DEF SentPackets
      <3> QED
        BY <3>2, <3>3
    <2>3. CASE i = 0 /\ Writing(io, d)
      <3>1. f[i] = Single(io[1].pkt.seq)
        BY <1>2, <2>3 DEF IsSent
      <3>2. io[1].pkt \in SentPackets(got, io, s, d)
        BY <1>7, <2>3 DEF SentPackets
      <3> QED
        BY <3>1, <3>2
    <2>4. CASE i \in (-n)..(-1) /\ got[i + 1 + n].conn = d
      <3>1. PICK k : k = i + 1 + n
        OBVIOUS
      <3>2. k \in 1..n /\ ~(i > 0) /\ i # 0
        BY <1>3, <2>1, <2>4, <3>1
      <3>3. f[i] = Single(got[k].seq)
        BY <1>1, <1>2, <2>1, <3>1, <3>2 DEF IsSent
      <3>4. k \in DOMAIN got /\ got[k] \in Pkt /\ got[k].conn = d
        BY <1>3, <2>4, <3>1, <3>2
      <3>5. got[k] \in SentPackets(got, io, s, d)
        BY <3>4 DEF SentPackets
      <3> QED
        BY <3>3, <3>5
    <2> QED
      BY <1>1, <1>2, <2>1, <2>2, <2>3, <2>4 DEF IsSent
  <1>10. ASSUME NEW p \in SentPackets(got, io, s, d)
         PROVE  p = [conn |-> d, seq |-> p.seq] /\ p.seq \in Int
    BY DEF SentPackets, Pkt
  <1>11. ASSUME NEW q \in Int, NEW i \in DOMAIN f, f[i] = Single(q)
         PROVE  q \in 1..hi
    <2>1. 1 <= f[i].first /\ f[i].first <= f[i].last /\ f[i].last <= hi
      BY <1>2, LineBounds
    <2>2. f[i].first = q /\ f[i].last = q
      BY <1>11 DEF Single
    <2> QED
      BY <2>1, <2>2
  <1>12. ASSUME NEW q \in 1..hi
         PROVE  [conn |-> d, seq |-> q] \in SentPackets(got, io, s, d)
    <2>1. q \in Int /\ 1 <= q /\ q <= hi
      OBVIOUS
    <2>2. PICK i \in DOMAIN f : f[i].first <= q /\ q <= f[i].last
      BY <1>2, <2>1 DEF Line, Covers
    <2>3. PICK p \in SentPackets(got, io, s, d) : f[i] = Single(p.seq)
      BY <1>9
    <2>4. f[i].first = p.seq /\ f[i].last = p.seq /\ p.seq \in Int
      BY <1>10, <2>3 DEF Single
    <2>5. p.seq = q
      BY <2>1, <2>2, <2>4
    <2> QED
      BY <1>10, <2>3, <2>5
  <1>13. ASSUME NEW p \in SentPackets(got, io, s, d)
         PROVE  p \in {[conn |-> d, seq |-> q] : q \in 1..hi}
    <2>1. p.seq \in 1..hi
      BY <1>8, <1>10, <1>11
    <2> QED
      BY <1>10, <2>1
  <1> QED
    BY <1>12, <1>13

\* What d's client got, and what is in transit, is what d has sent.
LEMMA ReceivedOrInTransit ==
  ASSUME IInv, DownInv, NEW d, NEW c \in Clients, NEW p
  PROVE  (p.conn = d /\ \E k \in DOMAIN delivered[c] : p = delivered[c][k]) \/ p \in InTransit(d)
           <=> p \in SentPackets(delivered[c], down.io, events, d)
  <1>1. PICK got, io, a, b, s : /\ got = delivered[c] /\ io = down.io
                                /\ a = recvChan /\ b = loop.blocked /\ s = events
    OBVIOUS
  <1>2. /\ got \in Seq(Pkt) /\ io \in Seq(DownIO) /\ a \in Seq(ConnEvent) /\ b \in Seq(ConnEvent)
        /\ s = a \o b /\ s \in Seq(ConnEvent)
    BY <1>1, EventsType DEF events
  <1>3. /\ \A i \in DOMAIN s : (i \in DOMAIN a /\ s[i] = a[i]) \/ \E j \in DOMAIN b : s[i] = b[j]
        /\ \A i \in DOMAIN a : \E k \in DOMAIN s : s[k] = a[i]
        /\ \A j \in DOMAIN b : \E k \in DOMAIN s : s[k] = b[j]
    <2>1. \A i \in DOMAIN (a \o b) : \/ i \in DOMAIN a /\ (a \o b)[i] = a[i]
                                     \/ \E j \in DOMAIN b : (a \o b)[i] = b[j]
      BY <1>2, JoinedFrom
    <2>2. /\ \A i \in DOMAIN a : i \in DOMAIN (a \o b) /\ (a \o b)[i] = a[i]
          /\ \A j \in DOMAIN b : \E i \in DOMAIN (a \o b) : (a \o b)[i] = b[j]
      BY <1>2, JoinedHas
    <2> QED
      BY <1>2, <2>1, <2>2
  <1>4. (\E k \in DOMAIN s : \E j \in DOMAIN s[k].pkts : p = s[k].pkts[j])
          <=> \/ \E k \in DOMAIN a : \E j \in DOMAIN a[k].pkts : p = a[k].pkts[j]
              \/ \E k \in DOMAIN b : \E j \in DOMAIN b[k].pkts : p = b[k].pkts[j]
    BY <1>3
  <1>5. p \in InTransit(d)
          <=> /\ p.conn = d
              /\ \/ \E k \in DOMAIN a : \E j \in DOMAIN a[k].pkts : p = a[k].pkts[j]
                 \/ \E k \in DOMAIN b : \E j \in DOMAIN b[k].pkts : p = b[k].pkts[j]
                 \/ \E i \in DOMAIN io : io[i].op = "write" /\ p = io[i].pkt
    BY <1>1 DEF InTransit
  <1>6. ASSUME p.conn = d
        PROVE  (\E i \in DOMAIN io : io[i].op = "write" /\ p = io[i].pkt)
                 <=> Writing(io, d) /\ p = io[1].pkt
    <2>1. Len(io) <= 1
      BY <1>1 DEF DownInv, DownNext
    <2>2. io # <<>> => 1 \in DOMAIN io
      BY <1>2, EmptySeq
    <2>3. \A i \in DOMAIN io : i = 1 /\ io # <<>>
      BY <1>2, <2>1
    <2> QED
      BY <1>6, <2>2, <2>3 DEF Writing
  <1>7. /\ \A k \in DOMAIN got : got[k] \in Pkt
        /\ \A i \in DOMAIN io : io[i].op = "write" => io[i].pkt \in Pkt
        /\ \A k \in DOMAIN s : \A j \in DOMAIN s[k].pkts : s[k].pkts[j] \in Pkt
    <2>1. \A k \in DOMAIN got : got[k] \in Pkt
      BY <1>2
    <2>2. \A i \in DOMAIN io : io[i].op = "write" => io[i].pkt \in Pkt
      <3>1. \A i \in DOMAIN io : io[i] \in DownIO
        BY <1>2
      <3> QED
        BY <3>1 DEF DownIO
    <2>3. ASSUME NEW k \in DOMAIN s, NEW j \in DOMAIN s[k].pkts
          PROVE  s[k].pkts[j] \in Pkt
      <3>1. s[k] \in ConnEvent
        BY <1>2
      <3>2. s[k].pkts \in Seq(Pkt)
        BY <3>1 DEF ConnEvent
      <3> QED
        BY <3>2
    <2> QED
      BY <2>1, <2>2, <2>3
  <1>8. p \in SentPackets(got, io, s, d)
          <=> /\ p.conn = d
              /\ \/ \E k \in DOMAIN got : p = got[k]
                 \/ \E i \in DOMAIN io : io[i].op = "write" /\ p = io[i].pkt
                 \/ \E k \in DOMAIN s : \E j \in DOMAIN s[k].pkts : p = s[k].pkts[j]
    <2>1. p \in SentPackets(got, io, s, d)
            <=> /\ p \in Pkt /\ p.conn = d
                /\ \/ \E k \in DOMAIN got : p = got[k]
                   \/ Writing(io, d) /\ p = io[1].pkt
                   \/ \E k \in DOMAIN s : \E j \in DOMAIN s[k].pkts : p = s[k].pkts[j]
      BY DEF SentPackets
    <2>2. CASE p.conn = d
      <3>1. ASSUME p \in SentPackets(got, io, s, d)
            PROVE  \/ \E k \in DOMAIN got : p = got[k]
                   \/ \E i \in DOMAIN io : io[i].op = "write" /\ p = io[i].pkt
                   \/ \E k \in DOMAIN s : \E j \in DOMAIN s[k].pkts : p = s[k].pkts[j]
        BY <1>6, <2>1, <2>2, <3>1
      <3>2. ASSUME \/ \E k \in DOMAIN got : p = got[k]
                   \/ \E i \in DOMAIN io : io[i].op = "write" /\ p = io[i].pkt
                   \/ \E k \in DOMAIN s : \E j \in DOMAIN s[k].pkts : p = s[k].pkts[j]
            PROVE  p \in SentPackets(got, io, s, d)
        <4>1. p \in Pkt
          BY <1>7, <2>2, <3>2
        <4>2. \/ \E k \in DOMAIN got : p = got[k]
              \/ Writing(io, d) /\ p = io[1].pkt
              \/ \E k \in DOMAIN s : \E j \in DOMAIN s[k].pkts : p = s[k].pkts[j]
          BY <1>6, <2>2, <3>2
        <4> QED
          BY <2>1, <2>2, <4>1, <4>2
      <3> QED
        BY <2>2, <3>1, <3>2
    <2>3. CASE p.conn # d
      BY <2>1, <2>3
    <2> QED
      BY <2>2, <2>3
  <1>9. (p.conn = d /\ \E k \in DOMAIN got : p = got[k]) \/ p \in InTransit(d)
          <=> p \in SentPackets(got, io, s, d)
    BY <1>4, <1>5, <1>8
  <1> QED
    BY <1>1, <1>9

\* What an open client of a routed connection was written and what is on its way
\* to it are together what was read of the connection.
LEMMA RoutedComplete ==
  ASSUME IInv, SafetyInv, UpInv, DownInv
  PROVE  DownstreamNotLost
  <1> SUFFICES ASSUME NEW d \in DOMAIN byDest, NEW c, c = byDest[d], cstate[c] = "open"
               PROVE  {p \in {delivered[c][i] : i \in DOMAIN delivered[c]} : p.conn = d}
                        \cup InTransit(d) = {[conn |-> d, seq |-> n] : n \in 1..conns[d].in}
    BY DEF DownstreamNotLost
  <1>1. c \in Clients /\ d \in DOMAIN conns /\ d \in ConnIds /\ conns[d].in \in Int
    BY RouteIsSession, ConnsType, DomainsEqual DEF IInv, TypeOK
  <1>2. PICK got, io, s, hi : got = delivered[c] /\ io = down.io /\ s = events /\ hi = conns[d].in
    OBVIOUS
  <1>3. got \in Seq(Pkt) /\ io \in Seq(DownIO) /\ s \in Seq(ConnEvent)
    BY <1>1, <1>2, EventsType
  <1>4. Line(Sent(got, io, s, d), 1, hi)
    BY <1>2 DEF DownInv, RoutedLine
  <1>5. \A k \in DOMAIN s : /\ Len(s[k].pkts) <= 1
                            /\ \A j \in DOMAIN s[k].pkts : s[k].pkts[j].conn = s[k].conn
    BY <1>2, EventTold DEF DownInv, EventsWellFormed
  <1>6. SentPackets(got, io, s, d) = {[conn |-> d, seq |-> n] : n \in 1..hi}
    BY <1>1, <1>2, <1>3, <1>4, <1>5, SentHolds
  <1>7. ASSUME NEW p
        PROVE  p \in {q \in {got[i] : i \in DOMAIN got} : q.conn = d} \cup InTransit(d)
                 <=> p \in SentPackets(got, io, s, d)
    BY <1>1, <1>2, ReceivedOrInTransit
  <1> QED
    BY <1>2, <1>6, <1>7

\* Nothing a routed destination sends is lost while its client is open: each
\* packet was written to the client, or is still to be, and there is no other.
THEOREM DownstreamComplete == Spec => []DownstreamNotLost
  BY RoutedComplete, DownstreamInvariant, PTL

(***************************************************************************)
(* The end of a connection                                                 *)
(*                                                                         *)
(* The Close event of a connection comes after all it has sent, so when it *)
(* is handled nothing of the connection is on its way any more: its client *)
(* was written all there ever was.                                         *)
(***************************************************************************)

\* Of no connection less is read than was, and a closed one stays as it is.
ConnsGo ==
  \A d \in DOMAIN conns :
    /\ d \in DOMAIN conns'
    /\ conns'[d].in >= conns[d].in
    /\ conns[d].st = "closed" => conns'[d].st = "closed" /\ conns'[d].in = conns[d].in

\* What a step may do to the events that wait.
EventsStep ==
  \/ EventsKept
  \/ events # <<>> /\ events' = Tail(events)
  \/ \E d \in DOMAIN conns : conns[d].st # "closed" /\ EventsAdded(CloseMsg(d))
  \/ \E d \in DOMAIN conns :
       /\ conns[d].st = "open"
       /\ conns'[d].in = conns[d].in + 1
       /\ EventsAdded(DataMsg(d, <<[conn |-> d, seq |-> conns[d].in + 1]>>))

LEMMA ConnsStay ==
  ASSUME IInv, UNCHANGED conns
  PROVE  ConnsGo
  BY ConnsType DEF ConnsGo

LEMMA ConnAtGoes ==
  ASSUME IInv, NEW d \in DOMAIN conns, NEW st, conns' = ConnAt(d, st),
         conns[d].st = "closed" => st = "closed"
  PROVE  ConnsGo
  <1>1. /\ DOMAIN conns' = DOMAIN conns /\ conns'[d].st = st
        /\ \A e \in DOMAIN conns : conns'[e].in = conns[e].in /\ (e # d => conns'[e].st = conns[e].st)
    BY ConnsType, ConnAtKeeps
  <1>2. \A e \in DOMAIN conns : conns[e].in \in Nat
    BY ConnsType
  <1> QED
    BY <1>1, <1>2 DEF ConnsGo

\* The loop closes a connection and says so.
LEMMA CloseGoes ==
  ASSUME IInv, NEW d \in DOMAIN conns, conns[d].st # "closed", loop.blocked = <<>>,
         conns' = ConnAt(d, "closed"), NEW failed, Post(CloseMsg(d), failed)
  PROVE  ConnsGo /\ EventsStep
  <1>1. CloseMsg(d) \in ConnEvent
    BY ConnsType, DomainsEqual, CloseType DEF IInv, TypeOK
  <1>2. EventsAdded(CloseMsg(d))
    BY <1>1, PostAdds
  <1> QED
    BY <1>2, ConnAtGoes DEF EventsStep

LEMMA LoopStepEvents ==
  ASSUME IInv, SafetyInv, DownInv, LoopStep
  PROVE  ConnsGo /\ EventsStep
  <1>1. CASE LoopUnblocks
    <2>1. PICK s, b : s = recvChan /\ b = loop.blocked
      OBVIOUS
    <2>2. s \in Seq(ConnEvent) /\ b \in Seq(ConnEvent) /\ b # <<>> /\ Len(b) <= 1 /\ events = s \o b
      BY <1>1, <2>1, EventsType DEF LoopUnblocks, DownInv, EventsWellFormed, events
    <2>3. 1 \in DOMAIN b /\ Head(b) = b[1] /\ Tail(b) = <<>>
      BY <2>2, LastCall
    <2>4. b = <<Head(b)>> /\ Head(b) \in ConnEvent
      <3>1. Len(b) = 1
        <4>1. PICK n : n = Len(b)
          OBVIOUS
        <4>2. n \in Nat /\ DOMAIN b = 1..n /\ n <= 1
          BY <2>2, <4>1
        <4> QED
          BY <2>3, <4>1, <4>2
      <3> QED
        BY <2>2, <2>3, <3>1, SingleSeq
    <2>5. s \o b = Append(s, Head(b)) /\ Append(s, Head(b)) \in Seq(ConnEvent)
      BY <2>2, <2>4, OneCall
    <2>6. recvChan' = Append(s, Head(b)) /\ loop'.blocked = <<>> /\ UNCHANGED conns
      BY <1>1, <2>1 DEF LoopUnblocks
    <2>7. Append(s, Head(b)) \o <<>> = Append(s, Head(b))
      BY <2>5
    <2>8. EventsKept
      BY <2>2, <2>5, <2>6, <2>7 DEF EventsKept, events
    <2> QED
      BY <2>6, <2>8, ConnsStay DEF EventsStep
  <1>2. ASSUME UNCHANGED recvChan, loop'.blocked = loop.blocked
        PROVE  EventsStep
    BY <1>2 DEF DownInv, EventsWellFormed, EventsKept, events, EventsStep
  <1>3. ASSUME RunWrite \/ RunClose
        PROVE  Head(tasks).conn \in DOMAIN conns
    <2>1. tasks \in Seq(Task) /\ tasks # <<>> /\ Known(tasks, conns)
      BY <1>3 DEF RunWrite, RunClose, IInv, TypeOK, DialerTypeOK, SafetyInv, DialerTold
    <2>2. Head(tasks).op # "dial" => Head(tasks).conn \in DOMAIN conns
      BY <2>1, KnownTail
    <2> QED
      BY <1>3, <2>2 DEF RunWrite, RunClose
  <1>4. CASE RunWrite
    <2>1. PICK d, p : d = Head(tasks).conn /\ p = Head(tasks).payload
      OBVIOUS
    <2>2. loop.blocked = <<>> /\ d \in DOMAIN conns
      BY <1>3, <1>4, <2>1 DEF RunWrite, LoopIdle
    <2>3. CASE conns' = ConnWritten(d, p) /\ UNCHANGED <<loop, recvChan>>
      <3>1. /\ DOMAIN conns' = DOMAIN conns
            /\ \A e \in DOMAIN conns : conns'[e].in = conns[e].in /\ conns'[e].st = conns[e].st
        BY <2>2, <2>3, ConnsType, ConnWrittenKeeps
      <3>2. \A e \in DOMAIN conns : conns[e].in \in Nat
        BY ConnsType
      <3> QED
        BY <1>2, <2>3, <3>1, <3>2 DEF ConnsGo
    <2>4. CASE conns[d].st = "open" /\ conns' = ConnAt(d, "closed") /\ Post(CloseMsg(d), d)
      BY <2>2, <2>4, CloseGoes
    <2>5. CASE loop' = [blocked |-> <<>>, failed |-> d] /\ UNCHANGED <<conns, recvChan>>
      BY <1>2, <2>2, <2>5, ConnsStay
    <2> QED
      BY <1>4, <2>1, <2>3, <2>4, <2>5 DEF RunWrite
  <1>5. CASE RunClose
    <2>1. PICK d : d = Head(tasks).conn
      OBVIOUS
    <2>2. loop.blocked = <<>> /\ d \in DOMAIN conns
      BY <1>3, <1>5, <2>1 DEF RunClose, LoopIdle
    <2>3. CASE conns[d].st = "open" /\ conns' = ConnAt(d, "closed") /\ Post(CloseMsg(d), NoConn)
      BY <2>2, <2>3, CloseGoes
    <2>4. CASE UNCHANGED <<conns, loop, recvChan>>
      BY <1>2, <2>4, ConnsStay
    <2> QED
      BY <1>5, <2>1, <2>3, <2>4 DEF RunClose
  <1> QED
    BY <1>1, <1>4, <1>5 DEF LoopStep

LEMMA OnTrafficEvents ==
  ASSUME IInv, NEW d \in DOMAIN conns, OnTraffic(d)
  PROVE  ConnsGo /\ EventsStep
  <1>1. PICK p : p = [conn |-> d, seq |-> conns[d].in + 1]
    OBVIOUS
  <1>2. d \in ConnIds /\ conns[d].in \in Nat
    BY ConnsType, DomainsEqual DEF IInv, TypeOK
  <1>3. DataMsg(d, <<p>>) \in ConnEvent
    <2>1. p \in Pkt
      BY <1>1, <1>2 DEF Pkt
    <2> QED
      BY <1>2, <2>1, DataType
  <1>4. /\ loop.blocked = <<>> /\ conns[d].st = "open" /\ conns' = ConnRead(d)
        /\ Post(DataMsg(d, <<p>>), NoConn)
    BY <1>1 DEF OnTraffic, LoopIdle
  <1>5. EventsAdded(DataMsg(d, <<p>>))
    BY <1>3, <1>4, PostAdds
  <1>6. /\ DOMAIN conns' = DOMAIN conns
        /\ conns'[d].in = conns[d].in + 1
        /\ \A e \in DOMAIN conns : /\ conns'[e].st = conns[e].st
                                   /\ e # d => conns'[e].in = conns[e].in
    BY <1>4, ConnsType, ConnReadKeeps
  <1>7. \A e \in DOMAIN conns : conns[e].in \in Nat
    BY ConnsType
  <1>8. ConnsGo
    BY <1>4, <1>6, <1>7 DEF ConnsGo
  <1>9. EventsStep
    BY <1>1, <1>4, <1>5, <1>6 DEF EventsStep
  <1> QED
    BY <1>8, <1>9

LEMMA LoopOpensEvents ==
  ASSUME IInv, DownInv, NEW d \in DOMAIN dials, LoopOpens(d)
  PROVE  ConnsGo /\ EventsStep
  <1>1. loop.blocked = <<>> /\ d \in DOMAIN conns /\ conns[d].st = "new"
    <2>1. dials[d].pc = "enrolling" /\ loop.blocked = <<>>
      BY DEF LoopOpens, OnOpenHooked, LoopIdle
    <2> QED
      BY <2>1, ConnsType DEF LoopOpens, IInv, Core, DialsAgree
  <1>2. CASE Current(dials[d].token)
    <2>1. conns' = ConnAt(d, "open") /\ UNCHANGED <<loop, recvChan>>
      BY <1>2 DEF LoopOpens, OnOpenHooked
    <2> QED
      BY <1>1, <2>1, ConnAtGoes, EventsSame DEF EventsStep
  <1>3. CASE ~Current(dials[d].token)
    <2>1. conns' = ConnAt(d, "closed") /\ Post(CloseMsg(d), NoConn)
      BY <1>3 DEF LoopOpens, OnOpenHooked
    <2> QED
      BY <1>1, <2>1, CloseGoes
  <1> QED
    BY <1>2, <1>3

LEMMA UpCallGoes ==
  ASSUME IInv, UpCall
  PROVE  ConnsGo
  <1>1. CASE Head(up.io).op = "dial"
    <2>1. conns' = Append(conns, NewConn) /\ conns \in Seq(Conn)
      BY <1>1, ConnsType DEF UpCall, AsyncDial
    <2>2. PICK w : w = NewConn
      OBVIOUS
    <2>3. w \in Conn
      BY <2>2 DEF Conn, NewConn
    <2>4. DOMAIN conns \subseteq DOMAIN conns' /\ \A d \in DOMAIN conns : conns'[d] = conns[d]
      BY <2>1, <2>2, <2>3
    <2>5. \A d \in DOMAIN conns : conns[d].in \in Nat
      BY ConnsType
    <2> QED
      BY <2>4, <2>5 DEF ConnsGo
  <1>2. CASE Head(up.io).op # "dial"
    BY <1>2, ConnsStay DEF UpCall
  <1> QED
    BY <1>1, <1>2

\* Every step.
LEMMA NextEvents ==
  ASSUME ServerAssumption, IInv, SafetyInv, DownInv, [Next]_vars
  PROVE  ConnsGo /\ EventsStep
  <1>1. ASSUME UNCHANGED <<conns, recvChan, loop>>
        PROVE  ConnsGo /\ EventsStep
    BY <1>1, ConnsStay, EventsSame DEF EventsStep
  <1>2. CASE UNCHANGED vars
    BY <1>1, <1>2 DEF vars, dialerVars
  <1>3. CASE \E c \in Clients : ClientSends(c) \/ ClientCloses(c)
    BY <1>1, <1>3 DEF ClientSends, ClientCloses, dialerVars
  <1>4. CASE Upstream
    <2>1. CASE UpReceive \/ UpAdmit \/ UpDialResult
      BY <1>1, <2>1 DEF UpReceive, UpAdmit, UpDialResult, dialerVars
    <2>2. CASE UpCall
      <3>1. UNCHANGED <<recvChan, loop>>
        BY <2>2 DEF UpCall, AsyncDial
      <3> QED
        BY <2>2, <3>1, UpCallGoes, EventsSame DEF EventsStep
    <2> QED
      BY <1>4, <2>1, <2>2 DEF Upstream
  <1>5. CASE Downstream
    <2>1. CASE DownReceive
      <3>1. UNCHANGED <<conns, loop>> /\ recvChan # <<>> /\ recvChan' = Tail(recvChan)
        BY <2>1, DownTakes
      <3> QED
        BY <3>1, FirstEvent, ConnsStay DEF EventsStep
    <2>2. CASE DownCall
      BY <1>1, <2>2 DEF DownCall, dialerVars
    <2> QED
      BY <1>5, <2>1, <2>2 DEF Downstream
  <1>6. CASE DialerSteps
    <2>1. ASSUME NEW d \in DOMAIN dials, LoopOpens(d)
          PROVE  ConnsGo /\ EventsStep
      BY <2>1, LoopOpensEvents
    <2>2. ASSUME NEW d \in DOMAIN dials, DialerAlone(DialStep(d))
          PROVE  ConnsGo /\ EventsStep
      BY <1>1, <2>2 DEF DialerAlone, DialStep, AcquireSem, DialFinishes, DialReports, ServerAssumption
    <2>3. ASSUME NEW d \in DOMAIN dials, DialerAlone(PeerStep(d))
          PROVE  ConnsGo /\ EventsStep
      <3>1. d \in DOMAIN conns
        BY ConnsType
      <3>2. CASE OnTraffic(d)
        BY <3>1, <3>2, OnTrafficEvents
      <3>3. CASE PeerCloses(d)
        BY <3>1, <3>3, CloseGoes DEF PeerCloses, LoopIdle
      <3> QED
        BY <2>3, <3>2, <3>3 DEF DialerAlone, PeerStep
    <2>4. CASE LoopWriteError
      <3>1. loop'.blocked = loop.blocked /\ UNCHANGED <<conns, recvChan>>
        BY <2>4 DEF LoopWriteError, WriteErrorDone
      <3>2. EventsKept
        BY <3>1 DEF DownInv, EventsWellFormed, EventsKept, events
      <3> QED
        BY <3>1, <3>2, ConnsStay DEF EventsStep
    <2>5. CASE DialerAlone(LoopStep)
      BY <2>5, LoopStepEvents DEF DialerAlone
    <2> QED
      BY <1>6, <2>1, <2>2, <2>3, <2>4, <2>5 DEF DialerSteps
  <1> QED
    BY <1>2, <1>3, <1>4, <1>5, <1>6 DEF Next

\* After the Close of a connection there is no event of it.
ClosesLast ==
  \A i, j \in DOMAIN events :
    events[i].event = "Close" /\ events[j].conn = events[i].conn => j <= i

\* No packet has a number that was not read yet.
EventsSent ==
  \A i \in DOMAIN events : \A k \in DOMAIN events[i].pkts :
    events[i].pkts[k].seq <= conns[events[i].conn].in

\* A Close that waits is of a closed connection.
LEMMA CloseTold ==
  ASSUME IInv, SafetyInv
  PROVE  \A i \in DOMAIN events :
           events[i].event = "Close" => conns[events[i].conn].st = "closed"
  <1>1. PICK a, b : a = recvChan /\ b = loop.blocked
    OBVIOUS
  <1>2. a \in Seq(ConnEvent) /\ b \in Seq(ConnEvent) /\ events = a \o b
    BY <1>1, EventsType DEF events
  <1>3. \A i \in DOMAIN (a \o b) : \/ i \in DOMAIN a /\ (a \o b)[i] = a[i]
                                   \/ \E j \in DOMAIN b : (a \o b)[i] = b[j]
    BY <1>2, JoinedFrom
  <1>4. Told(a, conns) /\ Told(b, conns)
    BY <1>1 DEF SafetyInv, DialerTold
  <1> QED
    BY <1>2, <1>3, <1>4 DEF Told

LEMMA TailEvents ==
  ASSUME NEW T, NEW s \in Seq(T), s # <<>>
  PROVE  \A i \in DOMAIN Tail(s) : i \in Int /\ i + 1 \in DOMAIN s /\ Tail(s)[i] = s[i + 1]
  OBVIOUS

LEMMA AppendedEvents ==
  ASSUME NEW T, NEW s \in Seq(T), NEW m \in T
  PROVE  \A i \in DOMAIN Append(s, m) :
           /\ i \in Int /\ i <= Len(s) + 1
           /\ \/ i \in DOMAIN s /\ i <= Len(s) /\ Append(s, m)[i] = s[i]
              \/ i = Len(s) + 1 /\ Append(s, m)[i] = m
  OBVIOUS

LEMMA ClosesStayLast ==
  ASSUME IInv, SafetyInv, ClosesLast, EventsStep
  PROVE  ClosesLast'
  <1>1. PICK s, t : s = events /\ t = events'
    OBVIOUS
  <1>2. /\ s \in Seq(ConnEvent)
        /\ \A i, j \in DOMAIN s : s[i].event = "Close" /\ s[j].conn = s[i].conn => j <= i
        /\ \A i \in DOMAIN s : s[i].event = "Close" => conns[s[i].conn].st = "closed"
    BY <1>1, EventsType, CloseTold DEF ClosesLast
  <1>3. \A i, j \in DOMAIN t : t[i].event = "Close" /\ t[j].conn = t[i].conn => j <= i
    <2>1. CASE EventsKept
      BY <1>1, <1>2, <2>1 DEF EventsKept
    <2>2. CASE s # <<>> /\ t = Tail(s)
      <3> SUFFICES ASSUME NEW i \in DOMAIN t, NEW j \in DOMAIN t,
                          t[i].event = "Close", t[j].conn = t[i].conn
                   PROVE  j <= i
        OBVIOUS
      <3>1. /\ i \in Int /\ i + 1 \in DOMAIN s /\ t[i] = s[i + 1]
            /\ j \in Int /\ j + 1 \in DOMAIN s /\ t[j] = s[j + 1]
        BY <1>2, <2>2, TailEvents
      <3>2. j + 1 <= i + 1
        BY <1>2, <3>1
      <3> QED
        BY <3>1, <3>2
    <2>3. ASSUME NEW d \in DOMAIN conns, conns[d].st # "closed", NEW m \in ConnEvent, m.conn = d,
                 t = Append(s, m)
          PROVE  \A i, j \in DOMAIN t : t[i].event = "Close" /\ t[j].conn = t[i].conn => j <= i
      <3> SUFFICES ASSUME NEW i \in DOMAIN t, NEW j \in DOMAIN t,
                          t[i].event = "Close", t[j].conn = t[i].conn
                   PROVE  j <= i
        OBVIOUS
      <3>1. \A k \in DOMAIN t : /\ k \in Int /\ k <= Len(s) + 1
                                /\ \/ k \in DOMAIN s /\ k <= Len(s) /\ t[k] = s[k]
                                   \/ k = Len(s) + 1 /\ t[k] = m
        BY <1>2, <2>3, AppendedEvents
      <3>2. CASE i = Len(s) + 1
        BY <3>1, <3>2
      <3>3. CASE i \in DOMAIN s /\ t[i] = s[i]
        <4>1. t[j] # m
          BY <1>2, <2>3, <3>3
        <4>2. j \in DOMAIN s /\ t[j] = s[j]
          BY <3>1, <4>1
        <4> QED
          BY <1>2, <3>3, <4>2
      <3> QED
        BY <3>1, <3>2, <3>3
    <2>4. ASSUME NEW d \in DOMAIN conns
          PROVE  /\ CloseMsg(d) \in ConnEvent /\ CloseMsg(d).conn = d
                 /\ LET m == DataMsg(d, <<[conn |-> d, seq |-> conns[d].in + 1]>>)
                    IN  m \in ConnEvent /\ m.conn = d
      <3>1. d \in ConnIds /\ conns[d].in \in Nat
        BY ConnsType, DomainsEqual DEF IInv, TypeOK
      <3>2. [conn |-> d, seq |-> conns[d].in + 1] \in Pkt
        BY <3>1 DEF Pkt
      <3> QED
        BY <3>1, <3>2, CloseType, DataType DEF CloseMsg, DataMsg
    <2>5. CASE \E d \in DOMAIN conns : conns[d].st # "closed" /\ EventsAdded(CloseMsg(d))
      BY <1>1, <2>3, <2>4, <2>5 DEF EventsAdded
    <2>6. CASE \E d \in DOMAIN conns :
                 /\ conns[d].st = "open"
                 /\ conns'[d].in = conns[d].in + 1
                 /\ EventsAdded(DataMsg(d, <<[conn |-> d, seq |-> conns[d].in + 1]>>))
      BY <1>1, <2>3, <2>4, <2>6 DEF EventsAdded
    <2> QED
      BY <1>1, <2>1, <2>2, <2>5, <2>6 DEF EventsStep
  <1> QED
    BY <1>1, <1>3 DEF ClosesLast

\* What was read of a connection is a number, and no less than before.
LEMMA ReadNumbers ==
  ASSUME IInv, IInv', ConnsGo
  PROVE  \A d \in DOMAIN conns :
           /\ d \in DOMAIN conns' /\ conns[d].in \in Nat /\ conns'[d].in \in Nat
           /\ conns[d].in <= conns'[d].in
  <1> SUFFICES ASSUME NEW d \in DOMAIN conns
               PROVE  /\ d \in DOMAIN conns' /\ conns[d].in \in Nat /\ conns'[d].in \in Nat
                      /\ conns[d].in <= conns'[d].in
    OBVIOUS
  <1>1. conns[d].in \in Nat
    BY ConnsType
  <1>2. conns' \in Seq(Conn) /\ d \in DOMAIN conns'
    BY NextTypes DEF ConnsGo
  <1>3. conns'[d] \in Conn
    BY <1>2
  <1>4. conns'[d].in \in Nat
    BY <1>3 DEF Conn
  <1> QED
    BY <1>1, <1>2, <1>4 DEF ConnsGo

LEMMA PacketNumbers ==
  ASSUME NEW m \in ConnEvent, NEW k \in DOMAIN m.pkts
  PROVE  m.pkts[k].seq \in Nat
  <1>1. m.pkts \in Seq(Pkt)
    BY DEF ConnEvent
  <1>2. m.pkts[k] \in Pkt
    BY <1>1
  <1> QED
    BY <1>2 DEF Pkt

LEMMA EventsStaySent ==
  ASSUME IInv, IInv', SafetyInv, EventsSent, EventsStep, ConnsGo
  PROVE  EventsSent'
  <1>1. PICK s, t : s = events /\ t = events'
    OBVIOUS
  <1>2. /\ s \in Seq(ConnEvent)
        /\ \A i \in DOMAIN s : \A k \in DOMAIN s[i].pkts : s[i].pkts[k].seq <= conns[s[i].conn].in
        /\ \A i \in DOMAIN s : s[i].conn \in DOMAIN conns
    BY <1>1, EventsType, EventTold DEF EventsSent
  <1>3. ASSUME NEW i \in DOMAIN s, NEW k \in DOMAIN s[i].pkts
        PROVE  s[i].pkts[k].seq <= conns'[s[i].conn].in
    <2>1. PICK c, q : c = s[i].conn /\ q = s[i].pkts[k].seq
      OBVIOUS
    <2>2. q \in Nat
      <3>1. s[i] \in ConnEvent
        BY <1>2
      <3> QED
        BY <2>1, <3>1, PacketNumbers
    <2>3. q <= conns[c].in /\ c \in DOMAIN conns
      BY <1>2, <2>1
    <2>4. conns[c].in <= conns'[c].in /\ conns[c].in \in Nat /\ conns'[c].in \in Nat
      BY <2>3, ReadNumbers
    <2> QED
      BY <2>1, <2>2, <2>3, <2>4
  <1>4. \A i \in DOMAIN t : \A k \in DOMAIN t[i].pkts : t[i].pkts[k].seq <= conns'[t[i].conn].in
    <2>1. CASE EventsKept
      BY <1>1, <1>3, <2>1 DEF EventsKept
    <2>2. CASE s # <<>> /\ t = Tail(s)
      BY <1>2, <1>3, <2>2, TailEvents
    <2>3. ASSUME NEW m \in ConnEvent, t = Append(s, m),
                 \A k \in DOMAIN m.pkts : m.pkts[k].seq <= conns'[m.conn].in
          PROVE  \A i \in DOMAIN t : \A k \in DOMAIN t[i].pkts : t[i].pkts[k].seq <= conns'[t[i].conn].in
      <3>1. \A i \in DOMAIN t : (i \in DOMAIN s /\ t[i] = s[i]) \/ t[i] = m
        BY <1>2, <2>3, AppendedEvents
      <3> QED
        BY <1>3, <2>3, <3>1
    <2>4. CASE \E d \in DOMAIN conns : conns[d].st # "closed" /\ EventsAdded(CloseMsg(d))
      <3>1. PICK d \in DOMAIN conns : EventsAdded(CloseMsg(d))
        BY <2>4
      <3>2. PICK m : m = CloseMsg(d)
        OBVIOUS
      <3>3. m \in ConnEvent /\ m.pkts = <<>>
        BY <3>2, ConnsType, DomainsEqual, CloseType DEF IInv, TypeOK, CloseMsg
      <3>4. DOMAIN m.pkts = {}
        BY <3>3
      <3> QED
        BY <1>1, <2>3, <3>1, <3>2, <3>3, <3>4 DEF EventsAdded
    <2>5. CASE \E d \in DOMAIN conns :
                 /\ conns[d].st = "open"
                 /\ conns'[d].in = conns[d].in + 1
                 /\ EventsAdded(DataMsg(d, <<[conn |-> d, seq |-> conns[d].in + 1]>>))
      <3>1. PICK d \in DOMAIN conns :
                 /\ conns'[d].in = conns[d].in + 1
                 /\ EventsAdded(DataMsg(d, <<[conn |-> d, seq |-> conns[d].in + 1]>>))
        BY <2>5
      <3>2. PICK p : p = [conn |-> d, seq |-> conns[d].in + 1]
        OBVIOUS
      <3>3. d \in ConnIds /\ conns[d].in \in Nat
        BY ConnsType, DomainsEqual DEF IInv, TypeOK
      <3>4. p \in Pkt /\ p.seq = conns'[d].in
        BY <3>1, <3>2, <3>3 DEF Pkt
      <3>5. PICK m : m = DataMsg(d, <<p>>)
        OBVIOUS
      <3>6. m \in ConnEvent /\ m.pkts = <<p>> /\ m.conn = d
        BY <3>3, <3>4, <3>5, DataType DEF DataMsg
      <3>7. \A k \in DOMAIN m.pkts : m.pkts[k] = p
        BY <3>6
      <3>8. conns'[d].in <= conns'[d].in
        BY <3>1, <3>3
      <3> QED
        BY <1>1, <2>3, <3>1, <3>2, <3>4, <3>5, <3>6, <3>7, <3>8 DEF EventsAdded
    <2> QED
      BY <1>1, <2>1, <2>2, <2>4, <2>5 DEF EventsStep
  <1> QED
    BY <1>1, <1>4 DEF EventsSent

\* A packet was read from its connection.
WasRead(p) == p.conn \in DOMAIN conns /\ p.seq <= conns[p.conn].in

\* No packet is made up: what is on its way to a client, and what it got.
AllSent ==
  /\ EventsSent
  /\ \A i \in DOMAIN down.io : down.io[i].op = "write" => WasRead(down.io[i].pkt)
  /\ \A c \in Clients : \A k \in DOMAIN delivered[c] : WasRead(delivered[c][k])

LEMMA StaysRead ==
  ASSUME IInv, IInv', ConnsGo, NEW p \in Pkt, WasRead(p)
  PROVE  WasRead(p)'
  <1>1. PICK c, q : c = p.conn /\ q = p.seq
    OBVIOUS
  <1>2. q \in Nat /\ c \in DOMAIN conns /\ q <= conns[c].in
    BY <1>1 DEF Pkt, WasRead
  <1>3. conns[c].in <= conns'[c].in /\ conns[c].in \in Nat /\ conns'[c].in \in Nat /\ c \in DOMAIN conns'
    BY <1>2, ReadNumbers
  <1>4. q <= conns'[c].in
    BY <1>2, <1>3
  <1> QED
    BY <1>1, <1>3, <1>4 DEF WasRead

LEMMA WritePackets ==
  ASSUME IInv
  PROVE  /\ \A i \in DOMAIN down.io : down.io[i].op = "write" => down.io[i].pkt \in Pkt
         /\ \A c \in Clients : \A k \in DOMAIN delivered[c] : delivered[c][k] \in Pkt
  <1>1. \A i \in DOMAIN down.io : down.io[i] \in DownIO
    BY EventsType
  <1>2. \A c \in Clients : \A k \in DOMAIN delivered[c] : delivered[c][k] \in Pkt
    BY EventsType
  <1> QED
    BY <1>1, <1>2 DEF DownIO

\* Only the downstream goroutine changes what it owes and what clients got.
LEMMA OthersLeaveDown ==
  ASSUME [Next]_vars, ~Downstream
  PROVE  UNCHANGED <<down, delivered>>
  <1>1. CASE UNCHANGED vars
    BY <1>1 DEF vars
  <1>2. CASE \E c \in Clients : ClientSends(c) \/ ClientCloses(c)
    BY <1>2 DEF ClientSends, ClientCloses
  <1>3. CASE Upstream
    BY <1>3 DEF Upstream, UpReceive, UpAdmit, UpCall, UpDialResult
  <1>4. CASE DialerSteps
    BY <1>4 DEF DialerSteps, LoopOpens, DialerAlone, LoopWriteError
  <1> QED
    BY <1>1, <1>2, <1>3, <1>4 DEF Next

LEMMA NextSent ==
  ASSUME ServerAssumption, IInv, IInv', SafetyInv, DownInv, AllSent, [Next]_vars
  PROVE  AllSent'
  <1>1. ConnsGo /\ EventsStep
    BY NextEvents
  <1>2. EventsSent'
    BY <1>1, EventsStaySent DEF AllSent
  <1>3. /\ \A i \in DOMAIN down.io :
             down.io[i].op = "write" => down.io[i].pkt \in Pkt /\ WasRead(down.io[i].pkt)
        /\ \A c \in Clients : \A k \in DOMAIN delivered[c] :
             delivered[c][k] \in Pkt /\ WasRead(delivered[c][k])
    BY WritePackets DEF AllSent
  <1>4. \A p \in Pkt : WasRead(p) => WasRead(p)'
    BY <1>1, StaysRead
  <1>5. CASE UNCHANGED <<down, delivered>>
    BY <1>2, <1>3, <1>4, <1>5 DEF AllSent
  <1>6. CASE DownReceive
    <2>1. PICK m, io : m = Head(recvChan) /\ io = down'.io
      OBVIOUS
    <2>2. DownOwes(m, io) /\ UNCHANGED delivered /\ recvChan # <<>>
      BY <1>6, <2>1, DownDecides, DownTakes
    <2>3. /\ m = events[1] /\ 1 \in DOMAIN events /\ m.conn \in DOMAIN conns
          /\ m.pkts # <<>> => DOMAIN m.pkts = {1} /\ m.pkts[1] \in Pkt /\ m.pkts[1].conn = m.conn
      BY <2>1, <2>2, FirstPacket
    <2>4. ASSUME m.pkts # <<>>
          PROVE  WasRead(m.pkts[1])'
      <3>1. m.pkts[1].seq <= conns[m.conn].in
        BY <2>3, <2>4 DEF AllSent, EventsSent
      <3> QED
        BY <1>4, <2>3, <2>4, <3>1 DEF WasRead
    <2>5. ASSUME NEW i \in DOMAIN io, io[i].op = "write"
          PROVE  WasRead(io[i].pkt)'
      <3>1. ~ \E c \in Clients : io = <<ClientClose(c)>>
        BY <2>5 DEF ClientClose
      <3>2. io = [k \in DOMAIN m.pkts |-> ClientWrite(byDest[m.conn], m.pkts[k])]
        BY <2>2, <2>5, <3>1 DEF DownOwes
      <3>3. i \in DOMAIN m.pkts /\ io[i].pkt = m.pkts[i]
        BY <2>5, <3>2 DEF ClientWrite
      <3>4. m.pkts # <<>>
        BY <3>3
      <3> QED
        BY <2>3, <2>4, <3>3, <3>4
    <2> QED
      BY <1>2, <1>3, <1>4, <2>1, <2>2, <2>5 DEF AllSent
  <1>7. CASE DownCall
    <2>1. PICK io, c, p : io = down.io /\ c = Head(io).client /\ p = Head(io).pkt
      OBVIOUS
    <2>2. 1 \in DOMAIN io /\ Head(io) = io[1] /\ Tail(io) = <<>> /\ io[1] \in DownIO
      BY <1>7, <2>1, EventsType, LastCall DEF DownCall, DownInv, DownNext
    <2>3. down'.io = <<>>
      BY <1>7, <2>1, <2>2 DEF DownCall
    <2>4. c \in Clients
      BY <2>1, <2>2 DEF DownIO
    <2>5. ASSUME NEW e \in Clients, NEW k \in DOMAIN delivered'[e], NEW q, q = delivered'[e][k]
          PROVE  WasRead(q)'
      <3>1. CASE delivered' = delivered
        BY <1>3, <1>4, <2>5, <3>1
      <3>2. CASE delivered' = [delivered EXCEPT ![c] = Append(@, p)] /\ io[1].op = "write"
        <4>1. p \in Pkt /\ WasRead(p)
          BY <1>3, <2>1, <2>2, <3>2
        <4>2. PICK got : got = delivered[e]
          OBVIOUS
        <4>3. delivered \in [Clients -> Seq(Pkt)] /\ got \in Seq(Pkt)
          BY <4>2 DEF IInv, TypeOK, ClientTypeOK
        <4>4. CASE e = c
          <5>1. delivered'[e] = Append(got, p)
            BY <3>2, <4>2, <4>3, <4>4
          <5>2. (k \in DOMAIN got /\ Append(got, p)[k] = got[k]) \/ Append(got, p)[k] = p
            BY <2>5, <4>1, <4>3, <5>1
          <5>3. q = p \/ (k \in DOMAIN delivered[e] /\ q = delivered[e][k])
            BY <2>5, <4>2, <5>1, <5>2
          <5> QED
            BY <1>3, <1>4, <4>1, <5>3
        <4>5. CASE e # c
          <5>1. delivered'[e] = got
            BY <3>2, <4>2, <4>3, <4>5
          <5> QED
            BY <1>3, <1>4, <2>5, <4>2, <5>1
        <4> QED
          BY <4>4, <4>5
      <3>3. \/ delivered' = delivered
            \/ delivered' = [delivered EXCEPT ![c] = Append(@, p)] /\ io[1].op = "write"
        BY <1>7, <2>1, <2>2 DEF DownCall
      <3> QED
        BY <3>1, <3>2, <3>3
    <2>6. \A e \in Clients : \A k \in DOMAIN delivered'[e] :
            \E q : q = delivered'[e][k] /\ WasRead(q)'
      BY <2>5
    <2>7. DOMAIN down'.io = {}
      BY <2>3
    <2>8. \A e \in Clients : \A k \in DOMAIN delivered'[e] : WasRead(delivered[e][k])'
      BY <2>6 DEF WasRead
    <2> QED
      BY <1>2, <2>7, <2>8 DEF AllSent
  <1> QED
    BY <1>5, <1>6, <1>7, OthersLeaveDown DEF Downstream

(***************************************************************************)
(* Dials that come to nothing                                              *)
(***************************************************************************)

\* The dial of connection f failed.
NotMade(f) == dials[f].pc = "done" /\ conns[f].st = "new"

\* Dials stay, with the token they have; a failed one stays failed.
DialsGo ==
  \A f \in DOMAIN dials :
    /\ f \in DOMAIN dials' /\ f \in DOMAIN conns'
    /\ dials'[f].token = dials[f].token
    /\ NotMade(f) => NotMade(f)'

\* A new dial is one the upstream goroutine owed.
DialsOwed ==
  \A f \in DOMAIN dials' : f \notin DOMAIN dials =>
    \E j \in DOMAIN up.io : up.io[j].op = "dial" /\ dials'[f].token = up.io[j].token

\* The pc of a dial under way, or the state of a connection that exists,
\* does not make a dial fail, and changes none that failed.
LEMMA DialAtGoes ==
  ASSUME IInv, NEW d \in DOMAIN dials, NEW pc, dials' = DialAt(d, pc), dials[d].pc # "done",
         DOMAIN conns' = DOMAIN conns, \A e \in DOMAIN conns : e # d => conns'[e].st = conns[e].st
  PROVE  DialsGo /\ DialsOwed
  <1>1. dials \in Seq(Dial) /\ DOMAIN conns = DOMAIN dials
    BY ConnsType
  <1>2. /\ DOMAIN dials' = DOMAIN dials
        /\ \A e \in DOMAIN dials : /\ dials'[e].token = dials[e].token
                                   /\ e # d => dials'[e].pc = dials[e].pc
    BY <1>1 DEF DialAt
  <1> QED
    BY <1>1, <1>2 DEF DialsGo, DialsOwed, NotMade

LEMMA ConnMoves ==
  ASSUME IInv, UNCHANGED dials, DOMAIN conns' = DOMAIN conns,
         \A e \in DOMAIN conns : conns[e].st = "new" => conns'[e].st = "new"
  PROVE  DialsGo /\ DialsOwed
  BY ConnsType DEF DialsGo, DialsOwed, NotMade

LEMMA ConnAtMoves ==
  ASSUME IInv, UNCHANGED dials, NEW d \in DOMAIN conns, NEW st, conns[d].st # "new",
         conns' = ConnAt(d, st)
  PROVE  DialsGo /\ DialsOwed
  <1>1. /\ DOMAIN conns' = DOMAIN conns
        /\ \A e \in DOMAIN conns : e # d => conns'[e].st = conns[e].st
    BY ConnsType, ConnAtKeeps
  <1> QED
    BY <1>1, ConnMoves

LEMMA UpCallDials ==
  ASSUME IInv, UpCall
  PROVE  DialsGo /\ DialsOwed
  <1>1. CASE Head(up.io).op = "dial"
    <2>1. PICK t, w, q, io : t = Head(up.io).token /\ q = [token |-> t, pc |-> "spawned"] /\ w = NewConn /\ io = up.io
      OBVIOUS
    <2>2. /\ dials' = Append(dials, q) /\ conns' = Append(conns, w)
          /\ dials \in Seq(Dial) /\ conns \in Seq(Conn) /\ DOMAIN conns = DOMAIN dials
      BY <1>1, <2>1, ConnsType DEF UpCall, AsyncDial
    <2>3. io \in Seq(UpIO) /\ io # <<>>
      BY <2>1, QueueType DEF UpCall
    <2>4. 1 \in DOMAIN io /\ Head(io) = io[1] /\ io[1] \in UpIO
      BY <2>3, EmptySeq
    <2>5. t \in Token
      BY <1>1, <2>1, <2>4 DEF UpIO, Task
    <2>6. q \in Dial /\ w \in Conn /\ q.token = t
      BY <2>1, <2>5 DEF Dial, DialPC, Conn, NewConn
    <2>7. /\ DOMAIN dials' = DOMAIN dials \cup {Len(dials) + 1}
          /\ dials'[Len(dials) + 1] = q
          /\ \A f \in DOMAIN dials : dials'[f] = dials[f]
          /\ DOMAIN conns \subseteq DOMAIN conns'
          /\ \A f \in DOMAIN conns : conns'[f] = conns[f]
      BY <2>2, <2>6
    <2>8. DialsGo
      BY <2>2, <2>7 DEF DialsGo, NotMade
    <2>9. DialsOwed
      BY <1>1, <2>1, <2>4, <2>6, <2>7 DEF DialsOwed
    <2> QED
      BY <2>8, <2>9
  <1>2. CASE Head(up.io).op # "dial"
    BY <1>2, ConnMoves DEF UpCall
  <1> QED
    BY <1>1, <1>2

LEMMA NextDials ==
  ASSUME ServerAssumption, IInv, SafetyInv, [Next]_vars
  PROVE  DialsGo /\ DialsOwed
  <1>1. ASSUME UNCHANGED <<dials, conns>>
        PROVE  DialsGo /\ DialsOwed
    BY <1>1, ConnMoves
  <1>2. CASE UNCHANGED vars
    BY <1>1, <1>2 DEF vars, dialerVars
  <1>3. CASE \E c \in Clients : ClientSends(c) \/ ClientCloses(c)
    BY <1>1, <1>3 DEF ClientSends, ClientCloses, dialerVars
  <1>4. CASE Upstream
    <2>1. CASE UpReceive \/ UpAdmit \/ UpDialResult
      BY <1>1, <2>1 DEF UpReceive, UpAdmit, UpDialResult, dialerVars
    <2> QED
      BY <1>4, <2>1, UpCallDials DEF Upstream
  <1>5. CASE Downstream
    BY <1>1, <1>5 DEF Downstream, DownReceive, DownCall, dialerVars
  <1>6. ASSUME RunWrite \/ RunClose
        PROVE  Head(tasks).conn \in DOMAIN conns
    <2>1. tasks \in Seq(Task) /\ tasks # <<>> /\ Known(tasks, conns)
      BY <1>6 DEF RunWrite, RunClose, IInv, TypeOK, DialerTypeOK, SafetyInv, DialerTold
    <2>2. Head(tasks).op # "dial" => Head(tasks).conn \in DOMAIN conns
      BY <2>1, KnownTail
    <2> QED
      BY <1>6, <2>2 DEF RunWrite, RunClose
  <1>7. CASE DialerSteps
    <2>1. ASSUME NEW d \in DOMAIN dials, LoopOpens(d)
          PROVE  DialsGo /\ DialsOwed
      <3>1. dials' = DialAt(d, "opened") /\ dials[d].pc # "done" /\ d \in DOMAIN conns
        BY <2>1, ConnsType DEF LoopOpens, OnOpenHooked
      <3>2. \E st : conns' = ConnAt(d, st)
        BY <2>1 DEF LoopOpens, OnOpenHooked
      <3>3. DOMAIN conns' = DOMAIN conns /\ \A e \in DOMAIN conns : e # d => conns'[e].st = conns[e].st
        BY <3>1, <3>2, ConnsType, ConnAtKeeps
      <3> QED
        BY <3>1, <3>3, DialAtGoes
    <2>2. ASSUME NEW d \in DOMAIN dials, DialerAlone(DialStep(d))
          PROVE  DialsGo /\ DialsOwed
      <3>1. UNCHANGED conns /\ dials[d].pc # "done" /\ \E pc : dials' = DialAt(d, pc)
        BY <2>2 DEF DialerAlone, DialStep, AcquireSem, DialFinishes, DialReports
      <3> QED
        BY <3>1, DialAtGoes
    <2>3. ASSUME NEW d \in DOMAIN dials, DialerAlone(PeerStep(d))
          PROVE  DialsGo /\ DialsOwed
      <3>1. d \in DOMAIN conns
        BY ConnsType
      <3>2. CASE OnTraffic(d)
        <4>1. UNCHANGED dials /\ conns' = ConnRead(d)
          BY <3>2 DEF OnTraffic
        <4>2. DOMAIN conns' = DOMAIN conns /\ \A e \in DOMAIN conns : conns'[e].st = conns[e].st
          BY <3>1, <4>1, ConnsType, ConnReadKeeps
        <4> QED
          BY <4>1, <4>2, ConnMoves
      <3>3. CASE PeerCloses(d)
        BY <3>1, <3>3, ConnAtMoves DEF PeerCloses
      <3> QED
        BY <2>3, <3>2, <3>3 DEF DialerAlone, PeerStep
    <2>4. CASE LoopWriteError
      BY <1>1, <2>4 DEF LoopWriteError, WriteErrorDone
    <2>5. CASE LoopUnblocks
      BY <1>1, <2>5 DEF LoopUnblocks
    <2>6. CASE RunWrite
      <3>1. PICK d, p : d = Head(tasks).conn /\ p = Head(tasks).payload
        OBVIOUS
      <3>2. d \in DOMAIN conns /\ UNCHANGED dials
        BY <1>6, <2>6, <3>1 DEF RunWrite
      <3>3. CASE conns' = ConnWritten(d, p)
        <4>1. DOMAIN conns' = DOMAIN conns /\ \A e \in DOMAIN conns : conns'[e].st = conns[e].st
          BY <3>2, <3>3, ConnsType, ConnWrittenKeeps
        <4> QED
          BY <3>2, <4>1, ConnMoves
      <3>4. CASE conns[d].st = "open" /\ conns' = ConnAt(d, "closed")
        BY <3>2, <3>4, ConnAtMoves
      <3> QED
        BY <1>1, <2>6, <3>1, <3>2, <3>3, <3>4 DEF RunWrite
    <2>7. CASE RunClose
      <3>1. PICK d : d = Head(tasks).conn
        OBVIOUS
      <3>2. d \in DOMAIN conns /\ UNCHANGED dials
        BY <1>6, <2>7, <3>1 DEF RunClose
      <3>3. CASE conns[d].st = "open" /\ conns' = ConnAt(d, "closed")
        BY <3>2, <3>3, ConnAtMoves
      <3> QED
        BY <1>1, <2>7, <3>1, <3>2, <3>3 DEF RunClose
    <2> QED
      BY <1>7, <2>1, <2>2, <2>3, <2>4, <2>5, <2>6, <2>7 DEF DialerSteps, DialerAlone, LoopStep
  <1> QED
    BY <1>2, <1>3, <1>4, <1>5, <1>7 DEF Next

(***************************************************************************)
(* Why a session goes                                                      *)
(***************************************************************************)

\* Client c is to be hung up on, or was, or has gone.
Closing(c) ==
  \/ cstate[c] # "open"
  \/ \E i \in DOMAIN down.io : down.io[i].op = "close" /\ down.io[i].client = c

LEMMA ClosingStays ==
  ASSUME IInv, DownInv, [Next]_vars, NEW c \in Clients, Closing(c)
  PROVE  Closing(c)'
  <1>1. cstate \in [Clients -> {"open", "closing", "closed"}]
    BY DEF IInv, TypeOK, ClientTypeOK
  <1>2. CASE UNCHANGED <<down, cstate>>
    BY <1>2 DEF Closing
  <1>3. CASE UNCHANGED vars
    BY <1>2, <1>3 DEF vars, clientVars
  <1>4. CASE \E e \in Clients : ClientSends(e)
    BY <1>2, <1>4 DEF ClientSends
  <1>5. CASE \E e \in Clients : ClientCloses(e)
    <2>1. PICK e \in Clients : cstate' = [cstate EXCEPT ![e] = "closed"] /\ UNCHANGED down
      BY <1>5 DEF ClientCloses
    <2> QED
      BY <1>1, <2>1 DEF Closing
  <1>6. CASE Upstream
    BY <1>2, <1>6 DEF Upstream, UpReceive, UpAdmit, UpCall, UpDialResult, clientVars
  <1>7. CASE DialerSteps
    BY <1>2, <1>7 DEF DialerSteps, LoopOpens, DialerAlone, LoopWriteError, clientVars
  <1>8. CASE DownReceive
    <2>1. down.io = <<>> /\ UNCHANGED cstate
      BY <1>8, DownTakes
    <2> QED
      BY <2>1 DEF Closing
  <1>9. CASE DownCall
    <2>1. PICK io, e : io = down.io /\ e = Head(io).client
      OBVIOUS
    <2>2. 1 \in DOMAIN io /\ Head(io) = io[1] /\ Tail(io) = <<>> /\ \A i \in DOMAIN io : i = 1
      <3>1. io \in Seq(DownIO) /\ io # <<>> /\ Len(io) <= 1
        BY <1>9, <2>1, EventsType DEF DownCall, DownInv, DownNext
      <3>2. \A i \in DOMAIN io : i = 1
        BY <3>1
      <3> QED
        BY <3>1, <3>2, LastCall
    <2>3. CASE io[1].op = "write"
      BY <1>9, <2>1, <2>2, <2>3 DEF DownCall, Closing
    <2>4. CASE io[1].op # "write"
      <3>1. cstate' = IF cstate[e] = "open" THEN [cstate EXCEPT ![e] = "closing"] ELSE cstate
        BY <1>9, <2>1, <2>2, <2>4 DEF DownCall
      <3>2. cstate[c] # "open" \/ c = e
        BY <2>1, <2>2 DEF Closing
      <3>3. cstate'[c] # "open"
        BY <1>1, <3>1, <3>2
      <3> QED
        BY <3>3 DEF Closing
    <2> QED
      BY <2>3, <2>4
  <1> QED
    BY <1>3, <1>4, <1>5, <1>6, <1>7, <1>8, <1>9 DEF Next, Downstream

\* The client of the packet at hand has, if any, a session for its
\* destination: the client does not switch.
KeepsDest ==
  up.io = <<>> /\ up.pkts # <<>> /\ up.conn \in DOMAIN byClient => SameDest(up.conn, Head(up.pkts).dest)

\* A session stays, or its client is hung up on, or its dial failed.
LEMMA CurrentStays ==
  ASSUME ServerAssumption, IInv, SafetyInv, DownInv, [Next]_vars,
         KeepsDest, loop.failed = NoConn,
         NEW t, Current(t)
  PROVE  \/ Current(t)' \/ Closing(t.client)'
         \/ \E f \in DOMAIN dials : dials[f].token.session = t.session /\ NotMade(f)
  <1>1. CASE UNCHANGED byClient
    BY <1>1 DEF Current
  <1>2. CASE UNCHANGED vars
    BY <1>1, <1>2 DEF vars, tableVars
  <1>3. CASE \E e \in Clients : ClientSends(e) \/ ClientCloses(e)
    BY <1>1, <1>3 DEF ClientSends, ClientCloses, tableVars
  <1>4. CASE UpReceive
    <2>1. CASE Head(channel).event = "Close"
      <3>1. PICK c : c = Head(channel).conn
        OBVIOUS
      <3>2. byClient' = Delete(byClient, c) /\ UNCHANGED cstate /\ channel # <<>>
        BY <1>4, <2>1, <3>1 DEF UpReceive, PurgeByClient
      <3>3. cstate[c] = "closed"
        <4>1. channel \in Seq(ClientMsg) /\ channel # <<>>
          BY <3>2 DEF IInv, TypeOK, ClientTypeOK
        <4>2. 1 \in DOMAIN channel /\ Head(channel) = channel[1]
          BY <4>1, EmptySeq
        <4> QED
          BY <2>1, <3>1, <4>2 DEF SafetyInv, ChannelTold
      <3>4. CASE t.client = c
        BY <3>2, <3>3, <3>4 DEF Closing
      <3>5. CASE t.client # c
        BY <3>2, <3>5 DEF Current, Delete
      <3> QED
        BY <3>4, <3>5
    <2> QED
      BY <1>1, <1>4, <2>1 DEF UpReceive
  <1>5. CASE UpAdmit
    <2>1. CASE AdmitDial(up.conn, Head(up.pkts))
      <3>1. up.conn \notin DOMAIN byClient
        BY <1>5, <2>1 DEF KeepsDest, UpAdmit, AdmitDial
      <3>2. byClient' = Put(byClient, up.conn, Len(sess) + 1)
        BY <2>1 DEF AdmitDial
      <3> QED
        BY <3>1, <3>2 DEF Put, Current
    <2> QED
      BY <1>1, <1>5, <2>1 DEF UpAdmit, AdmitQueued, AdmitForward
  <1>6. CASE UpCall
    BY <1>1, <1>6 DEF UpCall, tableVars
  <1>7. CASE UpDialResult
    <2>1. PICK res, s : res = Head(dialResultChan) /\ s = dials[res.conn].token
      OBVIOUS
    <2>2. dialResultChan # <<>>
      BY <1>7 DEF UpDialResult
    <2>3. 1 \in DOMAIN dialResultChan /\ res = dialResultChan[1]
      BY <2>1, <2>2, EmptySeq DEF IInv, TypeOK, DialerTypeOK
    <2>4. res.conn \in DOMAIN dials /\ dials[res.conn].pc = "done" /\ (res.err <=> conns[res.conn].st = "new")
      BY <2>3 DEF IInv, Core, DialsAgree
    <2>5. CASE res.err /\ Current(s)
      <3>1. byClient' = Delete(byClient, s.client) /\ NotMade(res.conn)
        BY <1>7, <2>1, <2>4, <2>5 DEF UpDialResult, DialFailed, AbortDial, NotMade
      <3>2. CASE t.client = s.client
        BY <2>1, <2>4, <2>5, <3>1, <3>2 DEF Current
      <3>3. CASE t.client # s.client
        BY <3>1, <3>3 DEF Current, Delete
      <3> QED
        BY <3>2, <3>3
    <2>6. CASE ~(res.err /\ Current(s))
      BY <1>1, <1>7, <2>1, <2>6 DEF UpDialResult, DialFailed, DialSucceeded
    <2> QED
      BY <2>5, <2>6
  <1>8. CASE DownReceive
    <2>1. PICK d : d = Head(recvChan).conn
      OBVIOUS
    <2>2. CASE Head(recvChan).event = "Close"
      <3>1. byClient' = [c \in DOMAIN byClient \ PurgedClient(d) |-> byClient[c]]
        BY <1>8, <2>1, <2>2 DEF DownReceive, PurgeByDest
      <3>2. CASE t.client \in PurgedClient(d)
        <4>1. PICK c \in PurgedClient(d) : down' = [io |-> <<ClientClose(c)>>]
          BY <1>8, <2>1, <2>2, <3>2 DEF DownReceive
        <4>2. c = t.client
          BY <3>2 DEF PurgedClient
        <4>3. 1 \in DOMAIN down'.io /\ down'.io[1].op = "close" /\ down'.io[1].client = t.client
          BY <4>1, <4>2 DEF ClientClose
        <4> QED
          BY <4>3 DEF Closing
      <3>3. CASE t.client \notin PurgedClient(d)
        BY <3>1, <3>3 DEF Current
      <3> QED
        BY <3>2, <3>3
    <2> QED
      BY <1>1, <1>8, <2>2 DEF DownReceive
  <1>9. CASE DownCall
    BY <1>1, <1>9 DEF DownCall, tableVars
  <1>10. CASE DialerSteps
    <2>1. ~LoopWriteError
      BY DEF LoopWriteError, WriteErrorDone
    <2> QED
      BY <1>1, <1>10, <2>1 DEF DialerSteps, LoopOpens, DialerAlone, tableVars
  <1> QED
    BY <1>2, <1>3, <1>4, <1>5, <1>6, <1>7, <1>8, <1>9, <1>10 DEF Next, Upstream, Downstream

\* A dial is owed for the session its client has, when it is first owed.
LEMMA OwedStay ==
  ASSUME IInv, [Next]_vars, NEW i \in DOMAIN up'.io, up'.io[i].op = "dial"
  PROVE  \/ \E j \in DOMAIN up.io : up'.io[i] = up.io[j]
         \/ Current(up.io[i].token)'
  <1>1. CASE UNCHANGED up
    BY <1>1
  <1>2. CASE UNCHANGED vars
    BY <1>1, <1>2 DEF vars
  <1>3. CASE \E e \in Clients : ClientSends(e) \/ ClientCloses(e)
    BY <1>1, <1>3 DEF ClientSends, ClientCloses
  <1>4. \A c : \A k \in DOMAIN Orphan(c) : Orphan(c)[k].op # "dial"
    BY DEF Orphan, CloseTask
  <1>5. CASE UpReceive
    <2>1. \/ up'.io = <<>>
          \/ \E c : up'.io = Orphan(c)
      BY <1>5 DEF UpReceive, UpOwes
    <2> QED
      BY <1>4, <2>1
  <1>6. CASE UpAdmit
    <2>1. CASE AdmitQueued(up.conn, Head(up.pkts)) \/ AdmitForward(up.conn, Head(up.pkts))
      <3>1. up'.io = <<>> \/ \E d, p : up'.io = <<WriteTask(d, p)>>
        BY <2>1 DEF AdmitQueued, AdmitForward, UpNext
      <3>2. CASE up'.io = <<>>
        BY <3>2
      <3>3. ASSUME NEW d, NEW p, up'.io = <<WriteTask(d, p)>> PROVE FALSE
        <4>1. i = 1 /\ up'.io[1] = WriteTask(d, p)
          BY <3>3
        <4> QED
          BY <4>1 DEF WriteTask
      <3> QED
        BY <3>1, <3>2, <3>3
    <2>2. CASE AdmitDial(up.conn, Head(up.pkts))
      <3>1. PICK c, s, o, call : /\ c = up.conn /\ s = Len(sess) + 1 /\ o = Orphan(up.conn)
                                 /\ call = DialCall([client |-> c, session |-> s])
        OBVIOUS
      <3>2. up'.io = Append(o, call) /\ byClient' = Put(byClient, c, s)
        BY <2>2, <3>1 DEF AdmitDial, UpNext
      <3>3. Len(o) \in Nat /\ (\A k \in 1..Len(o) : o[k].op # "dial") /\ \E T : o \in Seq(T) /\ call \in T
        <4>1. o = <<>> \/ \E d : o = <<CloseTask(d)>>
          BY <3>1 DEF Orphan
        <4>2. PICK T : T = {call} \cup {CloseTask(d) : d \in {sess[byClient[c]].destConn}}
          OBVIOUS
        <4>3. o \in Seq(T)
          <5>1. PICK task : task = CloseTask(sess[byClient[c]].destConn)
            OBVIOUS
          <5>2. o = <<>> \/ o = <<task>>
            BY <3>1, <5>1 DEF Orphan
          <5>3. task \in T
            BY <4>2, <5>1
          <5>4. <<>> \in Seq(T) /\ <<task>> \in Seq(T)
            BY <5>3
          <5> QED
            BY <5>2, <5>4
        <4>4. call \in T
          BY <4>2
        <4>5. \A k \in 1..Len(o) : o[k].op # "dial"
          BY <4>1 DEF CloseTask
        <4> QED
          BY <4>3, <4>4, <4>5
      <3>4. up'.io[i] = call
        <4>1. PICK T : o \in Seq(T) /\ call \in T
          BY <3>3
        <4>2. (i \in 1..Len(o) /\ up'.io[i] = o[i]) \/ up'.io[i] = call
          BY <3>2, <4>1
        <4> QED
          BY <3>3, <4>2
      <3>5. PICK tok : tok = up'.io[i].token
        OBVIOUS
      <3>6. tok.client = c /\ tok.session = s
        BY <3>1, <3>4, <3>5 DEF DialCall
      <3> QED
        BY <3>2, <3>5, <3>6 DEF Put, Current
    <2> QED
      BY <1>6, <2>1, <2>2 DEF UpAdmit
  <1>7. CASE UpCall
    <2>1. PICK io : io = up.io
      OBVIOUS
    <2>2. io \in Seq(UpIO) /\ io # <<>> /\ up'.io = Tail(io)
      BY <1>7, <2>1, QueueType DEF UpCall, UpOwes
    <2>3. i + 1 \in DOMAIN io /\ Tail(io)[i] = io[i + 1]
      BY <2>2, TailEvents
    <2> QED
      BY <2>1, <2>2, <2>3
  <1>8. CASE UpDialResult
    <2>1. \/ UNCHANGED up
          \/ \E d, s : up'.io = Replay(d, s)
          \/ \E d : up'.io = <<CloseTask(d)>>
      BY <1>8 DEF UpDialResult, DialFailed, DialSucceeded, UpOwes
    <2>2. CASE \E d, s : up'.io = Replay(d, s)
      BY <2>2 DEF Replay, WriteTask
    <2>3. CASE \E d : up'.io = <<CloseTask(d)>>
      BY <2>3 DEF CloseTask
    <2> QED
      BY <1>1, <2>1, <2>2, <2>3
  <1>9. CASE Downstream
    BY <1>1, <1>9 DEF Downstream, DownReceive, DownCall
  <1>10. CASE DialerSteps
    BY <1>1, <1>10 DEF DialerSteps, LoopOpens, DialerAlone, LoopWriteError
  <1> QED
    BY <1>2, <1>3, <1>5, <1>6, <1>7, <1>8, <1>9, <1>10 DEF Next, Upstream

\* A client that keeps to one destination has at most one dial to wait for:
\* each is for its session, or failed, or the client is hung up on.
Settled(t) == Current(t) \/ Closing(t.client)

DialsSettled ==
  /\ \A f \in DOMAIN dials : NotMade(f) \/ Settled(dials[f].token)
  /\ \A j \in DOMAIN up.io : up.io[j].op = "dial" => Settled(up.io[j].token)

LEMMA TokenTypes ==
  ASSUME IInv
  PROVE  /\ \A f \in DOMAIN dials : dials[f].token \in Token
         /\ \A j \in DOMAIN up.io : up.io[j].op = "dial" => up.io[j].token \in Token
  <1>1. \A f \in DOMAIN dials : dials[f] \in Dial
    BY ConnsType
  <1>2. \A j \in DOMAIN up.io : up.io[j] \in UpIO
    BY QueueType
  <1> QED
    BY <1>1, <1>2 DEF Dial, UpIO, Task

LEMMA NextSettled ==
  ASSUME ServerAssumption, IInv, SafetyInv, UpInv, DownInv, [Next]_vars,
         KeepsDest, loop.failed = NoConn, DialsSettled
  PROVE  DialsSettled'
  <1>1. DialsGo /\ DialsOwed
    BY NextDials
  <1>2. ASSUME NEW t \in Token, Settled(t)
        PROVE  \/ Settled(t)'
               \/ \E f \in DOMAIN dials : dials[f].token.session = t.session /\ NotMade(f)
    <2>1. t.client \in Clients
      BY DEF Token
    <2>2. CASE Closing(t.client)
      BY <2>1, <2>2, ClosingStays DEF Settled
    <2>3. CASE Current(t)
      BY <2>3, CurrentStays DEF Settled
    <2> QED
      BY <1>2, <2>2, <2>3 DEF Settled
  <1>3. ASSUME NEW j \in DOMAIN up.io, up.io[j].op = "dial", NEW t, t = up.io[j].token
        PROVE  Settled(t)'
    <2>1. t \in Token /\ Settled(t)
      BY <1>3, TokenTypes DEF DialsSettled
    <2>2. \A f \in DOMAIN dials : dials[f].token.session # t.session
      BY <1>3 DEF IInv, Core, CallsFresh
    <2> QED
      BY <1>2, <2>1, <2>2
  <1>4. ASSUME NEW f \in DOMAIN dials', NEW t, t = dials'[f].token
        PROVE  NotMade(f)' \/ Settled(t)'
    <2>1. CASE f \notin DOMAIN dials
      BY <1>1, <1>3, <1>4, <2>1 DEF DialsOwed
    <2>2. CASE f \in DOMAIN dials
      <3>1. t = dials[f].token /\ t \in Token /\ (NotMade(f) => NotMade(f)')
        BY <1>1, <1>4, <2>2, TokenTypes DEF DialsGo
      <3>2. CASE NotMade(f)
        BY <3>1, <3>2
      <3>3. CASE Settled(t)
        <4>1. ASSUME NEW g \in DOMAIN dials, dials[g].token.session = t.session, NotMade(g)
              PROVE  NotMade(f)'
          <5>1. g = f
            BY <2>2, <3>1, <4>1 DEF UpInv, DialsInOrder
          <5> QED
            BY <3>1, <4>1, <5>1
        <4> QED
          BY <1>2, <3>1, <3>3, <4>1
      <3> QED
        BY <2>2, <3>1, <3>2, <3>3 DEF DialsSettled
    <2> QED
      BY <2>1, <2>2
  <1>5. ASSUME NEW i \in DOMAIN up'.io, up'.io[i].op = "dial", NEW t, t = up'.io[i].token
        PROVE  Settled(t)'
    <2>1. CASE \E j \in DOMAIN up.io : up'.io[i] = up.io[j]
      BY <1>3, <1>5, <2>1
    <2>2. CASE Current(up.io[i].token)'
      BY <1>5, <2>2 DEF Settled, Current
    <2> QED
      BY <1>5, <2>1, <2>2, OwedStay
  <1>6. \A f \in DOMAIN dials' : NotMade(f)' \/ Settled(dials[f].token)'
    BY <1>4 DEF Settled, Current, Closing
  <1>7. \A i \in DOMAIN up'.io : up'.io[i].op = "dial" => Settled(up.io[i].token)'
    BY <1>5 DEF Settled, Current, Closing
  <1> QED
    BY <1>6, <1>7 DEF DialsSettled

(***************************************************************************)
(* A client that is hung up on got it all                                  *)
(***************************************************************************)

\* The first connection that was made for client c has closed, and the
\* client was written all that was read from it.
Answered(c) ==
  \E e \in DOMAIN conns :
    /\ dials[e].token.client = c
    /\ conns[e].st = "closed"
    /\ conns[e].in > 0 =>
         \E k \in DOMAIN delivered[c] : delivered[c][k] = [conn |-> e, seq |-> conns[e].in]
    /\ \A f \in DOMAIN dials : f < e /\ dials[f].token.client = c => NotMade(f)

\* What a client got, it keeps.
DeliveredStays ==
  \A c \in Clients : \A k \in DOMAIN delivered[c] :
    k \in DOMAIN delivered'[c] /\ delivered'[c][k] = delivered[c][k]

LEMMA NextDelivered ==
  ASSUME IInv, IInv', [Next]_vars
  PROVE  DeliveredStays
  <1>1. delivered \in [Clients -> Seq(Pkt)] /\ delivered' \in [Clients -> Seq(Pkt)]
    BY DEF IInv, TypeOK, ClientTypeOK
  <1>2. UNCHANGED delivered \/ \E c, p : delivered' = [delivered EXCEPT ![c] = Append(@, p)]
    BY OthersLeaveDown DEF Downstream, DownReceive, DownCall
  <1>3. ASSUME NEW e, NEW p, delivered' = [delivered EXCEPT ![e] = Append(@, p)]
        PROVE  DeliveredStays
    <2> SUFFICES ASSUME NEW c \in Clients, NEW k \in DOMAIN delivered[c]
                 PROVE  k \in DOMAIN delivered'[c] /\ delivered'[c][k] = delivered[c][k]
      BY DEF DeliveredStays
    <2>1. PICK got : got = delivered[c]
      OBVIOUS
    <2>2. got \in Seq(Pkt)
      BY <1>1, <2>1
    <2>3. delivered'[c] = got \/ delivered'[c] = Append(got, p)
      BY <1>1, <1>3, <2>1
    <2>4. k \in DOMAIN Append(got, p) /\ Append(got, p)[k] = got[k]
      BY <2>1, <2>2, AppendProperties
    <2> QED
      BY <2>1, <2>3, <2>4
  <1> QED
    BY <1>2, <1>3 DEF DeliveredStays

LEMMA AnsweredStays ==
  ASSUME ServerAssumption, IInv, IInv', SafetyInv, DownInv, [Next]_vars,
         NEW c \in Clients, Answered(c)
  PROVE  Answered(c)'
  <1>1. ConnsGo /\ DialsGo /\ DeliveredStays
    BY NextEvents, NextDials, NextDelivered
  <1>2. PICK e \in DOMAIN conns :
          /\ dials[e].token.client = c
          /\ conns[e].st = "closed"
          /\ conns[e].in > 0 =>
               \E k \in DOMAIN delivered[c] : delivered[c][k] = [conn |-> e, seq |-> conns[e].in]
          /\ \A f \in DOMAIN dials : f < e /\ dials[f].token.client = c => NotMade(f)
    BY DEF Answered
  <1>3. e \in DOMAIN conns' /\ conns'[e].st = "closed" /\ conns'[e].in = conns[e].in
    BY <1>1, <1>2 DEF ConnsGo
  <1>4. e \in DOMAIN dials /\ dials'[e].token = dials[e].token
    BY <1>1, ConnsType DEF DialsGo
  <1>5. ASSUME NEW f \in DOMAIN dials', f < e, dials'[f].token.client = c
        PROVE  NotMade(f)'
    <2>1. f \in DOMAIN dials
      <3>1. DOMAIN dials = 1..Len(dials) /\ Len(dials) \in Nat /\ DOMAIN dials' = 1..Len(dials')
        BY ConnsType, NextTypes
      <3> QED
        BY <1>4, <1>5, <3>1
    <2> QED
      BY <1>1, <1>2, <1>5, <2>1 DEF DialsGo
  <1>6. conns'[e].in > 0 =>
          \E k \in DOMAIN delivered'[c] : delivered'[c][k] = [conn |-> e, seq |-> conns'[e].in]
    BY <1>1, <1>2, <1>3 DEF DeliveredStays
  <1> QED
    BY <1>2, <1>3, <1>4, <1>5, <1>6 DEF Answered

(***************************************************************************)
(* A client that was answered                                              *)
(***************************************************************************)

\* When the Close of a connection is the first event, no packet of the
\* connection is on its way.
LEMMA NothingBehindClose ==
  ASSUME IInv, SafetyInv, DownInv, ClosesLast, recvChan # <<>>, Head(recvChan).event = "Close",
         down.io = <<>>
  PROVE  InTransit(Head(recvChan).conn) = {}
  <1>1. PICK m, s, a, b, d : /\ m = Head(recvChan) /\ s = events /\ a = recvChan /\ b = loop.blocked
                             /\ d = Head(recvChan).conn
    OBVIOUS
  <1>2. m = s[1] /\ 1 \in DOMAIN s /\ m.pkts = <<>> /\ m.conn = d /\ m.event = "Close"
    BY <1>1, FirstPacket
  <1>3. a \in Seq(ConnEvent) /\ b \in Seq(ConnEvent) /\ s = a \o b /\ s \in Seq(ConnEvent)
    BY <1>1, EventsType DEF events
  <1>4. \A i \in DOMAIN s : s[i].conn = d => s[i].pkts = <<>>
    <2> SUFFICES ASSUME NEW i \in DOMAIN s, s[i].conn = d
                 PROVE  i = 1
      BY <1>2
    <2>1. i <= 1
      BY <1>1, <1>2 DEF ClosesLast
    <2> QED
      BY <1>3, <2>1
  <1>5. \A i \in DOMAIN s : \A k \in DOMAIN s[i].pkts : s[i].pkts[k].conn # d
    <2> SUFFICES ASSUME NEW i \in DOMAIN s, NEW k \in DOMAIN s[i].pkts, s[i].pkts[k].conn = d
                 PROVE  FALSE
      OBVIOUS
    <2>1. s[i].conn = d
      BY <1>1, EventTold
    <2>2. s[i].pkts = <<>>
      BY <1>4, <2>1
    <2> QED
      BY <2>2
  <1>6. /\ \A i \in DOMAIN a : \E j \in DOMAIN s : s[j] = a[i]
        /\ \A i \in DOMAIN b : \E j \in DOMAIN s : s[j] = b[i]
    <2>1. /\ \A i \in DOMAIN a : i \in DOMAIN (a \o b) /\ (a \o b)[i] = a[i]
          /\ \A j \in DOMAIN b : \E i \in DOMAIN (a \o b) : (a \o b)[i] = b[j]
      BY <1>3, JoinedHas
    <2> QED
      BY <1>3, <2>1
  <1>7. /\ \A i \in DOMAIN a : \A k \in DOMAIN a[i].pkts : a[i].pkts[k].conn # d
        /\ \A i \in DOMAIN b : \A k \in DOMAIN b[i].pkts : b[i].pkts[k].conn # d
    BY <1>5, <1>6
  <1> QED
    BY <1>1, <1>7 DEF InTransit

LEMMA LastIsAnswered ==
  ASSUME IInv, SafetyInv, UpInv, DownInv, ClosesLast, DialsSettled,
         recvChan # <<>>, Head(recvChan).event = "Close", down.io = <<>>,
         NEW c \in PurgedClient(Head(recvChan).conn), ~Closing(c)
  PROVE  Answered(c)
  <1>1. PICK m, d : m = Head(recvChan) /\ d = Head(recvChan).conn
    OBVIOUS
  <1>2. m = events[1] /\ 1 \in DOMAIN events /\ m.event = "Close" /\ m.conn = d /\ d \in DOMAIN conns
    BY <1>1, FirstPacket
  <1>3. conns[d].st = "closed"
    BY <1>2, CloseTold
  <1>4. d \in DOMAIN byDest /\ byDest[d] = c
    BY <1>1 DEF PurgedClient
  <1>5. /\ c \in Clients /\ byClient[c] = d /\ d \in Int /\ dials[d].token.client = c
        /\ conns[d].in \in Nat
    BY <1>2, <1>4, RouteIsSession, ConnsType DEF SafetyInv, RoutesOwn
  <1>6. ASSUME conns[d].in > 0
        PROVE  \E k \in DOMAIN delivered[c] : delivered[c][k] = [conn |-> d, seq |-> conns[d].in]
    <2>1. PICK p : p = [conn |-> d, seq |-> conns[d].in]
      OBVIOUS
    <2>2. {q \in {delivered[c][i] : i \in DOMAIN delivered[c]} : q.conn = d} \cup InTransit(d)
            = {[conn |-> d, seq |-> n] : n \in 1..conns[d].in}
      BY <1>4, RoutedComplete DEF DownstreamNotLost, Closing
    <2>3. InTransit(d) = {}
      BY <1>1, NothingBehindClose
    <2>4. p \in {[conn |-> d, seq |-> n] : n \in 1..conns[d].in}
      BY <1>5, <1>6, <2>1
    <2> QED
      BY <2>1, <2>2, <2>3, <2>4
  <1>7. ASSUME NEW f \in DOMAIN dials, f < d, dials[f].token.client = c
        PROVE  NotMade(f)
    <2>1. NotMade(f) \/ Current(dials[f].token)
      BY <1>7 DEF DialsSettled, Settled
    <2>2. dials[f].token.session = f
      BY DEF UpInv, DialsInOrder
    <2> QED
      BY <1>5, <1>7, <2>1, <2>2 DEF Current
  <1> QED
    BY <1>2, <1>3, <1>5, <1>6, <1>7 DEF Answered

\* A client is told to go only when it was answered, or closes itself.
LEMMA NextAnswers ==
  ASSUME ServerAssumption, IInv, IInv', SafetyInv, UpInv, DownInv, ClosesLast, DialsSettled,
         [Next]_vars, NEW c \in Clients, ~Closing(c), Closing(c)'
  PROVE  Answered(c)' \/ ClientCloses(c)
  <1>1. CASE UNCHANGED <<down, cstate>>
    BY <1>1 DEF Closing
  <1>2. CASE UNCHANGED vars
    BY <1>1, <1>2 DEF vars, clientVars
  <1>3. CASE \E e \in Clients : ClientSends(e)
    BY <1>1, <1>3 DEF ClientSends
  <1>4. CASE \E e \in Clients : ClientCloses(e)
    <2>1. PICK e \in Clients : ClientCloses(e)
      BY <1>4
    <2>2. cstate' = [cstate EXCEPT ![e] = "closed"] /\ UNCHANGED down
      BY <2>1 DEF ClientCloses
    <2>3. CASE e # c
      <3>1. cstate'[c] = cstate[c]
        BY <2>2, <2>3 DEF IInv, TypeOK, ClientTypeOK
      <3> QED
        BY <2>2, <3>1 DEF Closing
    <2> QED
      BY <2>1, <2>3
  <1>5. CASE Upstream
    BY <1>1, <1>5 DEF Upstream, UpReceive, UpAdmit, UpCall, UpDialResult, clientVars
  <1>6. CASE DialerSteps
    BY <1>1, <1>6 DEF DialerSteps, LoopOpens, DialerAlone, LoopWriteError, clientVars
  <1>7. CASE DownReceive
    <2>1. /\ UNCHANGED cstate /\ recvChan # <<>> /\ down.io = <<>>
          /\ \E i \in DOMAIN down'.io : down'.io[i].op = "close" /\ down'.io[i].client = c
      BY <1>7, DownTakes DEF Closing
    <2>2. PICK i \in DOMAIN down'.io : down'.io[i].op = "close" /\ down'.io[i].client = c
      BY <2>1
    <2>3. CASE Head(recvChan).event # "Close"
      <3>1. PICK m, q : m = Head(recvChan) /\ q = down'.io
        OBVIOUS
      <3>2. DownOwes(m, q)
        BY <1>7, <3>1, DownDecides
      <3>3. i \in DOMAIN q /\ q[i].op = "close"
        BY <2>2, <3>1
      <3>4. q = [k \in DOMAIN m.pkts |-> ClientWrite(byDest[m.conn], m.pkts[k])]
        BY <2>3, <3>1, <3>2, <3>3 DEF DownOwes
      <3>5. q[i] = ClientWrite(byDest[m.conn], m.pkts[i])
        BY <3>3, <3>4
      <3> QED
        BY <3>3, <3>5 DEF ClientWrite
    <2>4. CASE Head(recvChan).event = "Close"
      <3>1. \/ down' = [io |-> <<>>]
            \/ \E e \in PurgedClient(Head(recvChan).conn) : down' = [io |-> <<ClientClose(e)>>]
        BY <1>7, <2>4 DEF DownReceive
      <3>2. PICK e \in PurgedClient(Head(recvChan).conn) : down' = [io |-> <<ClientClose(e)>>]
        BY <2>2, <3>1
      <3>3. down'.io[i] = ClientClose(e)
        BY <2>2, <3>2
      <3>4. e = c
        BY <2>2, <3>3 DEF ClientClose
      <3>5. Answered(c)
        BY <2>1, <2>4, <3>4, LastIsAnswered
      <3> QED
        BY <3>5, AnsweredStays
    <2> QED
      BY <2>3, <2>4
  <1>8. CASE DownCall
    <2>1. PICK io : io = down.io
      OBVIOUS
    <2>2. io \in Seq(DownIO) /\ io # <<>> /\ Len(io) <= 1
      BY <1>8, <2>1, EventsType DEF DownCall, DownInv, DownNext
    <2>3. 1 \in DOMAIN io /\ Head(io) = io[1] /\ Tail(io) = <<>> /\ io[1] \in DownIO
      BY <2>2, LastCall
    <2>4. down'.io = <<>> /\ cstate'[c] # "open" /\ cstate[c] = "open"
      BY <1>8, <2>1, <2>3 DEF DownCall, Closing
    <2>5. io[1].op # "write" /\ (io[1].client = c \/ cstate'[c] = cstate[c])
      BY <1>8, <2>1, <2>3, <2>4 DEF DownCall, IInv, TypeOK, ClientTypeOK
    <2>6. io[1].op = "close"
      BY <2>3, <2>5 DEF DownIO
    <2> QED
      BY <2>1, <2>3, <2>4, <2>5, <2>6 DEF Closing
  <1> QED
    BY <1>2, <1>3, <1>4, <1>5, <1>6, <1>7, <1>8 DEF Next, Downstream

(***************************************************************************)
(* Both, of every behaviour                                                *)
(***************************************************************************)
LEMMA InitEnd ==
  ASSUME Init
  PROVE  ClosesLast /\ AllSent /\ DialsSettled
  <1>1. events = <<>>
    BY DEF Init, DialerInit, events
  <1>2. /\ \A c \in Clients : delivered[c] = <<>>
        /\ down.io = <<>> /\ up.io = <<>> /\ dials = <<>>
    BY DEF Init, DialerInit
  <1> QED
    BY <1>1, <1>2 DEF ClosesLast, AllSent, EventsSent, DialsSettled

LEMMA NextEnd ==
  ASSUME ServerAssumption, IInv, IInv', SafetyInv, DownInv, ClosesLast, AllSent, [Next]_vars
  PROVE  ClosesLast' /\ AllSent'
  BY NextEvents, ClosesStayLast, NextSent

\* The Close of a connection comes last, and no packet is ever made up.
THEOREM ClosesComeLast ==
  Spec => [](IInv /\ SafetyInv /\ UpInv /\ DownInv /\ ClosesLast /\ AllSent)
  <1>1. ServerAssumption
    BY ServerAssumption
  <1>2. Init => ClosesLast /\ AllSent
    BY InitEnd
  <1>3. ASSUME IInv, IInv', SafetyInv, DownInv, ClosesLast, AllSent, [Next]_vars
        PROVE  ClosesLast' /\ AllSent'
    BY <1>1, <1>3, NextEnd
  <1> QED
    BY <1>2, <1>3, DownstreamInvariant, PTL DEF Spec

(***************************************************************************)
(* What the clients name                                                   *)
(***************************************************************************)

\* F gives the one destination that each client that sent anything names: all
\* that was read of a client, and made of it, is for that destination.
Names(F) ==
  /\ \A c \in DOMAIN byClient : c \in DOMAIN F /\ sess[byClient[c]].dest = F[c]
  /\ \A i \in DOMAIN channel : \A k \in DOMAIN channel[i].pkts :
       channel[i].conn \in DOMAIN F /\ channel[i].pkts[k].dest = F[channel[i].conn]
  /\ \A k \in DOMAIN up.pkts : up.conn \in DOMAIN F /\ up.pkts[k].dest = F[up.conn]
  /\ \A j \in DOMAIN up.io : up.io[j].op = "dial" => up.io[j].token.client \in DOMAIN F
  /\ \A f \in DOMAIN dials : dials[f].token.client \in DOMAIN F

\* A client sends for its destination.
SendsNamed(F) ==
  \E c \in DOMAIN F :
    /\ ClientSends(c)
    /\ \A k \in DOMAIN channel'[Len(channel')].pkts : channel'[Len(channel')].pkts[k].dest = F[c]

\* A session is for the destination it was made for.
SessKept == \A s \in DOMAIN sess : s \in DOMAIN sess' /\ sess'[s].dest = sess[s].dest

SessionsCome ==
  \A c \in DOMAIN byClient' :
    \/ c \in DOMAIN byClient /\ byClient'[c] = byClient[c]
    \/ c = up.conn /\ up.pkts # <<>> /\ sess'[byClient'[c]].dest = Head(up.pkts).dest

PacketsCome ==
  \A k \in DOMAIN up'.pkts :
    \/ up'.conn = up.conn /\ \E j \in DOMAIN up.pkts : up'.pkts[k] = up.pkts[j]
    \/ \E i \in DOMAIN channel : \E j \in DOMAIN channel[i].pkts :
         up'.conn = channel[i].conn /\ up'.pkts[k] = channel[i].pkts[j]

ChannelComes ==
  \A i \in DOMAIN channel' :
    (\E j \in DOMAIN channel : channel'[i] = channel[j]) \/ channel'[i].pkts = <<>>

LEMMA QueuedKept ==
  ASSUME IInv, NEW s, NEW p, sess' = SessQueued(s, p) PROVE SessKept
  BY DEF SessQueued, SessKept, IInv, TypeOK, TableTypeOK

LEMMA BoundKept ==
  ASSUME IInv, NEW s, NEW d, sess' = SessBound(s, d) PROVE SessKept
  BY DEF SessBound, SessKept, IInv, TypeOK, TableTypeOK

LEMMA ReadyKept ==
  ASSUME IInv, NEW s, NEW pending, sess' = SessReady(s, pending) PROVE SessKept
  BY DEF SessReady, SessKept, IInv, TypeOK, TableTypeOK

LEMMA AddedKept ==
  ASSUME IInv, NEW new, sess' = Append(sess, new)
  PROVE  SessKept /\ sess'[Len(sess) + 1] = new
  <1>1. PICK s \in Seq(Session) : s = sess
    BY DEF IInv, TypeOK, TableTypeOK
  <1>2. \A i \in DOMAIN s : i \in DOMAIN Append(s, new) /\ Append(s, new)[i] = s[i]
    OBVIOUS
  <1>3. Append(s, new)[Len(s) + 1] = new
    OBVIOUS
  <1> QED
    BY <1>1, <1>2, <1>3 DEF SessKept

LEMMA NextSessKept ==
  ASSUME IInv, [Next]_vars
  PROVE  SessKept
  <1>1. CASE UNCHANGED sess
    BY <1>1 DEF SessKept
  <1>2. CASE UNCHANGED vars
    BY <1>1, <1>2 DEF vars, tableVars
  <1>3. CASE \E e \in Clients : ClientSends(e) \/ ClientCloses(e)
    BY <1>1, <1>3 DEF ClientSends, ClientCloses, tableVars
  <1>4. CASE Upstream
    <2>1. CASE UpAdmit
      BY <1>1, <2>1, QueuedKept, AddedKept DEF UpAdmit, AdmitQueued, AdmitForward, AdmitDial
    <2>2. CASE UpDialResult
      BY <1>1, <2>2, ReadyKept DEF UpDialResult, DialFailed, DialSucceeded, CompleteDial
    <2> QED
      BY <1>1, <1>4, <2>1, <2>2 DEF Upstream, UpReceive, UpCall, tableVars
  <1>5. CASE Downstream
    BY <1>1, <1>5 DEF Downstream, DownReceive, DownCall, tableVars
  <1>6. CASE DialerSteps
    BY <1>1, <1>6, BoundKept
    DEF DialerSteps, LoopOpens, BindDial, DialerAlone, LoopWriteError, tableVars
  <1> QED
    BY <1>2, <1>3, <1>4, <1>5, <1>6 DEF Next

LEMMA NextSessions ==
  ASSUME IInv, [Next]_vars
  PROVE  SessionsCome
  <1>1. CASE UNCHANGED byClient
    BY <1>1 DEF SessionsCome
  <1>2. ASSUME NEW gone, byClient' = [c \in DOMAIN byClient \ gone |-> byClient[c]]
        PROVE  SessionsCome
    BY <1>2 DEF SessionsCome
  <1>3. ASSUME NEW c, byClient' = Delete(byClient, c)
        PROVE  SessionsCome
    BY <1>3 DEF SessionsCome, Delete
  <1>4. CASE UNCHANGED vars
    BY <1>1, <1>4 DEF vars, tableVars
  <1>5. CASE \E e \in Clients : ClientSends(e) \/ ClientCloses(e)
    BY <1>1, <1>5 DEF ClientSends, ClientCloses, tableVars
  <1>6. CASE Upstream
    <2>1. CASE UpAdmit
      <3>1. CASE AdmitDial(up.conn, Head(up.pkts))
        <4>1. PICK pkt, new : pkt = Head(up.pkts) /\ new = NewSession(pkt.dest, pkt.payload)
          OBVIOUS
        <4>2. sess' = Append(sess, new) /\ byClient' = Put(byClient, up.conn, Len(sess) + 1)
          BY <3>1, <4>1 DEF AdmitDial
        <4>3. sess'[Len(sess) + 1] = new
          BY <4>2, AddedKept
        <4>4. new.dest = pkt.dest
          BY <4>1 DEF NewSession
        <4>5. up.pkts # <<>>
          BY <2>1 DEF UpAdmit
        <4> QED
          BY <4>1, <4>2, <4>3, <4>4, <4>5 DEF SessionsCome, Put
      <3> QED
        BY <1>1, <2>1, <3>1 DEF UpAdmit, AdmitQueued, AdmitForward
    <2>2. CASE UpReceive
      BY <1>1, <1>3, <2>2 DEF UpReceive, PurgeByClient
    <2>3. CASE UpDialResult
      BY <1>1, <1>3, <2>3 DEF UpDialResult, DialFailed, DialSucceeded, AbortDial
    <2> QED
      BY <1>1, <1>6, <2>1, <2>2, <2>3 DEF Upstream, UpCall, tableVars
  <1>7. CASE Downstream
    BY <1>1, <1>2, <1>7 DEF Downstream, DownReceive, PurgeByDest, DownCall, tableVars
  <1>8. CASE DialerSteps
    BY <1>1, <1>2, <1>8
    DEF DialerSteps, LoopOpens, DialerAlone, LoopWriteError, PurgeByDest, tableVars
  <1> QED
    BY <1>4, <1>5, <1>6, <1>7, <1>8 DEF Next

LEMMA NextPackets ==
  ASSUME IInv, [Next]_vars
  PROVE  PacketsCome
  <1>1. CASE up'.pkts = up.pkts /\ up'.conn = up.conn
    BY <1>1 DEF PacketsCome
  <1>2. CASE UNCHANGED vars
    BY <1>1, <1>2 DEF vars
  <1>3. CASE \E e \in Clients : ClientSends(e) \/ ClientCloses(e)
    BY <1>1, <1>3 DEF ClientSends, ClientCloses
  <1>4. CASE UpReceive
    <2>1. CASE Head(channel).event = "Close"
      BY <1>1, <1>4, <2>1 DEF UpReceive, UpOwes
    <2>2. CASE Head(channel).event # "Close"
      <3>1. up' = [conn |-> Head(channel).conn, pkts |-> Head(channel).pkts, io |-> <<>>]
            /\ channel # <<>>
        BY <1>4, <2>2 DEF UpReceive
      <3>2. 1 \in DOMAIN channel /\ Head(channel) = channel[1]
        BY <3>1, EmptySeq DEF IInv, TypeOK, ClientTypeOK
      <3> QED
        BY <3>1, <3>2 DEF PacketsCome
    <2> QED
      BY <2>1, <2>2
  <1>5. CASE UpAdmit
    <2>1. PICK io : up' = UpNext(io)
      BY <1>5 DEF UpAdmit, AdmitQueued, AdmitForward, AdmitDial
    <2>2. up.pkts \in Seq(Packet) /\ up.pkts # <<>>
      BY <1>5 DEF UpAdmit, IInv, TypeOK, GoroutineTypeOK, Goroutine
    <2>3. \A k \in DOMAIN Tail(up.pkts) : k + 1 \in DOMAIN up.pkts /\ Tail(up.pkts)[k] = up.pkts[k + 1]
      BY <2>2, TailEvents
    <2>4. up'.conn = up.conn /\ up'.pkts = Tail(up.pkts)
      BY <2>1 DEF UpNext
    <2> QED
      BY <2>3, <2>4 DEF PacketsCome
  <1>6. CASE UpCall \/ UpDialResult
    BY <1>1, <1>6 DEF UpCall, UpDialResult, DialFailed, DialSucceeded, UpOwes
  <1>7. CASE Downstream
    BY <1>1, <1>7 DEF Downstream, DownReceive, DownCall
  <1>8. CASE DialerSteps
    BY <1>1, <1>8 DEF DialerSteps, LoopOpens, DialerAlone, LoopWriteError
  <1> QED
    BY <1>2, <1>3, <1>4, <1>5, <1>6, <1>7, <1>8 DEF Next, Upstream

\* A step in which no client sends.
NoneSends ==
  \/ \E c \in Clients : ClientCloses(c)
  \/ Upstream
  \/ Downstream
  \/ DialerSteps
  \/ UNCHANGED vars

LEMMA NextChannel ==
  ASSUME IInv, NoneSends
  PROVE  ChannelComes
  <1>0. channel \in Seq(ClientMsg)
    BY DEF IInv, TypeOK, ClientTypeOK
  <1>1. CASE UNCHANGED channel
    BY <1>1 DEF ChannelComes
  <1>2. CASE UNCHANGED vars
    BY <1>1, <1>2 DEF vars, clientVars
  <1>3. CASE \E e \in Clients : ClientCloses(e)
    <2>1. PICK m : channel' = Append(channel, m) /\ m.pkts = <<>>
      BY <1>3 DEF ClientCloses
    <2>2. \A i \in DOMAIN Append(channel, m) :
            Append(channel, m)[i] = m \/ (i \in DOMAIN channel /\ Append(channel, m)[i] = channel[i])
      BY <1>0
    <2> QED
      BY <2>1, <2>2 DEF ChannelComes
  <1>4. CASE UpReceive
    <2>1. channel # <<>> /\ channel' = Tail(channel)
      BY <1>4 DEF UpReceive
    <2>2. \A i \in DOMAIN Tail(channel) : i + 1 \in DOMAIN channel /\ Tail(channel)[i] = channel[i + 1]
      BY <1>0, <2>1, TailEvents
    <2> QED
      BY <2>1, <2>2 DEF ChannelComes
  <1>5. CASE UpAdmit \/ UpCall \/ UpDialResult
    BY <1>1, <1>5 DEF UpAdmit, UpCall, UpDialResult, clientVars
  <1>6. CASE Downstream
    BY <1>1, <1>6 DEF Downstream, DownReceive, DownCall, clientVars
  <1>7. CASE DialerSteps
    BY <1>1, <1>7 DEF DialerSteps, LoopOpens, DialerAlone, LoopWriteError, clientVars
  <1> QED
    BY <1>2, <1>3, <1>4, <1>5, <1>6, <1>7 DEF NoneSends, Upstream

LEMMA NamesStay ==
  ASSUME ServerAssumption, IInv, IInv', SafetyInv, NEW F, Names(F), NoneSends
  PROVE  Names(F)'
  <1>1. [Next]_vars
    BY DEF NoneSends, Next
  <1>2. SessKept /\ SessionsCome /\ PacketsCome /\ ChannelComes /\ DialsGo /\ DialsOwed
    BY <1>1, NextSessKept, NextSessions, NextPackets, NextChannel, NextDials
  <1>3. ASSUME NEW c \in DOMAIN byClient'
        PROVE  c \in DOMAIN F /\ sess'[byClient'[c]].dest = F[c]
    <2>1. CASE c \in DOMAIN byClient /\ byClient'[c] = byClient[c]
      <3>1. byClient[c] \in DOMAIN sess
        BY <2>1 DEF IInv, TypeOK, TableTypeOK
      <3> QED
        BY <1>2, <2>1, <3>1 DEF SessKept, Names
    <2>2. CASE c = up.conn /\ up.pkts # <<>> /\ sess'[byClient'[c]].dest = Head(up.pkts).dest
      <3>1. up.pkts \in Seq(Packet)
        BY DEF IInv, TypeOK, GoroutineTypeOK, Goroutine
      <3>2. 1 \in DOMAIN up.pkts /\ Head(up.pkts) = up.pkts[1]
        BY <2>2, <3>1, EmptySeq
      <3> QED
        BY <2>2, <3>2 DEF Names
    <2> QED
      BY <1>2, <2>1, <2>2 DEF SessionsCome
  <1>4. ASSUME NEW i \in DOMAIN channel', NEW k \in DOMAIN channel'[i].pkts
        PROVE  channel'[i].conn \in DOMAIN F /\ channel'[i].pkts[k].dest = F[channel'[i].conn]
    BY <1>2 DEF ChannelComes, Names
  <1>5. ASSUME NEW k \in DOMAIN up'.pkts
        PROVE  up'.conn \in DOMAIN F /\ up'.pkts[k].dest = F[up'.conn]
    BY <1>2 DEF PacketsCome, Names
  <1>6. ASSUME NEW j \in DOMAIN up'.io, up'.io[j].op = "dial"
        PROVE  up'.io[j].token.client \in DOMAIN F
    <2>1. CASE \E i \in DOMAIN up.io : up'.io[j] = up.io[i]
      BY <1>6, <2>1 DEF Names
    <2>2. CASE Current(up.io[j].token)'
      BY <1>3, <2>2 DEF Current
    <2> QED
      BY <1>1, <1>6, <2>1, <2>2, OwedStay
  <1>7. ASSUME NEW f \in DOMAIN dials'
        PROVE  dials'[f].token.client \in DOMAIN F
    BY <1>2 DEF DialsGo, DialsOwed, Names
  <1> QED
    BY <1>3, <1>4, <1>5, <1>6, <1>7 DEF Names

LEMMA NamesSent ==
  ASSUME IInv, NEW F, Names(F), SendsNamed(F)
  PROVE  Names(F)'
  <1>1. PICK c \in DOMAIN F :
          /\ ClientSends(c)
          /\ \A k \in DOMAIN channel'[Len(channel')].pkts :
               channel'[Len(channel')].pkts[k].dest = F[c]
    BY DEF SendsNamed
  <1>2. UNCHANGED <<byClient, sess, up, dials>>
    BY <1>1 DEF ClientSends, dialerVars, tableVars
  <1>3. PICK m : channel' = Append(channel, m) /\ m.conn = c
    BY <1>1 DEF ClientSends
  <1>4. channel \in Seq(ClientMsg)
    BY DEF IInv, TypeOK, ClientTypeOK
  <1>5. /\ Append(channel, m)[Len(Append(channel, m))] = m
        /\ \A i \in DOMAIN Append(channel, m) :
             Append(channel, m)[i] = m \/ (i \in DOMAIN channel /\ Append(channel, m)[i] = channel[i])
    BY <1>4
  <1>6. \A k \in DOMAIN m.pkts : m.pkts[k].dest = F[c]
    BY <1>1, <1>3, <1>5
  <1>7. \A i \in DOMAIN channel' : \A k \in DOMAIN channel'[i].pkts :
          channel'[i].conn \in DOMAIN F /\ channel'[i].pkts[k].dest = F[channel'[i].conn]
    BY <1>3, <1>5, <1>6 DEF Names
  <1> QED
    BY <1>2, <1>7 DEF Names

\* One destination for each client: a client never switches.
LEMMA NamesKeep ==
  ASSUME IInv, NEW F, Names(F)
  PROVE  KeepsDest
  <1> SUFFICES ASSUME up.pkts # <<>>, up.conn \in DOMAIN byClient
               PROVE  SameDest(up.conn, Head(up.pkts).dest)
    BY DEF KeepsDest
  <1>1. up.pkts \in Seq(Packet)
    BY DEF IInv, TypeOK, GoroutineTypeOK, Goroutine
  <1>2. 1 \in DOMAIN up.pkts /\ Head(up.pkts) = up.pkts[1]
    BY <1>1, EmptySeq
  <1> QED
    BY <1>2 DEF SameDest, Names

\* More may be named.
LEMMA NamesMore ==
  ASSUME NEW F, NEW G, Names(F), \A c \in DOMAIN F : c \in DOMAIN G /\ G[c] = F[c]
  PROVE  Names(G)
  <1>1. /\ \A c \in DOMAIN byClient : c \in DOMAIN G /\ sess[byClient[c]].dest = G[c]
        /\ \A f \in DOMAIN dials : dials[f].token.client \in DOMAIN G
    BY DEF Names
  <1>2. \A i \in DOMAIN channel : \A k \in DOMAIN channel[i].pkts :
          channel[i].conn \in DOMAIN G /\ channel[i].pkts[k].dest = G[channel[i].conn]
    BY DEF Names
  <1>3. /\ \A k \in DOMAIN up.pkts : up.conn \in DOMAIN G /\ up.pkts[k].dest = G[up.conn]
        /\ \A j \in DOMAIN up.io : up.io[j].op = "dial" => up.io[j].token.client \in DOMAIN G
    BY DEF Names
  <1> QED
    BY <1>1, <1>2, <1>3 DEF Names

LEMMA InitNames ==
  ASSUME Init, NEW F
  PROVE  Names(F)
  BY DEF Init, DialerInit, Names
=============================================================================
