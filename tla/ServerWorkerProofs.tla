------------------------- MODULE ServerWorkerProofs -------------------------
(***************************************************************************)
(* Proofs about ServerWorker, for every number of clients, destinations    *)
(* and packets and every capacity of the channels.                         *)
(***************************************************************************)
EXTENDS ServerWorker, SequenceLemmas, FiniteSetTheorems

(***************************************************************************)
(* The inductive invariant                                                 *)
(***************************************************************************)

\* No two clients share a session.
OwnSession ==
  \A c1, c2 \in DOMAIN byClient : byClient[c1] = byClient[c2] => c1 = c2

\* Every dial is for a session that exists, and no two are for the same.
DialsDistinct ==
  /\ \A d \in DOMAIN dials : dials[d].token.session \in DOMAIN sess
  /\ \A d, e \in DOMAIN dials :
       dials[d].token.session = dials[e].token.session => d = e

\* A dial the upstream goroutine still has to start is the last call it
\* owes, and is for a session no dial was started for.
CallsFresh ==
  \A i \in DOMAIN up.io :
    up.io[i].op = "dial" =>
      /\ i = Len(up.io)
      /\ up.io[i].token.session \in DOMAIN sess
      /\ \A d \in DOMAIN dials : dials[d].token.session # up.io[i].token.session

\* A connection exists exactly when its dial got as far as OnOpen, and the
\* results queued say the same.
DialsAgree ==
  /\ \A d \in DOMAIN dials :
       /\ dials[d].pc \in {"spawned", "dialing", "failed", "enrolling"} => conns[d].st = "new"
       /\ dials[d].pc = "opened" => conns[d].st # "new"
  /\ \A i \in DOMAIN dialResultChan :
       LET res == dialResultChan[i] IN
         /\ res.conn \in DOMAIN dials
         /\ dials[res.conn].pc = "done"
         /\ res.err <=> conns[res.conn].st = "new"

\* A session is bound only to the connection of its own dial.
BoundByOwnDial ==
  \A s \in DOMAIN sess :
    LET d == sess[s].destConn IN
      d # NoConn =>
        d \in DOMAIN dials /\ dials[d].token.session = s /\ conns[d].st # "new"

\* Once the connection of a dial exists, a session that is still current is
\* bound to it: OnOpen comes before the dial result.
OpenIsBound ==
  \A d \in DOMAIN dials :
    conns[d].st # "new" /\ Current(dials[d].token) =>
      sess[dials[d].token.session].destConn = d

Core ==
  /\ RouteConsistent
  /\ ReadyMeansBound
  /\ OwnSession
  /\ DialsDistinct
  /\ CallsFresh
  /\ DialsAgree
  /\ BoundByOwnDial
  /\ OpenIsBound

IInv == TypeOK /\ Core

(***************************************************************************)
(* One dial changes                                                        *)
(***************************************************************************)

\* DialAt changes the pc of one dial and no token.
LEMMA DialAtShape ==
  ASSUME dials \in Seq(Dial), NEW d \in DOMAIN dials, NEW pc \in DialPC
  PROVE  /\ DialAt(d, pc) \in Seq(Dial)
         /\ Len(DialAt(d, pc)) = Len(dials)
         /\ DOMAIN DialAt(d, pc) = DOMAIN dials
         /\ DialAt(d, pc)[d].pc = pc
         /\ DialAt(d, pc)[d].token = dials[d].token
         /\ \A e \in DOMAIN dials : e # d => DialAt(d, pc)[e] = dials[e]
  <1> DEFINE r == [token |-> dials[d].token, pc |-> pc]
  <1>1. dials[d] \in Dial
    BY ElementOfSeq
  <1>2. r \in Dial
    BY <1>1 DEF Dial
  <1>3. DialAt(d, pc) = [dials EXCEPT ![d] = r]
    BY DEF DialAt
  <1>4. r.pc = pc /\ r.token = dials[d].token
    OBVIOUS
  <1> HIDE DEF r
  <1> QED
    BY <1>2, <1>3, <1>4, EntryReplaced

\* What an update of conns may do to connection d.
ConnShape(new, d, st) ==
  /\ new \in Seq(Conn)
  /\ Len(new) = Len(conns)
  /\ DOMAIN new = DOMAIN conns
  /\ new[d].st = st
  /\ \A e \in DOMAIN conns : e # d => new[e] = conns[e]

\* Writing the three fields of a connection, typed, is such an update.
LEMMA ConnUpdate ==
  ASSUME conns \in Seq(Conn), NEW d \in DOMAIN conns,
         NEW st \in {"new", "open", "closed"}, NEW o \in Seq(Payload), NEW n \in Nat
  PROVE  ConnShape([conns EXCEPT ![d] = [st |-> st, out |-> o, in |-> n]], d, st)
  <1> DEFINE r == [st |-> st, out |-> o, in |-> n]
  <1>1. r \in Conn /\ r.st = st
    BY DEF Conn
  <1> HIDE DEF r
  <1>2. ConnShape([conns EXCEPT ![d] = r], d, st)
    BY <1>1, EntryReplaced DEF ConnShape
  <1> QED
    BY <1>2 DEF r

\* The fields of a connection are typed.
LEMMA ConnFields ==
  ASSUME conns \in Seq(Conn), NEW d \in DOMAIN conns
  PROVE  /\ conns[d].st \in {"new", "open", "closed"}
         /\ conns[d].out \in Seq(Payload)
         /\ conns[d].in \in Nat
  <1>1. conns[d] \in Conn
    BY ElementOfSeq
  <1> QED
    BY <1>1 DEF Conn

\* ConnAt changes the state of one connection.
LEMMA ConnAtShape ==
  ASSUME conns \in Seq(Conn), NEW d \in DOMAIN conns, NEW st \in {"new", "open", "closed"}
  PROVE  ConnShape(ConnAt(d, st), d, st)
  BY ConnFields, ConnUpdate DEF ConnAt

\* A write leaves the state of the connection.
LEMMA ConnWrittenShape ==
  ASSUME conns \in Seq(Conn), NEW d \in DOMAIN conns, NEW p \in Payload
  PROVE  ConnShape(ConnWritten(d, p), d, conns[d].st)
  <1>1. Append(conns[d].out, p) \in Seq(Payload)
    BY ConnFields
  <1> QED
    BY <1>1, ConnFields, ConnUpdate DEF ConnWritten

\* A read leaves the state of the connection.
LEMMA ConnReadShape ==
  ASSUME conns \in Seq(Conn), NEW d \in DOMAIN conns
  PROVE  ConnShape(ConnRead(d), d, conns[d].st)
  <1>1. conns[d].in + 1 \in Nat
    BY ConnFields
  <1> QED
    BY <1>1, ConnFields, ConnUpdate DEF ConnRead

\* What an update of sess may do to session s.
SessShape(new, s, destConn, dialing) ==
  /\ new \in Seq(Session)
  /\ Len(new) = Len(sess)
  /\ DOMAIN new = DOMAIN sess
  /\ new[s].destConn = destConn
  /\ new[s].dialing = dialing
  /\ \A t \in DOMAIN sess : t # s => new[t] = sess[t]

\* Writing the fields of a session, typed, is such an update.
LEMMA SessUpdate ==
  ASSUME sess \in Seq(Session), NEW s \in DOMAIN sess, NEW dest \in Dests,
         NEW e \in Nat, NEW b \in BOOLEAN, NEW q \in Seq(Payload)
  PROVE  LET new == [sess EXCEPT ![s] = [dest |-> dest, destConn |-> e,
                                         dialing |-> b, pending |-> q]]
         IN  SessShape(new, s, e, b) /\ new[s].pending = q
  <1> DEFINE r == [dest |-> dest, destConn |-> e, dialing |-> b, pending |-> q]
  <1>1. r \in Session /\ r.destConn = e /\ r.dialing = b /\ r.pending = q
    BY DEF Session
  <1> HIDE DEF r
  <1>2. /\ SessShape([sess EXCEPT ![s] = r], s, e, b)
        /\ [sess EXCEPT ![s] = r][s].pending = q
    BY <1>1, EntryReplaced DEF SessShape
  <1> QED
    BY <1>2 DEF r

\* The fields of a session are typed.
LEMMA SessFields ==
  ASSUME sess \in Seq(Session), NEW s \in DOMAIN sess
  PROVE  /\ sess[s].dest \in Dests
         /\ sess[s].destConn \in Nat
         /\ sess[s].dialing \in BOOLEAN
         /\ sess[s].pending \in Seq(Payload)
  <1>1. sess[s] \in Session
    BY ElementOfSeq
  <1> QED
    BY <1>1 DEF Session

\* Queueing a payload leaves the connection and the dialing flag.
LEMMA SessQueuedShape ==
  ASSUME sess \in Seq(Session), NEW s \in DOMAIN sess, NEW p \in Payload
  PROVE  /\ SessShape(SessQueued(s, p), s, sess[s].destConn, sess[s].dialing)
         /\ SessQueued(s, p)[s].pending # <<>>
  <1>0. sess[s].pending \in Seq(Payload)
    BY SessFields
  <1>1. Append(sess[s].pending, p) \in Seq(Payload) /\ Append(sess[s].pending, p) # <<>>
    BY <1>0
  <1> DEFINE q == Append(sess[s].pending, p)
  <1>2. SessQueued(s, p) = [sess EXCEPT ![s] =
          [dest |-> sess[s].dest, destConn |-> sess[s].destConn,
           dialing |-> sess[s].dialing, pending |-> q]]
    BY DEF SessQueued
  <1>3. q \in Seq(Payload) /\ q # <<>>
    BY <1>1
  <1> HIDE DEF q
  <1> DEFINE new == [sess EXCEPT ![s] =
               [dest |-> sess[s].dest, destConn |-> sess[s].destConn,
                dialing |-> sess[s].dialing, pending |-> q]]
  <1>4. SessShape(new, s, sess[s].destConn, sess[s].dialing) /\ new[s].pending = q
    BY <1>3, SessFields, SessUpdate
  <1> QED
    BY <1>2, <1>3, <1>4

\* Binding leaves the dialing flag and the pending payloads.
LEMMA SessBoundShape ==
  ASSUME sess \in Seq(Session), NEW s \in DOMAIN sess, NEW d \in Nat
  PROVE  /\ SessShape(SessBound(s, d), s, d, sess[s].dialing)
         /\ SessBound(s, d)[s].pending = sess[s].pending
  BY SessFields, SessUpdate DEF SessBound

\* A session made ready keeps its connection.
LEMMA SessReadyShape ==
  ASSUME sess \in Seq(Session), NEW s \in DOMAIN sess
  PROVE  /\ SessShape(SessReady(s, <<>>), s, sess[s].destConn, FALSE)
         /\ SessReady(s, <<>>)[s].pending = <<>>
  <1>1. <<>> \in Seq(Payload)
    OBVIOUS
  <1> QED
    BY <1>1, SessFields, SessUpdate DEF SessReady

(***************************************************************************)
(* Steps of the dialer                                                     *)
(***************************************************************************)

\* What every step of the dialer leaves alone, but AsyncDial and OnOpen:
\* which dials there are, for whom, and which of them have a connection.
SameDials ==
  /\ DOMAIN dials' = DOMAIN dials
  /\ \A d \in DOMAIN dials :
       /\ dials'[d].token = dials[d].token
       /\ conns'[d].st = "new" <=> conns[d].st = "new"

DialerStepOK == DialerTypeOK' /\ SameDials /\ DialsAgree'

\* DOMAIN conns is that of dials.
LEMMA DomainsEqual ==
  ASSUME DialerTypeOK
  PROVE  /\ DOMAIN conns = DOMAIN dials
         /\ DOMAIN dials = 1..Len(dials)
         /\ DOMAIN dials \subseteq ConnIds
  BY DEF DialerTypeOK, ConnIds, NoConn

\* Posting a typed event keeps the types of the loop and of recvChan.
LEMMA PostType ==
  ASSUME recvChan \in Seq(ConnEvent), NEW msg \in ConnEvent, NEW failed \in Nat,
         Post(msg, failed)
  PROVE  loop' \in Loop /\ recvChan' \in Seq(ConnEvent)
  <1>1. <<msg>> \in Seq(ConnEvent) /\ <<>> \in Seq(ConnEvent)
    OBVIOUS
  <1>2. Append(recvChan, msg) \in Seq(ConnEvent)
    OBVIOUS
  <1>3. /\ [blocked |-> <<>>, failed |-> failed] \in Loop
        /\ [blocked |-> <<msg>>, failed |-> failed] \in Loop
    BY <1>1 DEF Loop
  <1> QED
    BY <1>2, <1>3 DEF Post

\* The messages the loop posts are typed.
LEMMA CloseType ==
  ASSUME NEW d \in ConnIds
  PROVE  CloseMsg(d) \in ConnEvent
  BY DEF CloseMsg, ConnEvent

LEMMA DataType ==
  ASSUME NEW d \in ConnIds, NEW p \in Pkt
  PROVE  DataMsg(d, <<p>>) \in ConnEvent
  BY DEF DataMsg, ConnEvent

\* What a step of dial d to pc leaves of the other dials and of the tokens.
DialsMoved(d, pc) ==
  /\ dials' \in Seq(Dial)
  /\ Len(dials') = Len(dials)
  /\ DOMAIN dials' = DOMAIN dials
  /\ dials'[d].pc = pc
  /\ \A e \in DOMAIN dials :
       /\ dials'[e].token = dials[e].token
       /\ e # d => dials'[e].pc = dials[e].pc

\* A step of one dial is such a move.
LEMMA DialMoves ==
  ASSUME dials \in Seq(Dial), NEW d \in DOMAIN dials, NEW pc \in DialPC,
         dials' = DialAt(d, pc)
  PROVE  DialsMoved(d, pc)
  BY DialAtShape DEF DialsMoved

\* A dial that stays short of OnOpen, or is over, changes nothing else.
LEMMA DialStepOK ==
  ASSUME ServerAssumption, DialerTypeOK, DialsAgree, NEW d \in DOMAIN dials, DialStep(d)
  PROVE  DialerStepOK
  <1>0. DOMAIN conns = DOMAIN dials /\ d \in ConnIds /\ dials \in Seq(Dial)
    BY DomainsEqual DEF DialerTypeOK
  <1>1. CASE AcquireSem(d)
    <2>1. /\ dials' = DialAt(d, "dialing") /\ dials[d].pc = "spawned"
          /\ UNCHANGED <<conns, tasks, loop, recvChan, dialResultChan>>
          /\ dialSem' \in Int
      BY <1>1 DEF AcquireSem, DialerTypeOK
    <2>2. DialsMoved(d, "dialing")
      BY <1>0, <2>1, DialMoves DEF DialPC
    <2>3. DialerTypeOK' /\ SameDials
      BY <1>0, <2>1, <2>2 DEF DialerTypeOK, SameDials, DialsMoved
    <2>4. DialsAgree'
      BY <2>1, <2>2 DEF DialsAgree, DialsMoved
    <2> QED
      BY <2>3, <2>4 DEF DialerStepOK
  <1>2. CASE DialFinishes(d)
    <2>1. PICK pc \in {"enrolling", "failed"} : dials' = DialAt(d, pc)
      BY <1>2 DEF DialFinishes
    <2>2. /\ dials[d].pc = "dialing"
          /\ UNCHANGED <<conns, dialSem, tasks, loop, recvChan, dialResultChan>>
      BY <1>2 DEF DialFinishes
    <2>3. DialsMoved(d, pc)
      BY <1>0, <2>1, DialMoves DEF DialPC
    <2>4. DialerTypeOK' /\ SameDials
      BY <1>0, <2>2, <2>3 DEF DialerTypeOK, SameDials, DialsMoved
    <2>5. DialsAgree'
      BY <2>2, <2>3 DEF DialsAgree, DialsMoved
    <2> QED
      BY <2>4, <2>5 DEF DialerStepOK
  <1>3. CASE DialReports(d)
    <2> DEFINE res == [conn |-> d, err |-> dials[d].pc = "failed"]
    <2>1. /\ dials' = DialAt(d, "done")
          /\ dials[d].pc \in {"failed", "opened"}
          /\ dialResultChan' = Append(dialResultChan, res)
          /\ UNCHANGED <<conns, tasks, loop, recvChan>>
          /\ dialSem' \in Int
      BY <1>3 DEF DialReports, SemRelease, ServerAssumption, DialerTypeOK
    <2>2. DialsMoved(d, "done")
      BY <1>0, <2>1, DialMoves DEF DialPC
    <2>3. res \in Result /\ res.conn = d
      BY <1>0 DEF Result
    <2>4. res.err <=> conns[d].st = "new"
      BY <2>1 DEF DialsAgree
    <2> HIDE DEF res
    <2>5. Append(dialResultChan, res) \in Seq(Result)
      BY <2>3 DEF DialerTypeOK
    <2>6. DialerTypeOK' /\ SameDials
      BY <1>0, <2>1, <2>2, <2>5 DEF DialerTypeOK, SameDials, DialsMoved
    <2>7. \A i \in DOMAIN dialResultChan' :
            /\ dialResultChan'[i].conn \in DOMAIN dials
            /\ dials'[dialResultChan'[i].conn].pc = "done"
            /\ dialResultChan'[i].err <=> conns[dialResultChan'[i].conn].st = "new"
      <3>1. \A i \in DOMAIN dialResultChan' :
              \/ dialResultChan'[i] = res
              \/ \E j \in DOMAIN dialResultChan : dialResultChan'[i] = dialResultChan[j]
        BY <2>1, <2>3 DEF DialerTypeOK
      <3>2. \A e \in DOMAIN dials : dials[e].pc = "done" => dials'[e].pc = "done"
        BY <2>2 DEF DialsMoved
      <3>3. dials'[d].pc = "done"
        BY <2>2 DEF DialsMoved
      <3> QED
        BY <2>3, <2>4, <3>1, <3>2, <3>3 DEF DialsAgree
    <2>8. \A e \in DOMAIN dials' :
            /\ dials'[e].pc \in {"spawned", "dialing", "failed", "enrolling"} => conns'[e].st = "new"
            /\ dials'[e].pc = "opened" => conns'[e].st # "new"
      BY <2>1, <2>2 DEF DialsAgree, DialsMoved
    <2>9. DialsAgree'
      BY <2>1, <2>2, <2>7, <2>8 DEF DialsAgree, DialsMoved
    <2> QED
      BY <2>6, <2>9 DEF DialerStepOK
  <1> QED
    BY <1>1, <1>2, <1>3 DEF DialStep

\* An update of conns that makes no connection new, or old, keeps what the
\* dials say of it.
LEMMA ConnsStepOK ==
  ASSUME DialerTypeOK, DialsAgree, NEW d \in DOMAIN conns, NEW st,
         ConnShape(conns', d, st), st = "new" <=> conns[d].st = "new",
         UNCHANGED <<dials, dialSem, dialResultChan>>,
         tasks' \in Seq(Task), loop' \in Loop, recvChan' \in Seq(ConnEvent)
  PROVE  DialerStepOK
  <1>1. DOMAIN conns = DOMAIN dials
    BY DomainsEqual
  <1>2. \A e \in DOMAIN conns : conns'[e].st = "new" <=> conns[e].st = "new"
    BY DEF ConnShape
  <1>3. DialerTypeOK'
    BY DEF DialerTypeOK, ConnShape
  <1>4. SameDials
    BY <1>1, <1>2 DEF SameDials
  <1>5. DialsAgree'
    BY <1>1, <1>2 DEF DialsAgree
  <1> QED
    BY <1>3, <1>4, <1>5 DEF DialerStepOK

\* A step that leaves dials, conns and the results alone.
LEMMA QueuesStepOK ==
  ASSUME DialerTypeOK, DialsAgree,
         UNCHANGED <<dials, conns, dialSem, dialResultChan>>,
         tasks' \in Seq(Task), loop' \in Loop, recvChan' \in Seq(ConnEvent)
  PROVE  DialerStepOK
  BY DEF DialerTypeOK, DialsAgree, SameDials, DialerStepOK

\* Traffic from, and closing by, a destination.
LEMMA PeerStepOK ==
  ASSUME DialerTypeOK, DialsAgree, NEW d \in DOMAIN dials, PeerStep(d)
  PROVE  DialerStepOK
  <1>1. d \in DOMAIN conns /\ d \in ConnIds
    BY DomainsEqual
  <1>2. /\ conns \in Seq(Conn) /\ recvChan \in Seq(ConnEvent)
        /\ tasks \in Seq(Task)
    BY DEF DialerTypeOK
  <1>3. CASE OnTraffic(d)
    <2> DEFINE p == [conn |-> d, seq |-> conns[d].in + 1]
    <2>1. conns[d] \in Conn
      BY <1>1, <1>2, ElementOfSeq
    <2>2. p \in Pkt
      BY <1>1, <2>1 DEF Pkt, Conn
    <2>3. /\ conns' = ConnRead(d)
          /\ Post(DataMsg(d, <<p>>), NoConn)
          /\ UNCHANGED <<dials, dialSem, tasks, dialResultChan>>
      BY <1>3 DEF OnTraffic
    <2> HIDE DEF p
    <2>4. loop' \in Loop /\ recvChan' \in Seq(ConnEvent)
      BY <1>1, <1>2, <2>2, <2>3, DataType, PostType DEF NoConn
    <2>5. ConnShape(ConnRead(d), d, conns[d].st)
      BY <1>1, <1>2, ConnReadShape
    <2> QED
      BY <1>1, <1>2, <2>3, <2>4, <2>5, ConnsStepOK
  <1>4. CASE PeerCloses(d)
    <2>1. /\ conns' = ConnAt(d, "closed") /\ conns[d].st = "open"
          /\ Post(CloseMsg(d), NoConn)
          /\ UNCHANGED <<dials, dialSem, tasks, dialResultChan>>
      BY <1>4 DEF PeerCloses
    <2>2. loop' \in Loop /\ recvChan' \in Seq(ConnEvent)
      BY <1>1, <1>2, <2>1, CloseType, PostType DEF NoConn
    <2>3. ConnShape(conns', d, "closed")
      BY <1>1, <1>2, <2>1, ConnAtShape
    <2> QED
      BY <1>1, <1>2, <2>1, <2>2, <2>3, ConnsStepOK
  <1> QED
    BY <1>3, <1>4 DEF PeerStep

\* What a queued task names is typed.
LEMMA TaskFields ==
  ASSUME NEW t \in Task
  PROVE  t.conn \in ConnIds /\ (t.op = "write" => t.payload \in Payload)
  BY DEF Task

\* The loop's own steps.
LEMMA LoopStepOK ==
  ASSUME DialerTypeOK, DialsAgree, LoopStep
  PROVE  DialerStepOK
  <1>0. /\ conns \in Seq(Conn) /\ recvChan \in Seq(ConnEvent)
        /\ tasks \in Seq(Task) /\ loop \in Loop
    BY DEF DialerTypeOK
  <1>1. CASE LoopUnblocks
    <2>1. loop.blocked \in Seq(ConnEvent) /\ loop.failed \in Nat
      BY <1>0 DEF Loop
    <2>2. Head(loop.blocked) \in ConnEvent
      BY <1>1, <2>1 DEF LoopUnblocks
    <2>3. Append(recvChan, Head(loop.blocked)) \in Seq(ConnEvent)
      BY <1>0, <2>2
    <2>4. [blocked |-> <<>>, failed |-> loop.failed] \in Loop
      BY <2>1 DEF Loop
    <2> QED
      BY <1>0, <1>1, <2>3, <2>4, QueuesStepOK DEF LoopUnblocks
  <1>2. CASE RunWrite
    <2> DEFINE d == Head(tasks).conn
    <2>1. Head(tasks) \in Task /\ Tail(tasks) \in Seq(Task) /\ Head(tasks).op = "write"
      BY <1>0, <1>2 DEF RunWrite
    <2>2. d \in ConnIds /\ Head(tasks).payload \in Payload
      BY <2>1, TaskFields
    <2>3. [blocked |-> <<>>, failed |-> d] \in Loop
      BY <2>2 DEF Loop, ConnIds
    <2>4. /\ tasks' \in Seq(Task)
          /\ UNCHANGED <<dials, dialSem, dialResultChan>>
      BY <1>2, <2>1 DEF RunWrite
    <2>5. CASE /\ conns[d].st = "open"
               /\ conns' = ConnWritten(d, Head(tasks).payload)
               /\ UNCHANGED <<loop, recvChan>>
      <3>1. CASE d \in DOMAIN conns
        <4>1. ConnShape(conns', d, "open")
          BY <1>0, <2>2, <2>5, <3>1, ConnWrittenShape
        <4> QED
          BY <1>0, <2>4, <2>5, <3>1, <4>1, ConnsStepOK
      <3>2. CASE d \notin DOMAIN conns
        <4>1. conns' = conns
          BY <1>0, <2>5, <3>2, ExceptOutside DEF ConnWritten
        <4> QED
          BY <1>0, <2>4, <2>5, <4>1, QueuesStepOK
      <3> QED
        BY <3>1, <3>2
    <2>6. CASE /\ conns[d].st = "open"
               /\ conns' = ConnAt(d, "closed")
               /\ Post(CloseMsg(d), d)
      <3>0. loop' \in Loop /\ recvChan' \in Seq(ConnEvent)
        BY <1>0, <2>2, <2>6, CloseType, PostType DEF ConnIds
      <3>1. CASE d \in DOMAIN conns
        <4>1. ConnShape(conns', d, "closed")
          BY <1>0, <2>6, <3>1, ConnAtShape
        <4> QED
          BY <1>0, <2>4, <2>6, <3>0, <3>1, <4>1, ConnsStepOK
      <3>2. CASE d \notin DOMAIN conns
        <4>1. conns' = conns
          BY <1>0, <2>6, <3>2, ExceptOutside DEF ConnAt
        <4> QED
          BY <1>0, <2>4, <3>0, <4>1, QueuesStepOK
      <3> QED
        BY <3>1, <3>2
    <2>7. CASE /\ loop' = [blocked |-> <<>>, failed |-> d]
               /\ UNCHANGED <<conns, recvChan>>
      BY <1>0, <2>3, <2>4, <2>7, QueuesStepOK
    <2> QED
      BY <1>2, <2>5, <2>6, <2>7 DEF RunWrite
  <1>3. CASE RunClose
    <2> DEFINE d == Head(tasks).conn
    <2>1. Head(tasks) \in Task /\ Tail(tasks) \in Seq(Task)
      BY <1>0, <1>3 DEF RunClose
    <2>2. d \in ConnIds
      BY <2>1, TaskFields
    <2>3. /\ tasks' \in Seq(Task)
          /\ UNCHANGED <<dials, dialSem, dialResultChan>>
      BY <1>3, <2>1 DEF RunClose
    <2>4. CASE /\ conns[d].st = "open"
               /\ conns' = ConnAt(d, "closed")
               /\ Post(CloseMsg(d), NoConn)
      <3>0. loop' \in Loop /\ recvChan' \in Seq(ConnEvent)
        BY <1>0, <2>2, <2>4, CloseType, PostType DEF NoConn
      <3>1. CASE d \in DOMAIN conns
        <4>1. ConnShape(conns', d, "closed")
          BY <1>0, <2>4, <3>1, ConnAtShape
        <4> QED
          BY <1>0, <2>3, <2>4, <3>0, <3>1, <4>1, ConnsStepOK
      <3>2. CASE d \notin DOMAIN conns
        <4>1. conns' = conns
          BY <1>0, <2>4, <3>2, ExceptOutside DEF ConnAt
        <4> QED
          BY <1>0, <2>3, <3>0, <4>1, QueuesStepOK
      <3> QED
        BY <3>1, <3>2
    <2>5. CASE UNCHANGED <<conns, loop, recvChan>>
      BY <1>0, <2>3, <2>5, QueuesStepOK
    <2> QED
      BY <1>3, <2>4, <2>5 DEF RunClose
  <1> QED
    BY <1>1, <1>2, <1>3 DEF LoopStep

\* The end of a failed write.
LEMMA WriteErrorOK ==
  ASSUME DialerTypeOK, DialsAgree, NEW newTasks \in Seq(Task), WriteErrorDone(newTasks)
  PROVE  DialerStepOK
  <1>1. tasks \o newTasks \in Seq(Task)
    BY DEF DialerTypeOK
  <1>2. [blocked |-> <<>>, failed |-> NoConn] \in Loop
    BY DEF Loop, NoConn
  <1> QED
    BY <1>1, <1>2, QueuesStepOK DEF WriteErrorDone, DialerTypeOK

\* OnOpen: the connection of dial d, and no other, comes into being.
LEMMA OnOpenOK ==
  ASSUME DialerTypeOK, DialsAgree, NEW d \in DOMAIN dials, NEW accepted \in BOOLEAN,
         OnOpenHooked(d, accepted)
  PROVE  /\ DialerTypeOK' /\ DialsAgree'
         /\ DialsMoved(d, "opened")
         /\ DOMAIN conns' = DOMAIN conns
         /\ conns[d].st = "new" /\ conns'[d].st # "new"
         /\ \A e \in DOMAIN conns : e # d => conns'[e] = conns[e]
         /\ UNCHANGED dialResultChan
  <1>0. /\ conns \in Seq(Conn) /\ recvChan \in Seq(ConnEvent)
        /\ dials \in Seq(Dial) /\ DOMAIN conns = DOMAIN dials /\ d \in ConnIds
    BY DomainsEqual DEF DialerTypeOK
  <1>1. /\ dials[d].pc = "enrolling"
        /\ dials' = DialAt(d, "opened")
        /\ UNCHANGED <<dialSem, tasks, dialResultChan>>
    BY DEF OnOpenHooked
  <1>2. DialsMoved(d, "opened")
    BY <1>0, <1>1, DialMoves DEF DialPC
  <1>3. PICK st \in {"open", "closed"} : conns' = ConnAt(d, st)
    BY DEF OnOpenHooked
  <1>4. ConnShape(conns', d, st)
    BY <1>0, <1>3, ConnAtShape
  <1>5. loop' \in Loop /\ recvChan' \in Seq(ConnEvent)
    <2>1. CASE accepted
      BY <1>0, <2>1 DEF OnOpenHooked, DialerTypeOK
    <2>2. CASE ~accepted
      <3>1. Post(CloseMsg(d), NoConn)
        BY <2>2 DEF OnOpenHooked
      <3> QED
        BY <1>0, <3>1, CloseType, PostType DEF NoConn
    <2> QED
      BY <2>1, <2>2
  <1>6. DialerTypeOK'
    BY <1>0, <1>1, <1>2, <1>4, <1>5 DEF DialerTypeOK, DialsMoved, ConnShape
  <1>7. conns[d].st = "new" /\ conns'[d].st # "new"
    BY <1>1, <1>3, <1>4 DEF DialsAgree, ConnShape
  <1>8. \A i \in DOMAIN dialResultChan : dialResultChan[i].conn # d
    BY <1>1 DEF DialsAgree
  <1>9. \A e \in DOMAIN conns : e # d => conns'[e] = conns[e]
    BY <1>4 DEF ConnShape
  <1>10. \A e \in DOMAIN dials' :
           /\ dials'[e].pc \in {"spawned", "dialing", "failed", "enrolling"} => conns'[e].st = "new"
           /\ dials'[e].pc = "opened" => conns'[e].st # "new"
    BY <1>0, <1>2, <1>7, <1>9 DEF DialsAgree, DialsMoved
  <1>11. DialsAgree'
    BY <1>0, <1>1, <1>2, <1>8, <1>9, <1>10 DEF DialsAgree, DialsMoved
  <1> QED
    BY <1>1, <1>2, <1>4, <1>6, <1>7, <1>9, <1>11 DEF ConnShape

\* AsyncDial: one more dial, without a connection yet.
LEMMA AsyncDialOK ==
  ASSUME DialerTypeOK, DialsAgree, NEW token \in Token, AsyncDial(token)
  PROVE  /\ DialerTypeOK' /\ DialsAgree'
         /\ DOMAIN dials' = DOMAIN dials \cup {Len(dials) + 1}
         /\ Len(dials) + 1 \notin DOMAIN dials
         /\ DOMAIN conns \subseteq DOMAIN conns'
         /\ dials'[Len(dials) + 1].token = token
         /\ conns'[Len(dials) + 1].st = "new"
         /\ \A e \in DOMAIN dials : dials'[e] = dials[e] /\ conns'[e] = conns[e]
  <1> DEFINE dl == [token |-> token, pc |-> "spawned"]
  <1>0. /\ conns \in Seq(Conn) /\ dials \in Seq(Dial)
        /\ DOMAIN conns = DOMAIN dials /\ Len(conns) = Len(dials)
    BY DomainsEqual DEF DialerTypeOK
  <1>1. dl \in Dial /\ dl.pc = "spawned" /\ dl.token = token
    BY DEF Dial, DialPC
  <1>2. NewConn \in Conn /\ NewConn.st = "new"
    BY DEF NewConn, Conn
  <1>3. /\ dials' = Append(dials, dl)
        /\ conns' = Append(conns, NewConn)
        /\ UNCHANGED <<dialSem, tasks, loop, recvChan, dialResultChan>>
    BY DEF AsyncDial
  <1> HIDE DEF dl
  <1>4. DialerTypeOK'
    BY <1>0, <1>1, <1>2, <1>3 DEF DialerTypeOK
  <1>5. /\ DOMAIN dials' = DOMAIN dials \cup {Len(dials) + 1}
        /\ Len(dials) + 1 \notin DOMAIN dials
        /\ dials'[Len(dials) + 1] = dl
        /\ \A e \in DOMAIN dials : dials'[e] = dials[e]
    BY <1>0, <1>1, <1>3
  <1>6. /\ DOMAIN conns \subseteq DOMAIN conns'
        /\ conns'[Len(dials) + 1] = NewConn
        /\ \A e \in DOMAIN dials : conns'[e] = conns[e]
    BY <1>0, <1>2, <1>3
  <1>7. ASSUME NEW e \in DOMAIN dials'
        PROVE  /\ dials'[e].pc \in {"spawned", "dialing", "failed", "enrolling"} => conns'[e].st = "new"
               /\ dials'[e].pc = "opened" => conns'[e].st # "new"
    <2>1. CASE e \in DOMAIN dials
      <3>1. dials'[e] = dials[e] /\ conns'[e] = conns[e]
        BY <2>1, <1>5, <1>6
      <3> QED
        BY <2>1, <3>1 DEF DialsAgree
    <2>2. CASE e = Len(dials) + 1
      <3>1. dials'[e].pc = "spawned" /\ conns'[e].st = "new"
        BY <2>2, <1>1, <1>2, <1>5, <1>6
      <3> QED
        BY <3>1
    <2> QED
      BY <2>1, <2>2, <1>5
  <1>8. ASSUME NEW i \in DOMAIN dialResultChan
        PROVE  LET res == dialResultChan[i] IN
                 /\ res.conn \in DOMAIN dials'
                 /\ dials'[res.conn].pc = "done"
                 /\ res.err <=> conns'[res.conn].st = "new"
    <2>1. /\ dialResultChan[i].conn \in DOMAIN dials
          /\ dials[dialResultChan[i].conn].pc = "done"
          /\ dialResultChan[i].err <=> conns[dialResultChan[i].conn].st = "new"
      BY DEF DialsAgree
    <2>2. /\ dials'[dialResultChan[i].conn] = dials[dialResultChan[i].conn]
          /\ conns'[dialResultChan[i].conn] = conns[dialResultChan[i].conn]
      BY <2>1, <1>5, <1>6
    <2> QED
      BY <2>1, <2>2, <1>5
  <1>9. dialResultChan' = dialResultChan
    BY <1>3
  <1>10. DialsAgree'
    BY <1>7, <1>8, <1>9 DEF DialsAgree
  <1> QED
    BY <1>1, <1>2, <1>4, <1>5, <1>6, <1>10

(***************************************************************************)
(* The session table                                                       *)
(***************************************************************************)

\* Sessions that only go, while dials stay as they are, keep the invariant;
\* all but the routes, which each removal takes care of itself.
LEMMA Shrinks ==
  ASSUME IInv, DialerStepOK, UNCHANGED sess,
         DOMAIN byClient' \subseteq DOMAIN byClient,
         \A c \in DOMAIN byClient' : byClient'[c] = byClient[c]
  PROVE  /\ ReadyMeansBound' /\ OwnSession' /\ DialsDistinct'
         /\ DialsAgree' /\ BoundByOwnDial' /\ OpenIsBound'
  <1> USE DEF IInv, Core
  <1>0. SameDials
    BY DEF DialerStepOK
  <1>1. ReadyMeansBound'
    BY DEF ReadyMeansBound
  <1>2. OwnSession'
    BY DEF OwnSession
  <1>3. DialsDistinct'
    BY <1>0 DEF DialsDistinct, SameDials
  <1>4. BoundByOwnDial'
    BY <1>0 DEF BoundByOwnDial, SameDials
  <1>5. \A d \in DOMAIN dials' : Current(dials[d].token)' => Current(dials[d].token)
    BY <1>0 DEF Current, SameDials
  <1>6. OpenIsBound'
    BY <1>0, <1>5 DEF OpenIsBound, SameDials, Current
  <1> QED
    BY <1>1, <1>2, <1>3, <1>4, <1>6 DEF DialerStepOK

\* The tables keep their types when sessions only go.
LEMMA ShrinksType ==
  ASSUME IInv, DialerStepOK, UNCHANGED sess,
         DOMAIN byClient' \subseteq DOMAIN byClient,
         \A c \in DOMAIN byClient' : byClient'[c] = byClient[c],
         DOMAIN byDest' \subseteq DOMAIN byDest,
         \A d \in DOMAIN byDest' : byDest'[d] = byDest[d]
  PROVE  TableTypeOK'
  <1>1. DOMAIN conns' = DOMAIN conns
    BY DomainsEqual, DomainsEqual DEF DialerStepOK, SameDials, DialerTypeOK, IInv, TypeOK
  <1> QED
    BY <1>1 DEF IInv, TypeOK, TableTypeOK

\* The calls still owed stay fresh while dials stay as they are.
LEMMA CallsStayFresh ==
  ASSUME IInv, SameDials, UNCHANGED <<sess, up>>
  PROVE  CallsFresh'
  BY DEF IInv, Core, CallsFresh, SameDials

\* So they do when no dial is owed.
LEMMA NoDialOwed ==
  ASSUME \A i \in DOMAIN up'.io : up'.io[i].op # "dial"
  PROVE  CallsFresh'
  BY DEF CallsFresh

\* The connection handed out to be closed is a typed task, and no dial.
LEMMA OrphanType ==
  ASSUME TableTypeOK, NEW c
  PROVE  /\ Orphan(c) \in Seq(UpIO)
         /\ \A i \in DOMAIN Orphan(c) : Orphan(c)[i].op # "dial"
  <1>1. CASE c \in DOMAIN byClient /\ sess[byClient[c]].destConn # NoConn
    <2>1. sess[byClient[c]].destConn \in ConnIds
      BY <1>1, SessFields DEF TableTypeOK, ConnIds
    <2>2. CloseTask(sess[byClient[c]].destConn) \in UpIO
      BY <2>1 DEF CloseTask, UpIO, Task
    <2>3. CloseTask(sess[byClient[c]].destConn).op # "dial"
      BY DEF CloseTask
    <2> QED
      BY <1>1, <2>2, <2>3 DEF Orphan
  <1>2. CASE ~(c \in DOMAIN byClient /\ sess[byClient[c]].destConn # NoConn)
    BY <1>2 DEF Orphan
  <1> QED
    BY <1>1, <1>2

\* Unrouted drops the route of one client, and only that.
LEMMA UnroutedShape ==
  ASSUME TypeOK, RouteConsistent, NEW c
  PROVE  /\ DOMAIN Unrouted(c) = {d \in DOMAIN byDest : byDest[d] # c}
         /\ \A d \in DOMAIN Unrouted(c) : Unrouted(c)[d] = byDest[d]
  <1>1. CASE c \in DOMAIN byClient
    <2>1. Unrouted(c) = Delete(byDest, sess[byClient[c]].destConn)
      BY <1>1 DEF Unrouted
    <2>2. \A d \in DOMAIN byDest :
            byDest[d] = c <=> d = sess[byClient[c]].destConn
      <3>1. ASSUME NEW d \in DOMAIN byDest, byDest[d] = c
            PROVE  d = sess[byClient[c]].destConn
        BY <3>1 DEF RouteConsistent
      <3>2. ASSUME NEW d \in DOMAIN byDest, d = sess[byClient[c]].destConn, d # NoConn
            PROVE  byDest[d] = c
        BY <1>1, <3>2 DEF RouteConsistent
      <3>3. NoConn \notin DOMAIN byDest
        BY DomainsEqual DEF TypeOK, TableTypeOK, ConnIds
      <3> QED
        BY <3>1, <3>2, <3>3
    <2> QED
      BY <2>1, <2>2 DEF Delete
  <1>2. CASE c \notin DOMAIN byClient
    BY <1>2 DEF Unrouted, RouteConsistent
  <1> QED
    BY <1>1, <1>2

\* purgeByClient removes the session and its route together.
LEMMA PurgeByClientOK ==
  ASSUME IInv, NEW c, PurgeByClient(c), DialerStepOK, UNCHANGED sess
  PROVE  /\ TableTypeOK' /\ RouteConsistent'
         /\ ReadyMeansBound' /\ OwnSession' /\ DialsDistinct'
         /\ DialsAgree' /\ BoundByOwnDial' /\ OpenIsBound'
  <1>1. /\ DOMAIN byClient' = DOMAIN byClient \ {c}
        /\ \A x \in DOMAIN byClient' : byClient'[x] = byClient[x]
    BY DEF PurgeByClient, Delete
  <1>2. /\ DOMAIN byDest' = {d \in DOMAIN byDest : byDest[d] # c}
        /\ \A d \in DOMAIN byDest' : byDest'[d] = byDest[d]
    BY UnroutedShape DEF PurgeByClient, IInv, Core
  <1>3. RouteConsistent'
    BY <1>1, <1>2 DEF RouteConsistent, IInv, Core
  <1> QED
    BY <1>1, <1>2, <1>3, Shrinks, ShrinksType

\* purgeByDest removes the route and, if it is the session's, the session.
LEMMA PurgeByDestOK ==
  ASSUME IInv, NEW d, PurgeByDest(d), DialerStepOK, UNCHANGED sess
  PROVE  /\ TableTypeOK' /\ RouteConsistent'
         /\ ReadyMeansBound' /\ OwnSession' /\ DialsDistinct'
         /\ DialsAgree' /\ BoundByOwnDial' /\ OpenIsBound'
  <1>1. /\ DOMAIN byClient' = DOMAIN byClient \ PurgedClient(d)
        /\ \A x \in DOMAIN byClient' : byClient'[x] = byClient[x]
    BY DEF PurgeByDest
  <1>2. /\ DOMAIN byDest' = DOMAIN byDest \ {d}
        /\ \A e \in DOMAIN byDest' : byDest'[e] = byDest[e]
    BY DEF PurgeByDest, Delete
  <1>3. RouteConsistent'
    <2>1. \A e \in DOMAIN byDest' :
            /\ byDest'[e] \in DOMAIN byClient'
            /\ sess'[byClient'[byDest'[e]]].destConn = e
      BY <1>1, <1>2 DEF RouteConsistent, PurgedClient, IInv, Core
    <2>2. \A c \in DOMAIN byClient' :
            sess'[byClient'[c]].destConn # NoConn =>
              /\ sess'[byClient'[c]].destConn \in DOMAIN byDest'
              /\ byDest'[sess'[byClient'[c]].destConn] = c
      BY <1>1, <1>2 DEF RouteConsistent, PurgedClient, IInv, Core
    <2> QED
      BY <2>1, <2>2 DEF RouteConsistent
  <1> QED
    BY <1>1, <1>2, <1>3, Shrinks, ShrinksType

\* Taking the failed dial's session away takes no route: the session was
\* never bound, its own dial being the one that failed.
LEMMA AbortDialOK ==
  ASSUME IInv, NEW d \in DOMAIN dials, conns[d].st = "new",
         Current(dials[d].token), AbortDial(dials[d].token.client),
         DialerStepOK, UNCHANGED <<sess, byDest>>
  PROVE  /\ TableTypeOK' /\ RouteConsistent'
         /\ ReadyMeansBound' /\ OwnSession' /\ DialsDistinct'
         /\ DialsAgree' /\ BoundByOwnDial' /\ OpenIsBound'
  <1> DEFINE c == dials[d].token.client
  <1>1. /\ DOMAIN byClient' = DOMAIN byClient \ {c}
        /\ \A x \in DOMAIN byClient' : byClient'[x] = byClient[x]
    BY DEF AbortDial, Delete
  <1>2. c \in DOMAIN byClient /\ byClient[c] = dials[d].token.session
    BY DEF Current
  <1>3. sess[byClient[c]].destConn = NoConn
    <2>1. byClient[c] \in DOMAIN sess
      BY <1>2 DEF IInv, Core, DialsDistinct
    <2> QED
      BY <1>2, <2>1 DEF IInv, Core, BoundByOwnDial, DialsDistinct
  <1>4. \A e \in DOMAIN byDest : byDest[e] # c
    <2>1. NoConn \notin DOMAIN byDest
      BY DomainsEqual DEF TypeOK, TableTypeOK, ConnIds, IInv
    <2> QED
      BY <1>3, <2>1 DEF RouteConsistent, IInv, Core
  <1>5. RouteConsistent'
    BY <1>1, <1>4 DEF RouteConsistent, IInv, Core
  <1> QED
    BY <1>1, <1>5, Shrinks, ShrinksType

\* The tables untouched.
LEMMA TablesSame ==
  ASSUME IInv, DialerStepOK, UNCHANGED tableVars
  PROVE  /\ TableTypeOK' /\ RouteConsistent'
         /\ ReadyMeansBound' /\ OwnSession' /\ DialsDistinct'
         /\ DialsAgree' /\ BoundByOwnDial' /\ OpenIsBound'
  <1>1. UNCHANGED <<byClient, byDest, sess>>
    BY DEF tableVars
  <1>2. RouteConsistent'
    BY <1>1 DEF RouteConsistent, IInv, Core
  <1> QED
    BY <1>1, <1>2, Shrinks, ShrinksType

\* A session changed in its pending payloads and its dialing flag.
LEMMA SessionFlagsOK ==
  ASSUME IInv, NEW s \in DOMAIN sess, NEW dialing,
         SessShape(sess', s, sess[s].destConn, dialing),
         DialerStepOK, UNCHANGED <<byClient, byDest, dials, conns>>
  PROVE  /\ TableTypeOK' /\ RouteConsistent'
         /\ OwnSession' /\ DialsDistinct'
         /\ DialsAgree' /\ BoundByOwnDial' /\ OpenIsBound'
  <1>1. /\ DOMAIN sess' = DOMAIN sess
        /\ sess' \in Seq(Session)
        /\ \A t \in DOMAIN sess : sess'[t].destConn = sess[t].destConn
    BY DEF SessShape
  <1>2. TableTypeOK'
    BY <1>1 DEF IInv, TypeOK, TableTypeOK
  <1>3. RouteConsistent'
    BY <1>1 DEF IInv, TypeOK, TableTypeOK, Core, RouteConsistent
  <1>4. OwnSession' /\ DialsDistinct' /\ DialsAgree'
    BY <1>1 DEF IInv, Core, OwnSession, DialsDistinct, DialerStepOK
  <1>5. BoundByOwnDial'
    BY <1>1 DEF IInv, Core, BoundByOwnDial
  <1>6. OpenIsBound'
    BY <1>1 DEF IInv, Core, OpenIsBound, DialsDistinct, Current
  <1> QED
    BY <1>2, <1>3, <1>4, <1>5, <1>6

\* bindDial: the session was bound to nothing, and nothing was bound to d.
LEMMA BindDialOK ==
  ASSUME IInv, NEW d \in DOMAIN dials, Current(dials[d].token),
         OnOpenHooked(d, TRUE), BindDial(d, dials[d].token),
         UNCHANGED <<byClient, up>>
  PROVE  DialerTypeOK' /\ TableTypeOK' /\ Core'
  <1> DEFINE c == dials[d].token.client
             s == dials[d].token.session
  <1>1. /\ DialerTypeOK' /\ DialsAgree'
        /\ DialsMoved(d, "opened")
        /\ DOMAIN conns' = DOMAIN conns
        /\ conns[d].st = "new" /\ conns'[d].st # "new"
        /\ \A e \in DOMAIN conns : e # d => conns'[e] = conns[e]
    BY OnOpenOK DEF IInv, TypeOK, Core
  <1>2. c \in DOMAIN byClient /\ byClient[c] = s
    BY DEF Current
  <1>3. s \in DOMAIN sess /\ sess \in Seq(Session) /\ d \in ConnIds /\ DOMAIN conns = DOMAIN dials
    BY DomainsEqual DEF IInv, TypeOK, Core, DialsDistinct, TableTypeOK
  <1>4. /\ SessShape(sess', s, d, sess[s].dialing)
        /\ sess'[s].pending = sess[s].pending
    BY <1>3, SessBoundShape DEF BindDial, ConnIds
  <1>5. /\ DOMAIN byDest' = DOMAIN byDest \cup {d}
        /\ byDest'[d] = c
        /\ \A e \in DOMAIN byDest : e # d => byDest'[e] = byDest[e]
    BY DEF BindDial, Put
  <1>6. \A t \in DOMAIN sess : sess[t].destConn # d
    BY <1>1, <1>3 DEF IInv, Core, BoundByOwnDial, ConnIds
  <1>7. sess[s].destConn = NoConn
    BY <1>1, <1>3 DEF IInv, Core, BoundByOwnDial, DialsDistinct
  <1>8. \A x \in DOMAIN byClient : byClient[x] \in DOMAIN sess /\ (x # c => byClient[x] # s)
    BY <1>2 DEF IInv, TypeOK, TableTypeOK, Core, OwnSession
  <1>9. \A t \in DOMAIN sess : t # s => sess'[t] = sess[t]
    BY <1>4 DEF SessShape
  <1>10. DOMAIN sess' = DOMAIN sess /\ sess'[s].destConn = d /\ sess'[s].dialing = sess[s].dialing
    BY <1>4 DEF SessShape
  <1>11. c \in Clients
    BY <1>2 DEF IInv, TypeOK, TableTypeOK
  <1> HIDE DEF c, s
  <1>12. TableTypeOK'
    BY <1>1, <1>3, <1>4, <1>5, <1>8, <1>10, <1>11
    DEF IInv, TypeOK, TableTypeOK, SessShape
  <1>13. RouteConsistent'
    <2>1. \A e \in DOMAIN byDest' :
            /\ byDest'[e] \in DOMAIN byClient'
            /\ sess'[byClient'[byDest'[e]]].destConn = e
      <3>1. ASSUME NEW e \in DOMAIN byDest, e # d
            PROVE  /\ byDest'[e] \in DOMAIN byClient'
                   /\ sess'[byClient'[byDest'[e]]].destConn = e
        <4>1. /\ byDest[e] \in DOMAIN byClient
              /\ sess[byClient[byDest[e]]].destConn = e
          BY DEF IInv, Core, RouteConsistent
        <4>2. e # NoConn
          BY DomainsEqual DEF IInv, TypeOK, TableTypeOK, ConnIds
        <4>3. byClient[byDest[e]] # s
          BY <1>7, <4>1, <4>2
        <4> QED
          BY <1>5, <1>8, <1>9, <3>1, <4>1, <4>3
      <3> QED
        BY <1>2, <1>5, <1>10, <3>1
    <2>2. \A x \in DOMAIN byClient' :
            sess'[byClient'[x]].destConn # NoConn =>
              /\ sess'[byClient'[x]].destConn \in DOMAIN byDest'
              /\ byDest'[sess'[byClient'[x]].destConn] = x
      BY <1>2, <1>5, <1>6, <1>8, <1>9, <1>10 DEF IInv, Core, RouteConsistent
    <2> QED
      BY <2>1, <2>2 DEF RouteConsistent
  <1>14. ReadyMeansBound'
    <2>1. ReadyMeansBound
      BY DEF IInv, Core
    <2> QED
      BY <1>2, <1>3, <1>4, <1>8, <1>9, <1>10, <2>1 DEF ReadyMeansBound, ConnIds
  <1>15. OwnSession'
    BY DEF IInv, Core, OwnSession
  <1>16. /\ DOMAIN dials' = DOMAIN dials
         /\ \A e \in DOMAIN dials : dials'[e].token = dials[e].token
    BY <1>1 DEF DialsMoved
  <1>17. DialsDistinct' /\ CallsFresh'
    BY <1>10, <1>16 DEF IInv, Core, DialsDistinct, CallsFresh
  <1>18. BoundByOwnDial'
    <2>1. BoundByOwnDial
      BY DEF IInv, Core
    <2> QED
      BY <1>1, <1>3, <1>9, <1>10, <1>16, <2>1 DEF BoundByOwnDial, s
  <1>19. OpenIsBound'
    <2>1. OpenIsBound /\ DialsDistinct
      BY DEF IInv, Core
    <2>2. \A e \in DOMAIN dials : e # d => dials[e].token.session \in DOMAIN sess \ {s}
      BY <2>1 DEF DialsDistinct, s
    <2> QED
      BY <1>1, <1>3, <1>9, <1>10, <1>16, <2>1, <2>2 DEF OpenIsBound, Current, s
  <1> QED
    BY <1>1, <1>12, <1>13, <1>14, <1>15, <1>17, <1>18, <1>19 DEF Core

\* The goroutine's variable with other calls to make keeps its type.
LEMMA UpOwesType ==
  ASSUME GoroutineTypeOK, NEW io \in Seq(UpIO)
  PROVE  /\ UpOwes(io) \in Goroutine
         /\ UpOwes(io).io = io
         /\ UpOwes(io).pkts # <<>> => UpOwes(io).conn \in Clients
  BY DEF GoroutineTypeOK, UpOwes, Goroutine

\* So it does after taking a packet.
LEMMA UpNextType ==
  ASSUME GoroutineTypeOK, up.pkts # <<>>, NEW io \in Seq(UpIO)
  PROVE  /\ UpNext(io) \in Goroutine
         /\ UpNext(io).io = io
         /\ UpNext(io).pkts # <<>> => UpNext(io).conn \in Clients
  <1>1. /\ up.pkts \in Seq(Packet) /\ up.conn \in Clients /\ Tail(up.pkts) \in Seq(Packet)
    BY DEF GoroutineTypeOK, Goroutine
  <1> QED
    BY <1>1 DEF UpNext, Goroutine

\* A new session in place of the old: its route goes, its dial is owed.
LEMMA AdmitDialOK ==
  ASSUME IInv, NEW c \in Clients, NEW pkt \in Packet, up.pkts # <<>>,
         AdmitDial(c, pkt), UNCHANGED <<dialerVars, down>>
  PROVE  TableTypeOK' /\ GoroutineTypeOK' /\ Core'
  <1> DEFINE n == Len(sess) + 1
             new == NewSession(pkt.dest, pkt.payload)
             call == DialCall([client |-> c, session |-> n])
  <1>0. UNCHANGED <<dials, conns, dialResultChan>>
    BY DEF dialerVars
  <1>1. /\ new \in Session /\ new.destConn = NoConn /\ new.dialing = TRUE
        /\ new.pending # <<>>
    BY DEF NewSession, Session, Packet, NoConn
  <1>2. sess \in Seq(Session) /\ n \in ConnIds /\ n \notin DOMAIN sess
    BY DEF IInv, TypeOK, TableTypeOK, ConnIds, NoConn
  <1>3. sess' = Append(sess, new)
    BY DEF AdmitDial
  <1>4. /\ DOMAIN byClient' = DOMAIN byClient \cup {c}
        /\ byClient'[c] = n
        /\ \A x \in DOMAIN byClient : x # c => byClient'[x] = byClient[x]
    BY DEF AdmitDial, Put
  <1>5. /\ DOMAIN byDest' = {d \in DOMAIN byDest : byDest[d] # c}
        /\ \A d \in DOMAIN byDest' : byDest'[d] = byDest[d]
    BY UnroutedShape DEF AdmitDial, IInv, Core
  <1>6. call \in UpIO /\ call.op = "dial" /\ call.token.session = n
    BY <1>2 DEF DialCall, UpIO, Token
  <1>7. up' = UpNext(Append(Orphan(c), call))
    BY DEF AdmitDial
  <1> HIDE DEF new, call
  <1>8. /\ sess' \in Seq(Session)
        /\ DOMAIN sess' = DOMAIN sess \cup {n}
        /\ sess'[n] = new
        /\ \A s \in DOMAIN sess : sess'[s] = sess[s]
    BY <1>1, <1>2, <1>3
  <1> HIDE DEF n
  <1>9. \A x \in DOMAIN byClient : byClient[x] \in DOMAIN sess
    BY DEF IInv, TypeOK, TableTypeOK
  <1>10. TableTypeOK'
    BY <1>0, <1>4, <1>5, <1>8 DEF IInv, TypeOK, TableTypeOK
  <1>11. /\ Append(Orphan(c), call) \in Seq(UpIO)
         /\ Append(Orphan(c), call)[Len(Append(Orphan(c), call))] = call
         /\ \A i \in DOMAIN Append(Orphan(c), call) :
              i # Len(Append(Orphan(c), call)) => Append(Orphan(c), call)[i].op # "dial"
    BY <1>6, OrphanType DEF IInv, TypeOK
  <1>12. GoroutineTypeOK'
    BY <1>7, <1>11, UpNextType DEF IInv, TypeOK, GoroutineTypeOK
  <1>13. RouteConsistent'
    <2>1. \A e \in DOMAIN byDest' :
            /\ byDest'[e] \in DOMAIN byClient'
            /\ sess'[byClient'[byDest'[e]]].destConn = e
      BY <1>4, <1>5, <1>8, <1>9 DEF IInv, Core, RouteConsistent
    <2>2. \A x \in DOMAIN byClient' :
            sess'[byClient'[x]].destConn # NoConn =>
              /\ sess'[byClient'[x]].destConn \in DOMAIN byDest'
              /\ byDest'[sess'[byClient'[x]].destConn] = x
      BY <1>1, <1>4, <1>5, <1>8, <1>9 DEF IInv, Core, RouteConsistent
    <2> QED
      BY <2>1, <2>2 DEF RouteConsistent
  <1>14. ReadyMeansBound'
    <2>1. ReadyMeansBound
      BY DEF IInv, Core
    <2> QED
      BY <1>1, <1>4, <1>8, <1>9, <2>1 DEF ReadyMeansBound
  <1>15. OwnSession'
    <2>1. OwnSession
      BY DEF IInv, Core
    <2> QED
      BY <1>2, <1>4, <1>9, <2>1 DEF OwnSession
  <1>16. DialsDistinct' /\ DialsAgree'
    BY <1>0, <1>8 DEF IInv, Core, DialsDistinct, DialsAgree
  <1>17. BoundByOwnDial'
    BY <1>0, <1>1, <1>8 DEF IInv, Core, BoundByOwnDial
  <1>18. OpenIsBound'
    BY <1>0, <1>2, <1>4, <1>8 DEF IInv, Core, OpenIsBound, DialsDistinct, Current
  <1>19. CallsFresh'
    <2>1. up'.io = Append(Orphan(c), call)
      BY <1>7, <1>11, UpNextType DEF IInv, TypeOK
    <2>2. \A d \in DOMAIN dials : dials[d].token.session # n
      BY <1>2 DEF IInv, Core, DialsDistinct
    <2> QED
      BY <1>0, <1>6, <1>8, <1>11, <2>1, <2>2 DEF CallsFresh
  <1> QED
    BY <1>10, <1>12, <1>13, <1>14, <1>15, <1>16, <1>17, <1>18, <1>19 DEF Core

\* Starting the dial that was owed.
LEMMA DialStartedOK ==
  ASSUME IInv, up.io # <<>>, Head(up.io).op = "dial",
         up' = UpOwes(Tail(up.io)), AsyncDial(Head(up.io).token),
         UNCHANGED <<tableVars, down>>
  PROVE  DialerTypeOK' /\ TableTypeOK' /\ GoroutineTypeOK' /\ Core'
  <1> DEFINE token == Head(up.io).token
             n == Len(dials) + 1
  <1>0. UNCHANGED <<byClient, byDest, sess>>
    BY DEF tableVars
  <1>1. up.io \in Seq(UpIO) /\ Len(up.io) > 0 /\ Head(up.io) = up.io[1]
    BY DEF IInv, TypeOK, GoroutineTypeOK, Goroutine
  <1>2. /\ Len(up.io) = 1
        /\ token.session \in DOMAIN sess
        /\ \A d \in DOMAIN dials : dials[d].token.session # token.session
    <2>1. CallsFresh
      BY DEF IInv, Core
    <2>2. 1 \in DOMAIN up.io /\ up.io[1].op = "dial"
      BY <1>1
    <2>3. /\ 1 = Len(up.io)
          /\ up.io[1].token.session \in DOMAIN sess
          /\ \A d \in DOMAIN dials : dials[d].token.session # up.io[1].token.session
      BY <2>1, <2>2 DEF CallsFresh
    <2> QED
      BY <1>1, <2>3
  <1>3. Tail(up.io) = <<>> /\ <<>> \in Seq(UpIO)
    <2>1. Tail(up.io) \in Seq(UpIO) /\ Len(Tail(up.io)) = 0
      BY <1>1, <1>2
    <2> QED
      BY <2>1, EmptySeq
  <1>4. token \in Token
    BY <1>1 DEF UpIO, Task
  <1> HIDE DEF token
  <1>5. /\ DialerTypeOK' /\ DialsAgree'
        /\ DOMAIN dials' = DOMAIN dials \cup {n}
        /\ n \notin DOMAIN dials
        /\ DOMAIN conns \subseteq DOMAIN conns'
        /\ dials'[n].token = token
        /\ conns'[n].st = "new"
        /\ \A e \in DOMAIN dials : dials'[e] = dials[e] /\ conns'[e] = conns[e]
    BY <1>4, AsyncDialOK DEF IInv, TypeOK, Core, token
  <1> HIDE DEF n
  <1>6. TableTypeOK'
    BY <1>0, <1>5 DEF IInv, TypeOK, TableTypeOK
  <1>7. GoroutineTypeOK' /\ up'.io = <<>>
    BY <1>3, UpOwesType DEF IInv, TypeOK, GoroutineTypeOK
  <1>8. CallsFresh'
    BY <1>7 DEF CallsFresh
  <1>9. RouteConsistent' /\ ReadyMeansBound' /\ OwnSession'
    BY <1>0 DEF IInv, Core, RouteConsistent, ReadyMeansBound, OwnSession
  <1>10. DialsDistinct'
    BY <1>0, <1>2, <1>5 DEF IInv, Core, DialsDistinct
  <1>11. BoundByOwnDial'
    BY <1>0, <1>5 DEF IInv, Core, BoundByOwnDial
  <1>12. OpenIsBound'
    BY <1>0, <1>5 DEF IInv, Core, OpenIsBound, Current
  <1> QED
    BY <1>5, <1>6, <1>7, <1>8, <1>9, <1>10, <1>11, <1>12 DEF Core

(***************************************************************************)
(* One lemma per action                                                    *)
(***************************************************************************)

\* A step that leaves the dialer, the tables and the upstream goroutine.
LEMMA FrameOK ==
  ASSUME IInv, UNCHANGED <<dialerVars, tableVars, up>>,
         ClientTypeOK', down' \in [io : Seq(DownIO)]
  PROVE  IInv'
  <1>1. UNCHANGED <<dials, conns, dialSem, tasks, loop, recvChan, dialResultChan>>
    BY DEF dialerVars
  <1>2. UNCHANGED <<byClient, byDest, sess>>
    BY DEF tableVars
  <1>3. TypeOK'
    BY <1>1, <1>2 DEF IInv, TypeOK, DialerTypeOK, TableTypeOK, GoroutineTypeOK
  <1>4. RouteConsistent' /\ ReadyMeansBound' /\ OwnSession'
    BY <1>2 DEF IInv, Core, RouteConsistent, ReadyMeansBound, OwnSession
  <1>5. DialsDistinct' /\ CallsFresh' /\ DialsAgree'
    BY <1>1, <1>2 DEF IInv, Core, DialsDistinct, CallsFresh, DialsAgree
  <1>6. BoundByOwnDial' /\ OpenIsBound'
    BY <1>1, <1>2 DEF IInv, Core, BoundByOwnDial, OpenIsBound, Current
  <1> QED
    BY <1>3, <1>4, <1>5, <1>6 DEF IInv, Core

\* The dispatcher feeds the channel and nothing else.
LEMMA DispatcherOK ==
  ASSUME IInv, ServerAssumption, NEW c \in Clients, ClientSends(c) \/ ClientCloses(c)
  PROVE  IInv'
  <1>1. UNCHANGED <<dialerVars, tableVars, up, down, delivered>>
    BY DEF ClientSends, ClientCloses
  <1>2. ClientTypeOK'
    <2>1. CASE ClientSends(c)
      <3>1. PICK n \in UpBatches : \E dest \in [1..n -> Dests] :
              channel' = Append(channel,
                [event |-> "Data", conn |-> c,
                 pkts |-> [i \in 1..n |->
                   [dest |-> dest[i], payload |-> [client |-> c, seq |-> nup[c] + i]]]])
              /\ nup' = [nup EXCEPT ![c] = @ + n]
        BY <2>1 DEF ClientSends
      <3>2. PICK dest \in [1..n -> Dests] :
              channel' = Append(channel,
                [event |-> "Data", conn |-> c,
                 pkts |-> [i \in 1..n |->
                   [dest |-> dest[i], payload |-> [client |-> c, seq |-> nup[c] + i]]]])
        BY <3>1
      <3>3. n \in Nat /\ nup[c] \in Nat /\ nup' \in [Clients -> Nat]
        BY <3>1 DEF ServerAssumption, IInv, TypeOK, ClientTypeOK
      <3> DEFINE pkts == [i \in 1..n |->
                   [dest |-> dest[i], payload |-> [client |-> c, seq |-> nup[c] + i]]]
      <3>4. \A i \in 1..n : [dest |-> dest[i], payload |-> [client |-> c, seq |-> nup[c] + i]]
                              \in Packet
        BY <3>3 DEF Packet, Payload
      <3>5. pkts \in Seq(Packet)
        BY <3>3, <3>4
      <3>6. channel' = Append(channel, [event |-> "Data", conn |-> c, pkts |-> pkts])
        BY <3>2
      <3> HIDE DEF pkts
      <3>7. channel' \in Seq(ClientMsg)
        <4>1. [event |-> "Data", conn |-> c, pkts |-> pkts] \in ClientMsg
          BY <3>5 DEF ClientMsg
        <4> QED
          BY <3>6, <4>1 DEF IInv, TypeOK, ClientTypeOK
      <3> QED
        BY <1>1, <2>1, <3>3, <3>7 DEF ClientSends, IInv, TypeOK, ClientTypeOK
    <2>2. CASE ClientCloses(c)
      <3>1. [event |-> "Close", conn |-> c, pkts |-> <<>>] \in ClientMsg
        BY DEF ClientMsg
      <3> QED
        BY <1>1, <2>2, <3>1 DEF ClientCloses, IInv, TypeOK, ClientTypeOK
    <2> QED
      BY <2>1, <2>2
  <1> QED
    <2>1. down' \in [io : Seq(DownIO)]
      BY <1>1 DEF IInv, TypeOK, GoroutineTypeOK
    <2> QED
      BY <1>1, <1>2, <2>1, FrameOK

\* A step that leaves the clients' side.
LEMMA ClientsSame ==
  ASSUME ClientTypeOK, UNCHANGED <<clientVars, delivered>>
  PROVE  ClientTypeOK'
  BY DEF ClientTypeOK, clientVars

\* A step that leaves the dialer.
LEMMA DialerSame ==
  ASSUME IInv, UNCHANGED dialerVars
  PROVE  DialerStepOK
  <1>1. UNCHANGED <<dials, conns, dialSem, tasks, loop, recvChan, dialResultChan>>
    BY DEF dialerVars
  <1> QED
    BY <1>1, QueuesStepOK DEF IInv, TypeOK, Core, DialerTypeOK

\* UpReceive: a Close purges the client, data only changes hands.
LEMMA UpReceiveOK ==
  ASSUME IInv, UpReceive
  PROVE  IInv'
  <1> DEFINE msg == Head(channel)
  <1>1. /\ msg \in ClientMsg
        /\ Tail(channel) \in Seq(ClientMsg)
        /\ channel' = Tail(channel)
        /\ UNCHANGED <<dialerVars, sess, cstate, nup, down, delivered>>
    BY DEF UpReceive, IInv, TypeOK, ClientTypeOK
  <1>2. ClientTypeOK' /\ down' \in [io : Seq(DownIO)]
    BY <1>1 DEF IInv, TypeOK, ClientTypeOK, GoroutineTypeOK
  <1>3. DialerStepOK
    BY <1>1, DialerSame
  <1>4. CASE /\ PurgeByClient(msg.conn)
             /\ up' = UpOwes(Orphan(msg.conn))
    <2>1. /\ TableTypeOK' /\ RouteConsistent'
          /\ ReadyMeansBound' /\ OwnSession' /\ DialsDistinct'
          /\ DialsAgree' /\ BoundByOwnDial' /\ OpenIsBound'
      BY <1>1, <1>3, <1>4, PurgeByClientOK
    <2>2. /\ Orphan(msg.conn) \in Seq(UpIO)
          /\ \A i \in DOMAIN Orphan(msg.conn) : Orphan(msg.conn)[i].op # "dial"
      BY OrphanType DEF IInv, TypeOK
    <2>3. GoroutineTypeOK' /\ up'.io = Orphan(msg.conn)
      BY <1>2, <1>4, <2>2, UpOwesType DEF IInv, TypeOK, GoroutineTypeOK
    <2>4. CallsFresh'
      BY <2>2, <2>3, NoDialOwed
    <2> QED
      BY <1>2, <1>3, <2>1, <2>3, <2>4 DEF IInv, TypeOK, Core, DialerStepOK
  <1>5. CASE /\ up' = [conn |-> msg.conn, pkts |-> msg.pkts, io |-> <<>>]
             /\ UNCHANGED <<byClient, byDest>>
    <2>1. /\ TableTypeOK' /\ RouteConsistent'
          /\ ReadyMeansBound' /\ OwnSession' /\ DialsDistinct'
          /\ DialsAgree' /\ BoundByOwnDial' /\ OpenIsBound'
      BY <1>1, <1>3, <1>5, TablesSame DEF tableVars
    <2>2. msg.conn \in Clients /\ msg.pkts \in Seq(Packet)
      BY <1>1 DEF ClientMsg
    <2>3. GoroutineTypeOK'
      BY <1>2, <1>5, <2>2 DEF GoroutineTypeOK, Goroutine
    <2>4. CallsFresh'
      BY <1>5, NoDialOwed
    <2> QED
      BY <1>2, <1>3, <2>1, <2>3, <2>4 DEF IInv, TypeOK, Core, DialerStepOK
  <1> QED
    BY <1>4, <1>5 DEF UpReceive

\* UpAdmit: the three decisions of admitUpstream.
LEMMA UpAdmitOK ==
  ASSUME IInv, UpAdmit
  PROVE  IInv'
  <1> DEFINE c == up.conn
             pkt == Head(up.pkts)
  <1>1. /\ UNCHANGED <<dialerVars, clientVars, down, delivered>>
        /\ up.pkts # <<>>
    BY DEF UpAdmit
  <1>2. c \in Clients /\ pkt \in Packet
    BY <1>1 DEF IInv, TypeOK, GoroutineTypeOK, Goroutine
  <1>3. ClientTypeOK' /\ down' \in [io : Seq(DownIO)]
    BY <1>1, ClientsSame DEF IInv, TypeOK, GoroutineTypeOK
  <1>4. DialerStepOK
    BY <1>1, DialerSame
  <1>5. UNCHANGED <<dials, conns>>
    BY <1>1 DEF dialerVars
  <1>6. <<>> \in Seq(UpIO) /\ GoroutineTypeOK
    BY DEF IInv, TypeOK
  <1> HIDE DEF c, pkt
  <1>7. CASE AdmitQueued(c, pkt)
    <2> DEFINE s == byClient[c]
    <2>1. c \in DOMAIN byClient /\ s \in DOMAIN sess /\ sess \in Seq(Session)
      BY <1>7 DEF AdmitQueued, SameDest, IInv, TypeOK, TableTypeOK
    <2>2. /\ sess' = SessQueued(s, pkt.payload)
          /\ up' = UpNext(<<>>)
          /\ UNCHANGED <<byClient, byDest>>
          /\ sess[s].dialing
      BY <1>7 DEF AdmitQueued, Dialing
    <2>3. pkt.payload \in Payload
      BY <1>2 DEF Packet
    <2> HIDE DEF s
    <2>4. /\ SessShape(sess', s, sess[s].destConn, sess[s].dialing)
          /\ sess'[s].pending # <<>>
      BY <2>1, <2>2, <2>3, SessQueuedShape
    <2>5. /\ TableTypeOK' /\ RouteConsistent'
          /\ OwnSession' /\ DialsDistinct'
          /\ DialsAgree' /\ BoundByOwnDial' /\ OpenIsBound'
      BY <1>4, <1>5, <2>1, <2>2, <2>4, SessionFlagsOK
    <2>6. ReadyMeansBound'
      BY <2>2, <2>4 DEF IInv, Core, ReadyMeansBound, SessShape, TypeOK, TableTypeOK
    <2>7. GoroutineTypeOK' /\ up'.io = <<>>
      BY <1>1, <1>3, <1>6, <2>2, UpNextType DEF GoroutineTypeOK
    <2>8. CallsFresh'
      BY <2>7, NoDialOwed
    <2> QED
      BY <1>3, <1>4, <2>5, <2>6, <2>7, <2>8 DEF IInv, TypeOK, Core, DialerStepOK
  <1>8. CASE AdmitForward(c, pkt)
    <2> DEFINE write == WriteTask(sess[byClient[c]].destConn, pkt.payload)
    <2>1. /\ c \in DOMAIN byClient /\ ~sess[byClient[c]].dialing
          /\ up' = UpNext(<<write>>)
          /\ UNCHANGED <<byClient, byDest, sess>>
      BY <1>8 DEF AdmitForward, SameDest, Dialing
    <2>2. sess[byClient[c]].destConn \in ConnIds
      <3>1. byClient[c] \in DOMAIN sess /\ sess \in Seq(Session)
        BY <2>1 DEF IInv, TypeOK, TableTypeOK
      <3>2. sess[byClient[c]].destConn \in Nat
        BY <3>1, SessFields
      <3> QED
        BY <2>1, <3>2 DEF IInv, Core, ReadyMeansBound, ConnIds
    <2>3. write \in UpIO /\ write.op # "dial"
      BY <1>2, <2>2 DEF WriteTask, UpIO, Task, Packet
    <2> HIDE DEF write
    <2>4. <<write>> \in Seq(UpIO)
      BY <2>3
    <2>5. GoroutineTypeOK' /\ up'.io = <<write>>
      BY <1>1, <1>3, <1>6, <2>1, <2>4, UpNextType DEF GoroutineTypeOK
    <2>6. CallsFresh'
      BY <2>3, <2>5, NoDialOwed
    <2>7. /\ TableTypeOK' /\ RouteConsistent'
          /\ ReadyMeansBound' /\ OwnSession' /\ DialsDistinct'
          /\ DialsAgree' /\ BoundByOwnDial' /\ OpenIsBound'
      BY <1>4, <2>1, TablesSame DEF tableVars
    <2> QED
      BY <1>3, <1>4, <2>5, <2>6, <2>7 DEF IInv, TypeOK, Core, DialerStepOK
  <1>9. CASE AdmitDial(c, pkt)
    <2>1. TableTypeOK' /\ GoroutineTypeOK' /\ Core'
      BY <1>1, <1>2, <1>9, AdmitDialOK
    <2> QED
      BY <1>3, <1>4, <2>1 DEF IInv, TypeOK, DialerStepOK
  <1> QED
    BY <1>7, <1>8, <1>9 DEF UpAdmit, c, pkt

\* UpCall: the dial is started, or the task queued.
LEMMA UpCallOK ==
  ASSUME IInv, UpCall
  PROVE  IInv'
  <1>1. /\ up.io # <<>>
        /\ up' = UpOwes(Tail(up.io))
        /\ UNCHANGED <<tableVars, clientVars, down, delivered>>
    BY DEF UpCall
  <1>2. ClientTypeOK' /\ down' \in [io : Seq(DownIO)]
    BY <1>1, ClientsSame DEF IInv, TypeOK, GoroutineTypeOK
  <1>3. CASE Head(up.io).op = "dial"
    <2>1. AsyncDial(Head(up.io).token)
      BY <1>3 DEF UpCall
    <2>2. DialerTypeOK' /\ TableTypeOK' /\ GoroutineTypeOK' /\ Core'
      BY <1>1, <1>3, <2>1, DialStartedOK
    <2> QED
      BY <1>2, <2>2 DEF IInv, TypeOK
  <1>4. CASE Head(up.io).op # "dial"
    <2>1. /\ tasks' = Append(tasks, Head(up.io))
          /\ UNCHANGED <<dials, conns, dialSem, loop, recvChan, dialResultChan>>
      BY <1>4 DEF UpCall
    <2>2. up.io \in Seq(UpIO) /\ Head(up.io) \in UpIO /\ Tail(up.io) \in Seq(UpIO)
      BY <1>1 DEF IInv, TypeOK, GoroutineTypeOK, Goroutine
    <2>3. Head(up.io) \in Task
      BY <1>4, <2>2 DEF UpIO
    <2>4. DialerStepOK
      BY <2>1, <2>3, QueuesStepOK DEF IInv, TypeOK, Core, DialerTypeOK
    <2>5. /\ TableTypeOK' /\ RouteConsistent'
          /\ ReadyMeansBound' /\ OwnSession' /\ DialsDistinct'
          /\ DialsAgree' /\ BoundByOwnDial' /\ OpenIsBound'
      BY <1>1, <2>4, TablesSame
    <2>6. GoroutineTypeOK' /\ up'.io = Tail(up.io)
      BY <1>1, <1>2, <2>2, UpOwesType DEF IInv, TypeOK, GoroutineTypeOK
    <2>7. CallsFresh'
      <3>1. /\ Len(Tail(up.io)) = Len(up.io) - 1
            /\ \A i \in DOMAIN Tail(up.io) :
                 i + 1 \in DOMAIN up.io /\ Tail(up.io)[i] = up.io[i + 1]
        BY <1>1, <2>2
      <3>2. \A i \in DOMAIN Tail(up.io) : i + 1 = Len(up.io) => i = Len(Tail(up.io))
        BY <2>2, <3>1
      <3>3. UNCHANGED <<dials, sess>>
        BY <1>1, <2>1 DEF tableVars
      <3> QED
        BY <2>6, <3>1, <3>2, <3>3 DEF IInv, Core, CallsFresh
    <2> QED
      BY <1>2, <2>4, <2>5, <2>6, <2>7 DEF IInv, TypeOK, Core, DialerStepOK
  <1> QED
    BY <1>3, <1>4

\* The replay of pending payloads is typed and dials nothing.
LEMMA ReplayType ==
  ASSUME NEW d \in ConnIds, NEW pending \in Seq(Payload)
  PROVE  /\ Replay(d, pending) \in Seq(UpIO)
         /\ \A i \in DOMAIN Replay(d, pending) : Replay(d, pending)[i].op # "dial"
  <1>1. \A i \in DOMAIN pending :
          WriteTask(d, pending[i]) \in UpIO /\ WriteTask(d, pending[i]).op # "dial"
    <2>1. \A i \in DOMAIN pending : pending[i] \in Payload
      OBVIOUS
    <2> QED
      BY <2>1 DEF WriteTask, UpIO, Task
  <1>2. DOMAIN pending = 1..Len(pending) /\ Len(pending) \in Nat
    OBVIOUS
  <1> QED
    BY <1>1, <1>2 DEF Replay

\* UpDialResult: a failure takes the session, a success completes it or
\* closes the connection nobody waits for.
LEMMA UpDialResultOK ==
  ASSUME IInv, UpDialResult
  PROVE  IInv'
  <1> DEFINE res == Head(dialResultChan)
             d == res.conn
             token == dials[d].token
  <1>1. /\ dialResultChan # <<>>
        /\ dialResultChan' = Tail(dialResultChan)
        /\ UNCHANGED <<dials, conns, dialSem, tasks, loop, recvChan>>
        /\ UNCHANGED <<clientVars, down, delivered>>
    BY DEF UpDialResult
  <1>2. /\ dialResultChan \in Seq(Result)
        /\ Tail(dialResultChan) \in Seq(Result)
        /\ res = dialResultChan[1] /\ 1 \in DOMAIN dialResultChan
        /\ \A i \in DOMAIN Tail(dialResultChan) :
             i + 1 \in DOMAIN dialResultChan /\ Tail(dialResultChan)[i] = dialResultChan[i + 1]
    BY <1>1 DEF IInv, TypeOK, DialerTypeOK
  <1>3. /\ d \in DOMAIN dials
        /\ res.err <=> conns[d].st = "new"
    BY <1>2 DEF IInv, Core, DialsAgree
  <1>4. d \in ConnIds /\ sess \in Seq(Session)
    BY <1>3, DomainsEqual DEF IInv, TypeOK, TableTypeOK
  <1>5. ClientTypeOK' /\ down' \in [io : Seq(DownIO)]
    BY <1>1, ClientsSame DEF IInv, TypeOK, GoroutineTypeOK
  <1>6. DialerStepOK
    <2>1. DialerTypeOK'
      BY <1>1, <1>2 DEF IInv, TypeOK, DialerTypeOK
    <2>2. DialsAgree'
      BY <1>1, <1>2 DEF IInv, Core, DialsAgree
    <2> QED
      BY <1>1, <2>1, <2>2 DEF DialerStepOK, SameDials
  <1> HIDE DEF res, d
  <1>7. CASE DialFailed(token) /\ res.err
    <2>0. UNCHANGED <<byDest, sess, up>> /\ conns[d].st = "new"
      BY <1>3, <1>7 DEF DialFailed
    <2>1. /\ TableTypeOK' /\ RouteConsistent'
          /\ ReadyMeansBound' /\ OwnSession' /\ DialsDistinct'
          /\ DialsAgree' /\ BoundByOwnDial' /\ OpenIsBound'
      <3>1. CASE Current(token)
        <4>1. AbortDial(token.client)
          BY <1>7, <3>1 DEF DialFailed
        <4> QED
          BY <1>3, <1>6, <2>0, <3>1, <4>1, AbortDialOK
      <3>2. CASE ~Current(token)
        BY <1>6, <1>7, <2>0, <3>2, TablesSame DEF DialFailed, tableVars
      <3> QED
        BY <3>1, <3>2
    <2>2. CallsFresh'
      BY <1>6, <2>0, CallsStayFresh DEF DialerStepOK
    <2>3. GoroutineTypeOK'
      BY <1>5, <2>0 DEF IInv, TypeOK, GoroutineTypeOK
    <2> QED
      BY <1>5, <1>6, <2>1, <2>2, <2>3 DEF IInv, TypeOK, Core, DialerStepOK
  <1>8. CASE DialSucceeded(d, token) /\ ~res.err
    <2>0. UNCHANGED <<byClient, byDest>>
      BY <1>8 DEF DialSucceeded
    <2>1. CASE Current(token)
      <3> DEFINE s == token.session
      <3>1. /\ sess' = SessReady(s, <<>>)
            /\ up' = UpOwes(Replay(d, sess[s].pending))
        BY <1>8, <2>1 DEF DialSucceeded, CompleteDial
      <3>2. s \in DOMAIN sess /\ sess[s].destConn = d
        BY <1>3, <1>8, <2>1 DEF IInv, Core, DialsDistinct, OpenIsBound
      <3>3. sess[s].pending \in Seq(Payload)
        BY <1>4, <3>2, SessFields
      <3> HIDE DEF s
      <3>4. /\ SessShape(sess', s, sess[s].destConn, FALSE)
            /\ sess'[s].pending = <<>>
        BY <1>4, <3>1, <3>2, SessReadyShape
      <3>5. /\ TableTypeOK' /\ RouteConsistent'
            /\ OwnSession' /\ DialsDistinct'
            /\ DialsAgree' /\ BoundByOwnDial' /\ OpenIsBound'
        BY <1>1, <1>6, <2>0, <3>2, <3>4, SessionFlagsOK
      <3>6. ReadyMeansBound'
        BY <1>4, <2>0, <3>2, <3>4
        DEF IInv, Core, ReadyMeansBound, SessShape, TypeOK, TableTypeOK, ConnIds
      <3>7. /\ Replay(d, sess[s].pending) \in Seq(UpIO)
            /\ \A i \in DOMAIN Replay(d, sess[s].pending) :
                 Replay(d, sess[s].pending)[i].op # "dial"
        BY <1>4, <3>3, ReplayType
      <3>8. GoroutineTypeOK' /\ up'.io = Replay(d, sess[s].pending)
        BY <1>5, <3>1, <3>7, UpOwesType DEF IInv, TypeOK, GoroutineTypeOK
      <3>9. CallsFresh'
        BY <3>7, <3>8, NoDialOwed
      <3> QED
        BY <1>5, <1>6, <3>5, <3>6, <3>8, <3>9 DEF IInv, TypeOK, Core, DialerStepOK
    <2>2. CASE ~Current(token)
      <3>1. up' = UpOwes(<<CloseTask(d)>>) /\ UNCHANGED sess
        BY <1>8, <2>2 DEF DialSucceeded
      <3>2. CloseTask(d) \in UpIO /\ CloseTask(d).op # "dial"
        BY <1>4 DEF CloseTask, UpIO, Task
      <3>3. <<CloseTask(d)>> \in Seq(UpIO)
        BY <3>2
      <3>4. GoroutineTypeOK' /\ up'.io = <<CloseTask(d)>>
        BY <1>5, <3>1, <3>3, UpOwesType DEF IInv, TypeOK, GoroutineTypeOK
      <3>5. CallsFresh'
        BY <3>2, <3>4, NoDialOwed
      <3>6. /\ TableTypeOK' /\ RouteConsistent'
            /\ ReadyMeansBound' /\ OwnSession' /\ DialsDistinct'
            /\ DialsAgree' /\ BoundByOwnDial' /\ OpenIsBound'
        BY <1>6, <2>0, <3>1, TablesSame DEF tableVars
      <3> QED
        BY <1>5, <1>6, <3>4, <3>5, <3>6 DEF IInv, TypeOK, Core, DialerStepOK
    <2> QED
      BY <2>1, <2>2
  <1> QED
    BY <1>7, <1>8 DEF UpDialResult, res, d

\* DownReceive: a Close purges by destination, data is only looked up.
LEMMA DownReceiveOK ==
  ASSUME IInv, DownReceive
  PROVE  IInv'
  <1> DEFINE msg == Head(recvChan)
             d == msg.conn
  <1>1. /\ msg \in ConnEvent
        /\ recvChan' \in Seq(ConnEvent)
        /\ UNCHANGED <<dials, conns, dialSem, tasks, loop, dialResultChan>>
        /\ UNCHANGED <<sess, clientVars, up, delivered>>
    BY DEF DownReceive, IInv, TypeOK, DialerTypeOK
  <1>2. DialerStepOK
    BY <1>1, QueuesStepOK DEF IInv, TypeOK, Core, DialerTypeOK
  <1>3. ClientTypeOK'
    BY <1>1, ClientsSame DEF IInv, TypeOK
  <1>4. CallsFresh'
    BY <1>1, <1>2, CallsStayFresh DEF DialerStepOK
  <1>5. CASE /\ PurgeByDest(d)
             /\ \/ down' = [io |-> <<>>]
                \/ \E c \in PurgedClient(d) : down' = [io |-> <<ClientClose(c)>>]
    <2>1. /\ TableTypeOK' /\ RouteConsistent'
          /\ ReadyMeansBound' /\ OwnSession' /\ DialsDistinct'
          /\ DialsAgree' /\ BoundByOwnDial' /\ OpenIsBound'
      BY <1>1, <1>2, <1>5, PurgeByDestOK
    <2>2. \A c \in PurgedClient(d) : ClientClose(c) \in DownIO
      BY DEF PurgedClient, ClientClose, DownIO, IInv, TypeOK, TableTypeOK
    <2>3. down' \in [io : Seq(DownIO)]
      <3>1. \A c \in PurgedClient(d) : <<ClientClose(c)>> \in Seq(DownIO)
        BY <2>2
      <3>2. <<>> \in Seq(DownIO)
        OBVIOUS
      <3>3. \E io \in Seq(DownIO) : down' = [io |-> io]
        BY <1>5, <3>1, <3>2
      <3> QED
        BY <3>3
    <2>4. GoroutineTypeOK'
      BY <1>1, <2>3 DEF IInv, TypeOK, GoroutineTypeOK
    <2> QED
      BY <1>2, <1>3, <1>4, <2>1, <2>4 DEF IInv, TypeOK, Core, DialerStepOK
  <1>6. CASE /\ \/ down' = [io |-> <<>>]
                \/ \E c \in GetByDest(d) :
                     down' = [io |-> [i \in DOMAIN msg.pkts |-> ClientWrite(c, msg.pkts[i])]]
             /\ UNCHANGED <<byClient, byDest>>
    <2>1. /\ TableTypeOK' /\ RouteConsistent'
          /\ ReadyMeansBound' /\ OwnSession' /\ DialsDistinct'
          /\ DialsAgree' /\ BoundByOwnDial' /\ OpenIsBound'
      BY <1>1, <1>2, <1>6, TablesSame DEF tableVars
    <2>2. ASSUME NEW c \in GetByDest(d)
          PROVE  [i \in DOMAIN msg.pkts |-> ClientWrite(c, msg.pkts[i])] \in Seq(DownIO)
      <3>1. c \in Clients
        BY DEF GetByDest, IInv, TypeOK, TableTypeOK
      <3>2. msg.pkts \in Seq(Pkt)
        BY <1>1 DEF ConnEvent
      <3>3. DOMAIN msg.pkts = 1..Len(msg.pkts) /\ Len(msg.pkts) \in Nat
        BY <3>2
      <3>4. \A i \in DOMAIN msg.pkts : ClientWrite(c, msg.pkts[i]) \in DownIO
        <4>1. \A i \in DOMAIN msg.pkts : msg.pkts[i] \in Pkt
          BY <3>2
        <4> QED
          BY <3>1, <4>1 DEF ClientWrite, DownIO
      <3> QED
        BY <3>3, <3>4
    <2>3. down' \in [io : Seq(DownIO)]
      <3>1. <<>> \in Seq(DownIO)
        OBVIOUS
      <3>2. \E io \in Seq(DownIO) : down' = [io |-> io]
        BY <1>6, <2>2, <3>1
      <3> QED
        BY <3>2
    <2>4. GoroutineTypeOK'
      BY <1>1, <2>3 DEF IInv, TypeOK, GoroutineTypeOK
    <2> QED
      BY <1>2, <1>3, <1>4, <2>1, <2>4 DEF IInv, TypeOK, Core, DialerStepOK
  <1> QED
    BY <1>5, <1>6 DEF DownReceive

\* DownCall: one write to, or the close of, a client.
LEMMA DownCallOK ==
  ASSUME IInv, DownCall
  PROVE  IInv'
  <1> DEFINE call == Head(down.io)
             c == call.client
  <1>1. /\ down.io # <<>>
        /\ down' = [io |-> Tail(down.io)]
        /\ UNCHANGED <<dialerVars, tableVars, nup, channel, up>>
    BY DEF DownCall
  <1>2. /\ down.io \in Seq(DownIO) /\ call \in DownIO /\ Tail(down.io) \in Seq(DownIO)
    BY <1>1 DEF IInv, TypeOK, GoroutineTypeOK
  <1>3. /\ c \in Clients
        /\ call.op = "write" => call.pkt \in Pkt
    BY <1>2 DEF DownIO
  <1>4. /\ cstate \in [Clients -> {"open", "closing", "closed"}]
        /\ delivered \in [Clients -> Seq(Pkt)]
    BY DEF IInv, TypeOK, ClientTypeOK
  <1> HIDE DEF call, c
  <1>5. cstate' \in [Clients -> {"open", "closing", "closed"}]
    BY <1>3, <1>4 DEF DownCall, call, c
  <1>6. delivered' \in [Clients -> Seq(Pkt)]
    <2>1. CASE UNCHANGED delivered
      BY <1>4, <2>1
    <2>2. CASE /\ call.op = "write"
               /\ delivered' = [delivered EXCEPT ![c] = Append(@, call.pkt)]
      <3>1. Append(delivered[c], call.pkt) \in Seq(Pkt)
        BY <1>3, <1>4, <2>2
      <3> QED
        BY <1>3, <1>4, <2>2, <3>1
    <2> QED
      BY <2>1, <2>2 DEF DownCall, call, c
  <1>7. ClientTypeOK'
    BY <1>1, <1>5, <1>6 DEF IInv, TypeOK, ClientTypeOK
  <1> QED
    BY <1>1, <1>2, <1>7, FrameOK

\* LoopOpens: the connection is bound to its session, or closed.
LEMMA LoopOpensOK ==
  ASSUME IInv, NEW d \in DOMAIN dials, LoopOpens(d)
  PROVE  IInv'
  <1>1. UNCHANGED <<byClient, clientVars, up, down, delivered>>
    BY DEF LoopOpens
  <1>2. ClientTypeOK' /\ GoroutineTypeOK'
    BY <1>1, ClientsSame DEF IInv, TypeOK, GoroutineTypeOK
  <1>3. CASE Current(dials[d].token)
    <2>1. OnOpenHooked(d, TRUE) /\ BindDial(d, dials[d].token)
      BY <1>3 DEF LoopOpens, OnOpenHooked
    <2>2. DialerTypeOK' /\ TableTypeOK' /\ Core'
      BY <1>1, <1>3, <2>1, BindDialOK
    <2> QED
      BY <1>2, <2>2 DEF IInv, TypeOK
  <1>4. CASE ~Current(dials[d].token)
    <2>1. OnOpenHooked(d, FALSE) /\ UNCHANGED <<sess, byDest>>
      BY <1>4 DEF LoopOpens, OnOpenHooked
    <2>2. /\ DialerTypeOK' /\ DialsAgree'
          /\ DialsMoved(d, "opened")
          /\ DOMAIN conns' = DOMAIN conns
          /\ conns'[d].st # "new"
          /\ \A e \in DOMAIN conns : e # d => conns'[e] = conns[e]
      BY <2>1, OnOpenOK DEF IInv, TypeOK, Core
    <2>3. /\ DOMAIN dials' = DOMAIN dials
          /\ DOMAIN conns = DOMAIN dials
          /\ \A e \in DOMAIN dials : dials'[e].token = dials[e].token
      BY <2>2, DomainsEqual DEF DialsMoved, IInv, TypeOK
    <2>4. TableTypeOK'
      BY <1>1, <2>1, <2>2 DEF IInv, TypeOK, TableTypeOK
    <2>5. RouteConsistent' /\ ReadyMeansBound' /\ OwnSession'
      BY <1>1, <2>1 DEF IInv, Core, RouteConsistent, ReadyMeansBound, OwnSession
    <2>6. DialsDistinct' /\ CallsFresh'
      BY <1>1, <2>1, <2>3 DEF IInv, Core, DialsDistinct, CallsFresh
    <2>7. BoundByOwnDial'
      BY <2>1, <2>2, <2>3 DEF IInv, Core, BoundByOwnDial
    <2>8. OpenIsBound'
      BY <1>1, <1>4, <2>1, <2>2, <2>3 DEF IInv, Core, OpenIsBound, Current
    <2> QED
      BY <1>2, <2>2, <2>4, <2>5, <2>6, <2>7, <2>8 DEF IInv, TypeOK, Core
  <1> QED
    BY <1>3, <1>4

\* LoopWriteError: the failed connection's route and session go.
LEMMA LoopWriteErrorOK ==
  ASSUME IInv, LoopWriteError
  PROVE  IInv'
  <1>1. /\ PurgeByDest(loop.failed)
        /\ WriteErrorDone(<<CloseTask(loop.failed)>>)
        /\ UNCHANGED <<sess, clientVars, up, down, delivered>>
    BY DEF LoopWriteError
  <1>2. loop.failed \in ConnIds
    BY <1>1 DEF WriteErrorDone, IInv, TypeOK, DialerTypeOK, Loop, ConnIds
  <1>3. CloseTask(loop.failed) \in Task
    BY <1>2 DEF CloseTask, Task
  <1>4. <<CloseTask(loop.failed)>> \in Seq(Task)
    BY <1>3
  <1>5. DialerStepOK
    BY <1>1, <1>4, WriteErrorOK DEF IInv, TypeOK, Core
  <1>6. /\ TableTypeOK' /\ RouteConsistent'
        /\ ReadyMeansBound' /\ OwnSession' /\ DialsDistinct'
        /\ DialsAgree' /\ BoundByOwnDial' /\ OpenIsBound'
    BY <1>1, <1>5, PurgeByDestOK
  <1>7. CallsFresh'
    BY <1>1, <1>5, CallsStayFresh DEF DialerStepOK
  <1>8. ClientTypeOK' /\ GoroutineTypeOK'
    BY <1>1, ClientsSame DEF IInv, TypeOK, GoroutineTypeOK
  <1> QED
    BY <1>5, <1>6, <1>7, <1>8 DEF IInv, TypeOK, Core, DialerStepOK

\* The dialer's own steps.
LEMMA DialerAloneOK ==
  ASSUME IInv, DialerStepOK, UNCHANGED <<tableVars, clientVars, up, down, delivered>>
  PROVE  IInv'
  <1>1. /\ TableTypeOK' /\ RouteConsistent'
        /\ ReadyMeansBound' /\ OwnSession' /\ DialsDistinct'
        /\ DialsAgree' /\ BoundByOwnDial' /\ OpenIsBound'
    BY TablesSame
  <1>2. CallsFresh'
    BY CallsStayFresh DEF DialerStepOK, tableVars
  <1>3. ClientTypeOK' /\ GoroutineTypeOK'
    BY ClientsSame DEF IInv, TypeOK, GoroutineTypeOK
  <1> QED
    BY <1>1, <1>2, <1>3 DEF IInv, TypeOK, Core, DialerStepOK

(***************************************************************************)
(* The invariant, and what follows from it                                 *)
(***************************************************************************)

\* The invariant holds initially.
LEMMA InitIInv ==
  ASSUME Init
  PROVE  IInv
  <1> USE DEF Init, DialerInit
  <1>1. DialerTypeOK
    BY DEF DialerTypeOK, Loop, NoConn
  <1>2. TableTypeOK
    BY DEF TableTypeOK
  <1>3. ClientTypeOK
    BY DEF ClientTypeOK
  <1>4. GoroutineTypeOK
    BY DEF GoroutineTypeOK, Goroutine
  <1>5. Core
    BY DEF Core, RouteConsistent, ReadyMeansBound, OwnSession, DialsDistinct,
           CallsFresh, DialsAgree, BoundByOwnDial, OpenIsBound
  <1> QED
    BY <1>1, <1>2, <1>3, <1>4, <1>5 DEF IInv, TypeOK

\* Every step preserves the invariant.
LEMMA NextIInv ==
  ASSUME ServerAssumption, IInv, [Next]_vars
  PROVE  IInv'
  <1>1. CASE \E c \in Clients : ClientSends(c) \/ ClientCloses(c)
    BY <1>1, DispatcherOK
  <1>2. CASE Upstream
    BY <1>2, UpReceiveOK, UpAdmitOK, UpCallOK, UpDialResultOK DEF Upstream
  <1>3. CASE Downstream
    BY <1>3, DownReceiveOK, DownCallOK DEF Downstream
  <1>4. CASE DialerSteps
    <2>1. DialerTypeOK /\ DialsAgree
      BY DEF IInv, TypeOK, Core
    <2>2. ASSUME NEW d \in DOMAIN dials, LoopOpens(d)
          PROVE  IInv'
      BY <2>2, LoopOpensOK
    <2>3. ASSUME NEW d \in DOMAIN dials, DialerAlone(DialStep(d))
          PROVE  IInv'
      BY <2>1, <2>3, DialStepOK, DialerAloneOK DEF DialerAlone
    <2>4. ASSUME NEW d \in DOMAIN dials, DialerAlone(PeerStep(d))
          PROVE  IInv'
      BY <2>1, <2>4, PeerStepOK, DialerAloneOK DEF DialerAlone
    <2>5. CASE LoopWriteError
      BY <2>5, LoopWriteErrorOK
    <2>6. CASE DialerAlone(LoopStep)
      BY <2>1, <2>6, LoopStepOK, DialerAloneOK DEF DialerAlone
    <2> QED
      BY <1>4, <2>2, <2>3, <2>4, <2>5, <2>6 DEF DialerSteps
  <1>5. CASE UNCHANGED vars
    <2>1. UNCHANGED <<dialerVars, tableVars, clientVars, up, down, delivered>>
      BY <1>5 DEF vars
    <2>2. DialerStepOK
      BY <2>1, DialerSame
    <2> QED
      BY <2>1, <2>2, DialerAloneOK
  <1> QED
    BY <1>1, <1>2, <1>3, <1>4, <1>5 DEF Next

\* IInv is an invariant of the server worker.
THEOREM WorkerInvariant == Spec => []IInv
  <1>1. Init => IInv
    BY InitIInv
  <1>2. IInv /\ [Next]_vars => IInv'
    BY NextIInv, ServerAssumption
  <1> QED
    BY <1>1, <1>2, PTL DEF Spec

\* Every variable keeps its type; in particular no write is ever addressed
\* to a nil connection and no map refers to a session that does not exist.
THEOREM TypeCorrect == Spec => []TypeOK
  <1>1. IInv => TypeOK
    BY DEF IInv
  <1> QED
    BY <1>1, WorkerInvariant, PTL

\* The two maps of the session table always agree (session.go:38).
THEOREM RoutesAgree == Spec => []RouteConsistent
  <1>1. IInv => RouteConsistent
    BY DEF IInv, Core
  <1> QED
    BY <1>1, WorkerInvariant, PTL

\* A session that forwards has a connection, and nothing left to replay.
THEOREM ReadySessionsBound == Spec => []ReadyMeansBound
  <1>1. IInv => ReadyMeansBound
    BY DEF IInv, Core
  <1> QED
    BY <1>1, WorkerInvariant, PTL

(***************************************************************************)
(* The semaphore of the dialer                                             *)
(***************************************************************************)

\* The dials in flight are finitely many.
LEMMA InFlightFinite ==
  ASSUME dials \in Seq(Dial)
  PROVE  IsFiniteSet(InFlight)
  <1>1. Len(dials) \in Nat /\ InFlight \subseteq 1..Len(dials)
    BY DEF InFlight
  <1>2. IsFiniteSet(1..Len(dials))
    BY <1>1, FS_Interval
  <1> QED
    BY <1>1, <1>2, FS_Subset

\* A step that takes no dial into flight or out of it, and leaves the
\* semaphore alone.
LEMMA SemaphoreSame ==
  ASSUME SemaphoreExact, InFlight' = InFlight, UNCHANGED dialSem
  PROVE  SemaphoreExact'
  BY DEF SemaphoreExact

\* Acquiring, reporting, and the steps in between.
LEMMA SemaphoreDialStep ==
  ASSUME DialerAssumption, DialerTypeOK, SemaphoreExact,
         NEW d \in DOMAIN dials, DialStep(d)
  PROVE  SemaphoreExact'
  <1>0. /\ dials \in Seq(Dial) /\ dialSem \in Int
        /\ dialSem = Cardinality(InFlight) /\ dialSem <= MaxConcurrentDials
    BY DEF DialerTypeOK, SemaphoreExact
  <1>1. IsFiniteSet(InFlight)
    BY <1>0, InFlightFinite
  <1>2. CASE AcquireSem(d)
    <2>1. /\ dials[d].pc = "spawned" /\ dialSem < MaxConcurrentDials
          /\ dialSem' = dialSem + 1
          /\ dials' = DialAt(d, "dialing")
      BY <1>2 DEF AcquireSem, SemFree
    <2>2. DialsMoved(d, "dialing")
      BY <1>0, <2>1, DialMoves DEF DialPC
    <2>3. InFlight' = InFlight \cup {d} /\ d \notin InFlight
      BY <2>1, <2>2 DEF InFlight, DialsMoved
    <2>4. Cardinality(InFlight') = Cardinality(InFlight) + 1
      BY <1>1, <2>3, FS_AddElement
    <2> QED
      BY <1>0, <2>1, <2>4 DEF SemaphoreExact, DialerAssumption
  <1>3. CASE DialFinishes(d)
    <2>1. PICK pc \in {"enrolling", "failed"} : dials' = DialAt(d, pc)
      BY <1>3 DEF DialFinishes
    <2>2. dials[d].pc = "dialing" /\ UNCHANGED dialSem
      BY <1>3 DEF DialFinishes
    <2>3. DialsMoved(d, pc)
      BY <1>0, <2>1, DialMoves DEF DialPC
    <2>4. InFlight' = InFlight
      BY <2>2, <2>3 DEF InFlight, DialsMoved
    <2> QED
      BY <2>2, <2>4, SemaphoreSame
  <1>4. CASE DialReports(d)
    <2>1. /\ dials[d].pc \in {"failed", "opened"}
          /\ dialSem' = dialSem - 1
          /\ dials' = DialAt(d, "done")
      BY <1>4 DEF DialReports, SemRelease
    <2>2. DialsMoved(d, "done")
      BY <1>0, <2>1, DialMoves DEF DialPC
    <2>3. InFlight' = InFlight \ {d} /\ d \in InFlight
      BY <2>1, <2>2 DEF InFlight, DialsMoved
    <2>4. Cardinality(InFlight') = Cardinality(InFlight) - 1
      BY <1>1, <2>3, FS_RemoveElement
    <2> QED
      BY <1>0, <2>1, <2>4 DEF SemaphoreExact, DialerAssumption
  <1> QED
    BY <1>2, <1>3, <1>4 DEF DialStep

\* OnOpen happens within the flight of its dial.
LEMMA SemaphoreOnOpen ==
  ASSUME DialerTypeOK, DialsAgree, SemaphoreExact, NEW d \in DOMAIN dials, LoopOpens(d)
  PROVE  SemaphoreExact'
  <1>1. OnOpenHooked(d, Current(dials[d].token))
    BY DEF LoopOpens
  <1>2. /\ dials[d].pc = "enrolling" /\ UNCHANGED dialSem
        /\ dials' = DialAt(d, "opened") /\ dials \in Seq(Dial)
    BY <1>1 DEF OnOpenHooked, DialerTypeOK
  <1>3. DialsMoved(d, "opened")
    BY <1>2, DialMoves DEF DialPC
  <1>4. InFlight' = InFlight
    BY <1>2, <1>3 DEF InFlight, DialsMoved
  <1> QED
    BY <1>2, <1>4, SemaphoreSame

\* Every step keeps the count.
LEMMA NextSemaphore ==
  ASSUME DialerAssumption, IInv, SemaphoreExact, [Next]_vars
  PROVE  SemaphoreExact'
  <1>0. DialerTypeOK /\ DialsAgree /\ dials \in Seq(Dial)
    BY DEF IInv, TypeOK, Core, DialerTypeOK
  <1>1. CASE UNCHANGED <<dials, dialSem>>
    <2>1. InFlight' = InFlight
      BY <1>1 DEF InFlight
    <2> QED
      BY <1>1, <2>1, SemaphoreSame
  <1>2. CASE UpCall
    <2>1. CASE Head(up.io).op = "dial"
      <3> DEFINE token == Head(up.io).token
      <3>1. /\ dials' = Append(dials, [token |-> token, pc |-> "spawned"])
            /\ UNCHANGED dialSem
        BY <1>2, <2>1 DEF UpCall, AsyncDial
      <3>2. /\ DOMAIN dials' = DOMAIN dials \cup {Len(dials) + 1}
            /\ dials'[Len(dials) + 1].pc = "spawned"
            /\ \A e \in DOMAIN dials : dials'[e] = dials[e]
        <4> DEFINE dl == [token |-> token, pc |-> "spawned"]
        <4>1. dl.pc = "spawned"
          OBVIOUS
        <4>2. dials' = Append(dials, dl)
          BY <3>1
        <4> HIDE DEF dl
        <4> QED
          BY <1>0, <4>1, <4>2
      <3>3. Len(dials) + 1 \notin DOMAIN dials
        BY <1>0
      <3>4. InFlight' = InFlight
        BY <3>2, <3>3 DEF InFlight
      <3> QED
        BY <3>1, <3>4, SemaphoreSame
    <2>2. CASE Head(up.io).op # "dial"
      BY <1>1, <1>2, <2>2 DEF UpCall
    <2> QED
      BY <2>1, <2>2
  <1>3. CASE \E c \in Clients : ClientSends(c) \/ ClientCloses(c)
    BY <1>1, <1>3 DEF ClientSends, ClientCloses, dialerVars
  <1>4. CASE UpReceive \/ UpAdmit \/ UpDialResult
    BY <1>1, <1>4 DEF UpReceive, UpAdmit, UpDialResult, dialerVars
  <1>5. CASE Downstream
    BY <1>1, <1>5 DEF Downstream, DownReceive, DownCall, dialerVars
  <1>6. CASE DialerSteps
    <2>1. ASSUME NEW d \in DOMAIN dials, LoopOpens(d)
          PROVE  SemaphoreExact'
      BY <1>0, <2>1, SemaphoreOnOpen
    <2>2. ASSUME NEW d \in DOMAIN dials, DialerAlone(DialStep(d))
          PROVE  SemaphoreExact'
      BY <1>0, <2>2, SemaphoreDialStep DEF DialerAlone
    <2>3. ASSUME NEW d \in DOMAIN dials, DialerAlone(PeerStep(d))
          PROVE  SemaphoreExact'
      BY <1>1, <2>3 DEF DialerAlone, PeerStep, OnTraffic, PeerCloses
    <2>4. CASE LoopWriteError
      BY <1>1, <2>4 DEF LoopWriteError, WriteErrorDone
    <2>5. CASE DialerAlone(LoopStep)
      BY <1>1, <2>5 DEF DialerAlone, LoopStep, LoopUnblocks, RunWrite, RunClose
    <2> QED
      BY <1>6, <2>1, <2>2, <2>3, <2>4, <2>5 DEF DialerSteps
  <1>7. CASE UNCHANGED vars
    BY <1>1, <1>7 DEF vars, dialerVars
  <1> QED
    BY <1>2, <1>3, <1>4, <1>5, <1>6, <1>7 DEF Next, Upstream

\* The semaphore counts the dials in flight exactly, so none of its tokens
\* leaks, and never more than maxConcurrentDials are (dialer.go:93-97).
THEOREM SemaphoreCounts == Spec => []SemaphoreExact
  <1>1. Init => SemaphoreExact
    <2> SUFFICES ASSUME Init PROVE SemaphoreExact
      OBVIOUS
    <2>1. InFlight = {} /\ dialSem = 0
      BY DEF Init, DialerInit, InFlight
    <2> QED
      BY <2>1, FS_EmptySet, DialerAssumption DEF SemaphoreExact, DialerAssumption
  <1>2. IInv /\ SemaphoreExact /\ [Next]_vars => SemaphoreExact'
    BY NextSemaphore, DialerAssumption
  <1> QED
    BY <1>1, <1>2, WorkerInvariant, PTL DEF Spec

(***************************************************************************)
(* The events and messages that wait in a worker's channels still say the  *)
(* truth when they are handled.  It follows that a session is only ever    *)
(* taken from a client for cause, and that two clients never receive of    *)
(* each other's connections.                                               *)
(***************************************************************************)


(***************************************************************************)
(* What is in the queues of the dialer                                     *)
(***************************************************************************)

\* The events in s are of connections in cs; one that says Close is of a
\* closed connection; the packets of one are of its connection.
Told(s, cs) ==
  \A i \in DOMAIN s :
    /\ s[i].conn \in DOMAIN cs
    /\ s[i].event = "Close" => cs[s[i].conn].st = "closed"
    /\ \A k \in DOMAIN s[i].pkts : s[i].pkts[k].conn = s[i].conn

\* The writes and closes in s are of connections in cs.
Known(s, cs) == \A i \in DOMAIN s : s[i].op # "dial" => s[i].conn \in DOMAIN cs

DialerTold ==
  /\ Told(recvChan, conns)
  /\ Told(loop.blocked, conns)
  /\ loop.failed # NoConn => loop.failed \in DOMAIN conns /\ conns[loop.failed].st = "closed"
  /\ Known(tasks, conns)

\* No connection goes away, and a closed one stays closed.
Lasts(cs, cs2) ==
  /\ DOMAIN cs \subseteq DOMAIN cs2
  /\ \A d \in DOMAIN cs : cs[d].st = "closed" => cs2[d].st = "closed"

LEMMA ToldLasts ==
  ASSUME NEW s, NEW cs, NEW cs2, Told(s, cs), Lasts(cs, cs2)
  PROVE  Told(s, cs2)
  BY DEF Told, Lasts

LEMMA KnownLasts ==
  ASSUME NEW s, NEW cs, NEW cs2, Known(s, cs), Lasts(cs, cs2)
  PROVE  Known(s, cs2)
  BY DEF Known, Lasts

\* What one event says.
ToldOf(m, cs) ==
  /\ m.conn \in DOMAIN cs
  /\ m.event = "Close" => cs[m.conn].st = "closed"
  /\ \A k \in DOMAIN m.pkts : m.pkts[k].conn = m.conn

LEMMA ToldAppend ==
  ASSUME NEW T, NEW s \in Seq(T), NEW m \in T, NEW cs, Told(s, cs), ToldOf(m, cs)
  PROVE  Told(Append(s, m), cs)
  <1> DEFINE n == Append(s, m)
  <1>1. /\ DOMAIN n = 1..(Len(s) + 1) /\ Len(s) \in Nat /\ DOMAIN s = 1..Len(s)
        /\ \A i \in 1..Len(s) : n[i] = s[i]
        /\ n[Len(s) + 1] = m
    BY AppendProperties, LenProperties
  <1> HIDE DEF n
  <1>2. \A i \in DOMAIN n : (i \in DOMAIN s /\ n[i] = s[i]) \/ n[i] = m
    BY <1>1
  <1>3. Told(n, cs)
    BY <1>2 DEF Told, ToldOf
  <1> QED
    BY <1>3 DEF n

LEMMA ToldTail ==
  ASSUME NEW T, NEW s \in Seq(T), s # <<>>, NEW cs, Told(s, cs)
  PROVE  Told(Tail(s), cs) /\ ToldOf(Head(s), cs)
  <1>1. /\ DOMAIN Tail(s) = 1..(Len(s) - 1) /\ Len(s) \in Nat /\ Len(s) # 0
        /\ DOMAIN s = 1..Len(s)
        /\ \A i \in 1..(Len(s) - 1) : Tail(s)[i] = s[i + 1]
        /\ Head(s) = s[1]
    BY HeadTailProperties, EmptySeq, LenProperties
  <1>2. 1 \in DOMAIN s /\ \A i \in DOMAIN Tail(s) : i + 1 \in DOMAIN s /\ Tail(s)[i] = s[i + 1]
    BY <1>1
  <1> QED
    BY <1>1, <1>2 DEF Told, ToldOf

LEMMA KnownAppend ==
  ASSUME NEW T, NEW s \in Seq(T), NEW t \in T, NEW cs, Known(s, cs),
         t.op # "dial" => t.conn \in DOMAIN cs
  PROVE  Known(Append(s, t), cs)
  <1> DEFINE n == Append(s, t)
  <1>1. /\ DOMAIN n = 1..(Len(s) + 1) /\ Len(s) \in Nat /\ DOMAIN s = 1..Len(s)
        /\ \A i \in 1..Len(s) : n[i] = s[i]
        /\ n[Len(s) + 1] = t
    BY AppendProperties, LenProperties
  <1> HIDE DEF n
  <1>2. \A i \in DOMAIN n : (i \in DOMAIN s /\ n[i] = s[i]) \/ n[i] = t
    BY <1>1
  <1>3. Known(n, cs)
    BY <1>2 DEF Known
  <1> QED
    BY <1>3 DEF n

LEMMA KnownTail ==
  ASSUME NEW T, NEW s \in Seq(T), s # <<>>, NEW cs, Known(s, cs)
  PROVE  /\ Known(Tail(s), cs)
         /\ Head(s).op # "dial" => Head(s).conn \in DOMAIN cs
  <1>1. /\ DOMAIN Tail(s) = 1..(Len(s) - 1) /\ Len(s) \in Nat /\ Len(s) # 0
        /\ DOMAIN s = 1..Len(s)
        /\ \A i \in 1..(Len(s) - 1) : Tail(s)[i] = s[i + 1]
        /\ Head(s) = s[1]
    BY HeadTailProperties, EmptySeq, LenProperties
  <1>2. 1 \in DOMAIN s /\ \A i \in DOMAIN Tail(s) : i + 1 \in DOMAIN s /\ Tail(s)[i] = s[i + 1]
    BY <1>1
  <1> QED
    BY <1>1, <1>2 DEF Known

\* An event the loop posts is in recvChan, or what the loop waits with.
LEMMA PostTold ==
  ASSUME recvChan \in Seq(ConnEvent), NEW msg \in ConnEvent, NEW failed, NEW cs,
         Told(recvChan, cs), ToldOf(msg, cs), Post(msg, failed)
  PROVE  Told(recvChan', cs) /\ Told(loop'.blocked, cs) /\ loop'.failed = failed
  <1>1. Told(Append(recvChan, msg), cs)
    BY ToldAppend
  <1>2. Told(<<>>, cs) /\ Told(<<msg>>, cs)
    BY DEF Told, ToldOf
  <1>3. CASE Len(recvChan) < RecvChanSize
    <2>1. /\ recvChan' = Append(recvChan, msg)
          /\ loop' = [blocked |-> <<>>, failed |-> failed]
      BY <1>3 DEF Post
    <2>2. loop'.blocked = <<>> /\ loop'.failed = failed
      BY <2>1
    <2> QED
      BY <1>1, <1>2, <2>1, <2>2
  <1>4. CASE ~(Len(recvChan) < RecvChanSize)
    <2>1. recvChan' = recvChan /\ loop' = [blocked |-> <<msg>>, failed |-> failed]
      BY <1>4 DEF Post
    <2>2. loop'.blocked = <<msg>> /\ loop'.failed = failed
      BY <2>1
    <2> QED
      BY <1>2, <2>1, <2>2
  <1> QED
    BY <1>3, <1>4

LEMMA CloseToldOf ==
  ASSUME NEW d, NEW cs, d \in DOMAIN cs, cs[d].st = "closed"
  PROVE  ToldOf(CloseMsg(d), cs)
  BY DEF CloseMsg, ToldOf

(***************************************************************************)
(* The steps of the dialer                                                 *)
(***************************************************************************)
DialerToldStep == DialerTold' /\ Lasts(conns, conns')

\* Nothing queued changes, and no connection.
LEMMA DialerToldSame ==
  ASSUME DialerTold, UNCHANGED <<conns, tasks, loop, recvChan>>
  PROVE  DialerToldStep
  BY DEF DialerTold, DialerToldStep, Lasts

LEMMA DialStepTold ==
  ASSUME ServerAssumption, DialerTold, NEW d \in DOMAIN dials, DialStep(d)
  PROVE  DialerToldStep
  BY DialerToldSame DEF DialStep, AcquireSem, DialFinishes, DialReports, ServerAssumption

\* A connection goes from one state to another that is not behind it.
LEMMA ShapeLasts ==
  ASSUME conns \in Seq(Conn), NEW d \in DOMAIN conns, NEW st, ConnShape(conns', d, st),
         conns[d].st = "closed" => st = "closed"
  PROVE  Lasts(conns, conns')
  BY DEF ConnShape, Lasts

LEMMA PeerStepTold ==
  ASSUME DialerTypeOK, DialerTold, NEW d \in DOMAIN dials, PeerStep(d)
  PROVE  DialerToldStep
  <1>1. /\ d \in DOMAIN conns /\ d \in ConnIds
        /\ conns \in Seq(Conn) /\ recvChan \in Seq(ConnEvent)
    BY DomainsEqual DEF DialerTypeOK
  <1>2. CASE OnTraffic(d)
    <2> DEFINE p == [conn |-> d, seq |-> conns[d].in + 1]
    <2>1. conns[d] \in Conn
      BY <1>1, ElementOfSeq
    <2>2. p \in Pkt /\ p.conn = d
      BY <1>1, <2>1 DEF Pkt, Conn
    <2>3. /\ conns' = ConnRead(d)
          /\ Post(DataMsg(d, <<p>>), NoConn)
          /\ UNCHANGED tasks
      BY <1>2 DEF OnTraffic
    <2> HIDE DEF p
    <2>4. ConnShape(conns', d, conns[d].st)
      BY <1>1, <2>3, ConnReadShape
    <2>5. Lasts(conns, conns')
      BY <1>1, <2>4, ShapeLasts
    <2>6. DOMAIN conns' = DOMAIN conns
      BY <2>4 DEF ConnShape
    <2>7. DataMsg(d, <<p>>) \in ConnEvent /\ ToldOf(DataMsg(d, <<p>>), conns')
      BY <1>1, <2>2, <2>6, DataType DEF DataMsg, ToldOf
    <2>8. Told(recvChan, conns') /\ Known(tasks, conns')
      BY <2>5, ToldLasts, KnownLasts DEF DialerTold
    <2> QED
      BY <1>1, <2>3, <2>5, <2>7, <2>8, PostTold DEF DialerTold, DialerToldStep
  <1>3. CASE PeerCloses(d)
    <2>1. /\ conns' = ConnAt(d, "closed")
          /\ Post(CloseMsg(d), NoConn)
          /\ UNCHANGED tasks
      BY <1>3 DEF PeerCloses
    <2>2. ConnShape(conns', d, "closed")
      BY <1>1, <2>1, ConnAtShape
    <2>3. Lasts(conns, conns')
      BY <1>1, <2>2, ShapeLasts
    <2>4. CloseMsg(d) \in ConnEvent /\ ToldOf(CloseMsg(d), conns')
      BY <1>1, <2>2, CloseType, CloseToldOf DEF ConnShape
    <2>5. Told(recvChan, conns') /\ Known(tasks, conns')
      BY <2>3, ToldLasts, KnownLasts DEF DialerTold
    <2> QED
      BY <1>1, <2>1, <2>3, <2>4, <2>5, PostTold DEF DialerTold, DialerToldStep
  <1> QED
    BY <1>2, <1>3 DEF PeerStep

\* The loop's own steps: a write or a close finds its connection among the
\* known ones, so what it posts, and the callback it leaves to run, are of a
\* connection it has closed.
LEMMA LoopStepTold ==
  ASSUME DialerTypeOK, DialerTold, LoopStep
  PROVE  DialerToldStep
  <1>0. /\ conns \in Seq(Conn) /\ recvChan \in Seq(ConnEvent)
        /\ tasks \in Seq(Task) /\ loop \in Loop
    BY DEF DialerTypeOK
  <1>1. CASE LoopUnblocks
    <2>1. loop.blocked \in Seq(ConnEvent) /\ loop.blocked # <<>>
      BY <1>0, <1>1 DEF Loop, LoopUnblocks
    <2>2. Head(loop.blocked) \in ConnEvent /\ ToldOf(Head(loop.blocked), conns)
      BY <2>1, ToldTail DEF DialerTold
    <2>3. Told(Append(recvChan, Head(loop.blocked)), conns)
      BY <1>0, <2>2, ToldAppend DEF DialerTold
    <2>4. Told(<<>>, conns)
      BY DEF Told
    <2>5. /\ recvChan' = Append(recvChan, Head(loop.blocked))
          /\ loop' = [blocked |-> <<>>, failed |-> loop.failed]
          /\ UNCHANGED <<conns, tasks>>
      BY <1>1 DEF LoopUnblocks
    <2>6. loop'.blocked = <<>> /\ loop'.failed = loop.failed
      BY <2>5
    <2> QED
      BY <2>3, <2>4, <2>5, <2>6 DEF DialerTold, DialerToldStep, Lasts
  <1>2. CASE RunWrite
    <2> DEFINE d == Head(tasks).conn
    <2>1. /\ Head(tasks) \in Task /\ Head(tasks).op = "write"
          /\ d \in DOMAIN conns /\ Known(tasks', conns)
      BY <1>0, <1>2, KnownTail DEF RunWrite, DialerTold
    <2>2. d \in ConnIds /\ Head(tasks).payload \in Payload
      BY <2>1, TaskFields
    <2>3. CASE /\ conns[d].st = "open"
               /\ conns' = ConnWritten(d, Head(tasks).payload)
               /\ UNCHANGED <<loop, recvChan>>
      <3>1. ConnShape(conns', d, conns[d].st)
        BY <1>0, <2>1, <2>2, <2>3, ConnWrittenShape
      <3>2. Lasts(conns, conns')
        BY <1>0, <2>1, <3>1, ShapeLasts
      <3>3. Told(recvChan, conns') /\ Told(loop.blocked, conns') /\ Known(tasks', conns')
        BY <2>1, <3>2, ToldLasts, KnownLasts DEF DialerTold
      <3> QED
        BY <2>3, <3>2, <3>3 DEF DialerTold, DialerToldStep, Lasts
    <2>4. CASE /\ conns[d].st = "open"
               /\ conns' = ConnAt(d, "closed")
               /\ Post(CloseMsg(d), d)
      <3>1. ConnShape(conns', d, "closed")
        BY <1>0, <2>1, <2>4, ConnAtShape
      <3>2. Lasts(conns, conns')
        BY <1>0, <2>1, <3>1, ShapeLasts
      <3>3. Told(recvChan, conns') /\ Known(tasks', conns')
        BY <2>1, <3>2, ToldLasts, KnownLasts DEF DialerTold
      <3>4. d \in DOMAIN conns' /\ conns'[d].st = "closed"
        BY <2>1, <3>1 DEF ConnShape
      <3>5. CloseMsg(d) \in ConnEvent /\ ToldOf(CloseMsg(d), conns')
        BY <2>2, <3>4, CloseType, CloseToldOf
      <3> QED
        BY <1>0, <2>4, <3>2, <3>3, <3>4, <3>5, PostTold DEF DialerTold, DialerToldStep
    <2>5. CASE /\ conns[d].st = "closed"
               /\ loop' = [blocked |-> <<>>, failed |-> d]
               /\ UNCHANGED <<conns, recvChan>>
      <3>1. loop'.blocked = <<>> /\ loop'.failed = d
        BY <2>5
      <3>2. Told(<<>>, conns)
        BY DEF Told
      <3> QED
        BY <2>1, <2>5, <3>1, <3>2 DEF DialerTold, DialerToldStep, Lasts
    <2> QED
      BY <1>2, <2>3, <2>4, <2>5 DEF RunWrite
  <1>3. CASE RunClose
    <2> DEFINE d == Head(tasks).conn
    <2>1. /\ Head(tasks) \in Task
          /\ d \in DOMAIN conns /\ Known(tasks', conns)
      BY <1>0, <1>3, KnownTail DEF RunClose, DialerTold
    <2>2. d \in ConnIds
      BY <2>1, TaskFields
    <2>3. CASE /\ conns' = ConnAt(d, "closed")
               /\ Post(CloseMsg(d), NoConn)
      <3>1. ConnShape(conns', d, "closed")
        BY <1>0, <2>1, <2>3, ConnAtShape
      <3>2. Lasts(conns, conns')
        BY <1>0, <2>1, <3>1, ShapeLasts
      <3>3. Told(recvChan, conns') /\ Known(tasks', conns')
        BY <2>1, <3>2, ToldLasts, KnownLasts DEF DialerTold
      <3>4. CloseMsg(d) \in ConnEvent /\ ToldOf(CloseMsg(d), conns')
        BY <2>1, <2>2, <3>1, CloseType, CloseToldOf DEF ConnShape
      <3> QED
        BY <1>0, <2>3, <3>2, <3>3, <3>4, PostTold DEF DialerTold, DialerToldStep
    <2>4. CASE UNCHANGED <<conns, loop, recvChan>>
      BY <2>1, <2>4 DEF DialerTold, DialerToldStep, Lasts
    <2> QED
      BY <1>3, <2>3, <2>4 DEF RunClose
  <1> QED
    BY <1>1, <1>2, <1>3 DEF LoopStep

LEMMA OnOpenTold ==
  ASSUME DialerTypeOK, DialsAgree, DialerTold, NEW d \in DOMAIN dials,
         NEW accepted \in BOOLEAN, OnOpenHooked(d, accepted)
  PROVE  DialerToldStep
  <1>1. /\ d \in DOMAIN conns /\ d \in ConnIds
        /\ conns \in Seq(Conn) /\ recvChan \in Seq(ConnEvent)
    BY DomainsEqual DEF DialerTypeOK
  <1>2. conns[d].st = "new" /\ UNCHANGED tasks
    BY DEF OnOpenHooked, DialsAgree
  <1>3. PICK st \in {"open", "closed"} :
          /\ conns' = ConnAt(d, st)
          /\ \/ UNCHANGED <<loop, recvChan>>
             \/ st = "closed" /\ Post(CloseMsg(d), NoConn)
    BY DEF OnOpenHooked
  <1>4. ConnShape(conns', d, st)
    BY <1>1, <1>3, ConnAtShape
  <1>5. Lasts(conns, conns')
    BY <1>1, <1>2, <1>4, ShapeLasts
  <1>6. Told(recvChan, conns') /\ Told(loop.blocked, conns') /\ Known(tasks, conns')
    BY <1>5, ToldLasts, KnownLasts DEF DialerTold
  <1>7. CASE UNCHANGED <<loop, recvChan>>
    BY <1>2, <1>5, <1>6, <1>7 DEF DialerTold, DialerToldStep, Lasts
  <1>8. CASE st = "closed" /\ Post(CloseMsg(d), NoConn)
    <2>1. CloseMsg(d) \in ConnEvent /\ ToldOf(CloseMsg(d), conns')
      BY <1>1, <1>4, <1>8, CloseType, CloseToldOf DEF ConnShape
    <2> QED
      BY <1>1, <1>2, <1>5, <1>6, <1>8, <2>1, PostTold DEF DialerTold, DialerToldStep
  <1> QED
    BY <1>3, <1>7, <1>8

(***************************************************************************)
(* The invariant                                                           *)
(***************************************************************************)

\* A Close in the worker's channel is of a client that is closed.
ChannelTold ==
  \A i \in DOMAIN channel :
    channel[i].event = "Close" => cstate[channel[i].conn] = "closed"

\* A connection is routed to the client it was dialed for.
RoutesOwn == \A d \in DOMAIN byDest : dials[d].token.client = byDest[d]

\* pkt comes from a connection that was dialed for client c.
From(pkt, c) == pkt.conn \in DOMAIN dials /\ dials[pkt.conn].token.client = c

\* What the downstream goroutine is about to write to a client is its own.
DownOwn ==
  \A i \in DOMAIN down.io :
    down.io[i].op = "write" => From(down.io[i].pkt, down.io[i].client)

DeliveredOwn == \A c \in Clients : \A i \in DOMAIN delivered[c] : From(delivered[c][i], c)

SafetyInv ==
  /\ DialerTold
  /\ Known(up.io, conns)
  /\ ChannelTold
  /\ RoutesOwn
  /\ DownOwn
  /\ DeliveredOwn

\* The dials that were made stay, for whom they were made.
TokensKept ==
  \A d \in DOMAIN dials : d \in DOMAIN dials' /\ dials'[d].token = dials[d].token

\* No route is made or changed.
RoutesShrink ==
  \A d \in DOMAIN byDest' : d \in DOMAIN byDest /\ byDest'[d] = byDest[d]

LEMMA RoutesStayOwn ==
  ASSUME IInv, RoutesOwn, TokensKept, RoutesShrink
  PROVE  RoutesOwn'
  <1>1. DOMAIN byDest \subseteq DOMAIN dials
    BY DomainsEqual DEF IInv, TypeOK, TableTypeOK
  <1> QED
    BY <1>1 DEF RoutesOwn, TokensKept, RoutesShrink

LEMMA DownStaysOwn ==
  ASSUME DownOwn, DeliveredOwn, TokensKept, UNCHANGED <<down, delivered>>
  PROVE  DownOwn' /\ DeliveredOwn'
  BY DEF DownOwn, DeliveredOwn, TokensKept, From

\* Most steps: what is queued stays true, what is routed stays, and nothing
\* moves toward the clients.
LEMMA SafetyFrame ==
  ASSUME IInv, SafetyInv, DialerToldStep, TokensKept, Known(up'.io, conns'),
         ChannelTold', RoutesShrink, UNCHANGED <<down, delivered>>
  PROVE  SafetyInv'
  BY RoutesStayOwn, DownStaysOwn DEF SafetyInv, DialerToldStep

\* A step of the goroutines that leaves the dialer alone.
LEMMA DialerUntouched ==
  ASSUME SafetyInv, UNCHANGED <<dials, conns, tasks, loop, recvChan>>
  PROVE  DialerToldStep /\ TokensKept
  BY DialerToldSame DEF SafetyInv, TokensKept

\* A step of the dialer that leaves the worker alone.
LEMMA WorkerUntouched ==
  ASSUME IInv, SafetyInv, DialerToldStep, SameDials,
         UNCHANGED <<tableVars, clientVars, up, down, delivered>>
  PROVE  SafetyInv'
  <1>1. TokensKept /\ RoutesShrink
    BY DEF SameDials, TokensKept, RoutesShrink, tableVars
  <1>2. ChannelTold'
    BY DEF SafetyInv, ChannelTold, clientVars
  <1>3. Known(up'.io, conns')
    BY KnownLasts DEF SafetyInv, DialerToldStep
  <1> QED
    BY <1>1, <1>2, <1>3, SafetyFrame

(***************************************************************************)
(* The dispatcher's loop and the upstream goroutine                        *)
(***************************************************************************)
LEMMA DispatcherSafe ==
  ASSUME IInv, SafetyInv, NEW c \in Clients, ClientSends(c) \/ ClientCloses(c)
  PROVE  SafetyInv'
  <1>0. UNCHANGED <<dials, conns, tasks, loop, recvChan, byDest, up, down, delivered>>
    BY DEF ClientSends, ClientCloses, dialerVars, tableVars
  <1>1. DialerToldStep /\ TokensKept /\ RoutesShrink /\ Known(up'.io, conns')
    BY <1>0, DialerUntouched DEF RoutesShrink, SafetyInv
  <1>2. channel \in Seq(ClientMsg) /\ cstate \in [Clients -> {"open", "closing", "closed"}]
    BY DEF IInv, TypeOK, ClientTypeOK
  <1>3. PICK m : /\ channel' = Append(channel, m)
                 /\ m.event = "Close" => cstate'[m.conn] = "closed"
                 /\ \A d \in Clients : cstate[d] = "closed" => cstate'[d] = "closed"
    <2>1. CASE ClientSends(c)
      <3>1. PICK n \in UpBatches : \E dest \in [1..n -> Dests] :
              channel' = Append(channel,
                [event |-> "Data", conn |-> c,
                 pkts |-> [i \in 1..n |->
                   [dest |-> dest[i], payload |-> [client |-> c, seq |-> nup[c] + i]]]])
        BY <2>1 DEF ClientSends
      <3>2. PICK pkts : channel' = Append(channel, [event |-> "Data", conn |-> c, pkts |-> pkts])
        BY <3>1
      <3>3. [event |-> "Data", conn |-> c, pkts |-> pkts].event # "Close"
        OBVIOUS
      <3>4. cstate' = cstate
        BY <2>1 DEF ClientSends
      <3> QED
        BY <3>2, <3>3, <3>4
    <2>2. CASE ClientCloses(c)
      <3>1. /\ channel' = Append(channel, [event |-> "Close", conn |-> c, pkts |-> <<>>])
            /\ cstate' = [cstate EXCEPT ![c] = "closed"]
        BY <2>2 DEF ClientCloses
      <3> QED
        BY <1>2, <3>1
    <2> QED
      BY <2>1, <2>2
  <1>4. \A i \in DOMAIN channel : channel[i].conn \in Clients
    <2>1. \A i \in DOMAIN channel : channel[i] \in ClientMsg
      BY <1>2, ElementOfSeq, LenProperties
    <2> QED
      BY <2>1 DEF ClientMsg
  <1>5. \A i \in DOMAIN channel' : (i \in DOMAIN channel /\ channel'[i] = channel[i]) \/ channel'[i] = m
    BY <1>2, <1>3
  <1>6. ChannelTold'
    BY <1>3, <1>4, <1>5 DEF ChannelTold, SafetyInv
  <1> QED
    BY <1>0, <1>1, <1>6, SafetyFrame

\* A connection handed out to be closed exists.
LEMMA OrphanKnown ==
  ASSUME IInv, NEW c
  PROVE  Known(Orphan(c), conns)
  <1>1. CASE c \in DOMAIN byClient /\ sess[byClient[c]].destConn # NoConn
    <2>1. sess[byClient[c]].destConn \in DOMAIN conns
      BY <1>1, DomainsEqual DEF IInv, TypeOK, TableTypeOK, Core, BoundByOwnDial
    <2> QED
      BY <1>1, <2>1 DEF Orphan, Known, CloseTask
  <1>2. CASE ~(c \in DOMAIN byClient /\ sess[byClient[c]].destConn # NoConn)
    BY <1>2 DEF Orphan, Known
  <1> QED
    BY <1>1, <1>2

LEMMA UnroutedShrinks ==
  ASSUME IInv, NEW c, byDest' = Unrouted(c)
  PROVE  RoutesShrink
  BY UnroutedShape DEF RoutesShrink, IInv, Core

LEMMA UpReceiveSafe ==
  ASSUME IInv, SafetyInv, UpReceive
  PROVE  SafetyInv'
  <1> DEFINE msg == Head(channel)
  <1>0. /\ UNCHANGED <<dials, conns, tasks, loop, recvChan, sess, cstate, down, delivered>>
        /\ channel' = Tail(channel) /\ channel # <<>>
    BY DEF UpReceive, dialerVars
  <1>1. DialerToldStep /\ TokensKept
    BY <1>0, DialerUntouched
  <1>2. ChannelTold'
    <2>1. channel \in Seq(ClientMsg)
      BY DEF IInv, TypeOK, ClientTypeOK
    <2>2. \A i \in DOMAIN Tail(channel) : i + 1 \in DOMAIN channel /\ Tail(channel)[i] = channel[i + 1]
      BY <1>0, <2>1
    <2> QED
      BY <1>0, <2>2 DEF ChannelTold, SafetyInv
  <1>3. RoutesShrink /\ Known(up'.io, conns)
    <2>1. CASE msg.event = "Close"
      <3>1. byDest' = Unrouted(msg.conn) /\ up' = UpOwes(Orphan(msg.conn))
        BY <2>1 DEF UpReceive, PurgeByClient
      <3>2. up'.io = Orphan(msg.conn)
        BY <3>1 DEF UpOwes
      <3> QED
        BY <3>1, <3>2, OrphanKnown, UnroutedShrinks
    <2>2. CASE msg.event # "Close"
      <3>1. /\ up' = [conn |-> msg.conn, pkts |-> msg.pkts, io |-> <<>>]
            /\ byDest' = byDest
        BY <2>2 DEF UpReceive
      <3>2. up'.io = <<>>
        BY <3>1
      <3> QED
        BY <3>1, <3>2 DEF RoutesShrink, Known
    <2> QED
      BY <2>1, <2>2
  <1> QED
    BY <1>0, <1>1, <1>2, <1>3, SafetyFrame

LEMMA UpAdmitSafe ==
  ASSUME IInv, SafetyInv, UpAdmit
  PROVE  SafetyInv'
  <1> DEFINE c == up.conn
             pkt == Head(up.pkts)
  <1>0. UNCHANGED <<dials, conns, tasks, loop, recvChan, cstate, channel, down, delivered>>
    BY DEF UpAdmit, dialerVars, clientVars
  <1>1. DialerToldStep /\ TokensKept
    BY <1>0, DialerUntouched
  <1>2. ChannelTold'
    BY <1>0 DEF ChannelTold, SafetyInv
  <1>3. RoutesShrink /\ Known(up'.io, conns)
    <2>1. CASE AdmitQueued(c, pkt)
      <3>1. up'.io = <<>> /\ byDest' = byDest
        BY <2>1 DEF AdmitQueued, UpNext
      <3> QED
        BY <3>1 DEF RoutesShrink, Known
    <2>2. CASE AdmitForward(c, pkt)
      <3> DEFINE d == sess[byClient[c]].destConn
      <3>1. up'.io = <<WriteTask(d, pkt.payload)>> /\ byDest' = byDest
        BY <2>2 DEF AdmitForward, UpNext
      <3>2. c \in DOMAIN byClient /\ ~sess[byClient[c]].dialing
        BY <2>2 DEF AdmitForward, SameDest, Dialing
      <3>3. d # NoConn /\ byClient[c] \in DOMAIN sess
        BY <3>2 DEF IInv, Core, ReadyMeansBound, TypeOK, TableTypeOK
      <3>4. d \in DOMAIN conns
        BY <3>3, DomainsEqual DEF IInv, TypeOK, Core, BoundByOwnDial
      <3>5. WriteTask(d, pkt.payload).conn = d
        BY DEF WriteTask
      <3> QED
        BY <3>1, <3>4, <3>5 DEF RoutesShrink, Known
    <2>3. CASE AdmitDial(c, pkt)
      <3> DEFINE call == DialCall([client |-> c, session |-> Len(sess) + 1])
      <3>1. up'.io = Append(Orphan(c), call) /\ byDest' = Unrouted(c)
        BY <2>3 DEF AdmitDial, UpNext
      <3>2. call.op = "dial"
        BY DEF DialCall
      <3> HIDE DEF call
      <3>3. Orphan(c) \in Seq(UpIO \cup {call})
        <4>1. Orphan(c) \in Seq(UpIO)
          BY OrphanType DEF IInv, TypeOK
        <4> QED
          BY <4>1
      <3>4. Known(Append(Orphan(c), call), conns)
        BY <3>2, <3>3, OrphanKnown, KnownAppend
      <3> QED
        BY <3>1, <3>4, UnroutedShrinks
    <2> QED
      BY <2>1, <2>2, <2>3 DEF UpAdmit
  <1> QED
    BY <1>0, <1>1, <1>2, <1>3, SafetyFrame

LEMMA UpCallSafe ==
  ASSUME IInv, SafetyInv, UpCall
  PROVE  SafetyInv'
  <1> DEFINE call == Head(up.io)
  <1>0. /\ up.io \in Seq(UpIO) /\ up.io # <<>> /\ up'.io = Tail(up.io)
        /\ call \in UpIO
    BY DEF UpCall, UpOwes, IInv, TypeOK, GoroutineTypeOK, Goroutine
  <1>1. /\ Known(up'.io, conns)
        /\ call.op # "dial" => call.conn \in DOMAIN conns
    BY <1>0, KnownTail DEF SafetyInv
  <1>2. UNCHANGED <<byDest, channel, cstate, down, delivered>>
    BY DEF UpCall, tableVars, clientVars
  <1>3. ChannelTold' /\ RoutesShrink
    BY <1>2 DEF ChannelTold, SafetyInv, RoutesShrink
  <1>4. CASE call.op = "dial"
    <2>1. AsyncDial(call.token) /\ UNCHANGED <<tasks, loop, recvChan>>
      BY <1>4 DEF UpCall, AsyncDial
    <2>2. call.token \in Token
      BY <1>0, <1>4 DEF UpIO, Task
    <2>3. /\ DOMAIN dials \subseteq DOMAIN dials' /\ DOMAIN conns \subseteq DOMAIN conns'
          /\ \A e \in DOMAIN dials : dials'[e] = dials[e] /\ conns'[e] = conns[e]
      BY <2>1, <2>2, AsyncDialOK DEF IInv, TypeOK, Core
    <2>4. DOMAIN conns = DOMAIN dials
      BY DomainsEqual DEF IInv, TypeOK
    <2>5. Lasts(conns, conns') /\ TokensKept
      BY <2>3, <2>4 DEF Lasts, TokensKept
    <2>6. DialerToldStep
      BY <2>1, <2>5, ToldLasts, KnownLasts DEF DialerTold, DialerToldStep, Lasts, SafetyInv
    <2>7. Known(up'.io, conns')
      BY <1>1, <2>5, KnownLasts
    <2> QED
      BY <1>2, <1>3, <2>5, <2>6, <2>7, SafetyFrame
  <1>5. CASE call.op # "dial"
    <2>1. tasks' = Append(tasks, call) /\ UNCHANGED <<dials, conns, loop, recvChan>>
      BY <1>5 DEF UpCall
    <2>2. call \in Task /\ tasks \in Seq(Task)
      BY <1>0, <1>5 DEF UpIO, IInv, TypeOK, DialerTypeOK
    <2>3. Known(tasks', conns)
      BY <1>1, <1>5, <2>1, <2>2, KnownAppend DEF SafetyInv, DialerTold
    <2>4. DialerToldStep /\ TokensKept
      BY <2>1, <2>3 DEF DialerTold, DialerToldStep, Lasts, TokensKept, SafetyInv
    <2> QED
      BY <1>1, <1>2, <1>3, <2>1, <2>4, SafetyFrame
  <1> QED
    BY <1>4, <1>5

LEMMA UpDialResultSafe ==
  ASSUME IInv, SafetyInv, UpDialResult
  PROVE  SafetyInv'
  <1> DEFINE res == Head(dialResultChan)
             token == dials[res.conn].token
  <1>0. UNCHANGED <<dials, conns, tasks, loop, recvChan, byDest, cstate, channel, down, delivered>>
    BY DEF UpDialResult, clientVars, DialFailed, DialSucceeded
  <1>1. DialerToldStep /\ TokensKept /\ ChannelTold' /\ RoutesShrink
    BY <1>0, DialerUntouched DEF SafetyInv, ChannelTold, RoutesShrink
  <1>2. res.conn \in DOMAIN conns
    <2>1. dialResultChan \in Seq(Result) /\ dialResultChan # <<>>
      BY DEF UpDialResult, IInv, TypeOK, DialerTypeOK
    <2>2. 1 \in DOMAIN dialResultChan /\ res = dialResultChan[1]
      BY <2>1
    <2> QED
      BY <2>2, DomainsEqual DEF IInv, TypeOK, Core, DialsAgree
  <1>3. Known(up'.io, conns)
    <2>1. CASE res.err
      BY <2>1 DEF UpDialResult, DialFailed, SafetyInv
    <2>2. CASE ~res.err /\ Current(token)
      <3> DEFINE pending == sess[token.session].pending
      <3>1. up'.io = Replay(res.conn, pending)
        BY <2>2 DEF UpDialResult, DialSucceeded, UpOwes
      <3>2. \A i \in DOMAIN Replay(res.conn, pending) :
              Replay(res.conn, pending)[i].conn = res.conn
        BY DEF Replay, WriteTask
      <3> QED
        BY <1>2, <3>1, <3>2 DEF Known
    <2>3. CASE ~res.err /\ ~Current(token)
      <3>1. up'.io = <<CloseTask(res.conn)>>
        BY <2>3 DEF UpDialResult, DialSucceeded, UpOwes
      <3> QED
        BY <1>2, <3>1 DEF Known, CloseTask
    <2> QED
      BY <2>1, <2>2, <2>3
  <1> QED
    BY <1>0, <1>1, <1>3, SafetyFrame

(***************************************************************************)
(* The downstream goroutine                                                *)
(***************************************************************************)
LEMMA PurgeByDestShrinks ==
  ASSUME NEW d, PurgeByDest(d)
  PROVE  RoutesShrink
  BY DEF PurgeByDest, Delete, RoutesShrink

LEMMA DownReceiveSafe ==
  ASSUME IInv, SafetyInv, DownReceive
  PROVE  SafetyInv'
  <1> DEFINE msg == Head(recvChan)
             d == msg.conn
  <1>0. /\ UNCHANGED <<dials, conns, tasks, loop, sess, cstate, channel, up, delivered>>
        /\ recvChan' = Tail(recvChan) /\ recvChan # <<>>
        /\ recvChan \in Seq(ConnEvent)
    BY DEF DownReceive, clientVars, IInv, TypeOK, DialerTypeOK
  <1>1. Told(Tail(recvChan), conns) /\ ToldOf(msg, conns)
    BY <1>0, ToldTail DEF SafetyInv, DialerTold
  <1>2. DialerTold' /\ TokensKept /\ Known(up'.io, conns') /\ ChannelTold'
    BY <1>0, <1>1 DEF DialerTold, TokensKept, ChannelTold, SafetyInv
  <1>3. RoutesShrink
    <2>1. CASE msg.event = "Close"
      BY <2>1, PurgeByDestShrinks DEF DownReceive
    <2>2. CASE msg.event # "Close"
      BY <2>2 DEF DownReceive, RoutesShrink
    <2> QED
      BY <2>1, <2>2
  <1>4. DownOwn'
    <2>1. CASE down' = [io |-> <<>>]
      BY <2>1 DEF DownOwn
    <2>2. ASSUME NEW c, down' = [io |-> <<ClientClose(c)>>]
          PROVE  DownOwn'
      <3>1. down'.io = <<ClientClose(c)>> /\ ClientClose(c).op # "write"
        BY <2>2 DEF ClientClose
      <3> QED
        BY <3>1 DEF DownOwn
    <2>3. ASSUME NEW c \in GetByDest(d),
                 down' = [io |-> [i \in DOMAIN msg.pkts |-> ClientWrite(c, msg.pkts[i])]]
          PROVE  DownOwn'
      <3>1. d \in DOMAIN byDest /\ byDest[d] = c
        BY DEF GetByDest
      <3>2. d \in DOMAIN dials /\ dials[d].token.client = c
        BY <3>1, DomainsEqual DEF SafetyInv, RoutesOwn, IInv, TypeOK, TableTypeOK
      <3>3. \A i \in DOMAIN msg.pkts :
              /\ ClientWrite(c, msg.pkts[i]).client = c
              /\ ClientWrite(c, msg.pkts[i]).pkt = msg.pkts[i]
              /\ msg.pkts[i].conn = d
        BY <1>1 DEF ClientWrite, ToldOf
      <3>4. /\ DOMAIN down'.io = DOMAIN msg.pkts
            /\ \A i \in DOMAIN msg.pkts : down'.io[i] = ClientWrite(c, msg.pkts[i])
        BY <2>3
      <3>5. dials' = dials
        BY <1>0
      <3> QED
        BY <3>2, <3>3, <3>4, <3>5 DEF DownOwn, From
    <2> QED
      BY <2>1, <2>2, <2>3 DEF DownReceive
  <1>5. RoutesOwn'
    BY <1>2, <1>3, RoutesStayOwn DEF SafetyInv
  <1>6. DeliveredOwn'
    BY <1>0 DEF SafetyInv, DeliveredOwn, From
  <1> QED
    BY <1>2, <1>4, <1>5, <1>6 DEF SafetyInv

LEMMA DownCallSafe ==
  ASSUME IInv, SafetyInv, DownCall
  PROVE  SafetyInv'
  <1> DEFINE call == Head(down.io)
  <1>0. /\ UNCHANGED <<dials, conns, tasks, loop, recvChan, byDest, channel, up>>
        /\ down.io \in Seq(DownIO) /\ down.io # <<>> /\ down'.io = Tail(down.io)
        /\ delivered \in [Clients -> Seq(Pkt)]
        /\ cstate \in [Clients -> {"open", "closing", "closed"}]
    BY DEF DownCall, dialerVars, tableVars, IInv, TypeOK, GoroutineTypeOK, ClientTypeOK
  <1>1. DialerTold' /\ RoutesOwn' /\ Known(up'.io, conns')
    BY <1>0, DialerUntouched DEF SafetyInv, DialerToldStep, RoutesOwn
  <1>2. 1 \in DOMAIN down.io /\ call = down.io[1] /\ call \in DownIO
    BY <1>0
  <1>3. DownOwn'
    <2>1. \A i \in DOMAIN Tail(down.io) : i + 1 \in DOMAIN down.io /\ Tail(down.io)[i] = down.io[i + 1]
      BY <1>0
    <2> QED
      BY <1>0, <2>1 DEF SafetyInv, DownOwn, From
  <1>4. ChannelTold'
    <2>1. \A i \in DOMAIN channel : channel[i] \in ClientMsg
      BY ElementOfSeq, LenProperties DEF IInv, TypeOK, ClientTypeOK
    <2>2. \A c \in Clients : cstate[c] = "closed" => cstate'[c] = "closed"
      BY <1>0 DEF DownCall
    <2> QED
      BY <1>0, <2>1, <2>2 DEF SafetyInv, ChannelTold, ClientMsg
  <1>5. DeliveredOwn'
    <2>1. CASE delivered' = delivered
      BY <1>0, <2>1 DEF SafetyInv, DeliveredOwn, From
    <2>2. CASE /\ call.op = "write"
               /\ delivered' = [delivered EXCEPT ![call.client] = Append(@, call.pkt)]
      <3>1. From(call.pkt, call.client)
        BY <1>2, <2>2 DEF SafetyInv, DownOwn
      <3>2. call.client \in Clients /\ call.pkt \in Pkt
        BY <1>2, <2>2 DEF DownIO
      <3>3. ASSUME NEW c \in Clients, NEW i \in DOMAIN delivered'[c]
            PROVE  From(delivered'[c][i], c)
        <4>1. CASE c = call.client
          <5>1. delivered'[c] = Append(delivered[c], call.pkt) /\ delivered[c] \in Seq(Pkt)
            BY <1>0, <2>2, <3>2, <4>1
          <5>2. \/ i \in DOMAIN delivered[c] /\ delivered'[c][i] = delivered[c][i]
                \/ delivered'[c][i] = call.pkt
            BY <3>2, <5>1
          <5> QED
            BY <3>1, <4>1, <5>2 DEF SafetyInv, DeliveredOwn
        <4>2. CASE c # call.client
          BY <1>0, <2>2, <4>2 DEF SafetyInv, DeliveredOwn
        <4> QED
          BY <4>1, <4>2
      <3> QED
        BY <1>0, <3>3 DEF DeliveredOwn, From
    <2> QED
      BY <2>1, <2>2 DEF DownCall
  <1> QED
    BY <1>1, <1>3, <1>4, <1>5 DEF SafetyInv

(***************************************************************************)
(* The dialer's loop, where it enters the worker                           *)
(***************************************************************************)
LEMMA LoopOpensSafe ==
  ASSUME IInv, SafetyInv, NEW d \in DOMAIN dials, LoopOpens(d)
  PROVE  SafetyInv'
  <1> DEFINE token == dials[d].token
  <1>0. /\ OnOpenHooked(d, Current(token)) /\ Current(token) \in BOOLEAN
        /\ UNCHANGED <<cstate, channel, up, down, delivered>>
    BY DEF LoopOpens, clientVars, Current
  <1>1. DialerToldStep
    BY <1>0, OnOpenTold DEF IInv, TypeOK, Core, SafetyInv
  <1>2. TokensKept
    <2>1. DialsMoved(d, "opened")
      BY <1>0, OnOpenOK DEF IInv, TypeOK, Core
    <2> QED
      BY <2>1 DEF DialsMoved, TokensKept
  <1>3. ChannelTold' /\ Known(up'.io, conns')
    BY <1>0, <1>1, KnownLasts DEF SafetyInv, ChannelTold, DialerToldStep
  <1>4. RoutesOwn'
    <2>1. CASE Current(token)
      <3>1. byDest' = Put(byDest, d, token.client)
        BY <2>1 DEF LoopOpens, BindDial
      <3>2. DOMAIN byDest \subseteq DOMAIN dials
        BY DomainsEqual DEF IInv, TypeOK, TableTypeOK
      <3> QED
        BY <1>2, <3>1, <3>2 DEF Put, RoutesOwn, SafetyInv, TokensKept
    <2>2. CASE ~Current(token)
      <3>1. RoutesShrink
        BY <2>2 DEF LoopOpens, RoutesShrink
      <3> QED
        BY <1>2, <3>1, RoutesStayOwn DEF SafetyInv
    <2> QED
      BY <2>1, <2>2
  <1> QED
    BY <1>0, <1>1, <1>2, <1>3, <1>4, DownStaysOwn DEF SafetyInv, DialerToldStep

LEMMA LoopWriteErrorSafe ==
  ASSUME IInv, SafetyInv, LoopWriteError
  PROVE  SafetyInv'
  <1>0. /\ tasks' = tasks \o <<CloseTask(loop.failed)>>
        /\ loop' = [blocked |-> <<>>, failed |-> NoConn]
        /\ loop.failed # NoConn
        /\ UNCHANGED <<dials, conns, recvChan, cstate, channel, up, down, delivered>>
        /\ PurgeByDest(loop.failed)
    BY DEF LoopWriteError, WriteErrorDone, clientVars
  <1>1. loop.failed \in DOMAIN conns /\ loop.failed \in ConnIds
    BY <1>0, DomainsEqual DEF SafetyInv, DialerTold, IInv, TypeOK
  <1>2. Known(tasks', conns)
    <2> DEFINE t == CloseTask(loop.failed)
    <2>1. t \in Task /\ t.conn = loop.failed /\ tasks \in Seq(Task)
      BY <1>1 DEF CloseTask, Task, IInv, TypeOK, DialerTypeOK
    <2>2. Known(tasks, conns)
      BY DEF SafetyInv, DialerTold
    <2> HIDE DEF t
    <2>3. Known(Append(tasks, t), conns)
      BY <1>1, <2>1, <2>2, KnownAppend
    <2>4. tasks' = Append(tasks, t)
      BY <1>0, <2>1 DEF t
    <2> QED
      BY <2>3, <2>4
  <1>3. Told(loop'.blocked, conns) /\ loop'.failed = NoConn
    BY <1>0 DEF Told
  <1>4. DialerToldStep /\ TokensKept /\ ChannelTold' /\ Known(up'.io, conns')
    BY <1>0, <1>2, <1>3 DEF SafetyInv, DialerTold, DialerToldStep, Lasts, TokensKept, ChannelTold
  <1> QED
    BY <1>0, <1>4, PurgeByDestShrinks, SafetyFrame

(***************************************************************************)
(* Every step                                                              *)
(***************************************************************************)
LEMMA InitSafe ==
  ASSUME Init
  PROVE  SafetyInv
  BY DEF Init, DialerInit, SafetyInv, DialerTold, Told, Known, ChannelTold, RoutesOwn,
         DownOwn, DeliveredOwn

LEMMA NextSafe ==
  ASSUME ServerAssumption, IInv, SafetyInv, [Next]_vars
  PROVE  SafetyInv'
  <1>0. DialerTypeOK /\ DialsAgree /\ DialerTold
    BY DEF IInv, TypeOK, Core, SafetyInv
  <1>1. CASE \E c \in Clients : ClientSends(c) \/ ClientCloses(c)
    BY <1>1, DispatcherSafe
  <1>2. CASE Upstream
    BY <1>2, UpReceiveSafe, UpAdmitSafe, UpCallSafe, UpDialResultSafe DEF Upstream
  <1>3. CASE Downstream
    BY <1>3, DownReceiveSafe, DownCallSafe DEF Downstream
  <1>4. CASE DialerSteps
    <2>1. ASSUME NEW d \in DOMAIN dials, LoopOpens(d)
          PROVE  SafetyInv'
      BY <2>1, LoopOpensSafe
    <2>2. ASSUME NEW d \in DOMAIN dials, DialerAlone(DialStep(d))
          PROVE  SafetyInv'
      BY <1>0, <2>2, DialStepTold, DialStepOK, WorkerUntouched DEF DialerAlone, DialerStepOK
    <2>3. ASSUME NEW d \in DOMAIN dials, DialerAlone(PeerStep(d))
          PROVE  SafetyInv'
      BY <1>0, <2>3, PeerStepTold, PeerStepOK, WorkerUntouched DEF DialerAlone, DialerStepOK
    <2>4. CASE LoopWriteError
      BY <2>4, LoopWriteErrorSafe
    <2>5. CASE DialerAlone(LoopStep)
      BY <1>0, <2>5, LoopStepTold, LoopStepOK, WorkerUntouched DEF DialerAlone, DialerStepOK
    <2> QED
      BY <1>4, <2>1, <2>2, <2>3, <2>4, <2>5 DEF DialerSteps
  <1>5. CASE UNCHANGED vars
    <2>1. /\ UNCHANGED <<dials, conns, tasks, loop, recvChan>>
          /\ UNCHANGED <<tableVars, clientVars, up, down, delivered>>
      BY <1>5 DEF vars, dialerVars
    <2>2. DialerToldStep /\ SameDials
      BY <2>1, DialerUntouched DEF SameDials
    <2> QED
      BY <2>1, <2>2, WorkerUntouched
  <1> QED
    BY <1>1, <1>2, <1>3, <1>4, <1>5 DEF Next

\* What waits in the channels of a worker says the truth when it is handled.
THEOREM EventsTrue == Spec => [](IInv /\ SafetyInv)
  <1>1. Init => SafetyInv
    BY InitSafe
  <1>2. IInv /\ SafetyInv /\ [Next]_vars => SafetyInv'
    BY NextSafe, ServerAssumption
  <1> QED
    BY <1>1, <1>2, WorkerInvariant, PTL DEF Spec

(***************************************************************************)
(* Two clients                                                             *)
(***************************************************************************)

\* However many clients share a worker's goroutines, loop and dial pool, and
\* whatever they dial: none receives of another's connection.
THEOREM NoCrossTalk == Spec => []ClientsSeparate
  <1>1. SafetyInv => ClientsSeparate
    BY DEF SafetyInv, DeliveredOwn, From, ClientsSeparate
  <1> QED
    BY <1>1, EventsTrue, PTL

(***************************************************************************)
(* Why sessions go                                                         *)
(***************************************************************************)

\* purgeByDest takes a session only with its own, closed connection.
LEMMA PurgeJustified ==
  ASSUME IInv, NEW d, conns[d].st = "closed", PurgeByDest(d),
         NEW c \in DOMAIN byClient \ DOMAIN byClient'
  PROVE  Justified(c)
  <1>1. c \in PurgedClient(d)
    BY DEF PurgeByDest
  <1>2. d \in DOMAIN byDest /\ sess[byClient[c]].destConn = d
    BY <1>1 DEF PurgedClient
  <1>3. d # NoConn
    BY <1>2, DomainsEqual DEF IInv, TypeOK, TableTypeOK, ConnIds
  <1> QED
    BY <1>2, <1>3 DEF Justified

LEMMA StepJustified ==
  ASSUME IInv, SafetyInv, Next, NEW c \in DOMAIN byClient \ DOMAIN byClient'
  PROVE  Justified(c)
  <1>1. CASE UpReceive
    <2> DEFINE msg == Head(channel)
    <2>1. msg.event = "Close" /\ PurgeByClient(msg.conn)
      BY <1>1 DEF UpReceive
    <2>2. c = msg.conn
      BY <2>1 DEF PurgeByClient, Delete
    <2>3. channel # <<>> /\ channel \in Seq(ClientMsg)
      BY <1>1 DEF UpReceive, IInv, TypeOK, ClientTypeOK
    <2>4. 1 \in DOMAIN channel /\ msg = channel[1]
      BY <2>3
    <2> QED
      BY <2>1, <2>2, <2>4 DEF SafetyInv, ChannelTold, Justified
  <1>2. CASE UpDialResult
    <2> DEFINE res == Head(dialResultChan)
               token == dials[res.conn].token
    <2>1. res.err /\ Current(token) /\ AbortDial(token.client)
      BY <1>2 DEF UpDialResult, DialFailed, DialSucceeded
    <2>2. c = token.client /\ byClient[c] = token.session
      BY <2>1 DEF AbortDial, Delete, Current
    <2>3. dialResultChan # <<>> /\ dialResultChan \in Seq(Result)
      BY <1>2 DEF UpDialResult, IInv, TypeOK, DialerTypeOK
    <2>4. 1 \in DOMAIN dialResultChan /\ res = dialResultChan[1]
      BY <2>3
    <2>5. /\ res.conn \in DOMAIN dials /\ dials[res.conn].pc = "done"
          /\ conns[res.conn].st = "new"
      BY <2>1, <2>4 DEF IInv, Core, DialsAgree
    <2> QED
      BY <2>2, <2>5 DEF Justified
  <1>3. CASE DownReceive
    <2> DEFINE msg == Head(recvChan)
    <2>1. msg.event = "Close" /\ PurgeByDest(msg.conn)
      BY <1>3 DEF DownReceive
    <2>2. recvChan # <<>> /\ recvChan \in Seq(ConnEvent)
      BY <1>3 DEF DownReceive, IInv, TypeOK, DialerTypeOK
    <2>3. ToldOf(msg, conns)
      BY <2>2, ToldTail DEF SafetyInv, DialerTold
    <2> QED
      BY <2>1, <2>3, PurgeJustified DEF ToldOf
  <1>4. CASE LoopWriteError
    <2>1. PurgeByDest(loop.failed) /\ loop.failed # NoConn
      BY <1>4 DEF LoopWriteError, WriteErrorDone
    <2> QED
      BY <2>1, PurgeJustified DEF SafetyInv, DialerTold
  <1>5. CASE UpAdmit
    BY <1>5 DEF UpAdmit, AdmitQueued, AdmitForward, AdmitDial, Put
  <1>6. CASE UpCall \/ DownCall \/ \E x \in Clients : ClientSends(x) \/ ClientCloses(x)
    BY <1>6 DEF UpCall, DownCall, ClientSends, ClientCloses, tableVars
  <1>7. CASE DialerSteps /\ ~LoopWriteError
    BY <1>7 DEF DialerSteps, DialerAlone, LoopOpens, tableVars
  <1>8. CASE UNCHANGED vars
    BY <1>8 DEF vars, tableVars
  <1> QED
    BY <1>1, <1>2, <1>3, <1>4, <1>5, <1>6, <1>7, <1>8 DEF Next, Upstream, Downstream

\* A client loses its session only because it closed, its connection closed
\* or its own dial failed; never for a late result or event of another one
\* (session.go:127).
THEOREM SessionsGoForCause == Spec => SessionLossJustified
  <1>1. IInv /\ SafetyInv /\ [Next]_vars => [LossJustified]_vars
    BY StepJustified DEF LossJustified
  <1> QED
    BY <1>1, EventsTrue, PTL DEF Spec, SessionLossJustified
=============================================================================
