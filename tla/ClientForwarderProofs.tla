------------------------ MODULE ClientForwarderProofs ------------------------
(***************************************************************************)
(* Proofs about ClientForwarder, for every number of users and of packets, *)
(* every mode of the parser and every capacity of the channels.            *)
(***************************************************************************)
EXTENDS ClientForwarder, SequenceLemmas, FiniteSetTheorems

(***************************************************************************)
(* The inductive invariant                                                 *)
(***************************************************************************)
Types == DialerTypeOK /\ TableTypeOK /\ UserTypeOK /\ ReceiverTypeOK

\* A session that forwards has a connection.
ReadyMeansBound ==
  \A s \in DOMAIN sess : ~sess[s].dialing => sess[s].serverConn # NoConn

\* No two users share a session.
OwnSession ==
  \A u, v \in DOMAIN byUser : byUser[u] = byUser[v] => u = v

\* Every dial is for a session that exists, and no two are for the same.
DialsDistinct ==
  /\ \A d \in DOMAIN dials : dials[d].token.session \in DOMAIN sess
  /\ \A d, e \in DOMAIN dials :
       dials[d].token.session = dials[e].token.session => d = e

\* The user's loop owes a dial.
Owes(u) == lp[u].pc = "io" /\ Head(lp[u].io).op = "dial"
OwedFor(u) == Head(lp[u].io).token.session

\* A loop owes exactly one call when it is about to do I/O; a dial it owes is
\* for a session of its own that no dial was started for.
CallsFresh ==
  /\ \A u \in Users : IF lp[u].pc = "io" THEN Len(lp[u].io) = 1 ELSE lp[u].io = <<>>
  /\ \A u \in Users :
       Owes(u) =>
         /\ OwedFor(u) \in DOMAIN sess
         /\ \A d \in DOMAIN dials : dials[d].token.session # OwedFor(u)
         /\ \A v \in Users : Owes(v) /\ OwedFor(v) = OwedFor(u) => v = u

\* A loop looks at its buffer only while there is something in it.
LookupHasData == \A u \in Users : lp[u].pc = "lookup" => ubuf[u] # 0

\* A connection exists exactly when its dial got as far as OnOpen.
DialsAgree ==
  \A d \in DOMAIN dials :
    /\ dials[d].pc \in {"spawned", "dialing", "failed", "enrolling"} => conns[d].st = "new"
    /\ dials[d].pc = "opened" => conns[d].st # "new"

\* The events between the dialer and the goroutine that consumes them.
Events == {recvChan[i] : i \in DOMAIN recvChan} \cup
          {loop.blocked[i] : i \in DOMAIN loop.blocked}

\* What an event says of a dial is so, and stays so.
EventTrue(msg) ==
  /\ msg.event = "Open" => msg.conn \in DOMAIN dials /\ conns[msg.conn].st # "new"
  /\ msg.event = "DialError" =>
       /\ msg.conn \in DOMAIN dials
       /\ dials[msg.conn].pc = "done" /\ conns[msg.conn].st = "new"

EventsTrue == \A msg \in Events : EventTrue(msg)

\* A session is bound only to the connection of its own dial.
BoundByOwnDial ==
  \A s \in DOMAIN sess :
    LET d == sess[s].serverConn IN
      d # NoConn =>
        d \in DOMAIN dials /\ dials[d].token.session = s /\ conns[d].st # "new"

DialerInv == DialerTypeOK /\ DialsAgree /\ EventsTrue

TableInv ==
  /\ TableTypeOK
  /\ RouteConsistent
  /\ ReadyMeansBound
  /\ OwnSession
  /\ DialsDistinct
  /\ BoundByOwnDial

LoopInv == UserTypeOK /\ CallsFresh /\ LookupHasData

IInv == DialerInv /\ TableInv /\ LoopInv /\ ReceiverTypeOK

(***************************************************************************)
(* Steps of the dialer                                                     *)
(***************************************************************************)

\* DOMAIN conns is that of dials.
LEMMA DomainsEqual ==
  ASSUME DialerTypeOK
  PROVE  /\ DOMAIN conns = DOMAIN dials
         /\ DOMAIN dials = 1..Len(dials)
         /\ DOMAIN dials \subseteq ConnIds
         /\ NoConn \notin DOMAIN dials
  BY DEF DialerTypeOK, ConnIds, NoConn

\* DialAt changes the pc of one dial and no token.
DialsMoved(d, pc) ==
  /\ dials' \in Seq(Dial)
  /\ Len(dials') = Len(dials)
  /\ DOMAIN dials' = DOMAIN dials
  /\ dials'[d].pc = pc
  /\ \A e \in DOMAIN dials :
       /\ dials'[e].token = dials[e].token
       /\ e # d => dials'[e].pc = dials[e].pc

LEMMA DialMoves ==
  ASSUME dials \in Seq(Dial), NEW d \in DOMAIN dials, NEW pc \in DialPC,
         dials' = DialAt(d, pc)
  PROVE  DialsMoved(d, pc)
  <1> DEFINE r == [token |-> dials[d].token, pc |-> pc]
  <1>1. dials[d] \in Dial
    BY ElementOfSeq
  <1>2. r \in Dial
    BY <1>1 DEF Dial
  <1>3. dials' = [dials EXCEPT ![d] = r]
    BY DEF DialAt
  <1>4. r.pc = pc /\ r.token = dials[d].token
    OBVIOUS
  <1> HIDE DEF r
  <1> QED
    BY <1>2, <1>3, <1>4, EntryReplaced DEF DialsMoved

\* The connections keep their types, and none becomes new or stops being so.
ConnsKept ==
  /\ conns' \in Seq(Conn)
  /\ Len(conns') = Len(conns)
  /\ \A e \in DOMAIN conns : conns'[e].st = "new" <=> conns[e].st = "new"

\* The fields of a connection are typed.
LEMMA ConnFields ==
  ASSUME conns \in Seq(Conn), NEW d \in DOMAIN conns
  PROVE  /\ conns[d].st \in {"new", "open", "closed"}
         /\ conns[d].out \in Seq(Packet)
         /\ conns[d].in \in Nat
  <1>1. conns[d] \in Conn
    BY ElementOfSeq
  <1> QED
    BY <1>1 DEF Conn

\* Writing the three fields of a connection, typed, is an update of one
\* entry.
LEMMA ConnUpdate ==
  ASSUME conns \in Seq(Conn), NEW d \in DOMAIN conns,
         NEW st \in {"new", "open", "closed"}, NEW o \in Seq(Packet), NEW n \in Nat,
         conns' = [conns EXCEPT ![d] = [st |-> st, out |-> o, in |-> n]]
  PROVE  /\ conns' \in Seq(Conn) /\ Len(conns') = Len(conns)
         /\ DOMAIN conns' = DOMAIN conns
         /\ conns'[d].st = st /\ conns'[d].out = o /\ conns'[d].in = n
         /\ \A e \in DOMAIN conns : e # d => conns'[e] = conns[e]
  <1> DEFINE r == [st |-> st, out |-> o, in |-> n]
  <1>1. r \in Conn /\ r.st = st /\ r.out = o /\ r.in = n
    BY DEF Conn
  <1>2. conns' = [conns EXCEPT ![d] = r]
    OBVIOUS
  <1> HIDE DEF r
  <1> QED
    BY <1>1, <1>2, EntryReplaced

\* A connection that is not new changes its state.
LEMMA ConnAtKeeps ==
  ASSUME conns \in Seq(Conn), NEW d, NEW st \in {"open", "closed"},
         conns[d].st # "new", conns' = ConnAt(d, st)
  PROVE  ConnsKept
  <1>1. CASE d \in DOMAIN conns
    BY <1>1, ConnFields, ConnUpdate DEF ConnAt, ConnsKept
  <1>2. CASE d \notin DOMAIN conns
    BY <1>2, ExceptOutside DEF ConnAt, ConnsKept
  <1> QED
    BY <1>1, <1>2

\* A write.
LEMMA ConnWrittenKeeps ==
  ASSUME conns \in Seq(Conn), NEW d, NEW p \in Packet, conns' = ConnWritten(d, p)
  PROVE  ConnsKept
  <1>1. CASE d \in DOMAIN conns
    <2>1. Append(conns[d].out, p) \in Seq(Packet)
      BY <1>1, ConnFields
    <2> QED
      BY <1>1, <2>1, ConnFields, ConnUpdate DEF ConnWritten, ConnsKept
  <1>2. CASE d \notin DOMAIN conns
    BY <1>2, ExceptOutside DEF ConnWritten, ConnsKept
  <1> QED
    BY <1>1, <1>2

\* A read.
LEMMA ConnReadKeeps ==
  ASSUME conns \in Seq(Conn), NEW d \in DOMAIN conns, conns' = ConnRead(d)
  PROVE  ConnsKept
  <1>1. conns[d].in + 1 \in Nat
    BY ConnFields
  <1> QED
    BY <1>1, ConnFields, ConnUpdate DEF ConnRead, ConnsKept

\* Posting a typed event keeps the types and adds no other event.
LEMMA PostOK ==
  ASSUME recvChan \in Seq(ConnEvent), NEW msg \in ConnEvent, NEW failed \in Nat,
         Post(msg, failed)
  PROVE  /\ loop' \in Loop /\ recvChan' \in Seq(ConnEvent)
         /\ Events' \subseteq Events \cup {msg}
  <1>1. <<msg>> \in Seq(ConnEvent) /\ <<>> \in Seq(ConnEvent)
    OBVIOUS
  <1>2. Append(recvChan, msg) \in Seq(ConnEvent)
    OBVIOUS
  <1>3. /\ [blocked |-> <<>>, failed |-> failed] \in Loop
        /\ [blocked |-> <<msg>>, failed |-> failed] \in Loop
    BY <1>1 DEF Loop
  <1>4. loop' \in Loop /\ recvChan' \in Seq(ConnEvent)
    BY <1>2, <1>3 DEF Post
  <1>5. /\ \A i \in DOMAIN recvChan' :
             recvChan'[i] = msg \/ \E j \in DOMAIN recvChan : recvChan'[i] = recvChan[j]
        /\ \A i \in DOMAIN loop'.blocked : loop'.blocked[i] = msg
    BY DEF Post
  <1> QED
    BY <1>4, <1>5 DEF Events

\* The messages the dialer posts are typed.
LEMMA MessageTypes ==
  ASSUME NEW d \in ConnIds
  PROVE  /\ CloseMsg(d) \in ConnEvent /\ CloseMsg(d).event = "Close"
         /\ OpenMsg(d) \in ConnEvent /\ OpenMsg(d).event = "Open" /\ OpenMsg(d).conn = d
         /\ DialErrorMsg(d) \in ConnEvent /\ DialErrorMsg(d).event = "DialError"
         /\ DialErrorMsg(d).conn = d
  BY DEF CloseMsg, OpenMsg, DialErrorMsg, ConnEvent

LEMMA DataType ==
  ASSUME NEW d \in ConnIds, NEW p \in DownPkt
  PROVE  DataMsg(d, <<p>>) \in ConnEvent /\ DataMsg(d, <<p>>).event = "Data"
  BY DEF DataMsg, ConnEvent

\* What no step of the dialer, and no AsyncDial, undoes.
DialsKept ==
  /\ DOMAIN dials \subseteq DOMAIN dials'
  /\ \A d \in DOMAIN dials :
       /\ dials'[d].token = dials[d].token
       /\ conns[d].st # "new" => conns'[d].st # "new"
       /\ dials[d].pc = "done" =>
            dials'[d].pc = "done" /\ (conns[d].st = "new" => conns'[d].st = "new")

DialerStepOK == DialerInv' /\ DialsKept /\ DOMAIN dials' = DOMAIN dials

\* EventTrue in the next state.
TrueNext(msg) ==
  /\ msg.event = "Open" => msg.conn \in DOMAIN dials' /\ conns'[msg.conn].st # "new"
  /\ msg.event = "DialError" =>
       /\ msg.conn \in DOMAIN dials'
       /\ dials'[msg.conn].pc = "done" /\ conns'[msg.conn].st = "new"

\* Events stay true, and so does what is added to them if it is true.
LEMMA EventsKept ==
  ASSUME EventsTrue, DialsKept, NEW msg, TrueNext(msg), Events' \subseteq Events \cup {msg}
  PROVE  EventsTrue'
  <1>1. ASSUME NEW m \in Events PROVE TrueNext(m)
    <2>1. EventTrue(m)
      BY <1>1 DEF EventsTrue
    <2> QED
      BY <2>1 DEF EventTrue, TrueNext, DialsKept
  <1>2. \A m \in Events' : TrueNext(m)
    BY <1>1
  <1> QED
    BY <1>2 DEF EventsTrue, EventTrue, TrueNext

\* Events only go.
LEMMA EventsGo ==
  ASSUME EventsTrue, DialsKept, Events' \subseteq Events
  PROVE  EventsTrue'
  <1> DEFINE m == [event |-> "Close"]
  <1>1. m.event # "Open" /\ m.event # "DialError"
    OBVIOUS
  <1>2. Events' \subseteq Events \cup {m}
    OBVIOUS
  <1> HIDE DEF m
  <1>3. TrueNext(m)
    BY <1>1 DEF TrueNext
  <1> QED
    BY <1>2, <1>3, EventsKept

\* A step of one dial that leaves the connections.
LEMMA DialMovesOK ==
  ASSUME DialerInv, NEW d \in DOMAIN dials, NEW pc \in DialPC, dials' = DialAt(d, pc),
         dials[d].pc # "done", pc \in {"spawned", "dialing", "failed", "enrolling"} => conns[d].st = "new",
         pc # "opened", UNCHANGED conns
  PROVE  /\ DialsMoved(d, pc) /\ DialsKept /\ DOMAIN dials' = DOMAIN dials
         /\ DialsAgree'
  <1>1. DialsMoved(d, pc)
    BY DialMoves DEF DialerInv, DialerTypeOK
  <1>2. DialsKept
    BY <1>1 DEF DialsMoved, DialsKept
  <1>3. DialsAgree'
    <2>1. ASSUME NEW e \in DOMAIN dials
          PROVE  /\ dials'[e].pc \in {"spawned", "dialing", "failed", "enrolling"} => conns'[e].st = "new"
                 /\ dials'[e].pc = "opened" => conns'[e].st # "new"
      <3>1. CASE e = d
        BY <1>1, <3>1 DEF DialsMoved, DialerInv, DialsAgree
      <3>2. CASE e # d
        BY <1>1, <3>2 DEF DialsMoved, DialerInv, DialsAgree
      <3> QED
        BY <3>1, <3>2
    <2> QED
      BY <1>1, <2>1 DEF DialsAgree, DialsMoved
  <1> QED
    BY <1>1, <1>2, <1>3 DEF DialsMoved

\* A step of a dial goroutine.
LEMMA DialStepOK ==
  ASSUME ClientAssumption, DialerInv, NEW d \in DOMAIN dials, DialStep(d)
  PROVE  DialerStepOK
  <1>0. /\ DialerTypeOK /\ DialsAgree /\ EventsTrue
        /\ DOMAIN conns = DOMAIN dials /\ d \in ConnIds
    BY DomainsEqual DEF DialerInv
  <1>1. CASE AcquireSem(d)
    <2>1. /\ dials' = DialAt(d, "dialing") /\ dials[d].pc = "spawned"
          /\ UNCHANGED <<conns, tasks, loop, recvChan, dialResultChan>>
          /\ dialSem' \in Int
      BY <1>0, <1>1 DEF AcquireSem, DialerTypeOK
    <2>2. conns[d].st = "new"
      BY <1>0, <2>1 DEF DialsAgree
    <2>3. DialsMoved(d, "dialing") /\ DialsKept /\ DOMAIN dials' = DOMAIN dials /\ DialsAgree'
      BY <2>1, <2>2, DialMovesOK DEF DialPC
    <2>4. DialerTypeOK'
      BY <1>0, <2>1, <2>3 DEF DialerTypeOK, DialsMoved
    <2>5. EventsTrue'
      BY <1>0, <2>1, <2>3, EventsGo DEF Events
    <2> QED
      BY <2>3, <2>4, <2>5 DEF DialerStepOK, DialerInv
  <1>2. CASE DialFinishes(d)
    <2>1. PICK pc \in {"enrolling", "failed"} : dials' = DialAt(d, pc)
      BY <1>2 DEF DialFinishes
    <2>2. /\ dials[d].pc = "dialing"
          /\ UNCHANGED <<conns, dialSem, tasks, loop, recvChan, dialResultChan>>
      BY <1>2 DEF DialFinishes
    <2>3. conns[d].st = "new"
      BY <1>0, <2>2 DEF DialsAgree
    <2>4. DialsMoved(d, pc) /\ DialsKept /\ DOMAIN dials' = DOMAIN dials /\ DialsAgree'
      BY <2>1, <2>2, <2>3, DialMovesOK DEF DialPC
    <2>5. DialerTypeOK'
      BY <1>0, <2>2, <2>4 DEF DialerTypeOK, DialsMoved
    <2>6. EventsTrue'
      BY <1>0, <2>2, <2>4, EventsGo DEF Events
    <2> QED
      BY <2>4, <2>5, <2>6 DEF DialerStepOK, DialerInv
  <1>3. CASE DialReports(d)
    <2>1. /\ dials' = DialAt(d, "done")
          /\ dials[d].pc \in {"failed", "opened"}
          /\ UNCHANGED <<conns, tasks, loop, dialResultChan>>
          /\ dialSem' \in Int
      BY <1>0, <1>3 DEF DialReports, SemRelease, ClientAssumption, DialerTypeOK
    <2>2. DialsMoved(d, "done") /\ DialsKept /\ DOMAIN dials' = DOMAIN dials /\ DialsAgree'
      BY <2>1, DialMovesOK DEF DialPC
    <2>3. CASE dials[d].pc = "failed"
      <3>1. recvChan' = Append(recvChan, DialErrorMsg(d))
        BY <1>3, <2>3 DEF DialReports, ClientAssumption
      <3>2. DialErrorMsg(d) \in ConnEvent
        BY <1>0, MessageTypes
      <3>3. recvChan' \in Seq(ConnEvent)
        BY <1>0, <3>1, <3>2 DEF DialerTypeOK
      <3>4. Events' \subseteq Events \cup {DialErrorMsg(d)}
        BY <1>0, <2>1, <3>1, <3>2 DEF Events, DialerTypeOK
      <3>5. conns'[d].st = "new" /\ dials'[d].pc = "done"
        BY <1>0, <2>1, <2>2, <2>3 DEF DialsAgree, DialsMoved
      <3>6. TrueNext(DialErrorMsg(d))
        BY <1>0, <2>2, <3>5, MessageTypes DEF TrueNext
      <3>7. EventsTrue'
        BY <1>0, <2>2, <3>4, <3>6, EventsKept
      <3>8. DialerTypeOK'
        BY <1>0, <2>1, <2>2, <3>3 DEF DialerTypeOK, DialsMoved
      <3> QED
        BY <2>2, <3>7, <3>8 DEF DialerStepOK, DialerInv
    <2>4. CASE dials[d].pc # "failed"
      <3>1. recvChan' = recvChan
        BY <1>3, <2>4 DEF DialReports, ClientAssumption
      <3>2. EventsTrue'
        BY <1>0, <2>1, <2>2, <3>1, EventsGo DEF Events
      <3>3. DialerTypeOK'
        BY <1>0, <2>1, <2>2, <3>1 DEF DialerTypeOK, DialsMoved
      <3> QED
        BY <2>2, <3>2, <3>3 DEF DialerStepOK, DialerInv
    <2> QED
      BY <2>3, <2>4
  <1> QED
    BY <1>1, <1>2, <1>3 DEF DialStep

\* A step that keeps the connections, and whose new event, if any, needs
\* nothing to be true.
LEMMA ConnsStepOK ==
  ASSUME DialerInv, ConnsKept, UNCHANGED <<dials, dialSem, dialResultChan>>,
         tasks' \in Seq(Task), loop' \in Loop, recvChan' \in Seq(ConnEvent),
         NEW msg, msg.event \in {"Data", "Close"}, Events' \subseteq Events \cup {msg}
  PROVE  DialerStepOK
  <1>1. DOMAIN conns = DOMAIN dials
    BY DomainsEqual DEF DialerInv
  <1>2. DialerTypeOK'
    BY DEF DialerInv, DialerTypeOK, ConnsKept
  <1>3. DialsKept
    BY <1>1 DEF DialsKept, ConnsKept
  <1>4. DialsAgree'
    BY <1>1 DEF DialerInv, DialsAgree, ConnsKept
  <1>5. EventsTrue'
    BY <1>3, EventsKept DEF DialerInv, TrueNext
  <1> QED
    BY <1>2, <1>3, <1>4, <1>5 DEF DialerStepOK, DialerInv

\* A step that leaves dials and conns alone and posts nothing.
LEMMA QueuesStepOK ==
  ASSUME DialerInv, UNCHANGED <<dials, conns, dialSem, dialResultChan>>,
         tasks' \in Seq(Task), loop' \in Loop, recvChan' \in Seq(ConnEvent),
         Events' \subseteq Events
  PROVE  DialerStepOK
  <1>1. DialsKept
    BY DEF DialsKept
  <1>2. EventsTrue'
    BY <1>1, EventsGo DEF DialerInv
  <1> QED
    BY <1>1, <1>2 DEF DialerInv, DialerTypeOK, DialsAgree, DialerStepOK

\* Traffic from, and closing by, a server.
LEMMA PeerStepOK ==
  ASSUME DialerInv, NEW d \in DOMAIN dials, PeerStep(d)
  PROVE  DialerStepOK
  <1>0. /\ d \in DOMAIN conns /\ d \in ConnIds
        /\ conns \in Seq(Conn) /\ recvChan \in Seq(ConnEvent) /\ tasks \in Seq(Task)
    BY DomainsEqual DEF DialerInv, DialerTypeOK
  <1>1. CASE OnTraffic(d)
    <2> DEFINE p == [conn |-> d, seq |-> conns[d].in + 1]
    <2>1. p \in DownPkt
      BY <1>0, ConnFields DEF DownPkt
    <2>2. /\ conns' = ConnRead(d)
          /\ Post(DataMsg(d, <<p>>), NoConn)
          /\ UNCHANGED <<dials, dialSem, tasks, dialResultChan>>
      BY <1>1 DEF OnTraffic
    <2> HIDE DEF p
    <2>3. DataMsg(d, <<p>>) \in ConnEvent /\ DataMsg(d, <<p>>).event = "Data"
      BY <1>0, <2>1, DataType
    <2> DEFINE m == DataMsg(d, <<p>>)
    <2>4. m \in ConnEvent /\ m.event = "Data" /\ Post(m, NoConn)
      BY <2>2, <2>3
    <2> HIDE DEF m
    <2>5. /\ loop' \in Loop /\ recvChan' \in Seq(ConnEvent)
          /\ Events' \subseteq Events \cup {m}
      BY <1>0, <2>4, PostOK DEF NoConn
    <2>6. ConnsKept
      BY <1>0, <2>2, ConnReadKeeps
    <2> QED
      BY <1>0, <2>2, <2>4, <2>5, <2>6, ConnsStepOK
  <1>2. CASE PeerCloses(d)
    <2>1. /\ conns' = ConnAt(d, "closed") /\ conns[d].st = "open"
          /\ Post(CloseMsg(d), NoConn)
          /\ UNCHANGED <<dials, dialSem, tasks, dialResultChan>>
      BY <1>2 DEF PeerCloses
    <2>2. /\ loop' \in Loop /\ recvChan' \in Seq(ConnEvent)
          /\ Events' \subseteq Events \cup {CloseMsg(d)}
      BY <1>0, <2>1, MessageTypes, PostOK DEF NoConn
    <2>3. ConnsKept
      BY <1>0, <2>1, ConnAtKeeps
    <2> QED
      BY <1>0, <2>1, <2>2, <2>3, MessageTypes, ConnsStepOK
  <1> QED
    BY <1>1, <1>2 DEF PeerStep

\* What a queued task names is typed.
LEMMA TaskFields ==
  ASSUME NEW t \in Task
  PROVE  t.conn \in ConnIds /\ (t.op = "write" => t.payload \in Packet)
  BY DEF Task

\* The loop's own steps.
LEMMA LoopStepOK ==
  ASSUME DialerInv, LoopStep
  PROVE  DialerStepOK
  <1>0. /\ conns \in Seq(Conn) /\ recvChan \in Seq(ConnEvent)
        /\ tasks \in Seq(Task) /\ loop \in Loop
    BY DEF DialerInv, DialerTypeOK
  <1>1. CASE LoopUnblocks
    <2>1. loop.blocked \in Seq(ConnEvent) /\ loop.failed \in Nat
      BY <1>0 DEF Loop
    <2>2. Head(loop.blocked) \in ConnEvent /\ Head(loop.blocked) = loop.blocked[1]
          /\ 1 \in DOMAIN loop.blocked
      BY <1>1, <2>1 DEF LoopUnblocks
    <2>3. recvChan' = Append(recvChan, Head(loop.blocked)) /\ recvChan' \in Seq(ConnEvent)
      BY <1>0, <1>1, <2>2 DEF LoopUnblocks
    <2>4. loop' = [blocked |-> <<>>, failed |-> loop.failed] /\ loop' \in Loop
      BY <1>1, <2>1 DEF Loop, LoopUnblocks
    <2>5. Events' \subseteq Events
      BY <1>0, <2>2, <2>3, <2>4 DEF Events
    <2> QED
      BY <1>0, <1>1, <2>3, <2>4, <2>5, QueuesStepOK DEF LoopUnblocks
  <1>2. CASE RunWrite
    <2> DEFINE d == Head(tasks).conn
    <2>1. Head(tasks) \in Task /\ Tail(tasks) \in Seq(Task) /\ Head(tasks).op = "write"
      BY <1>0, <1>2 DEF RunWrite
    <2>2. d \in ConnIds /\ Head(tasks).payload \in Packet
      BY <2>1, TaskFields
    <2>3. [blocked |-> <<>>, failed |-> d] \in Loop
      BY <2>2 DEF Loop, ConnIds
    <2>4. /\ tasks' \in Seq(Task)
          /\ UNCHANGED <<dials, dialSem, dialResultChan>>
      BY <1>2, <2>1 DEF RunWrite
    <2>5. CASE /\ conns' = ConnWritten(d, Head(tasks).payload)
               /\ UNCHANGED <<loop, recvChan>>
      <3>1. ConnsKept
        BY <1>0, <2>2, <2>5, ConnWrittenKeeps
      <3> QED
        BY <1>0, <2>2, <2>4, <2>5, <3>1, MessageTypes, ConnsStepOK DEF Events
    <2>6. CASE /\ conns[d].st = "open"
               /\ conns' = ConnAt(d, "closed")
               /\ Post(CloseMsg(d), d)
      <3>1. /\ loop' \in Loop /\ recvChan' \in Seq(ConnEvent)
            /\ Events' \subseteq Events \cup {CloseMsg(d)}
        BY <1>0, <2>2, <2>6, MessageTypes, PostOK DEF ConnIds
      <3>2. ConnsKept
        BY <1>0, <2>6, ConnAtKeeps
      <3> QED
        BY <1>0, <2>2, <2>4, <2>6, <3>1, <3>2, MessageTypes, ConnsStepOK
    <2>7. CASE /\ loop' = [blocked |-> <<>>, failed |-> d]
               /\ UNCHANGED <<conns, recvChan>>
      <3>1. Events' \subseteq Events
        BY <1>0, <2>7 DEF Events
      <3> QED
        BY <1>0, <2>3, <2>4, <2>7, <3>1, QueuesStepOK
    <2> QED
      BY <1>2, <2>5, <2>6, <2>7 DEF RunWrite
  <1>3. CASE RunClose
    <2> DEFINE d == Head(tasks).conn
    <2>1. Head(tasks) \in Task /\ Tail(tasks) \in Seq(Task)
      BY <1>0, <1>3 DEF RunClose
    <2>2. d \in ConnIds
      BY <2>1, TaskFields
    <2>3. /\ tasks' \in Seq(Task)
          /\ UNCHANGED <<dials, dialSem, dialResultChan>>
      BY <1>3, <2>1 DEF RunClose
    <2>4. CASE /\ conns[d].st = "open"
               /\ conns' = ConnAt(d, "closed")
               /\ Post(CloseMsg(d), NoConn)
      <3>1. /\ loop' \in Loop /\ recvChan' \in Seq(ConnEvent)
            /\ Events' \subseteq Events \cup {CloseMsg(d)}
        BY <1>0, <2>2, <2>4, MessageTypes, PostOK DEF NoConn
      <3>2. ConnsKept
        BY <1>0, <2>4, ConnAtKeeps
      <3> QED
        BY <1>0, <2>2, <2>3, <2>4, <3>1, <3>2, MessageTypes, ConnsStepOK
    <2>5. CASE UNCHANGED <<conns, loop, recvChan>>
      BY <1>0, <2>3, <2>5, QueuesStepOK DEF Events
    <2> QED
      BY <1>3, <2>4, <2>5 DEF RunClose
  <1> QED
    BY <1>1, <1>2, <1>3 DEF LoopStep

\* The end of a failed write.
LEMMA WriteErrorOK ==
  ASSUME DialerInv, WriteErrorDone(<<>>)
  PROVE  DialerStepOK
  <1>1. tasks' \in Seq(Task) /\ loop' = [blocked |-> <<>>, failed |-> NoConn]
    BY DEF WriteErrorDone, DialerInv, DialerTypeOK
  <1>2. loop' \in Loop
    BY <1>1 DEF Loop, NoConn
  <1>3. Events' \subseteq Events
    BY <1>1 DEF Events, WriteErrorDone
  <1> QED
    BY <1>1, <1>2, <1>3, QueuesStepOK DEF WriteErrorDone, DialerInv, DialerTypeOK

\* OnOpen: the connection of dial d, and no other, comes into being.
LEMMA OnOpenOK ==
  ASSUME DialerInv, NEW d \in DOMAIN dials, OnOpenPosted(d)
  PROVE  DialerStepOK
  <1>0. /\ conns \in Seq(Conn) /\ recvChan \in Seq(ConnEvent)
        /\ dials \in Seq(Dial) /\ DOMAIN conns = DOMAIN dials /\ d \in ConnIds
    BY DomainsEqual DEF DialerInv, DialerTypeOK
  <1>1. /\ dials[d].pc = "enrolling"
        /\ dials' = DialAt(d, "opened")
        /\ conns' = ConnAt(d, "open")
        /\ Post(OpenMsg(d), NoConn)
        /\ UNCHANGED <<dialSem, tasks, dialResultChan>>
    BY DEF OnOpenPosted
  <1>2. DialsMoved(d, "opened")
    BY <1>0, <1>1, DialMoves DEF DialPC
  <1>3. /\ conns' \in Seq(Conn) /\ Len(conns') = Len(conns)
        /\ conns'[d].st = "open"
        /\ \A e \in DOMAIN conns : e # d => conns'[e] = conns[e]
    BY <1>0, <1>1, ConnFields, ConnUpdate DEF ConnAt
  <1>4. /\ loop' \in Loop /\ recvChan' \in Seq(ConnEvent)
        /\ Events' \subseteq Events \cup {OpenMsg(d)}
    BY <1>0, <1>1, MessageTypes, PostOK DEF NoConn
  <1>5. DialerTypeOK'
    BY <1>1, <1>2, <1>3, <1>4 DEF DialerInv, DialerTypeOK, DialsMoved
  <1>6. DialsKept /\ DOMAIN dials' = DOMAIN dials
    BY <1>0, <1>1, <1>2, <1>3 DEF DialsMoved, DialsKept
  <1>7. DialsAgree'
    BY <1>0, <1>2, <1>3 DEF DialerInv, DialsAgree, DialsMoved
  <1>8. TrueNext(OpenMsg(d))
    BY <1>0, <1>3, <1>6, MessageTypes DEF TrueNext
  <1>9. EventsTrue'
    BY <1>4, <1>6, <1>8, EventsKept DEF DialerInv
  <1> QED
    BY <1>5, <1>6, <1>7, <1>9 DEF DialerStepOK, DialerInv

\* AsyncDial: one more dial, without a connection yet.
LEMMA AsyncDialOK ==
  ASSUME DialerInv, NEW token \in Token, AsyncDial(token)
  PROVE  /\ DialerInv' /\ DialsKept
         /\ DOMAIN dials' = DOMAIN dials \cup {Len(dials) + 1}
         /\ Len(dials) + 1 \notin DOMAIN dials
         /\ dials'[Len(dials) + 1].token = token
         /\ dials'[Len(dials) + 1].pc = "spawned"
         /\ conns'[Len(dials) + 1] = NewConn
         /\ \A e \in DOMAIN dials : dials'[e] = dials[e] /\ conns'[e] = conns[e]
  <1> DEFINE dl == [token |-> token, pc |-> "spawned"]
  <1>0. /\ conns \in Seq(Conn) /\ dials \in Seq(Dial)
        /\ DOMAIN conns = DOMAIN dials /\ Len(conns) = Len(dials)
    BY DomainsEqual DEF DialerInv, DialerTypeOK
  <1>1. dl \in Dial /\ dl.pc = "spawned" /\ dl.token = token
    BY DEF Dial, DialPC
  <1>2. NewConn \in Conn /\ NewConn.st = "new"
    BY DEF NewConn, Conn
  <1>3. /\ dials' = Append(dials, dl)
        /\ conns' = Append(conns, NewConn)
        /\ UNCHANGED <<dialSem, tasks, loop, recvChan, dialResultChan>>
    BY DEF AsyncDial
  <1> HIDE DEF dl
  <1>4. DialerTypeOK'
    BY <1>0, <1>1, <1>2, <1>3 DEF DialerInv, DialerTypeOK
  <1>5. /\ DOMAIN dials' = DOMAIN dials \cup {Len(dials) + 1}
        /\ Len(dials) + 1 \notin DOMAIN dials
        /\ dials'[Len(dials) + 1] = dl
        /\ \A e \in DOMAIN dials : dials'[e] = dials[e]
    BY <1>0, <1>1, <1>3
  <1>6. /\ conns'[Len(dials) + 1] = NewConn
        /\ \A e \in DOMAIN dials : conns'[e] = conns[e]
    BY <1>0, <1>2, <1>3
  <1>7. DialsKept
    BY <1>5, <1>6 DEF DialsKept
  <1>8. DialsAgree'
    <2>1. ASSUME NEW e \in DOMAIN dials'
          PROVE  /\ dials'[e].pc \in {"spawned", "dialing", "failed", "enrolling"} => conns'[e].st = "new"
                 /\ dials'[e].pc = "opened" => conns'[e].st # "new"
      <3>1. CASE e \in DOMAIN dials
        <4>1. dials'[e] = dials[e] /\ conns'[e] = conns[e]
          BY <1>5, <1>6, <3>1
        <4> QED
          BY <3>1, <4>1 DEF DialerInv, DialsAgree
      <3>2. CASE e = Len(dials) + 1
        <4>1. dials'[e].pc = "spawned" /\ conns'[e].st = "new"
          BY <1>1, <1>2, <1>5, <1>6, <3>2
        <4> QED
          BY <4>1
      <3> QED
        BY <1>5, <3>1, <3>2
    <2> QED
      BY <2>1 DEF DialsAgree
  <1>9. EventsTrue'
    BY <1>3, <1>7, EventsGo DEF DialerInv, Events
  <1> QED
    BY <1>1, <1>4, <1>5, <1>6, <1>7, <1>8, <1>9 DEF DialerInv

\* Nothing the dialer has changes.
LEMMA DialerSame ==
  ASSUME DialerInv, UNCHANGED dialerVars
  PROVE  DialerStepOK
  <1>1. UNCHANGED <<dials, conns, dialSem, tasks, loop, recvChan, dialResultChan>>
    BY DEF dialerVars
  <1>2. Events' \subseteq Events
    BY <1>1 DEF Events
  <1> QED
    BY <1>1, <1>2, QueuesStepOK DEF DialerInv, DialerTypeOK

\* A task queued.
LEMMA TaskQueuedOK ==
  ASSUME DialerInv, NEW t \in Task, tasks' = Append(tasks, t),
         UNCHANGED <<dials, conns, dialSem, loop, recvChan, dialResultChan>>
  PROVE  DialerStepOK
  <1>1. tasks' \in Seq(Task)
    BY DEF DialerInv, DialerTypeOK
  <1>2. Events' \subseteq Events
    BY DEF Events
  <1> QED
    BY <1>1, <1>2, QueuesStepOK DEF DialerInv, DialerTypeOK

\* An event consumed.
LEMMA EventTakenOK ==
  ASSUME DialerInv, recvChan # <<>>, recvChan' = Tail(recvChan),
         UNCHANGED <<dials, conns, dialSem, tasks, loop, dialResultChan>>
  PROVE  DialerStepOK
  <1>1. recvChan' \in Seq(ConnEvent)
    BY DEF DialerInv, DialerTypeOK
  <1>2. \A i \in DOMAIN recvChan' : i + 1 \in DOMAIN recvChan /\ recvChan'[i] = recvChan[i + 1]
    BY DEF DialerInv, DialerTypeOK
  <1>3. Events' \subseteq Events
    BY <1>2 DEF Events
  <1> QED
    BY <1>1, <1>3, QueuesStepOK DEF DialerInv, DialerTypeOK

(***************************************************************************)
(* The session table                                                       *)
(***************************************************************************)

\* What an update of sess may do to session s.
SessShape(s, serverConn, dialing) ==
  /\ sess' \in Seq(Session)
  /\ DOMAIN sess' = DOMAIN sess
  /\ sess'[s].serverConn = serverConn
  /\ sess'[s].dialing = dialing
  /\ \A t \in DOMAIN sess : t # s => sess'[t] = sess[t]

\* The fields of a session are typed.
LEMMA SessFields ==
  ASSUME sess \in Seq(Session), NEW s \in DOMAIN sess
  PROVE  /\ sess[s].cached \in BOOLEAN
         /\ sess[s].serverConn \in Nat
         /\ sess[s].dialing \in BOOLEAN
         /\ sess[s].pending \in Seq(Packet)
  <1>1. sess[s] \in Session
    BY ElementOfSeq
  <1> QED
    BY <1>1 DEF Session

\* Queueing a packet leaves the connection and the dialing flag.
LEMMA SessQueuedShape ==
  ASSUME sess \in Seq(Session), NEW s \in DOMAIN sess, NEW p \in Packet,
         sess' = SessQueued(s, p)
  PROVE  /\ SessShape(s, sess[s].serverConn, sess[s].dialing)
         /\ sess'[s].pending = Append(sess[s].pending, p)
  <1> DEFINE q == Append(sess[s].pending, p)
             r == [cached |-> sess[s].cached, serverConn |-> sess[s].serverConn,
                   dialing |-> sess[s].dialing, pending |-> q]
  <1>1. q \in Seq(Packet)
    BY SessFields
  <1>2. sess' = [sess EXCEPT ![s] = r]
    BY DEF SessQueued
  <1>3. /\ r \in Session /\ r.serverConn = sess[s].serverConn
        /\ r.dialing = sess[s].dialing /\ r.pending = q
    <2> HIDE DEF q
    <2> QED
      BY <1>1, SessFields DEF Session
  <1> HIDE DEF r
  <1> QED
    BY <1>2, <1>3, EntryReplaced DEF SessShape

\* A session made ready is bound, and has nothing pending.
LEMMA SessReadyShape ==
  ASSUME sess \in Seq(Session), NEW s \in DOMAIN sess, NEW d \in Nat,
         sess' = SessReady(s, d)
  PROVE  SessShape(s, d, FALSE) /\ sess'[s].pending = <<>>
  <1> DEFINE r == [cached |-> sess[s].cached, serverConn |-> d,
                   dialing |-> FALSE, pending |-> <<>>]
  <1>1. <<>> \in Seq(Packet)
    OBVIOUS
  <1>2. sess' = [sess EXCEPT ![s] = r]
    BY DEF SessReady
  <1>3. r \in Session /\ r.serverConn = d /\ ~r.dialing /\ r.pending = <<>>
    BY <1>1, SessFields DEF Session
  <1>4. r.dialing = FALSE
    OBVIOUS
  <1> HIDE DEF r
  <1> QED
    BY <1>2, <1>3, <1>4, EntryReplaced DEF SessShape

\* Sessions and routes that only go, while dials stay, keep the invariant;
\* all but the agreement of the maps, which each removal sees to itself.
LEMMA Shrinks ==
  ASSUME DialerInv, TableInv, DialerStepOK, UNCHANGED sess,
         DOMAIN byUser' \subseteq DOMAIN byUser,
         \A u \in DOMAIN byUser' : byUser'[u] = byUser[u],
         DOMAIN byServer' \subseteq DOMAIN byServer,
         \A d \in DOMAIN byServer' : byServer'[d] = byServer[d],
         RouteConsistent'
  PROVE  TableInv'
  <1>0. DialsKept /\ DOMAIN dials' = DOMAIN dials
    BY DEF DialerStepOK
  <1>1. DOMAIN conns' = DOMAIN conns
    BY <1>0, DomainsEqual DEF DialerStepOK, DialerInv, DialerTypeOK
  <1>2. TableTypeOK'
    BY <1>1 DEF TableInv, TableTypeOK
  <1>3. ReadyMeansBound' /\ OwnSession'
    BY DEF TableInv, ReadyMeansBound, OwnSession
  <1>4. DialsDistinct'
    BY <1>0 DEF TableInv, DialsDistinct, DialsKept
  <1>5. BoundByOwnDial'
    BY <1>0 DEF TableInv, BoundByOwnDial, DialsKept
  <1> QED
    BY <1>2, <1>3, <1>4, <1>5 DEF TableInv

\* The tables untouched.
LEMMA TablesSame ==
  ASSUME DialerInv, TableInv, DialerStepOK, UNCHANGED tableVars
  PROVE  TableInv'
  <1>1. UNCHANGED <<byUser, byServer, sess>>
    BY DEF tableVars
  <1>2. RouteConsistent'
    BY <1>1 DEF RouteConsistent, TableInv
  <1> QED
    BY <1>1, <1>2, Shrinks

\* No connection is NoConn.
LEMMA RoutesReal ==
  ASSUME DialerInv, TableInv
  PROVE  NoConn \notin DOMAIN byServer
  BY DomainsEqual DEF DialerInv, TableInv, TableTypeOK

\* purgeByUser removes the session and its route together.
LEMMA PurgeByUserOK ==
  ASSUME DialerInv, TableInv, NEW u, PurgeByUser(u), DialerStepOK, UNCHANGED sess
  PROVE  TableInv'
  <1>1. /\ DOMAIN byUser' = DOMAIN byUser \ {u}
        /\ \A v \in DOMAIN byUser' : byUser'[v] = byUser[v]
    BY DEF PurgeByUser, Delete
  <1>2. /\ DOMAIN byServer' = {d \in DOMAIN byServer : byServer[d] # u}
        /\ \A d \in DOMAIN byServer' : byServer'[d] = byServer[d]
    <2>1. CASE u \in DOMAIN byUser
      <3>1. byServer' = Delete(byServer, sess[byUser[u]].serverConn)
        BY <2>1 DEF PurgeByUser
      <3>2. \A d \in DOMAIN byServer :
              byServer[d] = u <=> d = sess[byUser[u]].serverConn
        <4>1. ASSUME NEW d \in DOMAIN byServer, byServer[d] = u
              PROVE  d = sess[byUser[u]].serverConn
          BY <4>1 DEF TableInv, RouteConsistent
        <4>2. ASSUME NEW d \in DOMAIN byServer, d = sess[byUser[u]].serverConn, d # NoConn
              PROVE  byServer[d] = u
          BY <2>1, <4>2 DEF TableInv, RouteConsistent
        <4> QED
          BY <4>1, <4>2, RoutesReal
      <3> QED
        BY <3>1, <3>2 DEF Delete
    <2>2. CASE u \notin DOMAIN byUser
      BY <2>2 DEF PurgeByUser, TableInv, RouteConsistent
    <2> QED
      BY <2>1, <2>2
  <1>3. RouteConsistent'
    BY <1>1, <1>2 DEF RouteConsistent, TableInv
  <1> QED
    BY <1>1, <1>2, <1>3, Shrinks

\* purgeByServer removes the route and, it being the session's, the session.
LEMMA PurgeByServerOK ==
  ASSUME DialerInv, TableInv, NEW d, PurgeByServer(d), DialerStepOK, UNCHANGED sess
  PROVE  TableInv'
  <1>1. /\ DOMAIN byUser' = DOMAIN byUser \ PurgedUser(d)
        /\ \A u \in DOMAIN byUser' : byUser'[u] = byUser[u]
    BY DEF PurgeByServer
  <1>2. /\ DOMAIN byServer' = DOMAIN byServer \ {d}
        /\ \A e \in DOMAIN byServer' : byServer'[e] = byServer[e]
    BY DEF PurgeByServer, Delete
  <1>3. RouteConsistent'
    <2>1. \A e \in DOMAIN byServer' :
            /\ byServer'[e] \in DOMAIN byUser'
            /\ sess'[byUser'[byServer'[e]]].serverConn = e
      BY <1>1, <1>2 DEF RouteConsistent, PurgedUser, TableInv
    <2>2. \A u \in DOMAIN byUser' :
            sess'[byUser'[u]].serverConn # NoConn =>
              /\ sess'[byUser'[u]].serverConn \in DOMAIN byServer'
              /\ byServer'[sess'[byUser'[u]].serverConn] = u
      BY <1>1, <1>2 DEF RouteConsistent, PurgedUser, TableInv
    <2> QED
      BY <2>1, <2>2 DEF RouteConsistent
  <1> QED
    BY <1>1, <1>2, <1>3, Shrinks

\* Taking the failed dial's session away takes no route: the session was
\* never bound, its own dial being the one that failed.
LEMMA AbortDialOK ==
  ASSUME DialerInv, TableInv, NEW d \in DOMAIN dials, conns[d].st = "new",
         Current(dials[d].token), AbortDial(dials[d].token.user),
         DialerStepOK, UNCHANGED <<sess, byServer>>
  PROVE  TableInv'
  <1> DEFINE u == dials[d].token.user
  <1>1. /\ DOMAIN byUser' = DOMAIN byUser \ {u}
        /\ \A v \in DOMAIN byUser' : byUser'[v] = byUser[v]
    BY DEF AbortDial, Delete
  <1>2. u \in DOMAIN byUser /\ byUser[u] = dials[d].token.session
    BY DEF Current
  <1>3. sess[byUser[u]].serverConn = NoConn
    <2>1. byUser[u] \in DOMAIN sess
      BY <1>2 DEF TableInv, DialsDistinct
    <2> QED
      BY <1>2, <2>1 DEF TableInv, BoundByOwnDial, DialsDistinct
  <1>4. \A e \in DOMAIN byServer : byServer[e] # u
    BY <1>3, RoutesReal DEF RouteConsistent, TableInv
  <1>5. RouteConsistent'
    BY <1>1, <1>4 DEF RouteConsistent, TableInv
  <1> QED
    BY <1>1, <1>5, Shrinks

\* A packet queued with a session.
LEMMA SessionQueuedOK ==
  ASSUME DialerInv, TableInv, NEW s \in DOMAIN sess,
         SessShape(s, sess[s].serverConn, sess[s].dialing),
         DialerStepOK, UNCHANGED <<byUser, byServer>>
  PROVE  TableInv'
  <1>0. DialsKept /\ DOMAIN dials' = DOMAIN dials
    BY DEF DialerStepOK
  <1>1. /\ DOMAIN sess' = DOMAIN sess /\ sess' \in Seq(Session)
        /\ \A t \in DOMAIN sess :
             sess'[t].serverConn = sess[t].serverConn /\ sess'[t].dialing = sess[t].dialing
    BY DEF SessShape
  <1>2. DOMAIN conns' = DOMAIN conns
    BY <1>0, DomainsEqual DEF DialerStepOK, DialerInv, DialerTypeOK
  <1>3. TableTypeOK'
    BY <1>1, <1>2 DEF TableInv, TableTypeOK
  <1>4. RouteConsistent'
    BY <1>1 DEF TableInv, TableTypeOK, RouteConsistent
  <1>5. ReadyMeansBound' /\ OwnSession'
    BY <1>1 DEF TableInv, ReadyMeansBound, OwnSession
  <1>6. DialsDistinct'
    BY <1>0, <1>1 DEF TableInv, DialsDistinct, DialsKept
  <1>7. BoundByOwnDial'
    BY <1>0, <1>1 DEF TableInv, BoundByOwnDial, DialsKept
  <1> QED
    BY <1>3, <1>4, <1>5, <1>6, <1>7 DEF TableInv

\* completeDial: the session was bound to nothing else, and nothing else to d.
LEMMA CompleteDialOK ==
  ASSUME DialerInv, TableInv, NEW d \in DOMAIN dials, conns[d].st # "new",
         Current(dials[d].token), CompleteDial(d, dials[d].token), DialerStepOK
  PROVE  TableInv' /\ SessShape(dials[d].token.session, d, FALSE)
  <1> DEFINE u == dials[d].token.user
             s == dials[d].token.session
  <1>0. DialsKept /\ DOMAIN dials' = DOMAIN dials /\ DOMAIN conns' = DOMAIN conns
        /\ DOMAIN conns = DOMAIN dials /\ d \in ConnIds
    BY DomainsEqual DEF DialerStepOK, DialerInv, DialerTypeOK
  <1>1. u \in DOMAIN byUser /\ byUser[u] = s /\ u \in Users
    BY DEF Current, TableInv, TableTypeOK
  <1>2. s \in DOMAIN sess /\ sess \in Seq(Session)
    BY DEF TableInv, DialsDistinct, TableTypeOK
  <1>3. SessShape(s, d, FALSE)
    BY <1>0, <1>2, SessReadyShape DEF CompleteDial, ConnIds
  <1>4. /\ DOMAIN byServer' = DOMAIN byServer \cup {d}
        /\ byServer'[d] = u
        /\ \A e \in DOMAIN byServer : e # d => byServer'[e] = byServer[e]
        /\ byUser' = byUser
    BY DEF CompleteDial, Put
  <1>5. sess[s].serverConn \in {NoConn, d}
    BY <1>2 DEF TableInv, BoundByOwnDial, DialsDistinct
  <1>6. \A t \in DOMAIN sess : t # s => sess[t].serverConn # d /\ sess'[t] = sess[t]
    BY <1>0, <1>3 DEF TableInv, BoundByOwnDial, DialsDistinct, SessShape, ConnIds
  <1>7. \A v \in DOMAIN byUser : byUser[v] \in DOMAIN sess /\ (v # u => byUser[v] # s)
    BY <1>1 DEF TableInv, TableTypeOK, OwnSession
  <1>8. DOMAIN sess' = DOMAIN sess /\ sess'[s].serverConn = d /\ ~sess'[s].dialing
    BY <1>3 DEF SessShape
  <1> HIDE DEF u, s
  <1>9. TableTypeOK'
    BY <1>0, <1>1, <1>3, <1>4, <1>7, <1>8 DEF TableInv, TableTypeOK, SessShape
  <1>10. RouteConsistent'
    <2>1. ASSUME NEW e \in DOMAIN byServer'
          PROVE  /\ byServer'[e] \in DOMAIN byUser'
                 /\ sess'[byUser'[byServer'[e]]].serverConn = e
      <3>1. CASE e # d
        <4>1. /\ byServer[e] \in DOMAIN byUser
              /\ sess[byUser[byServer[e]]].serverConn = e
          BY <1>4, <3>1 DEF TableInv, RouteConsistent
        <4>2. e # NoConn
          BY <1>4, <3>1, RoutesReal
        <4>3. byUser[byServer[e]] # s
          BY <1>5, <3>1, <4>1, <4>2
        <4> QED
          BY <1>4, <1>6, <1>7, <3>1, <4>1, <4>3
      <3>2. CASE e = d
        BY <1>1, <1>4, <1>8, <3>2
      <3> QED
        BY <3>1, <3>2
    <2>2. ASSUME NEW v \in DOMAIN byUser', sess'[byUser'[v]].serverConn # NoConn
          PROVE  /\ sess'[byUser'[v]].serverConn \in DOMAIN byServer'
                 /\ byServer'[sess'[byUser'[v]].serverConn] = v
      <3>1. CASE v = u
        BY <1>1, <1>4, <1>8, <3>1
      <3>2. CASE v # u
        BY <1>4, <1>6, <1>7, <2>2, <3>2 DEF TableInv, RouteConsistent
      <3> QED
        BY <3>1, <3>2
    <2> QED
      BY <2>1, <2>2 DEF RouteConsistent
  <1>11. ReadyMeansBound'
    <2>1. ReadyMeansBound
      BY DEF TableInv
    <2> QED
      BY <1>0, <1>2, <1>6, <1>8, <2>1 DEF ReadyMeansBound, ConnIds
  <1>12. OwnSession'
    BY <1>4 DEF TableInv, OwnSession
  <1>13. DialsDistinct'
    BY <1>0, <1>8 DEF TableInv, DialsDistinct, DialsKept
  <1>14. BoundByOwnDial'
    <2>1. BoundByOwnDial
      BY DEF TableInv
    <2> QED
      BY <1>0, <1>2, <1>6, <1>8, <2>1 DEF BoundByOwnDial, DialsKept, s
  <1> QED
    BY <1>3, <1>9, <1>10, <1>11, <1>12, <1>13, <1>14 DEF TableInv, s

(***************************************************************************)
(* The event loops of the users                                            *)
(***************************************************************************)

\* A loop that owes no dial after its step leaves the others' dials fresh.
LEMMA CallsStay ==
  ASSUME CallsFresh, NEW u \in Users, \A v \in Users : v # u => lp'[v] = lp[v],
         IF lp'[u].pc = "io" THEN Len(lp'[u].io) = 1 /\ Head(lp'[u].io).op # "dial"
                             ELSE lp'[u].io = <<>>,
         DialsKept, DOMAIN dials' = DOMAIN dials, DOMAIN sess \subseteq DOMAIN sess'
  PROVE  CallsFresh'
  <1>1. \A v \in Users : IF lp'[v].pc = "io" THEN Len(lp'[v].io) = 1 ELSE lp'[v].io = <<>>
    BY DEF CallsFresh
  <1>2. \A v \in Users : Owes(v)' => v # u /\ Owes(v) /\ OwedFor(v)' = OwedFor(v)
    BY DEF Owes, OwedFor
  <1>3. \A d \in DOMAIN dials' : dials'[d].token = dials[d].token
    BY DEF DialsKept
  <1> QED
    BY <1>1, <1>2, <1>3 DEF CallsFresh

\* So they do while every loop stays where it is.
LEMMA CallsSame ==
  ASSUME CallsFresh, UNCHANGED lp, DialsKept, DOMAIN dials' = DOMAIN dials,
         DOMAIN sess \subseteq DOMAIN sess'
  PROVE  CallsFresh'
  BY DEF CallsFresh, Owes, OwedFor, DialsKept

\* Steps that change nothing of the users.
LEMMA UsersSame ==
  ASSUME LoopInv, DialsKept, DOMAIN dials' = DOMAIN dials, UNCHANGED userVars,
         DOMAIN sess \subseteq DOMAIN sess'
  PROVE  LoopInv'
  <1>1. UNCHANGED <<ustate, uin, ubuf, tunnel, npkt, lp>>
    BY DEF userVars
  <1> QED
    BY <1>1, CallsSame DEF LoopInv, UserTypeOK, LookupHasData

\* The loop reads.
LEMMA UserTrafficOK ==
  ASSUME ClientAssumption, IInv, NEW u \in Users, UserTraffic(u)
  PROVE  IInv'
  <1>1. /\ lp[u].pc = "idle" /\ lp' = [lp EXCEPT ![u].pc = "lookup"]
        /\ UNCHANGED <<dialerVars, tableVars, ustate, tunnel, npkt, rcv, delivered>>
    BY DEF UserTraffic
  <1>2. PICK n \in ReadSizes : /\ uin' = [uin EXCEPT ![u] = @ + n]
                               /\ ubuf' = [ubuf EXCEPT ![u] = @ + n]
    BY DEF UserTraffic
  <1>3. n \in Nat \ {0}
    BY DEF ClientAssumption
  <1>4. DialerStepOK
    BY <1>1, DialerSame DEF IInv
  <1>5. TableInv'
    BY <1>1, <1>4, TablesSame DEF IInv
  <1>6. UserTypeOK /\ CallsFresh /\ LookupHasData
    BY DEF IInv, LoopInv
  <1>7. UserTypeOK' /\ LookupHasData'
    <2>1. /\ uin' \in [Users -> Nat] /\ ubuf' \in [Users -> Nat] /\ ubuf'[u] # 0
          /\ \A v \in Users : v # u => ubuf'[v] = ubuf[v]
      BY <1>2, <1>3, <1>6 DEF UserTypeOK
    <2>2. /\ lp' \in [Users -> UserLoopState]
          /\ \A v \in Users : v # u => lp'[v] = lp[v]
      BY <1>1, <1>6 DEF UserTypeOK, UserLoopState
    <2> QED
      BY <1>1, <1>6, <2>1, <2>2 DEF UserTypeOK, LookupHasData
  <1>8. /\ \A v \in Users : v # u => lp'[v] = lp[v]
        /\ lp'[u].pc = "lookup" /\ lp'[u].io = lp[u].io
    BY <1>1, <1>6 DEF UserTypeOK, UserLoopState
  <1>9. lp[u].io = <<>>
    BY <1>1, <1>6 DEF CallsFresh
  <1>10. CallsFresh'
    BY <1>1, <1>4, <1>6, <1>8, <1>9, CallsStay DEF DialerStepOK, tableVars
  <1> QED
    BY <1>1, <1>4, <1>5, <1>7, <1>10 DEF IInv, LoopInv, DialerStepOK, ReceiverTypeOK

\* Units that make a packet, or are dropped, were in the buffer.
LEMMA TakeOK ==
  ASSUME UserTypeOK, NEW u \in Users, NEW units \in 1..ubuf[u], NEW cached \in BOOLEAN,
         Take(u, units, cached) \/ MarshalFails(u, units), lp[u].io = <<>>
  PROVE  /\ ubuf' \in [Users -> Nat] /\ npkt' \in [Users -> Nat]
         /\ lp' \in [Users -> UserLoopState]
         /\ lp'[u].pc \in {"admit", "idle"} /\ lp'[u].io = <<>>
         /\ \A v \in Users : v # u => lp'[v] = lp[v] /\ ubuf'[v] = ubuf[v]
  <1>0. /\ ubuf \in [Users -> Nat] /\ npkt \in [Users -> Nat]
        /\ lp \in [Users -> UserLoopState] /\ ubuf[u] - units \in Nat
    BY DEF UserTypeOK
  <1>1. CASE Take(u, units, cached)
    <2> DEFINE r == [pc |-> "admit", cached |-> cached, io |-> <<>>]
    <2>1. r \in UserLoopState /\ r.pc = "admit" /\ r.io = <<>>
      BY DEF UserLoopState
    <2>2. /\ lp' = [lp EXCEPT ![u] = r]
          /\ ubuf' = [ubuf EXCEPT ![u] = @ - units]
          /\ npkt' = [npkt EXCEPT ![u] = @ + 1]
      BY <1>1 DEF Take
    <2> HIDE DEF r
    <2>3. ubuf' \in [Users -> Nat] /\ npkt' \in [Users -> Nat]
      BY <1>0, <2>2
    <2>4. lp' \in [Users -> UserLoopState] /\ lp'[u] = r
      BY <1>0, <2>1, <2>2
    <2> QED
      BY <1>0, <2>1, <2>2, <2>3, <2>4
  <1>2. CASE MarshalFails(u, units)
    BY <1>0, <1>2 DEF MarshalFails, UserLoopState
  <1> QED
    BY <1>1, <1>2

\* getDest and Parse.
LEMMA LookupOK ==
  ASSUME IInv, NEW u \in Users, Lookup(u)
  PROVE  IInv'
  <1>1. /\ lp[u].pc = "lookup"
        /\ UNCHANGED <<dialerVars, tableVars, ustate, uin, rcv, delivered>>
    BY DEF Lookup
  <1>2. UserTypeOK /\ CallsFresh /\ LookupHasData
    BY DEF IInv, LoopInv
  <1>3. lp[u].io = <<>> /\ ubuf[u] # 0 /\ ubuf[u] \in Nat
    BY <1>1, <1>2 DEF CallsFresh, LookupHasData, UserTypeOK
  <1>4. DialerStepOK
    BY <1>1, DialerSame DEF IInv
  <1>5. TableInv'
    BY <1>1, <1>4, TablesSame DEF IInv
  <1>6. /\ ubuf' \in [Users -> Nat] /\ npkt' \in [Users -> Nat]
        /\ lp' \in [Users -> UserLoopState] /\ tunnel' \in [Users -> BOOLEAN]
        /\ lp'[u].pc \in {"admit", "idle", "reject"} /\ lp'[u].io = <<>>
        /\ \A v \in Users : v # u => lp'[v] = lp[v] /\ ubuf'[v] = ubuf[v]
    <2>1. CASE LookupCached(u)
      BY <1>2, <1>3, <2>1, TakeOK DEF LookupCached, UserTypeOK
    <2>2. CASE LookupRequest(u)
      <3>1. 1 \in 1..ubuf[u] /\ FALSE \in BOOLEAN /\ tunnel' \in [Users -> BOOLEAN]
        BY <1>2, <1>3, <2>2 DEF LookupRequest, UserTypeOK
      <3>2. Take(u, 1, FALSE) \/ MarshalFails(u, 1)
        BY <2>2 DEF LookupRequest
      <3> QED
        BY <1>2, <1>3, <3>1, <3>2, TakeOK
    <2>3. CASE LookupHandshake(u)
      <3>1. tunnel' \in [Users -> BOOLEAN]
        BY <1>2, <2>3 DEF LookupHandshake, UserTypeOK
      <3> QED
        BY <1>2, <1>3, <2>3, <3>1, TakeOK DEF LookupHandshake
    <2>4. CASE LookupRejected(u)
      BY <1>2, <1>3, <2>4 DEF LookupRejected, UserTypeOK, UserLoopState
    <2> QED
      BY <2>1, <2>2, <2>3, <2>4 DEF Lookup
  <1>7. UserTypeOK' /\ LookupHasData'
    BY <1>1, <1>2, <1>6 DEF UserTypeOK, LookupHasData
  <1>8. CallsFresh'
    BY <1>1, <1>2, <1>4, <1>6, CallsStay DEF DialerStepOK, tableVars
  <1> QED
    BY <1>1, <1>4, <1>5, <1>7, <1>8 DEF IInv, LoopInv, DialerStepOK, ReceiverTypeOK

\* What the loop may owe is typed.
LEMMA LoopCallTypes ==
  /\ \A t \in Token : [op |-> "dial", token |-> t] \in LoopCall
  /\ \A d \in ConnIds, p \in Packet, s \in ConnIds : SendCall(d, p, s) \in LoopCall
  /\ \A d \in ConnIds : CloseTask(d) \in LoopCall
  BY DEF LoopCall, SendCall, CloseTask

\* Where the loop goes after a packet, there is data if it looks for some.
LEMMA AgainOK ==
  ASSUME UserTypeOK, NEW u \in Users
  PROVE  Again(u) \in {"idle", "lookup"} /\ (Again(u) = "lookup" => ubuf[u] # 0)
  BY DEF Again

\* The packet to admit is typed.
LEMMA PktType ==
  ASSUME UserTypeOK, NEW u \in Users
  PROVE  Pkt(u) \in Packet
  BY DEF UserTypeOK, Pkt, Packet

\* A loop's step, typed.
LEMMA LoopMoves ==
  ASSUME UserTypeOK, LookupHasData, NEW u \in Users,
         NEW pc \in {"idle", "lookup", "admit", "io", "reject"}, NEW io \in Seq(LoopCall),
         lp' = [lp EXCEPT ![u].pc = pc, ![u].io = io],
         pc = "lookup" => ubuf[u] # 0,
         ustate' \in [Users -> {"open", "closing", "closed"}],
         UNCHANGED <<uin, ubuf, npkt, tunnel>>
  PROVE  /\ UserTypeOK' /\ LookupHasData'
         /\ lp'[u].pc = pc /\ lp'[u].io = io
         /\ \A v \in Users : v # u => lp'[v] = lp[v]
  <1>1. /\ lp' \in [Users -> UserLoopState]
        /\ lp'[u].pc = pc /\ lp'[u].io = io
        /\ \A v \in Users : v # u => lp'[v] = lp[v]
    BY DEF UserTypeOK, UserLoopState
  <1> QED
    BY <1>1 DEF UserTypeOK, LookupHasData

\* admitUpstream makes a session.
LEMMA AdmitDialOK ==
  ASSUME IInv, NEW u \in Users, AdmitDial(u), lp[u].pc = "admit",
         UNCHANGED <<dialerVars, byServer, ustate, uin, ubuf, tunnel, npkt, rcv, delivered>>
  PROVE  IInv'
  <1> DEFINE n == Len(sess) + 1
             call == DialCall(u, n)
             io == <<call>>
  <1>0. UserTypeOK /\ CallsFresh /\ LookupHasData /\ sess \in Seq(Session)
    BY DEF IInv, LoopInv, TableInv, TableTypeOK
  <1>1. /\ u \notin DOMAIN byUser
        /\ sess' = Append(sess, NewSession(lp[u].cached, Pkt(u)))
        /\ byUser' = Put(byUser, u, n)
        /\ lp' = [lp EXCEPT ![u].pc = "io", ![u].io = io]
    BY DEF AdmitDial
  <1>2. n \in ConnIds /\ n \notin DOMAIN sess
    BY <1>0 DEF ConnIds, NoConn
  <1>3. call.op = "dial" /\ call.token.session = n /\ call \in LoopCall
    BY <1>2, LoopCallTypes DEF DialCall, Token
  <1>4. DialerStepOK
    BY DialerSame DEF IInv
  <1>5. /\ sess' \in Seq(Session)
        /\ DOMAIN sess' = DOMAIN sess \cup {n}
        /\ \A s \in DOMAIN sess : sess'[s] = sess[s]
        /\ sess'[n].dialing /\ sess'[n].serverConn = NoConn
    <2> DEFINE r == NewSession(lp[u].cached, Pkt(u))
    <2>1. <<Pkt(u)>> \in Seq(Packet) /\ lp[u].cached \in BOOLEAN
      BY <1>0, PktType DEF UserTypeOK, UserLoopState
    <2>2. r \in Session /\ r.dialing /\ r.serverConn = NoConn
      BY <2>1 DEF NewSession, Session, NoConn
    <2>3. sess' = Append(sess, r)
      BY <1>1
    <2> HIDE DEF r
    <2> QED
      BY <1>0, <2>2, <2>3
  <1>6. /\ DOMAIN byUser' = DOMAIN byUser \cup {u}
        /\ byUser'[u] = n
        /\ \A v \in DOMAIN byUser : byUser'[v] = byUser[v]
    BY <1>1 DEF Put
  <1> HIDE DEF n, call
  <1>7. TableInv'
    <2>0. TableInv /\ DialerInv /\ DialsKept /\ DOMAIN dials' = DOMAIN dials /\ byServer' = byServer
      BY <1>4 DEF IInv, DialerStepOK
    <2>1. DOMAIN conns' = DOMAIN conns
      BY DEF dialerVars
    <2>2. TableTypeOK'
      BY <1>5, <1>6, <2>0, <2>1 DEF TableInv, TableTypeOK
    <2>3. \A v \in DOMAIN byUser : byUser[v] \in DOMAIN sess
      BY <2>0 DEF TableInv, TableTypeOK
    <2>4. RouteConsistent'
      <3>1. \A e \in DOMAIN byServer' :
              byServer'[e] \in DOMAIN byUser' /\ sess'[byUser'[byServer'[e]]].serverConn = e
        BY <1>5, <1>6, <2>0, <2>3 DEF TableInv, RouteConsistent
      <3>2. \A v \in DOMAIN byUser' :
              sess'[byUser'[v]].serverConn # NoConn =>
                /\ sess'[byUser'[v]].serverConn \in DOMAIN byServer'
                /\ byServer'[sess'[byUser'[v]].serverConn] = v
        BY <1>5, <1>6, <2>0, <2>3 DEF TableInv, RouteConsistent
      <3> QED
        BY <3>1, <3>2 DEF RouteConsistent
    <2>5. ReadyMeansBound'
      BY <1>5, <2>0 DEF TableInv, ReadyMeansBound
    <2>6. OwnSession'
      BY <1>2, <1>6, <2>0, <2>3 DEF TableInv, OwnSession
    <2>7. DialsDistinct'
      BY <1>5, <2>0 DEF TableInv, DialsDistinct, DialsKept
    <2>8. BoundByOwnDial'
      BY <1>5, <2>0 DEF TableInv, BoundByOwnDial, DialsKept
    <2> QED
      BY <2>2, <2>4, <2>5, <2>6, <2>7, <2>8 DEF TableInv
  <1>8. io \in Seq(LoopCall) /\ Len(io) = 1 /\ Head(io) = call
    BY <1>3
  <1> HIDE DEF io
  <1>9. /\ UserTypeOK' /\ LookupHasData'
        /\ lp'[u].pc = "io" /\ lp'[u].io = io
        /\ \A v \in Users : v # u => lp'[v] = lp[v]
    BY <1>0, <1>1, <1>8, LoopMoves DEF UserTypeOK
  <1>10. CallsFresh'
    <2>1. \A v \in Users : IF lp'[v].pc = "io" THEN Len(lp'[v].io) = 1 ELSE lp'[v].io = <<>>
      BY <1>0, <1>8, <1>9 DEF CallsFresh
    <2>2. \A v \in Users : v # u /\ Owes(v)' => Owes(v) /\ OwedFor(v)' = OwedFor(v)
      BY <1>9 DEF Owes, OwedFor
    <2>3. OwedFor(u)' = n
      BY <1>3, <1>8, <1>9 DEF OwedFor
    <2>4. \A v \in Users : v # u /\ Owes(v) => OwedFor(v) # n /\ OwedFor(v) \in DOMAIN sess'
      BY <1>0, <1>2, <1>5 DEF CallsFresh
    <2>5. \A d \in DOMAIN dials' : dials'[d].token.session \in DOMAIN sess /\ dials' = dials
      BY DEF IInv, TableInv, DialsDistinct, dialerVars
    <2>6. \A v \in Users, d \in DOMAIN dials' : Owes(v)' => dials'[d].token.session # OwedFor(v)'
      BY <1>0, <1>2, <2>2, <2>3, <2>5 DEF CallsFresh
    <2>7. \A v, w \in Users : Owes(v)' /\ Owes(w)' /\ OwedFor(v)' = OwedFor(w)' => v = w
      BY <1>0, <2>2, <2>3, <2>4 DEF CallsFresh
    <2>8. \A v \in Users : Owes(v)' => OwedFor(v)' \in DOMAIN sess'
      BY <1>5, <2>2, <2>3, <2>4
    <2> QED
      BY <2>1, <2>6, <2>7, <2>8 DEF CallsFresh
  <1> QED
    BY <1>4, <1>7, <1>9, <1>10 DEF IInv, LoopInv, DialerStepOK, ReceiverTypeOK

\* admitUpstream queues with a dialing session, or forwards.
LEMMA AdmitOK ==
  ASSUME IInv, NEW u \in Users, Admit(u)
  PROVE  IInv'
  <1>0. /\ lp[u].pc = "admit"
        /\ UNCHANGED <<dialerVars, byServer, ustate, uin, ubuf, tunnel, npkt, rcv, delivered>>
    BY DEF Admit
  <1>1. UserTypeOK /\ CallsFresh /\ LookupHasData /\ TableTypeOK /\ lp[u].io = <<>>
    BY <1>0 DEF IInv, LoopInv, TableInv, CallsFresh
  <1>2. DialerStepOK
    BY <1>0, DialerSame DEF IInv
  <1>3. CASE AdmitDial(u)
    BY <1>0, <1>3, AdmitDialOK
  <1>4. CASE AdmitQueued(u)
    <2> DEFINE s == byUser[u]
    <2>1. /\ u \in DOMAIN byUser /\ byUser' = byUser
          /\ sess' = SessQueued(s, Pkt(u))
          /\ lp' = [lp EXCEPT ![u].pc = Again(u)]
      BY <1>4 DEF AdmitQueued
    <2>2. s \in DOMAIN sess /\ sess \in Seq(Session)
      BY <1>1, <2>1 DEF TableTypeOK
    <2>3. SessShape(s, sess[s].serverConn, sess[s].dialing)
      BY <1>1, <2>1, <2>2, PktType, SessQueuedShape
    <2>4. TableInv'
      BY <1>0, <1>2, <2>1, <2>2, <2>3, SessionQueuedOK DEF IInv
    <2>5. /\ lp' \in [Users -> UserLoopState]
          /\ lp'[u].pc = Again(u) /\ lp'[u].io = lp[u].io
          /\ \A v \in Users : v # u => lp'[v] = lp[v]
      BY <1>1, <2>1, AgainOK DEF UserTypeOK, UserLoopState
    <2>6. UserTypeOK' /\ LookupHasData'
      BY <1>0, <1>1, <2>5, AgainOK DEF UserTypeOK, LookupHasData
    <2>7. DOMAIN sess \subseteq DOMAIN sess'
      BY <2>3 DEF SessShape
    <2>8. CallsFresh'
      BY <1>1, <1>2, <2>5, <2>7, AgainOK, CallsStay DEF DialerStepOK
    <2> QED
      BY <1>0, <1>2, <2>4, <2>6, <2>8 DEF IInv, LoopInv, DialerStepOK, ReceiverTypeOK
  <1>5. CASE AdmitForward(u)
    <2> DEFINE s == byUser[u]
               call == SendCall(sess[s].serverConn, Pkt(u), s)
               io == <<call>>
    <2>1. /\ u \in DOMAIN byUser /\ UNCHANGED <<byUser, sess>>
          /\ ~sess[s].dialing
          /\ lp' = [lp EXCEPT ![u].pc = "io", ![u].io = io]
      BY <1>5 DEF AdmitForward, Dialing
    <2>2. s \in DOMAIN sess /\ sess \in Seq(Session) /\ s \in ConnIds
      BY <1>1, <2>1 DEF TableTypeOK, ConnIds, NoConn
    <2>3. sess[s].serverConn \in ConnIds
      BY <2>1, <2>2, SessFields DEF IInv, TableInv, ReadyMeansBound, ConnIds
    <2>4. call \in LoopCall /\ call.op = "send"
      BY <1>1, <2>2, <2>3, PktType, LoopCallTypes DEF SendCall
    <2> HIDE DEF call
    <2>5. io \in Seq(LoopCall) /\ Len(io) = 1 /\ Head(io) = call
      BY <2>4
    <2> HIDE DEF io
    <2>6. /\ UserTypeOK' /\ LookupHasData'
          /\ lp'[u].pc = "io" /\ lp'[u].io = io
          /\ \A v \in Users : v # u => lp'[v] = lp[v]
      BY <1>0, <1>1, <2>1, <2>5, LoopMoves DEF UserTypeOK
    <2>7. CallsFresh'
      BY <1>1, <1>2, <2>1, <2>4, <2>5, <2>6, CallsStay DEF DialerStepOK
    <2>8. TableInv'
      BY <1>0, <1>2, <2>1, TablesSame DEF IInv, tableVars
    <2> QED
      BY <1>0, <1>2, <2>6, <2>7, <2>8 DEF IInv, LoopInv, DialerStepOK, ReceiverTypeOK
  <1> QED
    BY <1>3, <1>4, <1>5 DEF Admit

\* A call the loop owes, by its kind.
LEMMA LoopCallFields ==
  ASSUME NEW call \in LoopCall
  PROVE  /\ call.op = "dial" => call.token \in Token
         /\ call.op = "send" => call.conn \in ConnIds /\ call.pkt \in Packet
         /\ call.op = "close" => call \in Task
  BY DEF LoopCall, Task

\* The I/O after the unlock.
LEMMA UserCallOK ==
  ASSUME IInv, NEW u \in Users, UserCall(u)
  PROVE  IInv'
  <1> DEFINE call == Head(lp[u].io)
             pc == IF ustate[u] = "closed" THEN "idle" ELSE Again(u)
  <1>0. /\ lp[u].pc = "io"
        /\ lp' = [lp EXCEPT ![u].io = <<>>, ![u].pc = pc]
        /\ UNCHANGED <<tableVars, ustate, uin, ubuf, tunnel, npkt, rcv, delivered>>
    BY DEF UserCall
  <1>1. UserTypeOK /\ CallsFresh /\ LookupHasData /\ DialerInv /\ TableInv
    BY DEF IInv, LoopInv
  <1>2. lp[u].io \in Seq(LoopCall) /\ Len(lp[u].io) = 1 /\ call \in LoopCall
    BY <1>0, <1>1 DEF UserTypeOK, UserLoopState, CallsFresh
  <1>3. pc \in {"idle", "lookup"} /\ (pc = "lookup" => ubuf[u] # 0)
    BY <1>1, AgainOK
  <1> HIDE DEF pc
  <1>4. /\ UserTypeOK' /\ LookupHasData'
        /\ lp'[u].pc = pc /\ lp'[u].io = <<>>
        /\ \A v \in Users : v # u => lp'[v] = lp[v]
    <2>1. /\ lp' \in [Users -> UserLoopState]
          /\ lp'[u].pc = pc /\ lp'[u].io = <<>>
          /\ \A v \in Users : v # u => lp'[v] = lp[v]
      <3> DEFINE io == <<>>
      <3>1. io \in Seq(LoopCall) /\ lp' = [lp EXCEPT ![u].io = io, ![u].pc = pc]
        BY <1>0
      <3>2. io = <<>>
        OBVIOUS
      <3> HIDE DEF io
      <3> QED
        BY <1>1, <1>3, <3>1, <3>2 DEF UserTypeOK, UserLoopState
    <2> QED
      BY <1>0, <1>1, <1>3, <2>1 DEF UserTypeOK, LookupHasData
  <1>5. CASE call.op = "dial" /\ AsyncDial(call.token)
    <2> DEFINE n == Len(dials) + 1
    <2>1. call.token \in Token
      BY <1>2, <1>5, LoopCallFields
    <2>2. /\ DialerInv' /\ DialsKept
          /\ DOMAIN dials' = DOMAIN dials \cup {n}
          /\ n \notin DOMAIN dials
          /\ dials'[n].token = call.token
          /\ \A e \in DOMAIN dials : dials'[e] = dials[e] /\ conns'[e] = conns[e]
      BY <1>1, <1>5, <2>1, AsyncDialOK
    <2>3. DOMAIN conns \subseteq DOMAIN conns'
      BY <1>1, <2>2, DomainsEqual DEF DialerInv, DialerTypeOK
    <2> HIDE DEF n
    <2>4. /\ Owes(u) /\ call.token.session = OwedFor(u)
          /\ OwedFor(u) \in DOMAIN sess
          /\ \A d \in DOMAIN dials : dials[d].token.session # OwedFor(u)
          /\ \A v \in Users : v # u /\ Owes(v) => OwedFor(v) # OwedFor(u)
      BY <1>0, <1>1, <1>5 DEF Owes, OwedFor, CallsFresh
    <2>5. UNCHANGED <<byUser, byServer, sess>>
      BY <1>0 DEF tableVars
    <2>6. TableTypeOK'
      BY <1>1, <2>3, <2>5 DEF TableInv, TableTypeOK
    <2>7. RouteConsistent' /\ ReadyMeansBound' /\ OwnSession'
      BY <1>1, <2>5 DEF TableInv, RouteConsistent, ReadyMeansBound, OwnSession
    <2>8. DialsDistinct'
      BY <1>1, <2>2, <2>4, <2>5 DEF TableInv, DialsDistinct
    <2>9. BoundByOwnDial'
      BY <1>1, <2>2, <2>5 DEF TableInv, BoundByOwnDial
    <2>10. CallsFresh'
      <3>1. \A v \in Users : IF lp'[v].pc = "io" THEN Len(lp'[v].io) = 1 ELSE lp'[v].io = <<>>
        BY <1>1, <1>3, <1>4 DEF CallsFresh
      <3>2. \A v \in Users : Owes(v)' => v # u /\ Owes(v) /\ OwedFor(v)' = OwedFor(v)
        BY <1>3, <1>4 DEF Owes, OwedFor
      <3>3. \A v \in Users, d \in DOMAIN dials' :
              Owes(v)' => dials'[d].token.session # OwedFor(v)'
        BY <1>1, <2>2, <2>4, <3>2 DEF CallsFresh
      <3> QED
        BY <1>1, <2>5, <3>1, <3>2, <3>3 DEF CallsFresh
    <2> QED
      BY <1>0, <1>4, <2>2, <2>6, <2>7, <2>8, <2>9, <2>10
      DEF IInv, TableInv, LoopInv, ReceiverTypeOK
  <1>6. CASE /\ call.op = "send" \/ call.op = "close"
             /\ tasks' = Append(tasks, IF call.op = "send"
                                         THEN WriteTask(call.conn, call.pkt) ELSE call)
             /\ UNCHANGED <<dials, conns, dialSem, loop, recvChan, dialResultChan>>
    <2> DEFINE t == IF call.op = "send" THEN WriteTask(call.conn, call.pkt) ELSE call
    <2>1. t \in Task
      <3>1. CASE call.op = "send"
        BY <1>2, <3>1, LoopCallFields DEF WriteTask, Task
      <3>2. CASE call.op # "send"
        BY <1>2, <1>6, <3>2, LoopCallFields
      <3> QED
        BY <3>1, <3>2
    <2>2. tasks' = Append(tasks, t)
      BY <1>6
    <2> HIDE DEF t
    <2>3. DialerStepOK
      BY <1>1, <1>6, <2>1, <2>2, TaskQueuedOK
    <2>4. TableInv'
      BY <1>0, <1>1, <2>3, TablesSame
    <2>5. CallsFresh'
      BY <1>0, <1>1, <1>3, <1>4, <2>3, CallsStay DEF DialerStepOK, tableVars
    <2> QED
      BY <1>0, <1>4, <2>3, <2>4, <2>5 DEF IInv, LoopInv, DialerStepOK, ReceiverTypeOK
  <1> QED
    BY <1>5, <1>6 DEF UserCall

\* The connection handed out to be closed is a typed call, and no dial.
LEMMA OrphanType ==
  ASSUME TableTypeOK, NEW u
  PROVE  /\ Orphan(u) \in Seq(LoopCall)
         /\ Orphan(u) # <<>> => Len(Orphan(u)) = 1 /\ Head(Orphan(u)).op # "dial"
  <1>1. CASE u \in DOMAIN byUser /\ sess[byUser[u]].serverConn # NoConn
    <2> DEFINE t == CloseTask(sess[byUser[u]].serverConn)
    <2>1. sess[byUser[u]].serverConn \in ConnIds
      BY <1>1, SessFields DEF TableTypeOK, ConnIds
    <2>2. t \in LoopCall /\ t.op # "dial"
      BY <2>1, LoopCallTypes DEF CloseTask
    <2>3. Orphan(u) = <<t>>
      BY <1>1 DEF Orphan
    <2> HIDE DEF t
    <2> QED
      BY <2>2, <2>3
  <1>2. CASE ~(u \in DOMAIN byUser /\ sess[byUser[u]].serverConn # NoConn)
    BY <1>2 DEF Orphan
  <1> QED
    BY <1>1, <1>2

\* OnClose.
LEMMA UserClosesOK ==
  ASSUME IInv, NEW u \in Users, UserCloses(u)
  PROVE  IInv'
  <1> DEFINE io == Orphan(u)
             pc == IF io = <<>> THEN "idle" ELSE "io"
  <1>0. /\ ustate' = [ustate EXCEPT ![u] = "closed"]
        /\ PurgeByUser(u)
        /\ lp' = [lp EXCEPT ![u].io = io, ![u].pc = pc]
        /\ UNCHANGED <<dialerVars, sess, uin, ubuf, tunnel, npkt, rcv, delivered>>
    BY DEF UserCloses
  <1>1. UserTypeOK /\ CallsFresh /\ LookupHasData /\ TableTypeOK
    BY DEF IInv, LoopInv, TableInv
  <1>2. io \in Seq(LoopCall) /\ (io # <<>> => Len(io) = 1 /\ Head(io).op # "dial")
    BY <1>1, OrphanType
  <1> HIDE DEF io
  <1>3. pc \in {"idle", "io"} /\ (pc = "io" <=> io # <<>>)
    OBVIOUS
  <1> HIDE DEF pc
  <1>4. DialerStepOK
    BY <1>0, DialerSame DEF IInv
  <1>5. TableInv'
    BY <1>0, <1>4, PurgeByUserOK DEF IInv
  <1>6. /\ lp' \in [Users -> UserLoopState]
        /\ lp'[u].pc = pc /\ lp'[u].io = io
        /\ \A v \in Users : v # u => lp'[v] = lp[v]
    BY <1>0, <1>1, <1>2, <1>3 DEF UserTypeOK, UserLoopState
  <1>7. UserTypeOK' /\ LookupHasData'
    BY <1>0, <1>1, <1>3, <1>6 DEF UserTypeOK, LookupHasData
  <1>8. CallsFresh'
    BY <1>0, <1>1, <1>2, <1>3, <1>4, <1>6, CallsStay DEF DialerStepOK
  <1> QED
    BY <1>0, <1>4, <1>5, <1>7, <1>8 DEF IInv, LoopInv, DialerStepOK, ReceiverTypeOK

(***************************************************************************)
(* The goroutine that consumes recvChan                                    *)
(***************************************************************************)

\* What the goroutine may owe is typed.
LEMMA RcvCallTypes ==
  /\ \A d \in ConnIds : CloseTask(d) \in RcvCall
  /\ \A d \in ConnIds, p \in Packet : WriteTask(d, p) \in RcvCall
  /\ \A u \in Users, p \in DownPkt : UserWrite(u, p) \in RcvCall
  /\ \A u \in Users : [op |-> "hangup", user |-> u] \in RcvCall
  BY DEF RcvCall, Task, CloseTask, WriteTask, UserWrite

\* The replay of the pending packets is typed.
LEMMA ReplayType ==
  ASSUME NEW d \in ConnIds, NEW pending \in Seq(Packet)
  PROVE  Replay(d, pending) \in Seq(RcvCall)
  <1>1. \A i \in DOMAIN pending : WriteTask(d, pending[i]) \in RcvCall
    BY RcvCallTypes
  <1>2. DOMAIN pending = 1..Len(pending) /\ Len(pending) \in Nat
    OBVIOUS
  <1> QED
    BY <1>1, <1>2 DEF Replay

\* What the goroutine does for a user whose connection is gone.
LEMMA TellUserType ==
  ASSUME TableTypeOK, NEW d
  PROVE  TellUser(PurgedUser(d)) \in Seq(RcvCall)
  <1>1. CASE PurgedUser(d) = {}
    BY <1>1 DEF TellUser
  <1>2. CASE PurgedUser(d) # {}
    <2> DEFINE v == CHOOSE x \in PurgedUser(d) : TRUE
               c == [op |-> "hangup", user |-> v]
    <2>1. v \in Users
      BY <1>2 DEF PurgedUser, TableTypeOK
    <2> HIDE DEF v
    <2>2. c \in RcvCall
      BY <2>1, RcvCallTypes
    <2>3. TellUser(PurgedUser(d)) = <<c>>
      BY <1>2 DEF TellUser, v
    <2> HIDE DEF c
    <2> QED
      BY <2>2, <2>3
  <1> QED
    BY <1>1, <1>2

\* The goroutine takes an event.
LEMMA ReceiveOK ==
  ASSUME IInv, Receive
  PROVE  IInv'
  <1> DEFINE msg == Head(recvChan)
             d == msg.conn
  <1>0. /\ rcv.io = <<>> /\ recvChan # <<>> /\ recvChan' = Tail(recvChan)
        /\ UNCHANGED <<dials, conns, dialSem, tasks, loop, dialResultChan>>
        /\ UNCHANGED <<userVars, delivered>>
    BY DEF Receive, RcvIdle
  <1>1. DialerInv /\ TableInv /\ LoopInv /\ ReceiverTypeOK /\ TableTypeOK
    BY DEF IInv, TableInv
  <1>2. DialerStepOK
    BY <1>0, <1>1, EventTakenOK
  <1>3. /\ msg \in ConnEvent /\ d \in ConnIds /\ msg.pkts \in Seq(DownPkt)
        /\ EventTrue(msg)
    <2>1. msg \in ConnEvent /\ msg = recvChan[1] /\ 1 \in DOMAIN recvChan
      BY <1>0, <1>1 DEF DialerInv, DialerTypeOK
    <2>2. msg \in Events
      BY <2>1 DEF Events
    <2>3. EventTrue(msg)
      BY <1>1, <2>2 DEF DialerInv, EventsTrue
    <2> QED
      BY <2>1, <2>3 DEF ConnEvent
  <1>4. /\ rcv \in [io : Seq(RcvCall), sendMu : Nat]
        /\ delivered' \in [Users -> Seq(DownPkt)]
    BY <1>0, <1>1 DEF ReceiverTypeOK
  <1>5. SUFFICES /\ TableInv' /\ rcv' \in [io : Seq(RcvCall), sendMu : Nat]
                 /\ DOMAIN sess \subseteq DOMAIN sess'
    BY <1>0, <1>1, <1>2, <1>4, <1>5, UsersSame
    DEF IInv, DialerStepOK, ReceiverTypeOK
  <1> HIDE DEF msg, d
  <1>6. CASE HandleServerMsg(msg)
    <2>1. UNCHANGED tableVars
      BY <1>6 DEF HandleServerMsg
    <2>2. TableInv'
      BY <1>1, <1>2, <2>1, TablesSame
    <2>3. CASE GetByServer(d) = {}
      <3> DEFINE io == <<>>
      <3>1. rcv' = [rcv EXCEPT !.io = io] /\ io \in Seq(RcvCall)
        BY <1>6, <2>3 DEF HandleServerMsg, d
      <3> HIDE DEF io
      <3> QED
        BY <1>4, <2>1, <2>2, <3>1 DEF tableVars
    <2>4. CASE GetByServer(d) # {}
      <3>1. d \in DOMAIN byServer /\ byServer[d] \in Users
        BY <1>1, <2>4 DEF GetByServer, TableTypeOK
      <3> DEFINE io == [i \in DOMAIN msg.pkts |-> UserWrite(byServer[d], msg.pkts[i])]
      <3>2. \A i \in DOMAIN msg.pkts : UserWrite(byServer[d], msg.pkts[i]) \in RcvCall
        BY <1>3, <3>1, RcvCallTypes
      <3>3. DOMAIN msg.pkts = 1..Len(msg.pkts) /\ Len(msg.pkts) \in Nat
        BY <1>3
      <3>4. io \in Seq(RcvCall)
        BY <3>2, <3>3
      <3>5. rcv' = [rcv EXCEPT !.io = io]
        BY <1>6, <2>4 DEF HandleServerMsg, d
      <3> HIDE DEF io
      <3> QED
        BY <1>4, <2>1, <2>2, <3>4, <3>5 DEF tableVars
    <2> QED
      BY <2>3, <2>4
  <1>7. CASE HandleDialClose(msg)
    <2> DEFINE io == TellUser(PurgedUser(d))
    <2>1. PurgeByServer(d) /\ UNCHANGED sess /\ rcv' = [rcv EXCEPT !.io = io]
      BY <1>7 DEF HandleDialClose, d
    <2>2. io \in Seq(RcvCall)
      BY <1>1, TellUserType
    <2> HIDE DEF io
    <2>3. TableInv'
      BY <1>1, <1>2, <2>1, PurgeByServerOK
    <2> QED
      BY <1>4, <2>1, <2>2, <2>3
  <1>8. CASE HandleDialOpen(msg)
    <2> DEFINE token == dials[d].token
               s == token.session
    <2>1. d \in DOMAIN dials /\ conns[d].st # "new"
      BY <1>3, <1>8 DEF EventTrue, HandleDialOpen, d
    <2>2. s \in DOMAIN sess /\ s \in Nat /\ sess \in Seq(Session)
      BY <1>1, <2>1 DEF TableInv, DialsDistinct, TableTypeOK
    <2>3. CASE Current(token)
      <3>1. /\ CompleteDial(d, token)
            /\ rcv' = [io |-> Replay(d, sess[s].pending), sendMu |-> s]
        BY <1>8, <2>3 DEF HandleDialOpen, d
      <3>2. TableInv' /\ SessShape(s, d, FALSE)
        BY <1>1, <1>2, <2>1, <2>3, <3>1, CompleteDialOK
      <3>3. Replay(d, sess[s].pending) \in Seq(RcvCall)
        BY <1>3, <2>2, SessFields, ReplayType
      <3> QED
        BY <2>2, <3>1, <3>2, <3>3 DEF SessShape
    <2>4. CASE ~Current(token)
      <3> DEFINE t == CloseTask(d)
      <3>1. UNCHANGED tableVars /\ rcv' = [io |-> <<t>>, sendMu |-> s]
        BY <1>8, <2>4 DEF HandleDialOpen, RejectOpen, d
      <3>2. t \in RcvCall
        BY <1>3, RcvCallTypes
      <3> HIDE DEF t
      <3>3. <<t>> \in Seq(RcvCall)
        BY <3>2
      <3> QED
        BY <1>1, <1>2, <2>2, <3>1, <3>3, TablesSame DEF tableVars
    <2> QED
      BY <2>3, <2>4
  <1>9. CASE HandleDialError(msg)
    <2>1. d \in DOMAIN dials /\ conns[d].st = "new"
      BY <1>3, <1>9 DEF EventTrue, HandleDialError, d
    <2>2. UNCHANGED <<byServer, sess, rcv>>
      BY <1>9 DEF HandleDialError
    <2>3. CASE Current(dials[d].token)
      <3>1. AbortDial(dials[d].token.user)
        BY <1>9, <2>3 DEF HandleDialError, d
      <3> QED
        BY <1>1, <1>2, <1>4, <2>1, <2>2, <2>3, <3>1, AbortDialOK
    <2>4. CASE ~Current(dials[d].token)
      <3>1. UNCHANGED byUser
        BY <1>9, <2>4 DEF HandleDialError, d
      <3> QED
        BY <1>1, <1>2, <1>4, <2>2, <3>1, TablesSame DEF tableVars
    <2> QED
      BY <2>3, <2>4
  <1> QED
    BY <1>6, <1>7, <1>8, <1>9 DEF Receive, msg

\* A call the goroutine owes, by its kind.
LEMMA RcvCallFields ==
  ASSUME NEW call \in RcvCall
  PROVE  /\ call.op = "deliver" => call.user \in Users /\ call.pkt \in DownPkt
         /\ call.op = "hangup" => call.user \in Users
         /\ call.op \in {"write", "close"} => call \in Task
  BY DEF RcvCall, Task

\* The goroutine makes a call.
LEMMA ReceiveCallOK ==
  ASSUME IInv, ReceiveCall
  PROVE  IInv'
  <1> DEFINE call == Head(rcv.io)
  <1>0. /\ rcv.io # <<>>
        /\ rcv' = [io |-> Tail(rcv.io),
                   sendMu |-> IF Len(rcv.io) = 1 THEN NoSession ELSE rcv.sendMu]
        /\ UNCHANGED <<dials, conns, dialSem, loop, recvChan, dialResultChan>>
        /\ UNCHANGED <<tableVars, uin, ubuf, tunnel, npkt, lp>>
    BY DEF ReceiveCall
  <1>1. DialerInv /\ TableInv /\ LoopInv /\ UserTypeOK /\ CallsFresh /\ LookupHasData
        /\ rcv \in [io : Seq(RcvCall), sendMu : Nat]
        /\ delivered \in [Users -> Seq(DownPkt)]
    BY DEF IInv, LoopInv, ReceiverTypeOK
  <1>2. call \in RcvCall /\ Tail(rcv.io) \in Seq(RcvCall)
    BY <1>0, <1>1
  <1>3. rcv' \in [io : Seq(RcvCall), sendMu : Nat]
    BY <1>0, <1>1, <1>2 DEF NoSession
  <1>4. /\ DialerStepOK
        /\ ustate' \in [Users -> {"open", "closing", "closed"}]
        /\ delivered' \in [Users -> Seq(DownPkt)]
    <2>1. CASE /\ call.op = "deliver"
               /\ delivered' = IF ustate[call.user] = "open"
                                 THEN [delivered EXCEPT ![call.user] = Append(@, call.pkt)]
                                 ELSE delivered
               /\ UNCHANGED <<tasks, ustate>>
      <3>1. call.user \in Users /\ call.pkt \in DownPkt
        BY <1>2, <2>1, RcvCallFields
      <3>2. delivered' \in [Users -> Seq(DownPkt)]
        BY <1>1, <2>1, <3>1
      <3> QED
        BY <1>0, <1>1, <2>1, <3>2, DialerSame DEF UserTypeOK, dialerVars
    <2>2. CASE /\ call.op = "hangup"
               /\ ustate' = IF ustate[call.user] = "open"
                              THEN [ustate EXCEPT ![call.user] = "closing"]
                              ELSE ustate
               /\ UNCHANGED <<tasks, delivered>>
      <3>1. ustate' \in [Users -> {"open", "closing", "closed"}]
        BY <1>1, <2>2 DEF UserTypeOK
      <3> QED
        BY <1>0, <1>1, <2>2, <3>1, DialerSame DEF dialerVars
    <2>3. CASE /\ call.op \in {"write", "close"}
               /\ tasks' = Append(tasks, call)
               /\ UNCHANGED <<ustate, delivered>>
      <3>1. call \in Task
        BY <1>2, <2>3, RcvCallFields
      <3> HIDE DEF call
      <3> QED
        BY <1>0, <1>1, <2>3, <3>1, TaskQueuedOK DEF UserTypeOK
    <2> QED
      BY <2>1, <2>2, <2>3 DEF ReceiveCall
  <1>5. TableInv'
    BY <1>0, <1>1, <1>4, TablesSame
  <1>6. UserTypeOK' /\ LookupHasData'
    BY <1>0, <1>1, <1>4 DEF UserTypeOK, LookupHasData
  <1>7. CallsFresh'
    BY <1>0, <1>1, <1>4, CallsSame DEF DialerStepOK, tableVars
  <1> QED
    BY <1>3, <1>4, <1>5, <1>6, <1>7 DEF IInv, LoopInv, DialerStepOK, ReceiverTypeOK

(***************************************************************************)
(* The invariant, and what follows from it                                 *)
(***************************************************************************)

\* The dialer's own steps.
LEMMA DialerAloneOK ==
  ASSUME IInv, DialerStepOK, UNCHANGED <<tableVars, userVars, rcv, delivered>>
  PROVE  IInv'
  <1>1. TableInv'
    BY TablesSame DEF IInv
  <1>2. LoopInv'
    BY UsersSame DEF IInv, DialerStepOK, tableVars
  <1> QED
    BY <1>1, <1>2 DEF IInv, DialerStepOK, ReceiverTypeOK

\* The invariant holds initially.
LEMMA InitIInv ==
  ASSUME Init
  PROVE  IInv
  <1> USE DEF Init, DialerInit
  <1>1. DialerInv
    BY DEF DialerInv, DialerTypeOK, Loop, NoConn, DialsAgree, EventsTrue, Events
  <1>2. TableInv
    BY DEF TableInv, TableTypeOK, RouteConsistent, ReadyMeansBound, OwnSession,
           DialsDistinct, BoundByOwnDial
  <1>3. LoopInv
    BY DEF LoopInv, UserTypeOK, UserLoopState, CallsFresh, Owes, LookupHasData
  <1>4. ReceiverTypeOK
    BY DEF ReceiverTypeOK, NoSession
  <1> QED
    BY <1>1, <1>2, <1>3, <1>4 DEF IInv

\* Every step of the dialer that is not a dial of a user's loop.
LEMMA DialerStepsOK ==
  ASSUME ClientAssumption, IInv, DialerSteps
  PROVE  /\ DialerStepOK
         /\ UNCHANGED <<tableVars, userVars, rcv, delivered>>
  <1>0. DialerInv
    BY DEF IInv
  <1>1. ASSUME NEW d \in DOMAIN dials, DialerAlone(OnOpenPosted(d))
        PROVE  DialerStepOK
    BY <1>0, <1>1, OnOpenOK DEF DialerAlone
  <1>2. ASSUME NEW d \in DOMAIN dials, DialerAlone(DialStep(d))
        PROVE  DialerStepOK
    BY <1>0, <1>2, DialStepOK DEF DialerAlone
  <1>3. ASSUME NEW d \in DOMAIN dials, DialerAlone(PeerStep(d))
        PROVE  DialerStepOK
    BY <1>0, <1>3, PeerStepOK DEF DialerAlone
  <1>4. CASE LoopAlone
    BY <1>0, <1>4, LoopStepOK, WriteErrorOK DEF LoopAlone, DialerAlone
  <1> QED
    BY <1>1, <1>2, <1>3, <1>4 DEF DialerSteps, LoopAlone, DialerAlone

\* Every step preserves the invariant.
LEMMA NextIInv ==
  ASSUME ClientAssumption, IInv, [Next]_vars
  PROVE  IInv'
  <1>1. ASSUME NEW u \in Users, UserTraffic(u) \/ UserLoop(u) \/ UserCloses(u)
        PROVE  IInv'
    BY <1>1, UserTrafficOK, LookupOK, AdmitOK, UserCallOK, UserClosesOK DEF UserLoop
  <1>2. CASE Consumer
    BY <1>2, ReceiveOK, ReceiveCallOK DEF Consumer
  <1>3. CASE DialerSteps
    BY <1>3, DialerStepsOK, DialerAloneOK
  <1>4. CASE UNCHANGED vars
    <2>1. UNCHANGED <<dialerVars, tableVars, userVars, rcv, delivered>>
      BY <1>4 DEF vars
    <2>2. DialerStepOK
      BY <2>1, DialerSame DEF IInv
    <2> QED
      BY <2>1, <2>2, DialerAloneOK
  <1> QED
    BY <1>1, <1>2, <1>3, <1>4 DEF Next

\* IInv is an invariant of the client.
THEOREM ClientInvariant == Spec => []IInv
  <1>1. Init => IInv
    BY InitIInv
  <1>2. IInv /\ [Next]_vars => IInv'
    BY NextIInv, ClientAssumption
  <1> QED
    BY <1>1, <1>2, PTL DEF Spec

\* The two maps of the session table always agree (session.go:36).
THEOREM RoutesAgree == Spec => []RouteConsistent
  <1>1. IInv => RouteConsistent
    BY DEF IInv, TableInv
  <1> QED
    BY <1>1, ClientInvariant, PTL

(***************************************************************************)
(* The semaphore of the dialer                                             *)
(***************************************************************************)

\* The goroutines that have taken a token of the semaphore and not given it
\* back.
InFlight == {d \in DOMAIN dials : dials[d].pc \notin {"spawned", "done"}}

SemaphoreExact ==
  /\ dialSem = Cardinality(InFlight)
  /\ dialSem <= MaxConcurrentDials

\* The dials in flight are finitely many.
LEMMA InFlightFinite ==
  ASSUME dials \in Seq(Dial)
  PROVE  IsFiniteSet(InFlight)
  <1>1. Len(dials) \in Nat /\ InFlight \subseteq 1..Len(dials)
    BY DEF InFlight
  <1>2. IsFiniteSet(1..Len(dials))
    BY <1>1, FS_Interval
  <1> QED
    BY <1>1, <1>2, FS_Subset

\* A step that takes no dial into flight or out of it.
LEMMA SemaphoreSame ==
  ASSUME SemaphoreExact, InFlight' = InFlight, UNCHANGED dialSem
  PROVE  SemaphoreExact'
  BY DEF SemaphoreExact

\* Acquiring, reporting, and the steps in between.
LEMMA SemaphoreDialStep ==
  ASSUME DialerAssumption, DialerTypeOK, SemaphoreExact,
         NEW d \in DOMAIN dials, DialStep(d)
  PROVE  SemaphoreExact'
  <1>0. /\ dials \in Seq(Dial) /\ dialSem \in Int
        /\ dialSem = Cardinality(InFlight) /\ dialSem <= MaxConcurrentDials
    BY DEF DialerTypeOK, SemaphoreExact
  <1>1. IsFiniteSet(InFlight)
    BY <1>0, InFlightFinite
  <1>2. CASE AcquireSem(d)
    <2>1. /\ dials[d].pc = "spawned" /\ dialSem < MaxConcurrentDials
          /\ dialSem' = dialSem + 1
          /\ dials' = DialAt(d, "dialing")
      BY <1>2 DEF AcquireSem, SemFree
    <2>2. DialsMoved(d, "dialing")
      BY <1>0, <2>1, DialMoves DEF DialPC
    <2>3. InFlight' = InFlight \cup {d} /\ d \notin InFlight
      BY <2>1, <2>2 DEF InFlight, DialsMoved
    <2>4. Cardinality(InFlight') = Cardinality(InFlight) + 1
      BY <1>1, <2>3, FS_AddElement
    <2> QED
      BY <1>0, <2>1, <2>4 DEF SemaphoreExact, DialerAssumption
  <1>3. CASE DialFinishes(d)
    <2>1. PICK pc \in {"enrolling", "failed"} : dials' = DialAt(d, pc)
      BY <1>3 DEF DialFinishes
    <2>2. dials[d].pc = "dialing" /\ UNCHANGED dialSem
      BY <1>3 DEF DialFinishes
    <2>3. DialsMoved(d, pc)
      BY <1>0, <2>1, DialMoves DEF DialPC
    <2>4. InFlight' = InFlight
      BY <2>2, <2>3 DEF InFlight, DialsMoved
    <2> QED
      BY <2>2, <2>4, SemaphoreSame
  <1>4. CASE DialReports(d)
    <2>1. /\ dials[d].pc \in {"failed", "opened"}
          /\ dialSem' = dialSem - 1
          /\ dials' = DialAt(d, "done")
      BY <1>4 DEF DialReports, SemRelease
    <2>2. DialsMoved(d, "done")
      BY <1>0, <2>1, DialMoves DEF DialPC
    <2>3. InFlight' = InFlight \ {d} /\ d \in InFlight
      BY <2>1, <2>2 DEF InFlight, DialsMoved
    <2>4. Cardinality(InFlight') = Cardinality(InFlight) - 1
      BY <1>1, <2>3, FS_RemoveElement
    <2> QED
      BY <1>0, <2>1, <2>4 DEF SemaphoreExact, DialerAssumption
  <1> QED
    BY <1>2, <1>3, <1>4 DEF DialStep

\* Every step of the dialer keeps the count.
LEMMA SemaphoreDialer ==
  ASSUME DialerAssumption, DialerInv, SemaphoreExact, DialerSteps
  PROVE  SemaphoreExact'
  <1>0. DialerTypeOK /\ dials \in Seq(Dial)
    BY DEF DialerInv, DialerTypeOK
  <1>1. CASE UNCHANGED <<dials, dialSem>>
    <2>1. InFlight' = InFlight
      BY <1>1 DEF InFlight
    <2> QED
      BY <1>1, <2>1, SemaphoreSame
  <1>2. ASSUME NEW d \in DOMAIN dials, DialerAlone(OnOpenPosted(d))
        PROVE  SemaphoreExact'
    <2>1. /\ dials[d].pc = "enrolling" /\ UNCHANGED dialSem
          /\ dials' = DialAt(d, "opened")
      BY <1>2 DEF DialerAlone, OnOpenPosted
    <2>2. DialsMoved(d, "opened")
      BY <1>0, <2>1, DialMoves DEF DialPC
    <2>3. InFlight' = InFlight
      BY <2>1, <2>2 DEF InFlight, DialsMoved
    <2> QED
      BY <2>1, <2>3, SemaphoreSame
  <1>3. ASSUME NEW d \in DOMAIN dials, DialerAlone(DialStep(d))
        PROVE  SemaphoreExact'
    BY <1>0, <1>3, SemaphoreDialStep DEF DialerAlone
  <1>4. ASSUME NEW d \in DOMAIN dials, DialerAlone(PeerStep(d))
        PROVE  SemaphoreExact'
    BY <1>1, <1>4 DEF DialerAlone, PeerStep, OnTraffic, PeerCloses
  <1>5. CASE LoopAlone
    BY <1>1, <1>5
    DEF LoopAlone, DialerAlone, LoopStep, LoopUnblocks, RunWrite, RunClose, WriteErrorDone
  <1> QED
    BY <1>2, <1>3, <1>4, <1>5 DEF DialerSteps

\* Every step keeps the count.
LEMMA NextSemaphore ==
  ASSUME DialerAssumption, IInv, SemaphoreExact, [Next]_vars
  PROVE  SemaphoreExact'
  <1>0. DialerInv /\ DialerTypeOK /\ dials \in Seq(Dial)
    BY DEF IInv, DialerInv, DialerTypeOK
  <1>1. CASE UNCHANGED <<dials, dialSem>>
    <2>1. InFlight' = InFlight
      BY <1>1 DEF InFlight
    <2> QED
      BY <1>1, <2>1, SemaphoreSame
  <1>2. ASSUME NEW u \in Users, UserCall(u)
        PROVE  SemaphoreExact'
    <2> DEFINE call == Head(lp[u].io)
               dl == [token |-> call.token, pc |-> "spawned"]
    <2>1. CASE call.op = "dial"
      <3>1. dials' = Append(dials, dl) /\ UNCHANGED dialSem
        BY <1>2, <2>1 DEF UserCall, AsyncDial
      <3>2. dl.pc = "spawned"
        OBVIOUS
      <3> HIDE DEF dl
      <3>3. /\ DOMAIN dials' = DOMAIN dials \cup {Len(dials) + 1}
            /\ dials'[Len(dials) + 1].pc = "spawned"
            /\ \A e \in DOMAIN dials : dials'[e] = dials[e]
        BY <1>0, <3>1, <3>2
      <3>4. Len(dials) + 1 \notin DOMAIN dials
        BY <1>0
      <3>5. InFlight' = InFlight
        BY <3>3, <3>4 DEF InFlight
      <3> QED
        BY <3>1, <3>5, SemaphoreSame
    <2>2. CASE call.op # "dial"
      BY <1>1, <1>2, <2>2 DEF UserCall
    <2> QED
      BY <2>1, <2>2
  <1>3. ASSUME NEW u \in Users, UserTraffic(u) \/ Lookup(u) \/ Admit(u) \/ UserCloses(u)
        PROVE  SemaphoreExact'
    BY <1>1, <1>3 DEF UserTraffic, Lookup, Admit, UserCloses, dialerVars
  <1>4. CASE Consumer
    BY <1>1, <1>4 DEF Consumer, Receive, ReceiveCall
  <1>5. CASE DialerSteps
    BY <1>0, <1>5, SemaphoreDialer
  <1>6. CASE UNCHANGED vars
    BY <1>1, <1>6 DEF vars, dialerVars
  <1> QED
    BY <1>2, <1>3, <1>4, <1>5, <1>6 DEF Next, UserLoop

\* The semaphore counts the dials in flight exactly, also in the client's
\* mode, where a failed dial is reported on recvChan before its token is
\* given back (dialer.go:93-97).
THEOREM SemaphoreCounts == Spec => []SemaphoreExact
  <1>1. Init => SemaphoreExact
    <2> SUFFICES ASSUME Init PROVE SemaphoreExact
      OBVIOUS
    <2>1. InFlight = {} /\ dialSem = 0
      BY DEF Init, DialerInit, InFlight
    <2> QED
      BY <2>1, FS_EmptySet, DialerAssumption DEF SemaphoreExact, DialerAssumption
  <1>2. IInv /\ SemaphoreExact /\ [Next]_vars => SemaphoreExact'
    BY NextSemaphore, DialerAssumption
  <1> QED
    BY <1>1, <1>2, ClientInvariant, PTL DEF Spec

\* Every variable keeps its type; in particular no send is ever addressed to
\* a nil connection, no map refers to a session or connection that does not
\* exist, and the semaphore never holds more tokens than it has.
THEOREM TypeCorrect == Spec => []TypeOK
  <1>1. IInv /\ SemaphoreExact => TypeOK
    <2> SUFFICES ASSUME IInv, SemaphoreExact PROVE TypeOK
      OBVIOUS
    <2>1. dials \in Seq(Dial) /\ dialSem \in Int
      BY DEF IInv, DialerInv, DialerTypeOK
    <2>2. Cardinality(InFlight) \in Nat
      BY <2>1, InFlightFinite, FS_CardinalityType
    <2>3. dialSem \in 0..MaxConcurrentDials
      BY <2>1, <2>2, DialerAssumption DEF SemaphoreExact, DialerAssumption
    <2> QED
      BY <2>3 DEF IInv, DialerInv, TableInv, LoopInv, TypeOK
  <1> QED
    BY <1>1, ClientInvariant, SemaphoreCounts, PTL

(***************************************************************************)
(* What ClientForwarder writes to the server and to the users, in order    *)
(* and with nothing lost: proofs of UpstreamInOrder, UpstreamNotLost,      *)
(* DownstreamInOrder and DownstreamNotLost for every number of users and   *)
(* packets, and that nobody gets what was not sent.                        *)
(*                                                                         *)
(* Upstream, packets for a connection wait in three places, one behind the *)
(* other: among the dialer's tasks, in the replay the receiving goroutine  *)
(* is in the middle of, and in the user's own loop, which is about to      *)
(* forward.  Downstream, see Coming.                                       *)
(***************************************************************************)


(***************************************************************************)
(* The line of a connection                                                *)
(***************************************************************************)
Owner(d)     == dials[d].token.user
SessionOf(d) == dials[d].token.session
Bound(d)     == sess[SessionOf(d)].serverConn = d

\* Where in s the packets for d are.
Writes(s, d) == {i \in DOMAIN s : s[i].op = "write" /\ s[i].conn = d}

\* The owner's loop is about to forward a packet on d.
LoopCallOf(d) == Head(lp[Owner(d)].io)
Sending(d) == lp[Owner(d)].pc = "io" /\ LoopCallOf(d).op = "send" /\ LoopCallOf(d).conn = d
SendSeq(d) == LoopCallOf(d).pkt.seq

\* The packet with number q is on its way to d.
OnLine(d, q) ==
  \/ \E i \in Writes(tasks, d) : tasks[i].payload.seq = q
  \/ \E i \in Writes(rcv.io, d) : rcv.io[i].payload.seq = q
  \/ Sending(d) /\ SendSeq(d) = q

Increasing(s, d) ==
  \A i, j \in Writes(s, d) : i < j => s[i].payload.seq < s[j].payload.seq

\* They wait in the order of their numbers.
Ordered(d) ==
  /\ Increasing(tasks, d)
  /\ Increasing(rcv.io, d)
  /\ \A i \in Writes(tasks, d), j \in Writes(rcv.io, d) :
       tasks[i].payload.seq < rcv.io[j].payload.seq
  /\ Sending(d) =>
       /\ \A i \in Writes(tasks, d) : tasks[i].payload.seq < SendSeq(d)
       /\ \A i \in Writes(rcv.io, d) : rcv.io[i].payload.seq < SendSeq(d)

LastOut(d) == conns[d].out[Len(conns[d].out)].seq

\* The packets lo to hi, and no others, are on their way, in order, behind
\* those written.
Line(d, lo, hi) ==
  /\ Ordered(d)
  /\ \A q \in Int : OnLine(d, q) <=> lo <= q /\ q <= hi
  /\ conns[d].out # <<>> => LastOut(d) = lo - 1

Unused(d) ==
  /\ Writes(tasks, d) = {} /\ Writes(rcv.io, d) = {} /\ ~Sending(d)
  /\ conns[d].out = <<>>

(***************************************************************************)
(* The inductive invariant                                                 *)
(***************************************************************************)

\* Packets go to the connection of their own user's dial; a forward is of
\* the dial's session, and a replay holds that session's sendMu.
TasksOwn ==
  \A i \in DOMAIN tasks :
    tasks[i].op = "write" =>
      tasks[i].conn \in DOMAIN dials /\ tasks[i].payload.user = Owner(tasks[i].conn)

ReplayOwn ==
  \A i \in DOMAIN rcv.io :
    rcv.io[i].op = "write" =>
      /\ rcv.io[i].conn \in DOMAIN dials
      /\ rcv.io[i].payload.user = Owner(rcv.io[i].conn)
      /\ rcv.sendMu = SessionOf(rcv.io[i].conn)

SendsOwn ==
  \A u \in Users :
    lp[u].pc = "io" /\ Head(lp[u].io).op = "send" =>
      LET call == Head(lp[u].io) IN
        /\ call.conn \in DOMAIN dials
        /\ u = Owner(call.conn) /\ call.pkt.user = u
        /\ call.session = SessionOf(call.conn)

RoutesOwn == \A d \in DOMAIN byServer : byServer[d] = Owner(d)

OwnInv == TasksOwn /\ ReplayOwn /\ SendsOwn /\ RoutesOwn

\* Two messages report the same connection open.
SameOpen(m, n) == m.event = "Open" /\ n.event = "Open" /\ m.conn = n.conn

\* The Open of a connection comes once, and binds it.
OpensDistinct ==
  /\ \A i, j \in DOMAIN recvChan : SameOpen(recvChan[i], recvChan[j]) => i = j
  /\ \A i \in DOMAIN recvChan, j \in DOMAIN loop.blocked :
       ~SameOpen(recvChan[i], loop.blocked[j])

OpensUnbound == \A msg \in Events : msg.event = "Open" => ~Bound(msg.conn)

\* Nothing is sent to a connection before its Open is handled.
UnboundUnused == \A d \in DOMAIN dials : ~Bound(d) => Unused(d)

Lines ==
  \A d \in DOMAIN dials : conns[d].st # "closed" => \E lo, hi \in Int : Line(d, lo, hi)

\* With what was written, nothing on the line is missing.
Whole(d, lo, hi) == lo <= hi + 1 /\ (conns[d].out = <<>> => lo <= hi)

\* It is the last on the line of the user's session.
NewestLast ==
  \A u \in DOMAIN byUser, d \in DOMAIN dials :
    sess[byUser[u]].serverConn = d /\ conns[d].st # "closed" =>
      \E lo, hi \in Int : hi = Admitted(u) /\ Whole(d, lo, hi) /\ Line(d, lo, hi)

\* While the session dials, it is the last that is pending.
PendingRun ==
  \A u \in DOMAIN byUser :
    sess[byUser[u]].dialing =>
      LET pending == sess[byUser[u]].pending IN
        /\ sess[byUser[u]].serverConn = NoConn
        /\ pending # <<>>
        /\ \A i \in DOMAIN pending :
             pending[i].user = u /\ pending[i].seq = Admitted(u) - Len(pending) + i

OrderInv ==
  /\ OwnInv
  /\ OpensDistinct
  /\ OpensUnbound
  /\ UnboundUnused
  /\ Lines
  /\ NewestLast
  /\ PendingRun
  /\ UpstreamInOrder

(***************************************************************************)
(* What a step does to the line of a connection                            *)
(***************************************************************************)

\* The packets for d in t are those in s, k places further back there.
SeqSame(s, t, d, k) ==
  /\ Writes(t, d) \subseteq Int
  /\ \A i \in Int : i \in Writes(t, d) <=> i + k \in Writes(s, d)
  /\ \A i \in Writes(t, d) : t[i].payload = s[i + k].payload

SendSame(d) ==
  /\ Sending(d)' <=> Sending(d)
  /\ Sending(d) => SendSeq(d)' = SendSeq(d)

LineSame(d) ==
  /\ \E k \in {0, 1} : SeqSame(tasks, tasks', d, k)
  /\ \E k \in {0, 1} : SeqSame(rcv.io, rcv'.io, d, k)
  /\ SendSame(d)
  /\ conns'[d].out = conns[d].out

\* The last packet on the line stays the last.
LineMoves(d) ==
  \A lo, hi \in Int :
    Line(d, lo, hi) =>
      \E l \in Int : (Whole(d, lo, hi) => Whole(d, l, hi)') /\ Line(d, l, hi)'

\* Positions are integers.
LEMMA WritesInt ==
  ASSUME NEW T, NEW s \in Seq(T), NEW d
  PROVE  Writes(s, d) \subseteq Int
  BY DEF Writes

\* The queues of a connection are sequences with numbered packets.
LEMMA Numbered ==
  ASSUME IInv
  PROVE  /\ \A d : Writes(tasks, d) \subseteq Int /\ Writes(rcv.io, d) \subseteq Int
         /\ \A d : \A i \in Writes(tasks, d) :
              tasks[i].payload \in Packet /\ tasks[i].payload.seq \in Nat
         /\ \A d : \A i \in Writes(rcv.io, d) :
              rcv.io[i].payload \in Packet /\ rcv.io[i].payload.seq \in Nat
         /\ \A d \in DOMAIN dials :
              Owner(d) \in Users /\ SessionOf(d) \in DOMAIN sess
         /\ \A u \in Users :
              lp[u].pc = "io" => Head(lp[u].io) \in LoopCall /\ Len(lp[u].io) = 1
         /\ \A d \in DOMAIN dials : Sending(d) => SendSeq(d) \in Nat
  <1>1. /\ tasks \in Seq(Task) /\ rcv.io \in Seq(RcvCall)
        /\ dials \in Seq(Dial) /\ lp \in [Users -> UserLoopState]
        /\ CallsFresh /\ DialsDistinct
    BY DEF IInv, DialerInv, DialerTypeOK, ReceiverTypeOK, LoopInv, UserTypeOK, TableInv
  <1>2. \A d : Writes(tasks, d) \subseteq Int /\ Writes(rcv.io, d) \subseteq Int
    BY <1>1, WritesInt
  <1>3. \A d : \A i \in Writes(tasks, d) :
          tasks[i].payload \in Packet /\ tasks[i].payload.seq \in Nat
    <2>1. \A i \in DOMAIN tasks : tasks[i] \in Task
      BY <1>1
    <2>2. \A t \in Task : t.op = "write" => t.payload \in Packet
      BY TaskFields
    <2> QED
      BY <2>1, <2>2 DEF Writes, Packet
  <1>4. \A d : \A i \in Writes(rcv.io, d) :
          rcv.io[i].payload \in Packet /\ rcv.io[i].payload.seq \in Nat
    <2>1. \A i \in DOMAIN rcv.io : rcv.io[i] \in RcvCall
      BY <1>1
    <2>2. \A t \in RcvCall : t.op = "write" => t \in Task
      BY RcvCallFields
    <2>3. \A t \in Task : t.op = "write" => t.payload \in Packet
      BY TaskFields
    <2> QED
      BY <2>1, <2>2, <2>3 DEF Writes, Packet
  <1>5. \A d \in DOMAIN dials : Owner(d) \in Users /\ SessionOf(d) \in DOMAIN sess
    <2>1. \A d \in DOMAIN dials : dials[d] \in Dial
      BY <1>1
    <2> QED
      BY <1>1, <2>1 DEF Dial, Token, Owner, SessionOf, DialsDistinct
  <1>6. \A u \in Users : lp[u].pc = "io" => Head(lp[u].io) \in LoopCall /\ Len(lp[u].io) = 1
    <2>1. \A u \in Users : lp[u].io \in Seq(LoopCall)
      BY <1>1 DEF UserLoopState
    <2> QED
      BY <1>1, <2>1 DEF CallsFresh
  <1>7. \A d \in DOMAIN dials : Sending(d) => SendSeq(d) \in Nat
    <2>1. \A c \in LoopCall : c.op = "send" => c.pkt \in Packet
      BY LoopCallFields
    <2> QED
      BY <1>5, <1>6, <2>1 DEF Sending, SendSeq, LoopCallOf, Packet
  <1> QED
    BY <1>2, <1>3, <1>4, <1>5, <1>6, <1>7

\* Nothing of the connection moves, but the places may shift.
LEMMA SameLine ==
  ASSUME IInv, NEW d \in DOMAIN dials, LineSame(d), NEW lo \in Int, NEW hi \in Int,
         Line(d, lo, hi)
  PROVE  Line(d, lo, hi)'
  <1>1. PICK k \in {0, 1} : SeqSame(tasks, tasks', d, k)
    BY DEF LineSame
  <1>2. PICK m \in {0, 1} : SeqSame(rcv.io, rcv'.io, d, m)
    BY DEF LineSame
  <1>3. SendSame(d) /\ conns'[d].out = conns[d].out
    BY DEF LineSame
  <1>4. /\ Writes(tasks, d) \subseteq Int /\ Writes(tasks', d) = Writes(tasks, d)'
        /\ Writes(rcv.io, d) \subseteq Int /\ Writes(rcv'.io, d) = Writes(rcv.io, d)'
    BY Numbered DEF Writes
  <1>5. \A j \in Writes(tasks, d) : j - k \in Writes(tasks, d)'
    BY <1>1, <1>4 DEF SeqSame
  <1>6. \A j \in Writes(rcv.io, d) : j - m \in Writes(rcv.io, d)'
    BY <1>2, <1>4 DEF SeqSame
  <1>7. /\ Writes(tasks, d)' \subseteq Int
        /\ \A i \in Writes(tasks, d)' :
             i + k \in Writes(tasks, d) /\ tasks'[i].payload = tasks[i + k].payload
    BY <1>1, <1>4 DEF SeqSame
  <1>8. /\ Writes(rcv.io, d)' \subseteq Int
        /\ \A i \in Writes(rcv.io, d)' :
             i + m \in Writes(rcv.io, d) /\ rcv'.io[i].payload = rcv.io[i + m].payload
    BY <1>2, <1>4 DEF SeqSame
  <1>9. \A q \in Int : OnLine(d, q)' <=> OnLine(d, q)
    BY <1>3, <1>4, <1>5, <1>6, <1>7, <1>8 DEF OnLine, SendSame
  <1>10. Ordered(d)'
    <2>1. Ordered(d)
      BY DEF Line
    <2>2. Increasing(tasks, d)'
      <3>1. \A i, j \in Writes(tasks, d)' : i < j => i + k < j + k
        BY <1>7
      <3> QED
        BY <1>7, <2>1, <3>1 DEF Ordered, Increasing
    <2>3. Increasing(rcv.io, d)'
      <3>1. \A i, j \in Writes(rcv.io, d)' : i < j => i + m < j + m
        BY <1>8
      <3> QED
        BY <1>8, <2>1, <3>1 DEF Ordered, Increasing
    <2>4. \A i \in Writes(tasks, d)', j \in Writes(rcv.io, d)' :
            tasks'[i].payload.seq < rcv'.io[j].payload.seq
      BY <1>7, <1>8, <2>1 DEF Ordered
    <2>5. Sending(d)' =>
            /\ \A i \in Writes(tasks, d)' : tasks'[i].payload.seq < SendSeq(d)'
            /\ \A i \in Writes(rcv.io, d)' : rcv'.io[i].payload.seq < SendSeq(d)'
      BY <1>3, <1>7, <1>8, <2>1 DEF Ordered, SendSame
    <2> QED
      BY <2>2, <2>3, <2>4, <2>5 DEF Ordered
  <1> QED
    BY <1>3, <1>9, <1>10 DEF Line, LastOut

\* Whether a task or call is a packet for d.
WriteTo(t, d) == t.op = "write" /\ t.conn = d

\* t is s with a packet for d behind the others.
Added(s, t, d, packet) ==
  \E n \in Int :
    /\ n \notin Writes(s, d) /\ Writes(t, d) = Writes(s, d) \cup {n}
    /\ \A i \in Writes(s, d) : i < n /\ t[i] = s[i]
    /\ t[n].payload = packet

\* t is s without its first, which is for d.
Taken(s, t, d) ==
  /\ 1 \in Writes(s, d)
  /\ \A i \in Writes(t, d) :
       i \in Int /\ 1 <= i /\ i + 1 \in Writes(s, d) /\ t[i] = s[i + 1]
  /\ \A j \in Writes(s, d) : 1 <= j /\ (j # 1 => j - 1 \in Writes(t, d))

LEMMA SeqAppended ==
  ASSUME NEW T, NEW s \in Seq(T), NEW t \in T, NEW d, NEW r, r = Append(s, t)
  PROVE  /\ ~WriteTo(t, d) => SeqSame(s, r, d, 0)
         /\ WriteTo(t, d) => Added(s, r, d, t.payload)
  <1>1. /\ Len(s) \in Nat /\ DOMAIN s = 1..Len(s)
        /\ DOMAIN r = 1..(Len(s) + 1)
        /\ \A i \in DOMAIN s : r[i] = s[i]
        /\ r[Len(s) + 1] = t
    OBVIOUS
  <1>2. Writes(r, d) = Writes(s, d) \cup (IF WriteTo(t, d) THEN {Len(s) + 1} ELSE {})
    BY <1>1 DEF Writes, WriteTo
  <1>3. /\ \A i \in Writes(s, d) : r[i] = s[i] /\ i < Len(s) + 1 /\ i \in Int
        /\ Len(s) + 1 \notin Writes(s, d) /\ Len(s) + 1 \in Int
    BY <1>1 DEF Writes
  <1>4. ASSUME ~WriteTo(t, d) PROVE SeqSame(s, r, d, 0)
    <2>1. Writes(r, d) = Writes(s, d) /\ Writes(s, d) \subseteq Int
      BY <1>2, <1>3, <1>4
    <2>2. \A i \in Int : i + 0 = i
      OBVIOUS
    <2> QED
      BY <1>3, <2>1, <2>2 DEF SeqSame
  <1>5. ASSUME WriteTo(t, d) PROVE Added(s, r, d, t.payload)
    <2>1. Writes(r, d) = Writes(s, d) \cup {Len(s) + 1} /\ r[Len(s) + 1].payload = t.payload
      BY <1>1, <1>2, <1>5
    <2> QED
      BY <1>3, <2>1, Zenon DEF Added
  <1> QED
    BY <1>4, <1>5, Zenon

LEMMA SeqTaken ==
  ASSUME NEW T, NEW s \in Seq(T), s # <<>>, NEW d, NEW r, r = Tail(s)
  PROVE  /\ ~WriteTo(Head(s), d) => SeqSame(s, r, d, 1)
         /\ WriteTo(Head(s), d) => Taken(s, r, d) /\ s[1].payload = Head(s).payload
  <1>1. /\ Len(s) \in Nat \ {0} /\ DOMAIN s = 1..Len(s)
        /\ DOMAIN r = 1..(Len(s) - 1)
        /\ \A i \in DOMAIN r : r[i] = s[i + 1]
        /\ Head(s) = s[1]
    OBVIOUS
  <1>2. /\ \A i \in Writes(r, d) :
             i \in Int /\ 1 <= i /\ i + 1 \in Writes(s, d) /\ r[i] = s[i + 1]
        /\ \A j \in Writes(s, d) : 1 <= j /\ j \in Int /\ (j # 1 => j - 1 \in Writes(r, d))
        /\ 0 \notin Writes(r, d)
    BY <1>1 DEF Writes
  <1>3. 1 \in Writes(s, d) <=> WriteTo(Head(s), d)
    BY <1>1 DEF Writes, WriteTo
  <1>4. ASSUME ~WriteTo(Head(s), d) PROVE SeqSame(s, r, d, 1)
    <2>1. \A i \in Int : i \in Writes(r, d) <=> i + 1 \in Writes(s, d)
      <3>1. \A i \in Int : i + 1 - 1 = i /\ (i + 1 = 1 => i = 0)
        OBVIOUS
      <3> QED
        BY <1>2, <1>3, <1>4, <3>1
    <2> QED
      BY <1>2, <2>1 DEF SeqSame
  <1>5. ASSUME WriteTo(Head(s), d) PROVE Taken(s, r, d) /\ s[1].payload = Head(s).payload
    BY <1>1, <1>2, <1>3, <1>5 DEF Taken
  <1> QED
    BY <1>4, <1>5, Zenon

\* A sequence that stays.
LEMMA SeqUnchanged ==
  ASSUME NEW T, NEW s \in Seq(T), NEW t, t = s, NEW d
  PROVE  SeqSame(s, t, d, 0)
  BY WritesInt DEF SeqSame

\* The first task is the lowest number of its line; it is written.
LEMMA FirstWritten ==
  ASSUME IInv, NEW d \in DOMAIN dials, NEW lo \in Int, NEW hi \in Int, Line(d, lo, hi),
         Taken(tasks, tasks', d), NEW p, tasks[1].payload = p,
         UNCHANGED rcv, SendSame(d), conns'[d].out # <<>>, LastOut(d)' = p.seq
  PROVE  /\ lo <= hi
         /\ p.seq = lo
         /\ Line(d, lo + 1, hi)'
  <1>1. /\ 1 \in Writes(tasks, d)
        /\ \A i \in Writes(tasks, d)' :
             i \in Int /\ 1 <= i /\ i + 1 \in Writes(tasks, d) /\ tasks'[i] = tasks[i + 1]
        /\ \A j \in Writes(tasks, d) : 1 <= j /\ (j # 1 => j - 1 \in Writes(tasks, d)')
    <2>1. Writes(tasks', d) = Writes(tasks, d)'
      BY DEF Writes
    <2> QED
      BY <2>1 DEF Taken
  <1>2. /\ p.seq \in Nat
        /\ \A i \in Writes(tasks, d) : tasks[i].payload.seq \in Nat /\ i \in Int
        /\ \A i \in Writes(rcv.io, d) : rcv.io[i].payload.seq \in Nat
        /\ Sending(d) => SendSeq(d) \in Nat
    BY <1>1, Numbered
  <1>4. /\ Ordered(d)
        /\ \A q \in Int : OnLine(d, q) <=> lo <= q /\ q <= hi
    BY DEF Line
  <1>5. OnLine(d, p.seq) /\ lo <= p.seq /\ p.seq <= hi
    BY <1>1, <1>2, <1>4 DEF OnLine
  <1>6. /\ \A i \in Writes(tasks, d) : i # 1 => p.seq < tasks[i].payload.seq
        /\ \A i \in Writes(rcv.io, d) : p.seq < rcv.io[i].payload.seq
        /\ Sending(d) => p.seq < SendSeq(d)
    BY <1>1, <1>2, <1>4 DEF Ordered, Increasing
  <1>7. p.seq = lo
    <2>1. OnLine(d, lo)
      BY <1>2, <1>4, <1>5
    <2> QED
      BY <1>2, <1>5, <1>6, <2>1 DEF OnLine
  <1>8. Writes(rcv.io, d)' = Writes(rcv.io, d) /\ rcv' = rcv
    BY DEF Writes
  <1>9. Ordered(d)'
    <2>1. \A i \in Writes(tasks, d)' :
            i + 1 \in Writes(tasks, d) /\ tasks'[i].payload.seq = tasks[i + 1].payload.seq
      BY <1>1
    <2>2. Increasing(tasks, d)'
      <3>1. \A i, j \in Writes(tasks, d)' : i < j => tasks'[i].payload.seq < tasks'[j].payload.seq
        <4> SUFFICES ASSUME NEW i \in Writes(tasks, d)', NEW j \in Writes(tasks, d)', i < j
                     PROVE  tasks'[i].payload.seq < tasks'[j].payload.seq
          OBVIOUS
        <4>1. i \in Int /\ j \in Int /\ i + 1 < j + 1
          BY <1>1
        <4> QED
          BY <1>4, <2>1, <4>1 DEF Ordered, Increasing
      <3> QED
        BY <3>1 DEF Increasing
    <2>3. Increasing(rcv.io, d)'
      BY <1>4, <1>8 DEF Ordered, Increasing
    <2>4. \A i \in Writes(tasks, d)', j \in Writes(rcv.io, d)' :
            tasks'[i].payload.seq < rcv'.io[j].payload.seq
      BY <1>4, <1>8, <2>1 DEF Ordered
    <2>5. Sending(d)' =>
            /\ \A i \in Writes(tasks, d)' : tasks'[i].payload.seq < SendSeq(d)'
            /\ \A i \in Writes(rcv.io, d)' : rcv'.io[i].payload.seq < SendSeq(d)'
      BY <1>4, <1>8, <2>1 DEF Ordered, SendSame
    <2> QED
      BY <2>2, <2>3, <2>4, <2>5 DEF Ordered
  <1>10. ASSUME NEW q \in Int PROVE OnLine(d, q)' <=> lo + 1 <= q /\ q <= hi
    <2>1. OnLine(d, q)' => OnLine(d, q) /\ q # p.seq
      <3>1. \A i \in Writes(tasks, d)' : i + 1 # 1
        BY <1>1
      <3>2. \A i \in Writes(tasks, d)' :
              /\ i + 1 \in Writes(tasks, d) /\ tasks'[i].payload = tasks[i + 1].payload
              /\ p.seq < tasks'[i].payload.seq
        BY <1>1, <1>6, <3>1
      <3>3. ASSUME NEW i \in Writes(tasks, d)', tasks'[i].payload.seq = q
            PROVE  OnLine(d, q) /\ q # p.seq
        BY <1>2, <3>2, <3>3 DEF OnLine
      <3>4. ASSUME NEW i \in Writes(rcv.io, d), rcv.io[i].payload.seq = q
            PROVE  OnLine(d, q) /\ q # p.seq
        BY <1>2, <1>6, <3>4 DEF OnLine
      <3>5. ASSUME Sending(d), SendSeq(d) = q
            PROVE  OnLine(d, q) /\ q # p.seq
        BY <1>2, <1>6, <3>5 DEF OnLine
      <3> QED
        BY <1>8, <3>3, <3>4, <3>5 DEF OnLine, SendSame
    <2>2. OnLine(d, q) /\ q # p.seq => OnLine(d, q)'
      BY <1>1, <1>2, <1>8 DEF OnLine, SendSame
    <2> QED
      BY <1>4, <1>7, <2>1, <2>2
  <1> QED
    BY <1>5, <1>7, <1>9, <1>10 DEF Line

\* A forward is submitted; no replay is under way.
LEMMA ForwardSubmitted ==
  ASSUME IInv, NEW d \in DOMAIN dials, NEW lo \in Int, NEW hi \in Int, Line(d, lo, hi),
         Sending(d), Writes(rcv.io, d) = {}, NEW p, p.seq = SendSeq(d),
         Added(tasks, tasks', d, p), UNCHANGED rcv, ~Sending(d)',
         conns'[d].out = conns[d].out
  PROVE  Line(d, lo, hi)'
  <1>1. PICK n \in Int :
          /\ n \notin Writes(tasks, d) /\ Writes(tasks, d)' = Writes(tasks, d) \cup {n}
          /\ \A i \in Writes(tasks, d) : i < n /\ tasks'[i] = tasks[i]
          /\ tasks'[n].payload = p
    <2>1. Writes(tasks', d) = Writes(tasks, d)'
      BY DEF Writes
    <2> QED
      BY <2>1 DEF Added
  <1>2. /\ p.seq \in Nat
        /\ \A i \in Writes(tasks, d) : tasks[i].payload.seq \in Nat /\ i \in Int
    BY Numbered
  <1>3. Writes(rcv.io, d)' = {}
    BY DEF Writes
  <1>4. Ordered(d)'
    BY <1>1, <1>2, <1>3 DEF Line, Ordered, Increasing
  <1>5. \A q \in Int : OnLine(d, q)' <=> OnLine(d, q)
    BY <1>1, <1>2, <1>3 DEF OnLine
  <1> QED
    BY <1>4, <1>5 DEF Line, LastOut

\* A packet of the replay is submitted.
LEMMA ReplaySubmitted ==
  ASSUME IInv, NEW d \in DOMAIN dials, NEW lo \in Int, NEW hi \in Int, Line(d, lo, hi),
         NEW p, rcv.io[1].payload = p, Taken(rcv.io, rcv'.io, d),
         Added(tasks, tasks', d, p), SendSame(d), conns'[d].out = conns[d].out
  PROVE  Line(d, lo, hi)'
  <1>1. PICK n \in Int :
          /\ n \notin Writes(tasks, d) /\ Writes(tasks, d)' = Writes(tasks, d) \cup {n}
          /\ \A i \in Writes(tasks, d) : i < n /\ tasks'[i] = tasks[i]
          /\ tasks'[n].payload = p
    <2>1. Writes(tasks', d) = Writes(tasks, d)'
      BY DEF Writes
    <2> QED
      BY <2>1 DEF Added
  <1>2. /\ 1 \in Writes(rcv.io, d)
        /\ \A i \in Writes(rcv.io, d)' :
             i \in Int /\ 1 <= i /\ i + 1 \in Writes(rcv.io, d) /\ rcv'.io[i] = rcv.io[i + 1]
        /\ \A j \in Writes(rcv.io, d) : 1 <= j /\ (j # 1 => j - 1 \in Writes(rcv.io, d)')
    <2>1. Writes(rcv'.io, d) = Writes(rcv.io, d)'
      BY DEF Writes
    <2> QED
      BY <2>1 DEF Taken
  <1>3. /\ p.seq \in Nat
        /\ \A i \in Writes(tasks, d) : tasks[i].payload.seq \in Nat /\ i \in Int
        /\ \A i \in Writes(rcv.io, d) : rcv.io[i].payload.seq \in Nat /\ i \in Int
        /\ Sending(d) => SendSeq(d) \in Nat
    BY <1>2, Numbered
  <1>4. Ordered(d)
    BY DEF Line
  <1>5. \A i \in Writes(rcv.io, d)' : i + 1 # 1 /\ p.seq < rcv'.io[i].payload.seq
    BY <1>2, <1>3, <1>4 DEF Ordered, Increasing
  <1>6. \A i \in Writes(tasks, d) : tasks[i].payload.seq < p.seq
    BY <1>2, <1>4 DEF Ordered
  <1>7. Ordered(d)'
    <2>1. Increasing(tasks, d)'
      BY <1>1, <1>3, <1>4, <1>6 DEF Ordered, Increasing
    <2>2. Increasing(rcv.io, d)'
      BY <1>2, <1>3, <1>4 DEF Ordered, Increasing
    <2>3. \A i \in Writes(tasks, d)', j \in Writes(rcv.io, d)' :
            tasks'[i].payload.seq < rcv'.io[j].payload.seq
      BY <1>1, <1>2, <1>4, <1>5 DEF Ordered
    <2>4. Sending(d)' =>
            /\ \A i \in Writes(tasks, d)' : tasks'[i].payload.seq < SendSeq(d)'
            /\ \A i \in Writes(rcv.io, d)' : rcv'.io[i].payload.seq < SendSeq(d)'
      BY <1>1, <1>2, <1>4 DEF Ordered, SendSame
    <2> QED
      BY <2>1, <2>2, <2>3, <2>4 DEF Ordered
  <1>8. \A q \in Int : OnLine(d, q)' <=> OnLine(d, q)
    <2>1. \A q \in Int : OnLine(d, q) => OnLine(d, q)'
      BY <1>1, <1>2, <1>3 DEF OnLine, SendSame
    <2>2. \A q \in Int : OnLine(d, q)' => OnLine(d, q)
      BY <1>1, <1>2, <1>3 DEF OnLine, SendSame
    <2> QED
      BY <2>1, <2>2
  <1> QED
    BY <1>7, <1>8 DEF Line, LastOut

\* A forward is decided: its packet is the next number.
LEMMA ForwardDecided ==
  ASSUME IInv, NEW d \in DOMAIN dials, NEW lo \in Int, NEW hi \in Int, Line(d, lo, hi),
         lo <= hi + 1, ~Sending(d), Sending(d)', SendSeq(d)' = hi + 1,
         UNCHANGED <<tasks, rcv>>, conns'[d].out = conns[d].out
  PROVE  Line(d, lo, hi + 1)'
  <1>1. /\ Writes(tasks, d)' = Writes(tasks, d) /\ Writes(rcv.io, d)' = Writes(rcv.io, d)
        /\ tasks' = tasks /\ rcv' = rcv
    BY DEF Writes
  <1>2. /\ \A i \in Writes(tasks, d) : tasks[i].payload.seq \in Nat
        /\ \A i \in Writes(rcv.io, d) : rcv.io[i].payload.seq \in Nat
    BY Numbered
  <1>3. /\ Ordered(d)
        /\ \A q \in Int : OnLine(d, q) <=> lo <= q /\ q <= hi
    BY DEF Line
  <1>4. /\ \A i \in Writes(tasks, d) : tasks[i].payload.seq <= hi
        /\ \A i \in Writes(rcv.io, d) : rcv.io[i].payload.seq <= hi
    BY <1>2, <1>3 DEF OnLine
  <1>5. Ordered(d)'
    BY <1>1, <1>2, <1>3, <1>4 DEF Ordered, Increasing
  <1>6. \A q \in Int : OnLine(d, q)' <=> OnLine(d, q) \/ q = hi + 1
    BY <1>1 DEF OnLine
  <1> QED
    BY <1>3, <1>5, <1>6 DEF Line, LastOut

\* What nobody used has an empty line.
LEMMA UnusedLine ==
  ASSUME NEW d, Unused(d)', NEW hi \in Int
  PROVE  Line(d, hi + 1, hi)'
  <1>1. \A q \in Int : ~OnLine(d, q)'
    BY DEF Unused, OnLine
  <1>2. Ordered(d)'
    BY DEF Unused, Ordered, Increasing
  <1> QED
    BY <1>1, <1>2 DEF Line, Unused

\* The replay begins: the pending packets, in the order they were admitted.
LEMMA ReplayBegins ==
  ASSUME IInv, NEW d \in DOMAIN dials, Unused(d), NEW pending \in Seq(Packet),
         NEW hi \in Int,
         \A i \in DOMAIN pending : pending[i].seq = hi - Len(pending) + i,
         rcv'.io = Replay(d, pending), UNCHANGED tasks, SendSame(d),
         conns'[d].out = conns[d].out
  PROVE  Line(d, hi - Len(pending) + 1, hi)'
  <1> DEFINE n == Len(pending)
  <1>1. n \in Nat /\ DOMAIN pending = 1..n
    OBVIOUS
  <1>2. /\ Writes(rcv.io, d)' = 1..n
        /\ \A i \in 1..n : rcv'.io[i].payload.seq = hi - n + i
    <2>1. /\ DOMAIN rcv'.io = 1..n
          /\ \A i \in 1..n : rcv'.io[i].op = "write" /\ rcv'.io[i].conn = d
                             /\ rcv'.io[i].payload = pending[i]
      BY <1>1 DEF Replay, WriteTask
    <2> QED
      BY <1>1, <2>1 DEF Writes
  <1>3. Writes(tasks, d)' = {} /\ ~Sending(d)' /\ conns'[d].out = <<>>
    BY DEF Writes, Unused, SendSame
  <1> HIDE DEF n
  <1>4. Ordered(d)'
    BY <1>1, <1>2, <1>3 DEF Ordered, Increasing
  <1>5. ASSUME NEW q \in Int PROVE OnLine(d, q)' <=> hi - n + 1 <= q /\ q <= hi
    <2>1. OnLine(d, q)' <=> \E i \in 1..n : hi - n + i = q
      BY <1>2, <1>3 DEF OnLine
    <2>2. hi - n + 1 <= q /\ q <= hi => q - hi + n \in 1..n /\ hi - n + (q - hi + n) = q
      BY <1>1
    <2> QED
      BY <1>1, <2>1, <2>2
  <1> QED
    BY <1>3, <1>4, <1>5 DEF Line, n

LEMMA SameMoves ==
  ASSUME IInv, NEW d \in DOMAIN dials, LineSame(d)
  PROVE  LineMoves(d)
  BY SameLine DEF LineMoves, LineSame, Whole

(***************************************************************************)
(* All lines                                                               *)
(***************************************************************************)

\* The line of every connection but d0 moves, or stays, and of d0 the step
\* itself knows.
LEMMA AllLines ==
  ASSUME IInv, Lines, NewestLast, NEW d0,
         \A d \in DOMAIN dials' :
           d # d0 => /\ d \in DOMAIN dials
                     /\ conns'[d].st # "closed" => conns[d].st # "closed" /\ LineMoves(d),
         \A u \in DOMAIN byUser' :
           sess'[byUser'[u]].serverConn \in DOMAIN dials' \ {d0} =>
             /\ u \in DOMAIN byUser
             /\ sess[byUser[u]].serverConn = sess'[byUser'[u]].serverConn
             /\ Admitted(u)' = Admitted(u),
         d0 \in DOMAIN dials' /\ conns'[d0].st # "closed" =>
           \E lo, hi \in Int :
             /\ Line(d0, lo, hi)'
             /\ \A u \in DOMAIN byUser' :
                  sess'[byUser'[u]].serverConn = d0 =>
                    hi = Admitted(u)' /\ Whole(d0, lo, hi)'
  PROVE  Lines' /\ NewestLast'
  <1>1. Lines'
    <2>1. ASSUME NEW d \in DOMAIN dials', conns'[d].st # "closed", d # d0
          PROVE  \E lo, hi \in Int : Line(d, lo, hi)'
      <3>1. PICK lo \in Int, hi \in Int : Line(d, lo, hi)
        BY <2>1 DEF Lines
      <3>2. PICK l \in Int : Line(d, l, hi)'
        BY <2>1, <3>1 DEF LineMoves
      <3> QED
        BY <3>2
    <2> QED
      BY <2>1 DEF Lines
  <1>2. NewestLast'
    <2>1. ASSUME NEW u \in DOMAIN byUser', NEW d \in DOMAIN dials',
                 sess'[byUser'[u]].serverConn = d, conns'[d].st # "closed", d # d0
          PROVE  \E lo, hi \in Int : hi = Admitted(u)' /\ Whole(d, lo, hi)' /\ Line(d, lo, hi)'
      <3>1. PICK lo \in Int, hi \in Int :
              hi = Admitted(u) /\ Whole(d, lo, hi) /\ Line(d, lo, hi)
        BY <2>1 DEF NewestLast
      <3>2. PICK l \in Int : Whole(d, l, hi)' /\ Line(d, l, hi)'
        BY <2>1, <3>1 DEF LineMoves
      <3> QED
        BY <2>1, <3>1, <3>2
    <2>2. ASSUME NEW u \in DOMAIN byUser', NEW d \in DOMAIN dials',
                 sess'[byUser'[u]].serverConn = d, conns'[d].st # "closed", d = d0
          PROVE  \E lo, hi \in Int : hi = Admitted(u)' /\ Whole(d, lo, hi)' /\ Line(d, lo, hi)'
      <3>1. PICK lo \in Int, hi \in Int :
              /\ Line(d0, lo, hi)'
              /\ \A v \in DOMAIN byUser' :
                   sess'[byUser'[v]].serverConn = d0 =>
                         hi = Admitted(v)' /\ Whole(d0, lo, hi)'
        BY <2>2
      <3> QED
        BY <2>2, <3>1
    <2> QED
      BY <2>1, <2>2 DEF NewestLast
  <1> QED
    BY <1>1, <1>2

(***************************************************************************)
(* The Open events                                                         *)
(***************************************************************************)

\* The dials keep their user and session.
LEMMA TokensSame ==
  ASSUME DialsKept
  PROVE  \A d \in DOMAIN dials : Owner(d)' = Owner(d) /\ SessionOf(d)' = SessionOf(d)
  BY DEF DialsKept, Owner, SessionOf

\* An event appended that opens nothing reported open before.
LEMMA DistinctAppend ==
  ASSUME OpensDistinct, recvChan \in Seq(ConnEvent), NEW msg \in ConnEvent,
         recvChan' = Append(recvChan, msg), loop'.blocked = <<>>,
         \A i \in DOMAIN recvChan : ~SameOpen(recvChan[i], msg)
  PROVE  OpensDistinct'
  <1>1. /\ DOMAIN recvChan' = DOMAIN recvChan \cup {Len(recvChan) + 1}
        /\ \A i \in DOMAIN recvChan : recvChan'[i] = recvChan[i]
        /\ recvChan'[Len(recvChan) + 1] = msg
    OBVIOUS
  <1>2. \A i \in DOMAIN recvChan : ~SameOpen(msg, recvChan[i])
    BY DEF SameOpen
  <1>3. \A i, j \in DOMAIN recvChan : SameOpen(recvChan[i], recvChan[j]) => i = j
    BY DEF OpensDistinct
  <1>4. \A i, j \in DOMAIN recvChan' : SameOpen(recvChan'[i], recvChan'[j]) => i = j
    <2> SUFFICES ASSUME NEW i \in DOMAIN recvChan', NEW j \in DOMAIN recvChan',
                        SameOpen(recvChan'[i], recvChan'[j])
                 PROVE  i = j
      OBVIOUS
    <2>1. CASE i \in DOMAIN recvChan /\ j \in DOMAIN recvChan
      BY <1>1, <1>3, <2>1
    <2>2. CASE i \in DOMAIN recvChan /\ j = Len(recvChan) + 1
      BY <1>1, <2>2
    <2>3. CASE i = Len(recvChan) + 1 /\ j \in DOMAIN recvChan
      BY <1>1, <1>2, <2>3
    <2>4. CASE i = Len(recvChan) + 1 /\ j = Len(recvChan) + 1
      BY <2>4
    <2> QED
      BY <1>1, <2>1, <2>2, <2>3, <2>4
  <1>5. DOMAIN loop'.blocked = {}
    OBVIOUS
  <1> QED
    BY <1>4, <1>5 DEF OpensDistinct

\* Posting such an event.
LEMMA DistinctPost ==
  ASSUME OpensDistinct, recvChan \in Seq(ConnEvent), NEW msg \in ConnEvent, NEW failed,
         Post(msg, failed),
         \A i \in DOMAIN recvChan : ~SameOpen(recvChan[i], msg)
  PROVE  OpensDistinct'
  <1>1. CASE recvChan' = Append(recvChan, msg) /\ loop' = [blocked |-> <<>>, failed |-> failed]
    <2>1. loop'.blocked = <<>>
      BY <1>1
    <2> QED
      BY <1>1, <2>1, DistinctAppend
  <1>2. CASE loop' = [blocked |-> <<msg>>, failed |-> failed] /\ UNCHANGED recvChan
    <2>1. \A j \in DOMAIN loop'.blocked : loop'.blocked[j] = msg
      BY <1>2
    <2> QED
      BY <1>2, <2>1 DEF OpensDistinct
  <1> QED
    BY <1>1, <1>2 DEF Post

\* The loop gets rid of its event.
LEMMA DistinctUnblock ==
  ASSUME OpensDistinct, recvChan \in Seq(ConnEvent), loop \in Loop, LoopUnblocks
  PROVE  OpensDistinct'
  <1> DEFINE msg == Head(loop.blocked)
  <1>1. msg \in ConnEvent /\ msg = loop.blocked[1] /\ 1 \in DOMAIN loop.blocked
    BY DEF LoopUnblocks, Loop
  <1>2. recvChan' = Append(recvChan, msg) /\ loop'.blocked = <<>>
    BY DEF LoopUnblocks
  <1>3. \A i \in DOMAIN recvChan : ~SameOpen(recvChan[i], msg)
    BY <1>1 DEF OpensDistinct
  <1> HIDE DEF msg
  <1> QED
    BY <1>1, <1>2, <1>3, DistinctAppend

\* A failed dial is reported, whatever the loop holds.
LEMMA DistinctError ==
  ASSUME OpensDistinct, recvChan \in Seq(ConnEvent), NEW msg \in ConnEvent,
         msg.event # "Open", recvChan' = Append(recvChan, msg), UNCHANGED loop
  PROVE  OpensDistinct'
  <1>1. /\ DOMAIN recvChan' = DOMAIN recvChan \cup {Len(recvChan) + 1}
        /\ \A i \in DOMAIN recvChan : recvChan'[i] = recvChan[i]
        /\ recvChan'[Len(recvChan) + 1] = msg
    OBVIOUS
  <1>2. \A m : ~SameOpen(m, msg) /\ ~SameOpen(msg, m)
    BY DEF SameOpen
  <1> QED
    BY <1>1, <1>2 DEF OpensDistinct

\* An event is taken.
LEMMA DistinctTaken ==
  ASSUME OpensDistinct, recvChan \in Seq(ConnEvent), recvChan # <<>>,
         recvChan' = Tail(recvChan), UNCHANGED loop
  PROVE  /\ OpensDistinct'
         /\ \A i \in DOMAIN recvChan' : ~SameOpen(recvChan'[i], Head(recvChan))
         /\ \A i \in DOMAIN loop.blocked : ~SameOpen(loop.blocked[i], Head(recvChan))
  <1>1. /\ \A i \in DOMAIN recvChan' :
             i \in Nat \ {0} /\ i + 1 \in DOMAIN recvChan /\ recvChan'[i] = recvChan[i + 1]
        /\ Head(recvChan) = recvChan[1] /\ 1 \in DOMAIN recvChan
    OBVIOUS
  <1>2. \A i \in Nat \ {0} : i + 1 # 1
    OBVIOUS
  <1>3. /\ \A i, j \in DOMAIN recvChan : SameOpen(recvChan[i], recvChan[j]) => i = j
        /\ \A i \in DOMAIN recvChan, j \in DOMAIN loop.blocked :
             ~SameOpen(recvChan[i], loop.blocked[j])
    BY DEF OpensDistinct
  <1>4. \A i, j \in Nat \ {0} : i + 1 = j + 1 => i = j
    OBVIOUS
  <1>5. OpensDistinct'
    BY <1>1, <1>3, <1>4 DEF OpensDistinct
  <1>6. \A i \in DOMAIN recvChan' : ~SameOpen(recvChan'[i], recvChan[1])
    BY <1>1, <1>2, <1>3
  <1>7. \A i \in DOMAIN loop.blocked : ~SameOpen(loop.blocked[i], recvChan[1])
    BY <1>1, <1>3 DEF SameOpen
  <1> QED
    BY <1>1, <1>5, <1>6, <1>7

\* The Open events that remain, and one more of an unbound connection.
LEMMA UnboundStays ==
  ASSUME IInv, OpensUnbound, DialsKept, NEW msg, Events' \subseteq Events \cup {msg},
         msg.event = "Open" => ~Bound(msg.conn)',
         \A d \in DOMAIN dials : Bound(d)' => Bound(d)
  PROVE  OpensUnbound'
  <1>1. ASSUME NEW m \in Events, m.event = "Open"
        PROVE  ~Bound(m.conn)'
    <2>1. m.conn \in DOMAIN dials
      BY <1>1 DEF IInv, DialerInv, EventsTrue, EventTrue
    <2>2. ~Bound(m.conn)
      BY <1>1 DEF OpensUnbound
    <2> QED
      BY <2>1, <2>2
  <1> QED
    BY <1>1 DEF OpensUnbound

(***************************************************************************)
(* Frames                                                                  *)
(***************************************************************************)

\* What a step may do to connection d when it binds nothing.
KeepsOrder(d) ==
  /\ conns[d].st = "closed" => conns'[d].st = "closed"
  /\ Unused(d) => Unused(d)'
  /\ conns'[d].st # "closed" => LineMoves(d)

LEMMA SameKeepsOrder ==
  ASSUME IInv, NEW d \in DOMAIN dials, LineSame(d),
         conns[d].st = "closed" => conns'[d].st = "closed"
  PROVE  KeepsOrder(d)
  <1>1. Unused(d) => Unused(d)'
    <2> SUFFICES ASSUME Unused(d) PROVE Unused(d)'
      OBVIOUS
    <2>1. Writes(tasks', d) = Writes(tasks, d)' /\ Writes(rcv'.io, d) = Writes(rcv.io, d)'
      BY DEF Writes
    <2>2. Writes(tasks, d)' = {}
      BY <2>1 DEF LineSame, SeqSame, Unused
    <2>3. Writes(rcv.io, d)' = {}
      BY <2>1 DEF LineSame, SeqSame, Unused
    <2> QED
      BY <2>2, <2>3 DEF LineSame, SendSame, Unused
  <1> QED
    BY <1>1, SameMoves DEF KeepsOrder

\* The loops stay where they are.
LEMMA SendStays ==
  ASSUME DialsKept, UNCHANGED lp
  PROVE  \A d \in DOMAIN dials : SendSame(d)
  BY TokensSame DEF SendSame, Sending, SendSeq, LoopCallOf

\* Nothing is written.
LEMMA OutsSame ==
  ASSUME UpstreamInOrder, DialsKept, DOMAIN conns \subseteq DOMAIN dials,
         \A d \in DOMAIN conns' : /\ d \in DOMAIN conns
                                  /\ conns'[d].out = conns[d].out
  PROVE  UpstreamInOrder'
  <1>1. \A d \in DOMAIN conns' : dials'[d].token.user = dials[d].token.user
    BY DEF DialsKept
  <1> QED
    BY <1>1 DEF UpstreamInOrder, IsRun

\* Tasks stay, or the first is taken.
LEMMA TasksOwnKept ==
  ASSUME TasksOwn, DialsKept, tasks \in Seq(Task),
         tasks' = tasks \/ (tasks # <<>> /\ tasks' = Tail(tasks))
  PROVE  TasksOwn'
  <1>1. \A i \in DOMAIN tasks' : \E j \in DOMAIN tasks : tasks'[i] = tasks[j]
    OBVIOUS
  <1> QED
    BY <1>1, TokensSame DEF TasksOwn, DialsKept

\* A task is added.
LEMMA TasksOwnAdded ==
  ASSUME TasksOwn, DialsKept, tasks \in Seq(Task), NEW t \in Task,
         tasks' = Append(tasks, t),
         t.op = "write" => t.conn \in DOMAIN dials /\ t.payload.user = Owner(t.conn)
  PROVE  TasksOwn'
  <1>1. \A i \in DOMAIN tasks' : tasks'[i] = t \/ \E j \in DOMAIN tasks : tasks'[i] = tasks[j]
    OBVIOUS
  <1> QED
    BY <1>1, TokensSame DEF TasksOwn, DialsKept

\* The replay stays.
LEMMA ReplayOwnKept ==
  ASSUME ReplayOwn, DialsKept, UNCHANGED rcv
  PROVE  ReplayOwn'
  BY TokensSame DEF ReplayOwn, DialsKept

\* The session table stays, and nobody admits a packet.
LEMMA TablesKept ==
  ASSUME IInv, IInv', OrderInv, DialsKept, DOMAIN dials' = DOMAIN dials,
         UNCHANGED <<byUser, byServer, sess>>,
         \A u \in Users : Admitted(u)' = Admitted(u),
         \A d \in DOMAIN dials : KeepsOrder(d),
         TasksOwn', ReplayOwn', SendsOwn', OpensDistinct', OpensUnbound', UpstreamInOrder'
  PROVE  OrderInv'
  <1>1. /\ RoutesOwn /\ UnboundUnused /\ Lines /\ NewestLast /\ PendingRun
        /\ DOMAIN byUser \subseteq Users
    BY DEF OrderInv, OwnInv, IInv, TableInv, TableTypeOK
  <1>2. \A d \in DOMAIN dials : Owner(d)' = Owner(d) /\ SessionOf(d)' = SessionOf(d)
    BY TokensSame
  <1>3. RoutesOwn'
    <2>1. DOMAIN byServer \subseteq DOMAIN dials
      BY DomainsEqual DEF IInv, DialerInv, TableInv, TableTypeOK
    <2> QED
      BY <1>1, <1>2, <2>1 DEF RoutesOwn
  <1>4. UnboundUnused'
    BY <1>1, <1>2 DEF UnboundUnused, Bound, KeepsOrder
  <1>5. Lines' /\ NewestLast'
    <2>1. NoConn \notin DOMAIN dials'
      BY DomainsEqual DEF IInv, DialerInv
    <2> QED
      BY <1>1, <2>1, AllLines DEF KeepsOrder
  <1>6. PendingRun'
    BY <1>1 DEF PendingRun
  <1> QED
    BY <1>3, <1>4, <1>5, <1>6 DEF OrderInv, OwnInv

\* The loops of the users stay too.
LEMMA TablesStay ==
  ASSUME IInv, IInv', OrderInv, DialsKept, DOMAIN dials' = DOMAIN dials,
         UNCHANGED <<byUser, byServer, sess, npkt, lp>>,
         \A d \in DOMAIN dials : KeepsOrder(d),
         TasksOwn', ReplayOwn', OpensDistinct', OpensUnbound', UpstreamInOrder'
  PROVE  OrderInv'
  <1>1. SendsOwn
    BY DEF OrderInv, OwnInv
  <1>2. SendsOwn'
    BY <1>1, TokensSame DEF SendsOwn, DialsKept
  <1>3. \A u \in Users : Admitted(u)' = Admitted(u)
    BY DEF Admitted
  <1> QED
    BY <1>2, <1>3, TablesKept

(***************************************************************************)
(* The dialer's steps                                                      *)
(***************************************************************************)

\* Nothing is written, and no packet is taken from the tasks.
LEMMA NothingWritten ==
  ASSUME IInv, IInv', OrderInv, DialsKept, DOMAIN dials' = DOMAIN dials,
         UNCHANGED <<byUser, byServer, sess, npkt, lp, rcv>>,
         \/ tasks' = tasks
         \/ tasks # <<>> /\ tasks' = Tail(tasks) /\ Head(tasks).op # "write",
         \A d \in DOMAIN dials : /\ conns'[d].out = conns[d].out
                                 /\ conns[d].st = "closed" => conns'[d].st = "closed",
         OpensDistinct', OpensUnbound'
  PROVE  OrderInv'
  <1>1. /\ tasks \in Seq(Task) /\ rcv.io \in Seq(RcvCall)
        /\ DOMAIN conns = DOMAIN dials /\ DOMAIN conns' = DOMAIN dials'
        /\ TasksOwn /\ ReplayOwn /\ UpstreamInOrder
    BY DomainsEqual DEF IInv, DialerInv, DialerTypeOK, ReceiverTypeOK, OrderInv, OwnInv
  <1>2. ASSUME NEW d \in DOMAIN dials PROVE KeepsOrder(d)
    <2>1. \E k \in {0, 1} : SeqSame(tasks, tasks', d, k)
      <3>1. CASE tasks' = tasks
        BY <1>1, <3>1, SeqUnchanged
      <3>2. CASE tasks # <<>> /\ tasks' = Tail(tasks) /\ Head(tasks).op # "write"
        BY <1>1, <3>2, SeqTaken DEF WriteTo
      <3> QED
        BY <3>1, <3>2
    <2>2. \E k \in {0, 1} : SeqSame(rcv.io, rcv'.io, d, k)
      BY <1>1, SeqUnchanged
    <2>3. SendSame(d)
      BY SendStays
    <2> QED
      BY <2>1, <2>2, <2>3, SameKeepsOrder DEF LineSame
  <1>3. TasksOwn' /\ ReplayOwn'
    BY <1>1, TasksOwnKept, ReplayOwnKept
  <1>4. UpstreamInOrder'
    BY <1>1, OutsSame
  <1> QED
    BY <1>2, <1>3, <1>4, TablesStay

\* Updates of a connection that write nothing.
LEMMA ConnAtOut ==
  ASSUME conns \in Seq(Conn), NEW d, NEW st \in {"open", "closed"},
         conns[d].st # "closed" \/ st = "closed",
         conns' = ConnAt(d, st)
  PROVE  \A e \in DOMAIN conns : /\ conns'[e].out = conns[e].out
                                 /\ conns[e].st = "closed" => conns'[e].st = "closed"
  <1>1. CASE d \in DOMAIN conns
    BY <1>1, ConnFields, ConnUpdate DEF ConnAt
  <1>2. CASE d \notin DOMAIN conns
    BY <1>2, ExceptOutside DEF ConnAt
  <1> QED
    BY <1>1, <1>2

LEMMA ConnReadOut ==
  ASSUME conns \in Seq(Conn), NEW d \in DOMAIN conns, conns' = ConnRead(d)
  PROVE  \A e \in DOMAIN conns : /\ conns'[e].out = conns[e].out
                                 /\ conns[e].st = "closed" => conns'[e].st = "closed"
  <1>1. conns[d].in + 1 \in Nat
    BY ConnFields
  <1> QED
    BY <1>1, ConnFields, ConnUpdate DEF ConnRead

\* The session table stays, and so does what is bound.
LEMMA BoundStays ==
  ASSUME DialsKept, UNCHANGED sess
  PROVE  \A d \in DOMAIN dials : Bound(d)' <=> Bound(d)
  BY TokensSame DEF Bound

\* An event that opens nothing is posted, or none.
LEMMA OtherPosted ==
  ASSUME IInv, OrderInv, DialsKept, UNCHANGED sess, NEW msg \in ConnEvent, NEW failed \in Nat,
         msg.event # "Open",
         \/ Post(msg, failed)
         \/ UNCHANGED <<loop, recvChan>>
         \/ loop' = [blocked |-> <<>>, failed |-> failed] /\ UNCHANGED recvChan
  PROVE  OpensDistinct' /\ OpensUnbound'
  <1>1. recvChan \in Seq(ConnEvent) /\ OpensDistinct /\ OpensUnbound
    BY DEF IInv, DialerInv, DialerTypeOK, OrderInv
  <1>2. \A m : ~SameOpen(m, msg)
    BY DEF SameOpen
  <1>3. CASE Post(msg, failed)
    <2>1. Events' \subseteq Events \cup {msg}
      BY <1>1, <1>3, PostOK
    <2> QED
      BY <1>1, <1>2, <1>3, <2>1, DistinctPost, UnboundStays, BoundStays
  <1>4. CASE UNCHANGED <<loop, recvChan>>
    <2>1. Events' \subseteq Events \cup {msg}
      BY <1>4 DEF Events
    <2> QED
      BY <1>1, <1>4, <2>1, UnboundStays, BoundStays DEF OpensDistinct
  <1>5. CASE loop' = [blocked |-> <<>>, failed |-> failed] /\ UNCHANGED recvChan
    <2>1. DOMAIN loop'.blocked = {}
      BY <1>5
    <2>2. Events' \subseteq Events \cup {msg}
      BY <1>5, <2>1 DEF Events
    <2> QED
      BY <1>1, <1>5, <2>1, <2>2, UnboundStays, BoundStays DEF OpensDistinct
  <1> QED
    BY <1>3, <1>4, <1>5

\* What OnOpen posts was not posted before, and the session is not bound.
LEMMA OpenPosted ==
  ASSUME IInv, OrderInv, NEW d \in DOMAIN dials, OnOpenPosted(d), DialsKept, UNCHANGED sess
  PROVE  OpensDistinct' /\ OpensUnbound'
  <1>1. /\ recvChan \in Seq(ConnEvent) /\ OpensDistinct /\ OpensUnbound
        /\ d \in ConnIds /\ DialsAgree /\ EventsTrue /\ BoundByOwnDial
        /\ SessionOf(d) \in DOMAIN sess
    BY DomainsEqual, Numbered DEF IInv, DialerInv, DialerTypeOK, OrderInv, TableInv
  <1>2. dials[d].pc = "enrolling" /\ Post(OpenMsg(d), NoConn)
    BY DEF OnOpenPosted
  <1>3. conns[d].st = "new"
    BY <1>1, <1>2 DEF DialsAgree
  <1>4. ~Bound(d)
    BY <1>1, <1>3 DEF Bound, BoundByOwnDial, ConnIds
  <1>5. /\ OpenMsg(d) \in ConnEvent /\ OpenMsg(d).conn = d
    BY <1>1, MessageTypes
  <1>6. \A i \in DOMAIN recvChan : ~SameOpen(recvChan[i], OpenMsg(d))
    <2>1. \A i \in DOMAIN recvChan : recvChan[i] \in Events
      BY DEF Events
    <2> QED
      BY <1>1, <1>3, <1>5, <2>1 DEF EventsTrue, EventTrue, SameOpen
  <1>7. Events' \subseteq Events \cup {OpenMsg(d)}
    BY <1>1, <1>2, <1>5, PostOK DEF NoConn
  <1>8. ~Bound(OpenMsg(d).conn)'
    BY <1>4, <1>5, BoundStays
  <1> QED
    BY <1>1, <1>2, <1>5, <1>6, <1>7, <1>8, DistinctPost, UnboundStays, BoundStays

\* A dial goroutine.
LEMMA DialStepOrder ==
  ASSUME ClientAssumption, IInv, IInv', OrderInv, DialerStepOK, NEW d \in DOMAIN dials,
         DialStep(d), UNCHANGED <<byUser, byServer, sess, npkt, lp, rcv>>
  PROVE  OrderInv'
  <1>1. /\ UNCHANGED <<conns, tasks, loop>>
        /\ recvChan' = recvChan \/ recvChan' = Append(recvChan, DialErrorMsg(d))
    BY DEF DialStep, AcquireSem, DialFinishes, DialReports, ClientAssumption
  <1>2. /\ recvChan \in Seq(ConnEvent) /\ OpensDistinct /\ OpensUnbound
        /\ DialErrorMsg(d) \in ConnEvent /\ DialErrorMsg(d).event # "Open"
        /\ DialsKept /\ DOMAIN dials' = DOMAIN dials
    BY DomainsEqual, MessageTypes DEF IInv, DialerInv, DialerTypeOK, OrderInv, DialerStepOK
  <1> DEFINE m == DialErrorMsg(d)
  <1>3. m \in ConnEvent /\ m.event # "Open" /\ (recvChan' = recvChan \/ recvChan' = Append(recvChan, m))
    BY <1>1, <1>2
  <1> HIDE DEF m
  <1>4. OpensDistinct'
    BY <1>1, <1>2, <1>3, DistinctError DEF OpensDistinct
  <1>5. Events' \subseteq Events \cup {m}
    <2>1. \A i \in DOMAIN recvChan' : recvChan'[i] = m \/ \E j \in DOMAIN recvChan : recvChan'[i] = recvChan[j]
      BY <1>2, <1>3
    <2> QED
      BY <1>1, <2>1 DEF Events
  <1>6. OpensUnbound'
    BY <1>2, <1>3, <1>5, UnboundStays, BoundStays
  <1> QED
    BY <1>1, <1>2, <1>4, <1>6, NothingWritten

\* A server.
LEMMA PeerStepOrder ==
  ASSUME IInv, IInv', OrderInv, DialerStepOK, NEW d \in DOMAIN dials,
         PeerStep(d), UNCHANGED <<byUser, byServer, sess, npkt, lp, rcv>>
  PROVE  OrderInv'
  <1>0. /\ d \in DOMAIN conns /\ d \in ConnIds /\ DOMAIN conns = DOMAIN dials
        /\ conns \in Seq(Conn) /\ DialsKept /\ DOMAIN dials' = DOMAIN dials
        /\ NoConn \in Nat
    BY DomainsEqual DEF IInv, DialerInv, DialerTypeOK, DialerStepOK, NoConn
  <1>1. CASE OnTraffic(d)
    <2> DEFINE p == [conn |-> d, seq |-> conns[d].in + 1]
               m == DataMsg(d, <<p>>)
    <2>1. p \in DownPkt
      BY <1>0, ConnFields DEF DownPkt
    <2>2. /\ conns' = ConnRead(d) /\ UNCHANGED tasks
          /\ Post(m, NoConn)
      BY <1>1 DEF OnTraffic
    <2> HIDE DEF p
    <2>3. m \in ConnEvent /\ m.event # "Open"
      BY <1>0, <2>1, DataType
    <2> HIDE DEF m
    <2>4. OpensDistinct' /\ OpensUnbound'
      BY <1>0, <2>2, <2>3, OtherPosted
    <2> QED
      BY <1>0, <2>2, <2>4, ConnReadOut, NothingWritten
  <1>2. CASE PeerCloses(d)
    <2>1. /\ conns' = ConnAt(d, "closed") /\ UNCHANGED tasks
          /\ Post(CloseMsg(d), NoConn)
      BY <1>2 DEF PeerCloses
    <2>2. CloseMsg(d) \in ConnEvent /\ CloseMsg(d).event # "Open"
      BY <1>0, MessageTypes
    <2>3. OpensDistinct' /\ OpensUnbound'
      BY <1>0, <2>1, <2>2, OtherPosted
    <2> QED
      BY <1>0, <2>1, <2>3, ConnAtOut, NothingWritten
  <1> QED
    BY <1>1, <1>2 DEF PeerStep

\* OnOpen.
LEMMA OnOpenOrder ==
  ASSUME IInv, IInv', OrderInv, DialerStepOK, NEW d \in DOMAIN dials,
         OnOpenPosted(d), UNCHANGED <<byUser, byServer, sess, npkt, lp, rcv>>
  PROVE  OrderInv'
  <1>0. /\ DOMAIN conns = DOMAIN dials /\ conns \in Seq(Conn)
        /\ DialsKept /\ DOMAIN dials' = DOMAIN dials /\ DialsAgree
    BY DomainsEqual DEF IInv, DialerInv, DialerTypeOK, DialerStepOK
  <1>1. dials[d].pc = "enrolling" /\ conns' = ConnAt(d, "open") /\ UNCHANGED tasks
    BY DEF OnOpenPosted
  <1>2. conns[d].st = "new"
    BY <1>0, <1>1 DEF DialsAgree
  <1>3. \A e \in DOMAIN conns : /\ conns'[e].out = conns[e].out
                                /\ conns[e].st = "closed" => conns'[e].st = "closed"
    BY <1>0, <1>1, <1>2, ConnAtOut
  <1>4. OpensDistinct' /\ OpensUnbound'
    BY <1>0, OpenPosted
  <1> QED
    BY <1>0, <1>1, <1>3, <1>4, NothingWritten

\* The loop's steps but a write.
LEMMA LoopOrder ==
  ASSUME IInv, IInv', OrderInv, DialerStepOK,
         LoopUnblocks \/ RunClose \/ WriteErrorDone(<<>>),
         UNCHANGED <<byUser, byServer, sess, npkt, lp, rcv>>
  PROVE  OrderInv'
  <1>0. /\ DOMAIN conns = DOMAIN dials /\ conns \in Seq(Conn) /\ tasks \in Seq(Task)
        /\ recvChan \in Seq(ConnEvent) /\ loop \in Loop
        /\ DialsKept /\ DOMAIN dials' = DOMAIN dials
        /\ OpensDistinct /\ OpensUnbound /\ NoConn \in Nat
    BY DomainsEqual DEF IInv, DialerInv, DialerTypeOK, DialerStepOK, OrderInv, NoConn
  <1>1. CASE LoopUnblocks
    <2>1. OpensDistinct'
      BY <1>0, <1>1, DistinctUnblock
    <2>2. /\ Head(loop.blocked) = loop.blocked[1] /\ 1 \in DOMAIN loop.blocked
          /\ Head(loop.blocked) \in ConnEvent
          /\ recvChan' = Append(recvChan, Head(loop.blocked))
          /\ loop'.blocked = <<>>
      BY <1>0, <1>1 DEF LoopUnblocks, Loop
    <2>3. Events' \subseteq Events \cup {[event |-> "Close"]}
      <3> DEFINE m == Head(loop.blocked)
      <3>1. m \in ConnEvent /\ recvChan' = Append(recvChan, m)
        BY <2>2
      <3>2. m = loop.blocked[1]
        BY <2>2
      <3> HIDE DEF m
      <3>3. \A i \in DOMAIN recvChan' : recvChan'[i] = m \/ \E j \in DOMAIN recvChan : recvChan'[i] = recvChan[j]
        BY <1>0, <3>1
      <3>4. DOMAIN loop'.blocked = {}
        BY <2>2
      <3> QED
        BY <2>2, <3>2, <3>3, <3>4 DEF Events
    <2>4. OpensUnbound'
      <3> DEFINE m == [event |-> "Close"]
      <3>1. m.event # "Open" /\ Events' \subseteq Events \cup {m}
        BY <2>3
      <3> HIDE DEF m
      <3> QED
        BY <1>0, <3>1, UnboundStays, BoundStays
    <2> QED
      BY <1>0, <1>1, <2>1, <2>4, NothingWritten DEF LoopUnblocks
  <1>2. CASE RunClose
    <2> DEFINE d == Head(tasks).conn
    <2>1. /\ tasks # <<>> /\ tasks' = Tail(tasks) /\ Head(tasks).op # "write"
          /\ Head(tasks) \in Task
      BY <1>0, <1>2 DEF RunClose
    <2>2. d \in ConnIds
      BY <2>1, TaskFields
    <2>3. CloseMsg(d) \in ConnEvent /\ CloseMsg(d).event # "Open"
      BY <2>2, MessageTypes
    <2>4. CASE /\ conns[d].st = "open" /\ conns' = ConnAt(d, "closed")
               /\ Post(CloseMsg(d), NoConn)
      <3>1. OpensDistinct' /\ OpensUnbound'
        BY <1>0, <2>3, <2>4, OtherPosted
      <3>2. \A e \in DOMAIN conns : /\ conns'[e].out = conns[e].out
                                    /\ conns[e].st = "closed" => conns'[e].st = "closed"
        BY <1>0, <2>4, ConnAtOut
      <3> QED
        BY <1>0, <2>1, <3>1, <3>2, NothingWritten
    <2>5. CASE UNCHANGED <<conns, loop, recvChan>>
      <3>1. OpensDistinct' /\ OpensUnbound'
        BY <1>0, <2>3, <2>5, OtherPosted
      <3> QED
        BY <1>0, <2>1, <2>5, <3>1, NothingWritten
    <2> QED
      BY <1>2, <2>4, <2>5 DEF RunClose
  <1>3. CASE WriteErrorDone(<<>>)
    <2>1. tasks' = tasks /\ UNCHANGED <<conns, recvChan>>
          /\ loop' = [blocked |-> <<>>, failed |-> NoConn]
      BY <1>0, <1>3 DEF WriteErrorDone
    <2>2. CloseMsg(1) \in ConnEvent /\ CloseMsg(1).event # "Open"
      BY MessageTypes DEF ConnIds, NoConn
    <2>3. OpensDistinct' /\ OpensUnbound'
      BY <1>0, <2>1, <2>2, OtherPosted
    <2> QED
      BY <1>0, <2>1, <2>3, NothingWritten
  <1> QED
    BY <1>1, <1>2, <1>3

\* A run goes on with the next number.
LEMMA RunExtended ==
  ASSUME NEW out \in Seq(Packet), NEW p \in Packet, NEW u, p.user = u, IsRun(out, u),
         out # <<>> => out[Len(out)].seq = p.seq - 1,
         NEW r, r = Append(out, p)
  PROVE  IsRun(r, u) /\ r # <<>> /\ r[Len(r)].seq = p.seq
  <1> DEFINE n == Len(out)
  <1>1. /\ n \in Nat /\ DOMAIN out = 1..n /\ DOMAIN r = 1..(n + 1) /\ Len(r) = n + 1
        /\ \A i \in 1..n : r[i] = out[i] /\ out[i].seq \in Nat
        /\ r[n + 1] = p /\ p.seq \in Nat /\ r # <<>>
        /\ (out # <<>> <=> n # 0)
    <2>1. \A i \in 1..n : out[i] \in Packet
      OBVIOUS
    <2>2. \A q \in Packet : q.seq \in Nat
      BY DEF Packet
    <2> QED
      BY <2>1, <2>2
  <1>2. \A i \in 1..n : out[i].user = u /\ out[i].seq = out[1].seq + i - 1
    BY <1>1 DEF IsRun
  <1>3. n # 0 => out[n].seq = p.seq - 1
    BY <1>1
  <1> HIDE DEF n
  <1>4. ASSUME NEW i \in 1..(n + 1)
        PROVE  r[i].user = u /\ r[i].seq = r[1].seq + i - 1
    <2>1. CASE n = 0
      BY <1>1, <2>1
    <2>2. CASE n # 0 /\ i \in 1..n
      BY <1>1, <1>2, <2>2
    <2>3. CASE n # 0 /\ i = n + 1
      <3>1. 1 \in 1..n /\ n \in 1..n
        BY <1>1, <2>3
      <3>2. out[n].seq = out[1].seq + n - 1 /\ out[1].seq \in Nat /\ r[1] = out[1]
        BY <1>1, <1>2, <3>1
      <3>3. out[n].seq = p.seq - 1 /\ r[i] = p /\ p.seq \in Nat /\ n \in Nat
        BY <1>1, <1>3, <2>3
      <3>4. p.seq = r[1].seq + n
        <4> DEFINE a == out[1].seq
                   c == p.seq
                   e == out[n].seq
        <4>1. a \in Nat /\ c \in Nat /\ e = a + n - 1 /\ e = c - 1 /\ r[1].seq = a
          BY <3>2, <3>3
        <4> HIDE DEF a, c, e
        <4>2. c = a + n
          BY <3>3, <4>1
        <4> QED
          BY <4>1, <4>2 DEF c
      <3>5. r[i].seq = r[1].seq + i - 1
        BY <2>3, <3>2, <3>3, <3>4
      <3> QED
        BY <3>3, <3>5
    <2> QED
      BY <1>1, <2>1, <2>2, <2>3
  <1> QED
    BY <1>1, <1>4 DEF IsRun

\* The loop takes a write: the packet is the next of its connection, or the
\* connection is closed.
LEMMA RunWriteOrder ==
  ASSUME IInv, IInv', OrderInv, DialerStepOK, RunWrite,
         UNCHANGED <<byUser, byServer, sess, npkt, lp, rcv>>
  PROVE  OrderInv'
  <1>0. /\ DOMAIN conns = DOMAIN dials /\ DOMAIN conns' = DOMAIN dials'
        /\ conns \in Seq(Conn) /\ tasks \in Seq(Task)
        /\ rcv.io \in Seq(RcvCall) /\ recvChan \in Seq(ConnEvent)
        /\ DialsKept /\ DOMAIN dials' = DOMAIN dials
        /\ TasksOwn /\ ReplayOwn /\ UpstreamInOrder /\ Lines /\ NoConn \in Nat
    BY DomainsEqual DEF IInv, DialerInv, DialerTypeOK, ReceiverTypeOK, DialerStepOK,
                        OrderInv, OwnInv, NoConn
  <1>1. /\ tasks # <<>> /\ tasks' = Tail(tasks) /\ Head(tasks).op = "write"
        /\ Head(tasks) = tasks[1] /\ 1 \in DOMAIN tasks /\ Head(tasks) \in Task
    BY <1>0 DEF RunWrite
  <1>2. PICK d0 \in DOMAIN dials, p \in Packet :
          /\ d0 = Head(tasks).conn /\ d0 \in ConnIds /\ d0 \in Nat
          /\ p = Head(tasks).payload /\ p.user = Owner(d0)
    BY <1>0, <1>1, TaskFields DEF TasksOwn, ConnIds
  <1>3. 1 \in Writes(tasks, d0) /\ WriteTo(Head(tasks), d0)
    BY <1>1, <1>2 DEF Writes, WriteTo
  <1>4. Taken(tasks, tasks', d0) /\ tasks[1].payload = p
    BY <1>0, <1>1, <1>2, <1>3, SeqTaken
  <1>5. \/ conns[d0].st = "open" /\ conns' = ConnWritten(d0, p) /\ UNCHANGED <<loop, recvChan>>
        \/ conns[d0].st = "open" /\ conns' = ConnAt(d0, "closed") /\ Post(CloseMsg(d0), d0)
        \/ /\ conns[d0].st = "closed" /\ UNCHANGED <<conns, recvChan>>
           /\ loop' = [blocked |-> <<>>, failed |-> d0]
    BY <1>2 DEF RunWrite
  <1>6. ASSUME NEW d \in DOMAIN dials, d # d0, conns'[d] = conns[d]
        PROVE  KeepsOrder(d)
    <2>1. SeqSame(tasks, tasks', d, 1)
      <3>1. ~WriteTo(Head(tasks), d)
        BY <1>2, <1>6 DEF WriteTo
      <3> QED
        BY <1>0, <1>1, <3>1, SeqTaken
    <2>2. SeqSame(rcv.io, rcv'.io, d, 0)
      BY <1>0, SeqUnchanged
    <2>3. SendSame(d)
      BY <1>0, SendStays
    <2> QED
      BY <1>6, <2>1, <2>2, <2>3, SameKeepsOrder DEF LineSame
  <1>7. TasksOwn' /\ ReplayOwn'
    BY <1>0, <1>1, TasksOwnKept, ReplayOwnKept
  <1>8. CloseMsg(d0) \in ConnEvent /\ CloseMsg(d0).event # "Open"
    BY <1>2, MessageTypes
  <1>9. ~Unused(d0)
    BY <1>3 DEF Unused
  <1>10. OpensDistinct' /\ OpensUnbound'
    BY <1>0, <1>2, <1>5, <1>8, OtherPosted
  <1>11. CASE /\ conns[d0].st = "open" /\ conns' = ConnWritten(d0, p)
              /\ UNCHANGED <<loop, recvChan>>
    <2> DEFINE out == conns[d0].out
               r == Append(out, p)
    <2>1. out \in Seq(Packet) /\ r \in Seq(Packet) /\ conns[d0].in \in Nat
      BY <1>0, <1>2, ConnFields
    <2>2. conns' = [conns EXCEPT ![d0] = [st |-> conns[d0].st, out |-> r, in |-> conns[d0].in]]
      BY <1>11 DEF ConnWritten
    <2>3. r = Append(out, p)
      OBVIOUS
    <2> HIDE DEF out, r
    <2>4. /\ conns'[d0].out = r /\ conns'[d0].st = "open"
          /\ \A e \in DOMAIN conns : e # d0 => conns'[e] = conns[e]
      <3>1. d0 \in DOMAIN conns /\ conns[d0].st = "open"
        BY <1>0, <1>2, <1>11
      <3>2. conns' = [conns EXCEPT ![d0] = [st |-> "open", out |-> r, in |-> conns[d0].in]]
        BY <2>2, <3>1
      <3> QED
        BY <1>0, <2>1, <3>1, <3>2, ConnUpdate
    <2>5. PICK lo \in Int, hi \in Int : Line(d0, lo, hi)
      BY <1>2, <1>11 DEF OrderInv, Lines
    <2>6. r # <<>> /\ r[Len(r)] = p
      BY <1>2, <2>1, <2>3
    <2>7. conns'[d0].out # <<>> /\ LastOut(d0)' = p.seq
      BY <2>4, <2>6 DEF LastOut
    <2>8. SendSame(d0)
      BY <1>0, <1>2, SendStays
    <2>9. UNCHANGED rcv
      OBVIOUS
    <2>10. \A l, h \in Int : Line(d0, l, h) => l <= h /\ p.seq = l /\ Line(d0, l + 1, h)'
      BY <1>2, <1>4, <2>7, <2>8, <2>9, FirstWritten
    <2>11. LineMoves(d0)
      <3>1. \A l, h \in Int : l + 1 \in Int /\ (l <= h => l + 1 <= h + 1)
        OBVIOUS
      <3> QED
        BY <2>7, <2>10, <3>1 DEF LineMoves, Whole
    <2>12. KeepsOrder(d0)
      BY <1>9, <1>11, <2>11 DEF KeepsOrder
    <2>13. IsRun(r, Owner(d0))
      <3>1. IsRun(out, Owner(d0))
        BY <1>0, <1>2 DEF UpstreamInOrder, Owner, out
      <3>2. out # <<>> => out[Len(out)].seq = p.seq - 1
        BY <2>5, <2>10 DEF Line, LastOut, out
      <3> QED
        BY <1>2, <2>1, <2>3, <3>1, <3>2, RunExtended
    <2>14. UpstreamInOrder'
      <3>1. \A e \in DOMAIN conns : IsRun(conns[e].out, Owner(e))
        BY <1>0 DEF UpstreamInOrder, Owner
      <3>2. \A e \in DOMAIN conns' : IsRun(conns'[e].out, Owner(e)')
        BY <1>0, <2>4, <2>13, <3>1, TokensSame
      <3>3. \A e \in DOMAIN conns' : IsRun(conns[e].out, Owner(e))'
        BY <3>2 DEF IsRun
      <3> QED
        BY <3>3 DEF UpstreamInOrder, Owner
    <2> QED
      BY <1>0, <1>6, <1>7, <1>10, <2>4, <2>12, <2>14, TablesStay
  <1>12. CASE conns'[d0].st = "closed" /\ \A e \in DOMAIN conns :
                conns'[e].out = conns[e].out /\ (e # d0 => conns'[e] = conns[e])
    <2>1. KeepsOrder(d0)
      BY <1>9, <1>12 DEF KeepsOrder
    <2>2. UpstreamInOrder'
      BY <1>0, <1>12, OutsSame
    <2> QED
      BY <1>0, <1>6, <1>7, <1>10, <1>12, <2>1, <2>2, TablesStay
  <1>13. CASE conns' = ConnAt(d0, "closed")
    <2>1. /\ conns'[d0].st = "closed" /\ conns'[d0].out = conns[d0].out
          /\ \A e \in DOMAIN conns : e # d0 => conns'[e] = conns[e]
      BY <1>0, <1>2, <1>13, ConnFields, ConnUpdate DEF ConnAt
    <2> QED
      BY <1>12, <2>1
  <1> QED
    BY <1>5, <1>11, <1>12, <1>13

\* The dialer.
LEMMA DialerOrder ==
  ASSUME ClientAssumption, IInv, IInv', OrderInv, DialerSteps
  PROVE  OrderInv'
  <1>1. DialerStepOK /\ UNCHANGED <<byUser, byServer, sess, npkt, lp, rcv>>
    BY DialerStepsOK DEF tableVars, userVars
  <1>2. ASSUME NEW d \in DOMAIN dials, OnOpenPosted(d) \/ DialStep(d) \/ PeerStep(d)
        PROVE  OrderInv'
    BY <1>1, <1>2, OnOpenOrder, DialStepOrder, PeerStepOrder
  <1>3. ASSUME LoopStep \/ WriteErrorDone(<<>>)
        PROVE  OrderInv'
    BY <1>1, <1>3, LoopOrder, RunWriteOrder DEF LoopStep
  <1> QED
    BY <1>2, <1>3 DEF DialerSteps, DialerAlone, LoopAlone

(***************************************************************************)
(* The calls of the receiving goroutine                                    *)
(***************************************************************************)

\* A step of it that leaves the tables, and takes its first call.
LEMMA CallTaken ==
  ASSUME IInv, IInv', OrderInv, UNCHANGED <<dials, conns, loop, recvChan>>,
         UNCHANGED <<byUser, byServer, sess, npkt, lp>>,
         rcv.io # <<>>, rcv'.io = Tail(rcv.io),
         DOMAIN rcv'.io # {} => rcv'.sendMu = rcv.sendMu,
         NEW call \in RcvCall, call = Head(rcv.io),
         IF call.op \in {"write", "close"} THEN tasks' = Append(tasks, call)
                                           ELSE tasks' = tasks
  PROVE  OrderInv'
  <1>0. /\ DOMAIN conns = DOMAIN dials /\ tasks \in Seq(Task) /\ rcv.io \in Seq(RcvCall)
        /\ TasksOwn /\ ReplayOwn /\ UpstreamInOrder /\ OpensDistinct /\ OpensUnbound
        /\ DialsKept /\ DOMAIN dials' = DOMAIN dials
    BY DomainsEqual DEF IInv, DialerInv, DialerTypeOK, ReceiverTypeOK, OrderInv, OwnInv, DialsKept
  <1>1. call.op \in {"write", "close"} => call \in Task
    BY RcvCallFields
  <1>2. call.op = "write" => call.conn \in DOMAIN dials /\ call.payload.user = Owner(call.conn)
    <2>1. 1 \in DOMAIN rcv.io /\ call = rcv.io[1]
      BY <1>0
    <2> QED
      BY <1>0, <2>1 DEF ReplayOwn
  <1>3. TasksOwn'
    BY <1>0, <1>1, <1>2, TasksOwnAdded, TasksOwnKept
  <1>4. ReplayOwn'
    <2>1. \A i \in DOMAIN rcv'.io : rcv'.sendMu = rcv.sendMu /\ \E j \in DOMAIN rcv.io : rcv'.io[i] = rcv.io[j]
      BY <1>0
    <2> QED
      BY <1>0, <2>1, TokensSame DEF ReplayOwn
  <1>5. OpensDistinct' /\ OpensUnbound'
    <2>1. Events' = Events
      BY DEF Events
    <2>2. \A d : Bound(d)' = Bound(d)
      BY DEF Bound, SessionOf
    <2> QED
      BY <1>0, <2>1, <2>2 DEF OpensDistinct, OpensUnbound
  <1>6. UpstreamInOrder'
    BY <1>0, OutsSame
  <1>7. ASSUME NEW d \in DOMAIN dials PROVE KeepsOrder(d)
    <2>1. SendSame(d)
      BY <1>0, SendStays
    <2>2. CASE ~WriteTo(call, d)
      <3>1. SeqSame(rcv.io, rcv'.io, d, 1)
        BY <1>0, <2>2, SeqTaken
      <3>2. SeqSame(tasks, tasks', d, 0)
        <4>1. CASE call.op \in {"write", "close"}
          BY <1>0, <1>1, <2>2, <4>1, SeqAppended
        <4>2. CASE call.op \notin {"write", "close"}
          BY <1>0, <4>2, SeqUnchanged
        <4> QED
          BY <4>1, <4>2
      <3> QED
        BY <2>1, <3>1, <3>2, SameKeepsOrder DEF LineSame
    <2>3. CASE WriteTo(call, d)
      <3>1. Taken(rcv.io, rcv'.io, d) /\ rcv.io[1].payload = call.payload
        BY <1>0, <2>3, SeqTaken
      <3>2. call.op = "write" /\ call \in Task /\ tasks' = Append(tasks, call)
        BY <1>1, <2>3 DEF WriteTo
      <3>3. Added(tasks, tasks', d, call.payload)
        BY <1>0, <2>3, <3>2, SeqAppended
      <3>4. ~Unused(d)
        BY <3>1 DEF Unused, Taken
      <3>5. conns' = conns
        OBVIOUS
      <3>6. \A lo, hi \in Int : Line(d, lo, hi) => Line(d, lo, hi)'
        BY <2>1, <3>1, <3>3, <3>5, ReplaySubmitted
      <3> QED
        BY <3>4, <3>5, <3>6 DEF KeepsOrder, LineMoves, Whole
    <2> QED
      BY <2>2, <2>3
  <1> QED
    BY <1>0, <1>3, <1>4, <1>5, <1>6, <1>7, TablesStay

LEMMA ReceiveCallOrder ==
  ASSUME IInv, IInv', OrderInv, ReceiveCall
  PROVE  OrderInv'
  <1>1. rcv.io \in Seq(RcvCall) /\ rcv.io # <<>>
    BY DEF IInv, ReceiverTypeOK, ReceiveCall
  <1>2. PICK call \in RcvCall : call = Head(rcv.io)
    BY <1>1
  <1>3. /\ rcv' = [io |-> Tail(rcv.io),
                   sendMu |-> IF Len(rcv.io) = 1 THEN NoSession ELSE rcv.sendMu]
        /\ UNCHANGED <<dials, conns, loop, recvChan>>
        /\ UNCHANGED <<byUser, byServer, sess, npkt, lp>>
    BY DEF ReceiveCall, tableVars
  <1>4. rcv'.io = Tail(rcv.io) /\ (DOMAIN rcv'.io # {} => rcv'.sendMu = rcv.sendMu)
    <2>1. Len(rcv.io) = 1 => DOMAIN Tail(rcv.io) = {}
      <3>1. DOMAIN Tail(rcv.io) = 1..(Len(rcv.io) - 1)
        BY <1>1
      <3>2. 1..(1 - 1) = {}
        OBVIOUS
      <3> QED
        BY <3>1, <3>2
    <2>2. /\ rcv'.io = Tail(rcv.io)
          /\ rcv'.sendMu = IF Len(rcv.io) = 1 THEN NoSession ELSE rcv.sendMu
      BY <1>3
    <2> QED
      BY <2>1, <2>2, Zenon
  <1>5. IF call.op \in {"write", "close"} THEN tasks' = Append(tasks, call) ELSE tasks' = tasks
    BY <1>2 DEF ReceiveCall
  <1> QED
    BY <1>1, <1>2, <1>3, <1>4, <1>5, CallTaken

(***************************************************************************)
(* The loops of the users                                                  *)
(***************************************************************************)

\* Neither the dialer nor the receiving goroutine moves, and no session is
\* bound; of d0, if there is one, the step itself knows the line.
LEMMA UserMoves ==
  ASSUME IInv, IInv', OrderInv, UNCHANGED <<dials, conns, tasks, loop, recvChan, rcv>>,
         NEW d0, d0 \in DOMAIN dials => Bound(d0),
         \A d \in DOMAIN dials : d # d0 => SendSame(d),
         \A d \in DOMAIN dials : Bound(d)' <=> Bound(d),
         SendsOwn', RoutesOwn', PendingRun',
         \A u \in DOMAIN byUser' :
           sess'[byUser'[u]].serverConn \in DOMAIN dials \ {d0} =>
             /\ u \in DOMAIN byUser
             /\ sess[byUser[u]].serverConn = sess'[byUser'[u]].serverConn
             /\ Admitted(u)' = Admitted(u),
         d0 \in DOMAIN dials /\ conns[d0].st # "closed" =>
           \E lo, hi \in Int :
             /\ Line(d0, lo, hi)'
             /\ \A u \in DOMAIN byUser' :
                  sess'[byUser'[u]].serverConn = d0 =>
                    hi = Admitted(u)' /\ Whole(d0, lo, hi)'
  PROVE  OrderInv'
  <1>1. /\ TasksOwn /\ ReplayOwn /\ OpensDistinct /\ OpensUnbound /\ UnboundUnused
        /\ Lines /\ NewestLast /\ UpstreamInOrder
        /\ tasks \in Seq(Task) /\ rcv.io \in Seq(RcvCall)
        /\ DialsKept /\ EventsTrue
    BY DEF OrderInv, OwnInv, IInv, DialerInv, DialerTypeOK, ReceiverTypeOK, DialsKept
  <1>2. TasksOwn' /\ ReplayOwn'
    BY <1>1 DEF TasksOwn, ReplayOwn, Owner, SessionOf
  <1>3. OpensDistinct' /\ OpensUnbound'
    <2>1. Events' = Events
      BY DEF Events
    <2>2. \A m \in Events : m.event = "Open" => m.conn \in DOMAIN dials
      BY <1>1 DEF EventsTrue, EventTrue
    <2> QED
      BY <1>1, <2>1, <2>2 DEF OpensDistinct, OpensUnbound
  <1>4. ASSUME NEW d \in DOMAIN dials, d # d0 PROVE KeepsOrder(d)
    <2>1. SeqSame(tasks, tasks', d, 0) /\ SeqSame(rcv.io, rcv'.io, d, 0)
      BY <1>1, SeqUnchanged
    <2> QED
      BY <1>4, <2>1, SameKeepsOrder DEF LineSame
  <1>5. UnboundUnused'
    BY <1>1, <1>4 DEF UnboundUnused, KeepsOrder
  <1>6. Lines' /\ NewestLast'
    BY <1>1, <1>4, AllLines DEF KeepsOrder
  <1>7. UpstreamInOrder'
    BY <1>1 DEF UpstreamInOrder, IsRun
  <1> QED
    BY <1>2, <1>3, <1>5, <1>6, <1>7 DEF OrderInv, OwnInv

\* The loop of u is about to forward.
Forwards(u) == lp[u].pc = "io" /\ Head(lp[u].io).op = "send"

\* The other loops stay, and this one forwards neither before nor after.
LEMMA LoopQuiet ==
  ASSUME IInv, SendsOwn, DialsKept, NEW u \in Users,
         \A v \in Users : v # u => lp'[v] = lp[v],
         ~Forwards(u), ~Forwards(u)'
  PROVE  SendsOwn' /\ \A d \in DOMAIN dials : SendSame(d)
  <1>1. \A d \in DOMAIN dials : Owner(d)' = Owner(d) /\ SessionOf(d)' = SessionOf(d)
    BY TokensSame
  <1>2. \A d \in DOMAIN dials : Owner(d) \in Users
    BY Numbered
  <1>3. SendsOwn'
    <2>1. ASSUME NEW v \in Users, Forwards(v)', NEW call, call = Head(lp'[v].io)
          PROVE  /\ call.conn \in DOMAIN dials'
                 /\ v = Owner(call.conn)' /\ call.pkt.user = v
                 /\ call.session = SessionOf(call.conn)'
      <3>1. v # u /\ lp'[v] = lp[v]
        BY <2>1
      <3>2. /\ call.conn \in DOMAIN dials /\ v = Owner(call.conn) /\ call.pkt.user = v
            /\ call.session = SessionOf(call.conn)
        BY <2>1, <3>1 DEF SendsOwn, Forwards
      <3> QED
        BY <1>1, <3>2 DEF DialsKept
    <2> QED
      BY <2>1 DEF SendsOwn, Forwards, Owner, SessionOf
  <1>4. ASSUME NEW d \in DOMAIN dials PROVE SendSame(d)
    <2>1. CASE Owner(d) = u
      <3>1. ~Sending(d) /\ ~Sending(d)'
        BY <1>1, <2>1 DEF Forwards, Sending, LoopCallOf
      <3> QED
        BY <3>1 DEF SendSame
    <2>2. CASE Owner(d) # u
      BY <1>1, <1>2, <2>2 DEF Sending, SendSame, SendSeq, LoopCallOf
    <2> QED
      BY <2>1, <2>2
  <1> QED
    BY <1>3, <1>4

\* Admitted sees only the number and the state of the loop.
LEMMA AdmittedOthers ==
  ASSUME NEW v, npkt'[v] = npkt[v], lp'[v] = lp[v]
  PROVE  Admitted(v)' = Admitted(v)
  BY DEF Admitted

\* A step of a loop that leaves the tables.
LEMMA LoopAlonePart ==
  ASSUME IInv, IInv', OrderInv, UNCHANGED <<dials, conns, tasks, loop, recvChan, rcv>>,
         UNCHANGED <<byUser, byServer, sess>>, NEW u \in Users,
         \A v \in Users : v # u => lp'[v] = lp[v] /\ npkt'[v] = npkt[v],
         ~Forwards(u), ~Forwards(u)', Admitted(u)' = Admitted(u)
  PROVE  OrderInv'
  <1>1. SendsOwn /\ RoutesOwn /\ PendingRun /\ DOMAIN byUser \subseteq Users
        /\ NoConn \notin DOMAIN dials
    BY DomainsEqual DEF OrderInv, OwnInv, IInv, TableInv, TableTypeOK, DialerInv
  <1>2. SendsOwn' /\ \A d \in DOMAIN dials : SendSame(d)
    BY <1>1, LoopQuiet DEF DialsKept
  <1>3. \A v \in Users : Admitted(v)' = Admitted(v)
    BY AdmittedOthers
  <1>4. PendingRun'
    BY <1>1, <1>3 DEF PendingRun
  <1>5. RoutesOwn' /\ \A d \in DOMAIN dials : Bound(d)' <=> Bound(d)
    BY <1>1 DEF RoutesOwn, Bound, Owner, SessionOf
  <1> QED
    BY <1>1, <1>2, <1>3, <1>4, <1>5, UserMoves

LEMMA UserTrafficOrder ==
  ASSUME IInv, IInv', OrderInv, NEW u \in Users, UserTraffic(u)
  PROVE  OrderInv'
  <1>1. lp' = [lp EXCEPT ![u].pc = "lookup"] /\ lp[u].pc = "idle" /\ npkt' = npkt
        /\ lp \in [Users -> UserLoopState]
    BY DEF UserTraffic, IInv, LoopInv, UserTypeOK
  <1>2. lp'[u].pc = "lookup" /\ \A v \in Users : v # u => lp'[v] = lp[v]
    BY <1>1 DEF UserLoopState
  <1>3. ~Forwards(u) /\ ~Forwards(u)' /\ Admitted(u)' = Admitted(u)
    BY <1>1, <1>2 DEF Forwards, Admitted
  <1> QED
    BY <1>1, <1>2, <1>3, LoopAlonePart DEF UserTraffic, dialerVars, tableVars

LEMMA LookupOrder ==
  ASSUME IInv, IInv', OrderInv, NEW u \in Users, Lookup(u)
  PROVE  OrderInv'
  <1>1. /\ lp[u].pc = "lookup" /\ lp \in [Users -> UserLoopState]
        /\ npkt \in [Users -> Nat]
        /\ UNCHANGED <<dialerVars, tableVars, rcv>>
    BY DEF Lookup, IInv, LoopInv, UserTypeOK
  <1>2. /\ lp'[u].pc # "io" /\ Admitted(u)' = Admitted(u)
        /\ \A v \in Users : v # u => lp'[v] = lp[v] /\ npkt'[v] = npkt[v]
    <2>1. ASSUME NEW units, NEW cached, Take(u, units, cached)
          PROVE  /\ lp'[u].pc = "admit" /\ npkt'[u] = npkt[u] + 1
                 /\ \A v \in Users : v # u => lp'[v] = lp[v] /\ npkt'[v] = npkt[v]
      BY <1>1, <2>1 DEF Take
    <2>2. ASSUME NEW pc, lp' = [lp EXCEPT ![u].pc = pc], npkt' = npkt
          PROVE  lp'[u].pc = pc /\ \A v \in Users : v # u => lp'[v] = lp[v]
      BY <1>1, <2>2 DEF UserLoopState
    <2>3. \/ \E units, cached : Take(u, units, cached)
          \/ lp' = [lp EXCEPT ![u].pc = "idle"] /\ npkt' = npkt
          \/ lp' = [lp EXCEPT ![u].pc = "reject"] /\ npkt' = npkt
      BY DEF Lookup, LookupCached, LookupRequest, LookupHandshake, LookupRejected, MarshalFails
    <2>4. CASE \E units, cached : Take(u, units, cached)
      BY <1>1, <2>1, <2>4 DEF Admitted
    <2>5. CASE lp' = [lp EXCEPT ![u].pc = "idle"] /\ npkt' = npkt
      BY <1>1, <2>2, <2>5 DEF Admitted
    <2>6. CASE lp' = [lp EXCEPT ![u].pc = "reject"] /\ npkt' = npkt
      BY <1>1, <2>2, <2>6 DEF Admitted
    <2> QED
      BY <2>3, <2>4, <2>5, <2>6
  <1>3. ~Forwards(u) /\ ~Forwards(u)'
    BY <1>1, <1>2 DEF Forwards
  <1> QED
    BY <1>1, <1>2, <1>3, LoopAlonePart DEF dialerVars, tableVars

\* admitUpstream makes a session: its packet is the first that is pending.
LEMMA AdmitDialOrder ==
  ASSUME IInv, IInv', OrderInv, NEW u \in Users, AdmitDial(u), lp[u].pc = "admit",
         UNCHANGED <<dialerVars, byServer, npkt, rcv>>
  PROVE  OrderInv'
  <1> DEFINE n == Len(sess) + 1
             call == DialCall(u, n)
             io == <<call>>
             r == NewSession(lp[u].cached, Pkt(u))
  <1>0. /\ UserTypeOK /\ sess \in Seq(Session) /\ DOMAIN byUser \subseteq Users
        /\ SendsOwn /\ RoutesOwn /\ PendingRun
        /\ \A v \in DOMAIN byUser : byUser[v] \in DOMAIN sess
        /\ \A d \in DOMAIN dials : SessionOf(d) \in DOMAIN sess
        /\ NoConn \notin DOMAIN dials
    BY DomainsEqual, Numbered
       DEF IInv, DialerInv, LoopInv, TableInv, TableTypeOK, OrderInv, OwnInv
  <1>1. /\ u \notin DOMAIN byUser
        /\ sess' = Append(sess, r)
        /\ byUser' = Put(byUser, u, n)
        /\ lp' = [lp EXCEPT ![u].pc = "io", ![u].io = io]
    BY DEF AdmitDial
  <1>2. Head(io) = call /\ call.op = "dial"
    BY DEF DialCall
  <1>3. r.serverConn = NoConn /\ r.pending = <<Pkt(u)>>
    BY DEF NewSession
  <1> HIDE DEF r, io, call
  <1>4. /\ n \notin DOMAIN sess /\ sess'[n] = r
        /\ \A s \in DOMAIN sess : sess'[s] = sess[s]
    BY <1>0, <1>1
  <1> HIDE DEF n
  <1>5. /\ DOMAIN byUser' = DOMAIN byUser \cup {u}
        /\ byUser'[u] = n
        /\ \A v \in DOMAIN byUser : byUser'[v] = byUser[v] /\ v # u
    BY <1>1 DEF Put
  <1>6. /\ lp'[u].pc = "io" /\ lp'[u].io = io
        /\ \A v \in Users : v # u => lp'[v] = lp[v]
    BY <1>0, <1>1 DEF UserTypeOK, UserLoopState
  <1>7. ~Forwards(u) /\ ~Forwards(u)'
    BY <1>2, <1>6 DEF Forwards
  <1>8. SendsOwn' /\ \A d \in DOMAIN dials : SendSame(d)
    BY <1>0, <1>6, <1>7, LoopQuiet DEF dialerVars, DialsKept
  <1>9. /\ \A v \in DOMAIN byUser : Admitted(v)' = Admitted(v)
        /\ Admitted(u)' = npkt[u] /\ npkt[u] \in Nat
    <2>1. \A v \in DOMAIN byUser : npkt'[v] = npkt[v] /\ lp'[v] = lp[v]
      BY <1>0, <1>5, <1>6
    <2>2. npkt[u] \in Nat
      BY <1>0 DEF UserTypeOK
    <2> QED
      BY <1>6, <2>1, <2>2, AdmittedOthers DEF Admitted
  <1>10. PendingRun'
    <2> DEFINE q == <<Pkt(u)>>
    <2>1. sess'[byUser'[u]].serverConn = NoConn /\ sess'[byUser'[u]].pending = q
      BY <1>3, <1>4, <1>5
    <2>2. /\ \A i \in DOMAIN q : i = 1
          /\ q # <<>> /\ Len(q) = 1 /\ q[1].user = u /\ q[1].seq = npkt[u]
      BY DEF Pkt
    <2> HIDE DEF q
    <2>3. \A i \in DOMAIN q : q[i].user = u /\ q[i].seq = Admitted(u)' - Len(q) + i
      BY <1>9, <2>2
    <2>4. \A v \in DOMAIN byUser' : v # u =>
            /\ v \in DOMAIN byUser /\ sess'[byUser'[v]] = sess[byUser[v]]
            /\ Admitted(v)' = Admitted(v)
      BY <1>0, <1>4, <1>5, <1>9
    <2>5. /\ sess'[byUser'[u]].pending # <<>>
          /\ \A i \in DOMAIN sess'[byUser'[u]].pending :
               /\ sess'[byUser'[u]].pending[i].user = u
               /\ sess'[byUser'[u]].pending[i].seq
                    = Admitted(u)' - Len(sess'[byUser'[u]].pending) + i
      BY <2>1, <2>2, <2>3
    <2> QED
      BY <1>0, <2>1, <2>4, <2>5 DEF PendingRun
  <1>11. RoutesOwn' /\ \A d \in DOMAIN dials : Bound(d)' <=> Bound(d)
    BY <1>0, <1>4 DEF RoutesOwn, Bound, Owner, SessionOf, dialerVars
  <1>12. \A v \in DOMAIN byUser' :
           sess'[byUser'[v]].serverConn \in DOMAIN dials \ {NoConn} =>
             /\ v \in DOMAIN byUser
             /\ sess[byUser[v]].serverConn = sess'[byUser'[v]].serverConn
             /\ Admitted(v)' = Admitted(v)
    BY <1>0, <1>3, <1>4, <1>5, <1>9
  <1> QED
    BY <1>0, <1>8, <1>10, <1>11, <1>12, UserMoves DEF dialerVars

\* admitUpstream queues with the dialing session: its packet is the last.
LEMMA AdmitQueuedOrder ==
  ASSUME IInv, IInv', OrderInv, NEW u \in Users, AdmitQueued(u), lp[u].pc = "admit",
         UNCHANGED <<dialerVars, byServer, npkt, rcv>>
  PROVE  OrderInv'
  <1> DEFINE s == byUser[u]
             pending == sess[s].pending
  <1>0. /\ UserTypeOK /\ sess \in Seq(Session) /\ DOMAIN byUser \subseteq Users
        /\ SendsOwn /\ RoutesOwn /\ PendingRun /\ OwnSession
        /\ \A v \in DOMAIN byUser : byUser[v] \in DOMAIN sess
        /\ \A d \in DOMAIN dials : SessionOf(d) \in DOMAIN sess
        /\ NoConn \notin DOMAIN dials
    BY DomainsEqual, Numbered
       DEF IInv, DialerInv, LoopInv, TableInv, TableTypeOK, OrderInv, OwnInv
  <1>1. /\ u \in DOMAIN byUser /\ byUser' = byUser /\ sess[s].dialing
        /\ sess' = SessQueued(s, Pkt(u))
        /\ lp' = [lp EXCEPT ![u].pc = Again(u)]
    BY DEF AdmitQueued, Dialing
  <1>2. /\ s \in DOMAIN sess
        /\ sess'[s].serverConn = sess[s].serverConn
        /\ sess'[s].pending = Append(pending, Pkt(u))
        /\ \A x \in DOMAIN sess : x # s => sess'[x] = sess[x]
    BY <1>0, <1>1, PktType, SessQueuedShape DEF SessShape
  <1>3. \A v \in DOMAIN byUser : v # u => byUser[v] # s
    BY <1>0, <1>1 DEF OwnSession
  <1>4. pending \in Seq(Packet)
    BY <1>0, <1>2, SessFields
  <1>5. /\ sess[s].serverConn = NoConn
        /\ \A i \in DOMAIN pending :
             pending[i].user = u /\ pending[i].seq = Admitted(u) - Len(pending) + i
    BY <1>0, <1>1 DEF PendingRun
  <1> HIDE DEF pending
  <1>6. /\ lp'[u].pc \in {"idle", "lookup"}
        /\ \A v \in Users : v # u => lp'[v] = lp[v]
    BY <1>0, <1>1, AgainOK DEF UserTypeOK, UserLoopState
  <1>7. ~Forwards(u) /\ ~Forwards(u)'
    BY <1>6 DEF Forwards
  <1>8. SendsOwn' /\ \A d \in DOMAIN dials : SendSame(d)
    BY <1>0, <1>6, <1>7, LoopQuiet DEF dialerVars, DialsKept
  <1>9. /\ \A v \in DOMAIN byUser : v # u => Admitted(v)' = Admitted(v)
        /\ Admitted(u) = npkt[u] - 1 /\ Admitted(u)' = npkt[u] /\ npkt[u] \in Nat
    <2>1. \A v \in DOMAIN byUser : v # u => npkt'[v] = npkt[v] /\ lp'[v] = lp[v]
      BY <1>0, <1>6
    <2>2. npkt[u] \in Nat
      BY <1>0 DEF UserTypeOK
    <2> QED
      BY <1>6, <2>1, <2>2, AdmittedOthers DEF Admitted
  <1>10. PendingRun'
    <2>1. ASSUME NEW q, q = Append(pending, Pkt(u)), NEW i \in DOMAIN q
          PROVE  q[i].user = u /\ q[i].seq = Admitted(u)' - Len(q) + i
      <3>1. /\ Len(pending) \in Nat /\ Len(q) = Len(pending) + 1
            /\ i \in DOMAIN pending \/ i = Len(pending) + 1
            /\ i \in DOMAIN pending => q[i] = pending[i] /\ i \in Nat
            /\ q[Len(pending) + 1] = Pkt(u)
        BY <1>4, <2>1
      <3>2. Pkt(u).user = u /\ Pkt(u).seq = npkt[u]
        BY DEF Pkt
      <3>3. CASE i \in DOMAIN pending
        BY <1>5, <1>9, <3>1, <3>3
      <3>4. CASE i = Len(pending) + 1
        BY <1>9, <3>1, <3>2, <3>4
      <3> QED
        BY <3>1, <3>3, <3>4
    <2>2. /\ sess'[s].serverConn = NoConn /\ sess'[s].pending # <<>>
          /\ \A i \in DOMAIN sess'[s].pending :
               /\ sess'[s].pending[i].user = u
               /\ sess'[s].pending[i].seq = Admitted(u)' - Len(sess'[s].pending) + i
      BY <1>2, <1>4, <1>5, <2>1
    <2>3. \A v \in DOMAIN byUser : v # u => sess'[byUser'[v]] = sess[byUser[v]]
      BY <1>0, <1>1, <1>2, <1>3
    <2> QED
      BY <1>0, <1>1, <1>9, <2>2, <2>3 DEF PendingRun
  <1>11. RoutesOwn' /\ \A d \in DOMAIN dials : Bound(d)' <=> Bound(d)
    <2>1. \A x \in DOMAIN sess : sess'[x].serverConn = sess[x].serverConn
      BY <1>2
    <2> QED
      BY <1>0, <2>1 DEF RoutesOwn, Bound, Owner, SessionOf, dialerVars
  <1>12. \A v \in DOMAIN byUser' :
           sess'[byUser'[v]].serverConn \in DOMAIN dials \ {NoConn} =>
             /\ v \in DOMAIN byUser
             /\ sess[byUser[v]].serverConn = sess'[byUser'[v]].serverConn
             /\ Admitted(v)' = Admitted(v)
    BY <1>0, <1>1, <1>2, <1>3, <1>5, <1>9
  <1> QED
    BY <1>0, <1>8, <1>10, <1>11, <1>12, UserMoves DEF dialerVars

\* A forward is decided: the packet follows all that is on the line.
LEMMA AdmitForwardOrder ==
  ASSUME IInv, IInv', OrderInv, NEW u \in Users, AdmitForward(u), lp[u].pc = "admit",
         UNCHANGED <<dialerVars, byServer, npkt, rcv>>
  PROVE  OrderInv'
  <1>0. /\ UserTypeOK /\ sess \in Seq(Session) /\ DOMAIN byUser \subseteq Users
        /\ SendsOwn /\ RoutesOwn /\ PendingRun /\ NewestLast
        /\ RouteConsistent /\ BoundByOwnDial /\ ReadyMeansBound /\ DialsKept
        /\ \A v \in DOMAIN byUser : byUser[v] \in DOMAIN sess
        /\ \A d \in DOMAIN dials : Owner(d) \in Users
    BY Numbered
       DEF IInv, LoopInv, TableInv, TableTypeOK, OrderInv, OwnInv, DialsKept, dialerVars
  <1>1. PICK s : s = byUser[u]
    OBVIOUS
  <1>2. PICK d0 : d0 = sess[s].serverConn
    OBVIOUS
  <1>3. /\ u \in DOMAIN byUser /\ UNCHANGED <<byUser, sess>> /\ ~sess[s].dialing
        /\ lp' = [lp EXCEPT ![u].pc = "io", ![u].io = <<SendCall(d0, Pkt(u), s)>>]
    BY <1>1, <1>2 DEF AdmitForward, Dialing
  <1>4. /\ d0 \in DOMAIN dials /\ SessionOf(d0) = s /\ Bound(d0)
    <2>1. s \in DOMAIN sess /\ d0 # NoConn
      BY <1>0, <1>1, <1>2, <1>3 DEF ReadyMeansBound
    <2> QED
      BY <1>0, <1>2, <2>1 DEF BoundByOwnDial, SessionOf, Bound
  <1>5. \A v \in DOMAIN byUser : sess[byUser[v]].serverConn = d0 => v = Owner(d0)
    <2>1. d0 # NoConn
      BY <1>4, DomainsEqual DEF IInv, DialerInv
    <2> QED
      BY <1>0, <2>1 DEF RouteConsistent, RoutesOwn
  <1>6. u = Owner(d0)
    BY <1>1, <1>2, <1>3, <1>5
  <1> DEFINE call == SendCall(d0, Pkt(u), s)
             io == <<call>>
  <1>7. /\ call.op = "send" /\ call.conn = d0 /\ call.session = s
        /\ call.pkt.user = u /\ call.pkt.seq = npkt[u]
        /\ Head(io) = call
    BY DEF SendCall, Pkt
  <1> HIDE DEF call, io
  <1>8. /\ lp'[u].pc = "io" /\ lp'[u].io = io
        /\ \A v \in Users : v # u => lp'[v] = lp[v]
    <2>1. lp' = [lp EXCEPT ![u].pc = "io", ![u].io = io]
      BY <1>3 DEF call, io
    <2> QED
      BY <1>0, <2>1 DEF UserTypeOK, UserLoopState
  <1>9. SendsOwn'
    <2>1. \A v \in Users : v # u => lp'[v] = lp[v] /\ dials' = dials
      BY <1>8 DEF dialerVars
    <2>2. dials' = dials
      BY DEF dialerVars
    <2>3. \A v \in Users : v # u /\ Forwards(v)' =>
            LET c == Head(lp'[v].io) IN
              /\ c.conn \in DOMAIN dials /\ v = Owner(c.conn) /\ c.pkt.user = v
              /\ c.session = SessionOf(c.conn)
      BY <1>0, <2>1 DEF SendsOwn, Forwards
    <2>4. LET c == Head(lp'[u].io) IN
              /\ c.conn \in DOMAIN dials /\ u = Owner(c.conn) /\ c.pkt.user = u
              /\ c.session = SessionOf(c.conn)
      BY <1>4, <1>6, <1>7, <1>8
    <2> QED
      BY <2>2, <2>3, <2>4 DEF SendsOwn, Forwards, Owner, SessionOf
  <1>10. \A d \in DOMAIN dials : d # d0 => SendSame(d)
    <2> SUFFICES ASSUME NEW d \in DOMAIN dials, d # d0 PROVE SendSame(d)
      OBVIOUS
    <2>1. Owner(d)' = Owner(d)
      BY DEF dialerVars, Owner
    <2>2. CASE Owner(d) = u
      <3>1. ~Sending(d) /\ ~Sending(d)'
        BY <1>7, <1>8, <2>1, <2>2 DEF Sending, LoopCallOf
      <3> QED
        BY <3>1 DEF SendSame
    <2>3. CASE Owner(d) # u
      BY <1>0, <1>8, <2>1, <2>3 DEF Sending, SendSame, SendSeq, LoopCallOf
    <2> QED
      BY <2>2, <2>3
  <1>11. ~Sending(d0) /\ Sending(d0)' /\ SendSeq(d0)' = npkt[u]
    <2>1. Owner(d0)' = u
      BY <1>6 DEF dialerVars, Owner
    <2> QED
      BY <1>6, <1>7, <1>8, <2>1 DEF Sending, SendSeq, LoopCallOf
  <1>12. /\ \A v \in DOMAIN byUser : v # u => Admitted(v)' = Admitted(v)
         /\ Admitted(u) = npkt[u] - 1 /\ Admitted(u)' = npkt[u] /\ npkt[u] \in Nat
    <2>1. \A v \in DOMAIN byUser : v # u => npkt'[v] = npkt[v] /\ lp'[v] = lp[v]
      BY <1>0, <1>8
    <2>2. npkt[u] \in Nat
      BY <1>0 DEF UserTypeOK
    <2> QED
      BY <1>8, <2>1, <2>2, AdmittedOthers DEF Admitted
  <1>13. PendingRun'
    BY <1>0, <1>1, <1>3, <1>12 DEF PendingRun
  <1>14. RoutesOwn' /\ \A d \in DOMAIN dials : Bound(d)' <=> Bound(d)
    BY <1>0, <1>3 DEF RoutesOwn, Bound, Owner, SessionOf, dialerVars
  <1>15. \A v \in DOMAIN byUser' :
           sess'[byUser'[v]].serverConn \in DOMAIN dials \ {d0} =>
             /\ v \in DOMAIN byUser
             /\ sess[byUser[v]].serverConn = sess'[byUser'[v]].serverConn
             /\ Admitted(v)' = Admitted(v)
    BY <1>1, <1>2, <1>3, <1>12
  <1>16. ASSUME conns[d0].st # "closed"
         PROVE  \E lo, hi \in Int :
                  /\ Line(d0, lo, hi)'
                  /\ \A v \in DOMAIN byUser' :
                       sess'[byUser'[v]].serverConn = d0 =>
                         hi = Admitted(v)' /\ Whole(d0, lo, hi)'
    <2>1. PICK lo \in Int, hi \in Int :
            hi = Admitted(u) /\ Whole(d0, lo, hi) /\ Line(d0, lo, hi)
      BY <1>0, <1>1, <1>2, <1>3, <1>4, <1>16 DEF NewestLast
    <2>2. /\ SendSeq(d0)' = hi + 1 /\ hi + 1 = Admitted(u)' /\ hi + 1 \in Int
          /\ lo <= hi + 1 /\ Whole(d0, lo, hi + 1)'
      BY <1>11, <1>12, <2>1 DEF Whole
    <2>3. Line(d0, lo, hi + 1)'
      <3>1. UNCHANGED <<tasks, rcv>> /\ conns'[d0].out = conns[d0].out
        BY DEF dialerVars
      <3> QED
        BY <1>4, <1>11, <2>1, <2>2, <3>1, ForwardDecided
    <2>4. \A v \in DOMAIN byUser' : sess'[byUser'[v]].serverConn = d0 => v = u
      BY <1>3, <1>5, <1>6
    <2> QED
      BY <2>1, <2>2, <2>3, <2>4
  <1> QED
    BY <1>4, <1>9, <1>10, <1>13, <1>14, <1>15, <1>16, UserMoves DEF dialerVars

\* admitUpstream.
LEMMA AdmitOrder ==
  ASSUME IInv, IInv', OrderInv, NEW u \in Users, Admit(u)
  PROVE  OrderInv'
  BY AdmitDialOrder, AdmitQueuedOrder, AdmitForwardOrder DEF Admit

\* OnClose: the session goes.
LEMMA UserClosesOrder ==
  ASSUME IInv, IInv', OrderInv, NEW u \in Users, UserCloses(u)
  PROVE  OrderInv'
  <1> DEFINE io == Orphan(u)
             pc == IF io = <<>> THEN "idle" ELSE "io"
  <1>0. /\ UserTypeOK /\ TableTypeOK /\ DOMAIN byUser \subseteq Users
        /\ SendsOwn /\ RoutesOwn /\ PendingRun
        /\ NoConn \notin DOMAIN dials /\ DialsKept
        /\ lp[u].pc \in {"idle", "reject"}
    BY DomainsEqual DEF IInv, DialerInv, LoopInv, TableInv, TableTypeOK, OrderInv, OwnInv,
                        UserCloses, DialsKept, dialerVars
  <1>1. /\ PurgeByUser(u)
        /\ lp' = [lp EXCEPT ![u].io = io, ![u].pc = pc]
        /\ UNCHANGED <<dialerVars, sess, npkt, rcv>>
    BY DEF UserCloses
  <1>2. io # <<>> => Head(io).op = "close"
    BY DEF Orphan, CloseTask
  <1> HIDE DEF io
  <1>3. pc \in {"idle", "io"} /\ (pc = "io" => io # <<>>)
    OBVIOUS
  <1> HIDE DEF pc
  <1>4. /\ lp'[u].pc = pc /\ lp'[u].io = io
        /\ \A v \in Users : v # u => lp'[v] = lp[v]
    BY <1>0, <1>1 DEF UserTypeOK, UserLoopState
  <1>5. ~Forwards(u) /\ ~Forwards(u)' /\ Admitted(u)' = Admitted(u)
    BY <1>0, <1>1, <1>2, <1>3, <1>4 DEF Forwards, Admitted
  <1>6. SendsOwn' /\ \A d \in DOMAIN dials : SendSame(d)
    BY <1>0, <1>4, <1>5, LoopQuiet
  <1>7. \A v \in Users : Admitted(v)' = Admitted(v)
    BY <1>1, <1>4, <1>5, AdmittedOthers
  <1>8. /\ DOMAIN byUser' \subseteq DOMAIN byUser
        /\ \A v \in DOMAIN byUser' : byUser'[v] = byUser[v]
        /\ DOMAIN byServer' \subseteq DOMAIN byServer
        /\ \A d \in DOMAIN byServer' : byServer'[d] = byServer[d]
    BY <1>1 DEF PurgeByUser, Delete
  <1>9. PendingRun'
    BY <1>0, <1>1, <1>7, <1>8 DEF PendingRun
  <1>10. RoutesOwn' /\ \A d \in DOMAIN dials : Bound(d)' <=> Bound(d)
    BY <1>0, <1>1, <1>8 DEF RoutesOwn, Bound, Owner, SessionOf, dialerVars
  <1>11. \A v \in DOMAIN byUser' :
           sess'[byUser'[v]].serverConn \in DOMAIN dials \ {NoConn} =>
             /\ v \in DOMAIN byUser
             /\ sess[byUser[v]].serverConn = sess'[byUser'[v]].serverConn
             /\ Admitted(v)' = Admitted(v)
    BY <1>0, <1>1, <1>7, <1>8
  <1> QED
    BY <1>0, <1>1, <1>6, <1>9, <1>10, <1>11, UserMoves DEF dialerVars

\* A dial is started: nothing is on the line of its connection.
LEMMA DialStarted ==
  ASSUME IInv, IInv', OrderInv, NEW u \in Users, NEW token \in Token, AsyncDial(token),
         UNCHANGED <<byUser, byServer, sess, rcv>>,
         \A v \in Users : v # u => lp'[v] = lp[v],
         \A v \in Users : Admitted(v)' = Admitted(v),
         ~Forwards(u), ~Forwards(u)'
  PROVE  OrderInv'
  <1>0. /\ DialerInv /\ DOMAIN conns = DOMAIN dials /\ EventsTrue
        /\ tasks \in Seq(Task) /\ rcv.io \in Seq(RcvCall)
        /\ TasksOwn /\ ReplayOwn /\ SendsOwn /\ RoutesOwn
        /\ OpensDistinct /\ OpensUnbound /\ UnboundUnused /\ Lines /\ NewestLast
        /\ PendingRun /\ UpstreamInOrder /\ BoundByOwnDial
        /\ DOMAIN byUser \subseteq Users /\ DOMAIN byServer \subseteq DOMAIN dials
        /\ \A v \in DOMAIN byUser : byUser[v] \in DOMAIN sess
    BY DomainsEqual DEF IInv, DialerInv, DialerTypeOK, ReceiverTypeOK, TableInv, TableTypeOK,
                        OrderInv, OwnInv
  <1>1. PICK d0 :
          /\ DialsKept /\ DOMAIN dials' = DOMAIN dials \cup {d0} /\ d0 \notin DOMAIN dials
          /\ conns'[d0] = NewConn
          /\ \A e \in DOMAIN dials : dials'[e] = dials[e] /\ conns'[e] = conns[e]
    BY <1>0, AsyncDialOK
  <1>2. UNCHANGED <<tasks, loop, recvChan>>
    BY DEF AsyncDial
  <1>3. DOMAIN conns' = DOMAIN dials' /\ NoConn \notin DOMAIN dials'
    BY DEF IInv, DialerInv, DialerTypeOK, NoConn
  <1>4. \A d \in DOMAIN dials : Owner(d)' = Owner(d) /\ SessionOf(d)' = SessionOf(d)
    BY <1>1, TokensSame
  <1>5. SendsOwn' /\ \A d \in DOMAIN dials : SendSame(d)
    BY <1>0, <1>1, LoopQuiet
  <1>6. TasksOwn' /\ ReplayOwn' /\ RoutesOwn'
    BY <1>0, <1>1, <1>2, <1>4 DEF TasksOwn, ReplayOwn, RoutesOwn
  <1>7. \A d \in DOMAIN dials : Bound(d)' <=> Bound(d)
    BY <1>1, BoundStays
  <1>8. OpensDistinct' /\ OpensUnbound'
    <2>1. Events' = Events
      BY <1>2 DEF Events
    <2>2. \A m \in Events : m.event = "Open" => m.conn \in DOMAIN dials
      BY <1>0 DEF EventsTrue, EventTrue
    <2> QED
      BY <1>0, <1>2, <1>7, <2>1, <2>2 DEF OpensDistinct, OpensUnbound
  <1>9. ASSUME NEW d \in DOMAIN dials PROVE KeepsOrder(d)
    <2>1. SeqSame(tasks, tasks', d, 0) /\ SeqSame(rcv.io, rcv'.io, d, 0)
      BY <1>0, <1>2, SeqUnchanged
    <2> QED
      BY <1>1, <1>5, <2>1, SameKeepsOrder DEF LineSame
  <1>10. Unused(d0)'
    <2>1. Writes(tasks, d0)' = {} /\ Writes(rcv.io, d0)' = {}
      BY <1>0, <1>1, <1>2 DEF Writes, TasksOwn, ReplayOwn
    <2>2. ~Sending(d0)'
      <3>1. Owner(d0)' \in Users
        <4>1. dials' \in Seq(Dial) /\ d0 \in DOMAIN dials'
          BY <1>1 DEF IInv, DialerInv, DialerTypeOK
        <4>2. dials'[d0] \in Dial
          BY <4>1
        <4> QED
          BY <4>2 DEF Owner, Dial, Token
      <3>2. \A v \in Users : v # u /\ Forwards(v)' => Head(lp'[v].io).conn \in DOMAIN dials
        BY <1>0 DEF SendsOwn, Forwards
      <3> QED
        BY <1>1, <3>1, <3>2 DEF Sending, LoopCallOf, Forwards
    <2> QED
      BY <1>1, <2>1, <2>2 DEF Unused, NewConn
  <1>11. UnboundUnused'
    BY <1>0, <1>1, <1>7, <1>9, <1>10 DEF UnboundUnused, KeepsOrder
  <1>12. \A v \in DOMAIN byUser : sess[byUser[v]].serverConn # d0
    BY <1>0, <1>1, <1>3 DEF BoundByOwnDial
  <1>13. Lines' /\ NewestLast'
    <2>1. Line(d0, 0 + 1, 0)'
      BY <1>10, UnusedLine
    <2>2. 0 + 1 \in Int /\ 0 \in Int
      OBVIOUS
    <2>3. \E lo, hi \in Int :
            /\ Line(d0, lo, hi)'
            /\ \A v \in DOMAIN byUser' :
                  sess'[byUser'[v]].serverConn = d0 =>
                         hi = Admitted(v)' /\ Whole(d0, lo, hi)'
      BY <1>12, <2>1, <2>2
    <2> QED
      BY <1>0, <1>1, <1>9, <2>3, AllLines DEF KeepsOrder
  <1>14. PendingRun'
    BY <1>0 DEF PendingRun
  <1>15. UpstreamInOrder'
    <2>1. \A d \in DOMAIN dials : IsRun(conns'[d].out, dials'[d].token.user)
      BY <1>0, <1>1 DEF UpstreamInOrder
    <2>2. IsRun(conns'[d0].out, dials'[d0].token.user)
      BY <1>1 DEF NewConn, IsRun
    <2>3. \A d \in DOMAIN conns' : IsRun(conns'[d].out, dials'[d].token.user)
      BY <1>1, <1>3, <2>1, <2>2
    <2> QED
      BY <2>3 DEF UpstreamInOrder, IsRun
  <1> QED
    BY <1>5, <1>6, <1>8, <1>11, <1>13, <1>14, <1>15 DEF OrderInv, OwnInv

\* A loop submits a task that writes nothing.
LEMMA OtherSubmitted ==
  ASSUME IInv, IInv', OrderInv, NEW u \in Users, NEW t \in Task, t.op # "write",
         tasks' = Append(tasks, t),
         UNCHANGED <<dials, conns, loop, recvChan>>,
         UNCHANGED <<byUser, byServer, sess, rcv>>,
         \A v \in Users : v # u => lp'[v] = lp[v],
         \A v \in Users : Admitted(v)' = Admitted(v),
         ~Forwards(u), ~Forwards(u)'
  PROVE  OrderInv'
  <1>0. /\ DOMAIN conns = DOMAIN dials /\ DialsKept
        /\ tasks \in Seq(Task) /\ rcv.io \in Seq(RcvCall)
        /\ TasksOwn /\ ReplayOwn /\ SendsOwn
        /\ OpensDistinct /\ OpensUnbound /\ UpstreamInOrder
    BY DomainsEqual DEF IInv, DialerInv, DialerTypeOK, ReceiverTypeOK, OrderInv, OwnInv, DialsKept
  <1>1. SendsOwn' /\ \A d \in DOMAIN dials : SendSame(d)
    BY <1>0, LoopQuiet
  <1>2. TasksOwn'
    BY <1>0, TasksOwnAdded
  <1>3. ReplayOwn'
    BY <1>0, ReplayOwnKept
  <1>4. OpensDistinct' /\ OpensUnbound'
    BY <1>0 DEF OpensDistinct, OpensUnbound, Events, Bound, SessionOf
  <1>5. UpstreamInOrder'
    BY <1>0, OutsSame
  <1>6. ASSUME NEW d \in DOMAIN dials PROVE KeepsOrder(d)
    <2>1. ~WriteTo(t, d)
      BY DEF WriteTo
    <2>2. SeqSame(tasks, tasks', d, 0)
      BY <1>0, <2>1, SeqAppended
    <2>3. SeqSame(rcv.io, rcv'.io, d, 0)
      BY <1>0, SeqUnchanged
    <2> QED
      BY <1>1, <2>2, <2>3, SameKeepsOrder DEF LineSame
  <1> QED
    BY <1>0, <1>1, <1>2, <1>3, <1>4, <1>5, <1>6, TablesKept

\* A forward is submitted under sendMu: the replay of the session is over.
LEMMA SendSubmitted ==
  ASSUME IInv, IInv', OrderInv, NEW u \in Users, NEW call \in LoopCall,
         Forwards(u), call = Head(lp[u].io), SendMuFree(call.session),
         tasks' = Append(tasks, WriteTask(call.conn, call.pkt)),
         UNCHANGED <<dials, conns, loop, recvChan>>,
         UNCHANGED <<byUser, byServer, sess, rcv>>,
         \A v \in Users : v # u => lp'[v] = lp[v],
         \A v \in Users : Admitted(v)' = Admitted(v),
         ~Forwards(u)'
  PROVE  OrderInv'
  <1>0. /\ DOMAIN conns = DOMAIN dials /\ DialsKept
        /\ tasks \in Seq(Task) /\ rcv.io \in Seq(RcvCall)
        /\ TasksOwn /\ ReplayOwn /\ SendsOwn
        /\ OpensDistinct /\ OpensUnbound /\ UpstreamInOrder
        /\ \A d \in DOMAIN dials : Owner(d) \in Users
    BY DomainsEqual, Numbered
       DEF IInv, DialerInv, DialerTypeOK, ReceiverTypeOK, OrderInv, OwnInv, DialsKept
  <1>1. PICK d0 : d0 = call.conn
    OBVIOUS
  <1>2. PICK p : p = call.pkt
    OBVIOUS
  <1>3. /\ d0 \in DOMAIN dials /\ u = Owner(d0) /\ p.user = u /\ p \in Packet /\ d0 \in ConnIds
        /\ call.session = SessionOf(d0) /\ call.op = "send"
    BY <1>0, <1>1, <1>2, LoopCallFields DEF SendsOwn, Forwards
  <1> DEFINE t == WriteTask(d0, p)
  <1>4. t \in Task /\ t.op = "write" /\ t.conn = d0 /\ t.payload = p
    BY <1>3 DEF WriteTask, Task
  <1>5. tasks' = Append(tasks, t)
    BY <1>1, <1>2
  <1> HIDE DEF t
  <1>6. SendsOwn'
    <2>1. \A v \in Users : Forwards(v)' => v # u /\ lp'[v] = lp[v]
      OBVIOUS
    <2>2. \A v \in Users : Forwards(v)' =>
            LET c == Head(lp'[v].io) IN
              /\ c.conn \in DOMAIN dials /\ v = Owner(c.conn) /\ c.pkt.user = v
              /\ c.session = SessionOf(c.conn)
      BY <1>0, <2>1 DEF SendsOwn, Forwards
    <2> QED
      BY <2>2 DEF SendsOwn, Forwards, Owner, SessionOf
  <1>7. TasksOwn'
    BY <1>0, <1>3, <1>4, <1>5, TasksOwnAdded
  <1>8. ReplayOwn'
    BY <1>0, ReplayOwnKept
  <1>9. OpensDistinct' /\ OpensUnbound'
    BY <1>0 DEF OpensDistinct, OpensUnbound, Events, Bound, SessionOf
  <1>10. UpstreamInOrder'
    BY <1>0, OutsSame
  <1>11. \A d \in DOMAIN dials : Owner(d)' = Owner(d)
    BY <1>0, TokensSame
  <1>12. ASSUME NEW d \in DOMAIN dials, d # d0 PROVE KeepsOrder(d)
    <2>1. ~WriteTo(t, d)
      BY <1>4, <1>12 DEF WriteTo
    <2>2. SeqSame(tasks, tasks', d, 0)
      BY <1>0, <1>4, <1>5, <2>1, SeqAppended
    <2>3. SeqSame(rcv.io, rcv'.io, d, 0)
      BY <1>0, SeqUnchanged
    <2>4. SendSame(d)
      <3>1. CASE Owner(d) = u
        <4>1. ~Sending(d) /\ ~Sending(d)'
          BY <1>1, <1>11, <1>12, <3>1 DEF Sending, LoopCallOf, Forwards
        <4> QED
          BY <4>1 DEF SendSame
      <3>2. CASE Owner(d) # u
        BY <1>0, <1>11, <3>2 DEF Sending, SendSame, SendSeq, LoopCallOf
      <3> QED
        BY <3>1, <3>2
    <2> QED
      BY <2>2, <2>3, <2>4, SameKeepsOrder DEF LineSame
  <1>13. KeepsOrder(d0)
    <2>1. Sending(d0) /\ SendSeq(d0) = p.seq /\ ~Sending(d0)'
      BY <1>1, <1>2, <1>3, <1>11 DEF Sending, SendSeq, LoopCallOf, Forwards
    <2>2. Writes(rcv.io, d0) = {}
      BY <1>0, <1>3 DEF Writes, ReplayOwn, SendMuFree
    <2>3. WriteTo(t, d0)
      BY <1>4 DEF WriteTo
    <2>4. Added(tasks, tasks', d0, p)
      BY <1>0, <1>4, <1>5, <2>3, SeqAppended
    <2>5. UNCHANGED rcv /\ conns'[d0].out = conns[d0].out
      OBVIOUS
    <2>6. \A lo, hi \in Int : Line(d0, lo, hi) => Line(d0, lo, hi)'
      BY <1>3, <2>1, <2>2, <2>4, <2>5, ForwardSubmitted
    <2>7. ~Unused(d0)
      BY <2>1 DEF Unused
    <2> QED
      BY <2>5, <2>6, <2>7 DEF KeepsOrder, LineMoves, Whole
  <1> QED
    BY <1>0, <1>6, <1>7, <1>8, <1>9, <1>10, <1>12, <1>13, TablesKept

\* The loop does its I/O.
LEMMA UserCallOrder ==
  ASSUME IInv, IInv', OrderInv, NEW u \in Users, UserCall(u)
  PROVE  OrderInv'
  <1>0. /\ UserTypeOK /\ lp[u].pc = "io" /\ Head(lp[u].io) \in LoopCall
        /\ UNCHANGED <<byUser, byServer, sess, rcv, npkt>>
    BY Numbered DEF IInv, LoopInv, UserCall, tableVars
  <1>1. PICK call \in LoopCall : call = Head(lp[u].io)
    BY <1>0
  <1>2. PICK pc \in {"idle", "lookup"} : lp' = [lp EXCEPT ![u].io = <<>>, ![u].pc = pc]
    BY <1>0, AgainOK DEF UserCall
  <1>3. lp'[u].pc = pc /\ \A v \in Users : v # u => lp'[v] = lp[v]
    BY <1>0, <1>2 DEF UserTypeOK, UserLoopState
  <1>4. ~Forwards(u)' /\ \A v \in Users : Admitted(v)' = Admitted(v)
    <2>1. ~Forwards(u)' /\ Admitted(u)' = Admitted(u)
      BY <1>0, <1>3 DEF Forwards, Admitted
    <2> QED
      BY <1>0, <1>3, <2>1, AdmittedOthers
  <1>5. CASE call.op = "dial" /\ AsyncDial(call.token)
    <2>1. call.token \in Token /\ ~Forwards(u)
      BY <1>1, <1>5, LoopCallFields DEF Forwards
    <2> QED
      BY <1>0, <1>3, <1>4, <1>5, <2>1, DialStarted
  <1>6. CASE /\ call.op = "send" /\ SendMuFree(call.session)
             /\ tasks' = Append(tasks, WriteTask(call.conn, call.pkt))
             /\ UNCHANGED <<dials, conns, loop, recvChan>>
    <2>1. Forwards(u)
      BY <1>0, <1>1, <1>6 DEF Forwards
    <2> QED
      BY <1>0, <1>1, <1>3, <1>4, <1>6, <2>1, SendSubmitted
  <1>7. CASE /\ call.op = "close" /\ tasks' = Append(tasks, call)
             /\ UNCHANGED <<dials, conns, loop, recvChan>>
    <2>1. call \in Task /\ ~Forwards(u) /\ call.op # "write"
      BY <1>1, <1>7, LoopCallFields DEF Forwards
    <2> QED
      BY <1>0, <1>3, <1>4, <1>7, <2>1, OtherSubmitted
  <1> QED
    BY <1>1, <1>5, <1>6, <1>7 DEF UserCall

(***************************************************************************)
(* The receiving goroutine takes an event                                  *)
(***************************************************************************)

\* No packet is for d in a sequence with no writes.
LEMMA NoWrites ==
  ASSUME NEW s, \A i \in DOMAIN s : s[i].op # "write", NEW d
  PROVE  Writes(s, d) = {}
  BY DEF Writes

\* The session, if any, is forgotten, and what the goroutine is to do next
\* writes to no server.
LEMMA QuietReceive ==
  ASSUME IInv, IInv', OrderInv, rcv.io = <<>>, recvChan # <<>>, recvChan' = Tail(recvChan),
         UNCHANGED <<dials, conns, tasks, loop>>,
         UNCHANGED <<npkt, lp, sess>>,
         DOMAIN byUser' \subseteq DOMAIN byUser,
         \A u \in DOMAIN byUser' : byUser'[u] = byUser[u],
         DOMAIN byServer' \subseteq DOMAIN byServer,
         \A d \in DOMAIN byServer' : byServer'[d] = byServer[d],
         \A i \in DOMAIN rcv'.io : rcv'.io[i].op # "write"
  PROVE  OrderInv'
  <1>0. /\ DialerInv /\ DOMAIN conns = DOMAIN dials /\ NoConn \notin DOMAIN dials
        /\ DialsKept /\ recvChan \in Seq(ConnEvent)
        /\ tasks \in Seq(Task)
        /\ TasksOwn /\ SendsOwn /\ RoutesOwn
        /\ OpensDistinct /\ OpensUnbound /\ UnboundUnused /\ Lines /\ NewestLast
        /\ PendingRun /\ UpstreamInOrder
    BY DomainsEqual DEF IInv, DialerInv, DialerTypeOK, OrderInv, OwnInv, DialsKept
  <1>1. TasksOwn' /\ SendsOwn' /\ RoutesOwn'
    BY <1>0 DEF TasksOwn, SendsOwn, RoutesOwn, Owner, SessionOf
  <1>2. ReplayOwn'
    BY DEF ReplayOwn
  <1>3. OpensDistinct'
    BY <1>0, DistinctTaken
  <1>4. OpensUnbound'
    <2>1. Events' \subseteq Events
      <3>1. \A i \in DOMAIN recvChan' : i + 1 \in DOMAIN recvChan /\ recvChan'[i] = recvChan[i + 1]
        BY <1>0
      <3> QED
        BY <3>1 DEF Events
    <2> QED
      BY <1>0, <2>1 DEF OpensUnbound, Bound, SessionOf
  <1>5. ASSUME NEW d \in DOMAIN dials PROVE KeepsOrder(d)
    <2>1. SeqSame(tasks, tasks', d, 0)
      BY <1>0, SeqUnchanged
    <2>2. SeqSame(rcv.io, rcv'.io, d, 0)
      <3>1. Writes(rcv'.io, d) = {} /\ Writes(rcv.io, d) = {}
        BY NoWrites, SMTT(30)
      <3> QED
        BY <3>1 DEF SeqSame
    <2>3. SendSame(d)
      BY <1>0, SendStays
    <2> QED
      BY <2>1, <2>2, <2>3, SameKeepsOrder DEF LineSame
  <1>6. UnboundUnused'
    BY <1>0, <1>5 DEF UnboundUnused, KeepsOrder, Bound, SessionOf
  <1>7. \A u : Admitted(u)' = Admitted(u)
    BY DEF Admitted
  <1>8. Lines' /\ NewestLast'
    BY <1>0, <1>5, <1>7, AllLines DEF KeepsOrder
  <1>9. PendingRun'
    BY <1>0, <1>7 DEF PendingRun
  <1>10. UpstreamInOrder'
    BY <1>0, OutsSame
  <1> QED
    BY <1>1, <1>2, <1>3, <1>4, <1>6, <1>8, <1>9, <1>10 DEF OrderInv, OwnInv

\* completeDial: the replay begins.
LEMMA OpenCurrent ==
  ASSUME IInv, IInv', OrderInv, rcv.io = <<>>, recvChan # <<>>, recvChan' = Tail(recvChan),
         UNCHANGED <<dials, conns, dialSem, tasks, loop, dialResultChan>>,
         UNCHANGED <<npkt, lp>>,
         NEW d \in ConnIds, d = Head(recvChan).conn, Head(recvChan).event = "Open",
         Current(dials[d].token), CompleteDial(d, dials[d].token),
         rcv' = [io |-> Replay(d, sess[SessionOf(d)].pending), sendMu |-> SessionOf(d)]
  PROVE  OrderInv'
  <1>0. /\ DialerInv /\ TableInv
        /\ DOMAIN conns = DOMAIN dials /\ NoConn \notin DOMAIN dials
        /\ DialsKept /\ recvChan \in Seq(ConnEvent) /\ sess \in Seq(Session)
        /\ tasks \in Seq(Task) /\ EventsTrue
        /\ TasksOwn /\ SendsOwn /\ RoutesOwn
        /\ OpensDistinct /\ OpensUnbound /\ UnboundUnused /\ Lines /\ NewestLast
        /\ PendingRun /\ UpstreamInOrder
        /\ BoundByOwnDial /\ DialsDistinct /\ ReadyMeansBound /\ OwnSession
        /\ \A v \in DOMAIN byUser : byUser[v] \in DOMAIN sess
    BY DomainsEqual DEF IInv, DialerInv, DialerTypeOK, TableInv, TableTypeOK,
                        OrderInv, OwnInv, DialsKept
  <1>1. PICK msg \in ConnEvent : msg = Head(recvChan) /\ msg \in Events
    BY <1>0 DEF Events
  <1>2. msg.event = "Open" /\ msg.conn = d
    BY <1>1
  <1>3. d \in DOMAIN dials /\ conns[d].st # "new" /\ ~Bound(d)
    BY <1>0, <1>1, <1>2 DEF EventsTrue, EventTrue, OpensUnbound
  <1>4. Unused(d)
    BY <1>0, <1>3 DEF UnboundUnused
  <1>5. PICK s \in DOMAIN sess, u \in DOMAIN byUser :
          s = SessionOf(d) /\ u = Owner(d) /\ byUser[u] = s
    BY <1>0, <1>3 DEF DialsDistinct, SessionOf, Owner, Current
  <1>6. PICK pending \in Seq(Packet) : pending = sess[s].pending
    BY <1>0, SessFields
  <1>7. /\ UNCHANGED byUser /\ byServer' = Put(byServer, d, u)
        /\ rcv'.io = Replay(d, pending) /\ rcv'.sendMu = s
    BY <1>5, <1>6 DEF CompleteDial, Owner
  <1>8. /\ sess'[s].serverConn = d /\ ~sess'[s].dialing
        /\ \A t \in DOMAIN sess : t # s => sess'[t] = sess[t]
    <2>1. DialerStepOK
      BY <1>0, EventTakenOK
    <2> QED
      BY <1>0, <1>3, <1>5, <2>1, CompleteDialOK DEF SessShape, SessionOf
  <1>9. \A e \in DOMAIN dials : e # d => SessionOf(e) # s /\ SessionOf(e) \in DOMAIN sess
    BY <1>0, <1>3, <1>5 DEF DialsDistinct, SessionOf
  <1>10. \A e \in DOMAIN dials : e # d => (Bound(e)' <=> Bound(e))
    <2>1. \A e \in DOMAIN dials : SessionOf(e)' = SessionOf(e)
      BY <1>0, TokensSame
    <2> QED
      BY <1>8, <1>9, <2>1 DEF Bound
  <1>11. sess[s].dialing
    <2>1. PICK e : e = sess[s].serverConn
      OBVIOUS
    <2>2. e # d
      BY <1>3, <1>5, <2>1 DEF Bound
    <2>3. e # NoConn => e \in DOMAIN dials /\ SessionOf(e) = s
      BY <1>0, <2>1 DEF BoundByOwnDial, SessionOf
    <2>4. e = NoConn
      BY <1>9, <2>2, <2>3
    <2> QED
      BY <1>0, <2>1, <2>4 DEF ReadyMeansBound
  <1>12. /\ pending # <<>>
         /\ \A i \in DOMAIN pending :
              pending[i].user = u /\ pending[i].seq = Admitted(u) - Len(pending) + i
    BY <1>0, <1>5, <1>6, <1>11 DEF PendingRun
  <1>13. TasksOwn' /\ SendsOwn'
    BY <1>0 DEF TasksOwn, SendsOwn, Owner, SessionOf
  <1>14. RoutesOwn'
    <2>1. \A e \in DOMAIN byServer' : byServer'[e] = Owner(e)
      BY <1>0, <1>5, <1>7 DEF RoutesOwn, Put
    <2> QED
      BY <2>1 DEF RoutesOwn, Owner
  <1>15. ReplayOwn'
    <2>1. /\ DOMAIN rcv'.io = DOMAIN pending
          /\ \A i \in DOMAIN pending : rcv'.io[i] = WriteTask(d, pending[i])
      BY <1>7 DEF Replay
    <2>2. \A i \in DOMAIN rcv'.io :
            rcv'.io[i].conn = d /\ rcv'.io[i].payload.user = u
      <3>1. \A i \in DOMAIN pending :
              WriteTask(d, pending[i]).conn = d /\ WriteTask(d, pending[i]).payload = pending[i]
        BY DEF WriteTask
      <3> QED
        BY <1>12, <2>1, <3>1
    <2>3. Owner(d)' = u /\ SessionOf(d)' = s /\ d \in DOMAIN dials'
      BY <1>3, <1>5 DEF Owner, SessionOf
    <2> QED
      BY <1>7, <2>2, <2>3 DEF ReplayOwn, Owner, SessionOf
  <1>16. /\ OpensDistinct'
         /\ \A i \in DOMAIN recvChan' : ~SameOpen(recvChan'[i], msg)
         /\ \A i \in DOMAIN loop.blocked : ~SameOpen(loop.blocked[i], msg)
    BY <1>0, <1>1, DistinctTaken
  <1>17. OpensUnbound'
    <2>1. \A m \in Events' : m \in Events /\ ~SameOpen(m, msg)
      <3>1. \A i \in DOMAIN recvChan' : i + 1 \in DOMAIN recvChan /\ recvChan'[i] = recvChan[i + 1]
        BY <1>0
      <3> QED
        BY <1>16, <3>1 DEF Events
    <2>2. ASSUME NEW m \in Events', m.event = "Open" PROVE ~Bound(m.conn)'
      <3>1. m \in Events /\ m.conn # d
        BY <1>2, <2>1, <2>2 DEF SameOpen
      <3>2. m.conn \in DOMAIN dials /\ ~Bound(m.conn)
        BY <1>0, <2>2, <3>1 DEF EventsTrue, EventTrue, OpensUnbound
      <3> QED
        BY <1>10, <3>1, <3>2
    <2> QED
      BY <2>2 DEF OpensUnbound
  <1>18. \A e \in DOMAIN dials : SendSame(e)
    BY <1>0, SendStays
  <1>19. ASSUME NEW e \in DOMAIN dials, e # d PROVE KeepsOrder(e)
    <2>1. SeqSame(tasks, tasks', e, 0)
      BY <1>0, SeqUnchanged
    <2>2. SeqSame(rcv.io, rcv'.io, e, 0)
      <3>1. Writes(rcv.io, e) = {}
        BY DEF Writes
      <3>2. Writes(rcv'.io, e) = {}
        BY <1>7, <1>19 DEF Writes, Replay, WriteTask
      <3> QED
        BY <3>1, <3>2 DEF SeqSame
    <2> QED
      BY <1>18, <2>1, <2>2, SameKeepsOrder DEF LineSame
  <1>20. UnboundUnused'
    <2>1. Bound(d)'
      <3>1. SessionOf(d)' = s
        BY <1>5 DEF SessionOf
      <3> QED
        BY <1>8, <3>1 DEF Bound
    <2> QED
      BY <1>0, <1>10, <1>19, <2>1 DEF UnboundUnused, KeepsOrder
  <1>21. \A v : Admitted(v)' = Admitted(v)
    BY DEF Admitted
  <1>22. \E lo, hi \in Int :
           /\ Line(d, lo, hi)'
           /\ \A v \in DOMAIN byUser' :
                sess'[byUser'[v]].serverConn = d =>
                  hi = Admitted(v)' /\ Whole(d, lo, hi)'
    <2>1. PICK hi \in Int : hi = Admitted(u)
      <3>1. npkt[u] \in Nat
        BY <1>5 DEF IInv, LoopInv, UserTypeOK, TableInv, TableTypeOK
      <3> QED
        BY <3>1 DEF Admitted
    <2>2. Len(pending) \in Nat /\ Len(pending) # 0
      BY <1>12
    <2>3. Line(d, hi - Len(pending) + 1, hi)'
      <3>1. UNCHANGED tasks /\ SendSame(d) /\ conns'[d].out = conns[d].out
        BY <1>3, <1>18
      <3> QED
        BY <1>3, <1>4, <1>7, <1>12, <2>1, <3>1, ReplayBegins
    <2>4. \A v \in DOMAIN byUser' : sess'[byUser'[v]].serverConn = d => v = u
      <3> SUFFICES ASSUME NEW v \in DOMAIN byUser, sess'[byUser[v]].serverConn = d, v # u
                   PROVE  FALSE
        BY <1>7
      <3>1. byUser[v] # s /\ byUser[v] \in DOMAIN sess
        BY <1>0, <1>5 DEF OwnSession
      <3>2. sess[byUser[v]].serverConn = d
        BY <1>8, <3>1
      <3>3. SessionOf(d) = byUser[v]
        BY <1>0, <1>3, <3>1, <3>2 DEF BoundByOwnDial, SessionOf
      <3> QED
        BY <1>5, <3>1, <3>3
    <2> DEFINE lo == hi - Len(pending) + 1
    <2>5. lo \in Int /\ Whole(d, lo, hi)' /\ Line(d, lo, hi)'
      <3>1. lo \in Int /\ lo <= hi + 1 /\ lo <= hi
        BY <2>2
      <3> QED
        BY <2>3, <3>1 DEF Whole
    <2> HIDE DEF lo
    <2> QED
      BY <1>21, <2>1, <2>4, <2>5
  <1>23. \A v \in DOMAIN byUser' :
           sess'[byUser'[v]].serverConn \in DOMAIN dials' \ {d} =>
             /\ v \in DOMAIN byUser
             /\ sess[byUser[v]].serverConn = sess'[byUser'[v]].serverConn
             /\ Admitted(v)' = Admitted(v)
    BY <1>0, <1>7, <1>8, <1>21
  <1>24. Lines' /\ NewestLast'
    BY <1>0, <1>19, <1>22, <1>23, AllLines DEF KeepsOrder
  <1>25. PendingRun'
    <2>1. \A v \in DOMAIN byUser' : sess'[byUser'[v]].dialing =>
            v \in DOMAIN byUser /\ byUser'[v] = byUser[v] /\ sess'[byUser[v]] = sess[byUser[v]]
      BY <1>0, <1>7, <1>8
    <2> QED
      BY <1>0, <1>21, <2>1 DEF PendingRun
  <1>26. UpstreamInOrder'
    BY <1>0, OutsSame
  <1> QED
    BY <1>13, <1>14, <1>15, <1>16, <1>17, <1>20, <1>24, <1>25, <1>26 DEF OrderInv, OwnInv

LEMMA ReceiveOrder ==
  ASSUME IInv, IInv', OrderInv, Receive
  PROVE  OrderInv'
  <1>0. /\ rcv.io = <<>> /\ recvChan # <<>> /\ recvChan' = Tail(recvChan)
        /\ UNCHANGED <<dials, conns, dialSem, tasks, loop, dialResultChan>>
        /\ UNCHANGED <<npkt, lp>>
        /\ recvChan \in Seq(ConnEvent) /\ rcv \in [io : Seq(RcvCall), sendMu : Nat]
    BY DEF Receive, RcvIdle, userVars, IInv, DialerInv, DialerTypeOK, ReceiverTypeOK
  <1>1. PICK msg \in ConnEvent : msg = Head(recvChan)
    BY <1>0
  <1>2. PICK d \in ConnIds : d = msg.conn
    BY DEF ConnEvent
  <1>3. CASE HandleServerMsg(msg)
    <2>1. UNCHANGED <<byUser, byServer, sess>>
      BY <1>3 DEF HandleServerMsg, tableVars
    <2>2. PICK io : /\ rcv' = [rcv EXCEPT !.io = io]
                    /\ \A i \in DOMAIN io : io[i].op # "write"
      <3>1. CASE GetByServer(msg.conn) = {}
        <4>1. rcv' = [rcv EXCEPT !.io = <<>>] /\ \A i \in DOMAIN <<>> : <<>>[i].op # "write"
          BY <1>3, <3>1 DEF HandleServerMsg
        <4> QED
          BY <4>1
      <3>2. CASE GetByServer(msg.conn) # {}
        <4> DEFINE q == [i \in DOMAIN msg.pkts |-> UserWrite(byServer[msg.conn], msg.pkts[i])]
        <4>1. rcv' = [rcv EXCEPT !.io = q]
          BY <1>3, <3>2 DEF HandleServerMsg
        <4>2. \A i \in DOMAIN q : q[i].op # "write"
          BY DEF UserWrite
        <4> QED
          BY <4>1, <4>2
      <3> QED
        BY <3>1, <3>2
    <2>3. rcv'.io = io
      BY <1>0, <2>2
    <2> QED
      BY <1>0, <2>1, <2>2, <2>3, QuietReceive
  <1>4. CASE HandleDialClose(msg)
    <2> DEFINE io == TellUser(PurgedUser(d))
    <2>1. PurgeByServer(d) /\ UNCHANGED sess /\ rcv' = [rcv EXCEPT !.io = io]
      BY <1>2, <1>4 DEF HandleDialClose
    <2>2. \A i \in DOMAIN io : io[i].op # "write"
      BY DEF TellUser
    <2> HIDE DEF io
    <2>3. rcv'.io = io
      BY <1>0, <2>1
    <2>4. /\ DOMAIN byUser' \subseteq DOMAIN byUser
          /\ \A u \in DOMAIN byUser' : byUser'[u] = byUser[u]
          /\ DOMAIN byServer' \subseteq DOMAIN byServer
          /\ \A e \in DOMAIN byServer' : byServer'[e] = byServer[e]
      BY <2>1 DEF PurgeByServer, Delete
    <2> QED
      BY <1>0, <2>1, <2>2, <2>3, <2>4, QuietReceive
  <1>5. CASE HandleDialOpen(msg)
    <2>1. CASE Current(dials[d].token)
      <3>1. /\ CompleteDial(d, dials[d].token)
            /\ rcv' = [io |-> Replay(d, sess[SessionOf(d)].pending), sendMu |-> SessionOf(d)]
            /\ msg.event = "Open"
        BY <1>2, <1>5, <2>1 DEF HandleDialOpen, SessionOf
      <3> QED
        BY <1>0, <1>1, <1>2, <2>1, <3>1, OpenCurrent
    <2>2. CASE ~Current(dials[d].token)
      <3> DEFINE t == CloseTask(d)
      <3>1. /\ UNCHANGED <<byUser, byServer, sess>>
            /\ rcv' = [io |-> <<t>>, sendMu |-> SessionOf(d)]
        BY <1>2, <1>5, <2>2 DEF HandleDialOpen, RejectOpen, tableVars, SessionOf
      <3>2. t.op # "write"
        BY DEF CloseTask
      <3> HIDE DEF t
      <3>3. rcv'.io = <<t>> /\ \A i \in DOMAIN <<t>> : <<t>>[i].op # "write"
        BY <3>1, <3>2
      <3> QED
        BY <1>0, <3>1, <3>3, QuietReceive
    <2> QED
      BY <2>1, <2>2
  <1>6. CASE HandleDialError(msg)
    <2>1. UNCHANGED <<byServer, sess, rcv>>
      BY <1>6 DEF HandleDialError
    <2>2. /\ DOMAIN byUser' \subseteq DOMAIN byUser
          /\ \A u \in DOMAIN byUser' : byUser'[u] = byUser[u]
      BY <1>6 DEF HandleDialError, AbortDial, Delete
    <2>3. \A i \in DOMAIN rcv'.io : rcv'.io[i].op # "write"
      BY <1>0, <2>1
    <2> QED
      BY <1>0, <2>1, <2>2, <2>3, QuietReceive
  <1> QED
    BY <1>1, <1>3, <1>4, <1>5, <1>6 DEF Receive

(***************************************************************************)
(* The invariant                                                           *)
(***************************************************************************)
LEMMA InitOrder ==
  ASSUME Init
  PROVE  OrderInv
  <1>1. /\ dials = <<>> /\ conns = <<>> /\ tasks = <<>> /\ recvChan = <<>>
        /\ loop = [blocked |-> <<>>, failed |-> NoConn]
        /\ byUser = <<>> /\ byServer = <<>> /\ rcv = [io |-> <<>>, sendMu |-> NoSession]
        /\ lp = [u \in Users |-> [pc |-> "idle", cached |-> FALSE, io |-> <<>>]]
    BY DEF Init, DialerInit
  <1>2. /\ DOMAIN dials = {} /\ DOMAIN conns = {} /\ DOMAIN tasks = {} /\ DOMAIN recvChan = {}
        /\ DOMAIN loop.blocked = {} /\ DOMAIN byUser = {} /\ DOMAIN byServer = {}
        /\ DOMAIN rcv.io = {}
        /\ \A u \in Users : lp[u].pc = "idle"
    BY <1>1
  <1>3. OwnInv
    BY <1>2 DEF OwnInv, TasksOwn, ReplayOwn, SendsOwn, RoutesOwn
  <1>4. OpensDistinct /\ OpensUnbound
    BY <1>2 DEF OpensDistinct, OpensUnbound, Events
  <1>5. UnboundUnused /\ Lines /\ NewestLast /\ PendingRun /\ UpstreamInOrder
    BY <1>2 DEF UnboundUnused, Lines, NewestLast, PendingRun, UpstreamInOrder
  <1> QED
    BY <1>3, <1>4, <1>5 DEF OrderInv

LEMMA NextOrder ==
  ASSUME ClientAssumption, IInv, OrderInv, [Next]_vars
  PROVE  OrderInv'
  <1>0. IInv'
    BY NextIInv
  <1>1. ASSUME NEW u \in Users, UserTraffic(u) \/ UserLoop(u) \/ UserCloses(u)
        PROVE  OrderInv'
    BY <1>0, <1>1, UserTrafficOrder, LookupOrder, AdmitOrder, UserCallOrder, UserClosesOrder
    DEF UserLoop
  <1>2. CASE Consumer
    BY <1>0, <1>2, ReceiveOrder, ReceiveCallOrder DEF Consumer
  <1>3. CASE DialerSteps
    BY <1>0, <1>3, DialerOrder
  <1>4. CASE UNCHANGED vars
    <2>1. /\ UNCHANGED <<dials, conns, tasks, loop, recvChan>>
          /\ UNCHANGED <<byUser, byServer, sess, npkt, lp, rcv>>
      BY <1>4 DEF vars, dialerVars, tableVars, userVars
    <2>2. /\ \A d : Owner(d)' = Owner(d) /\ SessionOf(d)' = SessionOf(d)
          /\ \A d : Bound(d)' <=> Bound(d)
          /\ \A d : Writes(tasks, d)' = Writes(tasks, d) /\ Writes(rcv.io, d)' = Writes(rcv.io, d)
          /\ \A d : (Sending(d)' <=> Sending(d)) /\ SendSeq(d)' = SendSeq(d)
          /\ \A d : LastOut(d)' = LastOut(d)
          /\ \A u : Admitted(u)' = Admitted(u)
          /\ Events' = Events
      BY <2>1 DEF Owner, SessionOf, Bound, Writes, Sending, SendSeq, LoopCallOf, LastOut,
                  Admitted, Events
    <2>3. OwnInv'
      BY <2>1, <2>2 DEF OrderInv, OwnInv, TasksOwn, ReplayOwn, SendsOwn, RoutesOwn
    <2>4. OpensDistinct' /\ OpensUnbound' /\ UnboundUnused'
      BY <2>1, <2>2 DEF OrderInv, OpensDistinct, OpensUnbound, UnboundUnused, Unused
    <2>5. \A d : Ordered(d)' <=> Ordered(d)
      BY <2>1, <2>2 DEF Ordered, Increasing
    <2>6. \A d, q : OnLine(d, q)' <=> OnLine(d, q)
      BY <2>1, <2>2 DEF OnLine
    <2>7. \A d, lo, hi : (Line(d, lo, hi)' <=> Line(d, lo, hi))
                         /\ (Whole(d, lo, hi)' <=> Whole(d, lo, hi))
      BY <2>1, <2>2, <2>5, <2>6 DEF Line, Whole
    <2>8. Lines' /\ NewestLast'
      BY <2>1, <2>2, <2>7 DEF OrderInv, Lines, NewestLast
    <2>9. PendingRun' /\ UpstreamInOrder'
      BY <2>1, <2>2 DEF OrderInv, PendingRun, UpstreamInOrder, IsRun
    <2> QED
      BY <2>3, <2>4, <2>8, <2>9 DEF OrderInv
  <1> QED
    BY <1>1, <1>2, <1>3, <1>4 DEF Next

\* A server connection receives an unbroken run of the packets of the one
\* user it was dialed for, whatever the interleaving of the replay with the
\* forwards of the user's loop (session.go:11, sendMu).
THEOREM UpstreamOrdered == Spec => []UpstreamInOrder
  <1>1. Init => OrderInv
    BY InitOrder
  <1>2. IInv /\ OrderInv /\ [Next]_vars => OrderInv'
    BY NextOrder, ClientAssumption
  <1>3. OrderInv => UpstreamInOrder
    BY DEF OrderInv
  <1> QED
    BY <1>1, <1>2, <1>3, ClientInvariant, PTL DEF Spec
(***************************************************************************)
(* Nothing is lost                                                         *)
(***************************************************************************)

\* A packet is its user and its number.
LEMMA PacketIs ==
  ASSUME NEW p \in Packet, NEW u, NEW q, p.user = u, p.seq = q
  PROVE  p = [user |-> u, seq |-> q]
  BY DEF Packet

\* The call a loop owes is the only one.
LEMMA LoopSends ==
  ASSUME IInv, SendsOwn, NEW d \in DOMAIN dials, NEW p
  PROVE  p \in SentTo(d, lp[Owner(d)].io) <=> Sending(d) /\ LoopCallOf(d).pkt = p
  <1> DEFINE io == lp[Owner(d)].io
  <1>1. /\ Owner(d) \in Users
        /\ lp[Owner(d)].pc = "io" => Len(io) = 1 /\ io \in Seq(LoopCall)
        /\ lp[Owner(d)].pc # "io" => io = <<>>
    BY Numbered DEF IInv, LoopInv, UserTypeOK, UserLoopState, CallsFresh
  <1>2. CASE lp[Owner(d)].pc # "io"
    BY <1>1, <1>2 DEF SentTo, Sending
  <1>3. CASE lp[Owner(d)].pc = "io"
    <2>1. DOMAIN io = {1} /\ Head(io) = io[1] /\ io[1] \in LoopCall
      BY <1>1, <1>3
    <2>2. io[1].op # "write"
      BY <2>1 DEF LoopCall
    <2> HIDE DEF io
    <2>3. p \in SentTo(d, io) <=> io[1].op = "send" /\ io[1].conn = d /\ io[1].pkt = p
      BY <2>1, <2>2 DEF SentTo
    <2> USE DEF io
    <2> QED
      BY <1>3, <2>1, <2>3 DEF Sending, LoopCallOf
  <1> QED
    BY <1>2, <1>3

\* The packets among the tasks and in the replay are the owner's, and so is
\* the one about to be forwarded: those on the line, by number.
LEMMA OnTheWay ==
  ASSUME IInv, OwnInv, NEW d \in DOMAIN dials, NEW p
  PROVE  p \in SentTo(d, tasks) \cup SentTo(d, rcv.io) \cup SentTo(d, lp[Owner(d)].io)
         <=> \E q \in Int : OnLine(d, q) /\ p = [user |-> Owner(d), seq |-> q]
  <1> DEFINE P(q) == [user |-> Owner(d), seq |-> q]
  <1>1. /\ tasks \in Seq(Task) /\ rcv.io \in Seq(RcvCall)
        /\ Owner(d) \in Users
    BY Numbered DEF IInv, DialerInv, DialerTypeOK, ReceiverTypeOK
  <1>2. SentTo(d, tasks) = {tasks[i].payload : i \in Writes(tasks, d)}
    <2>1. \A i \in DOMAIN tasks : tasks[i].op # "send"
      <3>1. \A t \in Task : t.op # "send"
        BY DEF Task
      <3> QED
        BY <1>1, <3>1
    <2> QED
      BY <2>1 DEF SentTo, Writes
  <1>3. SentTo(d, rcv.io) = {rcv.io[i].payload : i \in Writes(rcv.io, d)}
    <2>1. \A i \in DOMAIN rcv.io : rcv.io[i].op # "send"
      <3>1. \A t \in RcvCall : t.op # "send"
        BY DEF RcvCall, Task
      <3> QED
        BY <1>1, <3>1
    <2> QED
      BY <2>1 DEF SentTo, Writes
  <1>4. \A i \in Writes(tasks, d) :
          /\ tasks[i].payload.seq \in Int
          /\ tasks[i].payload = P(tasks[i].payload.seq)
    <2>1. \A i \in Writes(tasks, d) :
            /\ tasks[i].payload \in Packet /\ tasks[i].payload.seq \in Nat
            /\ tasks[i].payload.user = Owner(d)
      BY Numbered DEF OwnInv, TasksOwn, Writes
    <2> QED
      BY <2>1, PacketIs
  <1>5. \A i \in Writes(rcv.io, d) :
          /\ rcv.io[i].payload.seq \in Int
          /\ rcv.io[i].payload = P(rcv.io[i].payload.seq)
    <2>1. \A i \in Writes(rcv.io, d) :
            /\ rcv.io[i].payload \in Packet /\ rcv.io[i].payload.seq \in Nat
            /\ rcv.io[i].payload.user = Owner(d)
      BY Numbered DEF OwnInv, ReplayOwn, Writes
    <2> QED
      BY <2>1, PacketIs
  <1>6. Sending(d) =>
          /\ SendSeq(d) \in Int
          /\ LoopCallOf(d).pkt = P(SendSeq(d))
    <2>1. ASSUME Sending(d)
          PROVE  /\ LoopCallOf(d).pkt \in Packet /\ SendSeq(d) \in Nat
                 /\ LoopCallOf(d).pkt.user = Owner(d)
      <3>1. LoopCallOf(d) \in LoopCall
        BY <1>1, <2>1, Numbered DEF Sending, LoopCallOf
      <3>2. LoopCallOf(d).pkt \in Packet
        BY <2>1, <3>1, LoopCallFields DEF Sending
      <3> QED
        BY <1>1, <2>1, <3>2, Numbered DEF OwnInv, SendsOwn, Sending, LoopCallOf
    <2> QED
      BY <2>1, PacketIs DEF SendSeq
  <1>7. p \in SentTo(d, lp[Owner(d)].io) <=> Sending(d) /\ LoopCallOf(d).pkt = p
    BY LoopSends DEF OwnInv
  <1>8. \A q, r : P(q) = P(r) => q = r
    OBVIOUS
  <1> HIDE DEF P
  <1>9. ASSUME p \in SentTo(d, tasks) \cup SentTo(d, rcv.io) \cup SentTo(d, lp[Owner(d)].io)
        PROVE  \E q \in Int : OnLine(d, q) /\ p = P(q)
    BY <1>2, <1>3, <1>4, <1>5, <1>6, <1>7, <1>9 DEF OnLine
  <1>10. ASSUME NEW q \in Int, OnLine(d, q), p = P(q)
         PROVE  p \in SentTo(d, tasks) \cup SentTo(d, rcv.io) \cup SentTo(d, lp[Owner(d)].io)
    BY <1>2, <1>3, <1>4, <1>5, <1>6, <1>7, <1>10 DEF OnLine
  <1> QED
    BY <1>9, <1>10 DEF P

\* A run that ends at a number: its packets are those from its first on.
LEMMA RunPackets ==
  ASSUME NEW s \in Seq(Packet), NEW u, IsRun(s, u), s # <<>>, NEW n \in Int,
         s[Len(s)].seq = n
  PROVE  \E first \in 0..n :
           {s[i] : i \in DOMAIN s} = {[user |-> u, seq |-> q] : q \in first..n}
  <1> DEFINE P(q) == [user |-> u, seq |-> q]
  <1>1. PICK f \in Nat : f = s[1].seq
    <2>1. 1 \in DOMAIN s /\ s[1] \in Packet
      OBVIOUS
    <2> HIDE DEF P
    <2> QED
      BY <2>1 DEF Packet
  <1>2. DOMAIN s = 1..Len(s) /\ Len(s) \in Nat \ {0}
    OBVIOUS
  <1>3. \A i \in DOMAIN s : s[i].seq = f + i - 1
    BY <1>1 DEF IsRun
  <1>4. n = f + Len(s) - 1
    BY <1>2, <1>3
  <1>5. \A i \in DOMAIN s : s[i] = P(f + i - 1)
    <2>1. \A i \in DOMAIN s : s[i] \in Packet /\ s[i].user = u
      BY DEF IsRun
    <2> QED
      BY <1>3, <2>1, PacketIs
  <1> HIDE DEF P
  <1>6. \A i \in DOMAIN s : f + i - 1 \in f..n
    BY <1>2, <1>4
  <1>7. \A q \in f..n : q - f + 1 \in DOMAIN s /\ f + (q - f + 1) - 1 = q
    BY <1>2, <1>4
  <1>8. {s[i] : i \in DOMAIN s} \subseteq {P(q) : q \in f..n}
    BY <1>5, <1>6
  <1>9. ASSUME NEW q \in f..n PROVE P(q) \in {s[i] : i \in DOMAIN s}
    <2> DEFINE i == q - f + 1
    <2>1. i \in DOMAIN s /\ f + i - 1 = q
      BY <1>7
    <2> HIDE DEF i
    <2>2. s[i] = P(q)
      BY <1>5, <2>1
    <2> QED
      BY <2>1, <2>2
  <1>10. f \in 0..n
    BY <1>2, <1>4
  <1> QED
    BY <1>8, <1>9, <1>10 DEF P

\* The packets written to a connection and those on its line.
LEMMA PipelineRun ==
  ASSUME IInv, OrderInv, NEW d \in DOMAIN dials, NEW lo \in Int, NEW hi \in Int,
         Line(d, lo, hi), Whole(d, lo, hi)
  PROVE  \E first \in 0..hi :
           Pipeline(d) = {[user |-> Owner(d), seq |-> q] : q \in first..hi}
  <1> DEFINE P(q) == [user |-> Owner(d), seq |-> q]
             OnWay == SentTo(d, tasks) \cup SentTo(d, rcv.io) \cup SentTo(d, lp[Owner(d)].io)
             Out == {conns[d].out[i] : i \in DOMAIN conns[d].out}
  <1>1. Pipeline(d) = Out \cup OnWay
    BY DEF Pipeline, Owner
  <1>2. OnWay = {P(q) : q \in lo..hi}
    <2>1. \A p : p \in OnWay <=> \E q \in Int : OnLine(d, q) /\ p = P(q)
      BY OnTheWay DEF OrderInv
    <2>2. \A q \in Int : OnLine(d, q) <=> q \in lo..hi
      BY DEF Line
    <2> HIDE DEF P, OnWay
    <2> QED
      BY <2>1, <2>2
  <1>3. \A q \in Int : OnLine(d, q) => q \in Nat
    BY Numbered DEF OnLine
  <1>4. /\ conns[d].out \in Seq(Packet)
        /\ IsRun(conns[d].out, Owner(d))
    BY DomainsEqual, ConnFields
    DEF IInv, DialerInv, DialerTypeOK, OrderInv, UpstreamInOrder, Owner
  <1>5. CASE conns[d].out = <<>>
    <2>1. Out = {}
      BY <1>5
    <2>2. lo <= hi
      BY <1>5 DEF Whole
    <2>3. OnLine(d, lo)
      BY <2>2 DEF Line
    <2>4. lo \in 0..hi
      BY <1>3, <2>2, <2>3
    <2> HIDE DEF P, OnWay, Out
    <2>5. Pipeline(d) = {P(q) : q \in lo..hi}
      BY <1>1, <1>2, <2>1
    <2> QED
      BY <2>4, <2>5 DEF P
  <1>6. CASE conns[d].out # <<>>
    <2>1. conns[d].out[Len(conns[d].out)].seq = lo - 1
      BY <1>6 DEF Line, LastOut
    <2>2. lo - 1 \in Int /\ lo - 1 <= hi
      BY DEF Whole
    <2>3. PICK f \in 0..(lo - 1) : Out = {P(q) : q \in f..(lo - 1)}
      BY <1>4, <1>6, <2>1, <2>2, RunPackets
    <2> HIDE DEF P, OnWay, Out
    <2>4. f \in 0..hi
      BY <2>2
    <2>5. f..hi = (f..(lo - 1)) \cup (lo..hi)
      BY <2>2
    <2>6. Pipeline(d) = {P(q) : q \in f..hi}
      BY <1>1, <1>2, <2>3, <2>5
    <2> QED
      BY <2>4, <2>6 DEF P
  <1> QED
    BY <1>5, <1>6

\* While the session dials, everything is in pending.
LEMMA PendingKept ==
  ASSUME IInv, OrderInv, NEW u \in DOMAIN byUser, sess[byUser[u]].dialing
  PROVE  \E first \in 0..Admitted(u) :
           {sess[byUser[u]].pending[i] : i \in DOMAIN sess[byUser[u]].pending}
             = {[user |-> u, seq |-> q] : q \in first..Admitted(u)}
  <1> DEFINE pending == sess[byUser[u]].pending
  <1>1. pending \in Seq(Packet) /\ byUser[u] \in DOMAIN sess /\ u \in Users
    BY SessFields DEF IInv, TableInv, TableTypeOK
  <1>2. Admitted(u) \in Int
    BY <1>1 DEF Admitted, IInv, LoopInv, UserTypeOK
  <1>3. /\ pending # <<>>
        /\ \A i \in DOMAIN pending :
             pending[i].user = u /\ pending[i].seq = Admitted(u) - Len(pending) + i
    BY DEF OrderInv, PendingRun
  <1> HIDE DEF pending
  <1>4. DOMAIN pending = 1..Len(pending) /\ Len(pending) \in Nat \ {0}
    BY <1>1, <1>3
  <1>5. PICK n \in Int : n = Admitted(u)
    BY <1>2
  <1>6. /\ pending[Len(pending)].seq = n
        /\ pending[1].seq = n - Len(pending) + 1
    BY <1>3, <1>4, <1>5
  <1>7. IsRun(pending, u)
    <2>1. ASSUME NEW i \in DOMAIN pending
          PROVE  pending[i].user = u /\ pending[i].seq = pending[1].seq + i - 1
      <3>1. pending[i].seq = n - Len(pending) + i
        BY <1>3, <1>5, <2>1
      <3>2. i \in Int
        BY <1>4, <2>1
      <3> QED
        BY <1>3, <1>4, <1>6, <3>1, <3>2
    <2> QED
      BY <2>1 DEF IsRun
  <1>8. \E first \in 0..n :
          {pending[i] : i \in DOMAIN pending} = {[user |-> u, seq |-> q] : q \in first..n}
    BY <1>1, <1>3, <1>6, <1>7, RunPackets
  <1> QED
    BY <1>5, <1>8 DEF pending

LEMMA OrderKeepsAll ==
  ASSUME IInv, OrderInv
  PROVE  UpstreamNotLost
  <1>1. ASSUME NEW u \in DOMAIN byUser,
               NEW s, s = sess[byUser[u]],
               s.serverConn = NoConn \/ conns[s.serverConn].st = "open"
        PROVE  \E first \in 0..Admitted(u) :
                 (IF s.dialing THEN {s.pending[i] : i \in DOMAIN s.pending}
                  ELSE Pipeline(s.serverConn))
                   = {[user |-> u, seq |-> q] : q \in first..Admitted(u)}
    <2>1. CASE s.dialing
      BY <1>1, <2>1, PendingKept
    <2>2. CASE ~s.dialing
      <3>1. PICK d : d = s.serverConn
        OBVIOUS
      <3>2. byUser[u] \in DOMAIN sess
        BY DEF IInv, TableInv, TableTypeOK
      <3>3. /\ d # NoConn /\ d \in DOMAIN dials /\ conns[d].st = "open"
            /\ d \in DOMAIN byServer /\ byServer[d] = u
        BY <1>1, <2>2, <3>1, <3>2
        DEF IInv, TableInv, ReadyMeansBound, BoundByOwnDial, RouteConsistent
      <3>4. Owner(d) = u
        BY <3>3 DEF OrderInv, OwnInv, RoutesOwn
      <3>5. PICK lo, hi \in Int :
              hi = Admitted(u) /\ Whole(d, lo, hi) /\ Line(d, lo, hi)
        BY <1>1, <3>1, <3>3 DEF OrderInv, NewestLast
      <3> QED
        BY <2>2, <3>1, <3>3, <3>4, <3>5, PipelineRun
    <2> QED
      BY <2>1, <2>2
  <1> QED
    BY <1>1 DEF UpstreamNotLost

\* While a user has a session, no packet admitted since it began is lost on
\* the way to its connection, whatever happens between the decision to
\* forward and the write (session.go:55, forwarder.go:160) and while the
\* pending packets are replayed (forwarder.go:252).
THEOREM UpstreamKept == Spec => []UpstreamNotLost
  <1>1. Init => OrderInv
    BY InitOrder
  <1>2. IInv /\ OrderInv /\ [Next]_vars => OrderInv'
    BY NextOrder, ClientAssumption
  <1>3. IInv /\ OrderInv => UpstreamNotLost
    BY OrderKeepsAll
  <1> QED
    BY <1>1, <1>2, <1>3, ClientInvariant, PTL DEF Spec

(***************************************************************************)
(* Downstream                                                              *)
(*                                                                         *)
(* The packets of a server connection wait in recvChan, in the event the   *)
(* loop is stopped at, and in the call the receiving goroutine is about to *)
(* make; Coming says that the first two hold the packets lo to hi.         *)
(***************************************************************************)

\* An event carries at most one packet, its connection's.
EventFormed(m) ==
  /\ m.event # "Data" => m.pkts = <<>>
  /\ m.pkts # <<>> => Len(m.pkts) = 1 /\ m.pkts[1].conn = m.conn

\* Packets are of connections that were made.
EventKnown(m) == m.pkts # <<>> => m.conn \in DOMAIN dials /\ conns[m.conn].st # "new"

EventsWellFormed ==
  Len(loop.blocked) <= 1 /\ \A m \in Events : EventFormed(m) /\ EventKnown(m)

\* The Open of d waits.
Awaiting(d) == OpensOf(recvChan, d) # {} \/ OpensOf(loop.blocked, d) # {}

NewUnread(d) == conns[d].st = "new" => conns[d].in = 0

\* A connection made for the session its user has is bound to it once its
\* Open was handled.
OpenedBound(d) == conns[d].st # "new" /\ Current(dials[d].token) => Awaiting(d) \/ Bound(d)

\* A user's dials are for its sessions, in their order, up to the one it has.
DialsInOrder ==
  /\ \A d, e \in DOMAIN dials : Owner(d) = Owner(e) /\ d < e => SessionOf(d) < SessionOf(e)
  /\ \A d \in DOMAIN dials : Owner(d) \in DOMAIN byUser => SessionOf(d) <= byUser[Owner(d)]
  /\ \A u \in Users :
       Owes(u) =>
         /\ Head(lp[u].io).token.user = u
         /\ \A d \in DOMAIN dials : Owner(d) = u => SessionOf(d) < OwedFor(u)
         /\ u \in DOMAIN byUser => OwedFor(u) <= byUser[u]

\* A packet from d may be with user u.
OfUser(d, u) == d \in DOMAIN dials /\ Bound(d) /\ Owner(d) = u

DeliveredOwn ==
  \A u \in Users : \A k \in DOMAIN delivered[u] : OfUser(delivered[u][k].conn, u)

\* What is about to be written to a user is from a connection that is still
\* routed to it, if the user is not gone.
DeliversOwn ==
  \A i \in DOMAIN rcv.io :
    rcv.io[i].op = "deliver" =>
      /\ Len(rcv.io) = 1
      /\ OfUser(rcv.io[i].pkt.conn, rcv.io[i].user)
      /\ ustate[rcv.io[i].user] # "closed" => rcv.io[i].pkt.conn \in DOMAIN byServer

\* The number that comes after what got ends with, from d.
NextOf(got, d) == IF got # <<>> /\ got[Len(got)].conn = d THEN got[Len(got)].seq + 1 ELSE 1

\* A packet from d is about to be written to its user.
Delivering(io, d) == io # <<>> /\ io[1].op = "deliver" /\ io[1].pkt.conn = d

DeliversNext ==
  \A d \in DOMAIN dials :
    Delivering(rcv.io, d) /\ ustate[Owner(d)] = "open" =>
      rcv.io[1].pkt.seq = NextOf(delivered[Owner(d)], d)

\* A user's packets are of older connections first, and of each one a prefix
\* of what it sent.
Runs(got) ==
  \A i \in DOMAIN got :
    LET p == got[i] IN
      /\ p.seq \in 1..i
      /\ \A j \in 1..i :
           IF j > i - p.seq
             THEN got[j] = [conn |-> p.conn, seq |-> j - (i - p.seq)]
             ELSE got[j].conn < p.conn

DeliveredRuns == \A u \in Users : Runs(delivered[u])

HandedInv == DeliveredOwn /\ DeliversOwn /\ DeliversNext /\ DeliveredRuns

\* A connection whose packets its user gets, or will get.
Routed(d) == d \in DOMAIN byServer /\ ustate[Owner(d)] = "open"
Live(d) == Awaiting(d) \/ Routed(d)

\* The next packet from d to leave recvChan is number lo, and the rest of
\* what d sent comes behind it.
Due(d, lo) ==
  lo = NextOf(delivered[Owner(d)], d) + (IF Delivering(rcv.io, d) THEN 1 ELSE 0)
Feeds(d, lo) ==
  lo <= conns[d].in + 1 /\ Coming(recvChan, loop.blocked, d, lo, conns[d].in)
Fed(d) == Live(d) => \E lo \in Nat : Due(d, lo) /\ Feeds(d, lo)

OpensFirst(d) == OpenFirst(recvChan, loop.blocked, d)

ConnDown(d) == OpensFirst(d) /\ NewUnread(d) /\ OpenedBound(d) /\ Fed(d)

DownInv ==
  /\ DialsInOrder
  /\ EventsWellFormed
  /\ HandedInv
  /\ \A d \in DOMAIN dials : ConnDown(d)

(***************************************************************************)
(* Frames                                                                  *)
(***************************************************************************)
LEMMA EventsNumbered == HasNumbers(ConnEvent)
  <1> SUFFICES ASSUME NEW m \in ConnEvent, m.pkts # <<>> PROVE m.pkts[1].seq \in Nat
    BY DEF HasNumbers
  <1>1. PICK pkts \in Seq(DownPkt) : pkts = m.pkts
    BY DEF ConnEvent
  <1>2. pkts[1] \in DownPkt
    BY <1>1
  <1> QED
    BY <1>1, <1>2 DEF DownPkt

LEMMA EventsTyped ==
  ASSUME IInv
  PROVE  recvChan \in Seq(ConnEvent) /\ loop.blocked \in Seq(ConnEvent) /\ loop \in Loop
  BY DEF IInv, DialerInv, DialerTypeOK, Loop

\* Of d, the events and what they say stay.
EventsStay(d) ==
  \E k \in {0, 1} :
    SameOf(recvChan, recvChan', d, k) /\ SameOf(loop.blocked, loop'.blocked, d, 0)

ArrivalsStay(d) ==
  /\ Awaiting(d)' <=> Awaiting(d)
  /\ OpensFirst(d) => OpensFirst(d)'
  /\ \A lo : Feeds(d, lo) => Feeds(d, lo)'

LEMMA EventsNext ==
  ASSUME NEW s, s = recvChan', NEW b, b = loop'.blocked, NEW d
  PROVE  /\ Awaiting(d)' <=> OpensOf(s, d) # {} \/ OpensOf(b, d) # {}
         /\ OpensFirst(d)' <=> OpenFirst(s, b, d)
         /\ \A lo : Feeds(d, lo)' <=> lo <= conns'[d].in + 1 /\ Coming(s, b, d, lo, conns'[d].in)
  <1>1. Awaiting(d)' <=> OpensOf(s, d) # {} \/ OpensOf(b, d) # {}
    BY DEF Awaiting, OpensOf
  <1>2. OpensFirst(d)' <=> OpenFirst(s, b, d)
    BY DEF OpensFirst, OpenFirst, OpensOf, Carries
  <1>3. ASSUME NEW lo
        PROVE  Feeds(d, lo)' <=> lo <= conns'[d].in + 1 /\ Coming(s, b, d, lo, conns'[d].in)
    BY DEF Feeds, Coming, Carries, Number, Holds
  <1> QED
    BY <1>1, <1>2, <1>3

LEMMA StayArrivals ==
  ASSUME IInv, IInv', NEW d, EventsStay(d), conns'[d].in = conns[d].in
  PROVE  ArrivalsStay(d)
  <1>1. PICK s \in Seq(ConnEvent), b \in Seq(ConnEvent) : s = recvChan' /\ b = loop'.blocked
    <2>1. recvChan' \in Seq(ConnEvent) /\ loop'.blocked \in Seq(ConnEvent)
      BY EventsTyped DEF IInv, DialerInv, DialerTypeOK, Loop
    <2> QED
      BY <2>1
  <1>2. recvChan \in Seq(ConnEvent) /\ loop.blocked \in Seq(ConnEvent)
    BY EventsTyped
  <1>3. PICK k \in {0, 1} : SameOf(recvChan, s, d, k) /\ SameOf(loop.blocked, b, d, 0)
    BY <1>1 DEF EventsStay
  <1>4. /\ OpensOf(s, d) # {} <=> OpensOf(recvChan, d) # {}
        /\ OpensOf(b, d) # {} <=> OpensOf(loop.blocked, d) # {}
        /\ OpenFirst(recvChan, loop.blocked, d) => OpenFirst(s, b, d)
        /\ \A lo, hi : Coming(recvChan, loop.blocked, d, lo, hi) => Coming(s, b, d, lo, hi)
    BY <1>2, <1>3, SameKeeps
  <1>5. /\ Awaiting(d)' <=> OpensOf(s, d) # {} \/ OpensOf(b, d) # {}
        /\ OpensFirst(d)' <=> OpenFirst(s, b, d)
        /\ \A lo : Feeds(d, lo)' <=> lo <= conns'[d].in + 1 /\ Coming(s, b, d, lo, conns'[d].in)
    BY <1>1, EventsNext
  <1> QED
    BY <1>4, <1>5 DEF ArrivalsStay, Awaiting, OpensFirst, Feeds

\* What is said of connection d stays when its events do, no session is made
\* current or bound, and no route is made.
LEMMA ConnStays ==
  ASSUME NEW d \in DOMAIN dials, ConnDown(d), ArrivalsStay(d), NewUnread(d)',
         conns'[d].st # "new" => conns[d].st # "new",
         Current(dials[d].token)' => Current(dials[d].token),
         Bound(d) => Bound(d)', Routed(d)' => Routed(d),
         \A lo : Due(d, lo) => Due(d, lo)'
  PROVE  ConnDown(d)'
  <1>1. OpensFirst(d)'
    BY DEF ConnDown, ArrivalsStay
  <1>2. OpenedBound(d)'
    BY DEF ConnDown, ArrivalsStay, OpenedBound
  <1>3. Fed(d)'
    <2> SUFFICES ASSUME Live(d)' PROVE \E lo \in Nat : Due(d, lo)' /\ Feeds(d, lo)'
      BY DEF Fed
    <2>1. Live(d)
      BY DEF Live, ArrivalsStay
    <2>2. PICK lo \in Nat : Due(d, lo) /\ Feeds(d, lo)
      BY <2>1 DEF ConnDown, Fed
    <2>3. Due(d, lo)' /\ Feeds(d, lo)'
      BY <2>2 DEF ArrivalsStay
    <2> QED
      BY <2>3
  <1> QED
    BY <1>1, <1>2, <1>3 DEF ConnDown

\* Steps that leave the table, the users and what they got.
LEMMA DueSame ==
  ASSUME UNCHANGED <<rcv, delivered>>, NEW d, Owner(d)' = Owner(d)
  PROVE  \A lo : Due(d, lo)' <=> Due(d, lo)
  BY DEF Due, NextOf, Delivering

LEMMA DialerConnStays ==
  ASSUME UNCHANGED <<byUser, byServer, sess, ustate, rcv, delivered>>, DialsKept,
         NEW d \in DOMAIN dials, ConnDown(d), ArrivalsStay(d), NewUnread(d)',
         conns'[d].st # "new" => conns[d].st # "new"
  PROVE  ConnDown(d)'
  <1>1. dials'[d].token = dials[d].token /\ Owner(d)' = Owner(d) /\ SessionOf(d)' = SessionOf(d)
    BY TokensSame DEF DialsKept
  <1>2. Current(dials[d].token)' <=> Current(dials[d].token)
    BY <1>1 DEF Current
  <1>3. Bound(d)' <=> Bound(d)
    BY <1>1 DEF Bound
  <1>4. Routed(d)' <=> Routed(d)
    BY <1>1 DEF Routed
  <1> QED
    BY <1>1, <1>2, <1>3, <1>4, DueSame, ConnStays

\* Nobody gets or is about to get anything else.
LEMMA HandedStays ==
  ASSUME HandedInv, UNCHANGED <<rcv, delivered>>, IInv,
         DOMAIN dials \subseteq DOMAIN dials',
         \A d \in DOMAIN dials : Owner(d)' = Owner(d) /\ (Bound(d) => Bound(d)'),
         \A d \in DOMAIN dials' \ DOMAIN dials : Owner(d)' \in Users,
         \A u \in Users : /\ ustate'[u] = "open" => ustate[u] = "open"
                          /\ ustate'[u] # "closed" => ustate[u] # "closed",
         \A d \in DOMAIN byServer :
           d \in DOMAIN dials /\ ustate'[Owner(d)] # "closed" => d \in DOMAIN byServer'
  PROVE  HandedInv'
  <1>1. \A d, u : OfUser(d, u) => OfUser(d, u)'
    BY DEF OfUser
  <1>2. DeliveredOwn'
    BY <1>1 DEF HandedInv, DeliveredOwn
  <1>3. DeliversOwn'
    <2>1. ASSUME NEW i \in DOMAIN rcv.io, rcv.io[i].op = "deliver"
          PROVE  /\ Len(rcv.io) = 1
                 /\ OfUser(rcv.io[i].pkt.conn, rcv.io[i].user)'
                 /\ ustate'[rcv.io[i].user] # "closed" => rcv.io[i].pkt.conn \in DOMAIN byServer'
      <3>1. PICK d, u : d = rcv.io[i].pkt.conn /\ u = rcv.io[i].user
        OBVIOUS
      <3>2. /\ Len(rcv.io) = 1 /\ OfUser(d, u)
            /\ ustate[u] # "closed" => d \in DOMAIN byServer
        BY <2>1, <3>1 DEF HandedInv, DeliversOwn
      <3>3. d \in DOMAIN dials /\ u = Owner(d) /\ u \in Users
        BY <3>2, Numbered DEF OfUser
      <3>4. ustate'[u] # "closed" => d \in DOMAIN byServer'
        BY <3>2, <3>3
      <3> QED
        BY <1>1, <3>1, <3>2, <3>4
    <2>2. UNCHANGED rcv
      OBVIOUS
    <2> QED
      BY <2>1, <2>2 DEF DeliversOwn, OfUser
  <1>4. DeliversNext'
    <2>1. ASSUME NEW d \in DOMAIN dials', Delivering(rcv.io, d), ustate'[Owner(d)'] = "open"
          PROVE  rcv.io[1].pkt.seq = NextOf(delivered[Owner(d)'], d)
      <3>1. rcv.io \in Seq(RcvCall)
        BY DEF IInv, ReceiverTypeOK
      <3>2. 1 \in DOMAIN rcv.io /\ rcv.io[1].op = "deliver" /\ rcv.io[1].pkt.conn = d
        BY <2>1, <3>1 DEF Delivering
      <3>3. d \in DOMAIN dials
        BY <3>2 DEF HandedInv, DeliversOwn, OfUser
      <3>4. Owner(d)' = Owner(d) /\ Owner(d) \in Users
        BY <3>3, Numbered
      <3>5. ustate[Owner(d)] = "open"
        BY <2>1, <3>4
      <3> QED
        BY <2>1, <3>3, <3>4, <3>5 DEF HandedInv, DeliversNext
    <2>2. UNCHANGED <<rcv, delivered>>
      OBVIOUS
    <2> QED
      BY <2>1, <2>2 DEF DeliversNext, Delivering, NextOf
  <1>5. DeliveredRuns'
    BY DEF HandedInv, DeliveredRuns, Runs
  <1> QED
    BY <1>2, <1>3, <1>4, <1>5 DEF HandedInv

\* The dials and sessions stay as they are, or a session goes.
LEMMA DialsStayInOrder ==
  ASSUME DialsInOrder, IInv, DialsKept, DOMAIN dials' = DOMAIN dials,
         DOMAIN byUser' \subseteq DOMAIN byUser,
         \A u \in DOMAIN byUser' : byUser'[u] = byUser[u],
         \A u \in Users : Owes(u)' => Owes(u) /\ lp'[u].io = lp[u].io
  PROVE  DialsInOrder'
  <1>1. \A d \in DOMAIN dials : Owner(d)' = Owner(d) /\ SessionOf(d)' = SessionOf(d)
    BY TokensSame
  <1>2. \A d, e \in DOMAIN dials' : Owner(d)' = Owner(e)' /\ d < e => SessionOf(d)' < SessionOf(e)'
    BY <1>1 DEF DialsInOrder
  <1>3. \A d \in DOMAIN dials' : Owner(d)' \in DOMAIN byUser' => SessionOf(d)' <= byUser'[Owner(d)']
    BY <1>1 DEF DialsInOrder
  <1>4. ASSUME NEW u \in Users, Owes(u)'
        PROVE  /\ Head(lp'[u].io).token.user = u
               /\ \A d \in DOMAIN dials' : Owner(d)' = u => SessionOf(d)' < OwedFor(u)'
               /\ u \in DOMAIN byUser' => OwedFor(u)' <= byUser'[u]
    <2>1. Owes(u) /\ lp'[u].io = lp[u].io /\ OwedFor(u)' = OwedFor(u)
      BY <1>4 DEF OwedFor
    <2> QED
      BY <1>1, <2>1 DEF DialsInOrder
  <1> QED
    BY <1>2, <1>3, <1>4 DEF DialsInOrder

\* Events that remain stay well formed, and so do those a step adds.
LEMMA WellFormedStays ==
  ASSUME EventsWellFormed, DialsKept, Len(loop'.blocked) <= 1,
         NEW msg, Events' \subseteq Events \cup {msg}, EventFormed(msg),
         msg.pkts # <<>> => msg.conn \in DOMAIN dials /\ conns[msg.conn].st # "new"
  PROVE  EventsWellFormed'
  <1>1. \A m \in Events' :
          EventFormed(m) /\ (m.pkts # <<>> => m.conn \in DOMAIN dials /\ conns[m.conn].st # "new")
    BY DEF EventsWellFormed, EventKnown
  <1>2. \A m \in Events' : m.pkts # <<>> => m.conn \in DOMAIN dials' /\ conns'[m.conn].st # "new"
    BY <1>1 DEF DialsKept
  <1> QED
    BY <1>1, <1>2 DEF EventsWellFormed, EventFormed, EventKnown

\* A step of the dialer.
LEMMA DialerKeeps ==
  ASSUME IInv, IInv', DownInv, DialerStepOK,
         UNCHANGED <<byUser, byServer, sess, lp, ustate, rcv, delivered>>,
         EventsWellFormed', \A d \in DOMAIN dials : ConnDown(d)'
  PROVE  DownInv'
  <1>1. DialsKept /\ DOMAIN dials' = DOMAIN dials
    BY DEF DialerStepOK
  <1>2. DialsInOrder'
    BY <1>1, DialsStayInOrder DEF DownInv, Owes
  <1>3. HandedInv'
    <2>1. \A d \in DOMAIN dials : Owner(d)' = Owner(d) /\ (Bound(d) => Bound(d)')
      BY <1>1, TokensSame DEF Bound
    <2> QED
      BY <1>1, <2>1, HandedStays DEF DownInv
  <1> QED
    BY <1>1, <1>2, <1>3 DEF DownInv

(***************************************************************************)
(* The dialer's steps                                                      *)
(***************************************************************************)

\* A handler that posts, on a loop that is not stopped.
LEMMA PostIsPosting ==
  ASSUME NEW m, NEW failed, Post(m, failed), loop.blocked = <<>>
  PROVE  /\ Posting(recvChan, loop.blocked, m, recvChan', loop'.blocked)
         /\ Len(loop'.blocked) <= 1
  <1>1. Len(<<m>>) = 1 /\ Len(<<>>) = 0
    OBVIOUS
  <1>2. CASE recvChan' = Append(recvChan, m) /\ loop' = [blocked |-> <<>>, failed |-> failed]
    BY <1>1, <1>2 DEF Posting
  <1>3. CASE recvChan' = recvChan /\ loop' = [blocked |-> <<m>>, failed |-> failed]
    BY <1>1, <1>3 DEF Posting
  <1> QED
    BY <1>2, <1>3 DEF Post

\* What it posts counts for no connection but, maybe, d0.
LEMMA PostedStay ==
  ASSUME IInv, NEW m \in ConnEvent,
         Posting(recvChan, loop.blocked, m, recvChan', loop'.blocked), NEW d, ~About(m, d)
  PROVE  EventsStay(d)
  <1>1. PICK r, c : r = recvChan' /\ c = loop'.blocked
    OBVIOUS
  <1>2. SameOf(recvChan, r, d, 0) /\ SameOf(loop.blocked, c, d, 0)
    BY <1>1, EventsTyped, OtherPosting
  <1> QED
    BY <1>1, <1>2 DEF EventsStay

LEMMA UntouchedStay ==
  ASSUME IInv, recvChan' = recvChan, loop'.blocked = loop.blocked, NEW d
  PROVE  EventsStay(d)
  <1>1. SameOf(recvChan, recvChan, d, 0) /\ SameOf(loop.blocked, loop.blocked, d, 0)
    BY EventsTyped, SameItself
  <1> QED
    BY <1>1 DEF EventsStay

\* Steps that post nothing that counts, and read nothing.
LEMMA QuietDialer ==
  ASSUME IInv, IInv', DownInv, DialerStepOK,
         UNCHANGED <<byUser, byServer, sess, lp, ustate, rcv, delivered>>,
         EventsWellFormed', \A d \in DOMAIN dials : EventsStay(d),
         \A d \in DOMAIN dials : /\ conns'[d].in = conns[d].in
                                 /\ conns'[d].st = "new" <=> conns[d].st = "new"
  PROVE  DownInv'
  <1>1. ASSUME NEW d \in DOMAIN dials PROVE ConnDown(d)'
    <2>1. ArrivalsStay(d)
      BY StayArrivals
    <2>2. ConnDown(d) /\ NewUnread(d)'
      BY DEF DownInv, ConnDown, NewUnread
    <2> QED
      BY <2>1, <2>2, DialerConnStays DEF DialerStepOK
  <1> QED
    BY <1>1, DialerKeeps

\* Posting an event that carries nothing and opens nothing.
LEMMA QuietPost ==
  ASSUME IInv, IInv', DownInv, DialerStepOK,
         UNCHANGED <<byUser, byServer, sess, lp, ustate, rcv, delivered>>,
         loop.blocked = <<>>, NEW d0 \in ConnIds, NEW failed \in Nat, Post(CloseMsg(d0), failed),
         \A d \in DOMAIN dials : /\ conns'[d].in = conns[d].in
                                 /\ conns'[d].st = "new" <=> conns[d].st = "new"
  PROVE  DownInv'
  <1>1. PICK m \in ConnEvent : /\ m = CloseMsg(d0) /\ m.event = "Close" /\ m.pkts = <<>>
                               /\ Post(m, failed)
    BY MessageTypes DEF CloseMsg
  <1>2. /\ Posting(recvChan, loop.blocked, m, recvChan', loop'.blocked)
        /\ Len(loop'.blocked) <= 1
    BY <1>1, PostIsPosting
  <1>3. EventsWellFormed'
    <2>1. Events' \subseteq Events \cup {m}
      BY <1>1, EventsTyped, PostOK
    <2>2. EventFormed(m)
      BY <1>1 DEF EventFormed
    <2> QED
      BY <1>1, <1>2, <2>1, <2>2, WellFormedStays DEF DownInv, DialerStepOK
  <1>4. \A d \in DOMAIN dials : EventsStay(d)
    BY <1>1, <1>2, PostedStay DEF About
  <1> QED
    BY <1>3, <1>4, QuietDialer

\* The loop's event stays where it is.
LEMMA QuietLoop ==
  ASSUME IInv, IInv', DownInv, DialerStepOK,
         UNCHANGED <<byUser, byServer, sess, lp, ustate, rcv, delivered>>,
         UNCHANGED recvChan, loop'.blocked = loop.blocked,
         \A d \in DOMAIN dials : /\ conns'[d].in = conns[d].in
                                 /\ conns'[d].st = "new" <=> conns[d].st = "new"
  PROVE  DownInv'
  <1>1. Events' = Events
    BY DEF Events
  <1>2. EventsWellFormed'
    <2> DEFINE m == [event |-> "Close", pkts |-> <<>>]
    <2>1. m.event = "Close" /\ m.pkts = <<>>
      OBVIOUS
    <2> HIDE DEF m
    <2>2. EventFormed(m)
      BY <2>1 DEF EventFormed
    <2>3. EventsWellFormed /\ Len(loop'.blocked) <= 1
      BY DEF DownInv, EventsWellFormed
    <2> QED
      BY <1>1, <2>1, <2>2, <2>3, WellFormedStays DEF DialerStepOK
  <1>3. \A d \in DOMAIN dials : EventsStay(d)
    BY UntouchedStay
  <1> QED
    BY <1>2, <1>3, QuietDialer

\* A connection changes state, or is written to, and reads nothing.
LEMMA StateMoves ==
  ASSUME conns \in Seq(Conn), NEW d, NEW st \in {"open", "closed"}, conns[d].st # "new",
         conns' = ConnAt(d, st)
  PROVE  \A e \in DOMAIN conns : /\ conns'[e].in = conns[e].in
                                 /\ conns'[e].st = "new" <=> conns[e].st = "new"
  <1>1. CASE d \in DOMAIN conns
    BY <1>1, ConnFields, ConnUpdate DEF ConnAt
  <1>2. CASE d \notin DOMAIN conns
    BY <1>2, ExceptOutside DEF ConnAt
  <1> QED
    BY <1>1, <1>2

LEMMA WriteMoves ==
  ASSUME conns \in Seq(Conn), NEW d, NEW p \in Packet, conns' = ConnWritten(d, p)
  PROVE  \A e \in DOMAIN conns : /\ conns'[e].in = conns[e].in
                                 /\ conns'[e].st = "new" <=> conns[e].st = "new"
  <1>1. CASE d \in DOMAIN conns
    <2>1. Append(conns[d].out, p) \in Seq(Packet)
      BY <1>1, ConnFields
    <2> QED
      BY <1>1, <2>1, ConnFields, ConnUpdate DEF ConnWritten
  <1>2. CASE d \notin DOMAIN conns
    BY <1>2, ExceptOutside DEF ConnWritten
  <1> QED
    BY <1>1, <1>2

\* A dial goroutine.
LEMMA DialStepDown ==
  ASSUME ClientAssumption, IInv, IInv', DownInv, DialerStepOK, NEW d0 \in DOMAIN dials,
         DialStep(d0), UNCHANGED <<byUser, byServer, sess, lp, ustate, rcv, delivered>>
  PROVE  DownInv'
  <1>1. /\ UNCHANGED <<conns, loop>>
        /\ recvChan' = recvChan \/ recvChan' = Append(recvChan, DialErrorMsg(d0))
    BY DEF DialStep, AcquireSem, DialFinishes, DialReports, ClientAssumption
  <1>2. d0 \in ConnIds
    BY DomainsEqual DEF IInv, DialerInv
  <1>3. PICK m \in ConnEvent : /\ m = DialErrorMsg(d0) /\ m.event = "DialError" /\ m.pkts = <<>>
    <2>1. DialErrorMsg(d0) \in ConnEvent
      BY <1>2, MessageTypes
    <2>2. DialErrorMsg(d0).event = "DialError" /\ DialErrorMsg(d0).pkts = <<>>
      BY DEF DialErrorMsg
    <2> QED
      BY <2>1, <2>2
  <1>4. CASE recvChan' = recvChan
    BY <1>1, <1>4, QuietLoop
  <1>5. CASE recvChan' = Append(recvChan, m)
    <2>1. EventsWellFormed'
      <3>1. Events' \subseteq Events \cup {m}
        <4>1. \A i \in DOMAIN recvChan' : recvChan'[i] = m \/ \E j \in DOMAIN recvChan : recvChan'[i] = recvChan[j]
          BY <1>5, EventsTyped
        <4> QED
          BY <1>1, <4>1 DEF Events
      <3>2. EventFormed(m)
        BY <1>3 DEF EventFormed
      <3>3. EventsWellFormed /\ Len(loop'.blocked) <= 1
        BY <1>1 DEF DownInv, EventsWellFormed
      <3> QED
        BY <1>3, <3>1, <3>2, <3>3, WellFormedStays DEF DialerStepOK
    <2>2. ASSUME NEW d \in DOMAIN dials PROVE EventsStay(d)
      <3>1. PICK r : r = recvChan'
        OBVIOUS
      <3>2. SameOf(recvChan, r, d, 0) /\ SameOf(loop.blocked, loop.blocked, d, 0)
        BY <1>3, <1>5, <3>1, EventsTyped, SameAppended, SameItself DEF About
      <3> QED
        BY <1>1, <3>1, <3>2 DEF EventsStay
    <2> QED
      BY <1>1, <2>1, <2>2, QuietDialer
  <1> QED
    BY <1>1, <1>3, <1>4, <1>5

\* A server sends.
LEMMA OnTrafficDown ==
  ASSUME IInv, IInv', DownInv, DialerStepOK, NEW d0 \in DOMAIN dials,
         OnTraffic(d0), UNCHANGED <<byUser, byServer, sess, lp, ustate, rcv, delivered>>
  PROVE  DownInv'
  <1> DEFINE p == [conn |-> d0, seq |-> conns[d0].in + 1]
             pkts == <<p>>
  <1>0. /\ conns \in Seq(Conn) /\ DOMAIN conns = DOMAIN dials /\ d0 \in ConnIds
        /\ conns[d0].in \in Nat /\ conns[d0].st = "open" /\ loop.blocked = <<>>
        /\ conns' = ConnRead(d0) /\ Post(DataMsg(d0, pkts), NoConn) /\ NoConn \in Nat
    BY DomainsEqual, ConnFields DEF IInv, DialerInv, DialerTypeOK, OnTraffic, LoopIdle, NoConn
  <1>1. /\ p \in DownPkt /\ p.conn = d0 /\ p.seq = conns[d0].in + 1
        /\ pkts[1] = p /\ Len(pkts) = 1 /\ pkts # <<>>
    BY <1>0 DEF DownPkt
  <1>2. DataMsg(d0, pkts) \in ConnEvent
    BY <1>0, <1>1, DataType
  <1> HIDE DEF p, pkts
  <1>3. PICK m \in ConnEvent : /\ m = DataMsg(d0, pkts)
                               /\ m.event = "Data" /\ m.conn = d0 /\ m.pkts = pkts
    BY <1>2 DEF DataMsg
  <1>4. /\ Posting(recvChan, loop.blocked, m, recvChan', loop'.blocked)
        /\ Len(loop'.blocked) <= 1
    BY <1>0, <1>3, PostIsPosting
  <1>5. EventsWellFormed'
    <2>1. Events' \subseteq Events \cup {m}
      BY <1>0, <1>3, EventsTyped, PostOK
    <2>2. EventFormed(m) /\ m.conn \in DOMAIN dials /\ conns[m.conn].st # "new"
      BY <1>0, <1>1, <1>3 DEF EventFormed
    <2> QED
      BY <1>4, <2>1, <2>2, WellFormedStays DEF DownInv, DialerStepOK
  <1>6. /\ conns'[d0].in = conns[d0].in + 1 /\ conns'[d0].st = "open"
        /\ \A d \in DOMAIN dials : d # d0 => conns'[d] = conns[d]
    <2>1. conns[d0].in + 1 \in Nat
      BY <1>0
    <2> QED
      BY <1>0, <2>1, ConnFields, ConnUpdate DEF ConnRead
  <1>7. ASSUME NEW d \in DOMAIN dials, d # d0 PROVE ConnDown(d)'
    <2>1. EventsStay(d)
      BY <1>3, <1>4, <1>7, PostedStay DEF About
    <2>2. ArrivalsStay(d)
      BY <1>6, <1>7, <2>1, StayArrivals
    <2>3. ConnDown(d) /\ NewUnread(d)'
      BY <1>6, <1>7 DEF DownInv, ConnDown, NewUnread
    <2> QED
      BY <1>6, <1>7, <2>2, <2>3, DialerConnStays DEF DialerStepOK
  <1>8. ConnDown(d0)'
    <2>1. PICK hi \in Nat : hi = conns[d0].in /\ conns'[d0].in = hi + 1
      BY <1>0, <1>6
    <2>2. PICK r, c : r = recvChan' /\ c = loop'.blocked
      OBVIOUS
    <2>3. Posting(recvChan, loop.blocked, m, r, c)
      BY <1>4, <2>2
    <2>4. m.event # "Open" /\ m.pkts # <<>> /\ m.pkts[1].seq = hi + 1
      BY <1>1, <1>3, <2>1
    <2>5. PacketCame(recvChan, loop.blocked, r, c, d0, hi)
      <3>1. hi \in Int /\ m.conn = d0 /\ recvChan \in Seq(ConnEvent)
        BY <1>3, EventsTyped
      <3> QED
        BY <2>3, <2>4, <3>1, DataPosting, EventsNumbered
    <2>6. /\ Awaiting(d0)' <=> Awaiting(d0)
          /\ OpensFirst(d0) => OpensFirst(d0)'
          /\ \A lo \in Nat : Feeds(d0, lo)' <=> lo <= hi + 2 /\ Coming(r, c, d0, lo, hi + 1)
      <3>1. /\ Awaiting(d0)' <=> OpensOf(r, d0) # {} \/ OpensOf(c, d0) # {}
            /\ OpensFirst(d0)' <=> OpenFirst(r, c, d0)
            /\ \A lo : Feeds(d0, lo)' <=> lo <= conns'[d0].in + 1 /\ Coming(r, c, d0, lo, conns'[d0].in)
        BY <2>2, EventsNext
      <3>2. (hi + 1) + 1 = hi + 2
        OBVIOUS
      <3> QED
        BY <2>1, <2>5, <3>1, <3>2 DEF Awaiting, OpensFirst, PacketCame
    <2>7. \A lo \in Nat : Feeds(d0, lo) => Feeds(d0, lo)'
      BY <2>1, <2>5, <2>6 DEF Feeds, PacketCame
    <2>8. ConnDown(d0)
      BY DEF DownInv
    <2>9. Owner(d0)' = Owner(d0) /\ dials'[d0].token = dials[d0].token /\ SessionOf(d0)' = SessionOf(d0)
      BY TokensSame DEF DialerStepOK, DialsKept
    <2>10. OpenedBound(d0)'
      BY <1>0, <2>6, <2>8, <2>9 DEF ConnDown, OpenedBound, Current, Bound
    <2>11. Fed(d0)'
      <3> SUFFICES ASSUME Live(d0)' PROVE \E lo \in Nat : Due(d0, lo)' /\ Feeds(d0, lo)'
        BY DEF Fed
      <3>1. Live(d0)
        BY <2>6, <2>9 DEF Live, Routed
      <3>2. PICK lo \in Nat : Due(d0, lo) /\ Feeds(d0, lo)
        BY <2>8, <3>1 DEF ConnDown, Fed
      <3> QED
        BY <2>7, <2>9, <3>2, DueSame
    <2>12. NewUnread(d0)'
      BY <1>6 DEF NewUnread
    <2> QED
      BY <2>6, <2>8, <2>10, <2>11, <2>12 DEF ConnDown
  <1>9. \A d \in DOMAIN dials : ConnDown(d)'
    BY <1>7, <1>8
  <1> QED
    BY <1>5, <1>9, DialerKeeps

\* A packet from d is only with its user when d was bound, hence open.
LEMMA NothingOfNew ==
  ASSUME IInv, DownInv, NEW d \in DOMAIN dials, conns[d].st = "new"
  PROVE  /\ ~Bound(d) /\ ~Delivering(rcv.io, d) /\ Due(d, 1)
         /\ Carries(recvChan, d) = {} /\ Carries(loop.blocked, d) = {}
  <1>1. ~Bound(d)
    <2>1. SessionOf(d) \in DOMAIN sess /\ d # NoConn
      BY Numbered, DomainsEqual DEF IInv, DialerInv
    <2> QED
      BY <2>1 DEF Bound, IInv, TableInv, BoundByOwnDial
  <1>2. ~Delivering(rcv.io, d)
    <2>1. rcv.io # <<>> => 1 \in DOMAIN rcv.io
      BY DEF IInv, ReceiverTypeOK
    <2> QED
      BY <1>1, <2>1 DEF Delivering, DownInv, HandedInv, DeliversOwn, OfUser
  <1>3. NextOf(delivered[Owner(d)], d) = 1
    <2>1. Owner(d) \in Users
      BY Numbered
    <2>2. PICK got \in Seq(DownPkt) : got = delivered[Owner(d)]
      BY <2>1 DEF IInv, ReceiverTypeOK
    <2>3. \A k \in DOMAIN got : got[k].conn # d
      BY <1>1, <2>1, <2>2 DEF DownInv, HandedInv, DeliveredOwn, OfUser
    <2>4. got # <<>> => Len(got) \in DOMAIN got
      OBVIOUS
    <2> QED
      BY <2>2, <2>3, <2>4 DEF NextOf
  <1>4. Due(d, 1)
    BY <1>2, <1>3 DEF Due
  <1>5. Carries(recvChan, d) = {} /\ Carries(loop.blocked, d) = {}
    <2>1. \A m \in Events : m.pkts # <<>> => m.conn # d
      BY DEF DownInv, EventsWellFormed, EventKnown
    <2> QED
      BY <2>1 DEF Events, Carries
  <1> QED
    BY <1>1, <1>2, <1>4, <1>5

\* OnOpen.
LEMMA OnOpenDown ==
  ASSUME IInv, IInv', DownInv, DialerStepOK, NEW d0 \in DOMAIN dials,
         OnOpenPosted(d0), UNCHANGED <<byUser, byServer, sess, lp, ustate, rcv, delivered>>
  PROVE  DownInv'
  <1>0. /\ conns \in Seq(Conn) /\ DOMAIN conns = DOMAIN dials /\ d0 \in ConnIds
        /\ conns[d0].in \in Nat /\ loop.blocked = <<>>
        /\ dials[d0].pc = "enrolling"
        /\ conns' = ConnAt(d0, "open") /\ Post(OpenMsg(d0), NoConn) /\ NoConn \in Nat
    BY DomainsEqual, ConnFields DEF IInv, DialerInv, DialerTypeOK, OnOpenPosted, LoopIdle, NoConn
  <1>1. conns[d0].st = "new"
    BY <1>0 DEF IInv, DialerInv, DialsAgree
  <1>2. PICK m \in ConnEvent : /\ m = OpenMsg(d0)
                               /\ m.event = "Open" /\ m.conn = d0 /\ m.pkts = <<>>
    <2>1. OpenMsg(d0) \in ConnEvent
      BY <1>0, MessageTypes
    <2>2. OpenMsg(d0).event = "Open" /\ OpenMsg(d0).conn = d0 /\ OpenMsg(d0).pkts = <<>>
      BY DEF OpenMsg
    <2> QED
      BY <2>1, <2>2
  <1>3. /\ Posting(recvChan, loop.blocked, m, recvChan', loop'.blocked)
        /\ Len(loop'.blocked) <= 1
    BY <1>0, <1>2, PostIsPosting
  <1>4. EventsWellFormed'
    <2>1. Events' \subseteq Events \cup {m}
      BY <1>0, <1>2, EventsTyped, PostOK
    <2>2. EventFormed(m) /\ m.pkts = <<>>
      BY <1>2 DEF EventFormed
    <2> QED
      BY <1>3, <2>1, <2>2, WellFormedStays DEF DownInv, DialerStepOK
  <1>5. /\ conns'[d0].in = conns[d0].in /\ conns'[d0].st = "open"
        /\ \A d \in DOMAIN dials : d # d0 => conns'[d] = conns[d]
    BY <1>0, ConnFields, ConnUpdate DEF ConnAt
  <1>6. ASSUME NEW d \in DOMAIN dials, d # d0 PROVE ConnDown(d)'
    <2>1. EventsStay(d)
      BY <1>2, <1>3, <1>6, PostedStay DEF About
    <2>2. ArrivalsStay(d)
      BY <1>5, <1>6, <2>1, StayArrivals
    <2>3. ConnDown(d) /\ NewUnread(d)'
      BY <1>5, <1>6 DEF DownInv, ConnDown, NewUnread
    <2> QED
      BY <1>5, <1>6, <2>2, <2>3, DialerConnStays DEF DialerStepOK
  <1>7. ConnDown(d0)'
    <2>1. PICK r, c : r = recvChan' /\ c = loop'.blocked
      OBVIOUS
    <2>2. Carries(recvChan, d0) = {} /\ Due(d0, 1)
      BY <1>1, NothingOfNew
    <2>3. Posting(recvChan, loop.blocked, m, r, c)
      BY <1>3, <2>1
    <2>4. /\ OpenFirst(r, c, d0)
          /\ OpensOf(r, d0) # {} \/ OpensOf(c, d0) # {}
          /\ Coming(r, c, d0, 1, 0)
      BY <1>2, <2>2, <2>3, EventsTyped, OpenPosting
    <2>5. conns'[d0].in = 0
      BY <1>1, <1>5 DEF DownInv, ConnDown, NewUnread
    <2>6. /\ Awaiting(d0)' <=> OpensOf(r, d0) # {} \/ OpensOf(c, d0) # {}
          /\ OpensFirst(d0)' <=> OpenFirst(r, c, d0)
          /\ \A lo : Feeds(d0, lo)' <=> lo <= conns'[d0].in + 1 /\ Coming(r, c, d0, lo, conns'[d0].in)
      BY <2>1, EventsNext
    <2>7. Feeds(d0, 1)' /\ 1 \in Nat
      <3>1. 1 <= 0 + 1
        OBVIOUS
      <3> QED
        BY <2>4, <2>5, <2>6, <3>1
    <2>8. Due(d0, 1)'
      <3>1. Owner(d0)' = Owner(d0)
        BY TokensSame DEF DialerStepOK
      <3> QED
        BY <2>2, <3>1, DueSame
    <2>9. NewUnread(d0)' /\ OpenedBound(d0)'
      BY <1>5, <2>4, <2>6 DEF NewUnread, OpenedBound
    <2> QED
      BY <2>4, <2>6, <2>7, <2>8, <2>9 DEF ConnDown, Fed
  <1>8. \A d \in DOMAIN dials : ConnDown(d)'
    BY <1>6, <1>7
  <1> QED
    BY <1>4, <1>8, DialerKeeps

\* The stopped loop goes on.
LEMMA UnblocksDown ==
  ASSUME IInv, IInv', DownInv, DialerStepOK, LoopUnblocks,
         UNCHANGED <<byUser, byServer, sess, lp, ustate, rcv, delivered>>
  PROVE  DownInv'
  <1>1. PICK b \in Seq(ConnEvent) : b = loop.blocked /\ b # <<>> /\ Len(b) <= 1
    <2>1. loop.blocked # <<>> /\ Len(loop.blocked) <= 1
      BY DEF LoopUnblocks, DownInv, EventsWellFormed
    <2>2. loop.blocked \in Seq(ConnEvent)
      BY EventsTyped
    <2> QED
      BY <2>1, <2>2
  <1>2. Len(b) = 1 /\ b[1] \in ConnEvent /\ 1 \in DOMAIN b /\ Head(b) = b[1]
    <2>1. Len(b) \in Nat \ {0}
      BY <1>1, EmptySeq
    <2>2. PICK n \in Nat \ {0} : n = Len(b)
      BY <2>1
    <2>3. n <= 1
      BY <1>1, <2>2
    <2>4. n = 1
      BY <2>3
    <2>5. Len(b) = 1
      BY <2>2, <2>4
    <2>6. DOMAIN b = {1}
      BY <2>5
    <2>7. b[1] \in ConnEvent /\ 1 \in DOMAIN b
      BY <2>6
    <2>8. Head(b) = b[1]
      BY <2>5
    <2> QED
      BY <2>5, <2>7, <2>8
  <1>3. PICK m \in ConnEvent : m = b[1] /\ b = <<m>> /\ m = Head(b)
    <2>1. b = <<b[1]>>
      BY <1>2
    <2> QED
      BY <1>2, <2>1
  <1>4. /\ recvChan' = Append(recvChan, m) /\ loop'.blocked = <<>>
        /\ UNCHANGED conns /\ recvChan \in Seq(ConnEvent)
    BY <1>1, <1>3, EventsTyped DEF LoopUnblocks
  <1>5. m \in Events
    BY <1>1, <1>2, <1>3 DEF Events
  <1>6. EventFormed(m) /\ EventKnown(m)
    BY <1>5 DEF DownInv, EventsWellFormed
  <1>7. EventsWellFormed'
    <2>1. Events' \subseteq Events \cup {m}
      <3>1. \A i \in DOMAIN recvChan' : recvChan'[i] = m \/ \E j \in DOMAIN recvChan : recvChan'[i] = recvChan[j]
        BY <1>4
      <3>2. DOMAIN loop'.blocked = {}
        BY <1>4
      <3> QED
        BY <3>1, <3>2 DEF Events
    <2>2. Len(loop'.blocked) <= 1
      BY <1>4
    <2> QED
      BY <1>6, <2>1, <2>2, WellFormedStays DEF DownInv, DialerStepOK, EventKnown
  <1>8. ASSUME NEW d \in DOMAIN dials PROVE ConnDown(d)'
    <2>1. PICK r, c : r = recvChan' /\ c = loop'.blocked
      OBVIOUS
    <2>2. r = Append(recvChan, m) /\ c = <<>> /\ (m.event = "Open" => m.pkts = <<>>)
      BY <1>4, <1>6, <2>1 DEF EventFormed
    <2>3. Unblocked(recvChan, b, r, c, d)
      BY <1>3, <1>4, <2>2, Unblocking
    <2>4. /\ Awaiting(d)' <=> OpensOf(r, d) # {} \/ OpensOf(c, d) # {}
          /\ OpensFirst(d)' <=> OpenFirst(r, c, d)
          /\ \A lo : Feeds(d, lo)' <=> lo <= conns'[d].in + 1 /\ Coming(r, c, d, lo, conns'[d].in)
      BY <2>1, EventsNext
    <2>5. ArrivalsStay(d)
      BY <1>1, <1>4, <2>3, <2>4 DEF ArrivalsStay, Awaiting, OpensFirst, Feeds, Unblocked
    <2>6. ConnDown(d) /\ NewUnread(d)'
      BY <1>4 DEF DownInv, ConnDown, NewUnread
    <2> QED
      BY <1>4, <2>5, <2>6, DialerConnStays DEF DialerStepOK
  <1> QED
    BY <1>7, <1>8, DialerKeeps

\* The loop's tasks, and the callback of a failed write.
LEMMA TasksDown ==
  ASSUME IInv, IInv', DownInv, DialerStepOK, RunWrite \/ RunClose \/ WriteErrorDone(<<>>),
         UNCHANGED <<byUser, byServer, sess, lp, ustate, rcv, delivered>>
  PROVE  DownInv'
  <1>0. /\ DOMAIN conns = DOMAIN dials /\ conns \in Seq(Conn) /\ tasks \in Seq(Task)
        /\ NoConn \in Nat /\ loop.blocked = <<>>
    BY DomainsEqual DEF IInv, DialerInv, DialerTypeOK, NoConn, RunWrite, RunClose, WriteErrorDone,
                        LoopIdle
  <1> DEFINE d0 == Head(tasks).conn
  <1>1. CASE RunWrite
    <2>1. Head(tasks) \in Task /\ Head(tasks).op = "write"
      BY <1>0, <1>1 DEF RunWrite
    <2>2. PICK p \in Packet : p = Head(tasks).payload
      BY <2>1, TaskFields
    <2>3. d0 \in ConnIds
      BY <2>1, TaskFields
    <2>4. CASE conns' = ConnWritten(d0, p) /\ UNCHANGED <<loop, recvChan>>
      BY <1>0, <2>4, WriteMoves, QuietLoop
    <2>5. CASE conns[d0].st = "open" /\ conns' = ConnAt(d0, "closed") /\ Post(CloseMsg(d0), d0)
      <3>1. d0 \in Nat
        BY <2>3 DEF ConnIds
      <3> QED
        BY <1>0, <2>3, <2>5, <3>1, StateMoves, QuietPost
    <2>6. CASE loop' = [blocked |-> <<>>, failed |-> d0] /\ UNCHANGED <<conns, recvChan>>
      <3>1. loop'.blocked = loop.blocked
        BY <1>0, <2>6
      <3> QED
        BY <1>0, <2>6, <3>1, QuietLoop
    <2> QED
      BY <1>1, <2>2, <2>4, <2>5, <2>6 DEF RunWrite
  <1>2. CASE RunClose
    <2>1. Head(tasks) \in Task
      BY <1>0, <1>2 DEF RunClose
    <2>2. d0 \in ConnIds
      BY <2>1, TaskFields
    <2>3. CASE conns[d0].st = "open" /\ conns' = ConnAt(d0, "closed") /\ Post(CloseMsg(d0), NoConn)
      BY <1>0, <2>2, <2>3, StateMoves, QuietPost
    <2>4. CASE UNCHANGED <<conns, loop, recvChan>>
      BY <1>0, <2>4, QuietLoop
    <2> QED
      BY <1>2, <2>3, <2>4 DEF RunClose
  <1>3. CASE WriteErrorDone(<<>>)
    <2>1. loop'.blocked = loop.blocked /\ UNCHANGED <<conns, recvChan>>
      BY <1>0, <1>3 DEF WriteErrorDone
    <2> QED
      BY <1>0, <2>1, QuietLoop
  <1> QED
    BY <1>1, <1>2, <1>3

\* The dialer.
LEMMA DialerDown ==
  ASSUME ClientAssumption, IInv, IInv', DownInv, DialerSteps
  PROVE  DownInv'
  <1>1. /\ DialerStepOK
        /\ UNCHANGED <<byUser, byServer, sess, lp, ustate, rcv, delivered>>
    <2>1. UNCHANGED <<tableVars, userVars, rcv, delivered>>
      BY DEF DialerSteps, DialerAlone, LoopAlone
    <2>2. DialerStepOK
      BY DialerStepsOK
    <2> QED
      BY <2>1, <2>2 DEF tableVars, userVars
  <1>2. ASSUME NEW d \in DOMAIN dials, PeerStep(d) PROVE DownInv'
    <2>1. CASE OnTraffic(d)
      BY <1>1, <2>1, OnTrafficDown
    <2>2. CASE PeerCloses(d)
      <3>1. /\ conns[d].st = "open" /\ conns' = ConnAt(d, "closed") /\ Post(CloseMsg(d), NoConn)
            /\ conns \in Seq(Conn) /\ DOMAIN conns = DOMAIN dials /\ d \in ConnIds
            /\ NoConn \in Nat /\ loop.blocked = <<>>
        BY <2>2, DomainsEqual DEF IInv, DialerInv, DialerTypeOK, NoConn, PeerCloses, LoopIdle
      <3> QED
        BY <1>1, <3>1, StateMoves, QuietPost
    <2> QED
      BY <1>2, <2>1, <2>2 DEF PeerStep
  <1>3. ASSUME NEW d \in DOMAIN dials, OnOpenPosted(d) \/ DialStep(d) PROVE DownInv'
    BY <1>1, <1>3, OnOpenDown, DialStepDown
  <1>4. ASSUME LoopStep \/ WriteErrorDone(<<>>) PROVE DownInv'
    BY <1>1, <1>4, UnblocksDown, TasksDown DEF LoopStep
  <1> QED
    BY <1>2, <1>3, <1>4 DEF DialerSteps, DialerAlone, LoopAlone

(***************************************************************************)
(* The steps of a user's loop                                              *)
(***************************************************************************)
LEMMA EventsSame ==
  ASSUME EventsWellFormed, UNCHANGED <<recvChan, loop>>, DialsKept
  PROVE  EventsWellFormed'
  <1>1. Events' = Events /\ Len(loop'.blocked) <= 1
    BY DEF Events, EventsWellFormed
  <1>2. \A m \in Events : m.pkts # <<>> => m.conn \in DOMAIN dials' /\ conns'[m.conn].st # "new"
    BY DEF EventsWellFormed, EventKnown, DialsKept
  <1> QED
    BY <1>1, <1>2 DEF EventsWellFormed, EventFormed, EventKnown

\* Neither the dialer nor what is handed to the users moves, and no route is
\* made.
LEMMA QuietConns ==
  ASSUME IInv, IInv', DownInv, DialsKept, UNCHANGED <<recvChan, loop, rcv, delivered>>,
         \A d \in DOMAIN dials :
           /\ conns'[d] = conns[d]
           /\ Current(dials[d].token)' => Current(dials[d].token)
           /\ Bound(d) => Bound(d)',
         \A u \in Users : ustate'[u] = "open" => ustate[u] = "open",
         DOMAIN byServer' \subseteq DOMAIN byServer
  PROVE  \A d \in DOMAIN dials : ConnDown(d)'
  <1> TAKE d \in DOMAIN dials
  <1>1. EventsStay(d)
    BY UntouchedStay
  <1>2. ArrivalsStay(d)
    BY <1>1, StayArrivals
  <1>3. ConnDown(d) /\ NewUnread(d)'
    BY DEF DownInv, ConnDown, NewUnread
  <1>4. Owner(d)' = Owner(d) /\ Owner(d) \in Users /\ dials'[d].token = dials[d].token
    BY TokensSame, Numbered DEF DialsKept
  <1>5. Routed(d)' => Routed(d)
    BY <1>4 DEF Routed
  <1>6. \A lo : Due(d, lo) => Due(d, lo)'
    BY <1>4, DueSame
  <1> QED
    BY <1>2, <1>3, <1>4, <1>5, <1>6, ConnStays

\* No session is made, no dial is owed that was not, and routes only go when
\* their user does.
LEMMA QuietUser ==
  ASSUME IInv, IInv', DownInv,
         UNCHANGED <<dials, conns, recvChan, loop, rcv, delivered>>,
         DOMAIN byUser' \subseteq DOMAIN byUser,
         \A u \in DOMAIN byUser' : byUser'[u] = byUser[u],
         \A u \in Users : Owes(u)' => Owes(u) /\ lp'[u].io = lp[u].io,
         \A d \in DOMAIN dials : Bound(d) => Bound(d)',
         \A u \in Users : /\ ustate'[u] = "open" => ustate[u] = "open"
                          /\ ustate'[u] # "closed" => ustate[u] # "closed",
         DOMAIN byServer' \subseteq DOMAIN byServer,
         \A d \in DOMAIN byServer : ustate'[Owner(d)] # "closed" => d \in DOMAIN byServer'
  PROVE  DownInv'
  <1>1. DialsKept /\ DOMAIN dials' = DOMAIN dials
    BY DEF DialsKept
  <1>2. DialsInOrder'
    BY <1>1, DialsStayInOrder DEF DownInv
  <1>3. EventsWellFormed'
    BY <1>1, EventsSame DEF DownInv
  <1>4. HandedInv'
    BY <1>1, TokensSame, HandedStays DEF DownInv
  <1>5. \A d \in DOMAIN dials : Current(dials[d].token)' => Current(dials[d].token)
    BY DEF Current
  <1>6. \A d \in DOMAIN dials : ConnDown(d)'
    BY <1>1, <1>5, QuietConns
  <1> QED
    BY <1>1, <1>2, <1>3, <1>4, <1>6 DEF DownInv

\* Reading and parsing.
LEMMA UserReadsDown ==
  ASSUME IInv, IInv', DownInv, NEW u \in Users, UserTraffic(u) \/ Lookup(u)
  PROVE  DownInv'
  <1>0. lp \in [Users -> UserLoopState]
    BY DEF IInv, LoopInv, UserTypeOK
  <1>1. UNCHANGED <<dialerVars, tableVars, ustate, rcv, delivered>>
    BY DEF UserTraffic, Lookup
  <1>2. UNCHANGED <<dials, conns, recvChan, loop, byUser, byServer, sess>>
    BY <1>1 DEF dialerVars, tableVars
  <1>3. /\ lp'[u].pc # "io"
        /\ \A v \in Users : v # u => lp'[v] = lp[v]
    <2>1. CASE lp' = [lp EXCEPT ![u].pc = "lookup"]
      BY <1>0, <2>1 DEF UserLoopState
    <2>2. CASE lp' = [lp EXCEPT ![u].pc = "idle"]
      BY <1>0, <2>2 DEF UserLoopState
    <2>3. CASE lp' = [lp EXCEPT ![u].pc = "reject"]
      BY <1>0, <2>3 DEF UserLoopState
    <2>4. ASSUME NEW b, lp' = [lp EXCEPT ![u] = [pc |-> "admit", cached |-> b, io |-> <<>>]]
          PROVE  /\ lp'[u].pc # "io"
                 /\ \A v \in Users : v # u => lp'[v] = lp[v]
      BY <1>0, <2>4 DEF UserLoopState
    <2> QED
      BY <2>1, <2>2, <2>3, <2>4
      DEF UserTraffic, Lookup, LookupCached, LookupRequest, LookupHandshake, LookupRejected,
          Take, MarshalFails
  <1>4. \A v \in Users : Owes(v)' => Owes(v) /\ lp'[v].io = lp[v].io
    BY <1>3 DEF Owes
  <1>5. \A d \in DOMAIN dials : Bound(d) => Bound(d)'
    BY <1>2 DEF Bound, SessionOf
  <1> QED
    BY <1>1, <1>2, <1>4, <1>5, QuietUser DEF Owner

\* Admitting to a session there is.
LEMMA AdmitMoreDown ==
  ASSUME IInv, IInv', DownInv, NEW u \in Users, AdmitQueued(u) \/ AdmitForward(u),
         UNCHANGED <<dialerVars, byServer, ustate, rcv, delivered>>
  PROVE  DownInv'
  <1>0. /\ lp \in [Users -> UserLoopState] /\ sess \in Seq(Session)
        /\ \A v \in DOMAIN byUser : byUser[v] \in DOMAIN sess
    BY DEF IInv, LoopInv, UserTypeOK, TableInv, TableTypeOK
  <1>1. UNCHANGED <<dials, conns, recvChan, loop, byUser>>
    BY DEF dialerVars, AdmitQueued, AdmitForward
  <1>2. /\ ~Owes(u)'
        /\ \A v \in Users : v # u => lp'[v] = lp[v]
    <2>1. CASE AdmitQueued(u)
      BY <1>0, <2>1 DEF AdmitQueued, UserLoopState, Owes, Again
    <2>2. CASE AdmitForward(u)
      <3> DEFINE call == SendCall(sess[byUser[u]].serverConn, Pkt(u), byUser[u])
                 io == <<call>>
      <3>1. Head(io).op = "send"
        BY DEF SendCall
      <3>2. lp' = [lp EXCEPT ![u].pc = "io", ![u].io = io]
        BY <2>2 DEF AdmitForward
      <3> HIDE DEF io
      <3> QED
        BY <1>0, <3>1, <3>2 DEF UserLoopState, Owes
    <2> QED
      BY <2>1, <2>2
  <1>3. \A v \in Users : Owes(v)' => Owes(v) /\ lp'[v].io = lp[v].io
    BY <1>2 DEF Owes
  <1>4. \A d \in DOMAIN dials : Bound(d) => Bound(d)'
    <2>1. CASE AdmitForward(u)
      BY <1>1, <2>1 DEF AdmitForward, Bound, SessionOf
    <2>2. CASE AdmitQueued(u)
      <3>1. byUser[u] \in DOMAIN sess /\ sess' = SessQueued(byUser[u], Pkt(u))
        BY <1>0, <2>2 DEF AdmitQueued
      <3>2. Pkt(u) \in Packet
        BY PktType DEF IInv, LoopInv
      <3>3. SessShape(byUser[u], sess[byUser[u]].serverConn, sess[byUser[u]].dialing)
        BY <1>0, <3>1, <3>2, SessQueuedShape
      <3>4. \A s \in DOMAIN sess : sess'[s].serverConn = sess[s].serverConn
        BY <3>3 DEF SessShape
      <3> QED
        BY <1>1, <3>4, Numbered DEF Bound, SessionOf
    <2> QED
      BY <2>1, <2>2
  <1> QED
    BY <1>1, <1>3, <1>4, QuietUser DEF Owner

\* The new session is later than every dialed one.
LEMMA AdmitDialDown ==
  ASSUME IInv, IInv', DownInv, NEW u \in Users, AdmitDial(u),
         UNCHANGED <<dialerVars, byServer, ustate, rcv, delivered>>
  PROVE  DownInv'
  <1> DEFINE n == Len(sess) + 1
             call == DialCall(u, n)
             io == <<call>>
             r == NewSession(lp[u].cached, Pkt(u))
  <1>0. /\ lp \in [Users -> UserLoopState] /\ sess \in Seq(Session)
        /\ DOMAIN byUser \subseteq Users
        /\ \A v \in DOMAIN byUser : byUser[v] \in DOMAIN sess
        /\ \A d \in DOMAIN dials : SessionOf(d) \in DOMAIN sess
        /\ u \notin DOMAIN byUser
    BY Numbered DEF IInv, LoopInv, UserTypeOK, TableInv, TableTypeOK, AdmitDial
  <1>1. UNCHANGED <<dials, conns, recvChan, loop>>
    BY DEF dialerVars
  <1>2. /\ sess' = Append(sess, r)
        /\ byUser' = Put(byUser, u, n)
        /\ lp' = [lp EXCEPT ![u].pc = "io", ![u].io = io]
    BY DEF AdmitDial
  <1>3. Head(io).token.user = u /\ Head(io).token.session = n /\ Head(io).op = "dial"
    BY DEF DialCall
  <1> HIDE DEF r, io, call
  <1>4. /\ n \notin DOMAIN sess /\ n \in Nat
        /\ \A s \in DOMAIN sess : sess'[s] = sess[s] /\ s < n
    BY <1>0, <1>2
  <1> HIDE DEF n
  <1>5. /\ DOMAIN byUser' = DOMAIN byUser \cup {u}
        /\ byUser'[u] = n
        /\ \A v \in DOMAIN byUser : byUser'[v] = byUser[v] /\ v # u
    BY <1>0, <1>2 DEF Put
  <1>6. /\ lp'[u].pc = "io" /\ lp'[u].io = io
        /\ \A v \in Users : v # u => lp'[v] = lp[v]
    BY <1>0, <1>2 DEF UserLoopState
  <1>7. DialsKept
    BY <1>1 DEF DialsKept
  <1>8. \A d \in DOMAIN dials : Owner(d)' = Owner(d) /\ SessionOf(d)' = SessionOf(d)
    BY <1>7, TokensSame
  <1>9. \A d \in DOMAIN dials : Bound(d) => Bound(d)'
    BY <1>0, <1>4, <1>8 DEF Bound
  <1>10. \A d \in DOMAIN dials : Current(dials[d].token)' => Current(dials[d].token)
    BY <1>0, <1>1, <1>4, <1>5 DEF Current, SessionOf
  <1>11. DialsInOrder'
    <2>1. \A d, e \in DOMAIN dials' : Owner(d)' = Owner(e)' /\ d < e => SessionOf(d)' < SessionOf(e)'
      BY <1>1, <1>8 DEF DownInv, DialsInOrder
    <2>2. \A d \in DOMAIN dials' : Owner(d)' \in DOMAIN byUser' => SessionOf(d)' <= byUser'[Owner(d)']
      <3>1. \A d \in DOMAIN dials : SessionOf(d) <= n
        BY <1>0, <1>4
      <3> QED
        BY <1>1, <1>5, <1>8, <3>1 DEF DownInv, DialsInOrder
    <2>3. ASSUME NEW v \in Users, Owes(v)'
          PROVE  /\ Head(lp'[v].io).token.user = v
                 /\ \A d \in DOMAIN dials' : Owner(d)' = v => SessionOf(d)' < OwedFor(v)'
                 /\ v \in DOMAIN byUser' => OwedFor(v)' <= byUser'[v]
      <3>1. CASE v = u
        <4>1. OwedFor(v)' = n /\ Head(lp'[v].io).token.user = v
          BY <1>3, <1>6, <3>1 DEF OwedFor
        <4> QED
          BY <1>0, <1>1, <1>4, <1>5, <1>8, <3>1, <4>1
      <3>2. CASE v # u
        <4>1. Owes(v) /\ lp'[v] = lp[v] /\ OwedFor(v)' = OwedFor(v)
          BY <1>6, <2>3, <3>2 DEF Owes, OwedFor
        <4> QED
          BY <1>1, <1>5, <1>8, <3>2, <4>1 DEF DownInv, DialsInOrder
      <3> QED
        BY <3>1, <3>2
    <2> QED
      BY <2>1, <2>2, <2>3 DEF DialsInOrder
  <1>12. EventsWellFormed'
    BY <1>1, <1>7, EventsSame DEF DownInv
  <1>13. HandedInv'
    BY <1>1, <1>8, <1>9, HandedStays DEF DownInv
  <1>14. \A d \in DOMAIN dials : ConnDown(d)'
    BY <1>1, <1>7, <1>9, <1>10, QuietConns
  <1> QED
    BY <1>1, <1>11, <1>12, <1>13, <1>14 DEF DownInv

\* The user's connection closes: the route that goes is its own.
LEMMA UserClosesDown ==
  ASSUME IInv, IInv', OrderInv, DownInv, NEW u \in Users, UserCloses(u)
  PROVE  DownInv'
  <1> DEFINE io == Orphan(u)
             pc == IF io = <<>> THEN "idle" ELSE "io"
  <1>0. /\ lp \in [Users -> UserLoopState] /\ DOMAIN byUser \subseteq Users
        /\ ustate \in [Users -> {"open", "closing", "closed"}]
        /\ RoutesOwn /\ RouteConsistent
    BY DEF IInv, LoopInv, UserTypeOK, TableInv, TableTypeOK, OrderInv, OwnInv
  <1>1. /\ PurgeByUser(u)
        /\ lp' = [lp EXCEPT ![u].io = io, ![u].pc = pc]
        /\ ustate' = [ustate EXCEPT ![u] = "closed"]
        /\ UNCHANGED <<dialerVars, sess, rcv, delivered>>
    BY DEF UserCloses
  <1>2. UNCHANGED <<dials, conns, recvChan, loop>>
    BY <1>1 DEF dialerVars
  <1>3. io # <<>> => Head(io).op = "close"
    BY DEF Orphan, CloseTask
  <1> HIDE DEF io
  <1>4. pc = "io" => io # <<>>
    OBVIOUS
  <1> HIDE DEF pc
  <1>5. /\ lp'[u].pc = pc /\ lp'[u].io = io
        /\ \A v \in Users : v # u => lp'[v] = lp[v]
    BY <1>0, <1>1 DEF UserLoopState
  <1>6. \A v \in Users : Owes(v)' => Owes(v) /\ lp'[v].io = lp[v].io
    BY <1>3, <1>4, <1>5 DEF Owes
  <1>7. /\ DOMAIN byUser' \subseteq DOMAIN byUser
        /\ \A v \in DOMAIN byUser' : byUser'[v] = byUser[v]
        /\ DOMAIN byServer' \subseteq DOMAIN byServer
    BY <1>1 DEF PurgeByUser, Delete
  <1>8. ustate'[u] = "closed" /\ \A v \in Users : v # u => ustate'[v] = ustate[v]
    BY <1>0, <1>1
  <1>9. ASSUME NEW d \in DOMAIN byServer, ustate'[Owner(d)] # "closed"
        PROVE  d \in DOMAIN byServer'
    <2>1. byServer[d] = Owner(d) /\ Owner(d) # u
      BY <1>0, <1>8, <1>9 DEF RoutesOwn
    <2>2. CASE u \in DOMAIN byUser
      <3>1. d # sess[byUser[u]].serverConn
        <4>1. NoConn \notin DOMAIN byServer
          BY RoutesReal DEF IInv
        <4>2. ASSUME d = sess[byUser[u]].serverConn PROVE FALSE
          BY <1>0, <2>1, <2>2, <4>1, <4>2 DEF RouteConsistent
        <4> QED
          BY <4>2
      <3> QED
        BY <1>1, <2>2, <3>1 DEF PurgeByUser, Delete
    <2>3. CASE u \notin DOMAIN byUser
      BY <1>1, <2>3 DEF PurgeByUser
    <2> QED
      BY <2>2, <2>3
  <1>10. \A d \in DOMAIN dials : Bound(d) => Bound(d)'
    BY <1>1, <1>2 DEF Bound, SessionOf
  <1> QED
    BY <1>1, <1>2, <1>6, <1>7, <1>8, <1>9, <1>10, QuietUser

\* The loop's call leaves it without one.
LEMMA CallMade ==
  ASSUME IInv, NEW u \in Users, UserCall(u)
  PROVE  /\ ~Owes(u)'
         /\ \A v \in Users : v # u => lp'[v] = lp[v]
         /\ \A v \in Users : Owes(v)' => v # u /\ Owes(v) /\ lp'[v].io = lp[v].io
  <1>0. lp \in [Users -> UserLoopState]
    BY DEF IInv, LoopInv, UserTypeOK
  <1> DEFINE pc == IF ustate[u] = "closed" THEN "idle" ELSE Again(u)
  <1>1. pc # "io"
    BY DEF Again
  <1>2. lp' = [lp EXCEPT ![u].io = <<>>, ![u].pc = pc]
    BY DEF UserCall
  <1> HIDE DEF pc
  <1>3. lp'[u].pc # "io" /\ \A v \in Users : v # u => lp'[v] = lp[v]
    BY <1>0, <1>1, <1>2 DEF UserLoopState
  <1> QED
    BY <1>3 DEF Owes

\* A dial is started, for a session later than those dialed for its user; of
\* its connection nothing is there.
LEMMA DialStartedDown ==
  ASSUME IInv, IInv', OrderInv, DownInv, NEW u \in Users, Owes(u), UserCall(u),
         AsyncDial(Head(lp[u].io).token)
  PROVE  DownInv'
  <1>0. /\ DialerInv /\ DOMAIN conns = DOMAIN dials /\ DOMAIN dials \subseteq Nat
        /\ dials \in Seq(Dial) /\ DOMAIN byServer \subseteq DOMAIN dials
    BY DomainsEqual DEF IInv, DialerInv, DialerTypeOK, TableInv, TableTypeOK, ConnIds
  <1>1. PICK token \in Token : token = Head(lp[u].io).token
    <2>1. Head(lp[u].io) \in LoopCall
      BY Numbered DEF Owes
    <2> QED
      BY <2>1, LoopCallFields DEF Owes
  <1>2. UNCHANGED <<tableVars, ustate, rcv, delivered, loop, recvChan>>
    BY DEF UserCall, AsyncDial
  <1>3. UNCHANGED <<byUser, byServer, sess>>
    BY <1>2 DEF tableVars
  <1>4. PICK d0 \in Nat :
          /\ DialsKept /\ DOMAIN dials' = DOMAIN dials \cup {d0} /\ d0 \notin DOMAIN dials
          /\ \A d \in DOMAIN dials : d < d0
          /\ conns'[d0] = NewConn /\ dials'[d0].token = token
          /\ \A e \in DOMAIN dials : dials'[e] = dials[e] /\ conns'[e] = conns[e]
    <2> DEFINE r == [token |-> token, pc |-> "spawned"]
    <2>1. dials' = Append(dials, r) /\ conns' = Append(conns, NewConn) /\ r.token = token
      BY <1>1 DEF AsyncDial
    <2> HIDE DEF r
    <2>2. Len(dials) \in Nat /\ Len(conns) = Len(dials) /\ conns \in Seq(Conn)
      BY <1>0 DEF DialerInv, DialerTypeOK
    <2>3. PICK k \in Nat : k = Len(dials) + 1 /\ \A d \in DOMAIN dials : d < k
      BY <1>0, <2>2
    <2>4. /\ DOMAIN dials' = DOMAIN dials \cup {k} /\ k \notin DOMAIN dials
          /\ dials'[k] = r /\ \A e \in DOMAIN dials : dials'[e] = dials[e]
      BY <1>0, <2>1, <2>2, <2>3
    <2>5. conns'[k] = NewConn /\ \A e \in DOMAIN conns : conns'[e] = conns[e]
      BY <2>1, <2>2, <2>3
    <2>6. DialsKept
      BY <1>0, <2>4, <2>5 DEF DialsKept
    <2> QED
      BY <1>0, <2>1, <2>3, <2>4, <2>5, <2>6
  <1>5. \A d \in DOMAIN dials : Owner(d)' = Owner(d) /\ SessionOf(d)' = SessionOf(d)
    BY <1>4, TokensSame
  <1>6. \A d \in DOMAIN dials : Bound(d) => Bound(d)'
    BY <1>3, <1>5 DEF Bound
  <1>7. Owner(d0)' = u /\ SessionOf(d0)' = OwedFor(u)
    BY <1>1, <1>4 DEF Owner, SessionOf, OwedFor, DownInv, DialsInOrder
  <1>8. DialsInOrder'
    <2>1. ASSUME NEW d \in DOMAIN dials', NEW e \in DOMAIN dials', Owner(d)' = Owner(e)', d < e
          PROVE  SessionOf(d)' < SessionOf(e)'
      <3>1. d \in DOMAIN dials
        <4>1. d # d0
          BY <1>0, <1>4, <2>1
        <4> QED
          BY <1>4, <4>1
      <3>2. CASE e = d0
        BY <1>5, <1>7, <2>1, <3>1, <3>2 DEF DownInv, DialsInOrder
      <3>3. CASE e # d0
        BY <1>4, <1>5, <2>1, <3>1, <3>3 DEF DownInv, DialsInOrder
      <3> QED
        BY <3>2, <3>3
    <2>2. \A d \in DOMAIN dials' : Owner(d)' \in DOMAIN byUser' => SessionOf(d)' <= byUser'[Owner(d)']
      BY <1>3, <1>4, <1>5, <1>7 DEF DownInv, DialsInOrder
    <2>3. ASSUME NEW v \in Users, Owes(v)'
          PROVE  /\ Head(lp'[v].io).token.user = v
                 /\ \A d \in DOMAIN dials' : Owner(d)' = v => SessionOf(d)' < OwedFor(v)'
                 /\ v \in DOMAIN byUser' => OwedFor(v)' <= byUser'[v]
      <3>1. v # u /\ Owes(v) /\ lp'[v].io = lp[v].io /\ OwedFor(v)' = OwedFor(v)
        BY <2>3, CallMade DEF OwedFor
      <3> QED
        BY <1>3, <1>4, <1>5, <1>7, <3>1 DEF DownInv, DialsInOrder
    <2> QED
      BY <2>1, <2>2, <2>3 DEF DialsInOrder
  <1>9. EventsWellFormed'
    BY <1>2, <1>4, EventsSame DEF DownInv
  <1>10. HandedInv'
    <2>1. \A d \in DOMAIN dials' \ DOMAIN dials : Owner(d)' \in Users
      BY <1>4, <1>7
    <2> QED
      BY <1>2, <1>3, <1>4, <1>5, <1>6, <2>1, HandedStays DEF DownInv
  <1>11. \A d \in DOMAIN dials : ConnDown(d)'
    <2>1. \A d \in DOMAIN dials : Current(dials[d].token)' => Current(dials[d].token)
      BY <1>3, <1>4 DEF Current
    <2> QED
      BY <1>2, <1>3, <1>4, <1>6, <2>1, QuietConns
  <1>12. ConnDown(d0)'
    <2>1. \A m \in Events : m.event = "Open" \/ m.pkts # <<>> => m.conn \in DOMAIN dials
      BY <1>0 DEF DialerInv, EventsTrue, EventTrue, DownInv, EventsWellFormed, EventKnown
    <2>2. /\ Carries(recvChan, d0) = {} /\ OpensOf(recvChan, d0) = {}
          /\ Carries(loop.blocked, d0) = {} /\ OpensOf(loop.blocked, d0) = {}
      BY <1>4, <2>1 DEF Events, Carries, OpensOf
    <2>3. OpensFirst(d0)' /\ ~Awaiting(d0)'
      BY <1>2, <2>2 DEF OpensFirst, OpenFirst, Awaiting, Carries, OpensOf
    <2>4. NewUnread(d0)' /\ OpenedBound(d0)'
      BY <1>4 DEF NewConn, NewUnread, OpenedBound
    <2>5. Fed(d0)'
      BY <1>0, <1>3, <1>4, <2>3 DEF Fed, Live, Routed
    <2> QED
      BY <2>3, <2>4, <2>5 DEF ConnDown
  <1> QED
    BY <1>4, <1>8, <1>9, <1>10, <1>11, <1>12 DEF DownInv

\* The call of a user's loop.
LEMMA UserCallDown ==
  ASSUME IInv, IInv', OrderInv, DownInv, NEW u \in Users, UserCall(u)
  PROVE  DownInv'
  <1> DEFINE call == Head(lp[u].io)
  <1>1. CASE call.op = "dial" /\ AsyncDial(call.token)
    BY <1>1, DialStartedDown DEF UserCall, Owes
  <1>2. CASE UNCHANGED <<dials, conns, dialSem, loop, recvChan, dialResultChan>>
    <2>1. UNCHANGED <<byUser, byServer, sess, ustate, rcv, delivered>>
      BY DEF UserCall, tableVars
    <2>2. \A v \in Users : Owes(v)' => Owes(v) /\ lp'[v].io = lp[v].io
      BY CallMade
    <2>3. \A d \in DOMAIN dials : Bound(d) => Bound(d)'
      BY <1>2, <2>1 DEF Bound, SessionOf
    <2> QED
      BY <1>2, <2>1, <2>2, <2>3, QuietUser DEF Owner
  <1> QED
    BY <1>1, <1>2 DEF UserCall

\* The event loop of a user.
LEMMA UserDown ==
  ASSUME IInv, IInv', OrderInv, DownInv, NEW u \in Users,
         UserTraffic(u) \/ UserLoop(u) \/ UserCloses(u)
  PROVE  DownInv'
  <1>1. ASSUME Admit(u) PROVE DownInv'
    <2>1. UNCHANGED <<dialerVars, byServer, ustate, rcv, delivered>>
      BY <1>1 DEF Admit
    <2> QED
      BY <1>1, <2>1, AdmitMoreDown, AdmitDialDown DEF Admit
  <1> QED
    BY <1>1, UserReadsDown, UserCallDown, UserClosesDown DEF UserLoop

(***************************************************************************)
(* The receiving goroutine takes an event                                  *)
(***************************************************************************)

\* The first event is taken; nothing was left to do for the one before.
EventTakenStep ==
  /\ rcv.io = <<>> /\ recvChan # <<>> /\ recvChan' = Tail(recvChan)
  /\ UNCHANGED <<dials, conns, loop, lp, ustate, delivered>>

LEMMA TakenArrivals ==
  ASSUME IInv, IInv', EventTakenStep, NEW d
  PROVE  /\ OpensFirst(d) => OpensFirst(d)'
         /\ 1 \notin Carries(recvChan, d) => \A lo : Feeds(d, lo) => Feeds(d, lo)'
  <1>1. recvChan \in Seq(ConnEvent) /\ recvChan # <<>>
    BY EventsTyped DEF EventTakenStep
  <1>2. PICK r \in Seq(ConnEvent) : r = Tail(recvChan) /\ r = recvChan'
    BY <1>1 DEF EventTakenStep
  <1>3. PICK b : b = loop.blocked /\ b = loop'.blocked
    BY DEF EventTakenStep
  <1>4. TakenKept(recvChan, r, b, d)
    BY <1>1, <1>2, TakenKeeps
  <1>5. /\ OpensFirst(d)' <=> OpenFirst(r, b, d)
        /\ \A lo : Feeds(d, lo)' <=> lo <= conns'[d].in + 1 /\ Coming(r, b, d, lo, conns'[d].in)
    BY <1>2, <1>3, EventsNext
  <1>6. conns'[d].in = conns[d].in
    BY DEF EventTakenStep
  <1> QED
    BY <1>3, <1>4, <1>5, <1>6 DEF TakenKept, OpensFirst, Feeds

\* Connections the event does not count for.
LEMMA OthersTaken ==
  ASSUME IInv, IInv', DownInv, EventTakenStep, NEW d \in DOMAIN dials, ~About(Head(recvChan), d),
         ~Delivering(rcv'.io, d), Current(dials[d].token)' => Current(dials[d].token),
         Bound(d) => Bound(d)', d \in DOMAIN byServer' => d \in DOMAIN byServer
  PROVE  ConnDown(d)'
  <1>1. /\ recvChan \in Seq(ConnEvent) /\ recvChan # <<>> /\ Head(recvChan) = recvChan[1]
        /\ loop.blocked \in Seq(ConnEvent)
    BY EventsTyped DEF EventTakenStep
  <1>2. PICK r : r = Tail(recvChan) /\ r = recvChan'
    BY DEF EventTakenStep
  <1>3. EventsStay(d)
    <2>1. SameOf(recvChan, r, d, 1)
      BY <1>1, <1>2, SameTaken
    <2>2. SameOf(loop.blocked, loop.blocked, d, 0)
      BY <1>1, SameItself
    <2> QED
      BY <1>2, <2>1, <2>2 DEF EventsStay, EventTakenStep
  <1>4. ArrivalsStay(d)
    BY <1>3, StayArrivals DEF EventTakenStep
  <1>5. ConnDown(d) /\ NewUnread(d)'
    BY DEF DownInv, ConnDown, NewUnread, EventTakenStep
  <1>6. Owner(d)' = Owner(d) /\ conns'[d] = conns[d]
    BY DEF Owner, EventTakenStep
  <1>7. Routed(d)' => Routed(d)
    BY <1>6 DEF Routed, EventTakenStep
  <1>8. \A lo : Due(d, lo) => Due(d, lo)'
    <2>1. ~Delivering(rcv.io, d)
      BY DEF EventTakenStep, Delivering
    <2>2. NextOf(delivered[Owner(d)], d)' = NextOf(delivered[Owner(d)], d)
      BY <1>6 DEF NextOf, EventTakenStep
    <2> QED
      BY <2>1, <2>2 DEF Due
  <1> QED
    BY <1>4, <1>5, <1>6, <1>7, <1>8, ConnStays

\* The connection whose Open is taken.
LEMMA OpenTaken ==
  ASSUME IInv, IInv', DownInv, EventTakenStep, NEW d \in DOMAIN dials,
         Head(recvChan).event = "Open", Head(recvChan).conn = d,
         ~Delivering(rcv'.io, d), Current(dials[d].token)' => Bound(d)'
  PROVE  ConnDown(d)'
  <1>1. /\ recvChan \in Seq(ConnEvent) /\ recvChan # <<>> /\ Head(recvChan) = recvChan[1]
        /\ 1 \in DOMAIN recvChan
    BY EventsTyped DEF EventTakenStep
  <1>2. recvChan[1].pkts = <<>>
    BY <1>1 DEF Events, DownInv, EventsWellFormed, EventFormed
  <1>3. 1 \notin Carries(recvChan, d) /\ Awaiting(d)
    BY <1>1, <1>2 DEF Carries, Awaiting, OpensOf
  <1>4. /\ OpensFirst(d) => OpensFirst(d)'
        /\ \A lo : Feeds(d, lo) => Feeds(d, lo)'
    BY <1>3, TakenArrivals
  <1>5. ConnDown(d) /\ NewUnread(d)'
    BY DEF DownInv, ConnDown, NewUnread, EventTakenStep
  <1>6. Owner(d)' = Owner(d) /\ dials' = dials
    BY DEF Owner, EventTakenStep
  <1>7. \A lo : Due(d, lo) => Due(d, lo)'
    <2>1. ~Delivering(rcv.io, d)
      BY DEF EventTakenStep, Delivering
    <2>2. NextOf(delivered[Owner(d)], d)' = NextOf(delivered[Owner(d)], d)
      BY <1>6 DEF NextOf, EventTakenStep
    <2> QED
      BY <2>1, <2>2 DEF Due
  <1>8. OpenedBound(d)'
    BY <1>6 DEF OpenedBound, Current
  <1>9. Fed(d)'
    <2>1. PICK lo \in Nat : Due(d, lo) /\ Feeds(d, lo)
      BY <1>3, <1>5 DEF ConnDown, Fed, Live
    <2> QED
      BY <1>4, <1>7, <2>1 DEF Fed
  <1> QED
    BY <1>4, <1>5, <1>8, <1>9 DEF ConnDown

\* A step that hands nothing over.
LEMMA NothingHanded ==
  ASSUME IInv, HandedInv, UNCHANGED <<dials, delivered>>,
         \A i \in DOMAIN rcv'.io : rcv'.io[i].op # "deliver", rcv'.io \in Seq(RcvCall),
         \A d \in DOMAIN dials : Bound(d) => Bound(d)'
  PROVE  HandedInv' /\ \A d : ~Delivering(rcv'.io, d)
  <1>1. DeliveredOwn'
    BY DEF HandedInv, DeliveredOwn, OfUser, Owner
  <1>2. DeliversOwn'
    BY DEF DeliversOwn
  <1>3. \A d : ~Delivering(rcv'.io, d)
    <2>1. rcv'.io # <<>> => 1 \in DOMAIN rcv'.io
      OBVIOUS
    <2> QED
      BY <2>1 DEF Delivering
  <1>4. DeliversNext'
    BY <1>3 DEF DeliversNext, Delivering
  <1>5. DeliveredRuns'
    BY DEF HandedInv, DeliveredRuns, Runs
  <1> QED
    BY <1>1, <1>2, <1>3, <1>4, <1>5 DEF HandedInv

LEMMA TakenDown ==
  ASSUME IInv, IInv', DownInv, EventTakenStep,
         DOMAIN byUser' \subseteq DOMAIN byUser,
         \A u \in DOMAIN byUser' : byUser'[u] = byUser[u],
         HandedInv', \A d \in DOMAIN dials : ConnDown(d)'
  PROVE  DownInv'
  <1>1. DialsKept /\ DOMAIN dials' = DOMAIN dials
    BY DEF DialsKept, EventTakenStep
  <1>2. DialsInOrder'
    BY <1>1, DialsStayInOrder DEF DownInv, EventTakenStep, Owes
  <1>3. EventsWellFormed'
    <2>1. recvChan \in Seq(ConnEvent) /\ recvChan # <<>>
      BY EventsTyped DEF EventTakenStep
    <2>2. \A i \in DOMAIN recvChan' : i + 1 \in DOMAIN recvChan /\ recvChan'[i] = recvChan[i + 1]
      BY <2>1 DEF EventTakenStep
    <2>3. Events' \subseteq Events
      BY <2>2 DEF Events, EventTakenStep
    <2>4. Len(loop'.blocked) <= 1
      BY DEF DownInv, EventsWellFormed, EventTakenStep
    <2>5. EventsWellFormed
      BY DEF DownInv
    <2> QED
      BY <1>1, <2>3, <2>4, <2>5 DEF EventsWellFormed, EventFormed, EventKnown, EventTakenStep
  <1> QED
    BY <1>1, <1>2, <1>3 DEF DownInv

\* A connection with a route is bound to its session, its user's.
LEMMA RoutedBound ==
  ASSUME IInv, OrderInv, NEW d \in DOMAIN byServer
  PROVE  /\ d \in DOMAIN dials /\ Bound(d) /\ byServer[d] = Owner(d)
         /\ Owner(d) \in DOMAIN byUser /\ byUser[Owner(d)] = SessionOf(d)
  <1>1. /\ d \in DOMAIN dials /\ d # NoConn
        /\ byServer[d] \in DOMAIN byUser /\ sess[byUser[byServer[d]]].serverConn = d
        /\ byUser[byServer[d]] \in DOMAIN sess
    BY DomainsEqual DEF IInv, DialerInv, TableInv, TableTypeOK, RouteConsistent
  <1>2. byServer[d] = Owner(d)
    BY DEF OrderInv, OwnInv, RoutesOwn
  <1>3. SessionOf(d) = byUser[byServer[d]]
    BY <1>1 DEF IInv, TableInv, BoundByOwnDial, SessionOf
  <1> QED
    BY <1>1, <1>2, <1>3 DEF Bound

\* When its packet is taken, no Open of d waits.
LEMMA NotAwaiting ==
  ASSUME IInv, NEW d, OpensFirst(d), 1 \in Carries(recvChan, d)
  PROVE  ~Awaiting(d)
  <1>1. \A i \in OpensOf(recvChan, d) : 1 <= i /\ i \in Int
    BY EventsTyped, PlacesTyped
  <1>2. OpensOf(recvChan, d) = {}
    <2>1. \A i \in OpensOf(recvChan, d) : i < 1
      BY DEF OpensFirst, OpenFirst
    <2>2. \A i \in Int : ~(1 <= i /\ i < 1)
      OBVIOUS
    <2> QED
      BY <1>1, <2>1, <2>2
  <1>3. OpensOf(loop.blocked, d) = {}
    BY DEF OpensFirst, OpenFirst
  <1> QED
    BY <1>2, <1>3 DEF Awaiting

\* A packet from d is taken: it is the next one, and those behind it remain.
LEMMA PacketTaken ==
  ASSUME IInv, IInv', EventTakenStep, NEW d \in DOMAIN dials, 1 \in Carries(recvChan, d),
         NEW lo \in Nat, Feeds(d, lo)
  PROVE  /\ recvChan[1].pkts[1].seq = lo
         /\ Feeds(d, lo + 1)'
  <1>1. /\ recvChan \in Seq(ConnEvent) /\ recvChan # <<>> /\ loop.blocked \in Seq(ConnEvent)
        /\ conns[d].in \in Nat
    BY EventsTyped, DomainsEqual, ConnFields DEF EventTakenStep, IInv, DialerInv, DialerTypeOK
  <1>2. PICK r : r = Tail(recvChan) /\ r = recvChan'
    BY DEF EventTakenStep
  <1>3. PICK b \in Seq(ConnEvent) : b = loop.blocked /\ b = loop'.blocked
    BY <1>1 DEF EventTakenStep
  <1>4. PICK hi \in Nat : hi = conns[d].in /\ conns'[d].in = hi
    BY <1>1 DEF EventTakenStep
  <1>5. Coming(recvChan, b, d, lo, hi)
    BY <1>3, <1>4 DEF Feeds
  <1>6. /\ Number(recvChan, 1) = lo /\ lo <= hi
        /\ Coming(r, b, d, lo + 1, hi)
    <2>1. lo \in Int /\ hi \in Int
      OBVIOUS
    <2> QED
      BY <1>1, <1>2, <1>5, <2>1, ComingNext, EventsNumbered
  <1>7. \A l : Feeds(d, l)' <=> l <= hi + 1 /\ Coming(r, b, d, l, hi)
    <2>1. \A l : Feeds(d, l)' <=> l <= conns'[d].in + 1 /\ Coming(r, b, d, l, conns'[d].in)
      BY <1>2, <1>3, EventsNext
    <2> QED
      BY <1>4, <2>1
  <1>8. lo + 1 <= hi + 1
    BY <1>6
  <1> QED
    BY <1>6, <1>7, <1>8 DEF Number

\* A Data event.
LEMMA DataDown ==
  ASSUME IInv, IInv', OrderInv, DownInv, EventTakenStep, HandleServerMsg(Head(recvChan))
  PROVE  DownInv'
  <1>0. /\ recvChan \in Seq(ConnEvent) /\ recvChan # <<>> /\ 1 \in DOMAIN recvChan
        /\ rcv \in [io : Seq(RcvCall), sendMu : Nat] /\ rcv'.io \in Seq(RcvCall)
        /\ rcv.io = <<>> /\ UNCHANGED <<dials, conns, delivered, ustate>>
    BY EventsTyped DEF EventTakenStep, IInv, ReceiverTypeOK
  <1>1. PICK msg \in ConnEvent : msg = Head(recvChan) /\ msg = recvChan[1] /\ msg \in Events
    BY <1>0 DEF Events
  <1>2. PICK d0 \in ConnIds : d0 = msg.conn
    BY DEF ConnEvent
  <1>3. UNCHANGED <<byUser, byServer, sess>> /\ msg.event = "Data"
    BY <1>1 DEF HandleServerMsg, tableVars
  <1>4. /\ \A d \in DOMAIN dials : Bound(d) <=> Bound(d)'
        /\ \A d \in DOMAIN dials : Current(dials[d].token)' <=> Current(dials[d].token)
        /\ \A d \in DOMAIN dials : Owner(d)' = Owner(d)
    BY <1>0, <1>3 DEF Bound, SessionOf, Owner, Current
  <1>5. EventFormed(msg) /\ EventKnown(msg)
    BY <1>1 DEF DownInv, EventsWellFormed
  <1>6. \A d : Delivering(rcv'.io, d) => About(msg, d)
    <2> SUFFICES ASSUME NEW d, Delivering(rcv'.io, d) PROVE About(msg, d)
      OBVIOUS
    <2>1. 1 \in DOMAIN rcv'.io /\ rcv'.io[1].pkt.conn = d
      BY <1>0 DEF Delivering
    <2> DEFINE q == [i \in DOMAIN msg.pkts |-> UserWrite(byServer[msg.conn], msg.pkts[i])]
    <2>2. rcv'.io = <<>> \/ rcv'.io = q
      BY <1>0, <1>1 DEF HandleServerMsg
    <2>3. 1 \in DOMAIN msg.pkts /\ msg.pkts[1].conn = d
      BY <2>1, <2>2 DEF UserWrite
    <2>4. msg.pkts # <<>>
      BY <2>3
    <2> QED
      BY <1>5, <2>3, <2>4 DEF About, EventFormed
  <1>7. ASSUME NEW d \in DOMAIN dials, ~About(msg, d) PROVE ConnDown(d)'
    BY <1>1, <1>3, <1>4, <1>6, <1>7, OthersTaken
  <1>8. CASE msg.pkts = <<>>
    <2>1. \A d : ~About(msg, d)
      BY <1>3, <1>8 DEF About
    <2>2. \A i \in DOMAIN rcv'.io : FALSE
      <3> DEFINE q == [i \in DOMAIN msg.pkts |-> UserWrite(byServer[msg.conn], msg.pkts[i])]
      <3>1. DOMAIN q = {}
        BY <1>8
      <3>2. rcv'.io = <<>> \/ rcv'.io = q
        BY <1>0, <1>1 DEF HandleServerMsg
      <3> QED
        BY <3>1, <3>2
    <2>3. HandedInv'
      BY <1>0, <1>4, <2>2, NothingHanded DEF DownInv
    <2> QED
      BY <1>3, <1>7, <2>1, <2>3, TakenDown
  <1>9. CASE msg.pkts # <<>>
    <2>1. /\ Len(msg.pkts) = 1 /\ msg.pkts[1].conn = d0
          /\ d0 \in DOMAIN dials /\ conns[d0].st # "new"
      BY <1>2, <1>5, <1>9 DEF EventFormed, EventKnown
    <2>2. \A d : About(msg, d) <=> d = d0
      BY <1>2, <1>9 DEF About
    <2>3. 1 \in Carries(recvChan, d0)
      BY <1>0, <1>1, <1>2, <1>9 DEF Carries
    <2>4. ConnDown(d0)
      BY <2>1 DEF DownInv
    <2>5. ~Awaiting(d0)
      BY <2>3, <2>4, NotAwaiting DEF ConnDown
    <2>6. OpensFirst(d0)' /\ ~Awaiting(d0)'
      <3>1. OpensFirst(d0)'
        BY <2>1, <2>4, TakenArrivals DEF ConnDown
      <3>2. EventGone(recvChan, Tail(recvChan), d0)
        BY <1>0, EventTaken
      <3>3. OpensOf(recvChan', d0) = {}
        BY <2>5, <3>2 DEF EventGone, EventTakenStep, Awaiting
      <3>4. ~Awaiting(d0)'
        BY <2>5, <3>3 DEF Awaiting, EventTakenStep, OpensOf
      <3> QED
        BY <3>1, <3>4
    <2>7. NewUnread(d0)' /\ OpenedBound(d0)'
      <3>1. OpenedBound(d0)'
        BY <1>0, <1>4, <2>1, <2>4, <2>5 DEF ConnDown, OpenedBound
      <3> QED
        BY <1>0, <2>4, <3>1 DEF ConnDown, NewUnread
    <2>8. CASE d0 \notin DOMAIN byServer
      <3>1. rcv'.io = <<>>
        BY <1>0, <1>1, <1>2, <2>8 DEF HandleServerMsg, GetByServer
      <3>2. HandedInv'
        BY <1>0, <1>4, <3>1, NothingHanded DEF DownInv
      <3>3. Fed(d0)'
        BY <1>3, <2>6, <2>8 DEF Fed, Live, Routed
      <3>4. ConnDown(d0)'
        BY <2>6, <2>7, <3>3 DEF ConnDown
      <3> QED
        BY <1>3, <1>7, <2>2, <3>2, <3>4, TakenDown
    <2>9. CASE d0 \in DOMAIN byServer
      <3>1. /\ Bound(d0) /\ byServer[d0] = Owner(d0) /\ Owner(d0) \in Users
        BY <2>1, <2>9, RoutedBound, Numbered
      <3>2. PICK u \in Users, p \in DownPkt : u = Owner(d0) /\ p = msg.pkts[1]
        <4>1. msg.pkts \in Seq(DownPkt)
          BY DEF ConnEvent
        <4>2. msg.pkts[1] \in DownPkt
          BY <2>1, <4>1
        <4> QED
          BY <3>1, <4>2
      <3>3. PICK c : c = UserWrite(u, p) /\ c.op = "deliver" /\ c.user = u /\ c.pkt = p
        <4>1. /\ UserWrite(u, p).op = "deliver" /\ UserWrite(u, p).user = u
              /\ UserWrite(u, p).pkt = p
          BY DEF UserWrite
        <4> QED
          BY <4>1
      <3>4. rcv'.io = <<c>>
        <4> DEFINE q == [i \in DOMAIN msg.pkts |-> UserWrite(byServer[msg.conn], msg.pkts[i])]
        <4>1. rcv'.io = q
          BY <1>0, <1>1, <1>2, <2>9 DEF HandleServerMsg, GetByServer
        <4>2. DOMAIN msg.pkts = {1}
          <5>1. msg.pkts \in Seq(DownPkt)
            BY DEF ConnEvent
          <5> QED
            BY <2>1, <5>1
        <4>3. DOMAIN q = {1} /\ q[1] = c
          BY <1>2, <3>1, <3>2, <3>3, <4>2
        <4>4. rcv'.io \in Seq(RcvCall) /\ DOMAIN rcv'.io = {1} /\ rcv'.io[1] = c
          BY <1>0, <4>1, <4>3
        <4>5. Len(rcv'.io) = 1
          <5>1. PICK s \in Seq(RcvCall) : s = rcv'.io
            BY <4>4
          <5>2. PICK n \in Nat : n = Len(s) /\ DOMAIN s = 1..n
            BY LenProperties
          <5>3. 1..n = {1}
            BY <4>4, <5>1, <5>2
          <5>4. n = 1
            <6>1. 1 \in 1..n
              BY <5>3
            <6>2. n \in 1..n
              BY <6>1
            <6> QED
              BY <5>3, <6>2
          <5> QED
            BY <5>1, <5>2, <5>4
        <4> QED
          BY <4>4, <4>5
      <3>5. /\ Len(rcv'.io) = 1 /\ DOMAIN rcv'.io = {1} /\ rcv'.io[1] = c /\ rcv'.io # <<>>
        BY <3>4
      <3>6. p.conn = d0
        BY <2>1, <3>2
      <3>7. \A d : Delivering(rcv'.io, d) <=> d = d0
        BY <3>3, <3>5, <3>6 DEF Delivering
      <3>8. ASSUME ustate[u] = "open"
            PROVE  \E lo \in Nat : /\ p.seq = lo /\ lo = NextOf(delivered[u], d0)
                                   /\ Feeds(d0, lo + 1)'
        <4>1. Live(d0)
          BY <2>9, <3>2, <3>8 DEF Live, Routed
        <4>2. PICK lo \in Nat : Due(d0, lo) /\ Feeds(d0, lo)
          BY <2>4, <4>1 DEF ConnDown, Fed
        <4>3. recvChan[1].pkts[1].seq = lo /\ Feeds(d0, lo + 1)'
          BY <2>1, <2>3, <4>2, PacketTaken
        <4>4. lo = NextOf(delivered[u], d0)
          <5>1. ~Delivering(rcv.io, d0)
            BY <1>0 DEF Delivering
          <5>2. NextOf(delivered[u], d0) \in Int
            <6>1. delivered[u] \in Seq(DownPkt)
              BY DEF IInv, ReceiverTypeOK
            <6>2. delivered[u] # <<>> => delivered[u][Len(delivered[u])].seq \in Nat
              <7>1. delivered[u] # <<>> => delivered[u][Len(delivered[u])] \in DownPkt
                BY <6>1
              <7> QED
                BY <7>1 DEF DownPkt
            <6> QED
              BY <6>2 DEF NextOf
          <5>3. lo = NextOf(delivered[u], d0) + 0
            BY <3>2, <4>2, <5>1 DEF Due
          <5> QED
            BY <5>2, <5>3
        <4> QED
          BY <1>1, <3>2, <4>3, <4>4
      <3>9. HandedInv'
        <4>1. DeliveredOwn' /\ DeliveredRuns'
          BY <1>0, <1>4 DEF DownInv, HandedInv, DeliveredOwn, DeliveredRuns, Runs, OfUser
        <4>2. DeliversOwn'
          BY <1>0, <1>3, <1>4, <2>1, <2>9, <3>1, <3>2, <3>3, <3>5, <3>6 DEF DeliversOwn, OfUser
        <4>3. DeliversNext'
          <5>1. ASSUME NEW d \in DOMAIN dials, Delivering(rcv'.io, d), ustate[Owner(d)] = "open"
                PROVE  rcv'.io[1].pkt.seq = NextOf(delivered[Owner(d)], d)
            BY <3>2, <3>3, <3>5, <3>7, <3>8, <5>1
          <5> QED
            BY <1>0, <1>4, <5>1 DEF DeliversNext, Delivering, NextOf
        <4> QED
          BY <4>1, <4>2, <4>3 DEF HandedInv
      <3>10. Fed(d0)'
        <4> SUFFICES ASSUME Live(d0)' PROVE \E lo \in Nat : Due(d0, lo)' /\ Feeds(d0, lo)'
          BY DEF Fed
        <4>1. ustate[u] = "open"
          BY <1>0, <1>4, <2>1, <2>6, <3>2 DEF Live, Routed
        <4>2. PICK lo \in Nat : lo = NextOf(delivered[u], d0) /\ Feeds(d0, lo + 1)'
          BY <3>8, <4>1
        <4>3. Due(d0, lo + 1)'
          <5>1. lo + 1 = NextOf(delivered[u], d0) + 1
            BY <4>2
          <5>2. Delivering(rcv'.io, d0)
            BY <3>7
          <5>3. delivered' = delivered /\ Owner(d0)' = u
            BY <1>0, <1>4, <2>1, <3>2
          <5> QED
            BY <5>1, <5>2, <5>3 DEF Due, NextOf, Delivering
        <4>4. lo + 1 \in Nat
          OBVIOUS
        <4> QED
          BY <4>2, <4>3, <4>4
      <3>11. ConnDown(d0)'
        BY <2>6, <2>7, <3>10 DEF ConnDown
      <3> QED
        BY <1>3, <1>7, <2>2, <3>9, <3>11, TakenDown
    <2> QED
      BY <2>8, <2>9
  <1> QED
    BY <1>8, <1>9

\* An event that counts for no connection.
LEMMA OtherTakenDown ==
  ASSUME IInv, IInv', DownInv, EventTakenStep,
         \A d : ~About(Head(recvChan), d), UNCHANGED sess,
         DOMAIN byUser' \subseteq DOMAIN byUser,
         \A u \in DOMAIN byUser' : byUser'[u] = byUser[u],
         DOMAIN byServer' \subseteq DOMAIN byServer,
         \A i \in DOMAIN rcv'.io : rcv'.io[i].op # "deliver"
  PROVE  DownInv'
  <1>1. /\ \A d \in DOMAIN dials : Bound(d) => Bound(d)'
        /\ \A d \in DOMAIN dials : Current(dials[d].token)' => Current(dials[d].token)
    BY DEF Bound, SessionOf, Current, EventTakenStep
  <1>2. HandedInv' /\ \A d : ~Delivering(rcv'.io, d)
    BY <1>1, NothingHanded DEF DownInv, EventTakenStep, IInv, ReceiverTypeOK
  <1>3. \A d \in DOMAIN dials : ConnDown(d)'
    BY <1>1, <1>2, OthersTaken
  <1> QED
    BY <1>2, <1>3, TakenDown

\* An Open, whose connection becomes that of its dial's session, or is
\* refused.
LEMMA OpenDown ==
  ASSUME IInv, IInv', DownInv, EventTakenStep, HandleDialOpen(Head(recvChan))
  PROVE  DownInv'
  <1>0. /\ recvChan \in Seq(ConnEvent) /\ recvChan # <<>> /\ sess \in Seq(Session)
        /\ TableInv /\ EventsTrue /\ rcv'.io \in Seq(RcvCall)
        /\ UNCHANGED <<dials, conns, delivered>>
    BY EventsTyped DEF EventTakenStep, IInv, DialerInv, TableInv, TableTypeOK, ReceiverTypeOK
  <1>1. PICK msg \in ConnEvent : msg = Head(recvChan) /\ msg \in Events
    BY <1>0 DEF Events
  <1>2. PICK d0 \in ConnIds : d0 = msg.conn
    BY DEF ConnEvent
  <1>3. msg.event = "Open" /\ msg.pkts = <<>>
    BY <1>1 DEF HandleDialOpen, DownInv, EventsWellFormed, EventFormed
  <1>4. d0 \in DOMAIN dials
    BY <1>0, <1>1, <1>2, <1>3 DEF EventsTrue, EventTrue
  <1>5. \A d : About(msg, d) <=> d = d0
    BY <1>2, <1>3 DEF About
  <1>6. UNCHANGED byUser
    BY DEF HandleDialOpen, CompleteDial, tableVars
  <1>7. \A d \in DOMAIN dials : Current(dials[d].token)' <=> Current(dials[d].token)
    BY <1>0, <1>6 DEF Current
  <1>8. \A i \in DOMAIN rcv'.io : rcv'.io[i].op # "deliver"
    <2>1. CASE Current(dials[d0].token)
      <3>1. PICK pending : rcv'.io = Replay(d0, pending)
        BY <1>1, <1>2, <2>1 DEF HandleDialOpen
      <3> QED
        BY <3>1 DEF Replay, WriteTask
    <2>2. CASE ~Current(dials[d0].token)
      <3> DEFINE t == CloseTask(d0)
      <3>1. rcv'.io = <<t>>
        BY <1>1, <1>2, <2>2 DEF HandleDialOpen, RejectOpen
      <3>2. t.op # "deliver"
        BY DEF CloseTask
      <3> HIDE DEF t
      <3> QED
        BY <3>1, <3>2
    <2> QED
      BY <2>1, <2>2
  <1>9. \A d \in DOMAIN dials :
          /\ d # d0 => (Bound(d) => Bound(d)')
          /\ d # d0 => (d \in DOMAIN byServer' => d \in DOMAIN byServer)
          /\ Bound(d0) => Bound(d0)'
          /\ Current(dials[d0].token) => Bound(d0)'
    <2>1. CASE Current(dials[d0].token)
      <3>1. CompleteDial(d0, dials[d0].token)
        BY <1>1, <1>2, <2>1 DEF HandleDialOpen
      <3>2. PICK s \in DOMAIN sess : s = SessionOf(d0)
        BY <1>4, Numbered
      <3>3. sess'[s].serverConn = d0 /\ \A t \in DOMAIN sess : t # s => sess'[t] = sess[t]
        <4>1. d0 \in Nat /\ sess' = SessReady(s, d0)
          BY <3>1, <3>2 DEF ConnIds, CompleteDial, SessionOf
        <4> QED
          BY <1>0, <4>1, SessReadyShape DEF SessShape
      <3>4. \A d \in DOMAIN dials : d # d0 => SessionOf(d) # s /\ SessionOf(d) \in DOMAIN sess
        BY <1>0, <1>4, <3>2 DEF TableInv, DialsDistinct, SessionOf
      <3>5. \A d \in DOMAIN dials : d # d0 => (Bound(d) => Bound(d)')
        BY <1>0, <3>3, <3>4 DEF Bound, SessionOf
      <3>6. Bound(d0)'
        BY <1>0, <3>2, <3>3 DEF Bound, SessionOf
      <3>7. DOMAIN byServer' = DOMAIN byServer \cup {d0}
        BY <3>1 DEF CompleteDial, Put
      <3> QED
        BY <3>5, <3>6, <3>7
    <2>2. CASE ~Current(dials[d0].token)
      <3>1. UNCHANGED <<byServer, sess>>
        BY <1>1, <1>2, <2>2 DEF HandleDialOpen, tableVars
      <3> QED
        BY <1>0, <2>2, <3>1, <1>4 DEF Bound, SessionOf
    <2> QED
      BY <2>1, <2>2
  <1>10. HandedInv' /\ \A d : ~Delivering(rcv'.io, d)
    <2>1. \A d \in DOMAIN dials : Bound(d) => Bound(d)'
      BY <1>9
    <2> QED
      BY <1>0, <1>8, <2>1, NothingHanded DEF DownInv
  <1>11. ASSUME NEW d \in DOMAIN dials PROVE ConnDown(d)'
    <2>1. CASE d = d0
      BY <1>1, <1>2, <1>3, <1>7, <1>9, <1>10, <2>1, OpenTaken
    <2>2. CASE d # d0
      BY <1>1, <1>5, <1>7, <1>9, <1>10, <2>2, OthersTaken
    <2> QED
      BY <2>1, <2>2
  <1> QED
    BY <1>6, <1>10, <1>11, TakenDown

LEMMA ReceiveDown ==
  ASSUME IInv, IInv', OrderInv, DownInv, Receive
  PROVE  DownInv'
  <1>0. EventTakenStep /\ rcv \in [io : Seq(RcvCall), sendMu : Nat]
    BY DEF Receive, RcvIdle, userVars, EventTakenStep, IInv, ReceiverTypeOK
  <1>1. PICK msg \in ConnEvent : msg = Head(recvChan) /\ msg \in Events
    <2>1. recvChan \in Seq(ConnEvent) /\ recvChan # <<>>
      BY <1>0, EventsTyped DEF EventTakenStep
    <2> QED
      BY <2>1 DEF Events
  <1>2. EventFormed(msg)
    BY <1>1 DEF DownInv, EventsWellFormed
  <1>3. CASE HandleServerMsg(msg)
    BY <1>0, <1>1, <1>3, DataDown
  <1>4. CASE HandleDialOpen(msg)
    BY <1>0, <1>1, <1>4, OpenDown
  <1>5. CASE HandleDialClose(msg)
    <2>1. \A d : ~About(msg, d)
      BY <1>2, <1>5 DEF About, EventFormed, HandleDialClose
    <2> DEFINE io == TellUser(PurgedUser(msg.conn))
    <2>2. PurgeByServer(msg.conn) /\ UNCHANGED sess /\ rcv' = [rcv EXCEPT !.io = io]
      BY <1>5 DEF HandleDialClose
    <2>3. \A i \in DOMAIN io : io[i].op # "deliver"
      BY DEF TellUser
    <2> HIDE DEF io
    <2>4. rcv'.io = io
      BY <1>0, <2>2
    <2>5. /\ DOMAIN byUser' \subseteq DOMAIN byUser
          /\ \A u \in DOMAIN byUser' : byUser'[u] = byUser[u]
          /\ DOMAIN byServer' \subseteq DOMAIN byServer
      BY <2>2 DEF PurgeByServer, Delete
    <2> QED
      BY <1>0, <1>1, <2>1, <2>2, <2>3, <2>4, <2>5, OtherTakenDown
  <1>6. CASE HandleDialError(msg)
    <2>1. \A d : ~About(msg, d)
      BY <1>2, <1>6 DEF About, EventFormed, HandleDialError
    <2>2. UNCHANGED <<byServer, sess, rcv>>
      BY <1>6 DEF HandleDialError
    <2>3. /\ DOMAIN byUser' \subseteq DOMAIN byUser
          /\ \A u \in DOMAIN byUser' : byUser'[u] = byUser[u]
      BY <1>6 DEF HandleDialError, AbortDial, Delete
    <2>4. \A i \in DOMAIN rcv'.io : rcv'.io[i].op # "deliver"
      BY <1>0, <2>2 DEF EventTakenStep
    <2> QED
      BY <1>0, <1>1, <2>1, <2>2, <2>3, <2>4, OtherTakenDown
  <1> QED
    BY <1>1, <1>3, <1>4, <1>5, <1>6 DEF Receive

(***************************************************************************)
(* The receiving goroutine makes a call                                    *)
(***************************************************************************)

\* Packets of no connection newer than d, the last not of d: none is of d.
LEMMA NoneOfNewest ==
  ASSUME NEW got \in Seq(DownPkt), Runs(got), NEW d \in Int,
         \A k \in DOMAIN got : got[k].conn <= d,
         got # <<>> => got[Len(got)].conn # d
  PROVE  \A k \in DOMAIN got : got[k].conn # d
  <1> SUFFICES ASSUME NEW k \in DOMAIN got
               PROVE  got[k].conn # d
    OBVIOUS
  <1>1. PICK n : n = Len(got)
    OBVIOUS
  <1>2. n \in Nat /\ DOMAIN got = 1..n /\ k \in 1..n /\ n \in 1..n /\ got # <<>>
    BY <1>1
  <1>3. PICK p : p = got[n]
    OBVIOUS
  <1>4. p.conn # d /\ p.conn <= d /\ p \in DownPkt /\ got[k] \in DownPkt
    BY <1>1, <1>2, <1>3
  <1>5. p.conn \in Int /\ got[k].conn \in Int
    BY <1>4 DEF DownPkt, ConnIds
  <1>6. IF k > n - p.seq THEN got[k] = [conn |-> p.conn, seq |-> k - (n - p.seq)]
                         ELSE got[k].conn < p.conn
    BY <1>2, <1>3 DEF Runs
  <1>7. got[k].conn = p.conn \/ got[k].conn < p.conn
    BY <1>6
  <1> QED
    BY <1>4, <1>5, <1>7

\* The packet a user gets is the next of its connection.
LEMMA RunsGrow ==
  ASSUME NEW got \in Seq(DownPkt), Runs(got), NEW p \in DownPkt, p.seq = NextOf(got, p.conn),
         \A k \in DOMAIN got : got[k].conn <= p.conn
  PROVE  Runs(Append(got, p))
  <1>1. PICK n, got2 : n = Len(got) /\ got2 = Append(got, p)
    OBVIOUS
  <1>2. /\ n \in Nat /\ DOMAIN got = 1..n /\ DOMAIN got2 = 1..(n + 1) /\ got2[n + 1] = p
        /\ \A k \in 1..n : got2[k] = got[k] /\ got[k] \in DownPkt
    BY <1>1
  <1>3. p.conn \in Int /\ p.seq \in Nat /\ p = [conn |-> p.conn, seq |-> p.seq]
        /\ \A k \in 1..n : got[k].conn \in Int /\ got[k].seq \in Nat
    BY <1>2 DEF DownPkt, ConnIds
  <1>4. ASSUME NEW i \in 1..n
        PROVE  /\ got2[i].seq \in 1..i
               /\ \A j \in 1..i :
                    IF j > i - got2[i].seq
                      THEN got2[j] = [conn |-> got2[i].conn, seq |-> j - (i - got2[i].seq)]
                      ELSE got2[j].conn < got2[i].conn
    <2>1. \A j \in 1..i : j \in 1..n
      BY <1>2
    <2>2. /\ got[i].seq \in 1..i
          /\ \A j \in 1..i :
               IF j > i - got[i].seq
                 THEN got[j] = [conn |-> got[i].conn, seq |-> j - (i - got[i].seq)]
                 ELSE got[j].conn < got[i].conn
      BY <1>2 DEF Runs
    <2> QED
      BY <1>2, <2>1, <2>2
  <1>5. /\ p.seq \in 1..(n + 1)
        /\ \A j \in 1..(n + 1) :
             IF j > n + 1 - p.seq
               THEN got2[j] = [conn |-> p.conn, seq |-> j - (n + 1 - p.seq)]
               ELSE got2[j].conn < p.conn
    <2>1. CASE got # <<>> /\ got[n].conn = p.conn
      <3>1. n \in 1..n
        BY <1>1, <1>2, <2>1, EmptySeq
      <3>2. PICK q : q = got[n].seq
        OBVIOUS
      <3>3. p.seq = q + 1 /\ q \in Nat
        BY <1>1, <1>3, <2>1, <3>1, <3>2 DEF NextOf
      <3>4. /\ q \in 1..n
            /\ \A j \in 1..n : IF j > n - q THEN got[j] = [conn |-> p.conn, seq |-> j - (n - q)]
                                            ELSE got[j].conn < p.conn
        BY <1>2, <2>1, <3>1, <3>2 DEF Runs
      <3>5. n + 1 - p.seq = n - q /\ p.seq \in 1..(n + 1) /\ n + 1 > n - q
            /\ n + 1 - (n - q) = p.seq
        BY <1>2, <3>3, <3>4
      <3>6. \A j \in 1..(n + 1) : j \in 1..n \/ j = n + 1
        BY <1>2
      <3>7. got2[n + 1] = [conn |-> p.conn, seq |-> n + 1 - (n - q)]
        BY <1>2, <1>3, <3>5
      <3> QED
        BY <1>2, <3>4, <3>5, <3>6, <3>7
    <2>2. CASE ~(got # <<>> /\ got[n].conn = p.conn)
      <3>1. p.seq = 1
        BY <1>1, <2>2 DEF NextOf
      <3>2. \A k \in DOMAIN got : got[k].conn # p.conn
        BY <1>1, <1>3, <2>2, NoneOfNewest
      <3>3. ASSUME NEW k \in 1..n
            PROVE  got[k].conn < p.conn
        <4>1. got[k].conn \in Int /\ got[k].conn <= p.conn /\ got[k].conn # p.conn
          BY <1>2, <1>3, <3>2
        <4> QED
          BY <1>3, <4>1
      <3>4. /\ 1 \in 1..(n + 1) /\ n + 1 - 1 = n /\ n + 1 > n /\ n + 1 - n = 1
            /\ \A j \in 1..(n + 1) : (j \in 1..n /\ ~(j > n)) \/ j = n + 1
        BY <1>2
      <3>5. got2[n + 1] = [conn |-> p.conn, seq |-> n + 1 - n]
        BY <1>2, <1>3, <3>1, <3>4
      <3> QED
        BY <1>2, <3>1, <3>3, <3>4, <3>5
    <2> QED
      BY <2>1, <2>2
  <1>6. \A i \in 1..(n + 1) : i \in 1..n \/ i = n + 1
    BY <1>2
  <1>7. Runs(got2)
    BY <1>2, <1>4, <1>5, <1>6, SMTT(30) DEF Runs
  <1> QED
    BY <1>1, <1>7

\* An Open that waits is of a connection that is bound to no session.
LEMMA AwaitingUnbound ==
  ASSUME IInv, OrderInv, NEW d, Awaiting(d)
  PROVE  ~Bound(d)
  <1>1. PICK m \in Events : m.event = "Open" /\ m.conn = d
    BY DEF Awaiting, OpensOf, Events
  <1> QED
    BY <1>1 DEF OrderInv, OpensUnbound

CallStep ==
  /\ rcv.io # <<>> /\ rcv'.io = Tail(rcv.io) /\ rcv'.io \in Seq(RcvCall)
  /\ UNCHANGED <<dials, conns, loop, recvChan, byUser, byServer, sess, lp>>

LEMMA CallDown ==
  ASSUME IInv, IInv', DownInv, CallStep, HandedInv',
         \A d \in DOMAIN dials : Routed(d)' => Routed(d),
         \A d \in DOMAIN dials : Live(d) => \A lo : Due(d, lo) => Due(d, lo)'
  PROVE  DownInv'
  <1>1. DialsKept /\ DOMAIN dials' = DOMAIN dials
    BY DEF DialsKept, CallStep
  <1>2. DialsInOrder'
    BY <1>1, DialsStayInOrder DEF DownInv, CallStep, Owes
  <1>3. EventsWellFormed'
    BY <1>1, EventsSame DEF DownInv, CallStep
  <1>4. ASSUME NEW d \in DOMAIN dials PROVE ConnDown(d)'
    <2>1. EventsStay(d)
      BY UntouchedStay DEF CallStep
    <2>2. ArrivalsStay(d)
      BY <2>1, StayArrivals DEF CallStep
    <2>3. ConnDown(d) /\ NewUnread(d)'
      BY DEF DownInv, ConnDown, NewUnread, CallStep
    <2>4. OpensFirst(d)'
      BY <2>2, <2>3 DEF ConnDown, ArrivalsStay
    <2>5. OpenedBound(d)'
      <3>1. (Bound(d)' <=> Bound(d)) /\ (Current(dials[d].token)' <=> Current(dials[d].token))
        BY DEF Bound, SessionOf, Current, CallStep
      <3>2. dials' = dials /\ conns' = conns
        BY DEF CallStep
      <3> QED
        BY <2>2, <2>3, <3>1, <3>2 DEF ConnDown, ArrivalsStay, OpenedBound
    <2>6. Fed(d)'
      <3> SUFFICES ASSUME Live(d)' PROVE \E lo \in Nat : Due(d, lo)' /\ Feeds(d, lo)'
        BY DEF Fed
      <3>1. Live(d)
        BY <2>2 DEF Live, ArrivalsStay
      <3>2. PICK lo \in Nat : Due(d, lo) /\ Feeds(d, lo)
        BY <2>3, <3>1 DEF ConnDown, Fed
      <3>3. Due(d, lo)' /\ Feeds(d, lo)'
        BY <2>2, <3>1, <3>2 DEF ArrivalsStay
      <3> QED
        BY <3>3
    <2> QED
      BY <2>3, <2>4, <2>5, <2>6 DEF ConnDown
  <1> QED
    BY <1>1, <1>2, <1>3, <1>4 DEF DownInv

\* A call that hands nothing over.
LEMMA OtherCallDown ==
  ASSUME IInv, IInv', DownInv, CallStep, Head(rcv.io).op # "deliver", UNCHANGED delivered,
         \A u \in Users : ustate'[u] = "open" => ustate[u] = "open"
  PROVE  DownInv'
  <1>0. rcv.io \in Seq(RcvCall) /\ rcv.io # <<>> /\ Head(rcv.io) = rcv.io[1]
    BY DEF CallStep, IInv, ReceiverTypeOK
  <1>1. \A i \in DOMAIN rcv.io : rcv.io[i].op # "deliver"
    <2> SUFFICES ASSUME NEW i \in DOMAIN rcv.io, rcv.io[i].op = "deliver" PROVE FALSE
      OBVIOUS
    <2>1. Len(rcv.io) = 1
      BY DEF DownInv, HandedInv, DeliversOwn
    <2>2. i = 1
      BY <1>0, <2>1
    <2> QED
      BY <1>0, <2>2
  <1>2. \A i \in DOMAIN rcv'.io : rcv'.io[i].op # "deliver"
    <2>1. PICK r : r = rcv'.io /\ r = Tail(rcv.io)
      BY DEF CallStep
    <2>2. \A i \in DOMAIN r : i + 1 \in DOMAIN rcv.io /\ r[i] = rcv.io[i + 1]
      BY <1>0, <2>1
    <2> QED
      BY <1>1, <2>1, <2>2
  <1>3. \A d : ~Delivering(rcv.io, d)
    <2>1. 1 \in DOMAIN rcv.io
      BY <1>0
    <2> QED
      BY <1>1, <2>1 DEF Delivering
  <1>4. HandedInv' /\ \A d : ~Delivering(rcv'.io, d)
    <2>1. \A d \in DOMAIN dials : Bound(d) => Bound(d)'
      BY DEF Bound, SessionOf, CallStep
    <2> QED
      BY <1>2, <2>1, NothingHanded DEF DownInv, CallStep
  <1>5. ASSUME NEW d \in DOMAIN dials
        PROVE  (Routed(d)' => Routed(d)) /\ \A lo : Due(d, lo) => Due(d, lo)'
    <2>1. Owner(d)' = Owner(d) /\ Owner(d) \in Users
      BY Numbered DEF Owner, CallStep
    <2>2. NextOf(delivered[Owner(d)], d)' = NextOf(delivered[Owner(d)], d)
      BY <2>1 DEF NextOf
    <2> QED
      BY <1>3, <1>4, <2>1, <2>2 DEF Routed, Due, CallStep
  <1> QED
    BY <1>4, <1>5, CallDown

\* The write to a user, the only call the goroutine owes: what it is of.
Handing(u, d, p) ==
  /\ u \in Users /\ p \in DownPkt /\ p.conn = d /\ d \in DOMAIN dials
  /\ rcv.io # <<>> /\ rcv.io[1].op = "deliver"
  /\ rcv.io[1].pkt = p /\ rcv.io[1].user = u
  /\ rcv'.io = <<>>
  /\ Bound(d) /\ Owner(d) = u /\ ~Awaiting(d)
  /\ ustate[u] = "open" => d \in DOMAIN byServer

LEMMA HandingOf ==
  ASSUME IInv, OrderInv, DownInv, CallStep, Head(rcv.io).op = "deliver"
  PROVE  \E u, d, p : Handing(u, d, p)
  <1>0. rcv.io \in Seq(RcvCall) /\ rcv.io # <<>> /\ Head(rcv.io) = rcv.io[1] /\ 1 \in DOMAIN rcv.io
    BY DEF CallStep, IInv, ReceiverTypeOK
  <1>1. PICK call \in RcvCall : call = rcv.io[1] /\ call.op = "deliver"
    BY <1>0
  <1>2. call.user \in Users /\ call.pkt \in DownPkt
    BY <1>1 DEF RcvCall, Task
  <1>3. PICK u \in Users, p \in DownPkt : u = call.user /\ p = call.pkt
    BY <1>2
  <1>4. PICK d : d = p.conn
    OBVIOUS
  <1>5. Len(rcv.io) = 1 /\ OfUser(d, u) /\ (ustate[u] # "closed" => d \in DOMAIN byServer)
    BY <1>0, <1>1, <1>3, <1>4 DEF DownInv, HandedInv, DeliversOwn
  <1>6. rcv'.io = <<>>
    <2>1. PICK r \in Seq(RcvCall) : r = rcv'.io /\ r = Tail(rcv.io)
      BY DEF CallStep
    <2>2. Len(r) = 0
      BY <1>0, <1>5, <2>1
    <2> QED
      BY <2>1, <2>2, EmptySeq
  <1>7. ~Awaiting(d)
    BY <1>5, AwaitingUnbound DEF OfUser
  <1>8. Handing(u, d, p)
    BY <1>1, <1>0, <1>3, <1>4, <1>5, <1>6, <1>7 DEF Handing, OfUser
  <1> QED
    BY <1>8

\* The user is closing or gone: the write does nothing.
LEMMA HandedToNobody ==
  ASSUME IInv, IInv', OrderInv, DownInv, CallStep, NEW u, NEW d0, NEW p, Handing(u, d0, p),
         ustate[u] # "open", UNCHANGED <<delivered, ustate>>
  PROVE  DownInv'
  <1>1. HandedInv' /\ \A d : ~Delivering(rcv'.io, d)
    <2>1. \A d \in DOMAIN dials : Bound(d) => Bound(d)'
      BY DEF Bound, SessionOf, CallStep
    <2>2. \A i \in DOMAIN rcv'.io : rcv'.io[i].op # "deliver"
      BY DEF Handing
    <2> QED
      BY <2>1, <2>2, NothingHanded DEF DownInv, CallStep
  <1>2. ~Live(d0)
    BY DEF Live, Routed, Handing
  <1>3. ASSUME NEW d \in DOMAIN dials
        PROVE  (Routed(d)' => Routed(d)) /\ (Live(d) => \A lo : Due(d, lo) => Due(d, lo)')
    <2>1. Owner(d)' = Owner(d)
      BY DEF Owner, CallStep
    <2>2. NextOf(delivered[Owner(d)], d)' = NextOf(delivered[Owner(d)], d)
      BY <2>1 DEF NextOf
    <2>3. Live(d) => ~Delivering(rcv.io, d)
      BY <1>2 DEF Delivering, Handing
    <2> QED
      BY <1>1, <2>1, <2>2, <2>3 DEF Routed, Due, CallStep
  <1> QED
    BY <1>1, <1>3, CallDown

\* The user gets the packet.
LEMMA HandedOver ==
  ASSUME IInv, IInv', OrderInv, DownInv, CallStep, NEW u, NEW d0, NEW p, Handing(u, d0, p),
         ustate[u] = "open", UNCHANGED ustate,
         delivered' = [delivered EXCEPT ![u] = Append(@, p)]
  PROVE  DownInv'
  <1>0. /\ u \in Users /\ p \in DownPkt /\ p.conn = d0 /\ d0 \in DOMAIN dials /\ Owner(d0) = u
        /\ Bound(d0) /\ Delivering(rcv.io, d0) /\ rcv.io[1].pkt = p /\ rcv'.io = <<>>
        /\ d0 \in DOMAIN byServer
    BY DEF Handing, Delivering
  <1>1. PICK got \in Seq(DownPkt), got2 \in Seq(DownPkt) :
          /\ got = delivered[u] /\ got2 = Append(got, p) /\ delivered'[u] = got2
          /\ \A v \in Users : v # u => delivered'[v] = delivered[v]
    BY <1>0 DEF IInv, ReceiverTypeOK
  <1>2. u \in DOMAIN byUser /\ byUser[u] = SessionOf(d0)
    BY <1>0, RoutedBound
  <1>3. p.seq = NextOf(got, d0)
    BY <1>0, <1>1 DEF DownInv, HandedInv, DeliversNext
  <1>4. \A k \in DOMAIN got : OfUser(got[k].conn, u)
    BY <1>0, <1>1 DEF DownInv, HandedInv, DeliveredOwn
  <1>5. \A k \in DOMAIN got : got[k].conn <= d0
    <2> SUFFICES ASSUME NEW k \in DOMAIN got PROVE got[k].conn <= d0
      OBVIOUS
    <2>1. PICK e : e = got[k].conn
      OBVIOUS
    <2>2. e \in DOMAIN dials /\ Owner(e) = u
      BY <1>4, <2>1 DEF OfUser
    <2>3. /\ e \in Int /\ d0 \in Int /\ SessionOf(e) \in Int /\ SessionOf(d0) \in Int
          /\ (d0 < e => SessionOf(d0) < SessionOf(e)) /\ SessionOf(e) <= SessionOf(d0)
      <3>1. e \in Int /\ d0 \in Int /\ SessionOf(e) \in Int /\ SessionOf(d0) \in Int
        BY <1>0, <2>2, Numbered DEF IInv, TableInv, TableTypeOK, DialerInv, DialerTypeOK
      <3>2. DialsInOrder
        BY DEF DownInv
      <3> QED
        BY <1>0, <1>2, <2>2, <3>1, <3>2 DEF DialsInOrder
    <2> QED
      BY <2>1, <2>3
  <1>6. Runs(got2)
    <2>1. Runs(got)
      BY <1>0, <1>1 DEF DownInv, HandedInv, DeliveredRuns
    <2> QED
      BY <1>0, <1>1, <1>3, <1>5, <2>1, RunsGrow
  <1>7. /\ \A d \in DOMAIN dials : Bound(d)' <=> Bound(d)
        /\ \A d \in DOMAIN dials : Owner(d)' = Owner(d) /\ Owner(d) \in Users
        /\ DOMAIN dials' = DOMAIN dials
    BY Numbered DEF Bound, SessionOf, Owner, CallStep
  <1>8. got2 # <<>> /\ got2[Len(got2)] = p
    BY <1>0, <1>1
  <1>9. HandedInv'
    <2>1. \A d, v : OfUser(d, v) => OfUser(d, v)'
      BY <1>7 DEF OfUser
    <2>2. DeliveredOwn'
      <3>1. \A k \in DOMAIN got2 : OfUser(got2[k].conn, u)
        <4>1. OfUser(p.conn, u)
          BY <1>0 DEF OfUser
        <4>2. \A k \in DOMAIN got2 : (k \in DOMAIN got /\ got2[k] = got[k]) \/ got2[k] = p
          BY <1>0, <1>1
        <4> QED
          BY <1>4, <4>1, <4>2
      <3>2. \A v \in Users : \A k \in DOMAIN delivered'[v] : OfUser(delivered'[v][k].conn, v)
        BY <1>1, <3>1 DEF DownInv, HandedInv, DeliveredOwn
      <3>3. PICK now : now = delivered'
        OBVIOUS
      <3>4. \A v \in Users : \A k \in DOMAIN now[v] : OfUser(now[v][k].conn, v)'
        BY <2>1, <3>2, <3>3
      <3> QED
        BY <3>3, <3>4 DEF DeliveredOwn, OfUser
    <2>3. DeliversOwn' /\ DeliversNext'
      BY <1>0 DEF DeliversOwn, DeliversNext, Delivering
    <2>4. DeliveredRuns'
      <3>1. \A v \in Users : Runs(delivered'[v])
        BY <1>1, <1>6 DEF DownInv, HandedInv, DeliveredRuns
      <3> QED
        BY <3>1 DEF DeliveredRuns, Runs
    <2> QED
      BY <2>2, <2>3, <2>4 DEF HandedInv
  <1>10. ASSUME NEW d \in DOMAIN dials
         PROVE  (Routed(d)' => Routed(d)) /\ (Live(d) => \A lo : Due(d, lo) => Due(d, lo)')
    <2>1. Routed(d)' => Routed(d)
      BY <1>7 DEF Routed, CallStep
    <2>2. ~Delivering(rcv'.io, d)
      BY <1>0 DEF Delivering
    <2>3. \A lo : Due(d, lo)' <=> lo = NextOf(delivered'[Owner(d)], d) + 0
      BY <1>7, <2>2 DEF Due, NextOf
    <2>4. CASE d = d0
      <3>1. NextOf(got2, d) = p.seq + 1 /\ p.seq \in Nat
        BY <1>0, <1>8, <2>4 DEF NextOf, DownPkt
      <3>2. \A lo : Due(d, lo) <=> lo = p.seq + 1
        BY <1>0, <1>1, <1>3, <2>4 DEF Due
      <3>3. delivered'[Owner(d)] = got2
        BY <1>0, <1>1, <2>4
      <3>4. \A lo : Due(d, lo)' <=> lo = p.seq + 1
        <4>1. p.seq + 1 + 0 = p.seq + 1
          BY <3>1
        <4> QED
          BY <2>3, <3>1, <3>3, <4>1
      <3> QED
        BY <2>1, <3>2, <3>4
    <2>5. CASE d # d0
      <3>1. ~Delivering(rcv.io, d)
        BY <1>0, <2>5 DEF Delivering
      <3>2. \A lo : Due(d, lo) <=> lo = NextOf(delivered[Owner(d)], d) + 0
        BY <3>1 DEF Due
      <3>3. ASSUME Live(d)
            PROVE  NextOf(delivered'[Owner(d)], d) = NextOf(delivered[Owner(d)], d)
        <4>1. CASE Owner(d) # u
          BY <1>1, <1>7, <4>1
        <4>2. CASE Owner(d) = u
          <5>1. Awaiting(d)
            <6>1. ~Routed(d)
              <7>1. ASSUME Routed(d) PROVE SessionOf(d) = SessionOf(d0)
                BY <1>2, <4>2, <7>1, RoutedBound DEF Routed
              <7> QED
                BY <1>0, <2>5, <7>1 DEF IInv, TableInv, DialsDistinct, SessionOf
            <6> QED
              BY <3>3, <6>1 DEF Live
          <5>2. \A k \in DOMAIN got : got[k].conn # d
            BY <1>4, <5>1, AwaitingUnbound DEF OfUser
          <5>3. got # <<>> => Len(got) \in DOMAIN got
            OBVIOUS
          <5>4. NextOf(got, d) = 1
            BY <5>2, <5>3 DEF NextOf
          <5>5. NextOf(got2, d) = 1
            BY <1>0, <1>8, <2>5 DEF NextOf
          <5> QED
            BY <1>1, <4>2, <5>4, <5>5
        <4> QED
          BY <4>1, <4>2
      <3> QED
        BY <2>1, <2>3, <3>2, <3>3
    <2> QED
      BY <2>4, <2>5
  <1> QED
    BY <1>9, <1>10, CallDown

LEMMA ReceiveCallDown ==
  ASSUME IInv, IInv', OrderInv, DownInv, ReceiveCall
  PROVE  DownInv'
  <1>1. CallStep
    <2>1. rcv' = [io |-> Tail(rcv.io), sendMu |-> IF Len(rcv.io) = 1 THEN NoSession ELSE rcv.sendMu]
      BY DEF ReceiveCall
    <2>2. rcv'.io \in Seq(RcvCall)
      BY DEF IInv, ReceiverTypeOK
    <2> QED
      BY <2>1, <2>2 DEF CallStep, ReceiveCall, tableVars
  <1>2. PICK call : call = Head(rcv.io)
    OBVIOUS
  <1>3. CASE call.op = "deliver"
    <2>1. PICK u, d, p : Handing(u, d, p)
      BY <1>1, <1>2, <1>3, HandingOf
    <2>2. call.user = u /\ call.pkt = p
      <3>1. call = rcv.io[1]
        BY <1>1, <1>2 DEF CallStep, IInv, ReceiverTypeOK
      <3> QED
        BY <2>1, <3>1 DEF Handing
    <2>3. /\ UNCHANGED ustate
          /\ delivered' = IF ustate[u] = "open" THEN [delivered EXCEPT ![u] = Append(@, p)]
                                                ELSE delivered
      BY <1>2, <1>3, <2>2 DEF ReceiveCall
    <2> QED
      BY <1>1, <2>1, <2>3, HandedOver, HandedToNobody
  <1>4. CASE call.op # "deliver"
    <2>1. /\ UNCHANGED delivered
          /\ ustate' = ustate \/ ustate' = [ustate EXCEPT ![call.user] = "closing"]
      BY <1>2, <1>4 DEF ReceiveCall
    <2>2. ustate \in [Users -> {"open", "closing", "closed"}]
      BY DEF IInv, LoopInv, UserTypeOK
    <2>3. \A u \in Users : ustate'[u] = "open" => ustate[u] = "open"
      BY <2>1, <2>2
    <2> QED
      BY <1>1, <1>2, <1>4, <2>1, <2>3, OtherCallDown
  <1> QED
    BY <1>3, <1>4

(***************************************************************************)
(* What a user gets                                                        *)
(***************************************************************************)
LEMMA InitDown ==
  ASSUME Init
  PROVE  DownInv
  <1>1. /\ dials = <<>> /\ recvChan = <<>> /\ loop = [blocked |-> <<>>, failed |-> NoConn]
        /\ rcv = [io |-> <<>>, sendMu |-> NoSession]
        /\ lp = [u \in Users |-> [pc |-> "idle", cached |-> FALSE, io |-> <<>>]]
        /\ delivered = [u \in Users |-> <<>>]
    BY DEF Init, DialerInit
  <1>2. /\ DOMAIN dials = {} /\ DOMAIN recvChan = {} /\ DOMAIN loop.blocked = {}
        /\ Len(loop.blocked) = 0 /\ rcv.io = <<>> /\ DOMAIN rcv.io = {}
        /\ \A u \in Users : lp[u].pc = "idle" /\ DOMAIN delivered[u] = {}
    BY <1>1
  <1>3. DialsInOrder
    BY <1>2 DEF DialsInOrder, Owes
  <1>4. EventsWellFormed
    BY <1>2 DEF EventsWellFormed, Events
  <1>5. HandedInv
    BY <1>2 DEF HandedInv, DeliveredOwn, DeliversOwn, DeliversNext, Delivering,
                DeliveredRuns, Runs
  <1> QED
    BY <1>2, <1>3, <1>4, <1>5 DEF DownInv

LEMMA NextDown ==
  ASSUME ClientAssumption, IInv, OrderInv, DownInv, [Next]_vars
  PROVE  DownInv'
  <1>0. IInv'
    BY NextIInv
  <1>1. ASSUME NEW u \in Users, UserTraffic(u) \/ UserLoop(u) \/ UserCloses(u)
        PROVE  DownInv'
    BY <1>0, <1>1, UserDown
  <1>2. CASE Consumer
    BY <1>0, <1>2, ReceiveDown, ReceiveCallDown DEF Consumer
  <1>3. CASE DialerSteps
    BY <1>0, <1>3, DialerDown
  <1>4. CASE UNCHANGED vars
    <2>1. /\ UNCHANGED <<dials, conns, loop, recvChan, rcv, delivered>>
          /\ UNCHANGED <<byUser, byServer, sess, lp, ustate>>
      BY <1>4 DEF vars, dialerVars, tableVars, userVars
    <2>2. \A d \in DOMAIN dials : Bound(d) => Bound(d)'
      BY <2>1 DEF Bound, SessionOf
    <2>3. \A u \in Users : Owes(u)' => Owes(u) /\ lp'[u].io = lp[u].io
      BY <2>1 DEF Owes
    <2> QED
      BY <1>0, <2>1, <2>2, <2>3, QuietUser
  <1> QED
    BY <1>1, <1>2, <1>3, <1>4 DEF Next

LEMMA DownInOrder ==
  ASSUME DownInv
  PROVE  DownstreamInOrder
  <1> SUFFICES ASSUME NEW u \in Users, NEW i \in DOMAIN delivered[u],
                      NEW p, p = delivered[u][i]
               PROVE  /\ dials[p.conn].token.user = u
                      /\ p.seq \in 1..i
                      /\ \A j \in 1..i :
                           IF j > i - p.seq
                             THEN delivered[u][j] = [conn |-> p.conn, seq |-> j - (i - p.seq)]
                             ELSE delivered[u][j].conn < p.conn
    BY DEF DownstreamInOrder
  <1>1. dials[p.conn].token.user = u
    BY DEF DownInv, HandedInv, DeliveredOwn, OfUser, Owner
  <1>2. Runs(delivered[u])
    BY DEF DownInv, HandedInv, DeliveredRuns
  <1> QED
    BY <1>1, <1>2 DEF Runs

\* A user receives from its connections one after the other, and from each one
\* a prefix of what the server sent on it: the Open event precedes the
\* connection's data on recvChan (session.go:92-94), and no data of a session
\* that was purged or replaced follows that of a newer one.
THEOREM DownstreamOrdered == Spec => []DownstreamInOrder
  <1>1. Init => OrderInv /\ DownInv
    BY InitOrder, InitDown
  <1>2. IInv /\ OrderInv /\ DownInv /\ [Next]_vars => OrderInv' /\ DownInv'
    BY NextOrder, NextDown, ClientAssumption
  <1>3. DownInv => DownstreamInOrder
    BY DownInOrder
  <1> QED
    BY <1>1, <1>2, <1>3, ClientInvariant, PTL DEF Spec

\* What a user got is of no connection newer than that of its session.
LEMMA NoneNewer ==
  ASSUME IInv, DownInv, NEW d \in DOMAIN dials, Current(dials[d].token)
  PROVE  \A k \in DOMAIN delivered[Owner(d)] : delivered[Owner(d)][k].conn <= d
  <1> SUFFICES ASSUME NEW k \in DOMAIN delivered[Owner(d)]
               PROVE  delivered[Owner(d)][k].conn <= d
    OBVIOUS
  <1>1. PICK e, u : e = delivered[Owner(d)][k].conn /\ u = Owner(d)
    OBVIOUS
  <1>2. /\ u \in Users /\ u \in DOMAIN byUser /\ byUser[u] = SessionOf(d)
    BY <1>1, Numbered DEF Current, Owner, SessionOf
  <1>3. e \in DOMAIN dials /\ Owner(e) = u
    BY <1>1, <1>2 DEF DownInv, HandedInv, DeliveredOwn, OfUser
  <1>4. e \in Int /\ d \in Int /\ SessionOf(e) \in Int /\ SessionOf(d) \in Int
    BY <1>3, Numbered DEF IInv, TableInv, TableTypeOK, DialerInv, DialerTypeOK
  <1>5. (d < e => SessionOf(d) < SessionOf(e)) /\ SessionOf(e) <= SessionOf(d)
    BY <1>1, <1>2, <1>3 DEF DownInv, DialsInOrder
  <1> QED
    BY <1>1, <1>4, <1>5

\* What it got from the newest are that connection's first packets.
LEMMA NewestPrefix ==
  ASSUME NEW got \in Seq(DownPkt), Runs(got), NEW d \in Int,
         \A k \in DOMAIN got : got[k].conn <= d
  PROVE  \E n \in Nat :
           /\ NextOf(got, d) = n + 1
           /\ \A p : (p \in {got[i] : i \in DOMAIN got} /\ p.conn = d)
                       <=> \E q \in 1..n : p = [conn |-> d, seq |-> q]
  <1>1. PICK l : l = Len(got)
    OBVIOUS
  <1>2. l \in Nat /\ DOMAIN got = 1..l /\ \A k \in 1..l : got[k] \in DownPkt
    BY <1>1
  <1>3. CASE got # <<>> /\ got[l].conn = d
    <2>1. l \in 1..l
      BY <1>1, <1>2, <1>3, EmptySeq
    <2>2. PICK n : n = got[l].seq
      OBVIOUS
    <2>3. /\ n \in 1..l
          /\ \A j \in 1..l : IF j > l - n THEN got[j] = [conn |-> d, seq |-> j - (l - n)]
                                          ELSE got[j].conn < d
      BY <1>2, <1>3, <2>1, <2>2 DEF Runs
    <2>4. NextOf(got, d) = n + 1
      BY <1>1, <1>3, <2>2 DEF NextOf
    <2>5. ASSUME NEW j \in 1..l, got[j].conn = d
          PROVE  \E q \in 1..n : got[j] = [conn |-> d, seq |-> q]
      <3>1. j > l - n
        <4>1. ~(d < d)
          OBVIOUS
        <4>2. CASE ~(j > l - n)
          <5>1. got[j].conn < d
            BY <2>3, <4>2
          <5> QED
            BY <2>5, <4>1, <5>1
        <4> QED
          BY <4>2
      <3>2. j - (l - n) \in 1..n
        BY <1>2, <2>3, <3>1
      <3> QED
        BY <2>3, <3>1, <3>2
    <2>6. ASSUME NEW q \in 1..n
          PROVE  \E j \in 1..l : got[j] = [conn |-> d, seq |-> q]
      <3>1. l - n + q \in 1..l /\ l - n + q > l - n /\ (l - n + q) - (l - n) = q
        BY <1>2, <2>3
      <3> QED
        BY <2>3, <3>1
    <2>7. \A p : (p \in {got[i] : i \in DOMAIN got} /\ p.conn = d)
                   <=> \E q \in 1..n : p = [conn |-> d, seq |-> q]
      <3> TAKE p
      <3>1. p \in {got[i] : i \in DOMAIN got} /\ p.conn = d
              => \E q \in 1..n : p = [conn |-> d, seq |-> q]
        BY <1>2, <2>5
      <3>2. (\E q \in 1..n : p = [conn |-> d, seq |-> q])
              => p \in {got[i] : i \in DOMAIN got} /\ p.conn = d
        BY <1>2, <2>6
      <3> QED
        BY <3>1, <3>2
    <2> QED
      BY <2>3, <2>4, <2>7
  <1>4. CASE ~(got # <<>> /\ got[l].conn = d)
    <2>1. NextOf(got, d) = 0 + 1
      BY <1>1, <1>4 DEF NextOf
    <2>2. \A k \in DOMAIN got : got[k].conn # d
      BY <1>1, <1>4, NoneOfNewest
    <2>3. \A q \in 1..0 : FALSE
      OBVIOUS
    <2> QED
      BY <2>1, <2>2, <2>3
  <1> QED
    BY <1>3, <1>4

PacketsIn(s) == UNION {{s[i].pkts[k] : k \in DOMAIN s[i].pkts} : i \in DOMAIN s}

\* The packets of d in a sequence of events, by their numbers.
LEMMA HeldPackets ==
  ASSUME NEW s \in Seq(ConnEvent), \A i \in DOMAIN s : EventFormed(s[i]), NEW d, NEW p
  PROVE  (p \in PacketsIn(s) /\ p.conn = d) <=>
           \E q \in Nat : p = [conn |-> d, seq |-> q] /\ Holds(s, d, q)
  <1>1. ASSUME NEW i \in DOMAIN s, s[i].pkts # <<>>
        PROVE  /\ DOMAIN s[i].pkts = {1} /\ s[i].pkts[1].conn = s[i].conn
               /\ s[i].pkts[1] = [conn |-> s[i].conn, seq |-> Number(s, i)]
               /\ Number(s, i) \in Nat
    <2>1. PICK pkts \in Seq(DownPkt) : pkts = s[i].pkts
      <3>1. s[i] \in ConnEvent
        OBVIOUS
      <3> QED
        BY <3>1 DEF ConnEvent
    <2>2. Len(pkts) = 1 /\ pkts[1].conn = s[i].conn
      BY <1>1, <2>1 DEF EventFormed
    <2>3. DOMAIN pkts = {1} /\ pkts[1] \in DownPkt
      <3>1. DOMAIN pkts = 1..1 /\ \A k \in DOMAIN pkts : pkts[k] \in DownPkt
        BY <2>1, <2>2
      <3>2. 1..1 = {1}
        OBVIOUS
      <3> QED
        BY <3>1, <3>2
    <2> QED
      BY <2>1, <2>2, <2>3 DEF Number, DownPkt
  <1>2. ASSUME p \in PacketsIn(s), p.conn = d
        PROVE  \E q \in Nat : p = [conn |-> d, seq |-> q] /\ Holds(s, d, q)
    <2>1. PICK i \in DOMAIN s : \E k \in DOMAIN s[i].pkts : p = s[i].pkts[k]
      BY <1>2 DEF PacketsIn
    <2>2. s[i].pkts # <<>>
      BY <2>1
    <2>3. p = s[i].pkts[1]
      BY <1>1, <2>1, <2>2
    <2>4. i \in Carries(s, d)
      BY <1>1, <1>2, <2>2, <2>3 DEF Carries
    <2> QED
      BY <1>1, <1>2, <2>2, <2>3, <2>4 DEF Holds
  <1>3. ASSUME NEW q \in Nat, p = [conn |-> d, seq |-> q], Holds(s, d, q)
        PROVE  p \in PacketsIn(s) /\ p.conn = d
    <2>1. PICK i \in DOMAIN s : s[i].conn = d /\ s[i].pkts # <<>> /\ Number(s, i) = q
      BY <1>3 DEF Holds, Carries
    <2>2. p = s[i].pkts[1] /\ 1 \in DOMAIN s[i].pkts
      BY <1>1, <1>3, <2>1
    <2> QED
      BY <1>3, <2>2 DEF PacketsIn
  <1> QED
    BY <1>2, <1>3

\* What is in transit from d.
LEMMA TransitIs ==
  ASSUME IInv, DownInv, NEW d \in DOMAIN dials, NEW p
  PROVE  p \in InTransit(d) <=>
           \E q \in Nat : /\ p = [conn |-> d, seq |-> q]
                          /\ \/ Holds(recvChan, d, q) \/ Holds(loop.blocked, d, q)
                             \/ Delivering(rcv.io, d) /\ rcv.io[1].pkt.seq = q
  <1>1. /\ recvChan \in Seq(ConnEvent) /\ loop.blocked \in Seq(ConnEvent)
        /\ \A i \in DOMAIN recvChan : EventFormed(recvChan[i])
        /\ \A i \in DOMAIN loop.blocked : EventFormed(loop.blocked[i])
        /\ rcv.io \in Seq(RcvCall)
    BY EventsTyped DEF DownInv, EventsWellFormed, Events, IInv, ReceiverTypeOK
  <1> DEFINE Handed == {rcv.io[i].pkt : i \in {j \in DOMAIN rcv.io : rcv.io[j].op = "deliver"}}
  <1>2. p \in InTransit(d) <=>
          \/ p \in PacketsIn(recvChan) /\ p.conn = d
          \/ p \in PacketsIn(loop.blocked) /\ p.conn = d
          \/ p \in Handed /\ p.conn = d
    BY DEF InTransit, PacketsIn
  <1>3. p \in Handed /\ p.conn = d <=>
          \E q \in Nat : p = [conn |-> d, seq |-> q] /\ Delivering(rcv.io, d) /\ rcv.io[1].pkt.seq = q
    <2>1. ASSUME NEW i \in DOMAIN rcv.io, rcv.io[i].op = "deliver"
          PROVE  /\ i = 1 /\ rcv.io # <<>>
                 /\ rcv.io[1].pkt = [conn |-> rcv.io[1].pkt.conn, seq |-> rcv.io[1].pkt.seq]
                 /\ rcv.io[1].pkt.seq \in Nat
      <3>1. Len(rcv.io) = 1
        BY <2>1 DEF DownInv, HandedInv, DeliversOwn
      <3>2. i = 1 /\ rcv.io # <<>>
        BY <1>1, <3>1
      <3>3. rcv.io[1] \in RcvCall /\ rcv.io[1].op = "deliver"
        BY <1>1, <2>1, <3>2
      <3>4. rcv.io[1].pkt \in DownPkt
        BY <3>3 DEF RcvCall, Task
      <3> QED
        BY <3>2, <3>4 DEF DownPkt
    <2>2. rcv.io # <<>> => 1 \in DOMAIN rcv.io
      BY <1>1
    <2> QED
      BY <2>1, <2>2 DEF Delivering
  <1>4. (p \in PacketsIn(recvChan) /\ p.conn = d) <=>
          \E q \in Nat : p = [conn |-> d, seq |-> q] /\ Holds(recvChan, d, q)
    BY <1>1, HeldPackets
  <1>5. (p \in PacketsIn(loop.blocked) /\ p.conn = d) <=>
          \E q \in Nat : p = [conn |-> d, seq |-> q] /\ Holds(loop.blocked, d, q)
    <2>1. PICK b \in Seq(ConnEvent) : b = loop.blocked /\ \A i \in DOMAIN b : EventFormed(b[i])
      BY <1>1
    <2>2. (p \in PacketsIn(b) /\ p.conn = d) <=>
            \E q \in Nat : p = [conn |-> d, seq |-> q] /\ Holds(b, d, q)
      BY <2>1, HeldPackets
    <2> QED
      BY <2>1, <2>2
  <1> QED
    BY <1>2, <1>3, <1>4, <1>5

\* The connection of the session a user has is one whose packets it gets,
\* once it was made.
LEMMA CurrentLive ==
  ASSUME IInv, DownInv, NEW d \in DOMAIN dials, Current(dials[d].token),
         ustate[Owner(d)] = "open", conns[d].st # "new"
  PROVE  Live(d)
  <1>1. Awaiting(d) \/ Bound(d)
    BY DEF DownInv, ConnDown, OpenedBound
  <1>2. CASE Bound(d)
    <2>1. Owner(d) \in DOMAIN byUser /\ sess[byUser[Owner(d)]].serverConn = d
      BY <1>2 DEF Bound, Current, Owner, SessionOf
    <2>2. d # NoConn
      BY DomainsEqual DEF IInv, DialerInv
    <2>3. d \in DOMAIN byServer
      BY <2>1, <2>2 DEF IInv, TableInv, RouteConsistent
    <2> QED
      BY <2>3 DEF Live, Routed
  <1> QED
    BY <1>1, <1>2 DEF Live

LEMMA DownKeepsAll ==
  ASSUME IInv, DownInv
  PROVE  DownstreamNotLost
  <1> SUFFICES ASSUME NEW d \in DOMAIN conns, Current(dials[d].token),
                      ustate[dials[d].token.user] = "open",
                      NEW got, got = delivered[dials[d].token.user], NEW p
               PROVE  p \in {g \in {got[i] : i \in DOMAIN got} : g.conn = d} \cup InTransit(d)
                        <=> p \in {[conn |-> d, seq |-> n] : n \in 1..conns[d].in}
    BY DEF DownstreamNotLost
  <1>1. d \in DOMAIN dials /\ d \in Int /\ Owner(d) \in Users /\ conns[d].in \in Nat
    BY DomainsEqual, Numbered, ConnFields DEF IInv, DialerInv, DialerTypeOK
  <1>2. got = delivered[Owner(d)] /\ got \in Seq(DownPkt) /\ ustate[Owner(d)] = "open"
    BY <1>1 DEF Owner, IInv, ReceiverTypeOK
  <1>3. PICK n \in Nat :
          /\ NextOf(got, d) = n + 1
          /\ (p \in {got[i] : i \in DOMAIN got} /\ p.conn = d)
               <=> \E q \in 1..n : p = [conn |-> d, seq |-> q]
    <2>1. Runs(got)
      BY <1>1, <1>2 DEF DownInv, HandedInv, DeliveredRuns
    <2>2. \A k \in DOMAIN got : got[k].conn <= d
      BY <1>1, <1>2, NoneNewer
    <2>3. PICK n \in Nat :
            /\ NextOf(got, d) = n + 1
            /\ \A x : (x \in {got[i] : i \in DOMAIN got} /\ x.conn = d)
                       <=> \E q \in 1..n : x = [conn |-> d, seq |-> q]
      BY <1>1, <1>2, <2>1, <2>2, NewestPrefix
    <2> QED
      BY <2>3
  <1>4. ConnDown(d)
    BY <1>1 DEF DownInv
  <1>5. CASE conns[d].st = "new"
    <2>1. conns[d].in = 0 /\ n = 0
      <3>1. Due(d, 1) /\ ~Delivering(rcv.io, d)
        BY <1>1, <1>5, NothingOfNew
      <3>2. 1 = NextOf(got, d) + 0
        BY <1>2, <3>1 DEF Due
      <3> QED
        BY <1>3, <1>4, <1>5, <3>2 DEF ConnDown, NewUnread
    <2>2. p \notin InTransit(d)
      BY <1>1, <1>5, NothingOfNew, TransitIs DEF Holds
    <2>3. 1..0 = {}
      OBVIOUS
    <2> QED
      BY <1>3, <2>1, <2>2, <2>3
  <1>6. CASE conns[d].st # "new"
    <2>1. PICK lo \in Nat : Due(d, lo) /\ Feeds(d, lo)
      BY <1>1, <1>2, <1>4, <1>6, CurrentLive DEF ConnDown, Fed
    <2>2. PICK hi \in Nat : hi = conns[d].in
      BY <1>1
    <2>3. /\ lo <= hi + 1
          /\ \A q \in Int : Holds(recvChan, d, q) \/ Holds(loop.blocked, d, q)
                              <=> lo <= q /\ q <= hi
      BY <2>1, <2>2 DEF Feeds, Coming
    <2>4. /\ Delivering(rcv.io, d) => rcv.io[1].pkt.seq = n + 1 /\ lo = n + 2
          /\ ~Delivering(rcv.io, d) => lo = n + 1
      <3>1. Delivering(rcv.io, d) => rcv.io[1].pkt.seq = n + 1
        BY <1>1, <1>2, <1>3 DEF DownInv, HandedInv, DeliversNext
      <3>2. lo = n + 1 + (IF Delivering(rcv.io, d) THEN 1 ELSE 0)
        BY <1>2, <1>3, <2>1 DEF Due
      <3> QED
        BY <3>1, <3>2
    <2>5. \A q \in Nat :
            q \in 1..hi <=> \/ q \in 1..n
                            \/ Holds(recvChan, d, q) \/ Holds(loop.blocked, d, q)
                            \/ Delivering(rcv.io, d) /\ rcv.io[1].pkt.seq = q
      <3>1. CASE Delivering(rcv.io, d)
        BY <2>3, <2>4, <3>1
      <3>2. CASE ~Delivering(rcv.io, d)
        BY <2>3, <2>4, <3>2
      <3> QED
        BY <3>1, <3>2
    <2>6. 1..n \subseteq Nat /\ 1..hi \subseteq Nat
      OBVIOUS
    <2> QED
      BY <1>1, <1>3, <2>2, <2>5, <2>6, TransitIs
  <1> QED
    BY <1>5, <1>6

\* While the user is open and the session is the user's, none of the packets
\* its connection sent is lost, neither before the session's Open is handled
\* nor when the connection has closed behind them.
THEOREM DownstreamKept == Spec => []DownstreamNotLost
  <1>1. Init => OrderInv /\ DownInv
    BY InitOrder, InitDown
  <1>2. IInv /\ OrderInv /\ DownInv /\ [Next]_vars => OrderInv' /\ DownInv'
    BY NextOrder, NextDown, ClientAssumption
  <1>3. IInv /\ DownInv => DownstreamNotLost
    BY DownKeepsAll
  <1> QED
    BY <1>1, <1>2, <1>3, ClientInvariant, PTL DEF Spec

(***************************************************************************)
(* Nobody gets what was not sent                                           *)
(***************************************************************************)

\* A step in which no connection reads anything.
NothingRead ==
  /\ DOMAIN conns \subseteq DOMAIN conns'
  /\ \A d \in DOMAIN conns : conns'[d].in = conns[d].in
  /\ \A d \in DOMAIN conns' \ DOMAIN conns : conns'[d].in = 0

LEMMA LoopReadsNothing ==
  ASSUME IInv, NEW u \in Users, UserTraffic(u) \/ UserLoop(u) \/ UserCloses(u)
  PROVE  NothingRead
  <1>1. ASSUME NEW token, AsyncDial(token) PROVE NothingRead
    <2>1. PICK s \in Seq(Conn) : s = conns
      BY DEF IInv, DialerInv, DialerTypeOK
    <2>2. conns' = Append(s, NewConn) /\ NewConn.in = 0
      BY <1>1, <2>1 DEF AsyncDial, NewConn
    <2>3. /\ DOMAIN s \subseteq DOMAIN conns'
          /\ \A d \in DOMAIN conns' : (d \in DOMAIN s /\ conns'[d] = s[d]) \/ conns'[d] = NewConn
          /\ \A d \in DOMAIN s : conns'[d] = s[d]
      BY <2>1, <2>2
    <2> QED
      BY <2>1, <2>2, <2>3 DEF NothingRead
  <1>2. CASE UNCHANGED conns
    BY <1>2 DEF NothingRead
  <1>3. UNCHANGED conns \/ \E token : AsyncDial(token)
    BY DEF UserTraffic, UserLoop, Lookup, Admit, UserCall, UserCloses, dialerVars
  <1> QED
    BY <1>1, <1>2, <1>3

LEMMA ConsumerReadsNothing ==
  ASSUME Consumer
  PROVE  NothingRead
  BY DEF Consumer, Receive, ReceiveCall, NothingRead

LEMMA DialerReadsNothing ==
  ASSUME IInv, NEW d, OnOpenPosted(d) \/ DialStep(d) \/ PeerCloses(d)
  PROVE  NothingRead
  <1>0. conns \in Seq(Conn) /\ DOMAIN conns = DOMAIN dials
    BY DomainsEqual DEF IInv, DialerInv, DialerTypeOK
  <1>1. ASSUME NEW st \in {"open", "closed"}, d \in DOMAIN conns, conns' = ConnAt(d, st)
        PROVE  NothingRead
    BY <1>0, <1>1, ConnFields, ConnUpdate DEF ConnAt, NothingRead
  <1>2. CASE UNCHANGED conns
    BY <1>2 DEF NothingRead
  <1> QED
    BY <1>0, <1>1, <1>2 DEF OnOpenPosted, DialStep, AcquireSem, DialFinishes, DialReports, PeerCloses

LEMMA LoopAloneReadsNothing ==
  ASSUME IInv, LoopStep \/ WriteErrorDone(<<>>)
  PROVE  NothingRead
  <1>0. conns \in Seq(Conn) /\ tasks \in Seq(Task)
    BY DEF IInv, DialerInv, DialerTypeOK
  <1>1. ASSUME NEW d, NEW st \in {"open", "closed"}, conns[d].st = "open", conns' = ConnAt(d, st)
        PROVE  NothingRead
    BY <1>0, <1>1, StateMoves DEF ConnAt, NothingRead
  <1>2. ASSUME NEW d, NEW p \in Packet, conns' = ConnWritten(d, p) PROVE NothingRead
    BY <1>0, <1>2, WriteMoves DEF ConnWritten, NothingRead
  <1>3. CASE UNCHANGED conns
    BY <1>3 DEF NothingRead
  <1>4. CASE RunWrite
    <2>1. Head(tasks).payload \in Packet
      <3>1. Head(tasks) \in Task /\ Head(tasks).op = "write"
        BY <1>0, <1>4 DEF RunWrite
      <3> QED
        BY <3>1, TaskFields
    <2> QED
      BY <1>1, <1>2, <1>3, <1>4, <2>1 DEF RunWrite
  <1>5. CASE RunClose
    BY <1>1, <1>3, <1>5 DEF RunClose
  <1> QED
    BY <1>3, <1>4, <1>5 DEF LoopStep, LoopUnblocks, WriteErrorDone

LEMMA TrafficReads ==
  ASSUME IInv, NEW d, OnTraffic(d)
  PROVE  /\ d \in DOMAIN conns /\ DOMAIN conns' = DOMAIN conns
         /\ conns'[d].in = conns[d].in + 1
         /\ \A e \in DOMAIN conns : e # d => conns'[e].in = conns[e].in
  <1>1. /\ conns \in Seq(Conn) /\ d \in DOMAIN conns
        /\ conns' = ConnRead(d)
    BY DEF IInv, DialerInv, DialerTypeOK, OnTraffic
  <1>2. conns[d].in + 1 \in Nat
    BY <1>1, ConnFields
  <1> QED
    BY <1>1, <1>2, ConnFields, ConnUpdate DEF ConnRead

\* What a user has, its connection has read.
DeliveredSent ==
  \A u \in Users : \A k \in DOMAIN delivered[u] :
    /\ delivered[u][k].conn \in DOMAIN conns
    /\ delivered[u][k].seq <= conns[delivered[u][k].conn].in

\* What was read stays so.
LEMMA SentStays ==
  ASSUME IInv, IInv', DeliveredSent, UNCHANGED delivered,
         DOMAIN conns \subseteq DOMAIN conns',
         \A d \in DOMAIN conns : conns[d].in <= conns'[d].in
  PROVE  DeliveredSent'
  <1> SUFFICES ASSUME NEW u \in Users, NEW k \in DOMAIN delivered[u],
                      NEW p \in DownPkt, p = delivered[u][k]
               PROVE  p.conn \in DOMAIN conns' /\ p.seq <= conns'[p.conn].in
    BY DEF DeliveredSent, IInv, ReceiverTypeOK
  <1>1. p.conn \in DOMAIN conns /\ p.seq <= conns[p.conn].in
    BY DEF DeliveredSent
  <1>2. p.seq \in Int /\ conns[p.conn].in \in Int /\ conns'[p.conn].in \in Int
    <2>1. p.seq \in Nat
      BY DEF DownPkt
    <2>2. conns[p.conn].in \in Nat
      BY <1>1, ConnFields DEF IInv, DialerInv, DialerTypeOK
    <2>3. conns'[p.conn].in \in Nat
      <3>1. PICK s \in Seq(Conn) : s = conns'
        BY DEF IInv, DialerInv, DialerTypeOK
      <3>2. s[p.conn] \in Conn
        BY <1>1, <3>1
      <3> QED
        BY <3>1, <3>2 DEF Conn
    <2> QED
      BY <2>1, <2>2, <2>3
  <1>3. conns[p.conn].in <= conns'[p.conn].in
    BY <1>1
  <1> QED
    BY <1>1, <1>2, <1>3

LEMMA CallSent ==
  ASSUME IInv, IInv', OrderInv, DownInv, DeliveredSent, ReceiveCall
  PROVE  DeliveredSent'
  <1>0. UNCHANGED conns /\ \A d \in DOMAIN conns : conns[d].in <= conns[d].in
    <2>1. \A d \in DOMAIN conns : conns[d].in \in Nat
      BY ConnFields DEF IInv, DialerInv, DialerTypeOK
    <2> QED
      BY <2>1 DEF ReceiveCall
  <1>1. CASE UNCHANGED delivered
    BY <1>0, <1>1, SentStays
  <1>2. CASE delivered' # delivered
    <2>1. CallStep
      <3>1. rcv' = [io |-> Tail(rcv.io), sendMu |-> IF Len(rcv.io) = 1 THEN NoSession ELSE rcv.sendMu]
        BY DEF ReceiveCall
      <3>2. rcv'.io \in Seq(RcvCall)
        BY DEF IInv, ReceiverTypeOK
      <3> QED
        BY <3>1, <3>2 DEF CallStep, ReceiveCall, tableVars
    <2>2. PICK call : call = Head(rcv.io)
      OBVIOUS
    <2>3. call.op = "deliver" /\ ustate[call.user] = "open"
          /\ delivered' = [delivered EXCEPT ![call.user] = Append(@, call.pkt)]
      BY <1>2, <2>2 DEF ReceiveCall
    <2>4. PICK u, d, p : Handing(u, d, p)
      BY <2>1, <2>2, <2>3, HandingOf
    <2>5. /\ call.user = u /\ call.pkt = p /\ u \in Users /\ p \in DownPkt /\ p.conn = d
          /\ d \in DOMAIN dials /\ d \in DOMAIN conns /\ Owner(d) = u /\ d \in DOMAIN byServer
          /\ Delivering(rcv.io, d) /\ rcv.io[1].pkt = p
      <3>1. call = rcv.io[1]
        BY <2>1, <2>2 DEF CallStep, IInv, ReceiverTypeOK
      <3>2. DOMAIN conns = DOMAIN dials
        BY DomainsEqual DEF IInv, DialerInv
      <3> QED
        BY <2>3, <2>4, <3>1, <3>2 DEF Handing, Delivering
    <2>6. p.seq <= conns[d].in
      <3>1. Live(d)
        BY <2>3, <2>5 DEF Live, Routed
      <3>2. PICK lo \in Nat : Due(d, lo) /\ Feeds(d, lo)
        BY <2>5, <3>1 DEF DownInv, ConnDown, Fed
      <3>3. p.seq = NextOf(delivered[u], d)
        BY <2>3, <2>5 DEF DownInv, HandedInv, DeliversNext
      <3>4. lo = p.seq + 1
        BY <2>5, <3>2, <3>3 DEF Due
      <3>5. p.seq \in Nat /\ conns[d].in \in Nat
        BY <2>5, ConnFields DEF IInv, DialerInv, DialerTypeOK, DownPkt
      <3>6. lo <= conns[d].in + 1
        BY <3>2 DEF Feeds
      <3> QED
        BY <3>4, <3>5, <3>6
    <2>7. PICK got \in Seq(DownPkt) : got = delivered[u]
      BY <2>5 DEF IInv, ReceiverTypeOK
    <2>8. /\ delivered'[u] = Append(got, p)
          /\ \A v \in Users : v # u => delivered'[v] = delivered[v]
      BY <2>3, <2>5, <2>7 DEF IInv, ReceiverTypeOK
    <2>9. PICK now, new : now = delivered' /\ new = Append(got, p)
      OBVIOUS
    <2>10. \A k \in DOMAIN new : (k \in DOMAIN got /\ new[k] = got[k]) \/ new[k] = p
      BY <2>5, <2>9
    <2>11. \A v \in Users : \A k \in DOMAIN now[v] :
             now[v][k].conn \in DOMAIN conns /\ now[v][k].seq <= conns[now[v][k].conn].in
      <3>1. \A k \in DOMAIN new :
              new[k].conn \in DOMAIN conns /\ new[k].seq <= conns[new[k].conn].in
        BY <2>5, <2>6, <2>7, <2>10 DEF DeliveredSent
      <3> QED
        BY <2>8, <2>9, <3>1 DEF DeliveredSent
    <2> QED
      BY <1>0, <2>9, <2>11 DEF DeliveredSent
  <1> QED
    BY <1>1, <1>2

LEMMA NextSent ==
  ASSUME IInv, IInv', OrderInv, DownInv, DeliveredSent, [Next]_vars
  PROVE  DeliveredSent'
  <1>0. \A d \in DOMAIN conns : conns[d].in \in Nat
    BY ConnFields DEF IInv, DialerInv, DialerTypeOK
  <1>1. ASSUME NothingRead, UNCHANGED delivered PROVE DeliveredSent'
    BY <1>0, <1>1, SentStays DEF NothingRead
  <1>2. ASSUME NEW u \in Users, UserTraffic(u) \/ UserLoop(u) \/ UserCloses(u)
        PROVE  DeliveredSent'
    <2>1. UNCHANGED delivered
      BY <1>2 DEF UserTraffic, UserLoop, Lookup, Admit, UserCall, UserCloses
    <2> QED
      BY <1>1, <1>2, <2>1, LoopReadsNothing
  <1>3. CASE Consumer
    <2>1. CASE Receive
      <3>1. UNCHANGED delivered
        BY <2>1 DEF Receive
      <3> QED
        BY <1>1, <1>3, <3>1, ConsumerReadsNothing
    <2> QED
      BY <1>3, <2>1, CallSent DEF Consumer
  <1>4. CASE DialerSteps
    <2>1. UNCHANGED delivered
      BY <1>4 DEF DialerSteps, DialerAlone, LoopAlone
    <2>2. ASSUME NEW d, OnTraffic(d) PROVE DeliveredSent'
      <3>1. \A e \in DOMAIN conns : conns[e].in <= conns'[e].in
        BY <1>0, <2>2, TrafficReads
      <3>2. DOMAIN conns \subseteq DOMAIN conns'
        BY <2>2, TrafficReads
      <3> QED
        BY <2>1, <3>1, <3>2, SentStays
    <2> QED
      BY <1>1, <1>4, <2>1, <2>2, DialerReadsNothing, LoopAloneReadsNothing
      DEF DialerSteps, DialerAlone, LoopAlone, PeerStep
  <1>5. CASE UNCHANGED vars
    <2>1. UNCHANGED <<conns, delivered>>
      BY <1>5 DEF vars, dialerVars
    <2> QED
      BY <1>1, <2>1 DEF NothingRead
  <1> QED
    BY <1>2, <1>3, <1>4, <1>5 DEF Next

\* A user gets nothing its connections have not read.
THEOREM OnlySentDelivered == Spec => [](IInv /\ DownstreamInOrder /\ DeliveredSent)
  <1>1. Init => OrderInv /\ DownInv /\ DeliveredSent
    <2>1. Init => DeliveredSent
      BY DEF Init, DeliveredSent
    <2> QED
      BY <2>1, InitOrder, InitDown
  <1>2. IInv /\ OrderInv /\ DownInv /\ [Next]_vars => OrderInv' /\ DownInv'
    BY NextOrder, NextDown, ClientAssumption
  <1>3. IInv /\ IInv' /\ OrderInv /\ DownInv /\ DeliveredSent /\ [Next]_vars => DeliveredSent'
    BY NextSent
  <1>4. DownInv => DownstreamInOrder
    BY DownInOrder
  <1> QED
    BY <1>1, <1>2, <1>3, <1>4, ClientInvariant, PTL DEF Spec

(***************************************************************************)
(* The end of a connection                                                 *)
(*                                                                         *)
(* The Close event of a connection comes after all it has sent, so when it *)
(* is handled its user was written all there ever was.                     *)
(***************************************************************************)

\* Of no connection less is read or written than was, and a closed one stays
\* as it is.
ConnsGo ==
  \A d \in DOMAIN conns :
    /\ d \in DOMAIN conns'
    /\ conns'[d].in >= conns[d].in
    /\ conns[d].out # <<>> => conns'[d].out # <<>>
    /\ conns[d].st = "closed" => conns'[d].st = "closed" /\ conns'[d].in = conns[d].in

\* The Close of a connection is its last event.
ClosesLast == ClosesEnd(recvChan, loop.blocked, conns)

\* A step that takes, posts and opens nothing.
LEMMA EndSame ==
  ASSUME ClosesLast, ConnsGo, UNCHANGED recvChan, loop'.blocked = loop.blocked
  PROVE  ClosesLast'
  <1>1. PICK ds : ds = conns'
    OBVIOUS
  <1>2. ClosedStay(conns, ds)
    BY <1>1 DEF ConnsGo, ClosedStay
  <1>3. ClosesEnd(recvChan, loop.blocked, ds)
    BY <1>2 DEF ClosesLast, ClosesEnd, ClosedStay
  <1> QED
    BY <1>1, <1>3 DEF ClosesLast, ClosesEnd

LEMMA EndNext ==
  ASSUME NEW s, s = recvChan', NEW b, b = loop'.blocked, NEW ds, ds = conns', ClosesEnd(s, b, ds)
  PROVE  ClosesLast'
  BY DEF ClosesLast, ClosesEnd

\* A handler that posts an event of a connection that was not closed.
LEMMA PostEnds ==
  ASSUME IInv, ClosesLast, ConnsGo, loop.blocked = <<>>, NEW m \in ConnEvent, NEW failed,
         Post(m, failed), m.conn \in DOMAIN conns, conns[m.conn].st # "closed",
         m.event = "Close" => conns'[m.conn].st = "closed"
  PROVE  ClosesLast'
  <1>1. PICK r, c, ds : r = recvChan' /\ c = loop'.blocked /\ ds = conns'
    OBVIOUS
  <1>2. Posting(recvChan, loop.blocked, m, r, c)
    BY <1>1, PostIsPosting
  <1>3. ClosedStay(conns, ds)
    BY <1>1 DEF ConnsGo, ClosedStay
  <1>4. ClosesEnd(r, c, ds)
    BY <1>1, <1>2, <1>3, EventsTyped, EndPosted DEF ClosesLast
  <1> QED
    BY <1>1, <1>4, EndNext

LEMMA ConnsStay ==
  ASSUME IInv, UNCHANGED conns
  PROVE  ConnsGo
  <1>1. \A d \in DOMAIN conns : conns[d].in \in Nat
    BY ConnFields DEF IInv, DialerInv, DialerTypeOK
  <1> QED
    BY <1>1 DEF ConnsGo

\* A connection is opened or closed.
LEMMA StateGoes ==
  ASSUME IInv, NEW d \in DOMAIN conns, NEW st \in {"open", "closed"}, conns' = ConnAt(d, st),
         conns[d].st # "closed"
  PROVE  /\ ConnsGo /\ conns'[d].st = st
         /\ \A e \in DOMAIN conns : e # d => conns'[e].st = conns[e].st
  <1>1. conns \in Seq(Conn)
    BY DEF IInv, DialerInv, DialerTypeOK
  <1>2. /\ DOMAIN conns' = DOMAIN conns
        /\ conns'[d].st = st /\ conns'[d].out = conns[d].out /\ conns'[d].in = conns[d].in
        /\ \A e \in DOMAIN conns : e # d => conns'[e] = conns[e]
    BY <1>1, ConnFields, ConnUpdate DEF ConnAt
  <1>3. \A e \in DOMAIN conns : conns[e].in \in Nat
    BY <1>1, ConnFields
  <1> QED
    BY <1>2, <1>3 DEF ConnsGo

\* The loop closes a connection and says so.
LEMMA CloseGoes ==
  ASSUME IInv, ClosesLast, NEW d \in DOMAIN conns, conns[d].st # "closed", loop.blocked = <<>>,
         conns' = ConnAt(d, "closed"), NEW failed, Post(CloseMsg(d), failed)
  PROVE  /\ ConnsGo /\ ClosesLast'
         /\ \A e \in DOMAIN conns : e # d => conns'[e].st = conns[e].st
  <1>1. ConnsGo /\ conns'[d].st = "closed"
        /\ \A e \in DOMAIN conns : e # d => conns'[e].st = conns[e].st
    BY StateGoes
  <1>2. d \in ConnIds
    BY DomainsEqual DEF IInv, DialerInv
  <1>3. CloseMsg(d) \in ConnEvent /\ CloseMsg(d).conn = d
    BY <1>2, MessageTypes DEF CloseMsg
  <1>4. PICK m \in ConnEvent : m = CloseMsg(d) /\ m.conn = d
    BY <1>3
  <1>5. ClosesLast'
    BY <1>1, <1>4, PostEnds
  <1> QED
    BY <1>1, <1>5

\* A user that was hung up on, or is about to be, or is gone.
Told(u) ==
  \/ ustate[u] # "open"
  \/ \E i \in DOMAIN rcv.io : rcv.io[i].op = "hangup" /\ rcv.io[i].user = u

\* Only connections of such a user are asked to close.
Ended(d) == d \in DOMAIN dials /\ Told(Owner(d))

ClosesIn(s) == {s[i].conn : i \in {j \in DOMAIN s : s[j].op = "close"}}
ToClose ==
  ClosesIn(tasks) \cup ClosesIn(rcv.io) \cup UNION {ClosesIn(lp[u].io) : u \in Users}
CallsEnd == \A d \in ToClose : Ended(d)

\* A connection that closes in a step that is no close of the server's: its
\* write failed, or it was asked to.
ClosesWhy ==
  \A d \in DOMAIN conns :
    conns[d].st # "closed" /\ conns'[d].st = "closed" =>
      loop'.failed # NoConn \/ Told(Owner(d))

EndStep == ConnsGo /\ ClosesLast' /\ ClosesWhy

LEMMA NothingEnds ==
  ASSUME IInv, ClosesLast, UNCHANGED <<conns, recvChan>>, loop'.blocked = loop.blocked
  PROVE  EndStep
  <1>1. ConnsGo
    BY ConnsStay
  <1>2. ClosesLast'
    BY <1>1, EndSame
  <1>3. ClosesWhy
    BY DEF ClosesWhy
  <1> QED
    BY <1>1, <1>2, <1>3 DEF EndStep

LEMMA UnblocksEnd ==
  ASSUME IInv, DownInv, ClosesLast, LoopUnblocks
  PROVE  EndStep
  <1>1. PICK b \in Seq(ConnEvent) : b = loop.blocked /\ b # <<>> /\ Len(b) <= 1
    <2>1. loop.blocked # <<>> /\ Len(loop.blocked) <= 1
      BY DEF LoopUnblocks, DownInv, EventsWellFormed
    <2>2. loop.blocked \in Seq(ConnEvent)
      BY EventsTyped
    <2> QED
      BY <2>1, <2>2
  <1>2. PICK m \in ConnEvent : b = <<m>> /\ m = Head(b)
    <2>1. PICK n : n = Len(b)
      OBVIOUS
    <2>2. n \in Nat /\ n # 0 /\ n <= 1
      BY <1>1, <2>1, EmptySeq
    <2>3. n = 1
      BY <2>2
    <2>4. Len(b) = 1
      BY <2>1, <2>3
    <2>5. DOMAIN b = {1}
      BY <2>4
    <2>6. b[1] \in ConnEvent
      BY <2>5
    <2>7. Head(b) = b[1] /\ b = <<b[1]>>
      BY <2>4, <2>6
    <2> QED
      BY <2>6, <2>7
  <1>3. recvChan' = Append(recvChan, m) /\ loop'.blocked = <<>> /\ UNCHANGED conns
    BY <1>1, <1>2 DEF LoopUnblocks
  <1>4. PICK r, c, ds : r = recvChan' /\ c = loop'.blocked /\ ds = conns'
    OBVIOUS
  <1>5. ClosesEnd(recvChan, <<m>>, conns)
    BY <1>1, <1>2 DEF ClosesLast
  <1>6. ClosesEnd(Append(recvChan, m), <<>>, conns)
    BY <1>5, EventsTyped, EndUnblocked
  <1>7. ClosesEnd(r, c, ds)
    BY <1>3, <1>4, <1>6
  <1>8. ClosesLast'
    BY <1>4, <1>7, EndNext
  <1> QED
    BY <1>3, <1>8, ConnsStay DEF EndStep, ClosesWhy

LEMMA WriteGoes ==
  ASSUME IInv, NEW d \in DOMAIN conns, NEW p \in Packet, conns' = ConnWritten(d, p)
  PROVE  ConnsGo /\ \A e \in DOMAIN conns : conns'[e].st = conns[e].st
  <1>1. conns \in Seq(Conn)
    BY DEF IInv, DialerInv, DialerTypeOK
  <1>2. PICK o \in Seq(Packet) : o = conns[d].out
    BY <1>1, ConnFields
  <1>3. Append(o, p) \in Seq(Packet) /\ Append(o, p) # <<>>
    OBVIOUS
  <1>4. /\ DOMAIN conns' = DOMAIN conns
        /\ conns'[d].st = conns[d].st /\ conns'[d].out = Append(o, p) /\ conns'[d].in = conns[d].in
        /\ \A e \in DOMAIN conns : e # d => conns'[e] = conns[e]
    BY <1>1, <1>2, <1>3, ConnFields, ConnUpdate DEF ConnWritten
  <1>5. \A e \in DOMAIN conns : conns[e].in \in Nat
    BY <1>1, ConnFields
  <1> QED
    BY <1>3, <1>4, <1>5 DEF ConnsGo

LEMMA RunWriteEnds ==
  ASSUME IInv, OrderInv, ClosesLast, RunWrite
  PROVE  EndStep
  <1>1. PICK d, p : d = Head(tasks).conn /\ p = Head(tasks).payload
    OBVIOUS
  <1>2. /\ loop.blocked = <<>> /\ tasks \in Seq(Task) /\ tasks # <<>>
        /\ Head(tasks).op = "write" /\ DOMAIN conns = DOMAIN dials
    BY DomainsEqual DEF RunWrite, LoopIdle, IInv, DialerInv, DialerTypeOK
  <1>3. Head(tasks) = tasks[1] /\ 1 \in DOMAIN tasks /\ Head(tasks) \in Task
    BY <1>2
  <1>4. d \in DOMAIN conns
    BY <1>1, <1>2, <1>3 DEF OrderInv, OwnInv, TasksOwn
  <1>5. p \in Packet
    BY <1>1, <1>2, <1>3, TaskFields
  <1>6. CASE conns' = ConnWritten(d, p) /\ UNCHANGED <<loop, recvChan>>
    <2>1. ConnsGo /\ \A e \in DOMAIN conns : conns'[e].st = conns[e].st
      BY <1>4, <1>5, <1>6, WriteGoes
    <2>2. ClosesLast'
      BY <1>6, <2>1, EndSame
    <2> QED
      BY <2>1, <2>2 DEF EndStep, ClosesWhy
  <1>7. CASE conns[d].st = "open" /\ conns' = ConnAt(d, "closed") /\ Post(CloseMsg(d), d)
    <2>1. ConnsGo /\ ClosesLast'
      BY <1>2, <1>4, <1>7, CloseGoes
    <2>2. loop'.failed = d
      BY <1>7 DEF Post
    <2>3. d # NoConn
      BY <1>2, <1>4, DomainsEqual DEF IInv, DialerInv
    <2> QED
      BY <2>1, <2>2, <2>3 DEF EndStep, ClosesWhy
  <1>8. CASE loop' = [blocked |-> <<>>, failed |-> d] /\ UNCHANGED <<conns, recvChan>>
    <2>1. loop'.blocked = loop.blocked
      BY <1>2, <1>8
    <2> QED
      BY <1>8, <2>1, NothingEnds
  <1> QED
    BY <1>1, <1>6, <1>7, <1>8 DEF RunWrite

LEMMA RunCloseEnds ==
  ASSUME IInv, CallsEnd, ClosesLast, RunClose
  PROVE  EndStep
  <1>1. PICK d : d = Head(tasks).conn
    OBVIOUS
  <1>2. /\ loop.blocked = <<>> /\ tasks \in Seq(Task) /\ tasks # <<>>
        /\ Head(tasks).op = "close" /\ DOMAIN conns = DOMAIN dials
    BY DomainsEqual DEF RunClose, LoopIdle, IInv, DialerInv, DialerTypeOK
  <1>3. Head(tasks) = tasks[1] /\ 1 \in DOMAIN tasks
    BY <1>2
  <1>4. Ended(d)
    <2>1. d \in ClosesIn(tasks)
      BY <1>1, <1>2, <1>3 DEF ClosesIn
    <2> QED
      BY <2>1 DEF CallsEnd, ToClose
  <1>5. d \in DOMAIN conns /\ Told(Owner(d))
    BY <1>2, <1>4 DEF Ended
  <1>6. CASE conns[d].st = "open" /\ conns' = ConnAt(d, "closed") /\ Post(CloseMsg(d), NoConn)
    <2>1. ConnsGo /\ ClosesLast' /\ \A e \in DOMAIN conns : e # d => conns'[e].st = conns[e].st
      BY <1>2, <1>5, <1>6, CloseGoes
    <2> QED
      BY <1>5, <2>1 DEF EndStep, ClosesWhy
  <1>7. CASE UNCHANGED <<conns, loop, recvChan>>
    BY <1>7, NothingEnds
  <1> QED
    BY <1>1, <1>6, <1>7 DEF RunClose

LEMMA LoopEnds ==
  ASSUME IInv, OrderInv, DownInv, CallsEnd, ClosesLast, LoopStep \/ WriteErrorDone(<<>>)
  PROVE  EndStep
  <1>1. CASE WriteErrorDone(<<>>)
    <2>1. UNCHANGED <<conns, recvChan>> /\ loop'.blocked = loop.blocked
      BY <1>1 DEF WriteErrorDone
    <2> QED
      BY <2>1, NothingEnds
  <1> QED
    BY <1>1, UnblocksEnd, RunWriteEnds, RunCloseEnds DEF LoopStep

LEMMA OpenEnds ==
  ASSUME IInv, ClosesLast, NEW d, OnOpenPosted(d)
  PROVE  EndStep
  <1>1. /\ loop.blocked = <<>> /\ d \in DOMAIN dials /\ DOMAIN conns = DOMAIN dials
        /\ d \in ConnIds /\ conns[d].st = "new"
        /\ conns' = ConnAt(d, "open") /\ Post(OpenMsg(d), NoConn)
    BY DomainsEqual DEF OnOpenPosted, LoopIdle, IInv, DialerInv, DialsAgree
  <1>2. /\ ConnsGo /\ conns'[d].st = "open"
        /\ \A e \in DOMAIN conns : e # d => conns'[e].st = conns[e].st
    BY <1>1, StateGoes
  <1>3. PICK m \in ConnEvent : m = OpenMsg(d) /\ m.conn = d /\ m.event = "Open"
    BY <1>1, MessageTypes
  <1>4. ClosesLast'
    BY <1>1, <1>2, <1>3, PostEnds
  <1> QED
    BY <1>2, <1>4 DEF EndStep, ClosesWhy

LEMMA DialEnds ==
  ASSUME ClientAssumption, IInv, ClosesLast, NEW d \in DOMAIN dials, DialStep(d)
  PROVE  EndStep
  <1>1. /\ UNCHANGED <<conns, loop>>
        /\ \/ recvChan' = recvChan
           \/ dials[d].pc = "failed" /\ recvChan' = Append(recvChan, DialErrorMsg(d))
    BY DEF DialStep, AcquireSem, DialFinishes, DialReports, ClientAssumption
  <1>2. CASE recvChan' = recvChan
    BY <1>1, <1>2, NothingEnds
  <1>3. CASE dials[d].pc = "failed" /\ recvChan' = Append(recvChan, DialErrorMsg(d))
    <2>1. d \in ConnIds /\ conns[d].st = "new"
      BY <1>3, DomainsEqual DEF IInv, DialerInv, DialsAgree
    <2>2. PICK m \in ConnEvent : m = DialErrorMsg(d) /\ m.conn = d /\ m.event = "DialError"
      BY <2>1, MessageTypes
    <2>3. PICK r, c, ds : r = recvChan' /\ c = loop'.blocked /\ ds = conns'
      OBVIOUS
    <2>4. ClosedStay(conns, conns)
      BY DEF ClosedStay
    <2>5. ClosesEnd(Append(recvChan, m), loop.blocked, conns)
      BY <2>1, <2>2, <2>4, EventsTyped, EndAppended DEF ClosesLast
    <2>6. ClosesEnd(r, c, ds)
      BY <1>1, <1>3, <2>2, <2>3, <2>5
    <2>7. ClosesLast'
      BY <2>3, <2>6, EndNext
    <2> QED
      BY <1>1, <2>7, ConnsStay DEF EndStep, ClosesWhy
  <1> QED
    BY <1>1, <1>2, <1>3

LEMMA TrafficEnds ==
  ASSUME IInv, ClosesLast, NEW d, OnTraffic(d)
  PROVE  EndStep
  <1>1. PICK p : p = [conn |-> d, seq |-> conns[d].in + 1]
    OBVIOUS
  <1>2. /\ loop.blocked = <<>> /\ conns \in Seq(Conn) /\ d \in DOMAIN conns /\ d \in ConnIds
        /\ conns[d].in \in Nat /\ conns[d].st = "open" /\ conns' = ConnRead(d)
        /\ Post(DataMsg(d, <<p>>), NoConn)
    BY <1>1, DomainsEqual, ConnFields DEF OnTraffic, LoopIdle, IInv, DialerInv, DialerTypeOK
  <1>3. conns[d].in + 1 \in Nat /\ conns[d].in + 1 >= conns[d].in
    BY <1>2
  <1>4. /\ DOMAIN conns' = DOMAIN conns
        /\ conns'[d].st = "open" /\ conns'[d].out = conns[d].out /\ conns'[d].in = conns[d].in + 1
        /\ \A e \in DOMAIN conns : e # d => conns'[e] = conns[e]
    BY <1>2, <1>3, ConnFields, ConnUpdate DEF ConnRead
  <1>5. \A e \in DOMAIN conns : conns[e].in \in Nat
    BY <1>2, ConnFields
  <1>6. ConnsGo
    BY <1>2, <1>3, <1>4, <1>5 DEF ConnsGo
  <1>7. PICK m \in ConnEvent : m = DataMsg(d, <<p>>) /\ m.conn = d /\ m.event = "Data"
    <2>1. p \in DownPkt
      BY <1>1, <1>2, <1>3 DEF DownPkt
    <2>2. DataMsg(d, <<p>>) \in ConnEvent
      BY <1>2, <2>1, DataType
    <2> QED
      BY <2>2 DEF DataMsg
  <1>8. ClosesLast'
    BY <1>2, <1>6, <1>7, PostEnds
  <1> QED
    BY <1>4, <1>6, <1>8 DEF EndStep, ClosesWhy

\* The server closes d.
LEMMA PeerEnds ==
  ASSUME IInv, ClosesLast, NEW d, PeerCloses(d)
  PROVE  /\ ConnsGo /\ ClosesLast' /\ d \in DOMAIN conns
         /\ \A e \in DOMAIN conns : e # d => conns'[e].st = conns[e].st
  BY CloseGoes DEF PeerCloses, LoopIdle

LEMMA UserEnds ==
  ASSUME IInv, ClosesLast, NEW u \in Users, UserTraffic(u) \/ UserLoop(u) \/ UserCloses(u)
  PROVE  EndStep
  <1>1. ASSUME NEW token, AsyncDial(token) PROVE EndStep
    <2>1. PICK s \in Seq(Conn) : s = conns
      BY DEF IInv, DialerInv, DialerTypeOK
    <2>2. conns' = Append(s, NewConn) /\ UNCHANGED <<loop, recvChan>>
      BY <1>1, <2>1 DEF AsyncDial
    <2>3. PICK w : w = NewConn
      OBVIOUS
    <2>4. DOMAIN s \subseteq DOMAIN conns' /\ \A d \in DOMAIN s : conns'[d] = s[d]
      BY <2>1, <2>2, <2>3
    <2>5. \A d \in DOMAIN conns : conns[d].in \in Nat
      BY ConnFields DEF IInv, DialerInv, DialerTypeOK
    <2>6. ConnsGo
      BY <2>1, <2>4, <2>5 DEF ConnsGo
    <2>7. ClosesLast'
      BY <2>2, <2>6, EndSame
    <2>8. ClosesWhy
      BY <2>1, <2>4 DEF ClosesWhy
    <2> QED
      BY <2>6, <2>7, <2>8 DEF EndStep
  <1>2. CASE UNCHANGED <<conns, recvChan, loop>>
    BY <1>2, NothingEnds
  <1>3. UNCHANGED <<conns, recvChan, loop>> \/ \E token : AsyncDial(token)
    BY DEF UserTraffic, UserLoop, Lookup, Admit, UserCall, UserCloses, dialerVars
  <1> QED
    BY <1>1, <1>2, <1>3

LEMMA ConsumerEnds ==
  ASSUME IInv, ClosesLast, Consumer
  PROVE  EndStep
  <1>1. CASE ReceiveCall
    BY <1>1, NothingEnds DEF ReceiveCall
  <1>2. CASE Receive
    <2>1. recvChan # <<>> /\ recvChan' = Tail(recvChan) /\ UNCHANGED <<conns, loop>>
      BY <1>2 DEF Receive
    <2>2. PICK r, c, ds : r = recvChan' /\ c = loop'.blocked /\ ds = conns'
      OBVIOUS
    <2>3. ClosesEnd(Tail(recvChan), loop.blocked, conns)
      BY <2>1, EventsTyped, EndTaken DEF ClosesLast
    <2>4. ClosesEnd(r, c, ds)
      BY <2>1, <2>2, <2>3
    <2>5. ClosesLast'
      BY <2>2, <2>4, EndNext
    <2> QED
      BY <2>1, <2>5, ConnsStay DEF EndStep, ClosesWhy
  <1> QED
    BY <1>1, <1>2 DEF Consumer

\* Every step.
LEMMA NextEnds ==
  ASSUME ClientAssumption, IInv, OrderInv, DownInv, CallsEnd, ClosesLast, [Next]_vars
  PROVE  ConnsGo /\ ClosesLast'
  <1>1. CASE UNCHANGED vars
    <2>1. UNCHANGED <<conns, recvChan, loop>>
      BY <1>1 DEF vars, dialerVars
    <2> QED
      BY <2>1, NothingEnds DEF EndStep
  <1>2. CASE DialerSteps
    BY <1>2, LoopEnds, OpenEnds, DialEnds, TrafficEnds, PeerEnds
    DEF DialerSteps, DialerAlone, LoopAlone, PeerStep, EndStep
  <1> QED
    BY <1>1, <1>2, UserEnds, ConsumerEnds DEF Next, EndStep

\* The dial of connection d failed.
Failed(d) == dials[d].pc = "done" /\ conns[d].st = "new"

\* A dial is for the session its user has, or failed, or the user is told.
DialsOwned == \A d \in DOMAIN dials : Current(dials[d].token) \/ Failed(d) \/ Told(Owner(d))

\* The dial a loop owes is for the session its user has.
OwedCurrent == \A u \in Users : Owes(u) => u \in DOMAIN byUser /\ byUser[u] = OwedFor(u)

CallsInv == CallsEnd /\ DialsOwned /\ OwedCurrent
EndInv == ClosesLast /\ CallsInv

(***************************************************************************)
(* What stays                                                              *)
(***************************************************************************)
LEMMA NextDialsKept ==
  ASSUME ClientAssumption, IInv, [Next]_vars
  PROVE  DialsKept
  <1>1. CASE UNCHANGED <<dials, conns>>
    BY <1>1 DEF DialsKept
  <1>2. ASSUME NEW u \in Users, UserTraffic(u) \/ UserLoop(u) \/ UserCloses(u)
        PROVE  DialsKept
    <2>1. CASE UNCHANGED <<dials, conns>>
      BY <1>1, <2>1
    <2>2. CASE UserCall(u) /\ AsyncDial(Head(lp[u].io).token) /\ Head(lp[u].io).op = "dial"
      <3>1. Head(lp[u].io) \in LoopCall
        <4>1. lp[u].io \in Seq(LoopCall) /\ Len(lp[u].io) = 1
          BY <2>2 DEF UserCall, IInv, LoopInv, UserTypeOK, UserLoopState, CallsFresh
        <4> QED
          BY <4>1
      <3>2. Head(lp[u].io).token \in Token
        BY <2>2, <3>1, LoopCallFields
      <3> QED
        BY <2>2, <3>2, AsyncDialOK DEF IInv
    <2> QED
      BY <1>2, <2>1, <2>2 DEF UserTraffic, UserLoop, Lookup, Admit, UserCall, UserCloses, dialerVars
  <1>3. CASE Consumer
    BY <1>1, <1>3 DEF Consumer, Receive, ReceiveCall
  <1>4. CASE DialerSteps
    BY <1>4, DialerStepsOK DEF DialerStepOK
  <1>5. CASE UNCHANGED vars
    BY <1>1, <1>5 DEF vars, dialerVars
  <1> QED
    BY <1>2, <1>3, <1>4, <1>5 DEF Next

\* A user that was told stays so.
LEMMA ToldStays ==
  ASSUME IInv, [Next]_vars, NEW v \in Users, Told(v)
  PROVE  Told(v)'
  <1>1. CASE UNCHANGED <<ustate, rcv>>
    BY <1>1 DEF Told
  <1>2. ASSUME ustate[v] # "open", ustate'[v] # "open"
        PROVE  Told(v)'
    BY <1>2 DEF Told
  <1>3. ASSUME NEW u \in Users, UserTraffic(u) \/ UserLoop(u) \/ UserCloses(u)
        PROVE  Told(v)'
    <2>1. CASE UserCloses(u)
      <3>1. UNCHANGED rcv /\ (ustate'[v] = ustate[v] \/ ustate'[v] = "closed")
        BY <2>1 DEF UserCloses, IInv, LoopInv, UserTypeOK
      <3> QED
        BY <3>1 DEF Told
    <2> QED
      BY <1>1, <1>3, <2>1 DEF UserTraffic, UserLoop, Lookup, Admit, UserCall
  <1>4. CASE Receive
    <2>1. rcv.io = <<>> /\ UNCHANGED ustate
      BY <1>4 DEF Receive, RcvIdle, userVars
    <2> QED
      BY <1>2, <2>1 DEF Told
  <1>5. CASE ReceiveCall
    <2>1. PICK io, call : io = rcv.io /\ call = Head(rcv.io)
      OBVIOUS
    <2>2. io \in Seq(RcvCall) /\ io # <<>> /\ rcv'.io = Tail(io)
      BY <1>5, <2>1 DEF ReceiveCall, IInv, ReceiverTypeOK
    <2>3. ustate[v] # "open" => ustate'[v] # "open"
      BY <1>5 DEF ReceiveCall, IInv, LoopInv, UserTypeOK
    <2>4. call.op = "hangup" /\ call.user = v => ustate'[v] # "open"
      BY <1>5, <2>1 DEF ReceiveCall, IInv, LoopInv, UserTypeOK
    <2>5. ASSUME NEW i \in DOMAIN io, io[i].op = "hangup", io[i].user = v
          PROVE  Told(v)'
      <3>1. CASE i = 1
        <4>1. call = io[1]
          BY <2>1, <2>2
        <4> QED
          BY <2>4, <2>5, <3>1, <4>1 DEF Told
      <3>2. CASE i # 1
        <4>1. i - 1 \in DOMAIN Tail(io) /\ Tail(io)[i - 1] = io[i]
          BY <2>2, <3>2
        <4> QED
          BY <2>2, <2>5, <4>1 DEF Told
      <3> QED
        BY <3>1, <3>2
    <2> QED
      BY <1>2, <2>1, <2>3, <2>5 DEF Told
  <1>6. CASE DialerSteps
    BY <1>1, <1>6 DEF DialerSteps, DialerAlone, LoopAlone, userVars
  <1>7. CASE UNCHANGED vars
    BY <1>1, <1>7 DEF vars, userVars
  <1> QED
    BY <1>3, <1>4, <1>5, <1>6, <1>7 DEF Next, Consumer

\* So are the owners of connections asked to close.
EndedStay == \A d : Ended(d) => Ended(d)'

LEMMA NextEndedStay ==
  ASSUME ClientAssumption, IInv, [Next]_vars
  PROVE  EndedStay
  <1> SUFFICES ASSUME NEW d, Ended(d)
               PROVE  Ended(d)'
    BY DEF EndedStay
  <1>1. d \in DOMAIN dials' /\ Owner(d)' = Owner(d)
    BY NextDialsKept, TokensSame DEF DialsKept, Ended
  <1>2. Owner(d) \in Users
    BY Numbered DEF Ended
  <1>3. PICK u \in Users : u = Owner(d)
    BY <1>2
  <1>4. Told(u)'
    BY <1>3, ToldStays DEF Ended
  <1> QED
    BY <1>1, <1>3, <1>4 DEF Ended, Told

\* Every new call to close is of such a connection.
LEMMA CallsStillEnd ==
  ASSUME CallsEnd, EndedStay, \A d \in ToClose' : d \in ToClose \/ Ended(d)'
  PROVE  CallsEnd'
  BY DEF CallsEnd, EndedStay

\* The dial of d is for the session its user has after the step.
CurrentNext(d) == Owner(d) \in DOMAIN byUser' /\ byUser'[Owner(d)] = SessionOf(d)

LEMMA DialsStillOwned ==
  ASSUME IInv, DialsOwned, DialsKept,
         \A u \in Users : Told(u) => Told(u)',
         \A d \in DOMAIN dials :
           Current(dials[d].token) => CurrentNext(d) \/ Failed(d) \/ Told(Owner(d))',
         \A d \in DOMAIN dials' \ DOMAIN dials : Current(dials[d].token)'
  PROVE  DialsOwned'
  <1> SUFFICES ASSUME NEW d \in DOMAIN dials'
               PROVE  (Current(dials[d].token) \/ Failed(d) \/ Told(Owner(d)))'
    BY DEF DialsOwned
  <1>1. CASE d \notin DOMAIN dials
    BY <1>1
  <1>2. CASE d \in DOMAIN dials
    <2>1. /\ dials'[d].token = dials[d].token
          /\ Failed(d) => Failed(d)'
      BY <1>2 DEF DialsKept, Failed
    <2>2. Owner(d) \in Users /\ Owner(d)' = Owner(d)
      BY <1>2, <2>1, Numbered DEF Owner
    <2>3. CurrentNext(d) => Current(dials[d].token)'
      BY <2>1 DEF CurrentNext, Current, Owner, SessionOf
    <2>4. PICK u \in Users : u = Owner(d)
      BY <2>2
    <2>5. Told(Owner(d))' <=> Told(u)'
      BY <2>2, <2>4 DEF Told
    <2>6. Current(dials[d].token) \/ Failed(d) \/ Told(u)
      BY <1>2, <2>4 DEF DialsOwned
    <2> QED
      BY <1>2, <2>1, <2>3, <2>4, <2>5, <2>6
  <1> QED
    BY <1>1, <1>2

\* What holds after every step.
Stays == DialsKept /\ EndedStay /\ \A v \in Users : Told(v) => Told(v)'

LEMMA NextStays ==
  ASSUME ClientAssumption, IInv, [Next]_vars
  PROVE  Stays
  BY NextDialsKept, NextEndedStay, ToldStays DEF Stays

\* A step that asks no new connection to close, starts no dial and leaves the
\* users their sessions.
LEMMA EndsSame ==
  ASSUME IInv, CallsInv, Stays, DOMAIN dials' = DOMAIN dials, UNCHANGED byUser,
         \A d \in ToClose' : d \in ToClose \/ Ended(d)',
         \A u \in Users : Owes(u)' => Owes(u) /\ lp'[u].io = lp[u].io
  PROVE  CallsInv'
  <1>1. CallsEnd'
    BY CallsStillEnd DEF CallsInv, Stays
  <1>2. \A d \in DOMAIN dials : Current(dials[d].token) => CurrentNext(d)
    BY DEF Current, CurrentNext, Owner, SessionOf
  <1>3. DialsOwned'
    BY <1>2, DialsStillOwned DEF CallsInv, Stays
  <1>4. OwedCurrent'
    BY DEF CallsInv, OwedCurrent, OwedFor
  <1> QED
    BY <1>1, <1>3, <1>4 DEF CallsInv

(***************************************************************************)
(* The users                                                               *)
(***************************************************************************)

LEMMA ClosesAre ==
  ASSUME NEW s, NEW d
  PROVE  d \in ClosesIn(s) <=> \E i \in DOMAIN s : s[i].op = "close" /\ s[i].conn = d
  BY DEF ClosesIn

LEMMA UserSources ==
  ASSUME UNCHANGED <<tasks, rcv>>, NEW u \in Users, \A v \in Users : v # u => lp'[v] = lp[v],
         NEW io, lp'[u].io = io, NEW d \in ToClose', d \notin ClosesIn(io)
  PROVE  d \in ToClose
  <1>1. \/ d \in ClosesIn(tasks) \/ d \in ClosesIn(rcv.io)
        \/ \E v \in Users : v # u /\ d \in ClosesIn(lp[v].io)
    BY DEF ToClose, ClosesIn
  <1> QED
    BY <1>1 DEF ToClose

LEMMA ReadEnds ==
  ASSUME IInv, CallsInv, Stays, NEW u \in Users, UserTraffic(u) \/ Lookup(u)
  PROVE  CallsInv'
  <1>0. lp \in [Users -> UserLoopState]
    BY DEF IInv, LoopInv, UserTypeOK
  <1>1. UNCHANGED <<dialerVars, tableVars, ustate, rcv, delivered>>
    BY DEF UserTraffic, Lookup
  <1>2. UNCHANGED <<dials, tasks, rcv, byUser>>
    BY <1>1 DEF dialerVars, tableVars
  <1>3. lp[u].io = <<>>
    BY DEF UserTraffic, Lookup, IInv, LoopInv, CallsFresh
  <1>4. /\ lp'[u].pc # "io" /\ lp'[u].io = <<>>
        /\ \A v \in Users : v # u => lp'[v] = lp[v]
    <2>1. CASE lp' = [lp EXCEPT ![u].pc = "lookup"]
      BY <1>0, <1>3, <2>1 DEF UserLoopState
    <2>2. CASE lp' = [lp EXCEPT ![u].pc = "idle"]
      BY <1>0, <1>3, <2>2 DEF UserLoopState
    <2>3. CASE lp' = [lp EXCEPT ![u].pc = "reject"]
      BY <1>0, <1>3, <2>3 DEF UserLoopState
    <2>4. ASSUME NEW b, lp' = [lp EXCEPT ![u] = [pc |-> "admit", cached |-> b, io |-> <<>>]]
          PROVE  /\ lp'[u].pc # "io" /\ lp'[u].io = <<>>
                 /\ \A v \in Users : v # u => lp'[v] = lp[v]
      BY <1>0, <2>4 DEF UserLoopState
    <2> QED
      BY <2>1, <2>2, <2>3, <2>4
      DEF UserTraffic, Lookup, LookupCached, LookupRequest, LookupHandshake, LookupRejected,
          Take, MarshalFails
  <1>5. \A d : d \notin ClosesIn(<<>>)
    BY DEF ClosesIn
  <1>6. \A d \in ToClose' : d \in ToClose
    BY <1>2, <1>4, <1>5, UserSources
  <1>7. \A v \in Users : Owes(v)' => Owes(v) /\ lp'[v].io = lp[v].io
    BY <1>4 DEF Owes
  <1> QED
    BY <1>2, <1>6, <1>7, EndsSame

LEMMA AdmitMoreEnds ==
  ASSUME IInv, CallsInv, Stays, NEW u \in Users, AdmitQueued(u) \/ AdmitForward(u),
         lp[u].pc = "admit", UNCHANGED <<dialerVars, ustate, rcv>>
  PROVE  CallsInv'
  <1>0. lp \in [Users -> UserLoopState] /\ lp[u].io = <<>>
    BY DEF IInv, LoopInv, UserTypeOK, CallsFresh
  <1>1. UNCHANGED <<dials, tasks, rcv, byUser>>
    BY DEF dialerVars, AdmitQueued, AdmitForward
  <1>2. PICK io : /\ lp'[u].io = io /\ ~Owes(u)' /\ \A d : d \notin ClosesIn(io)
                  /\ \A v \in Users : v # u => lp'[v] = lp[v]
    <2>1. CASE AdmitQueued(u)
      <3>1. lp'[u].io = <<>> /\ ~Owes(u)' /\ \A v \in Users : v # u => lp'[v] = lp[v]
        BY <1>0, <2>1 DEF AdmitQueued, UserLoopState, Owes, Again
      <3> QED
        BY <3>1 DEF ClosesIn
    <2>2. CASE AdmitForward(u)
      <3>1. PICK call : call = SendCall(sess[byUser[u]].serverConn, Pkt(u), byUser[u])
        OBVIOUS
      <3>2. PICK io : io = <<call>>
        OBVIOUS
      <3>3. call.op = "send" /\ Head(io).op = "send" /\ \A i \in DOMAIN io : io[i].op = "send"
        BY <3>1, <3>2 DEF SendCall
      <3>4. lp' = [lp EXCEPT ![u].pc = "io", ![u].io = io]
        BY <2>2, <3>1, <3>2 DEF AdmitForward
      <3>5. lp'[u].io = io /\ ~Owes(u)' /\ \A v \in Users : v # u => lp'[v] = lp[v]
        BY <1>0, <3>3, <3>4 DEF UserLoopState, Owes
      <3> QED
        BY <3>3, <3>5 DEF ClosesIn
    <2> QED
      BY <2>1, <2>2
  <1>3. \A d \in ToClose' : d \in ToClose
    BY <1>1, <1>2, UserSources
  <1>4. \A v \in Users : Owes(v)' => Owes(v) /\ lp'[v].io = lp[v].io
    BY <1>2 DEF Owes
  <1> QED
    BY <1>1, <1>3, <1>4, EndsSame

\* The new session is current, and its dial is owed.
LEMMA AdmitDialEnds ==
  ASSUME IInv, CallsInv, Stays, NEW u \in Users, AdmitDial(u),
         lp[u].pc = "admit", UNCHANGED <<dialerVars, ustate, rcv>>
  PROVE  CallsInv'
  <1>1. PICK n : n = Len(sess) + 1
    OBVIOUS
  <1>2. PICK call : call = DialCall(u, n)
    OBVIOUS
  <1>3. PICK io : io = <<call>>
    OBVIOUS
  <1>4. /\ Head(io).op = "dial" /\ Head(io).token.session = n
        /\ \A i \in DOMAIN io : io[i].op = "dial"
    BY <1>2, <1>3 DEF DialCall
  <1>5. /\ lp' = [lp EXCEPT ![u].pc = "io", ![u].io = io] /\ byUser' = Put(byUser, u, n)
        /\ UNCHANGED <<dials, tasks, rcv>> /\ u \notin DOMAIN byUser
    BY <1>1, <1>2, <1>3 DEF AdmitDial, dialerVars
  <1>6. /\ lp'[u].pc = "io" /\ lp'[u].io = io
        /\ \A v \in Users : v # u => lp'[v] = lp[v]
    BY <1>5 DEF IInv, LoopInv, UserTypeOK, UserLoopState
  <1>7. /\ DOMAIN byUser' = DOMAIN byUser \cup {u} /\ byUser'[u] = n
        /\ \A v \in DOMAIN byUser : byUser'[v] = byUser[v]
    BY <1>5 DEF Put
  <1>8. CallsEnd'
    <2>1. \A d : d \notin ClosesIn(io)
      BY <1>4 DEF ClosesIn
    <2>2. \A d \in ToClose' : d \in ToClose
      BY <1>5, <1>6, <2>1, UserSources
    <2> QED
      BY <2>2, CallsStillEnd DEF CallsInv, Stays
  <1>9. DialsOwned'
    <2>1. \A d \in DOMAIN dials : Current(dials[d].token) => CurrentNext(d)
      BY <1>7 DEF Current, CurrentNext, Owner, SessionOf
    <2> QED
      BY <1>5, <2>1, DialsStillOwned DEF CallsInv, Stays
  <1>10. OwedCurrent'
    <2> SUFFICES ASSUME NEW v \in Users, Owes(v)'
                 PROVE  v \in DOMAIN byUser' /\ byUser'[v] = OwedFor(v)'
      BY DEF OwedCurrent
    <2>1. CASE v = u
      BY <1>4, <1>6, <1>7, <2>1 DEF OwedFor
    <2>2. CASE v # u
      <3>1. Owes(v) /\ OwedFor(v)' = OwedFor(v)
        BY <1>6, <2>2 DEF Owes, OwedFor
      <3> QED
        BY <1>7, <3>1 DEF CallsInv, OwedCurrent
    <2> QED
      BY <2>1, <2>2
  <1> QED
    BY <1>8, <1>9, <1>10 DEF CallsInv

\* Calls to close in a queue that one call was added to.
LEMMA AddedSources ==
  ASSUME IInv, NEW t, tasks' = Append(tasks, t), NEW d \in ClosesIn(tasks')
  PROVE  d \in ClosesIn(tasks) \/ (t.op = "close" /\ d = t.conn)
  <1>1. tasks \in Seq(Task)
    BY DEF IInv, DialerInv, DialerTypeOK
  <1>2. PICK r : r = tasks' /\ r = Append(tasks, t)
    OBVIOUS
  <1>3. \A i \in DOMAIN r : (i \in DOMAIN tasks /\ r[i] = tasks[i]) \/ r[i] = t
    BY <1>1, <1>2
  <1>4. PICK i \in DOMAIN r : r[i].op = "close" /\ d = r[i].conn
    BY <1>2 DEF ClosesIn
  <1>5. CASE r[i] = t
    BY <1>4, <1>5
  <1>6. CASE i \in DOMAIN tasks /\ r[i] = tasks[i]
    <2>1. tasks[i].op = "close" /\ d = tasks[i].conn
      BY <1>4, <1>6
    <2> QED
      BY <1>6, <2>1, ClosesAre
  <1> QED
    BY <1>3, <1>4, <1>5, <1>6

\* The loop makes its call: a close it asks for was to be asked for.
LEMMA CallSources ==
  ASSUME IInv, NEW u \in Users, UserCall(u), NEW d \in ToClose'
  PROVE  d \in ToClose
  <1>1. PICK call : call = Head(lp[u].io)
    OBVIOUS
  <1>2. /\ lp[u].io \in Seq(LoopCall) /\ Len(lp[u].io) = 1
        /\ rcv' = rcv
    BY DEF UserCall, IInv, LoopInv, UserTypeOK, UserLoopState, CallsFresh
  <1>3. call = lp[u].io[1] /\ 1 \in DOMAIN lp[u].io
    BY <1>1, <1>2
  <1>4. call.op = "close" => call.conn \in ClosesIn(lp[u].io)
    BY <1>3 DEF ClosesIn
  <1>5. lp'[u].io = <<>> /\ \A v \in Users : v # u => lp'[v] = lp[v]
    BY DEF UserCall, IInv, LoopInv, UserTypeOK, UserLoopState
  <1>6. d \in ClosesIn(tasks') => d \in ClosesIn(tasks) \/ d \in ClosesIn(lp[u].io)
    <2>1. CASE UNCHANGED tasks
      BY <2>1
    <2>2. CASE call.op = "close" /\ tasks' = Append(tasks, call)
      BY <1>4, <2>2, AddedSources
    <2>3. CASE tasks' = Append(tasks, WriteTask(call.conn, call.pkt))
      <3>1. WriteTask(call.conn, call.pkt).op # "close"
        BY DEF WriteTask
      <3> QED
        BY <2>3, <3>1, AddedSources
    <2> QED
      BY <1>1, <2>1, <2>2, <2>3 DEF UserCall, AsyncDial
  <1>7. \/ d \in ClosesIn(tasks') \/ d \in ClosesIn(rcv.io)
        \/ \E v \in Users : d \in ClosesIn(lp'[v].io)
    BY <1>2 DEF ToClose, ClosesIn
  <1>8. d \notin ClosesIn(lp'[u].io)
    BY <1>5 DEF ClosesIn
  <1>9. \A v \in Users : d \in ClosesIn(lp'[v].io) => d \in ClosesIn(lp[v].io)
    BY <1>5, <1>8
  <1> QED
    BY <1>6, <1>7, <1>9 DEF ToClose

LEMMA UserCallEnds ==
  ASSUME IInv, DownInv, CallsInv, Stays, NEW u \in Users, UserCall(u)
  PROVE  CallsInv'
  <1>1. \A d \in ToClose' : d \in ToClose
    BY CallSources
  <1>2. \A v \in Users : Owes(v)' => Owes(v) /\ lp'[v].io = lp[v].io
    BY CallMade
  <1>3. UNCHANGED byUser
    BY DEF UserCall, tableVars
  <1>4. CASE UNCHANGED dials
    BY <1>1, <1>2, <1>3, <1>4, EndsSame
  <1>5. CASE Head(lp[u].io).op = "dial" /\ AsyncDial(Head(lp[u].io).token)
    <2>1. Owes(u) /\ Head(lp[u].io).token.user = u
      BY <1>5 DEF UserCall, Owes, DownInv, DialsInOrder
    <2>2. PICK token \in Token : token = Head(lp[u].io).token
      <3>1. Head(lp[u].io) \in LoopCall
        BY <2>1, Numbered DEF Owes
      <3> QED
        BY <1>5, <3>1, LoopCallFields
    <2>3. u \in DOMAIN byUser /\ byUser[u] = token.session
      BY <2>1, <2>2 DEF CallsInv, OwedCurrent, OwedFor
    <2>4. PICK n : DOMAIN dials' = DOMAIN dials \cup {n} /\ dials'[n].token = token
      BY <1>5, <2>2, AsyncDialOK DEF IInv
    <2>5. \A d \in DOMAIN dials' \ DOMAIN dials : Current(dials[d].token)'
      BY <1>3, <2>1, <2>2, <2>3, <2>4 DEF Current
    <2>6. \A d \in DOMAIN dials : Current(dials[d].token) => CurrentNext(d)
      BY <1>3 DEF Current, CurrentNext, Owner, SessionOf
    <2>7. DialsOwned'
      BY <2>5, <2>6, DialsStillOwned DEF CallsInv, Stays
    <2>8. CallsEnd'
      BY <1>1, CallsStillEnd DEF CallsInv, Stays
    <2>9. OwedCurrent'
      BY <1>2, <1>3 DEF CallsInv, OwedCurrent, OwedFor
    <2> QED
      BY <2>7, <2>8, <2>9 DEF CallsInv
  <1> QED
    BY <1>4, <1>5 DEF UserCall

\* The user is gone: what is closed was its own.
LEMMA UserClosesEnds ==
  ASSUME IInv, OrderInv, CallsInv, Stays, NEW u \in Users, UserCloses(u)
  PROVE  CallsInv'
  <1>1. PICK io : io = Orphan(u)
    OBVIOUS
  <1>2. /\ lp' = [lp EXCEPT ![u].io = io, ![u].pc = IF io = <<>> THEN "idle" ELSE "io"]
        /\ UNCHANGED <<dials, tasks, rcv>> /\ ustate' = [ustate EXCEPT ![u] = "closed"]
        /\ byUser' = Delete(byUser, u)
    BY <1>1 DEF UserCloses, dialerVars, PurgeByUser
  <1>3. /\ lp'[u].io = io /\ \A v \in Users : v # u => lp'[v] = lp[v]
    BY <1>2 DEF IInv, LoopInv, UserTypeOK, UserLoopState
  <1>4. ustate'[u] = "closed"
    BY <1>2 DEF IInv, LoopInv, UserTypeOK
  <1>5. Told(u)'
    BY <1>4 DEF Told
  <1>6. /\ u \notin DOMAIN byUser'
        /\ \A v \in DOMAIN byUser : v # u => v \in DOMAIN byUser' /\ byUser'[v] = byUser[v]
    BY <1>2 DEF Delete
  <1>7. \A d \in ClosesIn(io) : d \in DOMAIN dials /\ Owner(d) = u
    <2>1. CASE io = <<>>
      BY <2>1 DEF ClosesIn
    <2>2. CASE /\ u \in DOMAIN byUser /\ sess[byUser[u]].serverConn # NoConn
               /\ io = <<CloseTask(sess[byUser[u]].serverConn)>>
      <3>1. PICK c : c = sess[byUser[u]].serverConn
        OBVIOUS
      <3>2. c \in DOMAIN byServer /\ byServer[c] = u
        BY <2>2, <3>1 DEF IInv, TableInv, RouteConsistent
      <3>3. c \in DOMAIN dials /\ Owner(c) = u
        BY <3>2, RoutedBound
      <3>4. \A d \in ClosesIn(io) : d = c
        BY <2>2, <3>1 DEF ClosesIn, CloseTask
      <3> QED
        BY <3>3, <3>4
    <2> QED
      BY <1>1, <2>1, <2>2 DEF Orphan
  <1>8. CallsEnd'
    <2>1. ASSUME NEW d \in ToClose' PROVE d \in ToClose \/ Ended(d)'
      <3>1. CASE d \in ClosesIn(io)
        <4>1. d \in DOMAIN dials' /\ Owner(d)' = u
          BY <1>2, <1>7, <3>1 DEF Owner
        <4> QED
          BY <1>4, <4>1 DEF Ended, Told
      <3>2. CASE d \notin ClosesIn(io)
        BY <1>2, <1>3, <3>2, UserSources
      <3> QED
        BY <3>1, <3>2
    <2> QED
      BY <2>1, CallsStillEnd DEF CallsInv, Stays
  <1>9. DialsOwned'
    <2>1. ASSUME NEW d \in DOMAIN dials, Current(dials[d].token)
          PROVE  CurrentNext(d) \/ Told(Owner(d))'
      <3>1. Owner(d)' = Owner(d)
        BY <1>2 DEF Owner
      <3>2. CASE Owner(d) = u
        BY <1>4, <3>1, <3>2 DEF Told
      <3>3. CASE Owner(d) # u
        BY <1>6, <2>1, <3>3 DEF Current, CurrentNext, Owner, SessionOf
      <3> QED
        BY <3>2, <3>3
    <2> QED
      BY <1>2, <2>1, DialsStillOwned DEF CallsInv, Stays
  <1>10. OwedCurrent'
    <2> SUFFICES ASSUME NEW v \in Users, Owes(v)'
                 PROVE  v \in DOMAIN byUser' /\ byUser'[v] = OwedFor(v)'
      BY DEF OwedCurrent
    <2>1. v # u
      BY <1>1, <1>2, <1>3 DEF Owes, Orphan, CloseTask, IInv, LoopInv, UserTypeOK, UserLoopState
    <2>2. Owes(v) /\ OwedFor(v)' = OwedFor(v)
      BY <1>3, <2>1 DEF Owes, OwedFor
    <2> QED
      BY <1>6, <2>1, <2>2 DEF CallsInv, OwedCurrent
  <1> QED
    BY <1>8, <1>9, <1>10 DEF CallsInv

(***************************************************************************)
(* The receiving goroutine and the dialer                                  *)
(***************************************************************************)
LEMMA RcvSources ==
  ASSUME UNCHANGED <<tasks, lp>>, NEW io, rcv'.io = io, NEW d \in ToClose', d \notin ClosesIn(io)
  PROVE  d \in ToClose
  BY DEF ToClose, ClosesIn

\* The connection is the route of the one user it purges.
LEMMA PurgedIs ==
  ASSUME IInv, OrderInv, NEW c, NEW u \in PurgedUser(c)
  PROVE  /\ PurgedUser(c) = {u} /\ u \in Users /\ u \in DOMAIN byUser
         /\ c \in DOMAIN dials /\ Owner(c) = u /\ Current(dials[c].token)
         /\ c \in DOMAIN byServer /\ sess[byUser[u]].serverConn = c
         /\ TellUser(PurgedUser(c)) = <<[op |-> "hangup", user |-> u]>>
  <1>1. u \in DOMAIN byUser /\ c \in DOMAIN byServer /\ byServer[c] = u /\ sess[byUser[u]].serverConn = c
    BY DEF PurgedUser
  <1>2. \A v \in PurgedUser(c) : v = u
    BY <1>1 DEF PurgedUser
  <1>3. PurgedUser(c) = {u}
    BY <1>2
  <1>4. c \in DOMAIN dials /\ byServer[c] = Owner(c) /\ byUser[Owner(c)] = SessionOf(c)
    BY <1>1, RoutedBound
  <1>5. Current(dials[c].token)
    BY <1>1, <1>4 DEF Current, Owner, SessionOf
  <1>6. u \in Users
    BY <1>1 DEF IInv, TableInv, TableTypeOK
  <1>7. TellUser(PurgedUser(c)) = <<[op |-> "hangup", user |-> u]>>
    BY <1>3 DEF TellUser
  <1> QED
    BY <1>1, <1>3, <1>4, <1>5, <1>6, <1>7

\* A user that owes a dial has no connection yet.
LEMMA OwingUnbound ==
  ASSUME IInv, OwedCurrent, NEW u \in Users, Owes(u)
  PROVE  /\ u \in DOMAIN byUser /\ sess[byUser[u]].serverConn = NoConn
         /\ \A d \in DOMAIN dials : dials[d].token.session # byUser[u]
  <1>1. u \in DOMAIN byUser /\ byUser[u] = OwedFor(u)
    BY DEF OwedCurrent
  <1>2. OwedFor(u) \in DOMAIN sess /\ \A d \in DOMAIN dials : dials[d].token.session # OwedFor(u)
    BY DEF IInv, LoopInv, CallsFresh
  <1> QED
    BY <1>1, <1>2 DEF IInv, TableInv, BoundByOwnDial

LEMMA CloseHandledEnds ==
  ASSUME IInv, OrderInv, CallsInv, Stays, UNCHANGED <<dials, tasks, lp>>,
         NEW msg, HandleDialClose(msg)
  PROVE  CallsInv'
  <1>1. PICK us, io : us = PurgedUser(msg.conn) /\ io = TellUser(us)
    OBVIOUS
  <1>2. rcv'.io = io /\ byUser' = [u \in DOMAIN byUser \ us |-> byUser[u]]
    BY <1>1 DEF HandleDialClose, PurgeByServer, IInv, ReceiverTypeOK
  <1>3. \A u \in us : io = <<[op |-> "hangup", user |-> u]>>
    BY <1>1, PurgedIs
  <1>4. \A d : d \notin ClosesIn(io)
    <2>1. \A i \in DOMAIN io : io[i].op = "hangup"
      BY <1>1 DEF TellUser
    <2> QED
      BY <2>1, ClosesAre
  <1>5. CallsEnd'
    <2>1. \A d \in ToClose' : d \in ToClose
      BY <1>2, <1>4, RcvSources
    <2> QED
      BY <2>1, CallsStillEnd DEF CallsInv, Stays
  <1>6. DialsOwned'
    <2>1. ASSUME NEW d \in DOMAIN dials, Current(dials[d].token)
          PROVE  CurrentNext(d) \/ Told(Owner(d))'
      <3>1. Owner(d)' = Owner(d)
        BY DEF Owner
      <3>2. CASE Owner(d) \in us
        <4>1. 1 \in DOMAIN rcv'.io /\ rcv'.io[1].op = "hangup" /\ rcv'.io[1].user = Owner(d)
          BY <1>2, <1>3, <3>2
        <4> QED
          BY <3>1, <4>1 DEF Told
      <3>3. CASE Owner(d) \notin us
        BY <1>2, <2>1, <3>3 DEF Current, CurrentNext, Owner, SessionOf
      <3> QED
        BY <3>2, <3>3
    <2> QED
      BY <2>1, DialsStillOwned DEF CallsInv, Stays
  <1>7. OwedCurrent'
    <2> SUFFICES ASSUME NEW v \in Users, Owes(v)'
                 PROVE  v \in DOMAIN byUser' /\ byUser'[v] = OwedFor(v)'
      BY DEF OwedCurrent
    <2>1. Owes(v) /\ OwedFor(v)' = OwedFor(v)
      BY DEF Owes, OwedFor
    <2>2. v \in DOMAIN byUser /\ byUser[v] = OwedFor(v) /\ sess[byUser[v]].serverConn = NoConn
      BY <2>1, OwingUnbound DEF CallsInv, OwedCurrent
    <2>3. v \notin us
      <3>1. NoConn \notin DOMAIN byServer
        BY RoutesReal DEF IInv
      <3> QED
        BY <1>1, <2>2, <3>1, PurgedIs
    <2> QED
      BY <1>2, <2>1, <2>2, <2>3
  <1> QED
    BY <1>5, <1>6, <1>7 DEF CallsInv

LEMMA OpenHandledEnds ==
  ASSUME IInv, CallsInv, Stays, UNCHANGED <<dials, tasks, lp>>, rcv.io = <<>>,
         NEW msg \in Events, HandleDialOpen(msg)
  PROVE  CallsInv'
  <1>1. PICK c : c = msg.conn
    OBVIOUS
  <1>2. c \in DOMAIN dials /\ conns[c].st # "new"
    BY <1>1 DEF HandleDialOpen, IInv, DialerInv, EventsTrue, EventTrue
  <1>3. UNCHANGED byUser
    BY DEF HandleDialOpen, CompleteDial, tableVars
  <1>4. \A d \in ToClose' : d \in ToClose \/ Ended(d)'
    <2>1. CASE Current(dials[c].token)
      <3>1. PICK pending : rcv'.io = Replay(c, pending)
        BY <1>1, <2>1 DEF HandleDialOpen
      <3>2. PICK io : io = rcv'.io
        OBVIOUS
      <3>3. \A i \in DOMAIN io : io[i].op = "write"
        BY <3>1, <3>2 DEF Replay, WriteTask
      <3>4. \A d : d \notin ClosesIn(io)
        BY <3>3, ClosesAre
      <3> QED
        BY <3>2, <3>4, RcvSources
    <2>2. CASE ~Current(dials[c].token)
      <3>1. PICK io : io = rcv'.io /\ io = <<CloseTask(c)>>
        BY <1>1, <2>2 DEF HandleDialOpen, RejectOpen
      <3>2. \A d \in ClosesIn(io) : d = c
        BY <3>1 DEF ClosesIn, CloseTask
      <3>3. Ended(c)
        BY <1>2, <2>2 DEF CallsInv, DialsOwned, Failed, Ended
      <3>4. Ended(c)'
        BY <3>3 DEF Stays, EndedStay
      <3> QED
        BY <3>1, <3>2, <3>4, RcvSources
    <2> QED
      BY <2>1, <2>2
  <1>5. \A v \in Users : Owes(v)' => Owes(v) /\ lp'[v].io = lp[v].io
    BY DEF Owes
  <1> QED
    BY <1>3, <1>4, <1>5, EndsSame

LEMMA ErrorHandledEnds ==
  ASSUME IInv, CallsInv, Stays, UNCHANGED <<dials, conns, tasks, lp>>,
         NEW msg \in Events, HandleDialError(msg)
  PROVE  CallsInv'
  <1>1. PICK c : c = msg.conn
    OBVIOUS
  <1>2. c \in DOMAIN dials /\ Failed(c)
    BY <1>1 DEF HandleDialError, IInv, DialerInv, EventsTrue, EventTrue, Failed
  <1>3. /\ \/ UNCHANGED byUser
           \/ /\ Current(dials[c].token)
              /\ byUser' = Delete(byUser, dials[c].token.user)
        /\ UNCHANGED rcv
    BY <1>1 DEF HandleDialError, AbortDial
  <1>4. \A d \in ToClose' : d \in ToClose
    BY <1>3 DEF ToClose, ClosesIn
  <1>5. \A v \in Users : Owes(v)' => Owes(v) /\ lp'[v].io = lp[v].io
    BY DEF Owes
  <1>6. CASE UNCHANGED byUser
    BY <1>4, <1>5, <1>6, EndsSame
  <1>7. CASE Current(dials[c].token) /\ byUser' = Delete(byUser, dials[c].token.user)
    <2>1. \A v \in DOMAIN byUser : v # Owner(c) => v \in DOMAIN byUser' /\ byUser'[v] = byUser[v]
      BY <1>7 DEF Delete, Owner
    <2>2. CallsEnd'
      BY <1>4, CallsStillEnd DEF CallsInv, Stays
    <2>3. DialsOwned'
      <3>1. ASSUME NEW d \in DOMAIN dials, Current(dials[d].token)
            PROVE  CurrentNext(d) \/ Failed(d)
        <4>1. CASE Owner(d) = Owner(c)
          <5>1. SessionOf(d) = SessionOf(c)
            BY <1>7, <3>1, <4>1 DEF Current, Owner, SessionOf
          <5>2. d = c
            BY <1>2, <5>1 DEF SessionOf, IInv, TableInv, DialsDistinct
          <5> QED
            BY <1>2, <5>2
        <4>2. CASE Owner(d) # Owner(c)
          BY <2>1, <3>1, <4>2 DEF Current, CurrentNext, Owner, SessionOf
        <4> QED
          BY <4>1, <4>2
      <3> QED
        BY <3>1, DialsStillOwned DEF CallsInv, Stays
    <2>4. OwedCurrent'
      <3> SUFFICES ASSUME NEW v \in Users, Owes(v)'
                   PROVE  v \in DOMAIN byUser' /\ byUser'[v] = OwedFor(v)'
        BY DEF OwedCurrent
      <3>1. Owes(v) /\ OwedFor(v)' = OwedFor(v)
        BY DEF Owes, OwedFor
      <3>2. /\ v \in DOMAIN byUser /\ byUser[v] = OwedFor(v)
            /\ \A d \in DOMAIN dials : dials[d].token.session # byUser[v]
        BY <3>1, OwingUnbound DEF CallsInv, OwedCurrent
      <3>3. v # Owner(c)
        BY <1>2, <1>7, <3>2 DEF Current, Owner
      <3> QED
        BY <2>1, <3>1, <3>2, <3>3
    <2> QED
      BY <2>2, <2>3, <2>4 DEF CallsInv
  <1> QED
    BY <1>3, <1>6, <1>7

LEMMA DataHandledEnds ==
  ASSUME IInv, CallsInv, Stays, UNCHANGED <<dials, tasks, lp>>,
         NEW msg, HandleServerMsg(msg)
  PROVE  CallsInv'
  <1>1. PICK io : io = rcv'.io
    OBVIOUS
  <1>2. UNCHANGED byUser
    BY DEF HandleServerMsg, tableVars
  <1>3. \A i \in DOMAIN io : io[i].op = "deliver"
    <2>1. CASE GetByServer(msg.conn) = {}
      BY <1>1, <2>1 DEF HandleServerMsg, IInv, ReceiverTypeOK
    <2>2. CASE GetByServer(msg.conn) # {}
      <3>1. io = [i \in DOMAIN msg.pkts |-> UserWrite(byServer[msg.conn], msg.pkts[i])]
        BY <1>1, <2>2 DEF HandleServerMsg, IInv, ReceiverTypeOK
      <3> QED
        BY <3>1 DEF UserWrite
    <2> QED
      BY <2>1, <2>2
  <1>4. \A d : d \notin ClosesIn(io)
    BY <1>3, ClosesAre
  <1>5. \A d \in ToClose' : d \in ToClose
    BY <1>1, <1>4, RcvSources
  <1>6. \A v \in Users : Owes(v)' => Owes(v) /\ lp'[v].io = lp[v].io
    BY DEF Owes
  <1> QED
    BY <1>2, <1>5, <1>6, EndsSame

LEMMA ReceiveEnds ==
  ASSUME IInv, OrderInv, CallsInv, Stays, Receive
  PROVE  CallsInv'
  <1>1. /\ recvChan \in Seq(ConnEvent) /\ recvChan # <<>> /\ rcv.io = <<>>
        /\ UNCHANGED <<dials, conns, tasks, lp>>
    BY EventsTyped DEF Receive, RcvIdle, userVars
  <1>2. PICK msg \in Events : msg = Head(recvChan)
    BY <1>1 DEF Events
  <1>3. HandleServerMsg(msg) \/ HandleDialClose(msg) \/ HandleDialOpen(msg) \/ HandleDialError(msg)
    BY <1>2 DEF Receive
  <1> QED
    BY <1>1, <1>3, DataHandledEnds, CloseHandledEnds, OpenHandledEnds, ErrorHandledEnds

\* What is left of a queue asks for nothing new.
LEMMA TailCloses ==
  ASSUME NEW T, NEW s \in Seq(T), s # <<>>, NEW d \in ClosesIn(Tail(s))
  PROVE  d \in ClosesIn(s)
  <1>1. PICK r : r = Tail(s)
    OBVIOUS
  <1>2. PICK i \in DOMAIN r : r[i].op = "close" /\ r[i].conn = d
    BY <1>1, ClosesAre
  <1>3. i + 1 \in DOMAIN s /\ r[i] = s[i + 1]
    BY <1>1
  <1> QED
    BY <1>2, <1>3, ClosesAre

LEMMA ReceiveCallEnds ==
  ASSUME IInv, CallsInv, Stays, ReceiveCall
  PROVE  CallsInv'
  <1>1. /\ rcv.io \in Seq(RcvCall) /\ rcv.io # <<>> /\ rcv'.io = Tail(rcv.io)
        /\ UNCHANGED <<dials, byUser, lp>>
    BY DEF ReceiveCall, IInv, ReceiverTypeOK, tableVars
  <1>2. PICK call : call = Head(rcv.io) /\ call = rcv.io[1] /\ 1 \in DOMAIN rcv.io
    BY <1>1
  <1>3. UNCHANGED tasks \/ tasks' = Append(tasks, call)
    BY <1>2 DEF ReceiveCall
  <1>4. \A d : d \in ClosesIn(tasks') => d \in ClosesIn(tasks) \/ d \in ClosesIn(rcv.io)
    <2>1. CASE UNCHANGED tasks
      BY <2>1
    <2>2. CASE tasks' = Append(tasks, call)
      <3>1. call.op = "close" => call.conn \in ClosesIn(rcv.io)
        BY <1>2, ClosesAre
      <3> QED
        BY <2>2, <3>1, AddedSources
    <2> QED
      BY <1>3, <2>1, <2>2
  <1>5. \A d : d \in ClosesIn(rcv'.io) => d \in ClosesIn(rcv.io)
    BY <1>1, TailCloses
  <1>6. \A d \in ToClose' : d \in ToClose
    <2> SUFFICES ASSUME NEW d \in ToClose' PROVE d \in ToClose
      OBVIOUS
    <2>1. \/ d \in ClosesIn(tasks') \/ d \in ClosesIn(rcv'.io)
          \/ \E u \in Users : d \in ClosesIn(lp[u].io)
      BY <1>1 DEF ToClose, ClosesIn
    <2> QED
      BY <1>4, <1>5, <2>1 DEF ToClose
  <1>7. \A v \in Users : Owes(v)' => Owes(v) /\ lp'[v].io = lp[v].io
    BY <1>1 DEF Owes
  <1> QED
    BY <1>1, <1>6, <1>7, EndsSame

LEMMA DialerCallsEnd ==
  ASSUME ClientAssumption, IInv, CallsInv, Stays, DialerSteps
  PROVE  CallsInv'
  <1>1. DOMAIN dials' = DOMAIN dials /\ UNCHANGED <<byUser, lp, rcv>>
    BY DialerStepsOK DEF DialerSteps, DialerAlone, LoopAlone, tableVars, userVars, DialerStepOK, IInv
  <1>2. tasks \in Seq(Task)
    BY DEF IInv, DialerInv, DialerTypeOK
  <1>3. \/ UNCHANGED tasks
        \/ tasks # <<>> /\ tasks' = Tail(tasks)
        \/ tasks' = tasks \o <<>>
    BY DEF DialerSteps, DialerAlone, LoopAlone, OnOpenPosted, DialStep, AcquireSem, DialFinishes,
           DialReports, PeerStep, OnTraffic, PeerCloses, LoopStep, LoopUnblocks, RunWrite, RunClose,
           WriteErrorDone
  <1>4. tasks \o <<>> = tasks
    BY <1>2
  <1>5. \A d : d \in ClosesIn(tasks') => d \in ClosesIn(tasks)
    BY <1>2, <1>3, <1>4, TailCloses
  <1>6. \A d \in ToClose' : d \in ToClose
    <2> SUFFICES ASSUME NEW d \in ToClose' PROVE d \in ToClose
      OBVIOUS
    <2>1. \/ d \in ClosesIn(tasks') \/ d \in ClosesIn(rcv.io)
          \/ \E u \in Users : d \in ClosesIn(lp[u].io)
      BY <1>1 DEF ToClose, ClosesIn
    <2> QED
      BY <1>5, <2>1 DEF ToClose
  <1>7. \A v \in Users : Owes(v)' => Owes(v) /\ lp'[v].io = lp[v].io
    BY <1>1 DEF Owes
  <1> QED
    BY <1>1, <1>6, <1>7, EndsSame

\* Every step.
LEMMA NextEndInv ==
  ASSUME ClientAssumption, IInv, OrderInv, DownInv, EndInv, [Next]_vars
  PROVE  EndInv' /\ ConnsGo
  <1>1. ConnsGo /\ ClosesLast'
    BY NextEnds DEF EndInv, CallsInv
  <1>2. Stays /\ CallsInv
    BY NextStays DEF EndInv
  <1>3. ASSUME NEW u \in Users, UserTraffic(u) \/ UserLoop(u) \/ UserCloses(u)
        PROVE  CallsInv'
    <2>1. ASSUME Admit(u) PROVE CallsInv'
      BY <1>2, <2>1, AdmitDialEnds, AdmitMoreEnds DEF Admit
    <2> QED
      BY <1>2, <1>3, <2>1, ReadEnds, UserCallEnds, UserClosesEnds DEF UserLoop
  <1>4. ASSUME UNCHANGED vars PROVE CallsInv'
    <2>1. UNCHANGED <<dials, conns, tasks, rcv, lp, byUser, ustate>>
      BY <1>4 DEF vars, dialerVars, userVars, tableVars
    <2>2. \A d \in ToClose' : d \in ToClose
      BY <2>1 DEF ToClose, ClosesIn
    <2>3. \A v \in Users : Owes(v)' => Owes(v) /\ lp'[v].io = lp[v].io
      BY <2>1 DEF Owes
    <2>4. DOMAIN dials' = DOMAIN dials /\ UNCHANGED byUser
      BY <2>1
    <2> QED
      BY <1>2, <2>2, <2>3, <2>4, EndsSame
  <1>5. ASSUME Consumer PROVE CallsInv'
    BY <1>2, <1>5, ReceiveEnds, ReceiveCallEnds DEF Consumer
  <1>6. ASSUME DialerSteps PROVE CallsInv'
    BY <1>2, <1>6, DialerCallsEnd
  <1>7. CallsInv'
    BY <1>3, <1>4, <1>5, <1>6 DEF Next
  <1> QED
    BY <1>1, <1>7 DEF EndInv

LEMMA InitEndInv ==
  ASSUME Init
  PROVE  EndInv
  <1>1. /\ dials = <<>> /\ recvChan = <<>> /\ tasks = <<>> /\ rcv.io = <<>>
        /\ loop.blocked = <<>> /\ \A u \in Users : lp[u].io = <<>> /\ lp[u].pc = "idle"
    BY DEF Init, DialerInit
  <1>2. ClosesLast
    BY <1>1 DEF ClosesLast, ClosesEnd
  <1>3. CallsEnd
    <2>1. ToClose = {}
      BY <1>1 DEF ToClose, ClosesIn
    <2> QED
      BY <2>1 DEF CallsEnd
  <1>4. DialsOwned /\ OwedCurrent
    BY <1>1 DEF DialsOwned, OwedCurrent, Owes
  <1> QED
    BY <1>2, <1>3, <1>4 DEF EndInv, CallsInv

\* Connections close for a reason, and a dial is for the session its user has
\* until it fails or the user is told.
THEOREM ClosesAreTold ==
  Spec => [](IInv /\ OrderInv /\ DownInv /\ DownstreamInOrder /\ DeliveredSent /\ EndInv)
  <1>1. Init => OrderInv /\ DownInv /\ DeliveredSent /\ EndInv
    <2>1. Init => DeliveredSent
      BY DEF Init, DeliveredSent
    <2> QED
      BY <2>1, InitOrder, InitDown, InitEndInv
  <1>2. IInv /\ OrderInv /\ DownInv /\ [Next]_vars => OrderInv' /\ DownInv'
    BY NextOrder, NextDown, ClientAssumption
  <1>3. IInv /\ IInv' /\ OrderInv /\ DownInv /\ DeliveredSent /\ [Next]_vars => DeliveredSent'
    BY NextSent
  <1>4. IInv /\ OrderInv /\ DownInv /\ EndInv /\ [Next]_vars => EndInv'
    BY NextEndInv, ClientAssumption
  <1>5. DownInv => DownstreamInOrder
    BY DownInOrder
  <1> QED
    BY <1>1, <1>2, <1>3, <1>4, <1>5, ClientInvariant, PTL DEF Spec

(***************************************************************************)
(* The hang-up                                                             *)
(***************************************************************************)

\* User u was written all that its connection d read before it closed.
AllOf(u, d) ==
  \A n \in 1..conns[d].in :
    \E i \in DOMAIN delivered[u] : delivered[u][i] = [conn |-> d, seq |-> n]

\* The step that tells u: its connection has closed, u was written all of it,
\* and no other connection of u carried anything.
HungUp(u) ==
  /\ UNCHANGED <<dials, conns, delivered, ustate>>
  /\ \E d \in DOMAIN dials :
       /\ Owner(d) = u /\ conns[d].st = "closed" /\ AllOf(u, d)
       /\ \A f \in DOMAIN dials : Owner(f) = u /\ f # d => conns[f].out = <<>>

\* A dial that failed was for nothing.
LEMMA FailedUnused ==
  ASSUME IInv, OrderInv, NEW f \in DOMAIN dials, Failed(f)
  PROVE  conns[f].out = <<>>
  <1>1. SessionOf(f) \in DOMAIN sess /\ f # NoConn
    BY DomainsEqual DEF IInv, DialerInv, TableInv, DialsDistinct, SessionOf
  <1>2. ~Bound(f)
    BY <1>1 DEF IInv, TableInv, BoundByOwnDial, Bound, Failed
  <1> QED
    BY <1>2 DEF OrderInv, UnboundUnused, Unused

\* Nothing of the connection whose Close is first is on its way.
LEMMA CloseFirst ==
  ASSUME IInv, DownInv, ClosesLast, recvChan # <<>>, rcv.io = <<>>,
         NEW d \in DOMAIN dials, recvChan[1].event = "Close", recvChan[1].conn = d
  PROVE  InTransit(d) = {} /\ conns[d].st = "closed"
  <1>1. /\ recvChan \in Seq(ConnEvent) /\ 1 \in DOMAIN recvChan
    BY EventsTyped, EmptySeq
  <1>2. /\ conns[d].st = "closed"
        /\ \A j \in DOMAIN recvChan : recvChan[j].conn = d => j <= 1
        /\ \A j \in DOMAIN loop.blocked : loop.blocked[j].conn # d
    BY <1>1 DEF ClosesLast, ClosesEnd
  <1>3. recvChan[1].pkts = <<>>
    BY <1>1 DEF DownInv, EventsWellFormed, EventFormed, Events
  <1>4. Carries(recvChan, d) = {}
    <2>1. \A j \in DOMAIN recvChan : j <= 1 => j = 1
      BY <1>1
    <2> QED
      BY <1>2, <1>3, <2>1 DEF Carries
  <1>5. Carries(loop.blocked, d) = {}
    BY <1>2 DEF Carries
  <1>6. \A p : p \notin InTransit(d)
    BY <1>4, <1>5, TransitIs DEF Holds, Delivering
  <1> QED
    BY <1>2, <1>6

\* The step is the one that handles the Close of its connection.
LEMMA ToldBy ==
  ASSUME IInv, OrderInv, [Next]_vars, NEW u \in Users, ~Told(u), Told(u)',
         ustate'[u] # "closed"
  PROVE  /\ Receive /\ recvChan # <<>> /\ recvChan[1].event = "Close"
         /\ u \in PurgedUser(recvChan[1].conn)
  <1>1. ustate[u] = "open" /\ \A i \in DOMAIN rcv.io : ~(rcv.io[i].op = "hangup" /\ rcv.io[i].user = u)
    BY DEF Told
  <1>2. ~(UNCHANGED rcv /\ ustate'[u] = ustate[u])
    BY <1>1 DEF Told
  <1>3. ASSUME NEW v \in Users, UserTraffic(v) \/ UserLoop(v) \/ UserCloses(v)
        PROVE  FALSE
    <2>1. UNCHANGED rcv
      BY <1>3 DEF UserTraffic, UserLoop, Lookup, Admit, UserCall, UserCloses
    <2>2. CASE UserCloses(v)
      BY <1>2, <2>1, <2>2 DEF UserCloses, IInv, LoopInv, UserTypeOK
    <2> QED
      BY <1>2, <1>3, <2>1, <2>2 DEF UserTraffic, UserLoop, Lookup, Admit, UserCall
  <1>4. ~DialerSteps
    BY <1>2 DEF DialerSteps, DialerAlone, LoopAlone, userVars
  <1>5. ~UNCHANGED vars
    BY <1>2 DEF vars, userVars
  <1>6. ~ReceiveCall
    <2> SUFFICES ASSUME ReceiveCall PROVE FALSE
      OBVIOUS
    <2>1. PICK io, call : io = rcv.io /\ call = Head(rcv.io)
      OBVIOUS
    <2>2. io \in Seq(RcvCall) /\ io # <<>> /\ rcv'.io = Tail(io)
      BY <2>1 DEF ReceiveCall, IInv, ReceiverTypeOK
    <2>3. call = io[1] /\ 1 \in DOMAIN io
      BY <2>1, <2>2
    <2>4. ustate'[u] = ustate[u]
      BY <1>1, <2>1, <2>3 DEF ReceiveCall, IInv, LoopInv, UserTypeOK
    <2>5. PICK t : t = Tail(io)
      OBVIOUS
    <2>6. \A i \in DOMAIN t : i + 1 \in DOMAIN io /\ t[i] = io[i + 1]
      BY <2>2, <2>5
    <2>7. \A i \in DOMAIN t : ~(t[i].op = "hangup" /\ t[i].user = u)
      BY <1>1, <2>1, <2>6
    <2> QED
      BY <1>1, <2>2, <2>4, <2>5, <2>7 DEF Told
  <1>7. Receive
    BY <1>3, <1>4, <1>5, <1>6 DEF Next, Consumer
  <1>8. recvChan \in Seq(ConnEvent) /\ recvChan # <<>> /\ Head(recvChan) = recvChan[1]
    BY <1>7, EventsTyped DEF Receive
  <1>9. PICK msg, io : msg = recvChan[1] /\ io = rcv'.io
    OBVIOUS
  <1>10. PICK i \in DOMAIN io : io[i].op = "hangup" /\ io[i].user = u
    <2>1. UNCHANGED ustate
      BY <1>7 DEF Receive, userVars
    <2> QED
      BY <1>1, <1>9, <2>1 DEF Told
  <1>11. HandleDialClose(msg)
    <2>1. ~HandleDialError(msg)
      BY <1>1, <1>9, <1>10 DEF HandleDialError
    <2>2. ~HandleServerMsg(msg)
      <3> SUFFICES ASSUME HandleServerMsg(msg) PROVE FALSE
        OBVIOUS
      <3>1. io = <<>> \/ io = [k \in DOMAIN msg.pkts |-> UserWrite(byServer[msg.conn], msg.pkts[k])]
        BY <1>9 DEF HandleServerMsg, IInv, ReceiverTypeOK
      <3> QED
        BY <1>10, <3>1 DEF UserWrite
    <2>3. ~HandleDialOpen(msg)
      <3> SUFFICES ASSUME HandleDialOpen(msg) PROVE FALSE
        OBVIOUS
      <3>1. \/ \E pending : io = Replay(msg.conn, pending)
            \/ io = RejectOpen(msg.conn)
        BY <1>9 DEF HandleDialOpen
      <3> QED
        BY <1>10, <3>1 DEF Replay, RejectOpen, WriteTask, CloseTask
    <2> QED
      BY <1>7, <1>8, <1>9, <2>1, <2>2, <2>3 DEF Receive
  <1>12. PICK us : us = PurgedUser(msg.conn)
    OBVIOUS
  <1>13. io = TellUser(us)
    BY <1>9, <1>11, <1>12 DEF HandleDialClose, IInv, ReceiverTypeOK
  <1>14. us # {}
    BY <1>10, <1>13 DEF TellUser
  <1>15. PICK v \in us : TRUE
    BY <1>14
  <1>16. io = <<[op |-> "hangup", user |-> v]>>
    BY <1>12, <1>13, <1>15, PurgedIs
  <1>17. u = v
    BY <1>10, <1>16
  <1> QED
    BY <1>7, <1>8, <1>9, <1>11, <1>12, <1>15, <1>17 DEF HandleDialClose

\* A user is hung up on when its connection has closed, and only then.
LEMMA HangUp ==
  ASSUME ClientAssumption, IInv, OrderInv, DownInv, EndInv, [Next]_vars,
         NEW u \in Users, ~Told(u), Told(u)', ustate'[u] # "closed"
  PROVE  HungUp(u)
  <1>1. PICK d : d = recvChan[1].conn
    OBVIOUS
  <1>2. /\ Receive /\ recvChan # <<>> /\ recvChan[1].event = "Close" /\ u \in PurgedUser(d)
    BY <1>1, ToldBy
  <1>3. d \in DOMAIN dials /\ Owner(d) = u /\ Current(dials[d].token)
    BY <1>2, PurgedIs
  <1>4. UNCHANGED <<dials, conns, delivered, ustate>> /\ rcv.io = <<>>
    BY <1>2 DEF Receive, RcvIdle, userVars
  <1>5. InTransit(d) = {} /\ conns[d].st = "closed"
    BY <1>1, <1>2, <1>3, <1>4, CloseFirst DEF EndInv
  <1>6. AllOf(u, d)
    <2>1. ustate[dials[d].token.user] = "open" /\ d \in DOMAIN conns /\ dials[d].token.user = u
      BY <1>3, DomainsEqual DEF Told, Owner, IInv, DialerInv
    <2>2. PICK got : got = delivered[u]
      OBVIOUS
    <2>3. \A p : (p \in {got[i] : i \in DOMAIN got} /\ p.conn = d) \/ p \in InTransit(d)
                 <=> p \in {[conn |-> d, seq |-> n] : n \in 1..conns[d].in}
      <3>1. Current(dials[d].token) /\ got = delivered[dials[d].token.user]
        BY <1>3, <2>1, <2>2
      <3>2. DownstreamNotLost
        BY DownKeepsAll
      <3>3. {p \in {delivered[dials[d].token.user][i] : i \in DOMAIN delivered[dials[d].token.user]} :
               p.conn = d} \cup InTransit(d)
              = {[conn |-> d, seq |-> n] : n \in 1..conns[d].in}
        BY <2>1, <3>1, <3>2 DEF DownstreamNotLost
      <3> QED
        BY <3>1, <3>3
    <2>4. \A p \in {[conn |-> d, seq |-> n] : n \in 1..conns[d].in} : \E i \in DOMAIN got : p = got[i]
      BY <1>5, <2>3
    <2>5. ASSUME NEW n \in 1..conns[d].in
          PROVE  \E i \in DOMAIN got : got[i] = [conn |-> d, seq |-> n]
      <3>1. PICK p : p = [conn |-> d, seq |-> n]
        OBVIOUS
      <3>2. p \in {[conn |-> d, seq |-> k] : k \in 1..conns[d].in}
        BY <3>1
      <3> QED
        BY <2>4, <3>1, <3>2
    <2> QED
      BY <2>2, <2>5 DEF AllOf
  <1>7. ASSUME NEW f \in DOMAIN dials, Owner(f) = u, f # d
        PROVE  conns[f].out = <<>>
    <2>1. ~Current(dials[f].token)
      BY <1>3, <1>7 DEF Current, Owner, IInv, TableInv, DialsDistinct
    <2>2. Failed(f)
      BY <1>7, <2>1 DEF EndInv, CallsInv, DialsOwned
    <2> QED
      BY <2>2, FailedUnused
  <1> QED
    BY <1>3, <1>4, <1>5, <1>6, <1>7 DEF HungUp

\* What the client's part of a joined system needs of a step.
LEMMA NextWhy ==
  ASSUME ClientAssumption, IInv, OrderInv, DownInv, EndInv,
         \/ \E u \in Users : UserTraffic(u) \/ UserLoop(u) \/ UserCloses(u)
         \/ Consumer
         \/ LoopAlone
         \/ \E d \in DOMAIN dials : DialerAlone(OnOpenPosted(d)) \/ DialerAlone(DialStep(d))
                                    \/ DialerAlone(OnTraffic(d))
  PROVE  ClosesWhy
  BY UserEnds, ConsumerEnds, LoopEnds, OpenEnds, DialEnds, TrafficEnds
  DEF EndInv, CallsInv, EndStep, LoopAlone, DialerAlone

\* What a user was written, it keeps.
DeliveredStays ==
  \A u \in Users : \A k \in DOMAIN delivered[u] :
    k \in DOMAIN delivered'[u] /\ delivered'[u][k] = delivered[u][k]

LEMMA NextDelivered ==
  ASSUME IInv, [Next]_vars
  PROVE  DeliveredStays
  <1>1. delivered \in [Users -> Seq(DownPkt)]
    BY DEF IInv, ReceiverTypeOK
  <1>2. UNCHANGED delivered => DeliveredStays
    BY DEF DeliveredStays
  <1>3. CASE ReceiveCall
    <2>1. PICK v, p : \/ UNCHANGED delivered
                      \/ delivered' = [delivered EXCEPT ![v] = Append(@, p)]
      BY <1>3 DEF ReceiveCall
    <2>2. ASSUME delivered' = [delivered EXCEPT ![v] = Append(@, p)]
          PROVE  DeliveredStays
      <3> SUFFICES ASSUME NEW u \in Users, NEW k \in DOMAIN delivered[u]
                   PROVE  k \in DOMAIN delivered'[u] /\ delivered'[u][k] = delivered[u][k]
        BY DEF DeliveredStays
      <3>1. PICK got \in Seq(DownPkt) : got = delivered[u]
        BY <1>1
      <3>2. delivered'[u] = got \/ delivered'[u] = Append(got, p)
        BY <1>1, <2>2, <3>1
      <3>3. k \in DOMAIN Append(got, p) /\ Append(got, p)[k] = got[k]
        BY <3>1
      <3> QED
        BY <3>1, <3>2, <3>3
    <2> QED
      BY <1>2, <2>1, <2>2
  <1>4. CASE Receive
    BY <1>2, <1>4 DEF Receive
  <1>5. CASE \E u \in Users : UserTraffic(u) \/ UserLoop(u) \/ UserCloses(u)
    BY <1>2, <1>5 DEF UserTraffic, UserLoop, UserCloses, Lookup, Admit, UserCall
  <1>6. CASE DialerSteps
    BY <1>2, <1>6 DEF DialerSteps, LoopAlone, DialerAlone
  <1>7. CASE UNCHANGED vars
    BY <1>2, <1>7 DEF vars
  <1> QED
    BY <1>3, <1>4, <1>5, <1>6, <1>7 DEF Next, Consumer

\* A connection is made new.
LEMMA ClosedWasThere ==
  ASSUME IInv, [Next]_vars, NEW d \in DOMAIN conns', conns'[d].st = "closed"
  PROVE  d \in DOMAIN conns
  <1>1. DOMAIN conns' = DOMAIN conns => d \in DOMAIN conns
    OBVIOUS
  <1>2. ASSUME NEW token, AsyncDial(token) PROVE d \in DOMAIN conns
    <2>1. PICK s \in Seq(Conn) : s = conns
      BY DEF IInv, DialerInv, DialerTypeOK
    <2>2. conns' = Append(s, NewConn) /\ NewConn.st # "closed"
      BY <1>2, <2>1 DEF AsyncDial, NewConn
    <2>3. d \in DOMAIN s \/ conns'[d] = NewConn
      BY <2>1, <2>2
    <2> QED
      BY <2>1, <2>2, <2>3
  <1>3. CASE \E u \in Users : UserTraffic(u) \/ UserLoop(u) \/ UserCloses(u)
    <2>1. UNCHANGED conns \/ \E token : AsyncDial(token)
      BY <1>3 DEF UserTraffic, UserLoop, Lookup, Admit, UserCall, UserCloses, dialerVars
    <2> QED
      BY <1>1, <1>2, <2>1
  <1>4. CASE Consumer
    BY <1>1, <1>4 DEF Consumer, Receive, ReceiveCall
  <1>5. CASE LoopAlone
    <2>1. LoopStep \/ WriteErrorDone(<<>>)
      BY <1>5 DEF LoopAlone, DialerAlone
    <2> QED
      BY <1>1, <2>1 DEF LoopStep, LoopUnblocks, RunWrite, RunClose, WriteErrorDone, ConnAt, ConnWritten
  <1>6. CASE \E e \in DOMAIN dials :
               DialerAlone(OnOpenPosted(e)) \/ DialerAlone(DialStep(e)) \/ DialerAlone(PeerStep(e))
    <2>1. PICK e : OnOpenPosted(e) \/ DialStep(e) \/ PeerStep(e)
      BY <1>6 DEF DialerAlone
    <2> QED
      BY <1>1, <2>1 DEF OnOpenPosted, DialStep, PeerStep, AcquireSem, DialFinishes, DialReports,
                        OnTraffic, PeerCloses, ConnAt, ConnRead
  <1>7. CASE UNCHANGED vars
    BY <1>1, <1>7 DEF vars, dialerVars
  <1> QED
    BY <1>3, <1>4, <1>5, <1>6, <1>7 DEF Next, DialerSteps

LEMMA OwnerIsUser ==
  ASSUME IInv, NEW d \in DOMAIN dials
  PROVE  Owner(d) \in Users
  BY Numbered

\* A user that is gone stays gone.
LEMMA GoneStays ==
  ASSUME IInv, [Next]_vars, NEW v \in Users, ustate[v] = "closed"
  PROVE  ustate'[v] = "closed"
  <1>1. ASSUME NEW u \in Users, UserTraffic(u) \/ UserLoop(u) \/ UserCloses(u)
        PROVE  ustate'[v] = "closed"
    <2>1. CASE UserCloses(u)
      BY <2>1 DEF UserCloses, IInv, LoopInv, UserTypeOK
    <2> QED
      BY <1>1, <2>1 DEF UserTraffic, UserLoop, Lookup, Admit, UserCall
  <1>2. CASE Receive
    BY <1>2 DEF Receive, userVars
  <1>3. CASE ReceiveCall
    <2>1. UNCHANGED ustate \/ \E u : ustate[u] = "open" /\ ustate' = [ustate EXCEPT ![u] = "closing"]
      BY <1>3 DEF ReceiveCall
    <2> QED
      BY <2>1 DEF IInv, LoopInv, UserTypeOK
  <1>4. CASE DialerSteps
    BY <1>4 DEF DialerSteps, DialerAlone, LoopAlone, userVars
  <1>5. CASE UNCHANGED vars
    BY <1>5 DEF vars, userVars
  <1> QED
    BY <1>1, <1>2, <1>3, <1>4, <1>5 DEF Next, Consumer
=============================================================================
