--------------------------- MODULE DispatcherProofs ---------------------------
(***************************************************************************)
(* Proofs about Dispatcher, for any number of loops, connections, workers  *)
(* and packets and any capacity of the channels.                           *)
(***************************************************************************)
EXTENDS Dispatcher, SequenceTheorems, FiniteSetTheorems, TLAPS

(***************************************************************************)
(* The inductive invariant                                                 *)
(***************************************************************************)

\* Nothing is dispatched for a connection before its OnOpen gave it a worker.
OpenedFirst == \A c \in Conns : cstate[c] = "new" => ndispatched[c] = 0

\* No message in a channel is newer than the last one dispatched.
LinesPast ==
  \A w \in Workers : \A i \in DOMAIN line[w] :
    line[w][i].num <= ndispatched[line[w][i].conn]

\* What a loop waits to push is the newest message of one of its own
\* connections, and no channel has it yet.
BlockedNewest ==
  \A l \in Loops : blocked[l] # <<>> =>
    LET m == blocked[l][1] IN
      /\ m \in Message
      /\ loopOf[m.conn] = l
      /\ m.num = ndispatched[m.conn]
      /\ m.event = "Close" => cstate[m.conn] = "closed"
      /\ \A w \in Workers : \A i \in DOMAIN line[w] :
           line[w][i].conn = m.conn => line[w][i].num < m.num

IInv ==
  /\ TypeOK
  /\ OpenedFirst
  /\ LinesPast
  /\ BlockedNewest
  /\ LinesOrdered
  /\ OneWorker
  /\ NoneLost
  /\ CloseLast

(***************************************************************************)
(* Pushing a message on a channel                                          *)
(***************************************************************************)

\* The channel of w has m behind what it had, the others have what they had.
Pushed(w, m) ==
  /\ line' \in [Workers -> Seq(Message)]
  /\ \A v \in Workers : \A i \in DOMAIN line[v] :
       i \in DOMAIN line'[v] /\ line'[v][i] = line[v][i]
  /\ \A v \in Workers : \A i \in DOMAIN line'[v] :
       \/ i \in DOMAIN line[v]
       \/ v = w /\ line'[v][i] = m /\ i = Len(line[v]) + 1
  /\ \E i \in DOMAIN line'[w] : line'[w][i] = m

\* The assignment that pushes does that.
LEMMA AppendPushes ==
  ASSUME line \in [Workers -> Seq(Message)], NEW w \in Workers, NEW m \in Message,
         line' = [line EXCEPT ![w] = Append(@, m)]
  PROVE  Pushed(w, m)
  <1> DEFINE new == Append(line[w], m)
  <1>1. line[w] \in Seq(Message)
    OBVIOUS
  <1>2. /\ new \in Seq(Message)
        /\ Len(new) = Len(line[w]) + 1
        /\ \A i \in 1..Len(line[w]) : new[i] = line[w][i]
        /\ new[Len(line[w]) + 1] = m
    BY <1>1, AppendProperties
  <1>3. DOMAIN new = 1..(Len(line[w]) + 1) /\ DOMAIN line[w] = 1..Len(line[w])
    BY <1>1, <1>2, LenProperties
  <1>4. Len(line[w]) \in Nat
    BY <1>1, LenProperties
  <1> HIDE DEF new
  <1>5. line'[w] = new /\ \A v \in Workers : v # w => line'[v] = line[v]
    BY DEF new
  <1>6. line' \in [Workers -> Seq(Message)]
    BY <1>2 DEF new
  <1>7. ASSUME NEW v \in Workers, NEW i \in DOMAIN line[v]
        PROVE  i \in DOMAIN line'[v] /\ line'[v][i] = line[v][i]
    BY <1>2, <1>3, <1>4, <1>5, <1>7
  <1>8. ASSUME NEW v \in Workers, NEW i \in DOMAIN line'[v]
        PROVE  \/ i \in DOMAIN line[v]
               \/ v = w /\ line'[v][i] = m /\ i = Len(line[v]) + 1
    BY <1>2, <1>3, <1>4, <1>5, <1>8
  <1>9. \E i \in DOMAIN line'[w] : line'[w][i] = m
    BY <1>2, <1>3, <1>4, <1>5
  <1> QED
    BY <1>6, <1>7, <1>8, <1>9 DEF Pushed

\* A message that is newer than all of its connection in any channel, pushed
\* on the channel of its worker, leaves the channels in order.
LEMMA PushOrdered ==
  ASSUME line \in [Workers -> Seq(Message)], workerIndex' = workerIndex,
         LinesOrdered, OneWorker,
         NEW w \in Workers, NEW m \in Message, Pushed(w, m),
         workerIndex[m.conn] = w,
         \A v \in Workers : \A i \in DOMAIN line[v] :
           line[v][i].conn = m.conn => line[v][i].num < m.num
  PROVE  LinesOrdered' /\ OneWorker'
  <1>1. ASSUME NEW v \in Workers, NEW i \in DOMAIN line'[v], NEW j \in DOMAIN line'[v],
               i < j, line'[v][i].conn = line'[v][j].conn
        PROVE  line'[v][i].num < line'[v][j].num
    <2>0. line[v] \in Seq(Message) /\ line'[v] \in Seq(Message)
      BY DEF Pushed
    <2>1. i \in Int /\ j \in Int
      BY <2>0, LenProperties
    <2>2. CASE i \in DOMAIN line[v] /\ j \in DOMAIN line[v]
      BY <1>1, <2>2 DEF Pushed, LinesOrdered
    <2>3. CASE i \in DOMAIN line[v] /\ j \notin DOMAIN line[v]
      BY <1>1, <2>3 DEF Pushed
    <2>4. CASE i \notin DOMAIN line[v] /\ j \in DOMAIN line[v]
      <3>1. i = Len(line[v]) + 1
        BY <2>4 DEF Pushed
      <3>2. j \in 1..Len(line[v])
        BY <2>0, <2>4, LenProperties
      <3> QED
        BY <3>1, <3>2, <1>1, <2>0, <2>1, LenProperties
    <2>5. CASE i \notin DOMAIN line[v] /\ j \notin DOMAIN line[v]
      <3>1. i = Len(line[v]) + 1 /\ j = Len(line[v]) + 1
        BY <2>5 DEF Pushed
      <3> QED
        BY <3>1, <1>1, <2>0, <2>1, LenProperties
    <2> QED
      BY <2>2, <2>3, <2>4, <2>5
  <1>2. LinesOrdered'
    BY <1>1 DEF LinesOrdered
  <1>3. OneWorker'
    BY DEF Pushed, OneWorker
  <1> QED
    BY <1>2, <1>3

(***************************************************************************)
(* The steps of a connection's loop                                        *)
(***************************************************************************)

\* OnOpen gives a worker to a connection of which no channel has a message.
LEMMA OnOpenOK ==
  ASSUME IInv, NEW c \in Conns, OnOpen(c)
  PROVE  IInv'
  <1> USE DEF OnOpen
  <1>1. /\ ndispatched[c] = 0
        /\ \A w \in Workers : \A i \in DOMAIN line[w] : line[w][i].conn # c
    <2>1. ndispatched[c] = 0
      BY DEF IInv, OpenedFirst
    <2>2. ASSUME NEW w \in Workers, NEW i \in DOMAIN line[w], line[w][i].conn = c
          PROVE  FALSE
      <3>1. line[w][i] \in Message
        BY ElementOfSeq, LenProperties DEF IInv, TypeOK
      <3>2. line[w][i].num \in Nat \ {0} /\ line[w][i].num <= 0
        BY <2>1, <2>2, <3>1 DEF IInv, LinesPast, Message
      <3> QED
        BY <3>2
    <2> QED
      BY <2>1, <2>2
  <1>2. TypeOK'
    <2>1. nextWorkerIndex % WorkerNum \in Workers
      BY DispatcherAssumption DEF IInv, TypeOK, Workers
    <2>2. Advance(nextWorkerIndex) \in Nat
      BY DispatcherAssumption DEF IInv, TypeOK, Advance
    <2> QED
      BY <2>1, <2>2 DEF IInv, TypeOK
  <1>3. OpenedFirst' /\ LinesPast' /\ LinesOrdered'
    BY DEF IInv, TypeOK, OpenedFirst, LinesPast, LinesOrdered
  <1>4. BlockedNewest'
    BY DEF IInv, TypeOK, BlockedNewest, Message
  <1>5. OneWorker'
    <2> SUFFICES ASSUME NEW w \in Workers, NEW i \in DOMAIN line[w]
                 PROVE  workerIndex'[line[w][i].conn] = w
      BY DEF OneWorker
    <2>1. line[w][i] \in Message
      BY ElementOfSeq, LenProperties DEF IInv, TypeOK
    <2>2. line[w][i].conn \in Conns /\ line[w][i].conn # c
      BY <1>1, <2>1 DEF Message
    <2> QED
      BY <2>2 DEF IInv, OneWorker, TypeOK
  <1>6. NoneLost'
    <2> SUFFICES ASSUME NEW d \in Conns, NEW n \in 1..ndispatched[d]
                 PROVE  (\/ \E i \in DOMAIN line[workerIndex[d]] :
                              line[workerIndex[d]][i].conn = d /\ line[workerIndex[d]][i].num = n
                         \/ /\ blocked[loopOf[d]] # <<>>
                            /\ blocked[loopOf[d]][1].conn = d
                            /\ blocked[loopOf[d]][1].num = n)'
      BY DEF NoneLost
    <2>1. d # c
      BY <1>1
    <2>2. workerIndex'[d] = workerIndex[d]
      BY <2>1 DEF IInv, TypeOK
    <2> QED
      BY <2>2 DEF IInv, NoneLost
  <1>7. CloseLast'
    <2> SUFFICES ASSUME NEW w \in Workers, NEW i \in DOMAIN line[w],
                        line[w][i].event = "Close"
                 PROVE  /\ cstate'[line[w][i].conn] = "closed"
                        /\ line[w][i].num = ndispatched[line[w][i].conn]
      BY DEF CloseLast
    <2>1. line[w][i] \in Message
      BY ElementOfSeq, LenProperties DEF IInv, TypeOK
    <2>2. line[w][i].conn \in Conns /\ line[w][i].conn # c
      BY <1>1, <2>1 DEF Message
    <2> QED
      BY <2>2 DEF IInv, CloseLast, TypeOK
  <1> QED
    BY <1>2, <1>3, <1>4, <1>5, <1>6, <1>7 DEF IInv

\* A message is dispatched: what it does to the state of its connection.
DispatchFrame(c, event) ==
  /\ npkts' \in [Conns -> Nat]
  /\ cstate' = [cstate EXCEPT ![c] = IF event = "Close" THEN "closed" ELSE "open"]

\* What is known of a connection and its loop when OnTraffic or OnClose runs.
LEMMA DispatchFacts ==
  ASSUME IInv, NEW c \in Conns, NEW event \in {"Data", "Close"},
         cstate[c] = "open", LoopFree(c), Dispatch(c, event), DispatchFrame(c, event)
  PROVE  /\ Msg(c, event) \in Message
         /\ Msg(c, event).conn = c
         /\ Msg(c, event).num = ndispatched[c] + 1
         /\ Msg(c, event).event = event
         /\ ndispatched' \in [Conns -> Nat]
         /\ ndispatched'[c] = ndispatched[c] + 1
         /\ \A d \in Conns : d # c => ndispatched'[d] = ndispatched[d] /\ cstate'[d] = cstate[d]
         /\ \A d \in Conns : ndispatched[d] \in Nat /\ ndispatched[d] <= ndispatched'[d]
         /\ \A w \in Workers : \A i \in DOMAIN line[w] :
              /\ line[w][i] \in Message
              /\ line[w][i].conn = c =>
                   line[w][i].num < ndispatched[c] + 1 /\ line[w][i].event # "Close"
         /\ \A l \in Loops : blocked[l] # <<>> => blocked[l][1].conn # c
  <1>1. ndispatched[c] \in Nat
    BY DEF IInv, TypeOK
  <1>2. /\ Msg(c, event) \in Message
        /\ Msg(c, event).conn = c
        /\ Msg(c, event).num = ndispatched[c] + 1
        /\ Msg(c, event).event = event
    BY <1>1 DEF Msg, Message
  <1>3. /\ ndispatched' \in [Conns -> Nat]
        /\ ndispatched'[c] = ndispatched[c] + 1
        /\ \A d \in Conns : d # c => ndispatched'[d] = ndispatched[d] /\ cstate'[d] = cstate[d]
        /\ \A d \in Conns : ndispatched[d] \in Nat /\ ndispatched[d] <= ndispatched'[d]
    BY <1>1 DEF IInv, TypeOK, Dispatch, DispatchFrame
  <1>4. ASSUME NEW w \in Workers, NEW i \in DOMAIN line[w]
        PROVE  /\ line[w][i] \in Message
               /\ line[w][i].conn = c =>
                    line[w][i].num < ndispatched[c] + 1 /\ line[w][i].event # "Close"
    <2>1. line[w][i] \in Message
      BY ElementOfSeq, LenProperties DEF IInv, TypeOK
    <2>2. line[w][i].num \in Nat /\ line[w][i].num <= ndispatched[line[w][i].conn]
      BY <2>1 DEF IInv, LinesPast, Message
    <2>3. line[w][i].conn = c => line[w][i].event # "Close"
      BY DEF IInv, CloseLast
    <2> QED
      BY <1>1, <2>1, <2>2, <2>3
  <1>5. \A l \in Loops : blocked[l] # <<>> => blocked[l][1].conn # c
    BY DEF IInv, BlockedNewest, LoopFree
  <1> QED
    BY <1>2, <1>3, <1>4, <1>5

\* The channel is full: the loop keeps the message.
LEMMA DispatchWaitsOK ==
  ASSUME IInv, NEW c \in Conns, NEW event \in {"Data", "Close"},
         cstate[c] = "open", LoopFree(c), Dispatch(c, event), DispatchFrame(c, event),
         Full(Assigned(c))
  PROVE  IInv'
  <1> DEFINE m == Msg(c, event)
  <1>1. /\ m \in Message /\ m.conn = c /\ m.num = ndispatched[c] + 1 /\ m.event = event
        /\ ndispatched' \in [Conns -> Nat]
        /\ ndispatched'[c] = ndispatched[c] + 1
        /\ \A d \in Conns : d # c => ndispatched'[d] = ndispatched[d] /\ cstate'[d] = cstate[d]
        /\ \A d \in Conns : ndispatched[d] \in Nat /\ ndispatched[d] <= ndispatched'[d]
        /\ \A w \in Workers : \A i \in DOMAIN line[w] :
             /\ line[w][i] \in Message
             /\ line[w][i].conn = c =>
                  line[w][i].num < ndispatched[c] + 1 /\ line[w][i].event # "Close"
        /\ \A l \in Loops : blocked[l] # <<>> => blocked[l][1].conn # c
    BY DispatchFacts
  <1>2. /\ line' = line /\ blocked' = [blocked EXCEPT ![loopOf[c]] = <<m>>]
        /\ UNCHANGED <<nextWorkerIndex, loopOf, workerIndex, taken>>
    BY DEF Dispatch, Wait
  <1> HIDE DEF m
  <1>3. TypeOK'
    <2>1. <<m>> \in Seq(Message)
      BY <1>1
    <2> QED
      BY <1>1, <1>2, <2>1 DEF IInv, TypeOK, DispatchFrame
  <1>4. OpenedFirst'
    BY <1>1 DEF IInv, TypeOK, OpenedFirst, DispatchFrame
  <1>5. LinesPast'
    <2> SUFFICES ASSUME NEW w \in Workers, NEW i \in DOMAIN line[w]
                 PROVE  line[w][i].num <= ndispatched'[line[w][i].conn]
      BY <1>2 DEF LinesPast
    <2>1. line[w][i].num \in Nat /\ line[w][i].conn \in Conns
      BY <1>1 DEF Message
    <2>2. line[w][i].num <= ndispatched[line[w][i].conn]
      BY DEF IInv, LinesPast
    <2> QED
      BY <1>1, <2>1, <2>2
  <1>6. LinesOrdered' /\ OneWorker'
    BY <1>2 DEF IInv, LinesOrdered, OneWorker
  <1>7. BlockedNewest'
    <2> SUFFICES ASSUME NEW l \in Loops, blocked'[l] # <<>>
                 PROVE  /\ blocked'[l][1] \in Message
                        /\ loopOf[blocked'[l][1].conn] = l
                        /\ blocked'[l][1].num = ndispatched'[blocked'[l][1].conn]
                        /\ blocked'[l][1].event = "Close" => cstate'[blocked'[l][1].conn] = "closed"
                        /\ \A w \in Workers : \A i \in DOMAIN line[w] :
                             line[w][i].conn = blocked'[l][1].conn => line[w][i].num < blocked'[l][1].num
      BY <1>2 DEF BlockedNewest
    <2>1. CASE l = loopOf[c]
      <3>1. blocked'[l][1] = m
        BY <1>2, <2>1 DEF IInv, TypeOK
      <3>2. m.event = "Close" => cstate'[c] = "closed"
        BY <1>1 DEF IInv, TypeOK, DispatchFrame
      <3> QED
        BY <1>1, <2>1, <3>1, <3>2
    <2>2. CASE l # loopOf[c]
      <3>1. blocked'[l] = blocked[l]
        BY <1>2, <2>2 DEF IInv, TypeOK
      <3>2. /\ blocked[l][1] \in Message
            /\ loopOf[blocked[l][1].conn] = l
            /\ blocked[l][1].num = ndispatched[blocked[l][1].conn]
            /\ blocked[l][1].event = "Close" => cstate[blocked[l][1].conn] = "closed"
            /\ \A w \in Workers : \A i \in DOMAIN line[w] :
                 line[w][i].conn = blocked[l][1].conn => line[w][i].num < blocked[l][1].num
        BY <3>1 DEF IInv, BlockedNewest
      <3>3. blocked[l][1].conn \in Conns /\ blocked[l][1].conn # c
        BY <1>1, <3>1, <3>2 DEF Message
      <3> QED
        BY <1>1, <3>1, <3>2, <3>3
    <2> QED
      BY <2>1, <2>2
  <1>8. NoneLost'
    <2> SUFFICES ASSUME NEW d \in Conns, NEW n \in 1..ndispatched'[d]
                 PROVE  \/ \E i \in DOMAIN line[workerIndex[d]] :
                             line[workerIndex[d]][i].conn = d /\ line[workerIndex[d]][i].num = n
                        \/ /\ blocked'[loopOf[d]] # <<>>
                           /\ blocked'[loopOf[d]][1].conn = d
                           /\ blocked'[loopOf[d]][1].num = n
      BY <1>2 DEF NoneLost
    <2>1. CASE d = c /\ n = ndispatched[c] + 1
      <3>1. blocked'[loopOf[d]] = <<m>>
        BY <1>2, <2>1 DEF IInv, TypeOK
      <3> QED
        BY <1>1, <2>1, <3>1
    <2>2. CASE ~(d = c /\ n = ndispatched[c] + 1)
      <3>1. n \in 1..ndispatched[d]
        BY <1>1, <2>2
      <3>2. CASE \E i \in DOMAIN line[workerIndex[d]] :
                   line[workerIndex[d]][i].conn = d /\ line[workerIndex[d]][i].num = n
        BY <3>2
      <3>3. CASE /\ blocked[loopOf[d]] # <<>>
                 /\ blocked[loopOf[d]][1].conn = d
                 /\ blocked[loopOf[d]][1].num = n
        <4>1. loopOf[d] # loopOf[c]
          BY <3>3 DEF LoopFree
        <4>2. blocked'[loopOf[d]] = blocked[loopOf[d]]
          BY <1>2, <4>1 DEF IInv, TypeOK
        <4> QED
          BY <3>3, <4>2
      <3> QED
        BY <3>1, <3>2, <3>3 DEF IInv, NoneLost
    <2> QED
      BY <2>1, <2>2
  <1>9. CloseLast'
    <2> SUFFICES ASSUME NEW w \in Workers, NEW i \in DOMAIN line[w],
                        line[w][i].event = "Close"
                 PROVE  /\ cstate'[line[w][i].conn] = "closed"
                        /\ line[w][i].num = ndispatched'[line[w][i].conn]
      BY <1>2 DEF CloseLast
    <2>1. line[w][i].conn \in Conns /\ line[w][i].conn # c
      BY <1>1 DEF Message
    <2> QED
      BY <1>1, <2>1 DEF IInv, CloseLast
  <1> QED
    BY <1>3, <1>4, <1>5, <1>6, <1>7, <1>8, <1>9 DEF IInv

\* There is room: the message goes on the channel.
LEMMA DispatchPushesOK ==
  ASSUME IInv, NEW c \in Conns, NEW event \in {"Data", "Close"},
         cstate[c] = "open", LoopFree(c), Dispatch(c, event), DispatchFrame(c, event),
         ~Full(Assigned(c))
  PROVE  IInv'
  <1> DEFINE m == Msg(c, event)
             w == workerIndex[c]
  <1>1. /\ m \in Message /\ m.conn = c /\ m.num = ndispatched[c] + 1 /\ m.event = event
        /\ ndispatched' \in [Conns -> Nat]
        /\ ndispatched'[c] = ndispatched[c] + 1
        /\ \A d \in Conns : d # c => ndispatched'[d] = ndispatched[d] /\ cstate'[d] = cstate[d]
        /\ \A d \in Conns : ndispatched[d] \in Nat /\ ndispatched[d] <= ndispatched'[d]
        /\ \A v \in Workers : \A i \in DOMAIN line[v] :
             /\ line[v][i] \in Message
             /\ line[v][i].conn = c =>
                  line[v][i].num < ndispatched[c] + 1 /\ line[v][i].event # "Close"
        /\ \A l \in Loops : blocked[l] # <<>> => blocked[l][1].conn # c
    BY DispatchFacts
  <1>2. /\ line' = [line EXCEPT ![w] = Append(@, m)] /\ blocked' = blocked
        /\ UNCHANGED <<nextWorkerIndex, loopOf, workerIndex, taken>>
    BY DEF Dispatch, Assigned
  <1> HIDE DEF m
  <1>3. line \in [Workers -> Seq(Message)] /\ w \in Workers
    BY DEF IInv, TypeOK
  <1>4. Pushed(w, m)
    BY <1>1, <1>2, <1>3, AppendPushes
  <1>5. TypeOK'
    BY <1>1, <1>2, <1>4 DEF IInv, TypeOK, DispatchFrame, Pushed
  <1>6. OpenedFirst'
    BY <1>1 DEF IInv, TypeOK, OpenedFirst, DispatchFrame
  <1>7. LinesPast'
    <2> SUFFICES ASSUME NEW v \in Workers, NEW i \in DOMAIN line'[v]
                 PROVE  line'[v][i].num <= ndispatched'[line'[v][i].conn]
      BY DEF LinesPast
    <2>1. CASE i \in DOMAIN line[v]
      <3>1. line'[v][i] = line[v][i] /\ line[v][i].num \in Nat /\ line[v][i].conn \in Conns
        BY <1>1, <1>4, <2>1, SMTT(30) DEF Message, Pushed
      <3>2. line[v][i].num <= ndispatched[line[v][i].conn]
        BY <2>1 DEF IInv, LinesPast
      <3> QED
        BY <1>1, <3>1, <3>2
    <2>2. CASE line'[v][i] = m
      BY <1>1, <2>2
    <2> QED
      BY <1>4, <2>1, <2>2 DEF Pushed
  <1>8. LinesOrdered' /\ OneWorker'
    <2>1. \A v \in Workers : \A i \in DOMAIN line[v] :
            line[v][i].conn = m.conn => line[v][i].num < m.num
      BY <1>1
    <2> QED
      BY <1>1, <1>2, <1>3, <1>4, <2>1, PushOrdered DEF IInv
  <1>9. BlockedNewest'
    <2> SUFFICES ASSUME NEW l \in Loops, blocked[l] # <<>>
                 PROVE  /\ blocked[l][1] \in Message
                        /\ loopOf[blocked[l][1].conn] = l
                        /\ blocked[l][1].num = ndispatched'[blocked[l][1].conn]
                        /\ blocked[l][1].event = "Close" => cstate'[blocked[l][1].conn] = "closed"
                        /\ \A v \in Workers : \A i \in DOMAIN line'[v] :
                             line'[v][i].conn = blocked[l][1].conn => line'[v][i].num < blocked[l][1].num
      BY <1>2 DEF BlockedNewest
    <2>1. /\ blocked[l][1] \in Message
          /\ loopOf[blocked[l][1].conn] = l
          /\ blocked[l][1].num = ndispatched[blocked[l][1].conn]
          /\ blocked[l][1].event = "Close" => cstate[blocked[l][1].conn] = "closed"
          /\ \A v \in Workers : \A i \in DOMAIN line[v] :
               line[v][i].conn = blocked[l][1].conn => line[v][i].num < blocked[l][1].num
      BY DEF IInv, BlockedNewest
    <2>2. blocked[l][1].conn \in Conns /\ blocked[l][1].conn # c
      BY <1>1, <2>1 DEF Message
    <2>3. ASSUME NEW v \in Workers, NEW i \in DOMAIN line'[v],
                 line'[v][i].conn = blocked[l][1].conn
          PROVE  line'[v][i].num < blocked[l][1].num
      <3>1. i \in DOMAIN line[v]
        BY <1>1, <1>4, <2>2, <2>3 DEF Pushed
      <3> QED
        BY <1>4, <2>1, <2>3, <3>1 DEF Pushed
    <2> QED
      BY <1>1, <2>1, <2>2, <2>3
  <1>10. NoneLost'
    <2> SUFFICES ASSUME NEW d \in Conns, NEW n \in 1..ndispatched'[d]
                 PROVE  \/ \E i \in DOMAIN line'[workerIndex[d]] :
                             line'[workerIndex[d]][i].conn = d /\ line'[workerIndex[d]][i].num = n
                        \/ /\ blocked[loopOf[d]] # <<>>
                           /\ blocked[loopOf[d]][1].conn = d
                           /\ blocked[loopOf[d]][1].num = n
      BY <1>2 DEF NoneLost
    <2>1. CASE d = c /\ n = ndispatched[c] + 1
      BY <1>1, <1>4, <2>1 DEF Pushed
    <2>2. CASE ~(d = c /\ n = ndispatched[c] + 1)
      <3>1. n \in 1..ndispatched[d]
        BY <1>1, <2>2
      <3>2. CASE \E i \in DOMAIN line[workerIndex[d]] :
                   line[workerIndex[d]][i].conn = d /\ line[workerIndex[d]][i].num = n
        <4>1. workerIndex[d] \in Workers
          BY DEF IInv, TypeOK
        <4> QED
          BY <1>4, <3>2, <4>1 DEF Pushed
      <3> QED
        BY <3>1, <3>2 DEF IInv, NoneLost
    <2> QED
      BY <2>1, <2>2
  <1>11. CloseLast'
    <2> SUFFICES ASSUME NEW v \in Workers, NEW i \in DOMAIN line'[v],
                        line'[v][i].event = "Close"
                 PROVE  /\ cstate'[line'[v][i].conn] = "closed"
                        /\ line'[v][i].num = ndispatched'[line'[v][i].conn]
      BY DEF CloseLast
    <2>1. CASE i \in DOMAIN line[v]
      <3>1. line'[v][i] = line[v][i]
        BY <1>4, <2>1 DEF Pushed
      <3>2. line[v][i].conn \in Conns /\ line[v][i].conn # c
        BY <1>1, <2>1, <3>1 DEF Message
      <3> QED
        BY <1>1, <2>1, <3>1, <3>2 DEF IInv, CloseLast
    <2>2. CASE line'[v][i] = m
      BY <1>1, <2>2 DEF IInv, TypeOK, DispatchFrame
    <2> QED
      BY <1>4, <2>1, <2>2 DEF Pushed
  <1> QED
    BY <1>5, <1>6, <1>7, <1>8, <1>9, <1>10, <1>11 DEF IInv

LEMMA OnTrafficOK ==
  ASSUME IInv, NEW c \in Conns, OnTraffic(c)
  PROVE  IInv'
  <1>1. cstate[c] = "open" /\ LoopFree(c) /\ Dispatch(c, "Data")
    BY DEF OnTraffic
  <1>2. DispatchFrame(c, "Data")
    <2>1. [cstate EXCEPT ![c] = "open"] = cstate
      BY <1>1 DEF IInv, TypeOK
    <2> QED
      BY <2>1 DEF OnTraffic, DispatchFrame, IInv, TypeOK
  <1> QED
    BY <1>1, <1>2, DispatchWaitsOK, DispatchPushesOK

LEMMA OnCloseOK ==
  ASSUME IInv, NEW c \in Conns, OnClose(c)
  PROVE  IInv'
  <1>1. cstate[c] = "open" /\ LoopFree(c) /\ Dispatch(c, "Close")
    BY DEF OnClose
  <1>2. DispatchFrame(c, "Close")
    BY DEF OnClose, DispatchFrame, IInv, TypeOK
  <1> QED
    BY <1>1, <1>2, DispatchWaitsOK, DispatchPushesOK

(***************************************************************************)
(* A loop goes on, a worker receives                                       *)
(***************************************************************************)

\* What a loop held was the newest of its connection: on the channel it comes
\* behind the others.
LEMMA UnblockOK ==
  ASSUME IInv, NEW l \in Loops, Unblock(l)
  PROVE  IInv'
  <1> DEFINE m == blocked[l][1]
             w == workerIndex[m.conn]
  <1>1. /\ m \in Message /\ loopOf[m.conn] = l /\ m.num = ndispatched[m.conn]
        /\ m.event = "Close" => cstate[m.conn] = "closed"
        /\ \A v \in Workers : \A i \in DOMAIN line[v] :
             line[v][i].conn = m.conn => line[v][i].num < m.num
    BY DEF Unblock, IInv, BlockedNewest
  <1>2. /\ line' = [line EXCEPT ![w] = Append(@, m)]
        /\ blocked' = [blocked EXCEPT ![l] = <<>>]
        /\ UNCHANGED <<nextWorkerIndex, cstate, loopOf, workerIndex, ndispatched, npkts, taken>>
    BY DEF Unblock, Assigned
  <1>3. m.conn \in Conns /\ m.num \in Nat
    BY <1>1 DEF Message
  <1>4. line \in [Workers -> Seq(Message)] /\ w \in Workers
    BY <1>3 DEF IInv, TypeOK
  <1>5. blocked'[l] = <<>> /\ \A k \in Loops : k # l => blocked'[k] = blocked[k]
    BY <1>2 DEF IInv, TypeOK
  <1> HIDE DEF m
  <1>6. Pushed(w, m)
    BY <1>1, <1>2, <1>4, AppendPushes
  <1>7. TypeOK'
    BY <1>2, <1>6 DEF IInv, TypeOK, Pushed
  <1>8. OpenedFirst'
    BY <1>2 DEF IInv, OpenedFirst
  <1>9. LinesPast'
    BY <1>1, <1>2, <1>3, <1>6 DEF IInv, LinesPast, Pushed, TypeOK
  <1>10. LinesOrdered' /\ OneWorker'
    BY <1>1, <1>2, <1>4, <1>6, PushOrdered DEF IInv
  <1>11. BlockedNewest'
    <2> SUFFICES ASSUME NEW k \in Loops, blocked'[k] # <<>>
                 PROVE  /\ blocked'[k][1] \in Message
                        /\ loopOf[blocked'[k][1].conn] = k
                        /\ blocked'[k][1].num = ndispatched[blocked'[k][1].conn]
                        /\ blocked'[k][1].event = "Close" => cstate[blocked'[k][1].conn] = "closed"
                        /\ \A v \in Workers : \A i \in DOMAIN line'[v] :
                             line'[v][i].conn = blocked'[k][1].conn => line'[v][i].num < blocked'[k][1].num
      BY <1>2 DEF BlockedNewest
    <2>1. k # l /\ blocked'[k] = blocked[k]
      BY <1>5
    <2>2. /\ blocked[k][1] \in Message
          /\ loopOf[blocked[k][1].conn] = k
          /\ blocked[k][1].num = ndispatched[blocked[k][1].conn]
          /\ blocked[k][1].event = "Close" => cstate[blocked[k][1].conn] = "closed"
          /\ \A v \in Workers : \A i \in DOMAIN line[v] :
               line[v][i].conn = blocked[k][1].conn => line[v][i].num < blocked[k][1].num
      BY <2>1 DEF IInv, BlockedNewest
    <2>3. blocked[k][1].conn # m.conn
      BY <1>1, <2>1, <2>2
    <2>4. ASSUME NEW v \in Workers, NEW i \in DOMAIN line'[v],
                 line'[v][i].conn = blocked[k][1].conn
          PROVE  line'[v][i].num < blocked[k][1].num
      BY <1>6, <2>2, <2>3, <2>4 DEF Pushed
    <2> QED
      BY <2>1, <2>2, <2>4
  <1>12. NoneLost'
    <2> SUFFICES ASSUME NEW d \in Conns, NEW n \in 1..ndispatched[d]
                 PROVE  \/ \E i \in DOMAIN line'[workerIndex[d]] :
                             line'[workerIndex[d]][i].conn = d /\ line'[workerIndex[d]][i].num = n
                        \/ /\ blocked'[loopOf[d]] # <<>>
                           /\ blocked'[loopOf[d]][1].conn = d
                           /\ blocked'[loopOf[d]][1].num = n
      BY <1>2 DEF NoneLost
    <2>0. workerIndex[d] \in Workers /\ loopOf[d] \in Loops
      BY DEF IInv, TypeOK
    <2>1. CASE \E i \in DOMAIN line[workerIndex[d]] :
                 line[workerIndex[d]][i].conn = d /\ line[workerIndex[d]][i].num = n
      BY <1>6, <2>0, <2>1 DEF Pushed
    <2>2. CASE /\ blocked[loopOf[d]] # <<>>
               /\ blocked[loopOf[d]][1].conn = d
               /\ blocked[loopOf[d]][1].num = n
      <3>1. CASE loopOf[d] = l
        BY <1>6, <2>2, <3>1 DEF Pushed, m
      <3>2. CASE loopOf[d] # l
        BY <1>5, <2>0, <2>2, <3>2
      <3> QED
        BY <3>1, <3>2
    <2> QED
      BY <2>1, <2>2 DEF IInv, NoneLost
  <1>13. CloseLast'
    BY <1>1, <1>2, <1>6 DEF IInv, CloseLast, Pushed
  <1> QED
    BY <1>7, <1>8, <1>9, <1>10, <1>11, <1>12, <1>13 DEF IInv

\* What is in the channels, counted with what was taken, stays.
LEMMA ReceiveOK ==
  ASSUME IInv, NEW w \in Workers, Receive(w)
  PROVE  IInv'
  <1>1. taken' \in [Workers -> Nat]
    BY DEF Receive, IInv, TypeOK
  <1> QED
    BY <1>1 DEF Receive, IInv, TypeOK, OpenedFirst, LinesPast, BlockedNewest,
                LinesOrdered, OneWorker, NoneLost, CloseLast

(***************************************************************************)
(* The theorems                                                            *)
(***************************************************************************)
LEMMA InitIInv ==
  ASSUME Init
  PROVE  IInv
  <1>1. TypeOK
    BY DispatcherAssumption DEF Init, TypeOK, Workers
  <1>2. \A w \in Workers : DOMAIN line[w] = {}
    BY DEF Init
  <1>3. LinesPast /\ LinesOrdered /\ OneWorker /\ CloseLast
    BY <1>2 DEF LinesPast, LinesOrdered, OneWorker, CloseLast
  <1>4. OpenedFirst /\ BlockedNewest /\ NoneLost
    BY DEF Init, OpenedFirst, BlockedNewest, NoneLost
  <1> QED
    BY <1>1, <1>3, <1>4 DEF IInv

LEMMA NextIInv ==
  ASSUME IInv, [Next]_vars
  PROVE  IInv'
  <1>1. ASSUME NEW c \in Conns, OnOpen(c) \/ OnTraffic(c) \/ OnClose(c)
        PROVE  IInv'
    BY <1>1, OnOpenOK, OnTrafficOK, OnCloseOK
  <1>2. ASSUME NEW l \in Loops, Unblock(l)
        PROVE  IInv'
    BY <1>2, UnblockOK
  <1>3. ASSUME NEW w \in Workers, Receive(w)
        PROVE  IInv'
    BY <1>3, ReceiveOK
  <1>4. CASE UNCHANGED vars
    BY <1>4 DEF vars, IInv, TypeOK, OpenedFirst, LinesPast, BlockedNewest,
                LinesOrdered, OneWorker, NoneLost, CloseLast
  <1> QED
    BY <1>1, <1>2, <1>3, <1>4 DEF Next

\* The inductive invariant of the dispatcher.
THEOREM DispatcherInvariant == Spec => []IInv
  <1>1. Init => IInv
    BY InitIInv
  <1>2. IInv /\ [Next]_vars => IInv'
    BY NextIInv
  <1> QED
    BY <1>1, <1>2, PTL DEF Spec

\* Every variable keeps its type: a connection is only ever assigned to a
\* worker that exists, also when the counter wraps.
THEOREM DispatcherTypes == Spec => []TypeOK
  <1>1. IInv => TypeOK
    BY DEF IInv
  <1> QED
    BY <1>1, DispatcherInvariant, PTL

\* All messages of a connection reach the channel of one worker, in order,
\* none lost or twice, Close last, whatever loops are blocked meanwhile.
THEOREM MessagesInOrder == Spec => []PerConnectionOrder
  <1>1. IInv => PerConnectionOrder
    BY DEF IInv, PerConnectionOrder
  <1> QED
    BY <1>1, DispatcherInvariant, PTL

(***************************************************************************)
(* Round robin                                                             *)
(***************************************************************************)

\* The connections opened so far, and those of them worker w has.
Opened(states) == {c \in Conns : states[c] # "new"}

ServedBy(states, index, w) == {c \in Conns : states[c] # "new" /\ index[c] = w}

\* Every worker has q connections, and the first r have one more.
Dealt(states, index, q, r) ==
  \A w \in Workers :
    /\ IsFiniteSet(ServedBy(states, index, w))
    /\ Cardinality(ServedBy(states, index, w)) = IF w < r THEN q + 1 ELSE q

\* As long as the counter has not wrapped, it is the number of connections
\* opened, and where it stands in its round is where the deal stands.
RoundRobin ==
  /\ IsFiniteSet(Opened(cstate))
  /\ Cardinality(Opened(cstate)) < Uint64 => nextWorkerIndex = Cardinality(Opened(cstate))
  /\ \E q \in Nat : \E r \in 0..(WorkerNum - 1) :
       /\ Cardinality(Opened(cstate)) = q * WorkerNum + r
       /\ Dealt(cstate, workerIndex, q, r)

\* The remainder that assigns the connection.
LEMMA Remainder ==
  ASSUME NEW n \in Nat \ {0}, NEW q \in Nat, NEW r \in 0..(n - 1)
  PROVE  (q * n + r) % n = r
  BY SMT

LEMMA BelowIsSmall ==
  ASSUME NEW n \in Nat \ {0}, NEW k \in 0..(n - 1)
  PROVE  k % n = k
  BY SMT

LEMMA InitRoundRobin ==
  ASSUME Init
  PROVE  RoundRobin
  <1>1. Opened(cstate) = {} /\ \A w \in Workers : ServedBy(cstate, workerIndex, w) = {}
    BY DEF Init, Opened, ServedBy
  <1>2. IsFiniteSet({}) /\ Cardinality({}) = 0
    BY FS_EmptySet
  <1>3. 0 \in Nat /\ 0 \in 0..(WorkerNum - 1) /\ 0 = 0 * WorkerNum + 0
    BY DispatcherAssumption
  <1>4. \A w \in Workers : ~(w < 0)
    BY DispatcherAssumption DEF Workers
  <1>5. Dealt(cstate, workerIndex, 0, 0)
    BY <1>1, <1>2, <1>4 DEF Dealt
  <1>6. nextWorkerIndex = 0
    BY DEF Init
  <1> QED
    BY <1>1, <1>2, <1>3, <1>5, <1>6 DEF RoundRobin

LEMMA OnOpenDeals ==
  ASSUME TypeOK, RoundRobin, IsFiniteSet(Conns), Cardinality(Conns) <= Uint64,
         NEW c \in Conns, OnOpen(c)
  PROVE  RoundRobin'
  <1>1. PICK old, new, was, is :
          /\ old = cstate /\ new = cstate' /\ was = workerIndex /\ is = workerIndex'
    OBVIOUS
  <1>2. PICK k : k = Cardinality(Opened(old))
    OBVIOUS
  <1>3. PICK q \in Nat, r \in 0..(WorkerNum - 1) : k = q * WorkerNum + r /\ Dealt(old, was, q, r)
    BY <1>1, <1>2 DEF RoundRobin
  <1>4. IsFiniteSet(Opened(old)) /\ c \notin Opened(old) /\ Opened(new) = Opened(old) \cup {c}
    BY <1>1 DEF RoundRobin, OnOpen, Opened, TypeOK
  <1>5. k \in Nat /\ IsFiniteSet(Opened(new)) /\ Cardinality(Opened(new)) = k + 1
    BY <1>2, <1>4, FS_CardinalityType, FS_AddElement
  <1>6. k + 1 <= Uint64
    <2>1. Opened(new) \subseteq Conns
      BY DEF Opened
    <2>2. Cardinality(Opened(new)) <= Cardinality(Conns) /\ Cardinality(Conns) \in Nat
      BY <2>1, FS_Subset, FS_CardinalityType
    <2> QED
      BY <1>5, <2>2, DispatcherAssumption
  <1>7. nextWorkerIndex = k
    BY <1>1, <1>2, <1>5, <1>6, DispatcherAssumption DEF RoundRobin
  <1>8. /\ is = [was EXCEPT ![c] = r]
        /\ nextWorkerIndex' = (k + 1) % Uint64
    <2>1. k % WorkerNum = r
      BY <1>3, DispatcherAssumption, Remainder
    <2> QED
      BY <1>1, <1>7, <2>1 DEF OnOpen, Advance
  <1>9. k + 1 < Uint64 => nextWorkerIndex' = k + 1
    BY <1>5, <1>8, DispatcherAssumption, BelowIsSmall
  <1>10. was \in [Conns -> Workers] /\ r \in Workers
    BY <1>1 DEF TypeOK, Workers
  <1>11. ASSUME NEW w \in Workers
         PROVE  /\ IsFiniteSet(ServedBy(new, is, w))
                /\ Cardinality(ServedBy(new, is, w)) =
                     (IF w < r THEN q + 1 ELSE q) + (IF w = r THEN 1 ELSE 0)
    <2>1. IsFiniteSet(ServedBy(old, was, w))
          /\ Cardinality(ServedBy(old, was, w)) = IF w < r THEN q + 1 ELSE q
      BY <1>3 DEF Dealt
    <2>2. CASE w = r
      <3>1. c \notin ServedBy(old, was, w) /\ ServedBy(new, is, w) = ServedBy(old, was, w) \cup {c}
        BY <1>1, <1>8, <1>10, <2>2 DEF OnOpen, ServedBy, TypeOK
      <3> QED
        BY <2>1, <2>2, <3>1, FS_AddElement
    <2>3. CASE w # r
      <3>1. ServedBy(new, is, w) = ServedBy(old, was, w)
        BY <1>1, <1>8, <1>10, <2>3 DEF OnOpen, ServedBy, TypeOK
      <3> QED
        BY <2>1, <2>3, <3>1
    <2> QED
      BY <2>2, <2>3
  <1>12. CASE r + 1 <= WorkerNum - 1
    <2>1. r + 1 \in 0..(WorkerNum - 1) /\ k + 1 = q * WorkerNum + (r + 1)
      <3>1. q * WorkerNum \in Nat
        BY DispatcherAssumption
      <3> QED
        BY <1>3, <1>12, <3>1, DispatcherAssumption
    <2>2. \A w \in Workers :
            (IF w < r THEN q + 1 ELSE q) + (IF w = r THEN 1 ELSE 0) =
              IF w < r + 1 THEN q + 1 ELSE q
      BY DispatcherAssumption DEF Workers
    <2>3. Dealt(new, is, q, r + 1)
      BY <1>11, <2>2 DEF Dealt
    <2> QED
      BY <1>1, <1>5, <1>9, <2>1, <2>3 DEF RoundRobin
  <1>13. CASE r + 1 > WorkerNum - 1
    <2>1. q + 1 \in Nat /\ 0 \in 0..(WorkerNum - 1) /\ k + 1 = (q + 1) * WorkerNum + 0
      <3>1. r = WorkerNum - 1
        BY <1>13, DispatcherAssumption
      <3>2. q * WorkerNum \in Nat /\ (q + 1) * WorkerNum = q * WorkerNum + WorkerNum
        BY DispatcherAssumption
      <3> QED
        BY <1>3, <3>1, <3>2, DispatcherAssumption
    <2>2. \A w \in Workers :
            (IF w < r THEN q + 1 ELSE q) + (IF w = r THEN 1 ELSE 0) =
              IF w < 0 THEN q + 1 + 1 ELSE q + 1
      BY <1>13, DispatcherAssumption DEF Workers
    <2>3. Dealt(new, is, q + 1, 0)
      BY <1>11, <2>2 DEF Dealt
    <2> QED
      BY <1>1, <1>5, <1>9, <2>1, <2>3 DEF RoundRobin
  <1> QED
    BY <1>12, <1>13, DispatcherAssumption

\* Only OnOpen opens a connection or gives it a worker.
LEMMA NextRoundRobin ==
  ASSUME TypeOK, RoundRobin, IsFiniteSet(Conns), Cardinality(Conns) <= Uint64, [Next]_vars
  PROVE  RoundRobin'
  <1>1. ASSUME UNCHANGED <<nextWorkerIndex, workerIndex>>,
               \A c \in Conns : cstate'[c] # "new" <=> cstate[c] # "new"
        PROVE  RoundRobin'
    <2>1. Opened(cstate') = Opened(cstate)
      BY <1>1 DEF Opened
    <2>2. \A w : ServedBy(cstate', workerIndex', w) = ServedBy(cstate, workerIndex, w)
      BY <1>1 DEF ServedBy
    <2>3. \A q, r : Dealt(cstate, workerIndex, q, r) => Dealt(cstate', workerIndex', q, r)
      BY <2>2 DEF Dealt
    <2> QED
      BY <1>1, <2>1, <2>3 DEF RoundRobin
  <1>2. ASSUME NEW c \in Conns, OnOpen(c)
        PROVE  RoundRobin'
    BY <1>2, OnOpenDeals
  <1>3. ASSUME NEW c \in Conns, OnTraffic(c) \/ OnClose(c)
        PROVE  RoundRobin'
    <2>1. UNCHANGED <<nextWorkerIndex, workerIndex>>
      BY <1>3 DEF OnTraffic, OnClose, Dispatch
    <2>2. CASE OnTraffic(c)
      <3>1. UNCHANGED cstate
        BY <2>2 DEF OnTraffic
      <3> QED
        BY <1>1, <2>1, <3>1
    <2>3. CASE OnClose(c)
      <3>1. cstate[c] = "open" /\ cstate' = [cstate EXCEPT ![c] = "closed"]
        BY <2>3 DEF OnClose
      <3>2. \A b \in Conns : cstate'[b] # "new" <=> cstate[b] # "new"
        BY <3>1 DEF TypeOK
      <3> QED
        BY <1>1, <2>1, <3>2
    <2> QED
      BY <1>3, <2>2, <2>3
  <1>4. CASE \/ \E l \in Loops : Unblock(l)
             \/ \E w \in Workers : Receive(w)
             \/ UNCHANGED vars
    <2>1. UNCHANGED <<nextWorkerIndex, workerIndex, cstate>>
      BY <1>4 DEF Unblock, Receive, vars
    <2> QED
      BY <1>1, <2>1
  <1> QED
    BY <1>2, <1>3, <1>4 DEF Next

\* Round robin deals evenly: of the connections opened so far no worker has
\* two more than another, in whatever order the loops open them, as long as
\* the 64-bit counter does not wrap (dispatcher.go:65).
THEOREM DealtEvenly ==
  ASSUME IsFiniteSet(Conns), Cardinality(Conns) <= Uint64
  PROVE  Spec => []Balanced
  <1>1. Init => RoundRobin
    BY InitRoundRobin
  <1>2. IInv /\ RoundRobin /\ [Next]_vars => RoundRobin'
    BY NextRoundRobin DEF IInv
  <1>3. RoundRobin => Balanced
    <2> SUFFICES ASSUME RoundRobin PROVE Balanced
      OBVIOUS
    <2>1. PICK q \in Nat, r \in 0..(WorkerNum - 1) : Dealt(cstate, workerIndex, q, r)
      BY DEF RoundRobin
    <2>2. \A w \in Workers : LET n == Cardinality(ServedBy(cstate, workerIndex, w)) IN
            n \in Nat /\ q <= n /\ n <= q + 1
      BY <2>1 DEF Dealt
    <2>3. \A v, w \in Workers :
            Cardinality(ServedBy(cstate, workerIndex, v))
              <= Cardinality(ServedBy(cstate, workerIndex, w)) + 1
      BY <2>2
    <2> QED
      BY <2>3 DEF Balanced, ServedBy
  <1> QED
    BY <1>1, <1>2, <1>3, DispatcherInvariant, PTL DEF Spec
=============================================================================
