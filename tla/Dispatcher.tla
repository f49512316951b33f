------------------------------ MODULE Dispatcher ------------------------------
(***************************************************************************)
(* The server's dispatcher, server/dispatcher.go: the event loops of gnet  *)
(* that own the client connections, the counter that assigns every new     *)
(* connection to a worker, and the workers' bounded channels, which many   *)
(* loops feed.  What a worker does with a message is ServerWorker.         *)
(*                                                                         *)
(* A channel is kept with its past: "line" is all that was ever pushed on  *)
(* it, and "taken" says how much of that its worker has received.          *)
(***************************************************************************)
EXTENDS Integers, Sequences, FiniteSets

CONSTANTS
  Loops,        \* event loops: one, or one per core with --multicore
  Conns,        \* client connections
  WorkerNum,    \* workers
  MsgChanSize,  \* capacity of a worker's channel
  Uint64,       \* nextWorkerIndex counts modulo this
  MaxMsgs       \* bound: packets a connection sends

ASSUME DispatcherAssumption ==
  /\ WorkerNum \in Nat \ {0}
  /\ MsgChanSize \in Nat \ {0}
  /\ Uint64 \in Nat \ {0}
  /\ MaxMsgs \in Nat

Workers == 0..(WorkerNum - 1)

VARIABLES
  nextWorkerIndex,  \* the atomic counter
  cstate,           \* connection: "new", "open", "closed"
  loopOf,           \* the loop of each connection that was opened
  workerIndex,      \* its dispatchContext
  ndispatched,      \* messages dispatched for each connection, numbered
  npkts,            \* packets each connection has sent
  blocked,          \* the message each loop is waiting to push, <<>> if none
  line,             \* all that was pushed on each worker's channel
  taken             \* how many of them the worker has received

vars == <<nextWorkerIndex, cstate, loopOf, workerIndex, ndispatched, npkts,
          blocked, line, taken>>

Init ==
  /\ nextWorkerIndex = 0
  /\ cstate = [c \in Conns |-> "new"]
  /\ loopOf \in [Conns -> Loops]
  /\ workerIndex = [c \in Conns |-> 0]
  /\ ndispatched = [c \in Conns |-> 0]
  /\ npkts = [c \in Conns |-> 0]
  /\ blocked = [l \in Loops |-> <<>>]
  /\ line = [w \in Workers |-> <<>>]
  /\ taken = [w \in Workers |-> 0]

Full(w) == Len(line[w]) - taken[w] >= MsgChanSize

LoopFree(c) == blocked[loopOf[c]] = <<>>

\* Mutant: the counter is read and not advanced.
AdvanceNot(n) == n
Advance(n) == (n + 1) % Uint64

\* Mutant: the counter is asked again for every message.
AssignedNow(c) == nextWorkerIndex % WorkerNum
Assigned(c) == workerIndex[c]

OnOpen(c) ==
  /\ cstate[c] = "new" /\ LoopFree(c)
  /\ cstate' = [cstate EXCEPT ![c] = "open"]
  /\ nextWorkerIndex' = Advance(nextWorkerIndex)
  /\ workerIndex' = [workerIndex EXCEPT ![c] = nextWorkerIndex % WorkerNum]
  /\ UNCHANGED <<loopOf, ndispatched, npkts, blocked, line, taken>>

Msg(c, event) == [conn |-> c, num |-> ndispatched[c] + 1, event |-> event]

\* Mutant: a message that finds the channel full is dropped.
WaitDropping(c, msg) == UNCHANGED blocked

\* The loop stops at a full channel.
Wait(c, msg) == blocked' = [blocked EXCEPT ![loopOf[c]] = <<msg>>]

Dispatch(c, event) ==
  /\ ndispatched' = [ndispatched EXCEPT ![c] = @ + 1]
  /\ IF Full(Assigned(c))
       THEN /\ Wait(c, Msg(c, event))
            /\ UNCHANGED line
       ELSE /\ line' = [line EXCEPT ![Assigned(c)] = Append(@, Msg(c, event))]
            /\ UNCHANGED blocked
  /\ UNCHANGED <<nextWorkerIndex, loopOf, workerIndex, taken>>

\* The packets of one read go in one message; a read that completes no
\* packet dispatches nothing.
OnTraffic(c) ==
  /\ cstate[c] = "open" /\ LoopFree(c)
  /\ npkts[c] < MaxMsgs
  /\ npkts' = [npkts EXCEPT ![c] = @ + 1]
  /\ Dispatch(c, "Data")
  /\ UNCHANGED cstate

\* The peer closed, the worker asked for it, or OnTraffic was rejected, and
\* with it what was parsed in that read.
OnClose(c) ==
  /\ cstate[c] = "open" /\ LoopFree(c)
  /\ cstate' = [cstate EXCEPT ![c] = "closed"]
  /\ Dispatch(c, "Close")
  /\ UNCHANGED npkts

\* A loop goes on when there is room; blocked loops are served in any order.
Unblock(l) ==
  /\ blocked[l] # <<>>
  /\ ~Full(Assigned(blocked[l][1].conn))
  /\ line' = [line EXCEPT ![Assigned(blocked[l][1].conn)] = Append(@, blocked[l][1])]
  /\ blocked' = [blocked EXCEPT ![l] = <<>>]
  /\ UNCHANGED <<nextWorkerIndex, cstate, loopOf, workerIndex, ndispatched, npkts, taken>>

\* The worker's upstream goroutine receives.
Receive(w) ==
  /\ taken[w] < Len(line[w])
  /\ taken' = [taken EXCEPT ![w] = @ + 1]
  /\ UNCHANGED <<nextWorkerIndex, cstate, loopOf, workerIndex, ndispatched, npkts,
                 blocked, line>>

\* Every connection is closed and its messages received.
Quiescent ==
  /\ \A c \in Conns : cstate[c] = "closed"
  /\ \A l \in Loops : blocked[l] = <<>>
  /\ \A w \in Workers : taken[w] = Len(line[w])

Next ==
  \/ \E c \in Conns : OnOpen(c) \/ OnTraffic(c) \/ OnClose(c)
  \/ \E l \in Loops : Unblock(l)
  \/ \E w \in Workers : Receive(w)
  \/ Quiescent /\ UNCHANGED vars

Spec == Init /\ [][Next]_vars

\* A worker's upstream goroutine comes back to its channel again and again:
\* nothing it calls waits for a client (ServerWorker).  The channel serves
\* the loops that wait for it in turn.
Fairness ==
  /\ \A w \in Workers : WF_vars(Receive(w))
  /\ \A l \in Loops : SF_vars(Unblock(l))

FairSpec == Spec /\ Fairness

(***************************************************************************)
(* Types                                                                   *)
(***************************************************************************)
Message == [conn : Conns, num : Nat \ {0}, event : {"Data", "Close"}]

TypeOK ==
  /\ nextWorkerIndex \in Nat
  /\ cstate \in [Conns -> {"new", "open", "closed"}]
  /\ loopOf \in [Conns -> Loops]
  /\ workerIndex \in [Conns -> Workers]
  /\ ndispatched \in [Conns -> Nat]
  /\ npkts \in [Conns -> Nat]
  /\ blocked \in [Loops -> Seq(Message)]
  /\ line \in [Workers -> Seq(Message)]
  /\ taken \in [Workers -> Nat]

(***************************************************************************)
(* Safety                                                                  *)
(***************************************************************************)

\* In a channel the messages of a connection have the order in which they
\* were dispatched, and none comes twice.
LinesOrdered ==
  \A w \in Workers : \A i, j \in DOMAIN line[w] :
    i < j /\ line[w][i].conn = line[w][j].conn => line[w][i].num < line[w][j].num

\* All messages of a connection are for one worker.
OneWorker ==
  \A w \in Workers : \A i \in DOMAIN line[w] : workerIndex[line[w][i].conn] = w

\* Nothing is lost: the loop holds the newest message, or all are pushed.
NoneLost ==
  \A c \in Conns : \A n \in 1..ndispatched[c] :
    \/ \E i \in DOMAIN line[workerIndex[c]] :
         line[workerIndex[c]][i].conn = c /\ line[workerIndex[c]][i].num = n
    \/ /\ blocked[loopOf[c]] # <<>>
       /\ blocked[loopOf[c]][1].conn = c
       /\ blocked[loopOf[c]][1].num = n

\* Close is the last message of a connection.
CloseLast ==
  \A w \in Workers : \A i \in DOMAIN line[w] :
    line[w][i].event = "Close" =>
      /\ cstate[line[w][i].conn] = "closed"
      /\ line[w][i].num = ndispatched[line[w][i].conn]

\* However many loops feed however many channels, and whichever of them are
\* full: what a worker receives of a connection is all of its messages, in
\* order, Close last, and no other worker receives any.  ServerWorker, which
\* keeps the sessions of a connection without its peers, depends on it.
PerConnectionOrder == LinesOrdered /\ OneWorker /\ NoneLost /\ CloseLast

\* Round robin: of the connections opened so far no worker has two more than
\* another, in whatever order the loops open them.
Balanced ==
  LET Served(w) == Cardinality({c \in Conns : cstate[c] # "new" /\ workerIndex[c] = w})
  IN  \A v, w \in Workers : Served(v) <= Served(w) + 1

(***************************************************************************)
(* Liveness                                                                *)
(***************************************************************************)

\* The worker of a connection that has closed is told of it, full channels
\* and blocked loops or not: otherwise its session and its destination
\* connection would stay for ever.
CloseTold ==
  \A c \in Conns :
    cstate[c] = "closed" ~>
      \E i \in 1..taken[workerIndex[c]] :
        /\ line[workerIndex[c]][i].conn = c
        /\ line[workerIndex[c]][i].event = "Close"
=============================================================================
