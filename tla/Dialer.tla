------------------------------- MODULE Dialer -------------------------------
(***************************************************************************)
(* network/dialer: the goroutines started by AsyncDial, the semaphore that *)
(* bounds them, the single gnet event loop that owns every outbound        *)
(* connection, and the two channels on which dial results and connection   *)
(* events reach the code that owns the Dialer (a server worker, or the     *)
(* client's forwarder).                                                    *)
(*                                                                         *)
(* A dial and the connection it produces share one identity: the position  *)
(* of the AsyncDial call in "dials".  "conns[d]" is the gnet.Conn made by  *)
(* dial d; it exists for the program from its OnOpen on.                   *)
(*                                                                         *)
(* gnet itself is external.  What is used of it: EnrollContext registers   *)
(* the connection on the loop and returns after OnOpen; AsyncWrite and     *)
(* Close only queue a task for the loop, in order; a write that fails      *)
(* closes the connection (OnClose runs) and only then runs the write's     *)
(* callback; a write to a closed connection only runs the callback.  Bytes *)
(* the loop has written ("out") are taken to reach the peer ahead of an    *)
(* orderly close: what the kernel does with them is beyond this module.    *)
(***************************************************************************)
EXTENDS Integers, Sequences

CONSTANTS
  MaxConcurrentDials,   \* capacity of dialSem
  DialResultChanSize,   \* capacity of dialResultChan
  RecvChanSize,         \* capacity of the handler's recvChan
  DialErrorToRecvChan,  \* TRUE: the client's mode (SetDialErrorToRecvChan)
  MaxIn                 \* bound: packets a peer sends on one connection

ASSUME DialerAssumption ==
  /\ MaxConcurrentDials \in Nat \ {0}
  /\ DialResultChanSize \in Nat \ {0}
  /\ RecvChanSize \in Nat \ {0}
  /\ DialErrorToRecvChan \in BOOLEAN
  /\ MaxIn \in Nat

VARIABLES
  dials,           \* the AsyncDial calls: [token, pc] of each goroutine
  conns,           \* conns[d]: [st, out, in] of the connection of dial d
  dialSem,         \* tokens held in the semaphore channel
  tasks,           \* writes and closes queued for the event loop
  loop,            \* what the event loop is in the middle of
  recvChan,        \* connection events, for the owner of the Dialer
  dialResultChan   \* results of dials, for the owner (default mode)

dialerVars ==
  <<dials, conns, dialSem, tasks, loop, recvChan, dialResultChan>>

NoConn == 0

\* A goroutine holds the semaphore in every pc but the first and the last.
DialPC == {"spawned", "dialing", "failed", "enrolling", "opened", "done"}

NewConn == [st |-> "new", out |-> <<>>, in |-> 0]

DataMsg(d, pkts) == [event |-> "Data", conn |-> d, pkts |-> pkts]
CloseMsg(d)      == [event |-> "Close", conn |-> d, pkts |-> <<>>]
OpenMsg(d)       == [event |-> "Open", conn |-> d, pkts |-> <<>>]
DialErrorMsg(d)  == [event |-> "DialError", conn |-> d, pkts |-> <<>>]

\* dials and conns with one field of one entry changed.
DialAt(d, pc)     == [dials EXCEPT ![d] = [token |-> @.token, pc |-> pc]]
ConnAt(d, st)     == [conns EXCEPT ![d] = [st |-> st, out |-> @.out, in |-> @.in]]
ConnWritten(d, p) == [conns EXCEPT ![d] = [st |-> @.st, out |-> Append(@.out, p), in |-> @.in]]
ConnRead(d)       == [conns EXCEPT ![d] = [st |-> @.st, out |-> @.out, in |-> @.in + 1]]

WriteTask(d, payload) == [op |-> "write", conn |-> d, payload |-> payload]
CloseTask(d)          == [op |-> "close", conn |-> d]

DialerInit ==
  /\ dials = <<>>
  /\ conns = <<>>
  /\ dialSem = 0
  /\ tasks = <<>>
  /\ loop = [blocked |-> <<>>, failed |-> NoConn]
  /\ recvChan = <<>>
  /\ dialResultChan = <<>>

(***************************************************************************)
(* Dial goroutines                                                         *)
(***************************************************************************)

SemFree == dialSem < MaxConcurrentDials

SemRelease == dialSem' = dialSem - 1

\* AsyncDial: the caller only starts the goroutine.
AsyncDial(token) ==
  /\ dials' = Append(dials, [token |-> token, pc |-> "spawned"])
  /\ conns' = Append(conns, NewConn)
  /\ UNCHANGED <<dialSem, tasks, loop, recvChan, dialResultChan>>

\* The goroutine takes a semaphore token before it dials.
AcquireSem(d) ==
  /\ d \in DOMAIN dials
  /\ dials[d].pc = "spawned"
  /\ SemFree
  /\ dialSem' = dialSem + 1
  /\ dials' = DialAt(d, "dialing")
  /\ UNCHANGED <<conns, tasks, loop, recvChan, dialResultChan>>

\* DialContext connects (EnrollContext then waits for the loop), or fails:
\* refused, not enrolled, or the two second timeout.
DialFinishes(d) ==
  /\ d \in DOMAIN dials
  /\ dials[d].pc = "dialing"
  /\ \E pc \in {"enrolling", "failed"} :
       dials' = DialAt(d, pc)
  /\ UNCHANGED <<conns, dialSem, tasks, loop, recvChan, dialResultChan>>

\* EnrollContext keeps the goroutine while OnOpen is stopped at a full
\* recvChan.  (With a hook OnOpen posts nothing and never stops.)
OnOpenReturned(d) == OpenMsg(d) \notin {loop.blocked[i] : i \in DOMAIN loop.blocked}

\* The goroutine reports the outcome and, deferred, leaves the semaphore.
DialReports(d) ==
  /\ d \in DOMAIN dials
  /\ dials[d].pc \in {"failed", "opened"}
  /\ OnOpenReturned(d)
  /\ IF DialErrorToRecvChan
       THEN /\ IF dials[d].pc = "failed"
                 THEN /\ Len(recvChan) < RecvChanSize
                      /\ recvChan' = Append(recvChan, DialErrorMsg(d))
                 ELSE recvChan' = recvChan
            /\ UNCHANGED dialResultChan
       ELSE /\ Len(dialResultChan) < DialResultChanSize
            /\ dialResultChan' =
                 Append(dialResultChan, [conn |-> d, err |-> dials[d].pc = "failed"])
            /\ UNCHANGED recvChan
  /\ SemRelease
  /\ dials' = DialAt(d, "done")
  /\ UNCHANGED <<conns, tasks, loop>>

(***************************************************************************)
(* The event loop                                                          *)
(***************************************************************************)

LoopIdle == loop.blocked = <<>> /\ loop.failed = NoConn

\* Mutant: an event that finds recvChan full is dropped.
PostDropping(msg, failed) ==
  /\ recvChan' = IF Len(recvChan) < RecvChanSize THEN Append(recvChan, msg) ELSE recvChan
  /\ loop' = [blocked |-> <<>>, failed |-> failed]

\* A handler pushes msg on recvChan; the loop stops there while it is full.
\* failed is the connection whose write callback is to run afterwards.
Post(msg, failed) ==
  IF Len(recvChan) < RecvChanSize
    THEN /\ recvChan' = Append(recvChan, msg)
         /\ loop' = [blocked |-> <<>>, failed |-> failed]
    ELSE /\ loop' = [blocked |-> <<msg>>, failed |-> failed]
         /\ UNCHANGED recvChan

LoopUnblocks ==
  /\ loop.blocked # <<>>
  /\ Len(recvChan) < RecvChanSize
  /\ recvChan' = Append(recvChan, Head(loop.blocked))
  /\ loop' = [blocked |-> <<>>, failed |-> loop.failed]
  /\ UNCHANGED <<dials, conns, dialSem, tasks, dialResultChan>>

\* The connection of dial d is registered on the loop, ahead of any event of
\* its own; "accepted" is what the owner's OnOpen hook returned (TRUE for
\* gnet.None, FALSE for gnet.Close).
OnOpenHooked(d, accepted) ==
  /\ LoopIdle
  /\ d \in DOMAIN dials
  /\ dials[d].pc = "enrolling"
  /\ dials' = DialAt(d, "opened")
  /\ IF accepted
       THEN /\ conns' = ConnAt(d, "open")
            /\ UNCHANGED <<loop, recvChan>>
       ELSE /\ conns' = ConnAt(d, "closed")
            /\ Post(CloseMsg(d), NoConn)
  /\ UNCHANGED <<dialSem, tasks, dialResultChan>>

\* Without a hook the event is posted.
OnOpenPosted(d) ==
  /\ LoopIdle
  /\ d \in DOMAIN dials
  /\ dials[d].pc = "enrolling"
  /\ dials' = DialAt(d, "opened")
  /\ conns' = ConnAt(d, "open")
  /\ Post(OpenMsg(d), NoConn)
  /\ UNCHANGED <<dialSem, tasks, dialResultChan>>

\* OnTraffic: the Plain protocol makes one packet of all that was read.
OnTraffic(d) ==
  /\ LoopIdle
  /\ d \in DOMAIN conns
  /\ conns[d].st = "open"
  /\ conns[d].in < MaxIn
  /\ conns' = ConnRead(d)
  /\ Post(DataMsg(d, <<[conn |-> d, seq |-> conns[d].in + 1]>>), NoConn)
  /\ UNCHANGED <<dials, dialSem, tasks, dialResultChan>>

\* OnClose after the peer closed or reset, or sent what cannot be parsed.
PeerCloses(d) ==
  /\ LoopIdle
  /\ d \in DOMAIN conns
  /\ conns[d].st = "open"
  /\ conns' = ConnAt(d, "closed")
  /\ Post(CloseMsg(d), NoConn)
  /\ UNCHANGED <<dials, dialSem, tasks, dialResultChan>>

\* The loop runs the next queued task.
RunWrite ==
  /\ LoopIdle
  /\ tasks # <<>>
  /\ Head(tasks).op = "write"
  /\ LET d == Head(tasks).conn IN
       \/ /\ conns[d].st = "open"
          /\ conns' = ConnWritten(d, Head(tasks).payload)
          /\ UNCHANGED <<loop, recvChan>>
       \/ /\ conns[d].st = "open"
          /\ conns' = ConnAt(d, "closed")
          /\ Post(CloseMsg(d), d)
       \/ /\ conns[d].st = "closed"
          /\ loop' = [blocked |-> <<>>, failed |-> d]
          /\ UNCHANGED <<conns, recvChan>>
  /\ tasks' = Tail(tasks)
  /\ UNCHANGED <<dials, dialSem, dialResultChan>>

RunClose ==
  /\ LoopIdle
  /\ tasks # <<>>
  /\ Head(tasks).op = "close"
  /\ LET d == Head(tasks).conn IN
       IF conns[d].st = "open"
         THEN /\ conns' = ConnAt(d, "closed")
              /\ Post(CloseMsg(d), NoConn)
         ELSE UNCHANGED <<conns, loop, recvChan>>
  /\ tasks' = Tail(tasks)
  /\ UNCHANGED <<dials, dialSem, dialResultChan>>

\* The callback of a failed write has run; newTasks is what it queued.
WriteErrorDone(newTasks) ==
  /\ loop.blocked = <<>>
  /\ loop.failed # NoConn
  /\ loop' = [blocked |-> <<>>, failed |-> NoConn]
  /\ tasks' = tasks \o newTasks
  /\ UNCHANGED <<dials, conns, dialSem, recvChan, dialResultChan>>

(***************************************************************************)
(* Steps that need no help from the owner of the Dialer.                   *)
(***************************************************************************)
DialStep(d) == AcquireSem(d) \/ DialFinishes(d) \/ DialReports(d)

LoopStep == LoopUnblocks \/ RunWrite \/ RunClose

PeerStep(d) == OnTraffic(d) \/ PeerCloses(d)
=============================================================================
