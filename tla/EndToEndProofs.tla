---------------------------- MODULE EndToEndProofs ----------------------------
(***************************************************************************)
(* EndToEndInOrder and OrderlyCloseLosesNothing for any users,             *)
(* destinations, number of units and capacity of the channels.             *)
(*                                                                         *)
(* Each side of EndToEnd takes only steps its own module has, whatever the *)
(* other does, so what ClientForwarderProofs and ServerOrderProofs say of  *)
(* client and worker holds here; what joins the two orders is LinkInv, and *)
(* what joins the two closes OrderlyInv.                                   *)
(***************************************************************************)
EXTENDS EndToEnd, FiniteSetTheorems, TLAPS

CP == INSTANCE ClientForwarderProofs WITH
        Kinds <- {"handshake"}, HandshakeKept <- FALSE, LongDests <- FALSE,
        ReadSizes <- {1}, DialErrorToRecvChan <- TRUE,
        MaxIn <- MaxIn * MaxUnits * Cardinality(Links),
        dials <- cdials, conns <- cconns, dialSem <- cdialSem, tasks <- ctasks,
        loop <- cloop, recvChan <- crecvChan, dialResultChan <- cdialResultChan,
        sess <- csess, delivered <- toUser

SP == INSTANCE ServerOrderProofs WITH
        Clients <- Links, MaxUp <- MaxUnits, UpBatches <- 1..MaxUnits,
        DialErrorToRecvChan <- FALSE

LEMMA LinksCounted == IsFiniteSet(Links) /\ Cardinality(Links) \in Nat /\ Links \subseteq Nat \ {0}
  <1>1. Cardinality(Users) \in Nat
    BY EndToEndAssumption, FS_CardinalityType
  <1>2. Cardinality(Users) * MaxUnits \in Nat
    BY <1>1, EndToEndAssumption
  <1>3. PICK n \in Nat : n = Cardinality(Users) * MaxUnits
    BY <1>2
  <1>4. Links = 1..n
    BY <1>3 DEF Links
  <1>5. IsFiniteSet(1..n)
    BY FS_Interval
  <1> QED
    BY <1>4, <1>5, FS_CardinalityType

LEMMA ClientConstants == CP!ClientAssumption /\ CP!DialerAssumption
  <1>1. MaxIn * MaxUnits * Cardinality(Links) \in Nat
    <2>1. MaxIn * MaxUnits \in Nat
      BY EndToEndAssumption
    <2> QED
      BY <2>1, LinksCounted
  <1>2. CP!ClientAssumption
    BY EndToEndAssumption DEF CP!ClientAssumption
  <1>3. CP!DialerAssumption
    BY <1>1, EndToEndAssumption DEF CP!DialerAssumption
  <1> QED
    BY <1>2, <1>3

LEMMA ServerConstants == SP!ServerAssumption /\ SP!DialerAssumption
  BY EndToEndAssumption DEF SP!ServerAssumption, SP!DialerAssumption

LEMMA ClientGuarantees == CP!Spec => [](CP!IInv /\ CP!DownstreamInOrder /\ CP!DeliveredSent)
  BY ClientConstants, CP!OnlySentDelivered

LEMMA ServerGuarantees ==
  SP!Spec => [](SP!IInv /\ SP!SafetyInv /\ SP!UpInv /\ SP!DownInv)
  BY ServerConstants, SP!DownstreamInvariant

(***************************************************************************)
(* The steps of the two programs are those the theorems are about          *)
(***************************************************************************)
LEMMA ClientInit == C!Init => CP!Init
  BY DEF C!Init, CP!Init, C!DialerInit, CP!DialerInit, C!NoConn, CP!NoConn,
         C!NoSession, CP!NoSession

LEMMA UserTrafficSame == ASSUME NEW u PROVE C!UserTraffic(u) => CP!UserTraffic(u)
  BY DEF C!UserTraffic, CP!UserTraffic, C!dialerVars, CP!dialerVars, C!tableVars, CP!tableVars

LEMMA LookupSame == ASSUME NEW u PROVE C!Lookup(u) => CP!Lookup(u)
  BY DEF C!Lookup, CP!Lookup, C!LookupCached, CP!LookupCached, C!LookupRequest, CP!LookupRequest,
         C!LookupHandshake, CP!LookupHandshake, C!LookupRejected, CP!LookupRejected,
         C!HasDest, CP!HasDest, C!Take, CP!Take, C!MarshalFails, CP!MarshalFails,
         C!dialerVars, CP!dialerVars, C!tableVars, CP!tableVars

LEMMA AdmitSame == ASSUME NEW u PROVE C!Admit(u) => CP!Admit(u)
  BY DEF C!Admit, CP!Admit, C!AdmitDial, CP!AdmitDial, C!AdmitQueued, CP!AdmitQueued,
         C!AdmitForward, CP!AdmitForward, C!NewSession, CP!NewSession, C!Pkt, CP!Pkt,
         C!Put, CP!Put, C!DialCall, CP!DialCall, C!SendCall, CP!SendCall, C!Again, CP!Again,
         C!Dialing, CP!Dialing, C!SessQueued, CP!SessQueued, C!NoConn, CP!NoConn,
         C!dialerVars, CP!dialerVars

LEMMA UserCallSame == ASSUME NEW u PROVE C!UserCall(u) => CP!UserCall(u)
  BY DEF C!UserCall, CP!UserCall, C!AsyncDial, CP!AsyncDial, C!NewConn, CP!NewConn,
         C!SendMuFree, CP!SendMuFree, C!WriteTask, CP!WriteTask, C!Again, CP!Again,
         C!tableVars, CP!tableVars

LEMMA UserClosesSame == ASSUME NEW u PROVE C!UserCloses(u) => CP!UserCloses(u)
  BY DEF C!UserCloses, CP!UserCloses, C!PurgeByUser, CP!PurgeByUser, C!Delete, CP!Delete,
         C!Orphan, CP!Orphan, C!CloseTask, CP!CloseTask, C!NoConn, CP!NoConn,
         C!dialerVars, CP!dialerVars

LEMMA ReceiveSame == C!Receive => CP!Receive
  BY DEF C!Receive, CP!Receive, C!RcvIdle, CP!RcvIdle, C!HandleServerMsg, CP!HandleServerMsg,
         C!HandleDialClose, CP!HandleDialClose, C!HandleDialOpen, CP!HandleDialOpen,
         C!HandleDialError, CP!HandleDialError, C!GetByServer, CP!GetByServer,
         C!UserWrite, CP!UserWrite, C!PurgeByServer, CP!PurgeByServer, C!PurgedUser, CP!PurgedUser,
         C!TellUser, CP!TellUser, C!Delete, CP!Delete, C!Current, CP!Current,
         C!CompleteDial, CP!CompleteDial, C!SessReady, CP!SessReady, C!Put, CP!Put,
         C!Replay, CP!Replay, C!WriteTask, CP!WriteTask, C!RejectOpen, CP!RejectOpen,
         C!CloseTask, CP!CloseTask, C!AbortDial, CP!AbortDial,
         C!tableVars, CP!tableVars, C!userVars, CP!userVars

LEMMA ReceiveCallSame == C!ReceiveCall => CP!ReceiveCall
  BY DEF C!ReceiveCall, CP!ReceiveCall, C!NoSession, CP!NoSession, C!tableVars, CP!tableVars

LEMMA LoopAloneSame == C!LoopAlone => CP!LoopAlone
  BY DEF C!LoopAlone, CP!LoopAlone, C!DialerAlone, CP!DialerAlone, C!LoopStep, CP!LoopStep,
         C!LoopUnblocks, CP!LoopUnblocks, C!RunWrite, CP!RunWrite, C!RunClose, CP!RunClose,
         C!WriteErrorDone, CP!WriteErrorDone, C!LoopIdle, CP!LoopIdle, C!Post, CP!Post,
         C!ConnAt, CP!ConnAt, C!ConnWritten, CP!ConnWritten, C!CloseMsg, CP!CloseMsg,
         C!NoConn, CP!NoConn, C!tableVars, CP!tableVars, C!userVars, CP!userVars

LEMMA DialSame ==
  ASSUME NEW d
  PROVE  /\ C!DialerAlone(C!OnOpenPosted(d)) => CP!DialerAlone(CP!OnOpenPosted(d))
         /\ C!DialerAlone(C!DialStep(d)) => CP!DialerAlone(CP!DialStep(d))
  BY DEF C!DialerAlone, CP!DialerAlone, C!OnOpenPosted, CP!OnOpenPosted, C!DialStep, CP!DialStep,
         C!AcquireSem, CP!AcquireSem, C!DialFinishes, CP!DialFinishes, C!DialReports, CP!DialReports,
         C!OnOpenReturned, CP!OnOpenReturned,
         C!SemFree, CP!SemFree, C!SemRelease, CP!SemRelease, C!LoopIdle, CP!LoopIdle,
         C!Post, CP!Post, C!OpenMsg, CP!OpenMsg, C!DialErrorMsg, CP!DialErrorMsg,
         C!DialAt, CP!DialAt, C!ConnAt, CP!ConnAt, C!NoConn, CP!NoConn,
         C!tableVars, CP!tableVars, C!userVars, CP!userVars

LEMMA PeerSame ==
  ASSUME NEW d
  PROVE  /\ C!DialerAlone(C!OnTraffic(d)) => CP!DialerAlone(CP!OnTraffic(d))
         /\ C!DialerAlone(C!PeerCloses(d)) => CP!DialerAlone(CP!PeerCloses(d))
  BY DEF C!DialerAlone, CP!DialerAlone, C!OnTraffic, CP!OnTraffic, C!PeerCloses, CP!PeerCloses,
         C!LoopIdle, CP!LoopIdle, C!Post, CP!Post, C!DataMsg, CP!DataMsg, C!CloseMsg, CP!CloseMsg,
         C!ConnRead, CP!ConnRead, C!ConnAt, CP!ConnAt, C!NoConn, CP!NoConn,
         C!tableVars, CP!tableVars, C!userVars, CP!userVars

LEMMA ServerInit == S!Init => SP!Init
  BY DEF S!Init, SP!Init, S!DialerInit, SP!DialerInit, S!NoConn, SP!NoConn

LEMMA DispatcherSame ==
  ASSUME NEW c
  PROVE  /\ S!ClientSends(c) => SP!ClientSends(c)
         /\ S!ClientCloses(c) => SP!ClientCloses(c)
  BY DEF S!ClientSends, SP!ClientSends, S!ClientCloses, SP!ClientCloses,
         S!dialerVars, SP!dialerVars, S!tableVars, SP!tableVars

LEMMA UpReceiveSame == S!UpReceive => SP!UpReceive
  BY DEF S!UpReceive, SP!UpReceive, S!UpIdle, SP!UpIdle, S!PurgeByClient, SP!PurgeByClient,
         S!Delete, SP!Delete, S!Unrouted, SP!Unrouted, S!Orphan, SP!Orphan, S!UpOwes, SP!UpOwes,
         S!CloseTask, SP!CloseTask, S!NoConn, SP!NoConn, S!dialerVars, SP!dialerVars

LEMMA UpAdmitSame == S!UpAdmit => SP!UpAdmit
  BY DEF S!UpAdmit, SP!UpAdmit, S!AdmitQueued, SP!AdmitQueued, S!AdmitForward, SP!AdmitForward,
         S!AdmitDial, SP!AdmitDial, S!SameDest, SP!SameDest, S!Dialing, SP!Dialing,
         S!SessQueued, SP!SessQueued, S!UpNext, SP!UpNext, S!WriteTask, SP!WriteTask,
         S!NewSession, SP!NewSession, S!Put, SP!Put, S!Delete, SP!Delete, S!Unrouted, SP!Unrouted,
         S!Orphan, SP!Orphan, S!CloseTask, SP!CloseTask, S!DialCall, SP!DialCall,
         S!NoConn, SP!NoConn, S!dialerVars, SP!dialerVars, S!clientVars, SP!clientVars

LEMMA UpCallSame == S!UpCall => SP!UpCall
  BY DEF S!UpCall, SP!UpCall, S!UpOwes, SP!UpOwes, S!AsyncDial, SP!AsyncDial,
         S!NewConn, SP!NewConn, S!tableVars, SP!tableVars, S!clientVars, SP!clientVars

LEMMA UpDialResultSame == S!UpDialResult => SP!UpDialResult
  BY DEF S!UpDialResult, SP!UpDialResult, S!UpIdle, SP!UpIdle, S!DialFailed, SP!DialFailed,
         S!DialSucceeded, SP!DialSucceeded, S!Current, SP!Current, S!AbortDial, SP!AbortDial,
         S!CompleteDial, SP!CompleteDial, S!SessReady, SP!SessReady, S!Delete, SP!Delete,
         S!UpOwes, SP!UpOwes, S!Replay, SP!Replay, S!WriteTask, SP!WriteTask,
         S!CloseTask, SP!CloseTask, S!clientVars, SP!clientVars

LEMMA DownReceiveSame == S!DownReceive => SP!DownReceive
  BY DEF S!DownReceive, SP!DownReceive, S!DownIdle, SP!DownIdle, S!PurgeByDest, SP!PurgeByDest,
         S!PurgedClient, SP!PurgedClient, S!Delete, SP!Delete, S!ClientClose, SP!ClientClose,
         S!GetByDest, SP!GetByDest, S!ClientWrite, SP!ClientWrite, S!clientVars, SP!clientVars

LEMMA DownCallSame == S!DownCall => SP!DownCall
  BY DEF S!DownCall, SP!DownCall, S!dialerVars, SP!dialerVars, S!tableVars, SP!tableVars

LEMMA LoopOpensSame == ASSUME NEW d PROVE S!LoopOpens(d) => SP!LoopOpens(d)
  BY DEF S!LoopOpens, SP!LoopOpens, S!OnOpenHooked, SP!OnOpenHooked, S!LoopIdle, SP!LoopIdle,
         S!Current, SP!Current, S!BindDial, SP!BindDial, S!SessBound, SP!SessBound, S!Put, SP!Put,
         S!DialAt, SP!DialAt, S!ConnAt, SP!ConnAt, S!Post, SP!Post, S!CloseMsg, SP!CloseMsg,
         S!NoConn, SP!NoConn, S!clientVars, SP!clientVars

LEMMA LoopWriteErrorSame == S!LoopWriteError => SP!LoopWriteError
  BY DEF S!LoopWriteError, SP!LoopWriteError, S!PurgeByDest, SP!PurgeByDest,
         S!PurgedClient, SP!PurgedClient, S!Delete, SP!Delete, S!WriteErrorDone, SP!WriteErrorDone,
         S!CloseTask, SP!CloseTask, S!NoConn, SP!NoConn, S!clientVars, SP!clientVars

LEMMA DestDialSame ==
  ASSUME NEW d
  PROVE  /\ S!DialerAlone(S!DialStep(d)) => SP!DialerAlone(SP!DialStep(d))
         /\ S!DialerAlone(S!PeerStep(d)) => SP!DialerAlone(SP!PeerStep(d))
  BY DEF S!DialerAlone, SP!DialerAlone, S!DialStep, SP!DialStep, S!PeerStep, SP!PeerStep,
         S!AcquireSem, SP!AcquireSem, S!DialFinishes, SP!DialFinishes, S!DialReports, SP!DialReports,
         S!OnOpenReturned, SP!OnOpenReturned, S!OpenMsg, SP!OpenMsg,
         S!SemFree, SP!SemFree, S!SemRelease, SP!SemRelease, S!LoopIdle, SP!LoopIdle,
         S!OnTraffic, SP!OnTraffic, S!PeerCloses, SP!PeerCloses,
         S!Post, SP!Post, S!DataMsg, SP!DataMsg, S!CloseMsg, SP!CloseMsg,
         S!DialErrorMsg, SP!DialErrorMsg, S!DialAt, SP!DialAt, S!ConnRead, SP!ConnRead,
         S!ConnAt, SP!ConnAt, S!NoConn, SP!NoConn,
         S!tableVars, SP!tableVars, S!clientVars, SP!clientVars

LEMMA LoopStepSame == S!DialerAlone(S!LoopStep) => SP!DialerAlone(SP!LoopStep)
  BY DEF S!DialerAlone, SP!DialerAlone, S!LoopStep, SP!LoopStep,
         S!LoopUnblocks, SP!LoopUnblocks, S!RunWrite, SP!RunWrite, S!RunClose, SP!RunClose,
         S!LoopIdle, SP!LoopIdle, S!Post, SP!Post,
         S!ConnAt, SP!ConnAt, S!ConnWritten, SP!ConnWritten, S!CloseMsg, SP!CloseMsg,
         S!NoConn, SP!NoConn, S!tableVars, SP!tableVars, S!clientVars, SP!clientVars

(***************************************************************************)
(* The client by itself                                                    *)
(***************************************************************************)

\* What the client does by itself, reading and losing links apart.
ClientActs ==
  \/ \E u \in Users : CP!UserTraffic(u) \/ CP!UserLoop(u) \/ CP!UserCloses(u)
  \/ CP!Consumer
  \/ CP!LoopAlone
  \/ \E d \in DOMAIN cdials :
       CP!DialerAlone(CP!OnOpenPosted(d)) \/ CP!DialerAlone(CP!DialStep(d))

LEMMA ClientActsSame == ClientSteps => ClientActs
  <1>1. \A u \in Users : C!UserLoop(u) => CP!UserLoop(u)
    BY LookupSame, AdmitSame, UserCallSame DEF C!UserLoop, CP!UserLoop
  <1>2. C!Consumer => CP!Consumer
    BY ReceiveSame, ReceiveCallSame DEF C!Consumer, CP!Consumer
  <1> QED
    BY <1>1, <1>2, UserTrafficSame, UserClosesSame, LoopAloneSame, DialSame
    DEF ClientSteps, ClientActs

LEMMA ClientMoves ==
  ASSUME [Next]_vars
  PROVE  \/ ClientActs
         \/ \E d : CP!DialerAlone(CP!PeerCloses(d))
         \/ \E d \in Links : cconns[d].in < Len(delivered[d]) /\ CP!DialerAlone(CP!OnTraffic(d))
         \/ UNCHANGED clientVars
  BY ClientActsSame, PeerSame
  DEF Next, ClientStep, LinkDown, ClientSeesClose, ClientLosesLink, vars

LEMMA ClientSimulated ==
  ASSUME CP!IInv, [Next]_vars
  PROVE  [CP!Next]_CP!vars
  <1>1. CASE ClientActs
    <2>1. \A d \in DOMAIN cdials :
            /\ CP!DialerAlone(CP!OnOpenPosted(d)) => CP!DialerSteps
            /\ CP!DialerAlone(CP!DialStep(d)) => CP!DialerSteps
      BY DEF CP!DialerSteps
    <2>2. CP!LoopAlone => CP!DialerSteps
      BY DEF CP!DialerSteps
    <2> QED
      BY <1>1, <2>1, <2>2 DEF ClientActs, CP!Next
  <1>2. ASSUME NEW d, CP!DialerAlone(CP!PeerCloses(d)) \/ CP!DialerAlone(CP!OnTraffic(d))
        PROVE  CP!Next
    <2>1. d \in DOMAIN cdials
      <3>1. d \in DOMAIN cconns
        BY <1>2 DEF CP!DialerAlone, CP!PeerCloses, CP!OnTraffic
      <3> QED
        BY <3>1, ClientConstants, CP!DomainsEqual DEF CP!IInv, CP!DialerInv
    <2>2. CP!DialerAlone(CP!PeerStep(d))
      BY <1>2 DEF CP!DialerAlone, CP!PeerStep
    <2>3. CP!DialerSteps
      BY <2>1, <2>2 DEF CP!DialerSteps
    <2> QED
      BY <2>3 DEF CP!Next
  <1>3. CASE UNCHANGED clientVars
    BY <1>3 DEF clientVars, CP!vars, CP!dialerVars, CP!tableVars, CP!userVars
  <1> QED
    BY <1>1, <1>2, <1>3, ClientMoves

\* The client's part of the joined system is a client.
LEMMA ClientRuns == Spec => CP!Spec
  <1>1. Init => CP!Init
    BY ClientInit DEF Init
  <1>2. CP!Init => CP!IInv
    BY ClientConstants, CP!InitIInv
  <1>3. CP!IInv /\ [Next]_vars => [CP!Next]_CP!vars
    BY ClientSimulated
  <1>4. CP!IInv /\ [CP!Next]_CP!vars => CP!IInv'
    BY ClientConstants, CP!NextIInv
  <1> QED
    BY <1>1, <1>2, <1>3, <1>4, PTL DEF Spec, CP!Spec

(***************************************************************************)
(* The worker by itself                                                    *)
(***************************************************************************)
\* What the worker does, with what it reads of the links and how they close.
ServerDoes ==
  \/ SP!Upstream
  \/ SP!Downstream
  \/ SP!DialerSteps
  \/ \E d \in Links : LinkUp(d) /\ SP!ClientSends(d) /\ UNCHANGED clientVars
  \/ \E d \in Links : /\ SP!ClientCloses(d) /\ UNCHANGED clientVars
                      /\ ServerSeesClose(d) \/ broken'
  \/ UNCHANGED serverVars

LEMMA ServerDoesThis ==
  ASSUME [Next]_vars
  PROVE  ServerDoes
  <1>1. S!Upstream => SP!Upstream
    BY UpReceiveSame, UpAdmitSame, UpCallSame, UpDialResultSame DEF S!Upstream, SP!Upstream
  <1>2. S!Downstream => SP!Downstream
    BY DownReceiveSame, DownCallSame DEF S!Downstream, SP!Downstream
  <1>3. S!DialerSteps => SP!DialerSteps
    BY LoopOpensSame, LoopWriteErrorSame, DestDialSame, LoopStepSame
    DEF S!DialerSteps, SP!DialerSteps
  <1>4. ServerSteps => SP!Upstream \/ SP!Downstream \/ SP!DialerSteps
    BY <1>1, <1>2, <1>3 DEF ServerSteps
  <1>5. \A d \in Links :
          /\ LinkUp(d) => SP!ClientSends(d)
          /\ ServerSeesClose(d) => SP!ClientCloses(d)
          /\ ServerLosesLink(d) => SP!ClientCloses(d)
    BY DispatcherSame DEF LinkUp, ServerSeesClose, ServerLosesLink
  <1>6. CASE ServerStep /\ UNCHANGED clientVars
    BY <1>4, <1>5, <1>6 DEF ServerStep, ServerDoes
  <1>7. CASE \E d \in Links : ServerLosesLink(d) /\ UNCHANGED clientVars /\ broken' = TRUE
    BY <1>5, <1>7 DEF ServerDoes
  <1>8. UNCHANGED serverVars => ServerDoes
    BY DEF ServerDoes
  <1> QED
    BY <1>6, <1>7, <1>8 DEF Next, vars

LEMMA ServerMoves ==
  ASSUME Next
  PROVE  SP!Next \/ UNCHANGED serverVars
  BY ServerDoesThis DEF ServerDoes, SP!Next, SP!DialerSteps

LEMMA ServerSimulated ==
  ASSUME [Next]_vars
  PROVE  [SP!Next]_SP!vars
  <1>1. UNCHANGED serverVars => UNCHANGED SP!vars
    BY DEF serverVars, SP!vars, SP!dialerVars, SP!tableVars, SP!clientVars
  <1> QED
    BY <1>1, ServerMoves DEF vars

\* The worker's part of the joined system is a worker.
LEMMA ServerRuns == Spec => SP!Spec
  <1>1. Init => SP!Init
    BY ServerInit DEF Init
  <1>2. [Next]_vars => [SP!Next]_SP!vars
    BY ServerSimulated
  <1> QED
    BY <1>1, <1>2, PTL DEF Spec, SP!Spec

(***************************************************************************)
(* The links between the two                                               *)
(***************************************************************************)

\* The client has read no more of a link than the worker has written.
LinkInv ==
  \A d \in DOMAIN cconns :
    cconns[d].in = 0 \/ (d \in Links /\ cconns[d].in <= Len(delivered[d]))

\* What a client was written stays: only more is written to it.
Grows ==
  \A d \in Links : Len(delivered[d]) \in Nat /\ Len(delivered'[d]) \in Nat
                   /\ Len(delivered[d]) <= Len(delivered'[d])

LEMMA DeliveredGrows ==
  ASSUME SP!IInv, SP!IInv', [SP!Next]_SP!vars
  PROVE  Grows
  <1>1. delivered \in [Links -> Seq(SP!Pkt)] /\ delivered' \in [Links -> Seq(SP!Pkt)]
    BY DEF SP!IInv, SP!TypeOK, SP!ClientTypeOK
  <1>2. UNCHANGED delivered \/ \E c, p : delivered' = [delivered EXCEPT ![c] = Append(@, p)]
    <2>1. CASE SP!DownCall
      BY <2>1 DEF SP!DownCall
    <2>2. CASE SP!DialerSteps
      BY <2>2 DEF SP!DialerSteps, SP!LoopOpens, SP!LoopWriteError, SP!DialerAlone
    <2>3. CASE SP!Upstream
      BY <2>3 DEF SP!Upstream, SP!UpReceive, SP!UpAdmit, SP!UpCall, SP!UpDialResult
    <2>4. CASE SP!DownReceive
      BY <2>4 DEF SP!DownReceive
    <2>5. CASE \E c \in Links : SP!ClientSends(c) \/ SP!ClientCloses(c)
      BY <2>5 DEF SP!ClientSends, SP!ClientCloses
    <2>6. CASE UNCHANGED SP!vars
      BY <2>6 DEF SP!vars
    <2> QED
      BY <2>1, <2>2, <2>3, <2>4, <2>5, <2>6 DEF SP!Next, SP!Downstream
  <1>3. ASSUME NEW c, NEW p, delivered' = [delivered EXCEPT ![c] = Append(@, p)] PROVE Grows
    <2> SUFFICES ASSUME NEW d \in Links
                 PROVE  Len(delivered[d]) \in Nat /\ Len(delivered'[d]) \in Nat
                        /\ Len(delivered[d]) <= Len(delivered'[d])
      BY DEF Grows
    <2>1. PICK got \in Seq(SP!Pkt) : got = delivered[d]
      BY <1>1
    <2>2. delivered'[d] = got \/ delivered'[d] = Append(got, p)
      BY <1>1, <1>3, <2>1
    <2>3. PICK new \in Seq(SP!Pkt) : new = delivered'[d]
      BY <1>1
    <2>4. Len(got) <= Len(new)
      BY <2>2, <2>3
    <2> QED
      BY <2>1, <2>3, <2>4
  <1>4. CASE UNCHANGED delivered
    <2>1. \A d \in Links : Len(delivered[d]) \in Nat
      BY <1>1
    <2> QED
      BY <1>4, <2>1 DEF Grows
  <1> QED
    BY <1>2, <1>3, <1>4

LEMMA LinkStays ==
  ASSUME LinkInv, Grows, CP!NothingRead, CP!IInv
  PROVE  LinkInv'
  <1>1. \A d \in DOMAIN cconns : cconns[d].in \in Nat
    BY ClientConstants, CP!ConnFields DEF CP!IInv, CP!DialerInv, CP!DialerTypeOK
  <1> SUFFICES ASSUME NEW d \in DOMAIN cconns', cconns'[d].in # 0
               PROVE  d \in Links /\ cconns'[d].in <= Len(delivered'[d])
    BY DEF LinkInv
  <1>2. d \in DOMAIN cconns /\ cconns'[d].in = cconns[d].in
    BY DEF CP!NothingRead
  <1>3. d \in Links /\ cconns[d].in <= Len(delivered[d])
    BY <1>2 DEF LinkInv
  <1> QED
    BY <1>1, <1>2, <1>3 DEF Grows

LEMMA ClientReadsNothing ==
  ASSUME CP!IInv, ClientActs \/ \E d : CP!DialerAlone(CP!PeerCloses(d))
  PROVE  CP!NothingRead
  <1>1. CASE ClientActs
    BY <1>1, ClientConstants, CP!LoopReadsNothing, CP!ConsumerReadsNothing,
       CP!DialerReadsNothing, CP!LoopAloneReadsNothing
    DEF ClientActs, CP!DialerAlone, CP!LoopAlone
  <1>2. CASE \E d : CP!DialerAlone(CP!PeerCloses(d))
    BY <1>2, ClientConstants, CP!DialerReadsNothing DEF CP!DialerAlone
  <1> QED
    BY <1>1, <1>2

LEMMA LinkDownRead ==
  ASSUME CP!IInv, LinkInv, Grows, NEW d \in Links, cconns[d].in < Len(delivered[d]),
         CP!OnTraffic(d)
  PROVE  LinkInv'
  <1>1. /\ d \in DOMAIN cconns /\ DOMAIN cconns' = DOMAIN cconns
        /\ cconns'[d].in = cconns[d].in + 1
        /\ \A e \in DOMAIN cconns : e # d => cconns'[e].in = cconns[e].in
    BY ClientConstants, CP!TrafficReads
  <1>2. \A e \in DOMAIN cconns : cconns[e].in \in Nat
    BY ClientConstants, CP!ConnFields DEF CP!IInv, CP!DialerInv, CP!DialerTypeOK
  <1>3. cconns'[d].in <= Len(delivered'[d])
    BY <1>1, <1>2 DEF Grows
  <1>4. \A e \in DOMAIN cconns : e # d /\ cconns[e].in # 0 =>
          e \in Links /\ cconns[e].in <= Len(delivered'[e])
    BY <1>2 DEF LinkInv, Grows
  <1> QED
    BY <1>1, <1>3, <1>4 DEF LinkInv

LEMMA NextLink ==
  ASSUME CP!IInv, SP!IInv, SP!IInv', LinkInv, [Next]_vars
  PROVE  LinkInv'
  <1>1. Grows
    BY DeliveredGrows, ServerSimulated
  <1>2. CASE UNCHANGED clientVars
    <2>1. UNCHANGED cconns
      BY <1>2 DEF clientVars
    <2>2. CP!NothingRead
      BY <2>1 DEF CP!NothingRead
    <2> QED
      BY <1>1, <2>2, LinkStays
  <1>3. CASE \E d \in Links : cconns[d].in < Len(delivered[d]) /\ CP!DialerAlone(CP!OnTraffic(d))
    BY <1>1, <1>3, LinkDownRead DEF CP!DialerAlone
  <1> QED
    BY <1>1, <1>2, <1>3, ClientMoves, ClientReadsNothing, LinkStays

(***************************************************************************)
(* From destination to user                                                *)
(***************************************************************************)
JoinInv ==
  /\ CP!IInv /\ CP!DownstreamInOrder /\ CP!DeliveredSent
  /\ SP!IInv /\ SP!SafetyInv /\ SP!UpInv /\ SP!DownInv
  /\ LinkInv

\* A payload a user has is one the worker wrote to a link of that user, and
\* one of a destination connection that was dialed for the link.
LEMMA BothHops ==
  ASSUME JoinInv, NEW u \in Users, NEW i \in DOMAIN toUser[u]
  PROVE  /\ i \in Nat \ {0} /\ toUser[u][i].seq \in 1..i
         /\ toUser[u][i].conn \in Links
         /\ cdials[toUser[u][i].conn].token.user = u
         /\ toUser[u][i].seq \in DOMAIN delivered[toUser[u][i].conn]
         /\ Sent(u, i).conn \in DOMAIN conns
         /\ dials[Sent(u, i).conn].token.client = toUser[u][i].conn
  <1>1. PICK d, q : d = toUser[u][i].conn /\ q = toUser[u][i].seq
    OBVIOUS
  <1>2. i \in Nat \ {0} /\ q \in 1..i /\ cdials[d].token.user = u
    <2>1. toUser[u] \in Seq(CP!DownPkt)
      BY DEF JoinInv, CP!IInv, CP!ReceiverTypeOK
    <2> QED
      BY <1>1, <2>1 DEF JoinInv, CP!DownstreamInOrder
  <1>3. d \in DOMAIN cconns /\ q <= cconns[d].in
    BY <1>1 DEF JoinInv, CP!DeliveredSent
  <1>4. cconns[d].in \in Nat
    BY <1>3, ClientConstants, CP!ConnFields DEF JoinInv, CP!IInv, CP!DialerInv, CP!DialerTypeOK
  <1>5. d \in Links /\ cconns[d].in <= Len(delivered[d])
    BY <1>2, <1>3, <1>4 DEF JoinInv, LinkInv
  <1>6. PICK got \in Seq(SP!Pkt) : got = delivered[d]
    BY <1>5 DEF JoinInv, SP!IInv, SP!TypeOK, SP!ClientTypeOK
  <1>7. q \in DOMAIN delivered[d]
    BY <1>2, <1>3, <1>4, <1>5, <1>6
  <1>8. delivered[d][q].conn \in DOMAIN dials /\ dials[delivered[d][q].conn].token.client = d
    BY <1>5, <1>7 DEF JoinInv, SP!SafetyInv, SP!DeliveredOwn, SP!From
  <1>9. DOMAIN conns = DOMAIN dials
    BY ServerConstants, SP!DomainsEqual DEF JoinInv, SP!IInv, SP!TypeOK, SP!DialerTypeOK
  <1> QED
    BY <1>1, <1>2, <1>5, <1>7, <1>8, <1>9 DEF Sent

\* What a user got up to its i-th payload from the destination connection of
\* that payload are the last payloads, as many as the payload's number.
LEMMA SameDestination ==
  ASSUME JoinInv, NEW u \in Users, NEW i \in DOMAIN toUser[u]
  PROVE  /\ Sent(u, i).seq \in 1..i
         /\ {j \in FromDest(u, Sent(u, i).conn) : j <= i} = (i - Sent(u, i).seq + 1)..i
  <1>1. PICK d, q, e, s :
          /\ d = toUser[u][i].conn /\ q = toUser[u][i].seq
          /\ e = delivered[d][q].conn /\ s = delivered[d][q].seq
    OBVIOUS
  <1>2. PICK got \in Seq(CP!DownPkt) : got = toUser[u]
    BY DEF JoinInv, CP!IInv, CP!ReceiverTypeOK
  <1>3. i \in Nat \ {0} /\ i <= Len(got) /\ q \in 1..i /\ d \in Links
        /\ q \in DOMAIN delivered[d]
    BY <1>1, <1>2, BothHops
  <1>4. \A j \in 1..i :
          IF j > i - q THEN got[j] = [conn |-> d, seq |-> j - (i - q)] ELSE got[j].conn < d
    BY <1>1, <1>2 DEF JoinInv, CP!DownstreamInOrder
  <1>5. /\ s \in 1..q
        /\ \A k \in 1..q :
             IF k > q - s THEN delivered[d][k] = [conn |-> e, seq |-> k - (q - s)]
                          ELSE delivered[d][k].conn < e
    BY <1>1, <1>3 DEF JoinInv, SP!DownInv, SP!DeliveredRuns, SP!Runs
  <1>6. \A j \in 1..i : j \in DOMAIN toUser[u]
    BY <1>2, <1>3
  <1>7. d \in Int /\ e \in Int
    <2>1. d \in Int
      BY <1>3, LinksCounted
    <2>2. PICK sent \in Seq(SP!Pkt) : sent = delivered[d]
      BY <1>3 DEF JoinInv, SP!IInv, SP!TypeOK, SP!ClientTypeOK
    <2>3. sent[q] \in SP!Pkt
      BY <1>3, <2>2
    <2>4. e \in Int
      BY <1>1, <2>2, <2>3 DEF SP!Pkt, SP!ConnIds
    <2> QED
      BY <2>1, <2>4
  <1>8. ASSUME NEW j \in 1..i, j > i - q
        PROVE  Sent(u, j).conn = e <=> j > i - s
    <2>1. Sent(u, j) = delivered[d][j - (i - q)]
      <3>1. got[j] = [conn |-> d, seq |-> j - (i - q)]
        BY <1>4, <1>8
      <3>2. got[j].conn = d /\ got[j].seq = j - (i - q)
        BY <3>1
      <3> QED
        BY <1>2, <3>2 DEF Sent
    <2>2. PICK k \in 1..q : k = j - (i - q)
      BY <1>3, <1>8
    <2>3. k > q - s <=> j > i - s
      BY <1>3, <1>5, <2>2
    <2>4. CASE k > q - s
      <3>1. delivered[d][k] = [conn |-> e, seq |-> k - (q - s)]
        BY <1>5, <2>4
      <3>2. delivered[d][k].conn = e
        BY <3>1
      <3> QED
        BY <2>1, <2>2, <2>3, <2>4, <3>2
    <2>5. CASE ~(k > q - s)
      <3>1. delivered[d][k].conn < e
        BY <1>5, <2>5
      <3>2. delivered[d][k].conn # e
        BY <1>7, <3>1
      <3> QED
        BY <2>1, <2>2, <2>3, <2>5, <3>2
    <2> QED
      BY <2>4, <2>5
  <1>9. ASSUME NEW j \in 1..i, ~(j > i - q)
        PROVE  Sent(u, j).conn # e /\ ~(j > i - s)
    <2>1. got[j].conn < d
      BY <1>4, <1>9
    <2>2. got[j].conn # d
      BY <1>7, <2>1
    <2>3. dials[Sent(u, j).conn].token.client = got[j].conn
      BY <1>2, <1>6, BothHops
    <2>4. dials[Sent(u, i).conn].token.client = d /\ Sent(u, i).conn = e
      BY <1>1, BothHops DEF Sent
    <2>5. ~(j > i - s)
      BY <1>3, <1>5, <1>9
    <2> QED
      BY <2>2, <2>3, <2>4, <2>5
  <1>10. \A j \in 1..i : Sent(u, j).conn = e <=> j > i - s
    BY <1>8, <1>9
  <1>11. {j \in FromDest(u, e) : j <= i} = {j \in 1..i : Sent(u, j).conn = e}
    BY <1>2, <1>3 DEF FromDest
  <1>12. {j \in 1..i : j > i - s} = (i - s + 1)..i
    BY <1>3, <1>5
  <1>13. Sent(u, i).seq = s /\ Sent(u, i).conn = e
    BY <1>1 DEF Sent
  <1>14. s \in 1..i
    BY <1>3, <1>5
  <1> QED
    BY <1>10, <1>11, <1>12, <1>13, <1>14

LEMMA JoinInOrder ==
  ASSUME JoinInv
  PROVE  EndToEndInOrder
  <1> SUFFICES ASSUME NEW u \in Users, NEW i \in DOMAIN toUser[u]
               PROVE  /\ Owns(u, Sent(u, i).conn)
                      /\ Sent(u, i).seq = Cardinality({j \in FromDest(u, Sent(u, i).conn) : j <= i})
    BY DEF EndToEndInOrder
  <1>1. Owns(u, Sent(u, i).conn)
    BY BothHops DEF Owns
  <1>2. PICK s : s = Sent(u, i).seq
    OBVIOUS
  <1>3. i \in Int /\ s \in 1..i
        /\ {j \in FromDest(u, Sent(u, i).conn) : j <= i} = (i - s + 1)..i
    BY <1>2, BothHops, SameDestination
  <1>4. Cardinality((i - s + 1)..i) = s
    <2>1. i - s + 1 \in Int /\ ~(i - s + 1 > i) /\ i - (i - s + 1) + 1 = s
      BY <1>3
    <2> QED
      BY <1>3, <2>1, FS_Interval
  <1> QED
    BY <1>1, <1>2, <1>3, <1>4

\* The client, the worker and the links between them keep their invariants
\* when they run together.
THEOREM JoinInvariant == Spec => []JoinInv
  <1>1. Spec => [](CP!IInv /\ CP!DownstreamInOrder /\ CP!DeliveredSent)
    BY ClientRuns, ClientGuarantees, PTL
  <1>2. Spec => [](SP!IInv /\ SP!SafetyInv /\ SP!UpInv /\ SP!DownInv)
    BY ServerRuns, ServerGuarantees, PTL
  <1>3. Init => LinkInv
    BY DEF Init, C!Init, C!DialerInit, LinkInv
  <1>4. CP!IInv /\ SP!IInv /\ SP!IInv' /\ LinkInv /\ [Next]_vars => LinkInv'
    BY NextLink
  <1> QED
    BY <1>1, <1>2, <1>3, <1>4, PTL DEF Spec, JoinInv

\* Through both programs a user gets what its own destination connections
\* sent, each from the first payload on and in order, whatever was dropped or
\* torn down on the way (forwarder.go:230, handler.go:184).
THEOREM EndToEndOrdered == Spec => []EndToEndInOrder
  BY JoinInvariant, JoinInOrder, PTL

(***************************************************************************)
(* What a step may be, as the close of a link needs it                     *)
(***************************************************************************)

\* What the client does, with what it reads of the links and how they close.
ClientDoes ==
  \/ ClientActs
  \/ \E d \in DOMAIN cdials : CP!DialerAlone(CP!OnTraffic(d))
  \/ \E d \in Links : /\ CP!PeerCloses(d)
                      /\ cstate[d] = "closed" /\ cconns[d].in = Len(delivered[d])
  \/ broken'
  \/ UNCHANGED clientVars

LEMMA ClientDoesThis ==
  ASSUME CP!IInv, [Next]_vars
  PROVE  ClientDoes
  <1>1. DOMAIN cconns = DOMAIN cdials
    BY ClientConstants, CP!DomainsEqual DEF CP!IInv, CP!DialerInv
  <1>2. \A d \in Links : LinkDown(d) => d \in DOMAIN cdials /\ CP!DialerAlone(CP!OnTraffic(d))
    BY <1>1, PeerSame DEF LinkDown
  <1>3. \A d \in Links : ClientSeesClose(d) =>
          /\ CP!PeerCloses(d)
          /\ cstate[d] = "closed" /\ cconns[d].in = Len(delivered[d])
    BY PeerSame DEF ClientSeesClose, CP!DialerAlone
  <1> QED
    BY <1>2, <1>3, ClientActsSame DEF Next, ClientStep, ClientDoes, vars

\* As long as nothing has failed, no write has.
FailedIsBroken == cloop.failed # CP!NoConn \/ loop.failed # SP!NoConn => broken

LEMMA NextBroken ==
  ASSUME FailedIsBroken, [Next]_vars
  PROVE  FailedIsBroken' /\ (broken => broken')
  <1>1. CASE broken' = (broken \/ WriteFails)
    BY <1>1 DEF FailedIsBroken, WriteFails, C!NoConn, CP!NoConn, S!NoConn, SP!NoConn
  <1>2. CASE UNCHANGED vars
    BY <1>2 DEF FailedIsBroken, vars, clientVars, serverVars
  <1> QED
    BY <1>1, <1>2 DEF Next, FailedIsBroken

(***************************************************************************)
(* The destination of a link                                               *)
(***************************************************************************)

\* The links the client has written to, and the destination of each.
Named == [d \in {e \in DOMAIN cconns : e \in Links /\ cconns[e].out # <<>>} |-> LinkDest(d)]

OneDest == SP!Names(Named)

LEMMA NamedStays ==
  ASSUME CP!IInv, CP!ConnsGo, CP!DialsKept, NEW F, F = Named, NEW G, G = Named'
  PROVE  \A d \in DOMAIN F : d \in DOMAIN G /\ G[d] = F[d]
  <1> SUFFICES ASSUME NEW d \in DOMAIN F
               PROVE  d \in DOMAIN G /\ G[d] = F[d]
    OBVIOUS
  <1>1. d \in DOMAIN cconns /\ d \in Links /\ cconns[d].out # <<>> /\ F[d] = LinkDest(d)
    BY DEF Named
  <1>2. d \in DOMAIN cdials
    BY <1>1, ClientConstants, CP!DomainsEqual DEF CP!IInv, CP!DialerInv
  <1>3. d \in DOMAIN cconns' /\ cconns'[d].out # <<>>
    BY <1>1 DEF CP!ConnsGo
  <1>4. cdials'[d].token = cdials[d].token
    BY <1>2 DEF CP!DialsKept
  <1>5. LinkDest(d)' = LinkDest(d)
    BY <1>4 DEF LinkDest
  <1>6. d \in DOMAIN G /\ G[d] = LinkDest(d)'
    BY <1>1, <1>3 DEF Named
  <1> QED
    BY <1>1, <1>5, <1>6

LEMMA NextNamed ==
  ASSUME CP!IInv, CP!ConnsGo, CP!DialsKept, SP!IInv, SP!IInv', SP!SafetyInv, OneDest, [Next]_vars
  PROVE  OneDest'
  <1>1. PICK F, G : F = Named /\ G = Named'
    OBVIOUS
  <1>2. SP!Names(F)
    BY <1>1 DEF OneDest
  <1>3. \A d \in DOMAIN F : d \in DOMAIN G /\ G[d] = F[d]
    BY <1>1, NamedStays
  <1>4. SP!Names(G)
    BY <1>2, <1>3, ServerConstants, SP!NamesMore
  <1>5. ASSUME NEW d \in Links, LinkUp(d), SP!ClientSends(d), UNCHANGED clientVars
        PROVE  SP!SendsNamed(G)
    <2>1. G = F
      <3>1. UNCHANGED <<cconns, cdials>>
        BY <1>5 DEF clientVars
      <3> QED
        BY <1>1, <3>1 DEF Named, LinkDest
    <2>2. d \in DOMAIN cconns /\ nup'[d] <= Len(cconns[d].out)
      BY <1>5 DEF LinkUp
    <2>3. nup'[d] \in Nat \ {0}
      <3>1. nup \in [Links -> Nat] /\ nup' \in [Links -> Nat]
        BY DEF SP!IInv, SP!TypeOK, SP!ClientTypeOK
      <3>2. PICK n \in 1..MaxUnits : nup' = [nup EXCEPT ![d] = @ + n]
        BY <1>5 DEF SP!ClientSends
      <3>3. PICK m \in Nat : m = nup[d]
        BY <3>1
      <3>4. nup'[d] = m + n
        BY <3>1, <3>2, <3>3
      <3> QED
        BY <3>2, <3>3, <3>4, EndToEndAssumption
    <2>4. cconns[d].out # <<>>
      BY <2>2, <2>3
    <2>5. d \in DOMAIN F /\ F[d] = LinkDest(d)
      BY <1>1, <2>2, <2>4 DEF Named
    <2>6. \A k \in DOMAIN channel'[Len(channel')].pkts :
            channel'[Len(channel')].pkts[k].dest = LinkDest(d)
      BY <1>5 DEF LinkUp
    <2> QED
      BY <1>5, <2>1, <2>5, <2>6 DEF SP!SendsNamed
  <1>6. SP!NoneSends \/ SP!SendsNamed(G)
    <2>1. UNCHANGED serverVars => UNCHANGED SP!vars
      BY DEF serverVars, SP!vars, SP!dialerVars, SP!tableVars, SP!clientVars
    <2> QED
      BY <1>5, <2>1, ServerDoesThis DEF ServerDoes, SP!NoneSends
  <1>7. CASE SP!NoneSends
    <2>1. SP!Names(G)'
      BY <1>4, <1>7, ServerConstants, SP!NamesStay
    <2> QED
      BY <1>1, <2>1 DEF OneDest
  <1>8. CASE SP!SendsNamed(G)
    <2>1. SP!Names(G)'
      BY <1>4, <1>8, ServerConstants, SP!NamesSent
    <2> QED
      BY <1>1, <2>1 DEF OneDest
  <1> QED
    BY <1>6, <1>7, <1>8

(***************************************************************************)
(* How a link closes                                                       *)
(***************************************************************************)

\* The user of a link was hung up on, or is about to be, or is gone.
ToldUser(d) == d \in DOMAIN cdials /\ CP!Told(CP!Owner(d))

\* The server has gone, and the client has read all it wrote.
Ended(d) == d \in Links /\ cstate[d] = "closed" /\ cconns[d].in = Len(delivered[d])

\* The client's end closes for its user, or after the server's.
ClientClosed == \A d \in DOMAIN cconns : cconns[d].st = "closed" => ToldUser(d) \/ Ended(d)

\* The server's end closes for the user, or after the destination.
ServerClosed == \A d \in Links : SP!Closing(d) => SP!Answered(d) \/ ToldUser(d)

\* What all the invariants of the two sides give.
SidesInv ==
  /\ CP!IInv /\ CP!OrderInv /\ CP!DownInv /\ CP!DownstreamInOrder /\ CP!DeliveredSent /\ CP!EndInv
  /\ SP!IInv /\ SP!SafetyInv /\ SP!UpInv /\ SP!DownInv /\ SP!ClosesLast /\ SP!AllSent

LEMMA SidesMove ==
  ASSUME SidesInv, [Next]_vars
  PROVE  /\ [CP!Next]_CP!vars /\ CP!ConnsGo /\ CP!DialsKept /\ CP!DeliveredStays
  <1>1. [CP!Next]_CP!vars
    BY ClientSimulated DEF SidesInv
  <1>2. CP!ConnsGo
    BY <1>1, ClientConstants, CP!NextEndInv DEF SidesInv
  <1>3. CP!DialsKept
    BY <1>1, ClientConstants, CP!NextDialsKept DEF SidesInv
  <1>4. CP!DeliveredStays
    BY <1>1, ClientConstants, CP!NextDelivered DEF SidesInv
  <1> QED
    BY <1>1, <1>2, <1>3, <1>4

LEMMA ToldUserStays ==
  ASSUME SidesInv, [Next]_vars, NEW d, ToldUser(d)
  PROVE  ToldUser(d)'
  <1>1. PICK u : u = CP!Owner(d)
    OBVIOUS
  <1>2. d \in DOMAIN cdials' /\ u = CP!Owner(d)'
    BY <1>1, SidesMove DEF CP!DialsKept, CP!Owner, ToldUser
  <1>3. u \in Users
    BY <1>1, ClientConstants, CP!OwnerIsUser DEF ToldUser, SidesInv
  <1>4. CP!Told(u)'
    BY <1>1, <1>3, ClientConstants, SidesMove, CP!ToldStays DEF ToldUser, SidesInv
  <1> QED
    BY <1>2, <1>4 DEF ToldUser

\* A client that has gone is written nothing more.
LEMMA ClosedGetsNothing ==
  ASSUME SP!IInv, [SP!Next]_SP!vars, NEW d \in Links, cstate[d] = "closed"
  PROVE  cstate'[d] = "closed" /\ delivered'[d] = delivered[d]
  <1>1. cstate \in [Links -> {"open", "closing", "closed"}]
        /\ delivered \in [Links -> Seq(SP!Pkt)]
    BY DEF SP!IInv, SP!TypeOK, SP!ClientTypeOK
  <1>2. CASE UNCHANGED <<cstate, delivered>>
    BY <1>2
  <1>3. CASE SP!DownCall
    <2>1. PICK c, p :
            \/ /\ UNCHANGED cstate
               /\ \/ UNCHANGED delivered
                  \/ cstate[c] = "open" /\ delivered' = [delivered EXCEPT ![c] = Append(@, p)]
            \/ /\ UNCHANGED delivered
               /\ \/ UNCHANGED cstate
                  \/ cstate[c] = "open" /\ cstate' = [cstate EXCEPT ![c] = "closing"]
      BY <1>3 DEF SP!DownCall
    <2> QED
      BY <1>1, <2>1
  <1>4. CASE SP!DialerSteps
    BY <1>2, <1>4 DEF SP!DialerSteps, SP!LoopOpens, SP!LoopWriteError, SP!DialerAlone, SP!clientVars
  <1>5. CASE SP!Upstream
    BY <1>2, <1>5 DEF SP!Upstream, SP!UpReceive, SP!UpAdmit, SP!UpCall, SP!UpDialResult, SP!clientVars
  <1>6. CASE SP!DownReceive
    BY <1>2, <1>6 DEF SP!DownReceive, SP!clientVars
  <1>7. CASE \E c \in Links : SP!ClientSends(c)
    BY <1>2, <1>7 DEF SP!ClientSends
  <1>8. CASE \E c \in Links : SP!ClientCloses(c)
    <2>1. PICK c : cstate' = [cstate EXCEPT ![c] = "closed"] /\ UNCHANGED delivered
      BY <1>8 DEF SP!ClientCloses
    <2> QED
      BY <1>1, <2>1
  <1>9. CASE UNCHANGED SP!vars
    BY <1>2, <1>9 DEF SP!vars, SP!clientVars
  <1> QED
    BY <1>3, <1>4, <1>5, <1>6, <1>7, <1>8, <1>9 DEF SP!Next, SP!Downstream

LEMMA EndedStays ==
  ASSUME SidesInv, [Next]_vars, NEW d \in DOMAIN cconns, cconns[d].st = "closed", Ended(d)
  PROVE  Ended(d)'
  <1>1. cconns'[d].in = cconns[d].in
    BY SidesMove DEF CP!ConnsGo
  <1>2. cstate'[d] = "closed" /\ delivered'[d] = delivered[d]
    BY ServerSimulated, ClosedGetsNothing DEF Ended, SidesInv
  <1> QED
    BY <1>1, <1>2 DEF Ended

\* What closes in a step.
LEMMA ClosesFor ==
  ASSUME SidesInv, [Next]_vars, ~broken', FailedIsBroken', NEW d \in DOMAIN cconns,
         cconns[d].st # "closed", cconns'[d].st = "closed"
  PROVE  ToldUser(d) \/ Ended(d)'
  <1>1. cloop'.failed = CP!NoConn
    BY DEF FailedIsBroken
  <1>2. CASE ClientActs \/ \E e \in DOMAIN cdials : CP!DialerAlone(CP!OnTraffic(e))
    <2>1. CP!ClosesWhy
      BY <1>2, ClientConstants, CP!NextWhy DEF ClientActs, SidesInv
    <2>2. d \in DOMAIN cdials
      BY ClientConstants, CP!DomainsEqual DEF CP!IInv, CP!DialerInv, SidesInv
    <2> QED
      BY <1>1, <2>1, <2>2 DEF CP!ClosesWhy, ToldUser
  <1>3. CASE \E e \in Links : /\ CP!PeerCloses(e)
                              /\ cstate[e] = "closed" /\ cconns[e].in = Len(delivered[e])
    <2>1. PICK e \in Links : CP!PeerCloses(e) /\ cstate[e] = "closed"
                             /\ cconns[e].in = Len(delivered[e])
      BY <1>3
    <2>2. d = e
      BY <2>1, ClientConstants, CP!PeerEnds DEF SidesInv, CP!EndInv
    <2>3. cconns'[d].in = cconns[d].in
      <3>1. cconns' = CP!ConnAt(d, "closed")
        BY <2>1, <2>2 DEF CP!PeerCloses
      <3> QED
        BY <3>1, ClientConstants, CP!ConnFields DEF CP!ConnAt
    <2>4. cstate'[d] = "closed" /\ delivered'[d] = delivered[d]
      BY <2>1, <2>2, ServerSimulated, ClosedGetsNothing DEF SidesInv
    <2> QED
      BY <2>1, <2>2, <2>3, <2>4 DEF Ended
  <1>4. CASE UNCHANGED clientVars
    BY <1>4 DEF clientVars
  <1> QED
    BY <1>2, <1>3, <1>4, ClientDoesThis DEF ClientDoes, SidesInv

LEMMA NextClientClosed ==
  ASSUME SidesInv, SidesInv', [Next]_vars, ~broken', FailedIsBroken', ClientClosed
  PROVE  ClientClosed'
  <1> SUFFICES ASSUME NEW d \in DOMAIN cconns', cconns'[d].st = "closed"
               PROVE  ToldUser(d)' \/ Ended(d)'
    BY DEF ClientClosed
  <1>1. d \in DOMAIN cconns
    BY ClientConstants, SidesMove, CP!ClosedWasThere DEF SidesInv
  <1>2. CASE cconns[d].st = "closed"
    BY <1>1, <1>2, ToldUserStays, EndedStays DEF ClientClosed
  <1>3. CASE cconns[d].st # "closed"
    BY <1>1, <1>3, ClosesFor, ToldUserStays
  <1> QED
    BY <1>2, <1>3

LEMMA ServerMoved ==
  ASSUME SidesInv, SidesInv', [Next]_vars
  PROVE  SP!ConnsGo /\ SP!DialsGo /\ SP!DeliveredStays
  <1>1. [SP!Next]_SP!vars
    BY ServerSimulated
  <1> QED
    BY <1>1, ServerConstants, SP!NextEvents, SP!NextDials, SP!NextDelivered DEF SidesInv

LEMMA NextDialsSettled ==
  ASSUME SidesInv, [Next]_vars, ~broken, FailedIsBroken, OneDest, SP!DialsSettled
  PROVE  SP!DialsSettled'
  <1>1. [SP!Next]_SP!vars
    BY ServerSimulated
  <1>2. SP!KeepsDest
    <2>1. PICK F : F = Named
      OBVIOUS
    <2>2. SP!Names(F)
      BY <2>1 DEF OneDest
    <2> QED
      BY <2>2, ServerConstants, SP!NamesKeep DEF SidesInv
  <1>3. loop.failed = SP!NoConn
    BY DEF FailedIsBroken
  <1> QED
    BY <1>1, <1>2, <1>3, ServerConstants, SP!NextSettled DEF SidesInv

\* The dispatcher sees a link close that was to close.
LEMMA SeesClose ==
  ASSUME SidesInv, [Next]_vars, ~broken', ClientClosed,
         NEW d \in Links, ~SP!Closing(d), SP!ClientCloses(d)
  PROVE  ToldUser(d)
  <1>1. cstate \in [Links -> {"open", "closing", "closed"}]
    BY DEF SidesInv, SP!IInv, SP!TypeOK, SP!ClientTypeOK
  <1>2. cstate[d] = "open" /\ cstate'[d] = "closed"
    BY <1>1 DEF SP!ClientCloses, SP!Closing
  <1>3. ~UNCHANGED cstate
    BY <1>2
  <1>4. ~SP!Upstream /\ ~SP!DialerSteps /\ ~SP!DownReceive /\ ~UNCHANGED serverVars
        /\ \A e \in Links : ~SP!ClientSends(e)
    BY <1>3
    DEF SP!Upstream, SP!UpReceive, SP!UpAdmit, SP!UpCall, SP!UpDialResult, SP!clientVars,
        SP!DialerSteps, SP!LoopOpens, SP!LoopWriteError, SP!DialerAlone, SP!DownReceive,
        serverVars, SP!ClientSends
  <1>5. ~SP!DownCall
    <2>1. ASSUME SP!DownCall PROVE FALSE
      <3>1. UNCHANGED cstate \/ \E c : cstate' = [cstate EXCEPT ![c] = "closing"]
        BY <2>1 DEF SP!DownCall
      <3> QED
        BY <1>1, <1>2, <3>1
    <2> QED
      BY <2>1
  <1>6. PICK e \in Links : SP!ClientCloses(e) /\ ServerSeesClose(e)
    BY <1>4, <1>5, ServerDoesThis DEF ServerDoes, SP!Downstream
  <1>7. e = d
    BY <1>1, <1>2, <1>6 DEF SP!ClientCloses
  <1>8. d \in DOMAIN cconns /\ cconns[d].st = "closed"
    BY <1>2, <1>6, <1>7 DEF ServerSeesClose
  <1> QED
    BY <1>2, <1>8 DEF ClientClosed, Ended

LEMMA NextServerClosed ==
  ASSUME SidesInv, SidesInv', [Next]_vars, ~broken', ClientClosed, SP!DialsSettled, ServerClosed
  PROVE  ServerClosed'
  <1> SUFFICES ASSUME NEW d \in Links, SP!Closing(d)'
               PROVE  SP!Answered(d)' \/ ToldUser(d)'
    BY DEF ServerClosed
  <1>1. [SP!Next]_SP!vars
    BY ServerSimulated
  <1>2. CASE SP!Closing(d)
    <2>1. SP!Answered(d) => SP!Answered(d)'
      BY <1>1, ServerConstants, SP!AnsweredStays DEF SidesInv
    <2> QED
      BY <1>2, <2>1, ToldUserStays DEF ServerClosed
  <1>3. CASE ~SP!Closing(d)
    <2>1. SP!Answered(d)' \/ SP!ClientCloses(d)
      BY <1>1, <1>3, ServerConstants, SP!NextAnswers DEF SidesInv
    <2> QED
      BY <1>3, <2>1, SeesClose, ToldUserStays
  <1> QED
    BY <1>2, <1>3

(***************************************************************************)
(* A user that is hung up on                                               *)
(***************************************************************************)

\* The first destination connection that was made for u has closed, and the
\* last payload read from it, so all of them, has been written to u.
Full(u) ==
  \E e \in DOMAIN conns :
    /\ FirstMade(u, e)
    /\ conns[e].st = "closed"
    /\ conns[e].in > 0 =>
         \E i \in DOMAIN toUser[u] : Sent(u, i) = [conn |-> e, seq |-> conns[e].in]

UsersFull == \A u \in Users : CP!Told(u) /\ ustate[u] # "closed" => Full(u)

LEMMA LinksOfDials ==
  ASSUME SidesInv, OneDest, NEW e \in DOMAIN dials
  PROVE  /\ dials[e].token.client \in DOMAIN cdials
         /\ cconns[dials[e].token.client].out # <<>>
  <1>1. PICK F : F = Named
    OBVIOUS
  <1>2. SP!Names(F)
    BY <1>1 DEF OneDest
  <1>3. PICK c : c = dials[e].token.client
    OBVIOUS
  <1>4. c \in DOMAIN F
    BY <1>2, <1>3 DEF SP!Names
  <1>5. c \in DOMAIN cconns /\ cconns[c].out # <<>>
    BY <1>1, <1>4 DEF Named
  <1>6. DOMAIN cconns = DOMAIN cdials
    BY ClientConstants, CP!DomainsEqual DEF CP!IInv, CP!DialerInv, SidesInv
  <1> QED
    BY <1>3, <1>5, <1>6

LEMMA OwnsSame ==
  ASSUME SidesInv, SidesInv', OneDest, [Next]_vars, NEW u, NEW e \in DOMAIN dials
  PROVE  /\ e \in DOMAIN conns /\ e \in DOMAIN conns'
         /\ Owns(u, e)' <=> Owns(u, e)
  <1>1. PICK c : c = dials[e].token.client
    OBVIOUS
  <1>2. e \in DOMAIN conns /\ e \in DOMAIN conns'
    BY ServerMoved, ServerConstants, SP!ConnsType DEF SP!DialsGo, SidesInv
  <1>3. dials'[e].token = dials[e].token
    BY ServerMoved DEF SP!DialsGo
  <1>4. cdials'[c].token = cdials[c].token
    BY <1>1, LinksOfDials, SidesMove DEF CP!DialsKept
  <1>5. dials'[e].token.client = c
    BY <1>1, <1>3
  <1>6. cdials'[c].token.user = cdials[c].token.user
    BY <1>4
  <1> QED
    BY <1>1, <1>2, <1>5, <1>6 DEF Owns

LEMMA FirstStays ==
  ASSUME SidesInv, SidesInv', OneDest, [Next]_vars, NEW u, NEW e \in DOMAIN conns,
         FirstMade(u, e)
  PROVE  FirstMade(u, e)'
  <1>1. /\ DOMAIN conns = DOMAIN dials /\ DOMAIN dials = 1..Len(dials) /\ Len(dials) \in Nat
        /\ DOMAIN conns' = DOMAIN dials' /\ DOMAIN dials' = 1..Len(dials')
    BY ServerConstants, SP!ConnsType, SP!NextTypes DEF SidesInv
  <1>2. Owns(u, e)'
    BY <1>1, OwnsSame DEF FirstMade
  <1>3. ASSUME NEW f \in DOMAIN conns', f < e, Owns(u, f)'
        PROVE  NeverMade(f)'
    <2>1. f \in DOMAIN conns /\ f \in DOMAIN dials
      BY <1>1, <1>3
    <2>2. Owns(u, f)
      BY <1>3, <2>1, OwnsSame
    <2>3. SP!NotMade(f)
      BY <1>3, <2>1, <2>2 DEF FirstMade, NeverMade, SP!NotMade
    <2>4. SP!NotMade(f)'
      BY <2>1, <2>3, ServerMoved DEF SP!DialsGo
    <2> QED
      BY <2>4 DEF NeverMade, SP!NotMade
  <1> QED
    BY <1>2, <1>3 DEF FirstMade

\* What a user was sent stays what it was.
LEMMA SentStays ==
  ASSUME JoinInv, SidesInv, SidesInv', [Next]_vars, NEW u \in Users, NEW i \in DOMAIN toUser[u]
  PROVE  i \in DOMAIN toUser'[u] /\ Sent(u, i)' = Sent(u, i)
  <1>1. PICK d, q : d = toUser[u][i].conn /\ q = toUser[u][i].seq
    OBVIOUS
  <1>2. i \in DOMAIN toUser'[u] /\ toUser'[u][i].conn = d /\ toUser'[u][i].seq = q
    BY <1>1, SidesMove DEF CP!DeliveredStays
  <1>3. d \in Links /\ q \in DOMAIN delivered[d]
    BY <1>1, BothHops
  <1>4. delivered'[d][q] = delivered[d][q]
    BY <1>3, ServerMoved DEF SP!DeliveredStays
  <1> QED
    BY <1>1, <1>2, <1>4 DEF Sent

LEMMA FullStays ==
  ASSUME JoinInv, SidesInv, SidesInv', OneDest, [Next]_vars, NEW u \in Users, Full(u)
  PROVE  Full(u)'
  <1>1. PICK e \in DOMAIN conns :
          /\ FirstMade(u, e)
          /\ conns[e].st = "closed"
          /\ conns[e].in > 0 =>
               \E i \in DOMAIN toUser[u] : Sent(u, i) = [conn |-> e, seq |-> conns[e].in]
    BY DEF Full
  <1>2. e \in DOMAIN conns' /\ conns'[e].st = "closed" /\ conns'[e].in = conns[e].in
    BY <1>1, ServerMoved DEF SP!ConnsGo
  <1>3. ASSUME conns[e].in > 0
        PROVE  \E i \in DOMAIN toUser'[u] : Sent(u, i)' = [conn |-> e, seq |-> conns'[e].in]
    <2>1. PICK i \in DOMAIN toUser[u] : Sent(u, i) = [conn |-> e, seq |-> conns[e].in]
      BY <1>1, <1>3
    <2> QED
      BY <1>2, <2>1, SentStays
  <1>4. FirstMade(u, e)'
    BY <1>1, FirstStays
  <1> QED
    BY <1>2, <1>3, <1>4 DEF Full

\* The user of a link that ended, and of no other that was used.
LEMMA EndedIsFull ==
  ASSUME JoinInv, SidesInv, OneDest, ServerClosed, NEW u \in Users, NEW d \in DOMAIN cdials,
         CP!Owner(d) = u, ~CP!Told(u), Ended(d), CP!AllOf(u, d),
         \A f \in DOMAIN cdials : CP!Owner(f) = u /\ f # d => cconns[f].out = <<>>
  PROVE  Full(u)
  <1>1. SP!Answered(d)
    BY DEF ServerClosed, Ended, SP!Closing, ToldUser
  <1>2. PICK e \in DOMAIN conns :
          /\ dials[e].token.client = d
          /\ conns[e].st = "closed"
          /\ conns[e].in > 0 =>
               \E k \in DOMAIN delivered[d] : delivered[d][k] = [conn |-> e, seq |-> conns[e].in]
          /\ \A f \in DOMAIN dials : f < e /\ dials[f].token.client = d => SP!NotMade(f)
    BY <1>1 DEF SP!Answered
  <1>3. DOMAIN conns = DOMAIN dials
    BY ServerConstants, SP!ConnsType DEF SidesInv
  <1>4. Owns(u, e)
    BY <1>2 DEF Owns, CP!Owner
  <1>5. ASSUME NEW f \in DOMAIN conns, f < e, Owns(u, f)
        PROVE  NeverMade(f)
    <2>1. PICK c : c = dials[f].token.client
      OBVIOUS
    <2>2. c \in DOMAIN cdials /\ cconns[c].out # <<>>
      BY <1>3, <2>1, LinksOfDials
    <2>3. CP!Owner(c) = u
      BY <1>5, <2>1 DEF Owns, CP!Owner
    <2>4. c = d
      BY <2>2, <2>3
    <2> QED
      BY <1>2, <1>3, <1>5, <2>1, <2>4 DEF NeverMade, SP!NotMade
  <1>6. ASSUME conns[e].in > 0
        PROVE  \E i \in DOMAIN toUser[u] : Sent(u, i) = [conn |-> e, seq |-> conns[e].in]
    <2>1. PICK k \in DOMAIN delivered[d] : delivered[d][k] = [conn |-> e, seq |-> conns[e].in]
      BY <1>2, <1>6
    <2>2. k \in 1..cconns[d].in
      <3>1. delivered[d] \in Seq(SP!Pkt) /\ cconns[d].in = Len(delivered[d])
        BY DEF Ended, SidesInv, SP!IInv, SP!TypeOK, SP!ClientTypeOK
      <3> QED
        BY <3>1
    <2>3. PICK i \in DOMAIN toUser[u] : toUser[u][i] = [conn |-> d, seq |-> k]
      BY <2>2 DEF CP!AllOf
    <2>4. toUser[u][i].conn = d /\ toUser[u][i].seq = k
      BY <2>3
    <2> QED
      BY <2>1, <2>4 DEF Sent
  <1> QED
    BY <1>2, <1>4, <1>5, <1>6 DEF Full, FirstMade

LEMMA NextUsersFull ==
  ASSUME JoinInv, SidesInv, SidesInv', OneDest, [Next]_vars, ~broken', ClientClosed, ServerClosed,
         UsersFull
  PROVE  UsersFull'
  <1> SUFFICES ASSUME NEW u \in Users, CP!Told(u)', ustate'[u] # "closed"
               PROVE  Full(u)'
    BY DEF UsersFull
  <1>1. CASE CP!Told(u)
    <2>1. ustate[u] # "closed"
      BY ClientConstants, SidesMove, CP!GoneStays DEF SidesInv
    <2> QED
      BY <1>1, <2>1, FullStays DEF UsersFull
  <1>2. CASE ~CP!Told(u)
    <2>1. CP!HungUp(u)
      BY <1>2, ClientConstants, SidesMove, CP!HangUp DEF SidesInv
    <2>2. PICK d \in DOMAIN cdials :
            /\ CP!Owner(d) = u /\ cconns[d].st = "closed" /\ CP!AllOf(u, d)
            /\ \A f \in DOMAIN cdials : CP!Owner(f) = u /\ f # d => cconns[f].out = <<>>
      BY <2>1 DEF CP!HungUp
    <2>3. d \in DOMAIN cconns
      BY ClientConstants, CP!DomainsEqual DEF CP!IInv, CP!DialerInv, SidesInv
    <2>4. Ended(d)
      BY <1>2, <2>2, <2>3 DEF ClientClosed, ToldUser
    <2>5. Full(u)
      BY <1>2, <2>2, <2>4, EndedIsFull
    <2> QED
      BY <2>5, FullStays
  <1> QED
    BY <1>1, <1>2

(***************************************************************************)
(* An orderly close                                                        *)
(***************************************************************************)

\* While nothing has failed: what was dialed is settled, each end of a link
\* closes for a reason, and who was told has it all.
OrderlyInv ==
  ~broken => SP!DialsSettled /\ ClientClosed /\ ServerClosed /\ UsersFull

LEMMA InitOrderly ==
  ASSUME Init
  PROVE  FailedIsBroken /\ OneDest /\ OrderlyInv
  <1>1. CP!Init /\ SP!Init
    BY ClientInit, ServerInit DEF Init
  <1>2. FailedIsBroken
    BY <1>1 DEF FailedIsBroken, CP!Init, CP!DialerInit, SP!Init, SP!DialerInit
  <1>3. OneDest
    BY <1>1, ServerConstants, SP!InitNames DEF OneDest
  <1>4. SP!DialsSettled
    BY <1>1 DEF SP!DialsSettled, SP!Init, SP!DialerInit
  <1>5. ClientClosed
    BY <1>1 DEF ClientClosed, CP!Init, CP!DialerInit
  <1>6. ServerClosed
    BY <1>1 DEF ServerClosed, SP!Closing, SP!Init
  <1>7. UsersFull
    BY <1>1 DEF UsersFull, CP!Told, CP!Init
  <1> QED
    BY <1>2, <1>3, <1>4, <1>5, <1>6, <1>7 DEF OrderlyInv

LEMMA NextOrderly ==
  ASSUME JoinInv, SidesInv, SidesInv', FailedIsBroken, OneDest, OrderlyInv, [Next]_vars
  PROVE  FailedIsBroken' /\ OneDest' /\ OrderlyInv'
  <1>1. FailedIsBroken' /\ (broken => broken')
    BY NextBroken
  <1>2. OneDest'
    BY SidesMove, NextNamed DEF SidesInv
  <1>3. ASSUME ~broken'
        PROVE  SP!DialsSettled' /\ ClientClosed' /\ ServerClosed' /\ UsersFull'
    <2>1. ~broken /\ SP!DialsSettled /\ ClientClosed /\ ServerClosed /\ UsersFull
      BY <1>1, <1>3 DEF OrderlyInv
    <2>2. SP!DialsSettled'
      BY <2>1, NextDialsSettled
    <2>3. ClientClosed'
      BY <1>1, <1>3, <2>1, NextClientClosed
    <2>4. ServerClosed'
      BY <1>3, <2>1, NextServerClosed
    <2>5. UsersFull'
      BY <1>3, <2>1, NextUsersFull
    <2> QED
      BY <2>2, <2>3, <2>4, <2>5
  <1> QED
    BY <1>1, <1>2, <1>3 DEF OrderlyInv

\* Who has the last payload of a connection has all of it.
LEMMA LastIsAll ==
  ASSUME JoinInv, SidesInv, NEW u \in Users, Full(u)
  PROVE  \E e \in DOMAIN conns :
           /\ FirstMade(u, e)
           /\ conns[e].st = "closed"
           /\ Cardinality(FromDest(u, e)) = conns[e].in
  <1>1. PICK e \in DOMAIN conns :
          /\ FirstMade(u, e)
          /\ conns[e].st = "closed"
          /\ conns[e].in > 0 =>
               \E i \in DOMAIN toUser[u] : Sent(u, i) = [conn |-> e, seq |-> conns[e].in]
    BY DEF Full
  <1>2. PICK n \in Nat : n = conns[e].in
    BY <1>1, ServerConstants, SP!ConnsType DEF SidesInv
  <1>3. \A j \in FromDest(u, e) : j \in DOMAIN toUser[u] /\ Sent(u, j).conn = e
    BY DEF FromDest
  <1>4. ASSUME NEW j \in FromDest(u, e)
        PROVE  /\ j \in Nat /\ Sent(u, j).seq \in 1..j /\ Sent(u, j).seq <= n
               /\ {k \in FromDest(u, e) : k <= j} = (j - Sent(u, j).seq + 1)..j
    <2>1. j \in DOMAIN toUser[u] /\ Sent(u, j).conn = e
      BY <1>3
    <2>2. PICK d, q : d = toUser[u][j].conn /\ q = toUser[u][j].seq
      OBVIOUS
    <2>3. j \in Nat /\ d \in Links /\ q \in DOMAIN delivered[d] /\ Sent(u, j) = delivered[d][q]
      BY <2>1, <2>2, BothHops DEF Sent
    <2>4. SP!WasRead(delivered[d][q])
      BY <2>3 DEF SidesInv, SP!AllSent
    <2>5. Sent(u, j).seq <= n
      BY <1>2, <2>1, <2>3, <2>4 DEF SP!WasRead
    <2> QED
      BY <2>1, <2>3, <2>5, SameDestination
  <1>5. CASE n = 0
    <2>1. FromDest(u, e) = {}
      <3>1. ASSUME NEW j \in FromDest(u, e)
            PROVE  FALSE
        BY <1>4, <1>5
      <3> QED
        BY <3>1
    <2> QED
      BY <1>1, <1>2, <1>5, <2>1, FS_EmptySet
  <1>6. CASE n > 0
    <2>1. PICK i \in DOMAIN toUser[u] : Sent(u, i) = [conn |-> e, seq |-> n]
      BY <1>1, <1>2, <1>6
    <2>2. Sent(u, i).conn = e /\ Sent(u, i).seq = n
      BY <2>1
    <2>3. i \in FromDest(u, e)
      BY <2>2 DEF FromDest
    <2>4. i \in Nat /\ n \in 1..i /\ {k \in FromDest(u, e) : k <= i} = (i - n + 1)..i
      BY <1>4, <2>2, <2>3
    <2>5. ASSUME NEW j \in FromDest(u, e)
          PROVE  j <= i
      <3> SUFFICES ASSUME j > i
                   PROVE  FALSE
        BY <1>4, <2>4
      <3>1. PICK s : s = Sent(u, j).seq
        OBVIOUS
      <3>2. j \in Nat /\ s \in 1..j /\ s <= n
            /\ {k \in FromDest(u, e) : k <= j} = (j - s + 1)..j
        BY <1>4, <3>1
      <3>3. i - n + 1 \in {k \in FromDest(u, e) : k <= i}
        BY <2>4
      <3>4. i - n + 1 \in {k \in FromDest(u, e) : k <= j}
        BY <2>4, <3>2, <3>3
      <3>5. i - n + 1 >= j - s + 1
        BY <3>2, <3>4
      <3> QED
        BY <2>4, <3>2, <3>5
    <2>6. FromDest(u, e) = (i - n + 1)..i
      BY <2>4, <2>5
    <2>7. Cardinality((i - n + 1)..i) = n
      <3>1. i - n + 1 \in Int /\ ~(i - n + 1 > i) /\ i - (i - n + 1) + 1 = n
        BY <2>4
      <3> QED
        BY <2>4, <3>1, FS_Interval
    <2> QED
      BY <1>1, <1>2, <2>6, <2>7
  <1> QED
    BY <1>5, <1>6

\* When a user is hung up on and neither a write nor the network has failed,
\* the first destination connection that was made for it has closed, and all
\* that was read from it has been written to the user (forwarder.go:230,
\* handler.go:184): whatever the two programs' goroutines do in between.
THEOREM OrderlyClose == Spec => []OrderlyCloseLosesNothing
  <1>1. Spec => []SidesInv
    <2>1. CP!Spec => [](CP!IInv /\ CP!OrderInv /\ CP!DownInv /\ CP!DownstreamInOrder
                        /\ CP!DeliveredSent /\ CP!EndInv)
      BY ClientConstants, CP!ClosesAreTold
    <2>2. SP!Spec => [](SP!IInv /\ SP!SafetyInv /\ SP!UpInv /\ SP!DownInv /\ SP!ClosesLast
                        /\ SP!AllSent)
      BY ServerConstants, SP!ClosesComeLast
    <2> QED
      BY <2>1, <2>2, ClientRuns, ServerRuns, PTL DEF SidesInv
  <1>2. Init => FailedIsBroken /\ OneDest /\ OrderlyInv
    BY InitOrderly
  <1>3. JoinInv /\ SidesInv /\ SidesInv' /\ FailedIsBroken /\ OneDest /\ OrderlyInv /\ [Next]_vars
          => FailedIsBroken' /\ OneDest' /\ OrderlyInv'
    BY NextOrderly
  <1>4. ASSUME JoinInv, SidesInv, OrderlyInv
        PROVE  OrderlyCloseLosesNothing
    BY <1>4, LastIsAll DEF OrderlyCloseLosesNothing, OrderlyInv, UsersFull, CP!Told
  <1> QED
    BY <1>1, <1>2, <1>3, <1>4, JoinInvariant, PTL DEF Spec
===============================================================================
