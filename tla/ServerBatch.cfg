SPECIFICATION FairSpec
CONSTANTS
  Clients = {c1}
  Dests = {x, y}
  MaxConcurrentDials = 1
  DialResultChanSize = 1
  RecvChanSize = 1
  DialErrorToRecvChan = FALSE
  MaxIn = 1
  MsgChanSize = 1
  MaxUp = 2
  UpBatches = {1, 2}
INVARIANTS
  TypeOK
  RouteConsistent
  UpstreamInOrder
  UpstreamNotLost
  DownstreamInOrder
  DownstreamNotLost
PROPERTIES
  UnroutedClosed
  ClosedUnrouted
  ClientReclaimed
  DialSettles
