SPECIFICATION FairSpec
CONSTANTS
  Users = {u1}
  Kinds = {"request", "handshake"}
  HandshakeKept = TRUE
  LongDests = TRUE
  MaxUnits = 3
  ReadSizes = {1, 2}
  MaxConcurrentDials = 1
  DialResultChanSize = 1
  RecvChanSize = 1
  DialErrorToRecvChan = TRUE
  MaxIn = 1
INVARIANTS
  TypeOK
  RouteConsistent
  UpstreamInOrder
  UpstreamNotLost
  DownstreamNotLost
PROPERTIES
  ServerGoneTellsUser
  UserReclaimed
  DialSettles
