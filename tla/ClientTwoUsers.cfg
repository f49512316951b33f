SPECIFICATION Spec
CONSTANTS
  Users = {u1, u2}
  Kinds = {"request"}
  HandshakeKept = FALSE
  LongDests = FALSE
  MaxUnits = 1
  ReadSizes = {1}
  MaxConcurrentDials = 1
  DialResultChanSize = 1
  RecvChanSize = 1
  DialErrorToRecvChan = TRUE
  MaxIn = 2
SYMMETRY UserSymmetry
INVARIANTS
  DownstreamInOrder
