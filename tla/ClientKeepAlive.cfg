SPECIFICATION Spec
CONSTANTS
  Users = {u1}
  Kinds = {"request", "handshake"}
  HandshakeKept = FALSE
  LongDests = FALSE
  MaxUnits = 3
  ReadSizes = {1, 2}
  MaxConcurrentDials = 1
  DialResultChanSize = 1
  RecvChanSize = 1
  DialErrorToRecvChan = TRUE
  MaxIn = 0
INVARIANT
  TunnelNotReparsed
