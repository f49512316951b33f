SPECIFICATION Spec
CONSTANTS
  Clients = {c1}
  Dests = {x, y}
  MaxConcurrentDials = 2
  DialResultChanSize = 2
  RecvChanSize = 1
  DialErrorToRecvChan = FALSE
  MaxIn = 0
  MsgChanSize = 1
  MaxUp = 3
  UpBatches = {1}
SYMMETRY DestSymmetry
PROPERTIES
  SessionLossJustified
