SPECIFICATION Spec
CONSTANTS
  Clients = {c1}
  Dests = {x, y}
  MaxConcurrentDials = 1
  DialResultChanSize = 1
  RecvChanSize = 1
  DialErrorToRecvChan = FALSE
  MaxIn = 0
  MsgChanSize = 1
  MaxUp = 2
  UpBatches = {1}
INVARIANT
  DialGoroutinesBounded
