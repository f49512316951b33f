SPECIFICATION FairSpec
CONSTANTS
  Loops = {l1, l2}
  Conns = {c1, c2, c3}
  WorkerNum = 2
  MsgChanSize = 1
  Uint64 = 1024
  MaxMsgs = 2
INVARIANTS
  PerConnectionOrder
  Balanced
PROPERTY
  CloseTold
