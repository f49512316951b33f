SPECIFICATION FairSpec
CONSTANTS
  Users = {u1}
  Dests = {t1}
  DestOf <- MCDestOf
  MaxUnits = 1
  MaxIn = 2
  MaxConcurrentDials = 1
  DialResultChanSize = 1
  RecvChanSize = 1
  MsgChanSize = 1
INVARIANTS
  EndToEndInOrder
  OrderlyCloseLosesNothing
PROPERTIES
  TunnelDialed
  BannerArrives
  CloseCascades
