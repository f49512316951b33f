SPECIFICATION Spec
CONSTANTS
  Base = 2
  Hosts <- MCHosts
  PortTexts = {0, 1, 5}
  UserBytes = {0, 1}
  MaxUser = 4
  MaxSent = 2
  MaxForeign = 12
INVARIANTS
  NoneWaits
  NeverRejected
  UserBytesKept
  Reencodes
  RejectedForCause
PROPERTIES
  PipeImplemented
