SPECIFICATION Spec
CONSTANTS
  Heads <- MCHeads
  MaxPayload = 9
  V4Len = 1
  V6Len = 2
  MaxMetadata = 6
  MaxUint = 255
  SidAt = 0
  SaltLen = 2
  Tag = 1
  MaxChunk = 5
  OwnSalt <- MCOwnSalt
  Scripts <- MCScripts
  Down <- MCDown
INVARIANTS
  RightDestination
  NothingHeld
  RejectsOnlyBad
  Answered
  ServerTold
  UserDecodes
