CONSTANTS
  Core = {0, 1, 2}
  Ids = {0, 1, 2, 3}
  MaxLines = 4
  Traces <- Files
  NoAccess = NoAccess
  BlockSize = 64
SPECIFICATION FairSpec
INVARIANTS
  TypeOK
  NoLostWakeup
PROPERTIES
  ImplementsService
  EndsWhenItCan
