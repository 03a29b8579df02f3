CONSTANTS
  Core = {c1, c2, c3}
  NoCore = NoCore
  MaxRequests = 4
SPECIFICATION FairSpec
INVARIANTS
  TypeOK
  NoLostWakeup
  SnoopsOneTransaction
  EndMeansSnooped
PROPERTIES
  ImplementsService
  EveryRequestEnds
