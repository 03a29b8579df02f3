CONSTANTS
  Core = {c1, c2, c3, c4}
  Addr = {a, b}
  NoAddr = NoAddr
  NoCore = NoCore
  MaxCalls = 5
SPECIFICATION FairSpec
INVARIANTS
  TypeOK
  RequestsLive
  WaitersCounted
  NoLostWakeup
  OneRequestPerAddress
PROPERTIES
  ImplementsService
  EveryCallReturns
