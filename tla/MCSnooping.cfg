CONSTANTS
  Core = {c1, c2, c3}
  Addr = {a, b}
  NoAddr = NoAddr
  NoCore = NoCore
  Protocols = {"MSI", "MESI", "MOSI", "MOESI"}
  Ways = 1
  SetOf <- OneSet
  InitialPending <- Zeroed
  MaxAccesses = 6
SPECIFICATION Spec
SYMMETRY Symmetry
INVARIANTS
  TypeOK
  Coherent
  AssertionsHold
  FetchedLineStays
  RefusalLosesNoData
PROPERTY
  BusHeldStill
