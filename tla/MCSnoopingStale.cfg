CONSTANTS
  Core = {c1, c2, c3}
  Addr = {a, b}
  NoAddr = NoAddr
  NoCore = NoCore
  Protocols = {"MSI"}
  Ways = 1
  SetOf <- OneSet
  InitialPending <- Zeroed
  MaxAccesses = 6
SPECIFICATION Spec
SYMMETRY Symmetry
INVARIANTS
  ModifiedSnoopNeverPending
