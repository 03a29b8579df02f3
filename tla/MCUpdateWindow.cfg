CONSTANTS
  Core = {c1, c2}
  Addr = {a}
  NoAddr = NoAddr
  NoCore = NoCore
  Protocols = {"Dragon"}
  Ways = 1
  SetOf <- OneSet
  Threshold = 3
  InitialPending <- Zeroed
  MaxAccesses = 4
SPECIFICATION Spec
SYMMETRY Symmetry
INVARIANTS
  UpdateNeverMeetsSole
