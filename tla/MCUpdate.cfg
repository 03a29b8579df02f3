CONSTANTS
  Core = {c1, c2, c3}
  Addr = {a, b}
  NoAddr = NoAddr
  NoCore = NoCore
  Protocols = {"Dragon", "CompSnooping"}
  Ways = 1
  SetOf <- OneSet
  Threshold = 3
  InitialPending <- AnyPending
  MaxAccesses = 5
SPECIFICATION Spec
SYMMETRY Symmetry
INVARIANTS
  TypeOK
  CountersStayPositive
  CoherentUnlessRaced
  AssertionsHoldUnlessRaced
