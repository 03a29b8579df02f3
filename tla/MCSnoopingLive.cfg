CONSTANTS
  Core = {c1, c2, c3}
  Addr = {a}
  NoAddr = NoAddr
  NoCore = NoCore
  Protocols = {"MSI", "MESI", "MOSI", "MOESI"}
  Ways = 1
  SetOf <- OneSet
  InitialPending <- AnyPending
  MaxAccesses = 4
SPECIFICATION FairSpec
PROPERTIES
  EveryAccessCompletes
