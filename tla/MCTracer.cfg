CONSTANTS
  Tools = {"TraceFuncsList", "MyMemTracer"}
  Programs = {"lock_add", "wild_add", "lock_fill_bucket", "wild_fill_bucket"}
  NumThreads = 3
  Iterations = 1
  Numbers <- FourNumbers
  Nobody = Nobody
SPECIFICATION FairSpec
INVARIANTS
  TypeOK
  TraceIsFaithful
  CriticalSectionsWhole
  NoIncrementLost
PROPERTIES
  FlagChangesAlone
  RunEnds
