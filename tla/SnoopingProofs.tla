--------------------------- MODULE SnoopingProofs ---------------------------
(***************************************************************************)
(* Coherence of the invalidation protocols, for any number of cores and    *)
(* addresses, any associativity and any trace.                             *)
(***************************************************************************)
EXTENDS Snooping, FiniteSetTheorems, TLAPS

-----------------------------------------------------------------------------
(* What the tables of the four protocols have in common.                   *)

USE DEF CacheState, BusOp, Access, Sole, Dirty

\* The bus operations a protocol issues and snoops without an assert.
Issuable(p) == IF p \in {"MSI", "MESI"} THEN {"BusRd", "BusRdX"}
               ELSE {"BusRd", "BusRdX", "BusUpg"}

\* A hit leaves the line as it is or makes an Exclusive line Modified.
LEMMA HitFacts ==
  ASSUME NEW p \in Protocols, NEW st \in CacheState, NEW o \in Access, Hit(p, st, o)
  PROVE  /\ HitStatus(p, st, o) \in CacheState
         /\ st # "Invalid"
         /\ HitStatus(p, st, o) = st \/ {st, HitStatus(p, st, o)} \subseteq Sole
<1>1. p \in {"MSI", "MESI", "MOSI", "MOESI"}
  BY SnoopingAssumption
<1>2. CASE p = "MSI"
  BY <1>2 DEF Hit, HitStatus, MSI!Hit, MSI!HitStatus
<1>3. CASE p = "MESI"
  BY <1>3 DEF Hit, HitStatus, MESI!Hit, MESI!HitStatus, MESI!Sole
<1>4. CASE p = "MOSI"
  BY <1>4 DEF Hit, HitStatus, MOSI!Hit, MOSI!HitStatus
<1>5. CASE p = "MOESI"
  BY <1>5 DEF Hit, HitStatus, MOESI!Hit, MOESI!HitStatus, MOESI!Sole
<1>. QED  BY <1>1, <1>2, <1>3, <1>4, <1>5

\* A line that calls for the bus is Invalid, or else it is written; a read
\* miss issues a BusRd and everything else an operation that takes the line.
LEMMA IssueFacts ==
  ASSUME NEW p \in Protocols, NEW st \in CacheState, NEW o \in Access, MayIssue(p, st, o)
  PROVE  /\ IssuedOp(p, st, o) \in Issuable(p)
         /\ st \notin Sole
         /\ st # "Invalid" => o = "W"
         /\ IssuedOp(p, st, o) = "BusRd" <=> st = "Invalid" /\ o = "R"
<1>1. p \in {"MSI", "MESI", "MOSI", "MOESI"}
  BY SnoopingAssumption
<1>2. CASE p = "MSI"
  BY <1>2 DEF MayIssue, IssuedOp, Issuable, MSI!MayIssue, MSI!IssuedOp
<1>3. CASE p = "MESI"
  BY <1>3 DEF MayIssue, IssuedOp, Issuable, MESI!MayIssue, MESI!IssuedOp
<1>4. CASE p = "MOSI"
  BY <1>4 DEF MayIssue, IssuedOp, Issuable, MOSI!MayIssue, MOSI!IssuedOp
<1>5. CASE p = "MOESI"
  BY <1>5 DEF MayIssue, IssuedOp, Issuable, MOESI!MayIssue, MOESI!IssuedOp
<1>. QED  BY <1>1, <1>2, <1>3, <1>4, <1>5

\* A line brought in by a write is Modified; one brought in by a read is
\* Shared, or Exclusive where the protocol has it and nobody told of a copy.
LEMMA FillFacts ==
  ASSUME NEW p \in Protocols, NEW o \in Access, NEW alone \in BOOLEAN
  PROVE  /\ FillStatus(p, o, alone) \in {"Modified", "Exclusive", "Shared"}
         /\ FillStatus(p, o, alone) = "Modified" => o = "W"
         /\ FillStatus(p, o, alone) = "Exclusive" => alone /\ p \in {"MESI", "MOESI"}
<1>1. p \in {"MSI", "MESI", "MOSI", "MOESI"}
  BY SnoopingAssumption
<1>2. CASE p = "MSI"
  BY <1>2 DEF FillStatus, MSI!FillStatus
<1>3. CASE p = "MESI"
  BY <1>3 DEF FillStatus, MESI!FillStatus
<1>4. CASE p = "MOSI"
  BY <1>4 DEF FillStatus, MOSI!FillStatus
<1>5. CASE p = "MOESI"
  BY <1>5 DEF FillStatus, MOESI!FillStatus
<1>. QED  BY <1>1, <1>2, <1>3, <1>4, <1>5

\* A snoop never leaves a line Modified or Exclusive and never brings one
\* in; only what was Modified or Owner is Owner after it; an operation that
\* takes the line leaves it Invalid and a BusRd leaves it in place; and a
\* cache of a protocol with the Exclusive state that kept silent has no copy.
LEMMA SnoopFacts ==
  ASSUME NEW p \in Protocols, NEW st \in CacheState, NEW b \in Issuable(p),
         SnoopAsserts(p, st, b)
  PROVE  /\ SnoopStatus(p, st, b) \in CacheState \ Sole
         /\ st = "Invalid" => SnoopStatus(p, st, b) = "Invalid"
         /\ SnoopStatus(p, st, b) = "Owner" => st \in {"Modified", "Owner"}
         /\ b # "BusRd" => SnoopStatus(p, st, b) = "Invalid"
         /\ b = "BusRd" /\ st # "Invalid" => SnoopStatus(p, st, b) # "Invalid"
         /\ p \in {"MESI", "MOESI"} /\ ~TellsShared(p, st, b) /\ b = "BusRd"
               => st = "Invalid"
<1>1. p \in {"MSI", "MESI", "MOSI", "MOESI"}
  BY SnoopingAssumption
<1>2. CASE p = "MSI"
  BY <1>2 DEF SnoopAsserts, SnoopStatus, Issuable, MSI!SnoopAsserts, MSI!SnoopStatus
<1>3. CASE p = "MESI"
  BY <1>3 DEF SnoopAsserts, SnoopStatus, TellsShared, Issuable,
              MESI!SnoopAsserts, MESI!SnoopStatus, MESI!TellsShared, MESI!Sole
<1>4. CASE p = "MOSI"
  BY <1>4 DEF SnoopAsserts, SnoopStatus, Issuable, MOSI!SnoopAsserts, MOSI!SnoopStatus
<1>5. CASE p = "MOESI"
  BY <1>5 DEF SnoopAsserts, SnoopStatus, TellsShared, Issuable,
              MOESI!SnoopAsserts, MOESI!SnoopStatus, MOESI!TellsShared, MOESI!Sole
<1>. QED  BY <1>1, <1>2, <1>3, <1>4, <1>5

-----------------------------------------------------------------------------
(* Counting answers.                                                       *)

LEMMA CoreCard ==
  /\ Cardinality(Core) \in Nat \ {0}
  /\ \A S \in SUBSET Core : IsFiniteSet(S) /\ Cardinality(S) \in Nat
BY SnoopingAssumption, FS_CardinalityType, FS_EmptySet, FS_Subset

LEMMA CoreCardLess ==
  ASSUME NEW S \in SUBSET Core, NEW c \in S
  PROVE  Cardinality(S \ {c}) = Cardinality(S) - 1
BY CoreCard, FS_RemoveElement

\* When every answer is counted nobody is left to answer.
LEMMA AnsweredMeansAll ==
  ASSUME IInv, NEW c \in Core, Answered(c)
  PROVE  reqLock = c /\ pendingWork = {} /\ c # NoCore
<1>1. reqLock = c
  BY DEF IInv, LockHeld, Answered
<1>2. Cardinality(pendingWork) = 0
  BY <1>1, CoreCard DEF IInv, Transaction, Answered, TypeOK
<1>3. pendingWork = {}
  BY <1>2, CoreCard, FS_EmptySet DEF IInv, TypeOK
<1>. QED  BY <1>1, <1>3, SnoopingAssumption

-----------------------------------------------------------------------------
(* The invariant holds initially and is kept by every action.              *)

LEMMA InitIInv == Init => IInv
<1>. SUFFICES ASSUME Init PROVE IInv
  OBVIOUS
<1>. USE SnoopingAssumption
<1>1. TypeOK
  <2>1. issued \in 0 .. MaxAccesses /\ respCount \in 0 .. Cardinality(Core) - 1
    BY CoreCard DEF Init
  <2>2. pendingAddr \in [Core -> Addr \cup {NoAddr}] /\ opt \in [Core -> BusOp]
    BY DEF Init
  <2>3. /\ protocol \in Protocols /\ reqLock \in Core \cup {NoCore}
        /\ pc = [c \in Core |-> "idle"]
        /\ status \in [Core -> [Addr -> CacheState]]
        /\ op \in [Core -> Access] /\ addr \in [Core -> Addr \cup {NoAddr}]
        /\ cacheTransfer \in [Core -> BOOLEAN]
    BY DEF Init
  <2>4. /\ busAddr \in Addr \cup {NoAddr} /\ busOpt \in BusOp /\ recvNak \in BOOLEAN
        /\ readEx \in BOOLEAN /\ ownerId \in Core \cup {NoCore}
        /\ pendingWork \subseteq Core /\ snooped \subseteq pendingWork
    BY DEF Init
  <2>. QED  BY <2>1, <2>2, <2>3, <2>4 DEF TypeOK
<1>2. Coherent
  BY DEF Init, Coherent
<1>3. LockHeld /\ Transaction /\ Answers
  BY DEF Init, LockHeld, Transaction, Answers
<1>. QED  BY <1>1, <1>2, <1>3 DEF IInv

LEMMA AcceptIInv ==
  ASSUME IInv, NEW c \in Core, Accept(c)
  PROVE  IInv'
<1>. USE DEF IInv
<1>a. /\ pc[c] = "idle" /\ pc' = [pc EXCEPT ![c] = "lookup"]
      /\ UNCHANGED <<protocol, lineVars, busVars>>
      /\ \A d \in Core \ {c} : addr'[d] = addr[d] /\ op'[d] = op[d]
  BY DEF Accept, TypeOK
<1>1. TypeOK'
  <2>1. op' \in [Core -> Access] /\ addr' \in [Core -> Addr \cup {NoAddr}]
        /\ addr'[c] \in Addr
    BY DEF Accept, TypeOK
  <2>2. issued' \in 0 .. MaxAccesses /\ cacheTransfer' \in [Core -> BOOLEAN]
    BY SnoopingAssumption DEF Accept, TypeOK
  <2>. QED  BY <2>1, <2>2, <1>a DEF TypeOK, lineVars, busVars
<1>2. Coherent'
  BY <1>a DEF Coherent, lineVars
<1>3. LockHeld'
  BY <1>a DEF LockHeld, TypeOK, busVars
<1>4. Transaction'
  <2>1. reqLock # c
    BY <1>a DEF LockHeld
  <2>. QED  BY <2>1, <1>a DEF Transaction, Line, lineVars, busVars
<1>5. Answers'
  BY <1>a DEF Answers, lineVars, busVars
<1>. QED  BY <1>1, <1>2, <1>3, <1>4, <1>5

LEMMA LookupIInv ==
  ASSUME IInv, NEW c \in Core, Lookup(c)
  PROVE  IInv'
<1>. USE DEF IInv
<1>a. /\ addr[c] \in Addr /\ op[c] \in Access /\ Line(c) \in CacheState
      /\ protocol \in Protocols
  BY DEF TypeOK, Lookup, Line
<1>b. UNCHANGED <<traceVars, cacheTransfer, pendingAddr, opt, busVars>>
  BY DEF Lookup
<1>c. /\ status' \in [Core -> [Addr -> CacheState]]
      /\ \A d \in Core, a \in Addr :
           \/ status'[d][a] = status[d][a]
           \/ d = c /\ {status[d][a], status'[d][a]} \subseteq Sole
  <2>1. CASE Hit(protocol, Line(c), op[c])
    <3>1. status' = [status EXCEPT ![c][addr[c]] = HitStatus(protocol, Line(c), op[c])]
      BY <2>1 DEF Lookup
    <3>. QED  BY <3>1, <2>1, <1>a, HitFacts DEF TypeOK, Line
  <2>2. CASE ~Hit(protocol, Line(c), op[c])
    BY <2>2 DEF Lookup, TypeOK
  <2>. QED  BY <2>1, <2>2
<1>d. pc' \in [Core -> {"idle", "bus"} \cup {"lookup", "wait", "memory"}]
      /\ pc[c] = "lookup" /\ pc'[c] \in {"idle", "bus"}
      /\ \A d \in Core \ {c} : pc'[d] = pc[d]
  BY DEF Lookup, TypeOK
<1>1. TypeOK'
  BY <1>a, <1>b, <1>c, <1>d DEF TypeOK, traceVars, busVars
<1>2. Coherent'
  BY <1>c DEF Coherent
<1>3. LockHeld'
  BY <1>b, <1>d DEF LockHeld, busVars
<1>4. Transaction'
  <2>1. ASSUME NEW x \in Core, reqLock' = x
        PROVE  x # c /\ Line(x)' = Line(x)
    BY <2>1, <1>b, <1>c, <1>d DEF LockHeld, busVars, traceVars, Line, TypeOK
  <2>. QED  BY <2>1, <1>b DEF Transaction, busVars, traceVars
<1>5. Answers'
  <2>1. reqLock # NoCore => busAddr \in Addr
    BY DEF Transaction, LockHeld, TypeOK
  <2>. QED  BY <2>1, <1>b, <1>c, SnoopingAssumption DEF Answers, busVars, traceVars
<1>. QED  BY <1>1, <1>2, <1>3, <1>4, <1>5

LEMMA RequestIInv ==
  ASSUME IInv, NEW c \in Core, Request(c)
  PROVE  IInv'
<1>. USE DEF IInv
<1>a. /\ pc[c] = "bus" /\ reqLock = NoCore /\ pendingWork = {} /\ snooped = {}
      /\ addr[c] \in Addr /\ op[c] \in Access /\ Line(c) \in CacheState
      /\ MayIssue(protocol, Line(c), op[c])
      /\ protocol \in Protocols
  BY DEF Request, BusFree, LockHeld, TypeOK, Line
<1>b. /\ reqLock' = c /\ pc' = [pc EXCEPT ![c] = "wait"]
      /\ busAddr' = addr[c] /\ busOpt' = IssuedOp(protocol, Line(c), op[c])
      /\ opt' = [opt EXCEPT ![c] = busOpt']
      /\ recvNak' = FALSE /\ readEx' = TRUE /\ ownerId' = NoCore /\ respCount' = 0
      /\ pendingWork' = Core \ {c}
      /\ UNCHANGED <<traceVars, cacheTransfer, status, pendingAddr, snooped>>
  BY <1>a DEF Request, ResetAnswers, Others
<1>1. TypeOK'
  <2>1. busOpt' \in BusOp
    BY <1>a, <1>b, IssueFacts DEF Issuable
  <2>2. pc' \in [Core -> {"idle", "lookup", "bus", "wait", "memory"}]
    BY <1>b DEF TypeOK
  <2>3. opt' \in [Core -> BusOp]
    BY <2>1, <1>b DEF TypeOK
  <2>4. respCount' \in 0 .. Cardinality(Core) - 1
    BY <1>b, CoreCard
  <2>5. \A d \in Core : pc'[d] # "idle" => addr'[d] \in Addr
    BY <1>a, <1>b DEF TypeOK, traceVars
  <2>6. pendingWork' \subseteq Core /\ snooped' \subseteq pendingWork'
    BY <1>a, <1>b
  <2>. QED  BY <2>1, <2>2, <2>3, <2>4, <2>5, <2>6, <1>a, <1>b DEF TypeOK, traceVars
<1>2. Coherent'
  BY <1>b DEF Coherent
<1>3. LockHeld'
  BY <1>a, <1>b, SnoopingAssumption DEF LockHeld, TypeOK
<1>4. Transaction'
  BY <1>a, <1>b, CoreCard, CoreCardLess DEF Transaction, Line, traceVars
<1>5. Answers'
  BY <1>a, <1>b DEF Answers
<1>. QED  BY <1>1, <1>2, <1>3, <1>4, <1>5

\* The end of a transaction: what remains to be known of it is the types
\* and Coherent.
LEMMA EndIInv ==
  ASSUME IInv, NEW c \in Core, Answered(c), NEW p \in Addr \cup {NoAddr}, Release(c, p),
         NEW to \in {"idle", "bus", "memory"}, pc' = [pc EXCEPT ![c] = to],
         status' \in [Core -> [Addr -> CacheState]], Coherent'
  PROVE  IInv'
<1>. USE DEF IInv
<1>a. reqLock = c /\ pendingWork = {} /\ c # NoCore
  BY AnsweredMeansAll
<1>b. pc[c] = "wait" /\ reqLock' = NoCore /\ pendingWork' = {}
  BY <1>a DEF Answered, Release
<1>1. TypeOK'
  <2>1. pendingAddr' \in [Core -> Addr \cup {NoAddr}]
    BY DEF Release, TypeOK
  <2>2. cacheTransfer' \in [Core -> BOOLEAN]
    BY DEF Release, TypeOK
  <2>3. pc' \in [Core -> {"idle", "lookup", "bus", "wait", "memory"}]
    BY DEF TypeOK
  <2>4. \A d \in Core : pc'[d] # "idle" => addr[d] \in Addr
    BY <1>b DEF TypeOK
  <2>. QED  BY <2>1, <2>2, <2>3, <2>4, <1>b DEF Release, TypeOK, traceVars
<1>2. LockHeld'
  BY <1>a, <1>b, SnoopingAssumption DEF LockHeld, TypeOK
<1>3. Transaction' /\ Answers'
  BY <1>b, SnoopingAssumption DEF Transaction, Answers
<1>. QED  BY <1>1, <1>2, <1>3

LEMMA RefusedIInv ==
  ASSUME IInv, NEW c \in Core, Refused(c)
  PROVE  IInv'
<1>1. Answered(c) /\ Release(c, pendingAddr[c]) /\ pc' = [pc EXCEPT ![c] = "bus"]
      /\ status' = status
  BY DEF Refused
<1>2. status' \in [Core -> [Addr -> CacheState]] /\ Coherent'
      /\ pendingAddr[c] \in Addr \cup {NoAddr}
  BY <1>1 DEF IInv, TypeOK, Coherent
<1>. QED  BY <1>1, <1>2, EndIInv

\* What the answers of all the others add up to.
LEMMA AllAnswers ==
  ASSUME IInv, NEW c \in Core, Answered(c), ~recvNak
  PROVE  /\ protocol \in Protocols /\ op[c] \in Access /\ addr[c] \in Addr
         /\ Line(c) \in CacheState /\ Line(c) \notin Sole
         /\ Line(c) # "Invalid" => op[c] = "W"
         /\ \A d \in Core \ {c} :
              /\ op[c] = "W" => status[d][addr[c]] = "Invalid"
              /\ status[d][addr[c]] \notin Sole
              /\ readEx /\ protocol \in {"MESI", "MOESI"} => status[d][addr[c]] = "Invalid"
<1>. USE DEF IInv
<1>1. reqLock = c /\ pendingWork = {}
  BY AnsweredMeansAll
<1>2. /\ protocol \in Protocols /\ op[c] \in Access /\ addr[c] \in Addr
      /\ Line(c) \in CacheState
  BY DEF TypeOK, Line, Answered
<1>3. /\ MayIssue(protocol, Line(c), op[c]) /\ busAddr = addr[c]
      /\ busOpt = IssuedOp(protocol, Line(c), op[c])
  BY <1>1 DEF Transaction
<1>4. /\ Line(c) \notin Sole
      /\ Line(c) # "Invalid" => op[c] = "W"
      /\ busOpt = "BusRd" <=> Line(c) = "Invalid" /\ op[c] = "R"
  BY <1>2, <1>3, IssueFacts
<1>5. ASSUME NEW d \in Core \ {c}
      PROVE  /\ op[c] = "W" => status[d][addr[c]] = "Invalid"
             /\ status[d][addr[c]] \notin Sole
             /\ readEx /\ protocol \in {"MESI", "MOESI"} => status[d][addr[c]] = "Invalid"
  <2>1. /\ busOpt # "BusRd" => status[d][busAddr] = "Invalid"
        /\ busOpt = "BusRd" => status[d][busAddr] \notin Sole
        /\ busOpt = "BusRd" /\ readEx /\ protocol \in {"MESI", "MOESI"}
              => status[d][busAddr] = "Invalid"
    BY <1>1, <1>5 DEF Answers
  <2>. QED  BY <2>1, <1>3, <1>4
<1>. QED  BY <1>2, <1>4, <1>5

LEMMA UpgradedIInv ==
  ASSUME IInv, NEW c \in Core, Upgraded(c)
  PROVE  IInv'
<1>. USE DEF IInv
<1>1. /\ Answered(c) /\ ~recvNak /\ Line(c) # "Invalid"
      /\ Release(c, pendingAddr[c]) /\ pc' = [pc EXCEPT ![c] = "idle"]
      /\ status' = [status EXCEPT ![c][addr[c]] = "Modified"]
  BY DEF Upgraded
<1>2. /\ op[c] = "W" /\ addr[c] \in Addr
      /\ \A d \in Core \ {c} : status[d][addr[c]] = "Invalid"
  BY <1>1, AllAnswers
<1>3. status' \in [Core -> [Addr -> CacheState]] /\ pendingAddr[c] \in Addr \cup {NoAddr}
  BY <1>1, <1>2 DEF TypeOK
<1>4. Coherent'
  BY <1>1, <1>2 DEF Coherent, TypeOK
<1>. QED  BY <1>1, <1>3, <1>4, EndIInv

LEMMA FilledIInv ==
  ASSUME IInv, NEW c \in Core, Filled(c)
  PROVE  IInv'
<1>. USE DEF IInv
<1>. DEFINE new == FillStatus(protocol, op[c], readEx)
<1>1. /\ Answered(c) /\ ~recvNak /\ InsertLine(c, addr[c], new) /\ Release(c, addr[c])
      /\ \E to \in {"idle", "bus", "memory"} : pc' = [pc EXCEPT ![c] = to]
  BY DEF Filled
<1>2. /\ op[c] \in Access /\ addr[c] \in Addr /\ protocol \in Protocols /\ readEx \in BOOLEAN
      /\ \A d \in Core \ {c} :
           /\ op[c] = "W" => status[d][addr[c]] = "Invalid"
           /\ status[d][addr[c]] \notin Sole
           /\ readEx /\ protocol \in {"MESI", "MOESI"} => status[d][addr[c]] = "Invalid"
  BY <1>1, AllAnswers DEF TypeOK
<1>3. /\ new \in {"Modified", "Exclusive", "Shared"}
      /\ new = "Modified" => op[c] = "W"
      /\ new = "Exclusive" => readEx /\ protocol \in {"MESI", "MOESI"}
  BY <1>2, FillFacts
<1>4. /\ status' \in [Core -> [Addr -> CacheState]]
      /\ status'[c][addr[c]] = new
      /\ \A a \in Addr \ {addr[c]} : status'[c][a] \in {status[c][a], "Invalid"}
      /\ \A d \in Core \ {c} : status'[d] = status[d]
  <2>. HIDE DEF new
  <2>1. CASE status' = [status EXCEPT ![c][addr[c]] = new]
    BY <2>1, <1>2, <1>3 DEF TypeOK
  <2>2. ASSUME NEW v \in Addr \ {addr[c]},
               status' = [status EXCEPT ![c][v] = "Invalid", ![c][addr[c]] = new]
        PROVE  <1>4
    BY <2>2, <1>2, <1>3 DEF TypeOK
  <2>. QED  BY <2>1, <2>2, <1>1 DEF InsertLine, Occupied
<1>5. Coherent'
  <2>. HIDE DEF new
  <2>1. ASSUME NEW d \in Core \ {c}, NEW a \in Addr
        PROVE  /\ status'[c][a] \in Sole => status'[d][a] = "Invalid"
               /\ status'[d][a] \in Sole => status'[c][a] = "Invalid"
               /\ ~(status'[c][a] = "Owner" /\ status'[d][a] = "Owner")
    <3>1. CASE a = addr[c]
      BY <3>1, <1>2, <1>3, <1>4
    <3>2. CASE a # addr[c]
      BY <3>2, <1>4 DEF Coherent
    <3>. QED  BY <3>1, <3>2
  <2>2. ASSUME NEW d \in Core \ {c}, NEW e \in Core \ {c}, NEW a \in Addr, d # e
        PROVE  /\ status'[d][a] \in Sole => status'[e][a] = "Invalid"
               /\ status'[d][a] = "Owner" => status'[e][a] # "Owner"
    BY <2>2, <1>4 DEF Coherent
  <2>. QED  BY <2>1, <2>2 DEF Coherent
<1>. QED  BY <1>1, <1>2, <1>4, <1>5, EndIInv

LEMMA FetchedIInv ==
  ASSUME IInv, NEW c \in Core, Fetched(c)
  PROVE  IInv'
<1>. USE DEF IInv
<1>1. /\ pc[c] = "memory" /\ pc' = [pc EXCEPT ![c] = "idle"]
      /\ pendingAddr' = [pendingAddr EXCEPT ![c] = NoAddr]
      /\ UNCHANGED <<traceVars, cacheTransfer, status, opt, busVars>>
  BY DEF Fetched
<1>2. TypeOK'
  <2>1. pc' \in [Core -> {"idle", "lookup", "bus", "wait", "memory"}]
        /\ pendingAddr' \in [Core -> Addr \cup {NoAddr}]
    BY <1>1 DEF TypeOK
  <2>2. \A d \in Core : pc'[d] # "idle" => addr[d] \in Addr
    BY <1>1 DEF TypeOK
  <2>. QED  BY <1>1, <2>1, <2>2 DEF TypeOK, traceVars, busVars
<1>3. Coherent'
  BY <1>1 DEF Coherent
<1>4. LockHeld'
  BY <1>1 DEF LockHeld, TypeOK, busVars
<1>5. Transaction' /\ Answers'
  BY <1>1 DEF Transaction, Answers, Line, traceVars, busVars
<1>. QED  BY <1>2, <1>3, <1>4, <1>5

LEMMA SnoopIInv ==
  ASSUME IInv, NEW c \in Core, Snoop(c)
  PROVE  IInv'
<1>. USE DEF IInv
<1>. DEFINE st == status[c][busAddr]
            new == SnoopStatus(protocol, st, busOpt)
<1>a. /\ c \in pendingWork /\ snooped' = snooped \cup {c}
      /\ UNCHANGED <<traceVars, pc, cacheTransfer, pendingAddr, opt, reqLock, busAddr,
                     busOpt, respCount, pendingWork>>
  BY DEF Snoop
<1>b. PICK x \in Core : reqLock = x
  BY <1>a DEF LockHeld, TypeOK
<1>c. /\ c # x /\ busAddr = addr[x] /\ busAddr \in Addr
      /\ MayIssue(protocol, Line(x), op[x]) /\ busOpt = IssuedOp(protocol, Line(x), op[x])
      /\ protocol \in Protocols /\ op[x] \in Access /\ Line(x) \in CacheState
      /\ st \in CacheState
  BY <1>a, <1>b DEF Transaction, LockHeld, TypeOK, Line
<1>d. busOpt \in Issuable(protocol)
  BY <1>c, IssueFacts
<1>e. CASE Refuses(c)
  <2>1. recvNak' = TRUE /\ UNCHANGED <<status, ownerId, readEx>>
    BY <1>e DEF Snoop
  <2>2. TypeOK'
    BY <2>1, <1>a DEF TypeOK, traceVars
  <2>3. Coherent' /\ LockHeld' /\ Transaction' /\ Answers'
    BY <2>1, <1>a DEF Coherent, LockHeld, Transaction, Answers, Line, traceVars
  <2>. QED  BY <2>2, <2>3
<1>f. CASE ~Refuses(c)
  <2>1. /\ SnoopAsserts(protocol, st, busOpt)
        /\ status' = [status EXCEPT ![c][busAddr] = new]
        /\ ownerId' \in {c, ownerId}
        /\ readEx' = (readEx /\ ~TellsShared(protocol, st, busOpt))
        /\ recvNak' = recvNak
    BY <1>f DEF Snoop
  <2>2. /\ new \in CacheState \ Sole
        /\ st = "Invalid" => new = "Invalid"
        /\ new = "Owner" => st \in {"Modified", "Owner"}
        /\ busOpt # "BusRd" => new = "Invalid"
        /\ protocol \in {"MESI", "MOESI"} /\ ~TellsShared(protocol, st, busOpt)
             /\ busOpt = "BusRd" => st = "Invalid"
    BY <2>1, <1>c, <1>d, SnoopFacts
  <2>. HIDE DEF new
  <2>3. /\ status' \in [Core -> [Addr -> CacheState]] /\ status'[c][busAddr] = new
        /\ \A d \in Core, a \in Addr : d # c \/ a # busAddr => status'[d][a] = status[d][a]
    BY <2>1, <2>2, <1>c DEF TypeOK
  <2>4. TypeOK'
    <3>1. readEx' \in BOOLEAN /\ ownerId' \in Core \cup {NoCore}
          /\ snooped' \subseteq pendingWork'
      BY <2>1, <1>a DEF TypeOK
    <3>. QED  BY <3>1, <2>1, <2>3, <1>a DEF TypeOK, traceVars
  <2>5. Coherent'
    <3>1. ASSUME NEW d \in Core \ {c}
          PROVE  /\ new \notin Sole
                 /\ status[d][busAddr] \in Sole => new = "Invalid"
                 /\ ~(new = "Owner" /\ status[d][busAddr] = "Owner")
      BY <2>2, <1>c DEF Coherent
    <3>. QED  BY <3>1, <2>3, <1>c DEF Coherent
  <2>6. LockHeld'
    BY <1>a DEF LockHeld
  <2>7. Transaction'
    <3>1. Line(x)' = Line(x)
      BY <2>3, <1>a, <1>c DEF Line, traceVars
    <3>. QED  BY <3>1, <1>a, <1>b DEF Transaction, traceVars
  <2>8. Answers'
    <3>1. SUFFICES ASSUME NEW d \in Core \ {x}, ~recvNak, d \notin pendingWork \ snooped'
                   PROVE  /\ busOpt # "BusRd" => status'[d][busAddr] = "Invalid"
                          /\ busOpt = "BusRd" => status'[d][busAddr] \notin Sole
                          /\ busOpt = "BusRd" /\ readEx' /\ protocol \in {"MESI", "MOESI"}
                                => status'[d][busAddr] = "Invalid"
      BY <1>a, <1>b, <2>1 DEF Answers, traceVars
    <3>2. CASE d = c
      BY <3>2, <2>1, <2>2, <2>3
    <3>3. CASE d # c
      <4>1. d \notin pendingWork \ snooped
        BY <3>1, <3>3, <1>a
      <4>2. status'[d][busAddr] = status[d][busAddr] /\ (readEx' => readEx)
        BY <3>3, <2>1, <2>3, <1>c
      <4>. QED  BY <4>1, <4>2, <3>1, <1>b DEF Answers
    <3>. QED  BY <3>2, <3>3
  <2>. QED  BY <2>4, <2>5, <2>6, <2>7, <2>8
<1>. QED  BY <1>e, <1>f

LEMMA ReplyIInv ==
  ASSUME IInv, NEW c \in Core, Reply(c)
  PROVE  IInv'
<1>. USE DEF IInv
<1>a. /\ c \in snooped /\ c \in pendingWork /\ pendingWork \subseteq Core
      /\ snooped' = snooped \ {c} /\ pendingWork' = pendingWork \ {c}
      /\ respCount' = respCount + 1
      /\ UNCHANGED <<traceVars, pc, cacheTransfer, lineVars, reqLock, busAddr, busOpt,
                     recvNak, readEx, ownerId>>
  BY DEF Reply, TypeOK
<1>b. PICK x \in Core : reqLock = x
  BY <1>a DEF LockHeld, TypeOK
<1>c. /\ Cardinality(pendingWork') = Cardinality(pendingWork) - 1
      /\ Cardinality(pendingWork) \in Nat /\ Cardinality(pendingWork') \in Nat
  BY <1>a, CoreCard, CoreCardLess
<1>d. respCount' + Cardinality(pendingWork') = Cardinality(Core) - 1
  BY <1>a, <1>b, <1>c, CoreCard DEF Transaction, TypeOK
<1>1. TypeOK'
  <2>1. respCount' \in 0 .. Cardinality(Core) - 1
    BY <1>a, <1>c, <1>d, CoreCard DEF TypeOK
  <2>2. pendingWork' \subseteq Core /\ snooped' \subseteq pendingWork'
    BY <1>a DEF TypeOK
  <2>. QED  BY <2>1, <2>2, <1>a DEF TypeOK, traceVars, lineVars
<1>2. Coherent'
  BY <1>a DEF Coherent, lineVars
<1>3. LockHeld'
  BY <1>a, <1>b, SnoopingAssumption DEF LockHeld
<1>4. Transaction'
  BY <1>a, <1>b, <1>d DEF Transaction, Line, traceVars, lineVars
<1>5. Answers'
  BY <1>a DEF Answers, traceVars, lineVars
<1>. QED  BY <1>1, <1>2, <1>3, <1>4, <1>5

-----------------------------------------------------------------------------
(* The theorems.                                                           *)

\* The inductive invariant holds in every behaviour, whatever pending_addr
\* was when the caches were built.
THEOREM Invariance == Spec => []IInv
<1>1. ASSUME IInv, [Next]_vars PROVE IInv'
  <2>1. ASSUME NEW c \in Core, Accept(c) PROVE IInv'
    BY <1>1, <2>1, AcceptIInv
  <2>2. ASSUME NEW c \in Core, Work(c) PROVE IInv'
    BY <1>1, <2>2, LookupIInv, RequestIInv, RefusedIInv, UpgradedIInv, FilledIInv,
       FetchedIInv, SnoopIInv, ReplyIInv DEF Work
  <2>3. CASE UNCHANGED vars
    BY <1>1, <2>3 DEF IInv, TypeOK, Coherent, LockHeld, Transaction, Answers, Line, vars,
       traceVars, lineVars, busVars
  <2>. QED  BY <1>1, <2>1, <2>2, <2>3 DEF Next, Terminated
<1>. QED  BY <1>1, InitIInv, PTL DEF Spec

\* Every field keeps its type; in particular resp_count never passes the
\* number of cores that were asked.
THEOREM TypeCorrect == Spec => []TypeOK
BY Invariance, PTL DEF IInv

\* A cache that has a line Modified or Exclusive is the only one that has
\* it, and a line has at most one Owner, in all four protocols, between
\* transactions and in the middle of one.
THEOREM Coherence == Spec => []Coherent
BY Invariance, PTL DEF IInv

-----------------------------------------------------------------------------
(* No assert fails.                                                        *)

\* The states a line can be in under a protocol.
Lines(p) == {"Modified", "Shared", "Invalid"}
            \cup (IF p \in {"MESI", "MOESI"} THEN {"Exclusive"} ELSE {})
            \cup (IF p \in {"MOSI", "MOESI"} THEN {"Owner"} ELSE {})

\* An access that does not hit calls for the bus.
LEMMA MissFacts ==
  ASSUME NEW p \in Protocols, NEW st \in Lines(p), NEW o \in Access
  PROVE  /\ Hit(p, st, o) \/ MayIssue(p, st, o)
         /\ Hit(p, st, o) => HitStatus(p, st, o) \in Lines(p)
<1>1. p \in {"MSI", "MESI", "MOSI", "MOESI"}
  BY SnoopingAssumption
<1>2. CASE p = "MSI"
  BY <1>2 DEF Lines, Hit, HitStatus, MayIssue, MSI!Hit, MSI!HitStatus, MSI!MayIssue
<1>3. CASE p = "MESI"
  BY <1>3 DEF Lines, Hit, HitStatus, MayIssue, MESI!Hit, MESI!HitStatus, MESI!MayIssue,
              MESI!Sole
<1>4. CASE p = "MOSI"
  BY <1>4 DEF Lines, Hit, HitStatus, MayIssue, MOSI!Hit, MOSI!HitStatus, MOSI!MayIssue
<1>5. CASE p = "MOESI"
  BY <1>5 DEF Lines, Hit, HitStatus, MayIssue, MOESI!Hit, MOESI!HitStatus, MOESI!MayIssue,
              MOESI!Sole
<1>. QED  BY <1>1, <1>2, <1>3, <1>4, <1>5

\* A snoop keeps to the states of the protocol, and a line that called for
\* the bus still does after it.
LEMMA SnoopLineFacts ==
  ASSUME NEW p \in Protocols, NEW st \in Lines(p), NEW b \in Issuable(p), NEW o \in Access
  PROVE  /\ SnoopStatus(p, st, b) \in Lines(p)
         /\ MayIssue(p, st, o) => MayIssue(p, SnoopStatus(p, st, b), o)
         /\ (b = "BusUpg" => st \notin Sole) => SnoopAsserts(p, st, b)
<1>1. p \in {"MSI", "MESI", "MOSI", "MOESI"}
  BY SnoopingAssumption
<1>2. CASE p = "MSI"
  BY <1>2 DEF Lines, Issuable, SnoopStatus, SnoopAsserts, MayIssue,
              MSI!SnoopStatus, MSI!SnoopAsserts, MSI!MayIssue
<1>3. CASE p = "MESI"
  BY <1>3 DEF Lines, Issuable, SnoopStatus, SnoopAsserts, MayIssue,
              MESI!SnoopStatus, MESI!SnoopAsserts, MESI!MayIssue, MESI!Sole
<1>4. CASE p = "MOSI"
  BY <1>4 DEF Lines, Issuable, SnoopStatus, SnoopAsserts, MayIssue,
              MOSI!SnoopStatus, MOSI!SnoopAsserts, MOSI!MayIssue
<1>5. CASE p = "MOESI"
  BY <1>5 DEF Lines, Issuable, SnoopStatus, SnoopAsserts, MayIssue,
              MOESI!SnoopStatus, MOESI!SnoopAsserts, MOESI!MayIssue, MOESI!Sole
<1>. QED  BY <1>1, <1>2, <1>3, <1>4, <1>5

LEMMA UpgradeFacts ==
  ASSUME NEW p \in Protocols, NEW st \in CacheState, NEW o \in Access, MayIssue(p, st, o),
         IssuedOp(p, st, o) = "BusUpg"
  PROVE  st \in {"Shared", "Owner"}
<1>1. p \in {"MSI", "MESI", "MOSI", "MOESI"}
  BY SnoopingAssumption
<1>2. CASE p \in {"MSI", "MESI"}
  BY <1>2 DEF IssuedOp, MSI!IssuedOp, MESI!IssuedOp
<1>3. CASE p = "MOSI"
  BY <1>3 DEF IssuedOp, MayIssue, MOSI!IssuedOp, MOSI!MayIssue
<1>4. CASE p = "MOESI"
  BY <1>4 DEF IssuedOp, MayIssue, MOESI!IssuedOp, MOESI!MayIssue
<1>. QED  BY <1>1, <1>2, <1>3, <1>4

\* What AssertionsHold rests on besides IInv: lines keep to the states of
\* the protocol, and a miss is still a miss when the bus is won.
AssertInv ==
  /\ \A c \in Core, a \in Addr : status[c][a] \in Lines(protocol)
  /\ \A c \in Core : pc[c] = "bus" => MayIssue(protocol, Line(c), op[c])

LEMMA AssertInvMeans ==
  ASSUME IInv, AssertInv
  PROVE  AssertionsHold
<1>1. ASSUME NEW c \in Core, c \in pendingWork \ snooped
      PROVE  SnoopAsserts(protocol, status[c][busAddr], busOpt)
  <2>1. PICK x \in Core : reqLock = x
    BY <1>1 DEF IInv, LockHeld, TypeOK
  <2>2. /\ c # x /\ busAddr = addr[x] /\ busAddr \in Addr
        /\ MayIssue(protocol, Line(x), op[x]) /\ busOpt = IssuedOp(protocol, Line(x), op[x])
        /\ protocol \in Protocols /\ op[x] \in Access /\ Line(x) \in CacheState
    BY <1>1, <2>1 DEF IInv, Transaction, LockHeld, TypeOK, Line
  <2>3. busOpt \in Issuable(protocol) /\ status[c][busAddr] \in Lines(protocol)
    BY <2>2, IssueFacts DEF AssertInv
  <2>4. ASSUME busOpt = "BusUpg" PROVE status[c][busAddr] \notin Sole
    <3>1. Line(x) \in {"Shared", "Owner"}
      BY <2>2, <2>4, UpgradeFacts
    <3>. QED  BY <3>1, <2>2 DEF IInv, Coherent, Line
  <2>. QED  BY <2>2, <2>3, <2>4, SnoopLineFacts
<1>. QED  BY <1>1 DEF AssertInv, AssertionsHold, IInv, TypeOK

LEMMA AssertInvStep ==
  ASSUME IInv, IInv', AssertInv, NEW c \in Core, Accept(c) \/ Work(c)
  PROVE  AssertInv'
<1>. USE DEF AssertInv
<1>0. /\ protocol \in Protocols /\ protocol' = protocol
      /\ \A d \in Core : op[d] \in Access /\ (pc[d] # "idle" => addr[d] \in Addr)
  BY DEF IInv, TypeOK, Accept, Work, Lookup, Request, Refused, Upgraded, Filled, Fetched,
         Snoop, Reply, Release, traceVars
<1>1. CASE Accept(c)
  <2>1. /\ status' = status /\ pc' = [pc EXCEPT ![c] = "lookup"]
        /\ \A d \in Core \ {c} : addr'[d] = addr[d] /\ op'[d] = op[d]
    BY <1>1 DEF Accept, lineVars, IInv, TypeOK
  <2>. QED  BY <2>1, <1>0 DEF Line, IInv, TypeOK
<1>2. CASE Lookup(c)
  <2>1. addr[c] \in Addr /\ UNCHANGED <<addr, op>>
    BY <1>0, <1>2 DEF Lookup, traceVars
  <2>2. CASE Hit(protocol, Line(c), op[c])
    <3>1. /\ pc' = [pc EXCEPT ![c] = "idle"]
          /\ status' = [status EXCEPT ![c][addr[c]] = HitStatus(protocol, Line(c), op[c])]
      BY <1>2, <2>2 DEF Lookup
    <3>2. HitStatus(protocol, Line(c), op[c]) \in Lines(protocol)
      BY <1>0, <2>1, <2>2, MissFacts DEF Line
    <3>. QED  BY <1>0, <2>1, <3>1, <3>2 DEF Line, IInv, TypeOK
  <2>3. CASE ~Hit(protocol, Line(c), op[c])
    <3>1. pc' = [pc EXCEPT ![c] = "bus"] /\ status' = status
      BY <1>2, <2>3 DEF Lookup
    <3>2. MayIssue(protocol, Line(c), op[c])
      BY <1>0, <2>1, <2>3, MissFacts DEF Line
    <3>. QED  BY <1>0, <2>1, <3>1, <3>2 DEF Line, IInv, TypeOK
  <2>. QED  BY <2>2, <2>3
<1>3. CASE Request(c)
  BY <1>0, <1>3 DEF Request, traceVars, Line, IInv, TypeOK
<1>4. CASE Refused(c)
  <2>1. Answered(c) /\ pc' = [pc EXCEPT ![c] = "bus"] /\ UNCHANGED <<status, addr, op>>
    BY <1>4 DEF Refused, Release, traceVars
  <2>2. MayIssue(protocol, Line(c), op[c])
    BY <2>1, AnsweredMeansAll DEF IInv, Transaction
  <2>. QED  BY <1>0, <2>1, <2>2 DEF Line, IInv, TypeOK
<1>5. CASE Upgraded(c)
  <2>1. /\ pc' = [pc EXCEPT ![c] = "idle"] /\ UNCHANGED <<addr, op>>
        /\ status' = [status EXCEPT ![c][addr[c]] = "Modified"] /\ addr[c] \in Addr
    BY <1>0, <1>5 DEF Upgraded, Answered, Release, traceVars
  <2>. QED  BY <1>0, <2>1 DEF Line, Lines, IInv, TypeOK
<1>6. CASE Filled(c)
  <2>. DEFINE new == FillStatus(protocol, op[c], readEx)
  <2>1. /\ InsertLine(c, addr[c], new) /\ addr[c] \in Addr /\ UNCHANGED <<addr, op>>
        /\ pc'[c] # "bus" /\ \A d \in Core \ {c} : pc'[d] = pc[d]
    BY <1>0, <1>6 DEF Filled, Answered, Release, traceVars, IInv, TypeOK
  <2>2. new \in Lines(protocol)
    <3>1. op[c] \in Access /\ readEx \in BOOLEAN
      BY <1>0 DEF IInv, TypeOK
    <3>2. /\ new \in {"Modified", "Exclusive", "Shared"}
          /\ new = "Exclusive" => protocol \in {"MESI", "MOESI"}
      BY <1>0, <3>1, FillFacts
    <3>. QED  BY <3>2 DEF Lines
  <2>3. \A d \in Core, a \in Addr : status'[d][a] \in {status[d][a], "Invalid", new}
        /\ (d # c => status'[d] = status[d])
    <3>. HIDE DEF new
    <3>1. CASE status' = [status EXCEPT ![c][addr[c]] = new]
      BY <3>1, <2>1 DEF IInv, TypeOK
    <3>2. ASSUME NEW v \in Addr,
                 status' = [status EXCEPT ![c][v] = "Invalid", ![c][addr[c]] = new]
          PROVE  <2>3
      BY <3>2, <2>1 DEF IInv, TypeOK
    <3>. QED  BY <3>1, <3>2, <2>1 DEF InsertLine, Occupied
  <2>4. "Invalid" \in Lines(protocol)
    BY DEF Lines
  <2>. QED  BY <1>0, <2>1, <2>2, <2>3, <2>4 DEF Line
<1>7. CASE Fetched(c)
  BY <1>0, <1>7 DEF Fetched, traceVars, Line, IInv, TypeOK
<1>8. CASE Snoop(c)
  <2>1. UNCHANGED <<addr, op, pc>>
    BY <1>8 DEF Snoop, traceVars
  <2>2. CASE status' = status
    BY <1>0, <2>1, <2>2 DEF Line
  <2>3. CASE status' # status
    <3>. DEFINE new == SnoopStatus(protocol, status[c][busAddr], busOpt)
    <3>1. status' = [status EXCEPT ![c][busAddr] = new] /\ c \in pendingWork
      BY <1>8, <2>3 DEF Snoop
    <3>2. PICK x \in Core : reqLock = x
      BY <3>1 DEF IInv, LockHeld, TypeOK
    <3>3. /\ busAddr = addr[x] /\ busAddr \in Addr
          /\ MayIssue(protocol, Line(x), op[x]) /\ busOpt = IssuedOp(protocol, Line(x), op[x])
          /\ Line(x) \in CacheState /\ busOpt \in BusOp
      BY <3>2 DEF IInv, Transaction, LockHeld, TypeOK, Line
    <3>4. busOpt \in Issuable(protocol)
      BY <1>0, <3>3, IssueFacts
    <3>5. /\ new \in Lines(protocol)
          /\ \A o \in Access : MayIssue(protocol, status[c][busAddr], o)
                                 => MayIssue(protocol, new, o)
      BY <1>0, <3>3, <3>4, SnoopLineFacts
    <3>. HIDE DEF new
    <3>6. /\ status'[c][busAddr] = new
          /\ \A d \in Core, a \in Addr : d # c \/ a # busAddr => status'[d][a] = status[d][a]
      BY <3>1, <3>3 DEF IInv, TypeOK
    <3>. QED  BY <1>0, <2>1, <3>3, <3>5, <3>6 DEF Line
  <2>. QED  BY <2>2, <2>3
<1>9. CASE Reply(c)
  BY <1>0, <1>9 DEF Reply, traceVars, lineVars, Line
<1>. QED  BY <1>1, <1>2, <1>3, <1>4, <1>5, <1>6, <1>7, <1>8, <1>9 DEF Work

\* No assert of handle_request or response_worker fails, whatever the trace,
\* in any of the four protocols.
THEOREM NoAssertFails == Spec => []AssertionsHold
<1>1. Init => AssertInv
  BY DEF Init, AssertInv, Lines
<1>2. ASSUME IInv, IInv', AssertInv, [Next]_vars PROVE AssertInv'
  <2>1. CASE UNCHANGED vars
    BY <1>2, <2>1 DEF AssertInv, Line, vars, traceVars, lineVars
  <2>. QED  BY <1>2, <2>1, AssertInvStep DEF Next, Terminated
<1>3. IInv /\ AssertInv => AssertionsHold
  BY AssertInvMeans
<1>. QED  BY <1>1, <1>2, <1>3, Invariance, PTL DEF Spec

-----------------------------------------------------------------------------
(* A line that is being fetched stays.                                     *)

LEMMA FetchedLineStaysStep ==
  ASSUME IInv, FetchedLineStays, NEW c \in Core, Accept(c) \/ Work(c)
  PROVE  FetchedLineStays'
<1>. USE DEF FetchedLineStays
<1>0. /\ status \in [Core -> [Addr -> CacheState]]
      /\ pendingAddr \in [Core -> Addr \cup {NoAddr}]
      /\ protocol \in Protocols /\ readEx \in BOOLEAN
      /\ \A d \in Core : op[d] \in Access /\ (pc[d] # "idle" => addr[d] \in Addr)
  BY DEF IInv, TypeOK
<1>1. CASE Accept(c)
  BY <1>1 DEF Accept, lineVars
<1>2. CASE Lookup(c)
  <2>1. pendingAddr' = pendingAddr /\ addr[c] \in Addr
    BY <1>0, <1>2 DEF Lookup
  <2>2. CASE Hit(protocol, Line(c), op[c])
    <3>. DEFINE new == HitStatus(protocol, Line(c), op[c])
    <3>1. status' = [status EXCEPT ![c][addr[c]] = new]
      BY <1>2, <2>2 DEF Lookup
    <3>2. new # "Invalid"
      BY <1>0, <2>1, <2>2, HitFacts DEF Line
    <3>. HIDE DEF new
    <3>. QED  BY <1>0, <2>1, <3>1, <3>2, SnoopingAssumption
  <2>3. CASE ~Hit(protocol, Line(c), op[c])
    BY <1>2, <2>1, <2>3 DEF Lookup
  <2>. QED  BY <2>2, <2>3
<1>3. CASE Request(c) \/ Reply(c)
  BY <1>3 DEF Request, Reply, lineVars
<1>4. CASE Refused(c)
  BY <1>0, <1>4 DEF Refused, Release
<1>5. CASE Upgraded(c)
  <2>1. /\ status' = [status EXCEPT ![c][addr[c]] = "Modified"] /\ addr[c] \in Addr
        /\ pendingAddr' = [pendingAddr EXCEPT ![c] = IF ownerId # NoCore THEN NoAddr
                                                     ELSE pendingAddr[c]]
    BY <1>0, <1>5 DEF Upgraded, Answered, Release
  <2>. QED  BY <1>0, <2>1
<1>6. CASE Filled(c)
  <2>. DEFINE new == FillStatus(protocol, op[c], readEx)
  <2>1. /\ InsertLine(c, addr[c], new) /\ addr[c] \in Addr
        /\ pendingAddr' = [pendingAddr EXCEPT ![c] = IF ownerId # NoCore THEN NoAddr
                                                     ELSE addr[c]]
    BY <1>0, <1>6 DEF Filled, Answered, Release
  <2>2. new # "Invalid"
    <3>1. op[c] \in Access
      BY <1>0
    <3>. QED  BY <1>0, <3>1, FillFacts
  <2>3. status'[c][addr[c]] # "Invalid" /\ \A d \in Core \ {c} : status'[d] = status[d]
    <3>. HIDE DEF new
    <3>1. CASE status' = [status EXCEPT ![c][addr[c]] = new]
      BY <1>0, <2>1, <2>2, <3>1
    <3>2. ASSUME NEW v \in Addr,
                 status' = [status EXCEPT ![c][v] = "Invalid", ![c][addr[c]] = new]
          PROVE  <2>3
      BY <1>0, <2>1, <2>2, <3>2
    <3>. QED  BY <3>1, <3>2, <2>1 DEF InsertLine, Occupied
  <2>. QED  BY <1>0, <2>1, <2>3
<1>7. CASE Fetched(c)
  BY <1>0, <1>7 DEF Fetched
<1>8. CASE Snoop(c)
  <2>1. pendingAddr' = pendingAddr
    BY <1>8 DEF Snoop
  <2>2. CASE Refuses(c)
    BY <1>8, <2>1, <2>2 DEF Snoop
  <2>3. CASE ~Refuses(c)
    <3>. DEFINE new == SnoopStatus(protocol, status[c][busAddr], busOpt)
    <3>1. /\ status' = [status EXCEPT ![c][busAddr] = new] /\ c \in pendingWork
          /\ SnoopAsserts(protocol, status[c][busAddr], busOpt)
      BY <1>8, <2>3 DEF Snoop
    <3>2. PICK x \in Core : reqLock = x
      BY <3>1 DEF IInv, LockHeld, TypeOK
    <3>3. /\ busAddr = addr[x] /\ busAddr \in Addr /\ Line(x) \in CacheState
          /\ MayIssue(protocol, Line(x), op[x]) /\ busOpt = IssuedOp(protocol, Line(x), op[x])
      BY <3>2 DEF IInv, Transaction, LockHeld, TypeOK, Line
    <3>4. busOpt \in Issuable(protocol)
      BY <1>0, <3>3, IssueFacts
    <3>5. pendingAddr[c] = busAddr /\ status[c][busAddr] # "Invalid" => new # "Invalid"
      <4>1. status[c][busAddr] \in CacheState
        BY <1>0, <3>3
      <4>2. pendingAddr[c] = busAddr => busOpt = "BusRd"
        BY <2>3 DEF Refuses
      <4>. QED  BY <1>0, <3>1, <3>4, <4>1, <4>2, SnoopFacts
    <3>. HIDE DEF new
    <3>. QED  BY <1>0, <2>1, <3>1, <3>3, <3>5, SnoopingAssumption
  <2>. QED  BY <2>2, <2>3
<1>. QED  BY <1>1, <1>2, <1>3, <1>4, <1>5, <1>6, <1>7, <1>8 DEF Work

\* When pending_addr starts as zero, no operation of another cache takes
\* away a line that memory is about to deliver.
THEOREM FetchedLineIsKept ==
  ASSUME InitialPending = {NoAddr}
  PROVE  Spec => []FetchedLineStays
<1>1. Init => FetchedLineStays
  BY DEF Init, FetchedLineStays
<1>2. ASSUME IInv, FetchedLineStays, [Next]_vars PROVE FetchedLineStays'
  <2>1. CASE UNCHANGED vars
    BY <1>2, <2>1 DEF FetchedLineStays, vars, lineVars
  <2>. QED  BY <1>2, <2>1, FetchedLineStaysStep DEF Next, Terminated
<1>. QED  BY <1>1, <1>2, Invariance, PTL DEF Spec

-----------------------------------------------------------------------------
(* The bus stands still while it is snooped.                               *)

\* Bus::addr, Bus::opt and the holder of req_lock do not change as long as
\* a response thread may still read them.
THEOREM BusStandsStill == Spec => BusHeldStill
<1>1. ASSUME IInv, [Next]_vars, pendingWork # {}
      PROVE  UNCHANGED <<busAddr, busOpt, reqLock>>
  <2>1. ASSUME NEW c \in Core, Request(c) PROVE FALSE
    BY <1>1, <2>1 DEF Request, BusFree, IInv, LockHeld
  <2>2. ASSUME NEW c \in Core, Refused(c) \/ Upgraded(c) \/ Filled(c) PROVE FALSE
    <3>1. Answered(c)
      BY <2>2 DEF Refused, Upgraded, Filled
    <3>. QED  BY <1>1, <3>1, AnsweredMeansAll
  <2>3. ASSUME NEW c \in Core,
               Accept(c) \/ Lookup(c) \/ Fetched(c) \/ Snoop(c) \/ Reply(c)
        PROVE  UNCHANGED <<busAddr, busOpt, reqLock>>
    BY <2>3 DEF Accept, Lookup, Fetched, Snoop, Reply, busVars
  <2>4. CASE UNCHANGED vars
    BY <2>4 DEF vars, busVars
  <2>. QED  BY <1>1, <2>1, <2>2, <2>3, <2>4 DEF Next, Work, Terminated
<1>. QED  BY <1>1, Invariance, PTL DEF Spec, BusHeldStill

-----------------------------------------------------------------------------
(* A refusal loses no data.                                                *)

\* A snoop leaves a line dirty only if it was, and then the cache has named
\* itself as the supplier.
LEMMA DirtyFacts ==
  ASSUME NEW p \in Protocols, NEW st \in Lines(p), NEW b \in Issuable(p), NEW f \in BOOLEAN,
         SnoopAsserts(p, st, b), SnoopStatus(p, st, b) \in Dirty
  PROVE  st \in Dirty /\ Supplies(p, st, b, f)
<1>1. p \in {"MSI", "MESI", "MOSI", "MOESI"}
  BY SnoopingAssumption
<1>2. CASE p = "MSI"
  BY <1>2 DEF Lines, Issuable, SnoopAsserts, SnoopStatus, Supplies,
              MSI!SnoopAsserts, MSI!SnoopStatus, MSI!Supplies
<1>3. CASE p = "MESI"
  BY <1>3 DEF Lines, Issuable, SnoopAsserts, SnoopStatus, Supplies,
              MESI!SnoopAsserts, MESI!SnoopStatus, MESI!Supplies, MESI!Sole
<1>4. CASE p = "MOSI"
  BY <1>4 DEF Lines, Issuable, SnoopAsserts, SnoopStatus, Supplies,
              MOSI!SnoopAsserts, MOSI!SnoopStatus, MOSI!Supplies
<1>5. CASE p = "MOESI"
  BY <1>5 DEF Lines, Issuable, SnoopAsserts, SnoopStatus, Supplies,
              MOESI!SnoopAsserts, MOESI!SnoopStatus, MOESI!Supplies, MOESI!Sole
<1>. QED  BY <1>1, <1>2, <1>3, <1>4, <1>5

\* What a requester that nobody has refused or supplied may conclude from
\* the answers: no line of theirs is dirty, and, if it takes the line, none
\* of them is fetching it.
DataAnswers ==
  \A x, d \in Core :
    reqLock = x /\ ~recvNak /\ d # x /\ d \notin pendingWork \ snooped =>
      /\ ownerId = NoCore => status[d][busAddr] \notin Dirty
      /\ busOpt # "BusRd" => pendingAddr[d] # busAddr

DataInv == IInv /\ AssertInv /\ FetchedLineStays /\ RefusalLosesNoData /\ DataAnswers

\* The facts about the transaction in progress that the steps below share.
LEMMA TransactionFacts ==
  ASSUME IInv, NEW x \in Core, reqLock = x
  PROVE  /\ x # NoCore /\ busAddr = addr[x] /\ busAddr \in Addr
         /\ protocol \in Protocols /\ op[x] \in Access /\ Line(x) \in CacheState
         /\ busOpt \in Issuable(protocol)
         /\ Line(x) # "Invalid" \/ op[x] = "W" => busOpt # "BusRd"
<1>1. /\ x # NoCore /\ busAddr = addr[x] /\ busAddr \in Addr
      /\ protocol \in Protocols /\ op[x] \in Access /\ Line(x) \in CacheState
      /\ MayIssue(protocol, Line(x), op[x]) /\ busOpt = IssuedOp(protocol, Line(x), op[x])
  BY SnoopingAssumption DEF IInv, Transaction, LockHeld, TypeOK, Line
<1>. QED  BY <1>1, IssueFacts

LEMMA LookupData ==
  ASSUME DataInv, NEW c \in Core, Lookup(c)
  PROVE  RefusalLosesNoData' /\ DataAnswers'
<1>a. /\ addr[c] \in Addr /\ op[c] \in Access /\ Line(c) \in CacheState
      /\ protocol \in Protocols
      /\ UNCHANGED <<pendingAddr, busVars>>
  BY DEF DataInv, IInv, TypeOK, Lookup, Line
<1>b. \A d \in Core, a \in Addr :
        \/ status'[d][a] = status[d][a]
        \/ d = c /\ status[d][a] \in Sole
  <2>1. CASE Hit(protocol, Line(c), op[c])
    <3>1. status' = [status EXCEPT ![c][addr[c]] = HitStatus(protocol, Line(c), op[c])]
      BY <2>1 DEF Lookup
    <3>. QED  BY <3>1, <2>1, <1>a, HitFacts DEF DataInv, IInv, TypeOK, Line
  <2>2. CASE ~Hit(protocol, Line(c), op[c])
    BY <2>2 DEF Lookup
  <2>. QED  BY <2>1, <2>2
<1>1. RefusalLosesNoData'
  <2>1. SUFFICES ASSUME NEW e \in Core, NEW d \in Core, pendingAddr[e] \in Addr, e # d,
                        status'[d][pendingAddr[e]] # status[d][pendingAddr[e]]
                 PROVE  FALSE
    BY <1>a DEF RefusalLosesNoData, DataInv
  <2>2. status[d][pendingAddr[e]] \in Sole
    BY <2>1, <1>b
  <2>3. status[e][pendingAddr[e]] = "Invalid"
    BY <2>1, <2>2 DEF DataInv, IInv, Coherent
  <2>. QED  BY <2>1, <2>3, SnoopingAssumption DEF DataInv, FetchedLineStays
<1>2. DataAnswers'
  <2>1. SUFFICES ASSUME NEW x \in Core, NEW d \in Core, reqLock = x, ~recvNak, d # x,
                        d \notin pendingWork \ snooped
                 PROVE  status'[d][busAddr] = status[d][busAddr]
    BY <1>a DEF DataAnswers, DataInv, busVars
  <2>2. status[d][busAddr] \notin Sole /\ busAddr \in Addr
    BY <2>1, TransactionFacts DEF DataInv, IInv, Answers
  <2>. QED  BY <2>2, <1>b
<1>. QED  BY <1>1, <1>2

\* The end of a transaction: what the requester has learnt from the answers
\* is what RefusalLosesNoData asks of its line.
LEMMA EndData ==
  ASSUME DataInv, NEW c \in Core, Refused(c) \/ Upgraded(c) \/ Filled(c)
  PROVE  RefusalLosesNoData' /\ DataAnswers'
<1>. USE DEF DataInv
<1>a. /\ Answered(c) /\ reqLock' = NoCore
      /\ status \in [Core -> [Addr -> CacheState]]
      /\ pendingAddr \in [Core -> Addr \cup {NoAddr}]
      /\ addr[c] \in Addr /\ readEx \in BOOLEAN
  BY DEF Refused, Upgraded, Filled, Release, Answered, IInv, TypeOK
<1>b. /\ reqLock = c /\ pendingWork = {}
      /\ busAddr = addr[c] /\ protocol \in Protocols /\ op[c] \in Access
      /\ Line(c) # "Invalid" \/ op[c] = "W" => busOpt # "BusRd"
  BY <1>a, AnsweredMeansAll, TransactionFacts
<1>c. ASSUME ~recvNak
      PROVE  \A d \in Core \ {c} :
               /\ ownerId = NoCore => status[d][addr[c]] \notin Dirty
               /\ busOpt # "BusRd" => pendingAddr[d] # addr[c]
  BY <1>b, <1>c DEF DataAnswers
<1>1. DataAnswers'
  BY <1>a, SnoopingAssumption DEF DataAnswers
<1>2. CASE Refused(c)
  <2>1. /\ status' = status
        /\ pendingAddr'[c] \in {pendingAddr[c], NoAddr}
        /\ \A d \in Core \ {c} : pendingAddr'[d] = pendingAddr[d]
    BY <1>2, <1>a DEF Refused, Release
  <2>. QED  BY <2>1, <1>1, SnoopingAssumption DEF RefusalLosesNoData
<1>3. CASE Upgraded(c)
  <2>1. /\ status' = [status EXCEPT ![c][addr[c]] = "Modified"]
        /\ pendingAddr'[c] \in {pendingAddr[c], NoAddr}
        /\ \A d \in Core \ {c} : pendingAddr'[d] = pendingAddr[d]
        /\ ~recvNak /\ busOpt # "BusRd"
    BY <1>3, <1>a, <1>b DEF Upgraded, Release
  <2>2. /\ \A d \in Core, a \in Addr : status'[d][a] # status[d][a] => d = c /\ a = addr[c]
        /\ \A d \in Core \ {c} : pendingAddr[d] # addr[c]
    BY <2>1, <1>a, <1>c
  <2>. QED  BY <2>1, <2>2, <1>1, SnoopingAssumption DEF RefusalLosesNoData
<1>4. CASE Filled(c)
  <2>. DEFINE new == FillStatus(protocol, op[c], readEx)
  <2>1. /\ InsertLine(c, addr[c], new) /\ ~recvNak
        /\ pendingAddr' = [pendingAddr EXCEPT ![c] = IF ownerId # NoCore THEN NoAddr
                                                     ELSE addr[c]]
    BY <1>4 DEF Filled, Release
  <2>2. new \in Dirty => op[c] = "W"
    BY <1>a, <1>b, FillFacts
  <2>. HIDE DEF new
  <2>3. \A d \in Core, a \in Addr :
          \/ status'[d][a] = status[d][a]
          \/ d = c /\ status'[d][a] = "Invalid"
          \/ d = c /\ a = addr[c] /\ status'[d][a] = new
    <3>1. CASE status' = [status EXCEPT ![c][addr[c]] = new]
      BY <3>1, <1>a
    <3>2. ASSUME NEW v \in Addr,
                 status' = [status EXCEPT ![c][v] = "Invalid", ![c][addr[c]] = new]
          PROVE  <2>3
      BY <3>2, <1>a
    <3>. QED  BY <3>1, <3>2, <2>1 DEF InsertLine, Occupied
  <2>4. ASSUME NEW e \in Core, NEW d \in Core, e # d, pendingAddr'[e] \in Addr
        PROVE  status'[d][pendingAddr'[e]] \notin Dirty
    <3>1. CASE e = c
      <4>1. ownerId = NoCore /\ pendingAddr'[e] = addr[c]
        BY <3>1, <2>1, <2>4, <1>a, SnoopingAssumption
      <4>. QED  BY <4>1, <3>1, <2>1, <2>3, <2>4, <1>a, <1>c
    <3>2. CASE e # c
      <4>1. pendingAddr'[e] = pendingAddr[e]
        BY <3>2, <2>1, <1>a
      <4>2. new \in Dirty => pendingAddr[e] # addr[c]
        BY <3>2, <2>1, <2>2, <1>b, <1>c
      <4>3. status[d][pendingAddr[e]] \notin Dirty
        BY <4>1, <2>4 DEF RefusalLosesNoData
      <4>. QED  BY <4>1, <4>2, <4>3, <2>3, <2>4
    <3>. QED  BY <3>1, <3>2
  <2>. QED  BY <2>4, <1>1 DEF RefusalLosesNoData
<1>. QED  BY <1>2, <1>3, <1>4

LEMMA SnoopData ==
  ASSUME DataInv, NEW c \in Core, Snoop(c)
  PROVE  RefusalLosesNoData' /\ DataAnswers'
<1>. USE DEF DataInv
<1>. DEFINE st == status[c][busAddr]
            new == SnoopStatus(protocol, st, busOpt)
<1>a. /\ c \in pendingWork /\ snooped' = snooped \cup {c}
      /\ UNCHANGED <<pendingAddr, reqLock, busAddr, busOpt, pendingWork>>
  BY DEF Snoop
<1>b. PICK x \in Core : reqLock = x
  BY <1>a DEF IInv, LockHeld, TypeOK
<1>c. /\ busAddr \in Addr /\ protocol \in Protocols /\ busOpt \in Issuable(protocol)
      /\ st \in Lines(protocol)
  BY <1>b, TransactionFacts DEF AssertInv
<1>1. CASE Refuses(c)
  <2>1. recvNak' = TRUE /\ status' = status
    BY <1>1 DEF Snoop
  <2>. QED  BY <2>1, <1>a DEF RefusalLosesNoData, DataAnswers
<1>2. CASE ~Refuses(c)
  <2>. DEFINE supplies == Supplies(protocol, st, busOpt, pendingAddr[c] = busAddr)
  <2>1. /\ SnoopAsserts(protocol, st, busOpt)
        /\ status' = [status EXCEPT ![c][busAddr] = new]
        /\ ownerId' = IF supplies THEN c ELSE ownerId
        /\ recvNak' = recvNak
    BY <1>2 DEF Snoop
  <2>2. new \in Dirty => st \in Dirty /\ supplies
    BY <2>1, <1>c, DirtyFacts
  <2>. HIDE DEF new, supplies
  <2>3. /\ status'[c][busAddr] = new
        /\ \A d \in Core, a \in Addr : d # c \/ a # busAddr => status'[d][a] = status[d][a]
    BY <2>1, <1>c DEF IInv, TypeOK
  <2>4. RefusalLosesNoData'
    BY <2>2, <2>3, <1>a DEF RefusalLosesNoData
  <2>5. DataAnswers'
    <3>1. SUFFICES ASSUME NEW d \in Core \ {x}, ~recvNak, d \notin pendingWork \ snooped'
                   PROVE  /\ ownerId' = NoCore => status'[d][busAddr] \notin Dirty
                          /\ busOpt # "BusRd" => pendingAddr[d] # busAddr
      BY <1>a, <1>b, <2>1 DEF DataAnswers
    <3>2. CASE d = c
      BY <3>2, <2>1, <2>2, <2>3, <1>2, SnoopingAssumption DEF Refuses
    <3>3. CASE d # c
      <4>1. d \notin pendingWork \ snooped /\ status'[d][busAddr] = status[d][busAddr]
        BY <3>1, <3>3, <2>3, <1>a, <1>c
      <4>2. ownerId' = NoCore => ownerId = NoCore
        BY <2>1, SnoopingAssumption
      <4>. QED  BY <4>1, <4>2, <3>1, <1>b DEF DataAnswers
    <3>. QED  BY <3>2, <3>3
  <2>. QED  BY <2>4, <2>5
<1>. QED  BY <1>1, <1>2

\* The steps that touch neither a line nor an answer.
LEMMA OtherData ==
  ASSUME DataInv, NEW c \in Core, Accept(c) \/ Request(c) \/ Fetched(c) \/ Reply(c)
  PROVE  RefusalLosesNoData' /\ DataAnswers'
<1>. USE DEF DataInv
<1>1. CASE Accept(c)
  BY <1>1 DEF Accept, lineVars, busVars, RefusalLosesNoData, DataAnswers
<1>2. CASE Request(c)
  <2>1. /\ UNCHANGED <<status, pendingAddr, snooped>> /\ reqLock' = c
        /\ pendingWork' = pendingWork \cup (Core \ {c}) /\ snooped = {}
    BY <1>2 DEF Request, BusFree, Others, IInv, LockHeld, TypeOK
  <2>. QED  BY <2>1 DEF RefusalLosesNoData, DataAnswers
<1>3. CASE Fetched(c)
  <2>1. /\ UNCHANGED <<status, busVars>> /\ pendingAddr'[c] = NoAddr
        /\ \A d \in Core \ {c} : pendingAddr'[d] = pendingAddr[d]
    BY <1>3 DEF Fetched, IInv, TypeOK
  <2>2. \A x \in Core : reqLock = x => busAddr # NoAddr
    BY TransactionFacts, SnoopingAssumption
  <2>. QED  BY <2>1, <2>2, SnoopingAssumption DEF RefusalLosesNoData, DataAnswers, busVars
<1>4. CASE Reply(c)
  <2>1. /\ UNCHANGED <<status, pendingAddr, reqLock, busAddr, busOpt, recvNak, ownerId>>
        /\ pendingWork' \ snooped' = pendingWork \ snooped
    BY <1>4 DEF Reply, lineVars
  <2>. QED  BY <2>1 DEF RefusalLosesNoData, DataAnswers
<1>. QED  BY <1>1, <1>2, <1>3, <1>4

\* When pending_addr starts as zero, a line that a core is fetching is dirty
\* in no other cache, however many attempts to take it have been refused
\* half-way.
THEOREM RefusalIsHarmless ==
  ASSUME InitialPending = {NoAddr}
  PROVE  Spec => []RefusalLosesNoData
<1>1. Init => DataInv
  <2>1. Init => AssertInv /\ FetchedLineStays
    BY DEF Init, AssertInv, Lines, FetchedLineStays
  <2>2. Init => RefusalLosesNoData /\ DataAnswers
    BY SnoopingAssumption DEF Init, RefusalLosesNoData, DataAnswers
  <2>. QED  BY <2>1, <2>2, InitIInv DEF DataInv
<1>2. ASSUME IInv', DataInv, [Next]_vars PROVE DataInv'
  <2>1. ASSUME NEW c \in Core, Accept(c) \/ Work(c) PROVE DataInv'
    <3>1. RefusalLosesNoData' /\ DataAnswers'
      BY <1>2, <2>1, LookupData, EndData, SnoopData, OtherData DEF Work
    <3>2. AssertInv' /\ FetchedLineStays'
      BY <1>2, <2>1, AssertInvStep, FetchedLineStaysStep DEF DataInv
    <3>. QED  BY <1>2, <3>1, <3>2 DEF DataInv
  <2>2. CASE UNCHANGED vars
    BY <1>2, <2>2 DEF DataInv, AssertInv, FetchedLineStays, RefusalLosesNoData, DataAnswers,
       Line, vars, traceVars, lineVars, busVars
  <2>. QED  BY <1>2, <2>1, <2>2 DEF Next, Terminated
<1>3. DataInv => RefusalLosesNoData
  BY DEF DataInv
<1>. QED  BY <1>1, <1>2, <1>3, Invariance, PTL DEF Spec
=============================================================================
