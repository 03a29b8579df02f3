---------------------------- MODULE UpdateProofs ----------------------------
(***************************************************************************)
(* The update protocols, for any number of cores and addresses, any        *)
(* associativity, threshold and trace: counters stay positive, and as long *)
(* as no write window is raced into, the caches are coherent and no assert *)
(* fails.                                                                  *)
(***************************************************************************)
EXTENDS Update, FiniteSetTheorems, TLAPS

USE DEF CacheState, BusOp, Access, Sole

-----------------------------------------------------------------------------
(* The inductive invariant.  Its first half holds whatever happens.        *)

\* The owner of the bus is the core that waits for answers.
LockHeld ==
  /\ \A c \in Core : pc[c] \in {"wait", "update"} <=> reqLock = c
  /\ reqLock = NoCore => pendingWork = {}
  /\ \A c \in Core : pc[c] # "idle" => addr[c] \in Addr

\* The answers counted and the cores still to answer make up all cores but
\* the owner, which asks for what its own line calls for.
Transaction ==
  \A x \in Core : reqLock = x =>
    /\ x \notin pendingWork
    /\ respCount + Cardinality(pendingWork) = Cardinality(Core) - 1
    /\ busAddr = addr[x]
    /\ busOpt = (IF Line(x) = "Invalid" THEN "BusRd" ELSE "BusUpdt")
    /\ Line(x) \notin Sole

\* A core between the two halves of a write miss.
InWriteWindow(c) == op[c] = "W" /\ pc[c] \in {"memory", "window"}

\* What a core that is about to use the bus, or to insert its line, has of it.
OwnLines ==
  \A c \in Core : /\ pc[c] = "bus" => MayIssue(c)
                  /\ InWriteWindow(c) => Line(c) = "Invalid"
                  /\ pc[c] = "window" => op[c] = "W"

BookInv == TypeOK /\ LockHeld /\ Transaction /\ OwnLines /\ CountersStayPositive

-----------------------------------------------------------------------------
(* The second half holds as long as nobody has raced into a write window.  *)

\* Who has snooped a transaction has no copy left that excludes the owner's.
Answers ==
  \A x \in Core : reqLock = x =>
    \A d \in Core \ {x} : d \notin pendingWork \ snooped =>
      /\ status[d][busAddr] \notin Sole
      /\ busOpt = "BusUpdt" => status[d][busAddr] # "ShModified"
      /\ readEx => status[d][busAddr] = "Invalid"

\* In a window nobody asks for the line, nobody else is about to insert it,
\* and no copy has come up that the requester was not told of.
Windows ==
  \A c \in Core : InWriteWindow(c) =>
    /\ reqLock # NoCore => busAddr # addr[c]
    /\ \A d \in Core \ {c} :
         /\ ~(InWriteWindow(d) /\ addr[d] = addr[c])
         /\ status[d][addr[c]] \notin Sole
         /\ alone[c] => status[d][addr[c]] = "Invalid"

\* Coherence, with the one copy named that an update has still to reach.
Late(c, d, a) ==
  busAddr = a /\ busOpt = "BusUpdt" /\ reqLock = c /\ d \in pendingWork \ snooped

Coherence ==
  \A c, d \in Core : \A a \in Addr : c # d =>
    /\ status[c][a] \in Sole => status[d][a] = "Invalid"
    /\ status[c][a] = "ShModified" /\ status[d][a] = "ShModified"
         => Late(c, d, a) \/ Late(d, c, a)

CoherenceInv == Answers /\ Windows /\ Coherence

IInv == BookInv /\ (~raced => CoherenceInv)

-----------------------------------------------------------------------------
(* Counting answers.                                                       *)

LEMMA CoreCard ==
  /\ Cardinality(Core) \in Nat \ {0}
  /\ \A S \in SUBSET Core : IsFiniteSet(S) /\ Cardinality(S) \in Nat
BY UpdateAssumption, FS_CardinalityType, FS_EmptySet, FS_Subset

LEMMA CardLess ==
  ASSUME NEW S \in SUBSET Core, NEW c \in S
  PROVE  Cardinality(S \ {c}) = Cardinality(S) - 1
BY CoreCard, FS_RemoveElement

\* When every answer is counted nobody is left to answer.
LEMMA AnsweredMeansAll ==
  ASSUME BookInv, NEW c \in Core, Answered(c)
  PROVE  reqLock = c /\ pendingWork = {} /\ snooped = {} /\ c # NoCore
<1>1. reqLock = c
  BY DEF Answered
<1>2. Cardinality(pendingWork) = 0
  BY <1>1, CoreCard DEF BookInv, Transaction, Answered, TypeOK
<1>3. pendingWork = {} /\ snooped = {}
  BY <1>2, CoreCard, FS_EmptySet DEF BookInv, TypeOK
<1>. QED  BY <1>1, <1>3, UpdateAssumption

-----------------------------------------------------------------------------
(* What an insertion and a snoop do to the lines.                          *)

LineState == {"Modified", "Exclusive", "ShModified", "ShClean", "Invalid"}

LEMMA InsertFacts ==
  ASSUME TypeOK, CountersStayPositive, NEW c \in Core, addr[c] \in Addr,
         NEW st \in LineState, InsertLine(c, addr[c], st)
  PROVE  /\ status' \in [Core -> [Addr -> LineState]]
         /\ counter' \in [Core -> [Addr -> Nat]] /\ CountersStayPositive'
         /\ status'[c][addr[c]] = st
         /\ \A a \in Addr \ {addr[c]} : status'[c][a] \in {status[c][a], "Invalid"}
         /\ \A d \in Core \ {c} : status'[d] = status[d]
<1>0. /\ Threshold \in Nat /\ Threshold > 0
      /\ status \in [Core -> [Addr -> LineState]] /\ counter \in [Core -> [Addr -> Nat]]
  BY UpdateAssumption DEF TypeOK, LineState
<1>1. CASE /\ status' = [status EXCEPT ![c][addr[c]] = st]
           /\ counter' = [counter EXCEPT ![c][addr[c]] = Threshold]
  <2>1. /\ status' \in [Core -> [Addr -> LineState]]
        /\ counter' \in [Core -> [Addr -> Nat]]
    BY <1>0, <1>1
  <2>2. CountersStayPositive'
    BY <1>0, <1>1 DEF CountersStayPositive
  <2>. QED  BY <1>0, <1>1, <2>1, <2>2
<1>2. ASSUME NEW v \in Addr \ {addr[c]},
             status' = [status EXCEPT ![c][v] = "Invalid", ![c][addr[c]] = st],
             counter' = [counter EXCEPT ![c][v] = 0, ![c][addr[c]] = Threshold]
      PROVE  /\ status' \in [Core -> [Addr -> LineState]]
             /\ counter' \in [Core -> [Addr -> Nat]] /\ CountersStayPositive'
             /\ status'[c][addr[c]] = st
             /\ \A a \in Addr \ {addr[c]} : status'[c][a] \in {status[c][a], "Invalid"}
             /\ \A d \in Core \ {c} : status'[d] = status[d]
  <2>1. /\ status' \in [Core -> [Addr -> LineState]]
        /\ counter' \in [Core -> [Addr -> Nat]]
    BY <1>0, <1>2 DEF LineState
  <2>2. CountersStayPositive'
    BY <1>0, <1>2 DEF CountersStayPositive
  <2>. QED  BY <1>0, <1>2, <2>1, <2>2
<1>. QED  BY <1>1, <1>2 DEF InsertLine, Occupied

LEMMA SnoopFacts ==
  ASSUME BookInv, NEW c \in Core, Snoop(c)
  PROVE  \E x \in Core \ {c}, new \in LineState \ Sole :
           /\ reqLock = x /\ busAddr = addr[x] /\ busAddr \in Addr
           /\ status' = [status EXCEPT ![c][busAddr] = new]
           /\ status[c][busAddr] = "Invalid" => new = "Invalid"
           /\ new = "ShModified" =>
                busOpt = "BusRd" /\ status[c][busAddr] \in {"Modified", "ShModified"}
           /\ readEx' => readEx /\ new = "Invalid"
<1>. USE DEF BookInv
<1>1. c \in pendingWork
  BY DEF Snoop
<1>2. PICK x \in Core : reqLock = x
  BY <1>1 DEF LockHeld, TypeOK
<1>3. /\ c # x /\ busAddr = addr[x] /\ busAddr \in Addr
      /\ busOpt \in {"BusRd", "BusUpdt"} /\ readEx \in BOOLEAN
      /\ status[c][busAddr] \in LineState
  BY <1>1, <1>2 DEF Transaction, LockHeld, TypeOK, LineState
<1>4. PICK st \in LineState : st = status[c][busAddr]
  BY <1>3
<1>5. PICK new : new = SnoopStatus(c, st)
  OBVIOUS
<1>6. /\ SnoopAsserts(st) /\ status' = [status EXCEPT ![c][busAddr] = new]
      /\ readEx' = (readEx /\ (st = "Invalid" \/ GivesUp(c, st)))
  BY <1>4, <1>5 DEF Snoop
<1>7. /\ new \in LineState \ Sole
      /\ st = "Invalid" => new = "Invalid"
      /\ new = "ShModified" => busOpt = "BusRd" /\ st \in {"Modified", "ShModified"}
      /\ st = "Invalid" \/ GivesUp(c, st) => new = "Invalid"
  <2>1. CASE GivesUp(c, st)
    BY <1>5, <2>1 DEF SnoopStatus, LineState, GivesUp
  <2>2. CASE ~GivesUp(c, st)
    BY <1>3, <1>4, <1>5, <1>6, <2>2 DEF SnoopStatus, SnoopAsserts, LineState
  <2>. QED  BY <2>1, <2>2
<1>. QED  BY <1>2, <1>3, <1>4, <1>6, <1>7

-----------------------------------------------------------------------------
(* The first half.                                                         *)

LEMMA InitInv == Init => IInv
<1>. SUFFICES ASSUME Init PROVE IInv
  OBVIOUS
<1>1. TypeOK
  <2>1. issued \in 0 .. MaxAccesses /\ respCount \in 0 .. Cardinality(Core) - 1
    BY CoreCard, UpdateAssumption DEF Init
  <2>2. /\ protocol \in Protocols /\ pc = [c \in Core |-> "idle"]
        /\ op \in [Core -> Access] /\ addr \in [Core -> Addr \cup {NoAddr}]
        /\ alone \in [Core -> BOOLEAN]
        /\ counter \in [Core -> [Addr -> Nat]] /\ raced \in BOOLEAN
    BY DEF Init
  <2>3. status \in [Core -> [Addr -> {"Modified", "Exclusive", "ShModified", "ShClean",
                                      "Invalid"}]]
    BY DEF Init
  <2>4. /\ reqLock \in Core \cup {NoCore} /\ busAddr \in Addr \cup {NoAddr}
        /\ busOpt \in BusOp /\ readEx \in BOOLEAN /\ ownerId \in Core \cup {NoCore}
        /\ pendingWork \subseteq Core /\ snooped \subseteq pendingWork
    BY DEF Init
  <2>5. pendingAddr \in [Core -> Addr \cup {NoAddr}]
    BY UpdateAssumption DEF Init
  <2>. QED  BY <2>1, <2>2, <2>3, <2>4, <2>5 DEF TypeOK
<1>2. LockHeld /\ Transaction /\ OwnLines /\ CountersStayPositive
  BY UpdateAssumption
     DEF Init, LockHeld, Transaction, OwnLines, InWriteWindow, CountersStayPositive
<1>3. CoherenceInv
  BY UpdateAssumption
     DEF Init, CoherenceInv, Answers, Windows, InWriteWindow, Coherence
<1>. QED  BY <1>1, <1>2, <1>3 DEF IInv, BookInv

LEMMA AcceptBook ==
  ASSUME BookInv, NEW c \in Core, Accept(c)
  PROVE  BookInv'
<1>. USE DEF BookInv
<1>1. PICK o \in Access, a \in Addr :
        op' = [op EXCEPT ![c] = o] /\ addr' = [addr EXCEPT ![c] = a]
  BY DEF Accept
<1>2. /\ pc[c] = "idle" /\ pc' = [pc EXCEPT ![c] = "lookup"]
      /\ issued < MaxAccesses /\ issued' = issued + 1
      /\ UNCHANGED <<protocol, alone, status, counter, pendingAddr, raced>>
      /\ UNCHANGED <<reqLock, busAddr, busOpt, readEx, ownerId, respCount, pendingWork, snooped>>
  BY DEF Accept, lineVars, busVars
<1>3. TypeOK'
  <2>1. issued' \in 0 .. MaxAccesses
    BY <1>2, UpdateAssumption DEF TypeOK
  <2>. QED  BY <1>1, <1>2, <2>1 DEF TypeOK
<1>4. LockHeld'
  BY <1>1, <1>2 DEF LockHeld, TypeOK
<1>5. Transaction'
  <2>1. reqLock # c
    BY <1>2 DEF LockHeld
  <2>. QED  BY <2>1, <1>1, <1>2 DEF Transaction, Line, TypeOK
<1>6. OwnLines' /\ CountersStayPositive'
  BY <1>1, <1>2 DEF OwnLines, InWriteWindow, MayIssue, Line, CountersStayPositive, TypeOK
<1>. QED  BY <1>3, <1>4, <1>5, <1>6

LEMMA LookupBook ==
  ASSUME BookInv, NEW c \in Core, Lookup(c)
  PROVE  /\ BookInv'
         /\ \A d \in Core, a \in Addr :
              \/ status'[d][a] = status[d][a]
              \/ {status[d][a], status'[d][a]} \subseteq Sole
<1>. USE DEF BookInv
<1>1. /\ pc[c] = "lookup" /\ addr[c] \in Addr /\ op[c] \in Access /\ Line(c) \in LineState
      /\ UNCHANGED <<protocol, issued, op, addr, alone, pendingAddr, raced>>
      /\ UNCHANGED <<reqLock, busAddr, busOpt, readEx, ownerId, respCount, pendingWork, snooped>>
  BY DEF Lookup, LockHeld, TypeOK, Line, LineState, traceVars, busVars
<1>2. /\ status' \in [Core -> [Addr -> LineState]]
      /\ \A d \in Core, a \in Addr :
           \/ status'[d][a] = status[d][a]
           \/ d = c /\ {status[d][a], status'[d][a]} \subseteq Sole
  <2>1. CASE status' = status
    BY <2>1 DEF TypeOK, LineState
  <2>2. CASE Line(c) = "Exclusive" /\ status' = [status EXCEPT ![c][addr[c]] = "Modified"]
    BY <1>1, <2>2 DEF TypeOK, LineState, Line
  <2>. QED  BY <2>1, <2>2 DEF Lookup
<1>3. /\ counter' \in [Core -> [Addr -> Nat]]
      /\ \A d \in Core, a \in Addr : counter'[d][a] >= counter[d][a]
  <2>1. CASE counter' = counter
    BY <2>1 DEF TypeOK
  <2>2. CASE counter' = Used(c, addr[c])
    BY <1>1, <2>2 DEF Used, TypeOK
  <2>. QED  BY <2>1, <2>2 DEF Lookup
<1>4. \/ pc' = [pc EXCEPT ![c] = "idle"]
      \/ pc' = [pc EXCEPT ![c] = "bus"] /\ ~Hits(c) /\ status' = status
  BY DEF Lookup
<1>5. TypeOK'
  BY <1>1, <1>2, <1>3, <1>4 DEF TypeOK, LineState
<1>6. LockHeld'
  BY <1>1, <1>4 DEF LockHeld, TypeOK
<1>7. Transaction'
  <2>1. ASSUME NEW x \in Core, reqLock = x PROVE Line(x)' = Line(x)
    <3>1. x # c /\ addr[x] \in Addr
      BY <2>1, <1>1 DEF LockHeld
    <3>. QED  BY <3>1, <1>1, <1>2 DEF Line
  <2>. QED  BY <2>1, <1>1 DEF Transaction
<1>8. OwnLines'
  <2>1. ~Hits(c) => MayIssue(c)
    BY <1>1 DEF Hits, MayIssue, LineState
  <2>2. ASSUME NEW d \in Core \ {c}
        PROVE  /\ pc'[d] = "bus" => MayIssue(d)'
               /\ InWriteWindow(d)' => Line(d)' = "Invalid"
               /\ pc'[d] = "window" => op'[d] = "W"
    <3>1. UNCHANGED <<pc[d], op[d], addr[d]>> /\ (addr[d] \in Addr => Line(d)' = Line(d))
      BY <1>1, <1>2, <1>4 DEF Line, TypeOK
    <3>. QED  BY <3>1 DEF OwnLines, InWriteWindow, MayIssue, LockHeld
  <2>3. /\ pc'[c] = "bus" => MayIssue(c)'
        /\ ~InWriteWindow(c)' /\ pc'[c] # "window"
    BY <2>1, <1>1, <1>4 DEF InWriteWindow, MayIssue, Line, TypeOK
  <2>. QED  BY <2>2, <2>3 DEF OwnLines
<1>9. CountersStayPositive'
  <2>1. ASSUME NEW d \in Core, NEW a \in Addr, status'[d][a] # "Invalid"
        PROVE  counter'[d][a] > 0
    <3>1. status[d][a] # "Invalid"
      BY <2>1, <1>2
    <3>2. counter[d][a] > 0 /\ counter[d][a] \in Nat /\ counter'[d][a] \in Nat
      BY <3>1, <1>3 DEF CountersStayPositive, TypeOK
    <3>. QED  BY <3>2, <1>3
  <2>. QED  BY <2>1 DEF CountersStayPositive
<1>. QED  BY <1>2, <1>5, <1>6, <1>7, <1>8, <1>9

\* Taking the bus, for a line of the state that the operation calls for.
LEMMA AskBook ==
  ASSUME BookInv, NEW c \in Core, addr[c] \in Addr,
         NEW to \in {"wait", "update"}, pc' = [pc EXCEPT ![c] = to],
         NEW bop \in {"BusRd", "BusUpdt"}, Ask(c, bop), raced' \in BOOLEAN,
         bop = (IF Line(c)' = "Invalid" THEN "BusRd" ELSE "BusUpdt"), Line(c)' \notin Sole,
         status' \in [Core -> [Addr -> LineState]],
         \A d \in Core \ {c} : status'[d] = status[d],
         counter' \in [Core -> [Addr -> Nat]], CountersStayPositive',
         UNCHANGED <<protocol, issued, op, addr, alone, pendingAddr>>
  PROVE  BookInv'
<1>. USE DEF BookInv
<1>1. /\ reqLock = NoCore /\ pendingWork = {} /\ snooped = {}
      /\ reqLock' = c /\ pendingWork' = Core \ {c} /\ snooped' = {}
      /\ busAddr' = addr[c] /\ busOpt' = bop
      /\ readEx' = TRUE /\ ownerId' = NoCore /\ respCount' = 0
  BY DEF Ask, LockHeld, TypeOK
<1>2. TypeOK'
  <2>1. respCount' \in 0 .. Cardinality(Core) - 1
    BY <1>1, CoreCard
  <2>2. /\ pendingWork' \subseteq Core /\ snooped' \subseteq pendingWork'
        /\ reqLock' \in Core \cup {NoCore} /\ busAddr' \in Addr \cup {NoAddr}
        /\ busOpt' \in BusOp /\ readEx' \in BOOLEAN /\ ownerId' \in Core \cup {NoCore}
    BY <1>1
  <2>. QED  BY <2>1, <2>2 DEF TypeOK, LineState
<1>3. LockHeld'
  BY <1>1, UpdateAssumption DEF LockHeld, TypeOK
<1>4. Transaction'
  <2>1. Cardinality(pendingWork') = Cardinality(Core) - 1
    BY <1>1, CardLess
  <2>. QED  BY <1>1, <2>1, CoreCard DEF Transaction
<1>5. OwnLines'
  <2>1. ASSUME NEW d \in Core \ {c}
        PROVE  /\ pc'[d] = "bus" => MayIssue(d)'
               /\ InWriteWindow(d)' => Line(d)' = "Invalid"
               /\ pc'[d] = "window" => op'[d] = "W"
    BY DEF OwnLines, InWriteWindow, MayIssue, Line, TypeOK
  <2>2. pc'[c] \notin {"bus", "window"} /\ ~InWriteWindow(c)'
    BY DEF InWriteWindow, TypeOK
  <2>. QED  BY <2>1, <2>2 DEF OwnLines
<1>. QED  BY <1>2, <1>3, <1>4, <1>5

LEMMA RequestBook ==
  ASSUME BookInv, NEW c \in Core, Request(c)
  PROVE  BookInv'
<1>. USE DEF BookInv
<1>1. /\ pc[c] = "bus" /\ addr[c] \in Addr /\ MayIssue(c) /\ Line(c) \in LineState
      /\ pc' = [pc EXCEPT ![c] = "wait"]
      /\ UNCHANGED <<protocol, issued, op, addr, alone, status, pendingAddr>>
  BY DEF Request, LockHeld, TypeOK, Line, LineState, traceVars
<1>2. PICK bop \in {"BusRd", "BusUpdt"} :
        Ask(c, bop) /\ bop = (IF Line(c) = "Invalid" THEN "BusRd" ELSE "BusUpdt")
  BY DEF Request
<1>3. /\ counter' \in [Core -> [Addr -> Nat]]
      /\ \A d \in Core, a \in Addr : counter'[d][a] >= counter[d][a]
  <2>1. CASE counter' = counter
    BY <2>1 DEF TypeOK
  <2>2. CASE counter' = Used(c, addr[c])
    BY <1>1, <2>2 DEF Used, TypeOK
  <2>. QED  BY <2>1, <2>2 DEF Request
<1>4. CountersStayPositive'
  <2>1. ASSUME NEW d \in Core, NEW a \in Addr, status[d][a] # "Invalid"
        PROVE  counter'[d][a] > 0
    <3>1. counter[d][a] > 0 /\ counter[d][a] \in Nat /\ counter'[d][a] \in Nat
      BY <2>1, <1>3 DEF CountersStayPositive, TypeOK
    <3>. QED  BY <3>1, <1>3
  <2>. QED  BY <1>1, <2>1 DEF CountersStayPositive
<1>5. Line(c)' = Line(c) /\ Line(c) \notin Sole
  BY <1>1 DEF Line, MayIssue
<1>6. raced' \in BOOLEAN
  BY DEF Request, TypeOK
<1>7. status' \in [Core -> [Addr -> LineState]]
  BY <1>1 DEF TypeOK, LineState
<1>. QED  BY <1>1, <1>2, <1>3, <1>4, <1>5, <1>6, <1>7, AskBook

LEMMA InsertSharedBook ==
  ASSUME BookInv, NEW c \in Core, InsertShared(c)
  PROVE  BookInv'
<1>. USE DEF BookInv
<1>1. /\ addr[c] \in Addr /\ pc' = [pc EXCEPT ![c] = "update"]
      /\ InsertLine(c, addr[c], "ShModified") /\ Ask(c, "BusUpdt")
      /\ UNCHANGED <<protocol, issued, op, addr, alone, pendingAddr>>
  BY DEF InsertShared, LockHeld, TypeOK, traceVars
<1>2. /\ status' \in [Core -> [Addr -> LineState]]
      /\ counter' \in [Core -> [Addr -> Nat]] /\ CountersStayPositive'
      /\ Line(c)' = "ShModified"
      /\ \A d \in Core \ {c} : status'[d] = status[d]
  BY <1>1, InsertFacts DEF LineState, Line
<1>3. raced' \in BOOLEAN
  BY DEF InsertShared, TypeOK
<1>. QED  BY <1>1, <1>2, <1>3, AskBook

\* The end of a transaction.
LEMMA EndBook ==
  ASSUME BookInv, NEW c \in Core, Answered(c), ReleaseBus,
         NEW to \in {"idle", "memory", "window"}, pc' = [pc EXCEPT ![c] = to],
         to \in {"memory", "window"} /\ op[c] = "W" => Line(c)' = "Invalid",
         to = "window" => op[c] = "W",
         status' \in [Core -> [Addr -> LineState]],
         \A d \in Core \ {c} : status'[d] = status[d],
         counter' \in [Core -> [Addr -> Nat]], CountersStayPositive',
         pendingAddr' \in [Core -> Addr \cup {NoAddr}], alone' \in [Core -> BOOLEAN],
         UNCHANGED <<protocol, issued, op, addr, raced>>
  PROVE  BookInv'
<1>. USE DEF BookInv
<1>1. /\ reqLock = c /\ pendingWork = {} /\ c # NoCore
      /\ pc[c] \in {"wait", "update"} /\ reqLock' = NoCore
      /\ UNCHANGED <<busAddr, busOpt, readEx, ownerId, respCount, pendingWork, snooped>>
  BY AnsweredMeansAll DEF ReleaseBus, LockHeld
<1>2. TypeOK'
  BY <1>1 DEF TypeOK, LineState
<1>3. LockHeld' /\ Transaction'
  BY <1>1, UpdateAssumption DEF LockHeld, Transaction, TypeOK
<1>4. OwnLines'
  <2>1. ASSUME NEW d \in Core \ {c}
        PROVE  /\ pc'[d] = "bus" => MayIssue(d)'
               /\ InWriteWindow(d)' => Line(d)' = "Invalid"
               /\ pc'[d] = "window" => op'[d] = "W"
    BY DEF OwnLines, InWriteWindow, MayIssue, Line, TypeOK
  <2>2. /\ pc'[c] # "bus" /\ (InWriteWindow(c)' => Line(c)' = "Invalid")
        /\ pc'[c] = "window" => op'[c] = "W"
    BY DEF InWriteWindow, TypeOK
  <2>. QED  BY <2>1, <2>2 DEF OwnLines
<1>. QED  BY <1>2, <1>3, <1>4

LEMMA UpdatedBook ==
  ASSUME BookInv, NEW c \in Core, Updated(c)
  PROVE  BookInv'
<1>. USE DEF BookInv
<1>1. /\ Answered(c) /\ ReleaseBus /\ addr[c] \in Addr /\ Line(c) # "Invalid"
      /\ pc' = [pc EXCEPT ![c] = "idle"]
      /\ UNCHANGED <<protocol, issued, op, addr, alone, counter, pendingAddr, raced>>
  BY DEF Updated, LockHeld, traceVars
<1>2. PICK st \in {"Modified", "ShModified"} : status' = [status EXCEPT ![c][addr[c]] = st]
  <2>1. (IF readEx THEN "Modified" ELSE "ShModified") \in {"Modified", "ShModified"}
    OBVIOUS
  <2>. QED  BY <2>1 DEF Updated
<1>3. status' \in [Core -> [Addr -> LineState]] /\ \A d \in Core \ {c} : status'[d] = status[d]
  BY <1>1, <1>2 DEF TypeOK, LineState
<1>4. CountersStayPositive'
  <2>1. ASSUME NEW d \in Core, NEW a \in Addr, status'[d][a] # "Invalid"
        PROVE  status[d][a] # "Invalid"
    BY <2>1, <1>1, <1>2 DEF Line, TypeOK
  <2>. QED  BY <2>1, <1>1 DEF CountersStayPositive
<1>5. /\ counter' \in [Core -> [Addr -> Nat]] /\ alone' \in [Core -> BOOLEAN]
      /\ pendingAddr' \in [Core -> Addr \cup {NoAddr}]
  BY <1>1 DEF TypeOK
<1>. QED  BY <1>1, <1>3, <1>4, <1>5, EndBook

LEMMA UpdateSentBook ==
  ASSUME BookInv, NEW c \in Core, UpdateSent(c)
  PROVE  BookInv'
<1>. USE DEF BookInv
<1>1. /\ Answered(c) /\ ReleaseBus /\ pc' = [pc EXCEPT ![c] = "idle"]
      /\ UNCHANGED <<protocol, issued, op, addr, alone, status, counter, pendingAddr, raced>>
  BY DEF UpdateSent, traceVars, lineVars
<1>2. /\ status' \in [Core -> [Addr -> LineState]] /\ CountersStayPositive'
      /\ counter' \in [Core -> [Addr -> Nat]] /\ alone' \in [Core -> BOOLEAN]
      /\ pendingAddr' \in [Core -> Addr \cup {NoAddr}]
  BY <1>1 DEF TypeOK, LineState, CountersStayPositive
<1>. QED  BY <1>1, <1>2, EndBook

LEMMA ReadMissBook ==
  ASSUME BookInv, NEW c \in Core, ReadMiss(c)
  PROVE  BookInv'
<1>. USE DEF BookInv
<1>1. /\ Answered(c) /\ ReleaseBus /\ addr[c] \in Addr /\ op[c] = "R"
      /\ InsertLine(c, addr[c], FillStatus)
      /\ UNCHANGED <<protocol, issued, op, addr, alone, raced>>
  BY DEF ReadMiss, GoOn, LockHeld, traceVars
<1>2. PICK to \in {"idle", "memory"} : pc' = [pc EXCEPT ![c] = to]
  BY DEF ReadMiss, GoOn
<1>3. /\ pendingAddr' \in [Core -> Addr \cup {NoAddr}] /\ alone' \in [Core -> BOOLEAN]
  BY <1>1 DEF ReadMiss, GoOn, TypeOK
<1>4. FillStatus \in LineState
  BY DEF FillStatus, LineState
<1>5. /\ status' \in [Core -> [Addr -> LineState]]
      /\ counter' \in [Core -> [Addr -> Nat]] /\ CountersStayPositive'
      /\ \A d \in Core \ {c} : status'[d] = status[d]
  BY <1>1, <1>4, InsertFacts
<1>. QED  BY <1>1, <1>2, <1>3, <1>5, EndBook

LEMMA WriteMissBook ==
  ASSUME BookInv, NEW c \in Core, WriteMiss(c)
  PROVE  BookInv'
<1>. USE DEF BookInv
<1>1. /\ Answered(c) /\ ReleaseBus /\ addr[c] \in Addr /\ Line(c) = "Invalid"
      /\ op[c] = "W"
      /\ UNCHANGED <<protocol, issued, op, addr, status, counter, raced>>
  BY DEF WriteMiss, GoOn, LockHeld, traceVars
<1>2. PICK to \in {"window", "memory"} : pc' = [pc EXCEPT ![c] = to]
  BY DEF WriteMiss, GoOn
<1>3. /\ pendingAddr' \in [Core -> Addr \cup {NoAddr}] /\ alone' \in [Core -> BOOLEAN]
  BY <1>1 DEF WriteMiss, GoOn, TypeOK
<1>4. /\ status' \in [Core -> [Addr -> LineState]] /\ Line(c)' = "Invalid"
      /\ counter' \in [Core -> [Addr -> Nat]] /\ CountersStayPositive'
  BY <1>1 DEF TypeOK, LineState, CountersStayPositive, Line
<1>. QED  BY <1>1, <1>2, <1>3, <1>4, EndBook

LEMMA FetchedBook ==
  ASSUME BookInv, NEW c \in Core, Fetched(c)
  PROVE  BookInv'
<1>. USE DEF BookInv
<1>1. /\ pc[c] = "memory"
      /\ UNCHANGED <<protocol, issued, op, addr, alone, status, counter, raced>>
      /\ UNCHANGED <<reqLock, busAddr, busOpt, readEx, ownerId, respCount, pendingWork, snooped>>
  BY DEF Fetched, traceVars, busVars
<1>2. PICK to \in {"idle", "window"} :
        pc' = [pc EXCEPT ![c] = to] /\ (to = "window" => op[c] = "W")
  BY DEF Fetched, TypeOK
<1>3. TypeOK'
  <2>1. pendingAddr' \in [Core -> Addr \cup {NoAddr}]
    BY DEF Fetched, TypeOK
  <2>. QED  BY <1>1, <1>2, <2>1 DEF TypeOK
<1>4. LockHeld' /\ Transaction'
  BY <1>1, <1>2 DEF LockHeld, Transaction, Line, TypeOK
<1>5. OwnLines' /\ CountersStayPositive'
  BY <1>1, <1>2 DEF OwnLines, InWriteWindow, MayIssue, Line, CountersStayPositive, TypeOK
<1>. QED  BY <1>3, <1>4, <1>5

LEMMA InsertAloneBook ==
  ASSUME BookInv, NEW c \in Core, InsertAlone(c)
  PROVE  BookInv'
<1>. USE DEF BookInv
<1>1. /\ pc[c] = "window" /\ addr[c] \in Addr /\ InsertLine(c, addr[c], "Modified")
      /\ pc' = [pc EXCEPT ![c] = "idle"]
      /\ UNCHANGED <<protocol, issued, op, addr, alone, pendingAddr, raced>>
      /\ UNCHANGED <<reqLock, busAddr, busOpt, readEx, ownerId, respCount, pendingWork, snooped>>
  BY DEF InsertAlone, LockHeld, traceVars, busVars
<1>2. /\ status' \in [Core -> [Addr -> LineState]]
      /\ counter' \in [Core -> [Addr -> Nat]] /\ CountersStayPositive'
      /\ \A d \in Core \ {c} : status'[d] = status[d]
  BY <1>1, InsertFacts DEF LineState
<1>3. TypeOK'
  BY <1>1, <1>2 DEF TypeOK, LineState
<1>4. LockHeld'
  BY <1>1 DEF LockHeld, TypeOK
<1>5. Transaction'
  <2>1. reqLock # c
    BY <1>1 DEF LockHeld
  <2>. QED  BY <2>1, <1>1, <1>2 DEF Transaction, Line
<1>6. OwnLines'
  <2>1. ASSUME NEW d \in Core \ {c}
        PROVE  /\ pc'[d] = "bus" => MayIssue(d)'
               /\ InWriteWindow(d)' => Line(d)' = "Invalid"
               /\ pc'[d] = "window" => op'[d] = "W"
    BY <1>1, <1>2 DEF OwnLines, InWriteWindow, MayIssue, Line, TypeOK
  <2>2. pc'[c] = "idle"
    BY <1>1 DEF TypeOK
  <2>. QED  BY <2>1, <2>2 DEF OwnLines, InWriteWindow
<1>. QED  BY <1>2, <1>3, <1>4, <1>5, <1>6

LEMMA SnoopBook ==
  ASSUME BookInv, NEW c \in Core, Snoop(c)
  PROVE  BookInv'
<1>. USE DEF BookInv
<1>1. PICK x \in Core \ {c}, new \in LineState \ Sole :
        /\ reqLock = x /\ busAddr = addr[x] /\ busAddr \in Addr
        /\ status' = [status EXCEPT ![c][busAddr] = new]
        /\ status[c][busAddr] = "Invalid" => new = "Invalid"
        /\ new = "ShModified" =>
             busOpt = "BusRd" /\ status[c][busAddr] \in {"Modified", "ShModified"}
  BY SnoopFacts
<1>2. /\ c \in pendingWork /\ snooped' = snooped \cup {c}
      /\ UNCHANGED <<protocol, issued, op, addr, pc, alone, pendingAddr, raced>>
      /\ UNCHANGED <<reqLock, busAddr, busOpt, respCount, pendingWork>>
      /\ readEx' \in BOOLEAN /\ ownerId' \in Core \cup {NoCore}
  BY DEF Snoop, traceVars, TypeOK
<1>3. status' \in [Core -> [Addr -> LineState]]
  BY <1>1 DEF TypeOK, LineState
<1>4. counter' \in [Core -> [Addr -> Nat]] /\ CountersStayPositive'
  <2>1. CASE status[c][busAddr] = "Invalid"
    <3>1. counter' = counter
      BY <2>1 DEF Snoop
    <3>. QED  BY <3>1, <2>1, <1>1 DEF CountersStayPositive, TypeOK
  <2>2. CASE status[c][busAddr] # "Invalid"
    <3>. DEFINE left == LeftAfter(c, status[c][busAddr])
    <3>1. counter' = [counter EXCEPT ![c][busAddr] = left]
      BY <2>2 DEF Snoop
    <3>2. counter[c][busAddr] \in Nat /\ counter[c][busAddr] > 0
      BY <2>2, <1>1 DEF CountersStayPositive, TypeOK
    <3>3. left \in Nat /\ (new # "Invalid" => left > 0)
      <4>1. CASE GivesUp(c, status[c][busAddr])
        <5>1. left = 0
          BY <4>1 DEF LeftAfter
        <5>2. SnoopStatus(c, status[c][busAddr]) = "Invalid"
          BY <4>1 DEF SnoopStatus
        <5>3. status'[c][busAddr] = "Invalid"
          BY <5>2, <1>1 DEF Snoop, TypeOK
        <5>4. new = "Invalid"
          BY <5>3, <1>1 DEF TypeOK
        <5>. QED  BY <5>1, <5>4
      <4>2. CASE ~GivesUp(c, status[c][busAddr]) /\ protocol = "CompSnooping"
                   /\ busOpt = "BusUpdt"
        <5>1. status[c][busAddr] \in {"ShModified", "ShClean"}
          BY <2>2, <4>2, <1>1 DEF Snoop, SnoopAsserts, TypeOK
        <5>2. ~(counter[c][busAddr] <= 1) /\ left = counter[c][busAddr] - 1
          BY <4>2, <5>1 DEF GivesUp, LeftAfter
        <5>. QED  BY <3>2, <5>2
      <4>3. CASE ~GivesUp(c, status[c][busAddr])
                   /\ ~(protocol = "CompSnooping" /\ busOpt = "BusUpdt")
        BY <3>2, <4>3 DEF LeftAfter
      <4>. QED  BY <4>1, <4>2, <4>3
    <3>. HIDE DEF left
    <3>. QED  BY <3>1, <3>3, <1>1 DEF CountersStayPositive, TypeOK
  <2>. QED  BY <2>1, <2>2
<1>5. TypeOK'
  <2>1. snooped' \subseteq pendingWork'
    BY <1>2 DEF TypeOK
  <2>. QED  BY <1>2, <1>3, <1>4, <2>1 DEF TypeOK, LineState
<1>6. LockHeld'
  BY <1>2 DEF LockHeld
<1>7. Transaction'
  BY <1>1, <1>2 DEF Transaction, Line, TypeOK
<1>8. OwnLines'
  <2>1. ASSUME NEW d \in Core, addr[d] \in Addr
        PROVE  Line(d)' = Line(d) \/ (d = c /\ Line(d)' = new /\ addr[d] = busAddr)
    <3>1. Line(d)' = status'[d][addr[d]] /\ Line(d) = status[d][addr[d]]
      BY <1>2 DEF Line
    <3>2. CASE d = c /\ addr[d] = busAddr
      BY <3>1, <3>2, <1>1 DEF TypeOK
    <3>3. CASE ~(d = c /\ addr[d] = busAddr)
      BY <2>1, <3>1, <3>3, <1>1 DEF TypeOK
    <3>. QED  BY <3>2, <3>3
  <2>2. ASSUME NEW d \in Core
        PROVE  /\ pc[d] = "bus" => MayIssue(d)'
               /\ InWriteWindow(d) => Line(d)' = "Invalid"
    <3>1. ASSUME pc[d] = "bus" PROVE MayIssue(d)'
      BY <2>1, <3>1, <1>1, <1>2 DEF OwnLines, LockHeld, MayIssue, Line, LineState
    <3>2. ASSUME InWriteWindow(d) PROVE Line(d)' = "Invalid"
      BY <2>1, <3>2, <1>1, <1>2 DEF OwnLines, LockHeld, InWriteWindow, Line
    <3>. QED  BY <3>1, <3>2
  <2>. QED  BY <2>2, <1>2 DEF OwnLines, InWriteWindow
<1>. QED  BY <1>4, <1>5, <1>6, <1>7, <1>8

LEMMA ReplyBook ==
  ASSUME BookInv, NEW c \in Core, Reply(c)
  PROVE  BookInv'
<1>. USE DEF BookInv
<1>1. /\ c \in snooped /\ c \in pendingWork /\ pendingWork \subseteq Core
      /\ snooped' = snooped \ {c} /\ pendingWork' = pendingWork \ {c}
      /\ respCount' = respCount + 1
      /\ UNCHANGED <<protocol, issued, op, addr, pc, alone, status, counter, pendingAddr, raced>>
      /\ UNCHANGED <<reqLock, busAddr, busOpt, readEx, ownerId>>
  BY DEF Reply, TypeOK, traceVars, lineVars
<1>2. PICK x \in Core : reqLock = x
  BY <1>1 DEF LockHeld, TypeOK
<1>3. /\ Cardinality(pendingWork') = Cardinality(pendingWork) - 1
      /\ Cardinality(pendingWork) \in Nat /\ Cardinality(pendingWork') \in Nat
  BY <1>1, CoreCard, CardLess
<1>4. respCount' + Cardinality(pendingWork') = Cardinality(Core) - 1
  BY <1>1, <1>2, <1>3, CoreCard DEF Transaction, TypeOK
<1>5. TypeOK'
  <2>1. respCount' \in 0 .. Cardinality(Core) - 1
    BY <1>1, <1>3, <1>4, CoreCard DEF TypeOK
  <2>2. pendingWork' \subseteq Core /\ snooped' \subseteq pendingWork'
    BY <1>1 DEF TypeOK
  <2>. QED  BY <2>1, <2>2, <1>1 DEF TypeOK
<1>6. LockHeld'
  BY <1>1, <1>2, UpdateAssumption DEF LockHeld
<1>7. Transaction'
  BY <1>1, <1>2, <1>4 DEF Transaction, Line
<1>8. OwnLines' /\ CountersStayPositive'
  BY <1>1 DEF OwnLines, InWriteWindow, MayIssue, Line, CountersStayPositive
<1>. QED  BY <1>5, <1>6, <1>7, <1>8

-----------------------------------------------------------------------------
(* The second half.                                                        *)

\* With the bus free or everybody done, coherence knows no late copy.
LEMMA NobodyLate ==
  ASSUME BookInv, Coherence, reqLock = NoCore \/ pendingWork = {},
         NEW c \in Core, NEW d \in Core \ {c}, NEW a \in Addr
  PROVE  /\ status[c][a] \in Sole => status[d][a] = "Invalid"
         /\ ~(status[c][a] = "ShModified" /\ status[d][a] = "ShModified")
BY UpdateAssumption DEF Coherence, Late

LEMMA AcceptCoherence ==
  ASSUME BookInv, CoherenceInv, NEW c \in Core, Accept(c)
  PROVE  CoherenceInv'
<1>. USE DEF BookInv, CoherenceInv
<1>1. /\ pc[c] = "idle" /\ pc' = [pc EXCEPT ![c] = "lookup"]
      /\ \A d \in Core \ {c} : op'[d] = op[d] /\ addr'[d] = addr[d]
      /\ UNCHANGED <<alone, status>>
      /\ UNCHANGED <<reqLock, busAddr, busOpt, readEx, pendingWork, snooped>>
  BY DEF Accept, lineVars, busVars, TypeOK
<1>2. Answers' /\ Coherence'
  BY <1>1 DEF Answers, Coherence, Late
<1>3. Windows'
  <2>1. ~InWriteWindow(c)' /\ \A d \in Core \ {c} : InWriteWindow(d)' <=> InWriteWindow(d)
    BY <1>1 DEF InWriteWindow, TypeOK
  <2>. QED  BY <1>1, <2>1 DEF Windows
<1>. QED  BY <1>2, <1>3

LEMMA LookupCoherence ==
  ASSUME BookInv, CoherenceInv, NEW c \in Core, Lookup(c)
  PROVE  CoherenceInv'
<1>. USE DEF BookInv, CoherenceInv
<1>1. \A d \in Core, a \in Addr : \/ status'[d][a] = status[d][a]
                                  \/ {status[d][a], status'[d][a]} \subseteq Sole
  BY LookupBook
<1>2. /\ UNCHANGED <<op, addr, alone>>
      /\ UNCHANGED <<reqLock, busAddr, busOpt, readEx, pendingWork, snooped>>
      /\ \A d \in Core : pc'[d] \in {"memory", "window"} <=> pc[d] \in {"memory", "window"}
  BY DEF Lookup, traceVars, busVars, TypeOK
<1>3. Answers'
  <2>1. ASSUME NEW x \in Core, reqLock = x PROVE busAddr \in Addr
    BY <2>1 DEF LockHeld, Transaction
  <2>. QED  BY <2>1, <1>1, <1>2 DEF Answers
<1>4. Windows'
  <2>1. \A d \in Core : InWriteWindow(d)' <=> InWriteWindow(d)
    BY <1>2 DEF InWriteWindow
  <2>2. \A d \in Core : InWriteWindow(d) => addr[d] \in Addr
    BY DEF InWriteWindow, LockHeld
  <2>. QED  BY <2>1, <2>2, <1>1, <1>2 DEF Windows
<1>5. Coherence'
  BY <1>1, <1>2 DEF Coherence, Late
<1>. QED  BY <1>3, <1>4, <1>5

\* Taking the bus for a line that no other core has a window for.
LEMMA AskWindows ==
  ASSUME BookInv, CoherenceInv, NEW c \in Core, addr[c] \in Addr,
         NEW to \in {"wait", "update"}, pc' = [pc EXCEPT ![c] = to],
         NEW bop \in {"BusRd", "BusUpdt"}, Ask(c, bop), InWindow(addr[c]) \ {c} = {},
         \A a \in Addr \ {addr[c]} : status'[c][a] \in {status[c][a], "Invalid"},
         \A d \in Core \ {c} : status'[d] = status[d],
         UNCHANGED <<op, addr, alone>>
  PROVE  Answers' /\ Windows'
<1>. USE DEF BookInv, CoherenceInv
<1>1. /\ reqLock = NoCore /\ pendingWork = {} /\ snooped = {}
      /\ reqLock' = c /\ pendingWork' = Core \ {c} /\ snooped' = {} /\ busAddr' = addr[c]
  BY DEF Ask, LockHeld, TypeOK
<1>2. Answers'
  BY <1>1 DEF Answers
<1>3. ASSUME NEW w \in Core, InWriteWindow(w)'
      PROVE  w # c /\ InWriteWindow(w) /\ addr[w] # addr[c] /\ addr[w] \in Addr
  BY <1>3 DEF InWriteWindow, InWindow, TypeOK, LockHeld
<1>4. Windows'
  <2>1. ASSUME NEW w \in Core, InWriteWindow(w)', NEW d \in Core \ {w}
        PROVE  /\ ~(InWriteWindow(d)' /\ addr[d] = addr[w])
               /\ status'[d][addr[w]] \notin Sole
               /\ alone[w] => status'[d][addr[w]] = "Invalid"
    <3>1. /\ ~(InWriteWindow(d) /\ addr[d] = addr[w])
          /\ status[d][addr[w]] \notin Sole
          /\ alone[w] => status[d][addr[w]] = "Invalid"
      BY <1>3, <2>1 DEF Windows
    <3>2. status'[d][addr[w]] \in {status[d][addr[w]], "Invalid"}
      BY <1>3, <2>1
    <3>. QED  BY <1>3, <3>1, <3>2
  <2>. QED  BY <2>1, <1>1, <1>3 DEF Windows
<1>. QED  BY <1>2, <1>4

LEMMA RequestCoherence ==
  ASSUME BookInv, CoherenceInv, NEW c \in Core, Request(c), ~raced'
  PROVE  CoherenceInv'
<1>. USE DEF BookInv, CoherenceInv
<1>1. /\ addr[c] \in Addr /\ pc' = [pc EXCEPT ![c] = "wait"]
      /\ InWindow(addr[c]) \ {c} = {} /\ reqLock = NoCore
      /\ UNCHANGED <<op, addr, alone, status>>
  BY DEF Request, Ask, LockHeld, traceVars
<1>2. PICK bop \in {"BusRd", "BusUpdt"} : Ask(c, bop)
  BY DEF Request
<1>3. Answers' /\ Windows'
  BY <1>1, <1>2, AskWindows
<1>4. Coherence'
  BY <1>1, NobodyLate DEF Coherence
<1>. QED  BY <1>3, <1>4

LEMMA InsertSharedCoherence ==
  ASSUME BookInv, CoherenceInv, NEW c \in Core, InsertShared(c), ~raced'
  PROVE  CoherenceInv'
<1>. USE DEF BookInv, CoherenceInv
<1>1. /\ addr[c] \in Addr /\ pc[c] = "window" /\ pc' = [pc EXCEPT ![c] = "update"]
      /\ InsertLine(c, addr[c], "ShModified") /\ Ask(c, "BusUpdt")
      /\ InWindow(addr[c]) \ {c} = {} /\ reqLock = NoCore
      /\ UNCHANGED <<op, addr, alone>>
  BY DEF InsertShared, Ask, LockHeld, TypeOK, traceVars
<1>2. /\ status'[c][addr[c]] = "ShModified"
      /\ \A a \in Addr \ {addr[c]} : status'[c][a] \in {status[c][a], "Invalid"}
      /\ \A d \in Core \ {c} : status'[d] = status[d]
  BY <1>1, InsertFacts DEF LineState
<1>3. Answers' /\ Windows'
  BY <1>1, <1>2, AskWindows
<1>4. Coherence'
  <2>1. \A d \in Core \ {c} : status[d][addr[c]] \notin Sole
    BY <1>1 DEF Windows, InWriteWindow, OwnLines
  <2>2. /\ busAddr' = addr[c] /\ busOpt' = "BusUpdt" /\ reqLock' = c
        /\ pendingWork' \ snooped' = Core \ {c}
    BY <1>1 DEF Ask, LockHeld, TypeOK
  <2>3. ASSUME NEW d \in Core, NEW e \in Core \ {d}, NEW a \in Addr
        PROVE  /\ status'[d][a] \in Sole => status'[e][a] = "Invalid"
               /\ status'[d][a] = "ShModified" /\ status'[e][a] = "ShModified"
                    => Late(d, e, a)' \/ Late(e, d, a)'
    <3>1. CASE a = addr[c] /\ c \in {d, e}
      BY <3>1, <2>1, <2>2, <1>2 DEF Late
    <3>2. CASE ~(a = addr[c] /\ c \in {d, e})
      <4>1. /\ status'[d][a] \in {status[d][a], "Invalid"}
            /\ status'[e][a] \in {status[e][a], "Invalid"}
        BY <3>2, <1>2
      <4>. QED  BY <4>1, <1>1, NobodyLate
    <3>. QED  BY <3>1, <3>2
  <2>. QED  BY <2>3 DEF Coherence
<1>. QED  BY <1>3, <1>4

\* What the answers of all the others add up to.
LEMMA AllAnswers ==
  ASSUME BookInv, CoherenceInv, NEW c \in Core, Answered(c), NEW d \in Core \ {c}
  PROVE  /\ status[d][addr[c]] \notin Sole
         /\ Line(c) # "Invalid" => status[d][addr[c]] # "ShModified"
         /\ readEx => status[d][addr[c]] = "Invalid"
<1>1. reqLock = c /\ pendingWork = {}
  BY AnsweredMeansAll
<1>2. busAddr = addr[c] /\ (Line(c) # "Invalid" => busOpt = "BusUpdt")
  BY <1>1 DEF BookInv, Transaction
<1>. QED  BY <1>1, <1>2 DEF CoherenceInv, Answers

\* The end of a transaction, after which the owner's line is consistent with
\* all the others.
LEMMA EndCoherence ==
  ASSUME BookInv, CoherenceInv, NEW c \in Core, Answered(c), ReleaseBus, addr[c] \in Addr,
         NEW to \in {"idle", "memory", "window"}, pc' = [pc EXCEPT ![c] = to],
         to # "idle" /\ op[c] = "W" => alone'[c] = readEx,
         \A d \in Core \ {c} : alone'[d] = alone[d],
         \A a \in Addr \ {addr[c]} : status'[c][a] \in {status[c][a], "Invalid"},
         \A d \in Core \ {c} : status'[d] = status[d],
         \A d \in Core \ {c} :
           /\ status'[c][addr[c]] \in Sole => status[d][addr[c]] = "Invalid"
           /\ status'[c][addr[c]] = "ShModified" => status[d][addr[c]] # "ShModified",
         UNCHANGED <<op, addr>>
  PROVE  CoherenceInv'
<1>. USE DEF BookInv, CoherenceInv
<1>1. /\ reqLock = c /\ pendingWork = {} /\ c # NoCore /\ busAddr = addr[c]
      /\ pc[c] \in {"wait", "update"} /\ reqLock' = NoCore
  BY AnsweredMeansAll DEF ReleaseBus, LockHeld, Transaction
<1>2. Answers'
  BY <1>1, UpdateAssumption DEF Answers
<1>3. Windows'
  <2>1. ASSUME NEW w \in Core \ {c}, InWriteWindow(w)'
        PROVE  InWriteWindow(w) /\ addr[w] # addr[c] /\ addr[w] \in Addr
    BY <1>1, <2>1, UpdateAssumption DEF InWriteWindow, TypeOK, LockHeld, Windows
  <2>2. ASSUME NEW w \in Core \ {c}, InWriteWindow(w)', NEW d \in Core \ {w}
        PROVE  /\ ~(InWriteWindow(d)' /\ addr[d] = addr[w])
               /\ status'[d][addr[w]] \notin Sole
               /\ alone'[w] => status'[d][addr[w]] = "Invalid"
    <3>1. /\ ~(InWriteWindow(d) /\ addr[d] = addr[w])
          /\ status[d][addr[w]] \notin Sole
          /\ alone[w] => status[d][addr[w]] = "Invalid"
      BY <2>1, <2>2 DEF Windows
    <3>2. status'[d][addr[w]] \in {status[d][addr[w]], "Invalid"}
      BY <2>1, <2>2
    <3>. QED  BY <2>1, <2>2, <3>1, <3>2
  <2>3. ASSUME InWriteWindow(c)', NEW d \in Core \ {c}
        PROVE  /\ ~(InWriteWindow(d)' /\ addr[d] = addr[c])
               /\ status'[d][addr[c]] \notin Sole
               /\ alone'[c] => status'[d][addr[c]] = "Invalid"
    <3>1. to # "idle" /\ op[c] = "W"
      BY <2>3 DEF InWriteWindow, TypeOK
    <3>. QED  BY <2>1, <2>3, <3>1, AllAnswers
  <2>. QED  BY <2>2, <2>3, <1>1 DEF Windows
<1>4. Coherence'
  <2>1. ASSUME NEW d \in Core, NEW e \in Core \ {d}, NEW a \in Addr
        PROVE  /\ status'[d][a] \in Sole => status'[e][a] = "Invalid"
               /\ ~(status'[d][a] = "ShModified" /\ status'[e][a] = "ShModified")
    <3>1. CASE a = addr[c] /\ d = c
      BY <3>1, AllAnswers
    <3>2. CASE a = addr[c] /\ e = c
      BY <3>2, AllAnswers
    <3>3. CASE ~(a = addr[c] /\ c \in {d, e})
      <4>1. /\ status'[d][a] \in {status[d][a], "Invalid"}
            /\ status'[e][a] \in {status[e][a], "Invalid"}
        BY <3>3
      <4>. QED  BY <4>1, <1>1, NobodyLate
    <3>. QED  BY <3>1, <3>2, <3>3
  <2>. QED  BY <2>1 DEF Coherence
<1>. QED  BY <1>2, <1>3, <1>4

LEMMA UpdatedCoherence ==
  ASSUME BookInv, CoherenceInv, NEW c \in Core, Updated(c)
  PROVE  CoherenceInv'
<1>. USE DEF BookInv, CoherenceInv
<1>. DEFINE st == IF readEx THEN "Modified" ELSE "ShModified"
<1>1. /\ Answered(c) /\ ReleaseBus /\ addr[c] \in Addr /\ Line(c) # "Invalid"
      /\ pc' = [pc EXCEPT ![c] = "idle"] /\ status' = [status EXCEPT ![c][addr[c]] = st]
      /\ UNCHANGED <<op, addr, alone>>
  BY DEF Updated, LockHeld, traceVars
<1>2. st = "ShModified" \/ (st = "Modified" /\ readEx)
  OBVIOUS
<1>. HIDE DEF st
<1>3. /\ status'[c][addr[c]] = st
      /\ \A a \in Addr \ {addr[c]} : status'[c][a] = status[c][a]
      /\ \A d \in Core \ {c} : status'[d] = status[d]
  BY <1>1 DEF TypeOK
<1>4. ASSUME NEW d \in Core \ {c}
      PROVE  /\ st \in Sole => status[d][addr[c]] = "Invalid"
             /\ st = "ShModified" => status[d][addr[c]] # "ShModified"
  BY <1>1, <1>2, AllAnswers
<1>. QED  BY <1>1, <1>3, <1>4, EndCoherence

LEMMA UpdateSentCoherence ==
  ASSUME BookInv, CoherenceInv, NEW c \in Core, UpdateSent(c)
  PROVE  CoherenceInv'
<1>. USE DEF BookInv, CoherenceInv
<1>1. /\ Answered(c) /\ ReleaseBus /\ addr[c] \in Addr
      /\ pc' = [pc EXCEPT ![c] = "idle"] /\ UNCHANGED <<op, addr, alone, status>>
  BY DEF UpdateSent, LockHeld, traceVars, lineVars
<1>2. ASSUME NEW d \in Core \ {c}
      PROVE  /\ status[c][addr[c]] \in Sole => status[d][addr[c]] = "Invalid"
             /\ status[c][addr[c]] = "ShModified" => status[d][addr[c]] # "ShModified"
  BY <1>1, AnsweredMeansAll, NobodyLate
<1>. QED  BY <1>1, <1>2, EndCoherence

LEMMA ReadMissCoherence ==
  ASSUME BookInv, CoherenceInv, NEW c \in Core, ReadMiss(c)
  PROVE  CoherenceInv'
<1>. USE DEF BookInv, CoherenceInv
<1>1. /\ Answered(c) /\ ReleaseBus /\ addr[c] \in Addr /\ op[c] = "R"
      /\ InsertLine(c, addr[c], FillStatus)
      /\ UNCHANGED <<op, addr, alone>>
  BY DEF ReadMiss, GoOn, LockHeld, traceVars
<1>2. PICK to \in {"idle", "memory"} : pc' = [pc EXCEPT ![c] = to]
  BY DEF ReadMiss, GoOn
<1>3. FillStatus = "ShClean" \/ (FillStatus = "Exclusive" /\ readEx)
  BY DEF FillStatus
<1>4. /\ status'[c][addr[c]] = FillStatus
      /\ \A a \in Addr \ {addr[c]} : status'[c][a] \in {status[c][a], "Invalid"}
      /\ \A d \in Core \ {c} : status'[d] = status[d]
  BY <1>1, <1>3, InsertFacts DEF LineState
<1>5. ASSUME NEW d \in Core \ {c}
      PROVE  /\ FillStatus \in Sole => status[d][addr[c]] = "Invalid"
             /\ FillStatus # "ShModified"
  BY <1>1, <1>3, AllAnswers
<1>. QED  BY <1>1, <1>2, <1>4, <1>5, EndCoherence

LEMMA WriteMissCoherence ==
  ASSUME BookInv, CoherenceInv, NEW c \in Core, WriteMiss(c)
  PROVE  CoherenceInv'
<1>. USE DEF BookInv, CoherenceInv
<1>1. /\ Answered(c) /\ ReleaseBus /\ addr[c] \in Addr /\ Line(c) = "Invalid"
      /\ alone' = [alone EXCEPT ![c] = readEx]
      /\ UNCHANGED <<op, addr, status>>
  BY DEF WriteMiss, GoOn, LockHeld, traceVars
<1>2. PICK to \in {"window", "memory"} : pc' = [pc EXCEPT ![c] = to]
  BY DEF WriteMiss, GoOn
<1>3. status'[c][addr[c]] = "Invalid" /\ alone'[c] = readEx
      /\ \A d \in Core \ {c} : alone'[d] = alone[d]
  BY <1>1 DEF Line, TypeOK
<1>. QED  BY <1>1, <1>2, <1>3, EndCoherence

LEMMA FetchedCoherence ==
  ASSUME BookInv, CoherenceInv, NEW c \in Core, Fetched(c)
  PROVE  CoherenceInv'
<1>. USE DEF BookInv, CoherenceInv
<1>1. /\ UNCHANGED <<op, addr, alone, status>>
      /\ UNCHANGED <<reqLock, busAddr, busOpt, readEx, pendingWork, snooped>>
  BY DEF Fetched, traceVars, busVars
<1>2. \A d \in Core : InWriteWindow(d)' <=> InWriteWindow(d)
  BY <1>1 DEF Fetched, InWriteWindow, TypeOK
<1>. QED  BY <1>1, <1>2 DEF Answers, Windows, Coherence, Late

LEMMA InsertAloneCoherence ==
  ASSUME BookInv, CoherenceInv, NEW c \in Core, InsertAlone(c)
  PROVE  CoherenceInv'
<1>. USE DEF BookInv, CoherenceInv
<1>1. /\ pc[c] = "window" /\ addr[c] \in Addr /\ alone[c]
      /\ InsertLine(c, addr[c], "Modified") /\ pc' = [pc EXCEPT ![c] = "idle"]
      /\ UNCHANGED <<op, addr, alone>>
      /\ UNCHANGED <<reqLock, busAddr, busOpt, readEx, pendingWork, snooped>>
  BY DEF InsertAlone, LockHeld, traceVars, busVars
<1>2. /\ status'[c][addr[c]] = "Modified"
      /\ \A a \in Addr \ {addr[c]} : status'[c][a] \in {status[c][a], "Invalid"}
      /\ \A d \in Core \ {c} : status'[d] = status[d]
  BY <1>1, InsertFacts DEF LineState
<1>3. InWriteWindow(c)
  BY <1>1 DEF InWriteWindow, OwnLines
<1>4. /\ reqLock # NoCore => busAddr # addr[c]
      /\ \A d \in Core \ {c} : /\ ~(InWriteWindow(d) /\ addr[d] = addr[c])
                              /\ status[d][addr[c]] = "Invalid"
  BY <1>1, <1>3 DEF Windows
<1>5. ASSUME NEW d \in Core, NEW a \in Addr, a # addr[c] \/ d # c
      PROVE  status'[d][a] \in {status[d][a], "Invalid"}
  BY <1>2, <1>5
<1>6. Answers'
  <2>1. ASSUME NEW x \in Core, reqLock = x, NEW d \in Core \ {x}
        PROVE  status'[d][busAddr] \in {status[d][busAddr], "Invalid"}
    <3>1. busAddr \in Addr /\ busAddr # addr[c]
      BY <2>1, <1>4, UpdateAssumption DEF LockHeld, Transaction
    <3>. QED  BY <3>1, <1>5
  <2>. QED  BY <2>1, <1>1 DEF Answers
<1>7. Windows'
  <2>1. ASSUME NEW w \in Core, InWriteWindow(w)'
        PROVE  InWriteWindow(w) /\ w # c /\ addr[w] # addr[c] /\ addr[w] \in Addr
    BY <2>1, <1>1, <1>4 DEF InWriteWindow, TypeOK, LockHeld
  <2>2. ASSUME NEW w \in Core, InWriteWindow(w)', NEW d \in Core \ {w}
        PROVE  /\ ~(InWriteWindow(d)' /\ addr[d] = addr[w])
               /\ status'[d][addr[w]] \notin Sole
               /\ alone[w] => status'[d][addr[w]] = "Invalid"
    <3>1. /\ ~(InWriteWindow(d) /\ addr[d] = addr[w])
          /\ status[d][addr[w]] \notin Sole
          /\ alone[w] => status[d][addr[w]] = "Invalid"
      BY <2>1, <2>2 DEF Windows
    <3>2. status'[d][addr[w]] \in {status[d][addr[w]], "Invalid"}
      BY <2>1, <2>2, <1>5
    <3>. QED  BY <2>1, <2>2, <3>1, <3>2
  <2>3. ASSUME NEW w \in Core, InWriteWindow(w)', reqLock # NoCore
        PROVE  busAddr # addr[w]
    BY <2>1, <2>3 DEF Windows
  <2>. QED  BY <2>2, <2>3, <1>1 DEF Windows
<1>8. Coherence'
  <2>1. ASSUME NEW d \in Core, NEW e \in Core \ {d}, NEW a \in Addr
        PROVE  /\ status'[d][a] \in Sole => status'[e][a] = "Invalid"
               /\ status'[d][a] = "ShModified" /\ status'[e][a] = "ShModified"
                    => Late(d, e, a)' \/ Late(e, d, a)'
    <3>1. CASE a = addr[c] /\ c \in {d, e}
      BY <3>1, <1>2, <1>4
    <3>2. CASE ~(a = addr[c] /\ c \in {d, e})
      <4>1. /\ status'[d][a] \in {status[d][a], "Invalid"}
            /\ status'[e][a] \in {status[e][a], "Invalid"}
        BY <3>2, <1>5
      <4>2. (Late(d, e, a)' <=> Late(d, e, a)) /\ (Late(e, d, a)' <=> Late(e, d, a))
        BY <1>1 DEF Late
      <4>. QED  BY <4>1, <4>2 DEF Coherence
    <3>. QED  BY <3>1, <3>2
  <2>. QED  BY <2>1 DEF Coherence
<1>. QED  BY <1>6, <1>7, <1>8

LEMMA SnoopCoherence ==
  ASSUME BookInv, CoherenceInv, NEW c \in Core, Snoop(c)
  PROVE  CoherenceInv'
<1>. USE DEF BookInv, CoherenceInv
<1>1. PICK x \in Core \ {c}, new \in LineState \ Sole :
        /\ reqLock = x /\ busAddr = addr[x] /\ busAddr \in Addr
        /\ status' = [status EXCEPT ![c][busAddr] = new]
        /\ status[c][busAddr] = "Invalid" => new = "Invalid"
        /\ new = "ShModified" =>
             busOpt = "BusRd" /\ status[c][busAddr] \in {"Modified", "ShModified"}
        /\ readEx' => readEx /\ new = "Invalid"
  BY SnoopFacts
<1>2. /\ c \in pendingWork /\ snooped' = snooped \cup {c}
      /\ UNCHANGED <<op, addr, pc, alone, reqLock, busAddr, busOpt, pendingWork>>
  BY DEF Snoop, traceVars
<1>3. /\ status'[c][busAddr] = new
      /\ \A d \in Core, a \in Addr : d # c \/ a # busAddr => status'[d][a] = status[d][a]
  BY <1>1 DEF TypeOK
<1>4. Answers'
  <2>1. ASSUME NEW d \in Core \ {x}, d \notin pendingWork \ snooped'
        PROVE  /\ status'[d][busAddr] \notin Sole
               /\ busOpt = "BusUpdt" => status'[d][busAddr] # "ShModified"
               /\ readEx' => status'[d][busAddr] = "Invalid"
    <3>1. CASE d = c
      BY <3>1, <1>1, <1>3
    <3>2. CASE d # c
      <4>1. d \notin pendingWork \ snooped /\ status'[d][busAddr] = status[d][busAddr]
        BY <2>1, <3>2, <1>1, <1>2, <1>3
      <4>. QED  BY <4>1, <1>1 DEF Answers
    <3>. QED  BY <3>1, <3>2
  <2>. QED  BY <2>1, <1>1, <1>2 DEF Answers
<1>5. Windows'
  <2>1. ASSUME NEW w \in Core, InWriteWindow(w)
        PROVE  busAddr # addr[w] /\ \A d \in Core : status'[d][addr[w]] = status[d][addr[w]]
    <3>1. addr[w] \in Addr /\ busAddr # addr[w]
      BY <2>1, <1>1, UpdateAssumption DEF InWriteWindow, LockHeld, Windows
    <3>. QED  BY <3>1, <1>3
  <2>2. \A w \in Core : InWriteWindow(w)' <=> InWriteWindow(w)
    BY <1>2 DEF InWriteWindow
  <2>. QED  BY <2>1, <2>2, <1>2 DEF Windows
<1>6. Coherence'
  <2>1. ASSUME NEW d \in Core \ {c}
        PROVE  /\ status[d][busAddr] \in Sole => new = "Invalid"
               /\ ~(new = "ShModified" /\ status[d][busAddr] = "ShModified")
    BY <1>1 DEF Coherence, Late
  <2>2. ASSUME NEW d \in Core, NEW e \in Core \ {d}, NEW a \in Addr
        PROVE  /\ status'[d][a] \in Sole => status'[e][a] = "Invalid"
               /\ status'[d][a] = "ShModified" /\ status'[e][a] = "ShModified"
                    => Late(d, e, a)' \/ Late(e, d, a)'
    <3>1. CASE a = busAddr /\ c \in {d, e}
      BY <3>1, <2>1, <1>1, <1>3
    <3>2. CASE a = busAddr /\ c \notin {d, e}
      <4>1. /\ status'[d][a] = status[d][a] /\ status'[e][a] = status[e][a]
            /\ (Late(d, e, a)' <=> Late(d, e, a)) /\ (Late(e, d, a)' <=> Late(e, d, a))
        BY <3>2, <1>2, <1>3 DEF Late
      <4>. QED  BY <4>1 DEF Coherence
    <3>3. CASE a # busAddr
      <4>1. status'[d][a] = status[d][a] /\ status'[e][a] = status[e][a]
        BY <3>3, <1>3
      <4>. QED  BY <4>1, <3>3 DEF Coherence, Late
    <3>. QED  BY <3>1, <3>2, <3>3
  <2>. QED  BY <2>2 DEF Coherence
<1>. QED  BY <1>4, <1>5, <1>6

LEMMA ReplyCoherence ==
  ASSUME BookInv, CoherenceInv, NEW c \in Core, Reply(c)
  PROVE  CoherenceInv'
<1>. USE DEF BookInv, CoherenceInv
<1>1. /\ c \in snooped /\ snooped' = snooped \ {c} /\ pendingWork' = pendingWork \ {c}
      /\ UNCHANGED <<op, addr, pc, alone, status, reqLock, busAddr, busOpt, readEx>>
  BY DEF Reply, traceVars, lineVars
<1>2. pendingWork' \ snooped' = pendingWork \ snooped
  BY <1>1
<1>3. Answers'
  BY <1>1, <1>2 DEF Answers
<1>4. Windows'
  BY <1>1 DEF Windows, InWriteWindow
<1>5. Coherence'
  BY <1>1, <1>2 DEF Coherence, Late
<1>. QED  BY <1>3, <1>4, <1>5

-----------------------------------------------------------------------------
(* The theorems.                                                           *)

\* The invariant holds in every behaviour; its second half as long as raced
\* does not.
THEOREM Invariance == Spec => []IInv
<1>1. ASSUME IInv, [Next]_vars PROVE IInv'
  <2>1. CASE UNCHANGED vars
    BY <1>1, <2>1 DEF vars, traceVars, lineVars, busVars, IInv, BookInv, TypeOK, LockHeld,
       Transaction, OwnLines, CountersStayPositive, CoherenceInv, Answers, Windows, Coherence,
       InWriteWindow, MayIssue, Line, Late
  <2>2. ASSUME NEW c \in Core, Accept(c) \/ Work(c) PROVE IInv'
    <3>1. BookInv'
      BY <1>1, <2>2, AcceptBook, LookupBook, RequestBook, UpdatedBook, ReadMissBook,
         WriteMissBook, FetchedBook, InsertAloneBook, InsertSharedBook, UpdateSentBook,
         SnoopBook, ReplyBook DEF IInv, Work
    <3>2. ~raced' => ~raced
      BY <1>1, <2>2 DEF IInv, BookInv, TypeOK, Accept, Work, Lookup, Request, Updated,
         ReadMiss, WriteMiss, Fetched, InsertAlone, InsertShared, UpdateSent, Snoop, Reply
    <3>3. ~raced' => CoherenceInv'
      BY <1>1, <2>2, <3>2, AcceptCoherence, LookupCoherence, RequestCoherence,
         UpdatedCoherence, ReadMissCoherence, WriteMissCoherence, FetchedCoherence,
         InsertAloneCoherence, InsertSharedCoherence, UpdateSentCoherence, SnoopCoherence,
         ReplyCoherence DEF IInv, Work
    <3>. QED  BY <3>1, <3>3 DEF IInv
  <2>. QED  BY <1>1, <2>1, <2>2 DEF Next, AssertFails, Terminated
<1>. QED  BY <1>1, InitInv, PTL DEF Spec

\* Every field keeps its type; in particular resp_count never passes the
\* number of cores that were asked.
THEOREM TypeCorrect == Spec => []TypeOK
<1>1. IInv => TypeOK
  BY DEF IInv, BookInv
<1>. QED  BY <1>1, Invariance, PTL

\* assert(c.counter) of cache_decr_counter never fails, races or not.
THEOREM CountersPositive == Spec => []CountersStayPositive
<1>1. IInv => CountersStayPositive
  BY DEF IInv, BookInv
<1>. QED  BY <1>1, Invariance, PTL

\* As long as no line is asked for within another core's write window, a
\* Modified or Exclusive line is the only one, and two caches hold a line
\* ShModified only while an update of it is under way to one of them.
THEOREM CoherenceUnlessRaced == Spec => []CoherentUnlessRaced
<1>1. ASSUME IInv PROVE CoherentUnlessRaced
  BY <1>1 DEF IInv, CoherenceInv, Coherence, Late, CoherentUnlessRaced
<1>. QED  BY <1>1, Invariance, PTL

\* Under the same condition no assert of handle_request or response_worker
\* fails.
THEOREM NoAssertFailsUnlessRaced == Spec => []AssertionsHoldUnlessRaced
<1>1. ASSUME IInv PROVE AssertionsHoldUnlessRaced
  <2>1. \A c \in Core : pc[c] = "bus" => MayIssue(c)
    BY <1>1 DEF IInv, BookInv, OwnLines
  <2>2. ASSUME ~raced, NEW c \in pendingWork \ snooped, status[c][busAddr] \in Sole
        PROVE  busOpt = "BusRd"
    <3>1. PICK x \in Core : reqLock = x
      BY <1>1 DEF IInv, BookInv, LockHeld, TypeOK
    <3>2. /\ c \in Core \ {x} /\ busAddr = addr[x] /\ busAddr \in Addr
          /\ busOpt = (IF Line(x) = "Invalid" THEN "BusRd" ELSE "BusUpdt")
      BY <1>1, <3>1 DEF IInv, BookInv, LockHeld, Transaction, TypeOK
    <3>3. status[x][busAddr] = "Invalid"
      BY <1>1, <2>2, <3>2 DEF IInv, CoherenceInv, Coherence
    <3>. QED  BY <3>2, <3>3 DEF Line
  <2>. QED  BY <2>1, <2>2 DEF AssertionsHoldUnlessRaced, SnoopAsserts
<1>. QED  BY <1>1, Invariance, PTL
=============================================================================
