------------------------------ MODULE BusProofs ------------------------------
(***************************************************************************)
(* The handshake on the bus, for any number of cores and of requests: no   *)
(* wakeup is lost, a transaction ends when everybody has snooped it, and   *)
(* the locks and condition variables implement BusService.                 *)
(***************************************************************************)
EXTENDS Bus, FiniteSetTheorems, TLAPS

-----------------------------------------------------------------------------
(* The inductive invariant.                                                *)

\* The request thread of c is between its post and the end of its wait.
Waits(c) == pc[c] \in {"asleep", "woken", "end"}

\* Each mutex is held by the thread that its value names.
Locks ==
  \A c \in Core :
    /\ pc[c] \in {"obj", "post"} \/ Waits(c) <=> reqLock = c
    /\ objLock[c] = "request" <=> pc[c] \in {"lookup", "post"} \/ Waits(c)
    /\ objLock[c] = "response" <=> rpc[c] = "snooping"

\* There is work only in a transaction.  The answers counted and the cores
\* still to answer make up all cores but the requester, and those that are
\* done have snooped this operation.
Transaction ==
  /\ pendingWork # {} => \E x \in Core : Waits(x)
  /\ \A x \in Core : Waits(x) =>
       /\ x \notin pendingWork
       /\ respCount + Cardinality(pendingWork) = Cardinality(Core) - 1
       /\ \A c \in Core \ {x} : c \in pendingWork \/ seen[c] = serial
       /\ pc[x] = "end" => AllIn(respCount)

\* A response thread that has left its wait has work to do.
Busy == \A c \in Core : rpc[c] \in {"obj", "snooping", "reply"} => c \in pendingWork

\* The accesses that have been counted and not posted yet.
Entering == {c \in Core : pc[c] \in {"lookup", "request", "obj", "post"}}

Accounted == serial + Cardinality(Entering) <= requests

IInv ==
  /\ TypeOK /\ Locks /\ Transaction /\ Busy /\ Accounted
  /\ NoLostWakeup /\ SnoopsOneTransaction

-----------------------------------------------------------------------------
(* Counting.                                                               *)

LEMMA Finite ==
  ASSUME NEW S \in SUBSET Core
  PROVE  IsFiniteSet(S) /\ Cardinality(S) \in Nat
BY BusAssumption, FS_Subset, FS_CardinalityType

LEMMA CoresButOne ==
  ASSUME NEW c \in Core
  PROVE  Cardinality(Core \ {c}) = Cardinality(Core) - 1
BY BusAssumption, FS_RemoveElement

LEMMA EmptyMeansZero ==
  ASSUME NEW S \in SUBSET Core
  PROVE  Cardinality(S) = 0 <=> S = {}
BY Finite, FS_EmptySet

\* An access that has been posted is not counted as entering any more.
LEMMA EnteringFalls ==
  ASSUME NEW c \in Entering, Entering' = Entering \ {c}
  PROVE  Cardinality(Entering') = Cardinality(Entering) - 1
BY Finite, FS_RemoveElement DEF Entering

LEMMA EnteringRises ==
  ASSUME NEW c \in Core \ Entering, Entering' = Entering \cup {c}
  PROVE  Cardinality(Entering') = Cardinality(Entering) + 1
<1>1. IsFiniteSet(Entering)
  BY Finite DEF Entering
<1>. QED  BY <1>1, FS_AddElement

-----------------------------------------------------------------------------
(* The steps of a request thread.                                          *)

\* The steps before the post: they leave the transaction of another alone.
LEMMA BeforePost ==
  ASSUME IInv, NEW c \in Core,
         BeginLookup(c) \/ EndLookup(c) \/ TakeReqLock(c) \/ TakeObjLock(c)
  PROVE  IInv'
<1>. USE DEF IInv
<1>0. IsFiniteSet(Core) /\ NoCore \notin Core /\ MaxRequests \in Nat
  BY BusAssumption
<1>1. \A x \in Core : Waits(x)' <=> Waits(x)
  BY DEF BeginLookup, EndLookup, TakeReqLock, TakeObjLock, Waits, TypeOK
<1>2. \A x \in Core : pc'[x] \in {"end", "asleep"} => pc'[x] = pc[x]
  BY DEF BeginLookup, EndLookup, TakeReqLock, TakeObjLock, TypeOK
<1>3. UNCHANGED <<rpc, serial, respCount, pendingWork, seen>>
  BY DEF BeginLookup, EndLookup, TakeReqLock, TakeObjLock
<1>4. TypeOK'
  BY <1>0 DEF BeginLookup, EndLookup, TakeReqLock, TakeObjLock, TypeOK, Lock, Unlock, AfterMiss, TakesBus
<1>5. Locks'
  <2>1. CASE BeginLookup(c)
    BY <2>1, <1>0 DEF BeginLookup, Lock, Locks, TypeOK, Waits
  <2>2. CASE EndLookup(c)
    BY <2>2, <1>0 DEF EndLookup, Unlock, AfterMiss, Locks, TypeOK, Waits
  <2>3. CASE TakeReqLock(c)
    BY <2>3, <1>0 DEF TakeReqLock, TakesBus, Locks, TypeOK, Waits
  <2>4. CASE TakeObjLock(c)
    BY <2>4, <1>0 DEF TakeObjLock, Lock, Locks, TypeOK, Waits
  <2>. QED  BY <2>1, <2>2, <2>3, <2>4
<1>6. Transaction'
  BY <1>1, <1>2, <1>3 DEF Transaction, AllIn
<1>7. Busy' /\ NoLostWakeup' /\ SnoopsOneTransaction'
  BY <1>2, <1>3 DEF Busy, NoLostWakeup, SnoopsOneTransaction, AllIn
<1>8. Accounted'
  <2>. Cardinality(Entering) \in Nat /\ serial \in Int /\ requests \in Int
    BY Finite DEF Entering, TypeOK
  <2>1. CASE BeginLookup(c)
    <3>1. c \notin Entering /\ Entering' = Entering \cup {c} /\ requests' = requests + 1
      BY <2>1 DEF BeginLookup, Entering, TypeOK
    <3>2. Cardinality(Entering') = Cardinality(Entering) + 1
      BY <3>1, EnteringRises
    <3>. QED  BY <3>1, <3>2, <1>3 DEF Accounted
  <2>2. CASE EndLookup(c)
    <3>1. requests' = requests /\ c \in Entering
      BY <2>2 DEF EndLookup, Entering
    <3>2. Entering' = Entering \/ Entering' = Entering \ {c}
      BY <2>2 DEF EndLookup, Entering, TypeOK
    <3>. QED  BY <3>1, <3>2, <1>3, EnteringFalls DEF Accounted
  <2>3. CASE TakeReqLock(c) \/ TakeObjLock(c)
    <3>1. Entering' = Entering /\ requests' = requests
      BY <2>3 DEF TakeReqLock, TakeObjLock, Entering, TypeOK
    <3>. QED  BY <3>1, <1>3 DEF Accounted
  <2>. QED  BY <2>1, <2>2, <2>3
<1>. QED  BY <1>4, <1>5, <1>6, <1>7, <1>8

\* The post: nothing of the last transaction is left, and all cores but c
\* get work.
LEMMA PostStep ==
  ASSUME IInv, NEW c \in Core, Post(c)
  PROVE  IInv'
<1>. USE DEF IInv
<1>0. IsFiniteSet(Core) /\ NoCore \notin Core /\ MaxRequests \in Nat
  BY BusAssumption
<1>1. pc[c] = "post" /\ reqLock = c /\ \A x \in Core : ~Waits(x)
  BY <1>0 DEF Post, Locks, Waits
<1>2. pendingWork = {} /\ pendingWork' = Core \ {c}
  BY <1>1 DEF Post, Transaction
<1>3. /\ respCount' = 0 /\ serial' = serial + 1
      /\ UNCHANGED <<requests, reqLock, objLock, seen>>
      /\ pc' = [pc EXCEPT ![c] = IF AllIn(0) THEN "end" ELSE "asleep"]
      /\ rpc' = [d \in Core |-> IF rpc[d] = "asleep" THEN "woken" ELSE rpc[d]]
  BY DEF Post, CountReset
<1>4. \A x \in Core : Waits(x)' <=> x = c
  BY <1>1, <1>3 DEF Waits, TypeOK
<1>5. Cardinality(Core) - 1 \in Nat /\ Cardinality(Core \ {c}) = Cardinality(Core) - 1
  BY CoresButOne, Finite
<1>6. Accounted'
  <2>1. c \in Entering /\ Entering' = Entering \ {c}
    BY <1>1, <1>3 DEF Entering, TypeOK
  <2>2. Cardinality(Entering') = Cardinality(Entering) - 1
    BY <2>1, EnteringFalls
  <2>3. Cardinality(Entering) \in Nat
    BY Finite DEF Entering
  <2>. QED  BY <1>3, <2>2, <2>3 DEF Accounted, TypeOK
<1>7. TypeOK'
  <2>1. Cardinality(Entering)' \in Nat
    BY Finite, <1>3 DEF Entering
  <2>2. serial' <= MaxRequests
    BY <1>0, <1>6, <1>3, <2>1 DEF Accounted, TypeOK
  <2>. QED  BY <1>0, <1>2, <1>3, <1>5, <2>2 DEF TypeOK
<1>8. Locks'
  BY <1>1, <1>3 DEF Locks, TypeOK, Waits
<1>9. Transaction'
  BY <1>2, <1>3, <1>4, <1>5 DEF Transaction, AllIn, TypeOK
<1>10. Busy' /\ SnoopsOneTransaction'
  BY <1>2, <1>3 DEF Busy, SnoopsOneTransaction
<1>11. NoLostWakeup'
  BY <1>1, <1>3 DEF NoLostWakeup, TypeOK, AllIn, Waits
<1>. QED  BY <1>6, <1>7, <1>8, <1>9, <1>10, <1>11

LEMMA RecheckStep ==
  ASSUME IInv, NEW c \in Core, Recheck(c)
  PROVE  IInv'
<1>. USE DEF IInv
<1>1. /\ pc[c] = "woken"
      /\ pc' = [pc EXCEPT ![c] = IF AllIn(respCount) THEN "end" ELSE "asleep"]
      /\ UNCHANGED <<requests, rpc, reqLock, objLock, serial, respCount, pendingWork, seen>>
  BY DEF Recheck
<1>2. \A x \in Core : Waits(x)' <=> Waits(x)
  BY <1>1 DEF Waits, TypeOK
<1>3. TypeOK' /\ Locks'
  BY <1>1, <1>2 DEF TypeOK, Locks, Waits
<1>4. Transaction'
  BY <1>1, <1>2 DEF Transaction, AllIn, TypeOK
<1>5. Busy' /\ SnoopsOneTransaction' /\ NoLostWakeup'
  BY <1>1 DEF Busy, SnoopsOneTransaction, NoLostWakeup, AllIn, TypeOK
<1>6. Entering' = Entering
  BY <1>1 DEF Entering, TypeOK
<1>7. Accounted'
  BY <1>1, <1>6 DEF Accounted
<1>. QED  BY <1>3, <1>4, <1>5, <1>7

\* When a requester goes on, nobody has work left.
LEMMA EndMeansNoWork ==
  ASSUME IInv, NEW x \in Core, pc[x] = "end"
  PROVE  pendingWork = {}
<1>1. respCount = Cardinality(Core) - 1 /\ respCount + Cardinality(pendingWork) = respCount
  BY DEF IInv, Transaction, Waits, AllIn
<1>2. Cardinality(pendingWork) \in Nat /\ respCount \in Int
  BY <1>1, Finite DEF IInv, TypeOK
<1>3. Cardinality(pendingWork) = 0
  BY <1>1, <1>2
<1>. QED  BY <1>3, EmptyMeansZero DEF IInv, TypeOK

LEMMA EndStep ==
  ASSUME IInv, NEW c \in Core, EndTransaction(c)
  PROVE  IInv'
<1>. USE DEF IInv
<1>0. IsFiniteSet(Core) /\ NoCore \notin Core /\ MaxRequests \in Nat
  BY BusAssumption
<1>1. /\ pc[c] = "end" /\ reqLock = c /\ reqLock' = NoCore
      /\ objLock' = [objLock EXCEPT ![c] = "free"]
      /\ UNCHANGED <<rpc, serial, respCount, pendingWork, seen>>
      /\ \/ pc' = [pc EXCEPT ![c] = "idle"] /\ UNCHANGED requests
         \/ /\ pc' = [pc EXCEPT ![c] = "request"]
            /\ requests < MaxRequests /\ requests' = requests + 1
  BY DEF EndTransaction, Unlock, Locks, Waits
<1>2. pendingWork = {}
  BY <1>1, EndMeansNoWork
<1>3. \A x \in Core : ~Waits(x)'
  BY <1>0, <1>1 DEF Waits, Locks, TypeOK
<1>4. TypeOK'
  BY <1>0, <1>1 DEF TypeOK
<1>5. Locks'
  BY <1>0, <1>1 DEF Locks, TypeOK, Waits
<1>6. Transaction'
  BY <1>1, <1>2, <1>3 DEF Transaction
<1>7. Busy' /\ SnoopsOneTransaction' /\ NoLostWakeup'
  BY <1>1 DEF Busy, SnoopsOneTransaction, NoLostWakeup, AllIn, TypeOK
<1>8. Accounted'
  <2>. Cardinality(Entering) \in Nat /\ serial \in Int /\ requests \in Int
    BY Finite DEF Entering, TypeOK
  <2>1. CASE pc' = [pc EXCEPT ![c] = "idle"] /\ UNCHANGED requests
    <3>1. Entering' = Entering
      BY <2>1, <1>1 DEF Entering, TypeOK
    <3>. QED  BY <2>1, <3>1, <1>1 DEF Accounted
  <2>2. CASE pc' = [pc EXCEPT ![c] = "request"] /\ requests' = requests + 1
    <3>1. c \notin Entering /\ Entering' = Entering \cup {c}
      BY <2>2, <1>1 DEF Entering, TypeOK
    <3>2. Cardinality(Entering') = Cardinality(Entering) + 1
      BY <3>1, EnteringRises
    <3>. QED  BY <2>2, <3>2, <1>1 DEF Accounted
  <2>. QED  BY <2>1, <2>2, <1>1
<1>. QED  BY <1>4, <1>5, <1>6, <1>7, <1>8

-----------------------------------------------------------------------------
(* The steps of a response thread.                                         *)

\* The steps that count no answer.
LEMMA ResponseStep ==
  ASSUME IInv, NEW c \in Core, EnterLoop(c) \/ BeginSnoop(c) \/ EndSnoop(c)
  PROVE  IInv'
<1>. USE DEF IInv
<1>1. UNCHANGED <<reqVars, serial, respCount, pendingWork>>
  BY DEF EnterLoop, BeginSnoop, EndSnoop
<1>2. \A x \in Core : seen'[x] \in {seen[x], serial}
  BY DEF EnterLoop, BeginSnoop, EndSnoop, TypeOK
<1>3. TypeOK'
  BY DEF EnterLoop, LoopHead, BeginSnoop, EndSnoop, TypeOK, reqVars, Lock, Unlock
<1>4. Locks'
  <2>1. CASE EnterLoop(c)
    BY <2>1 DEF EnterLoop, LoopHead, Locks, TypeOK, Waits, reqVars
  <2>2. CASE BeginSnoop(c)
    BY <2>2 DEF BeginSnoop, Lock, Locks, TypeOK, Waits, reqVars
  <2>3. CASE EndSnoop(c)
    BY <2>3 DEF EndSnoop, Unlock, Locks, TypeOK, Waits, reqVars
  <2>. QED  BY <2>1, <2>2, <2>3
<1>5. Transaction'
  BY <1>1, <1>2 DEF Transaction, Waits, AllIn, reqVars
<1>6. Busy' /\ SnoopsOneTransaction' /\ NoLostWakeup'
  BY <1>1 DEF EnterLoop, LoopHead, BeginSnoop, EndSnoop, Busy, SnoopsOneTransaction,
     NoLostWakeup, AllIn, TypeOK, reqVars
<1>7. Accounted'
  BY <1>1 DEF Accounted, Entering, reqVars
<1>. QED  BY <1>3, <1>4, <1>5, <1>6, <1>7

\* An answer is counted; the last one wakes the requester.
LEMMA ReplyStep ==
  ASSUME IInv, NEW c \in Core, Reply(c)
  PROVE  IInv'
<1>. USE DEF IInv
<1>1. /\ rpc[c] = "reply" /\ c \in pendingWork /\ seen[c] = serial
      /\ pendingWork' = pendingWork \ {c} /\ respCount' = respCount + 1
      /\ rpc' = [rpc EXCEPT ![c] = "asleep"]
      /\ UNCHANGED <<requests, reqLock, objLock, serial, seen>>
  BY DEF Reply, Taken, LoopHead, Busy, SnoopsOneTransaction
<1>2. PICK x \in Core : Waits(x) /\ \A d \in Core : Waits(d) <=> d = x
  BY <1>1 DEF Transaction, Locks, Waits
<1>3. /\ respCount + Cardinality(pendingWork) = Cardinality(Core) - 1
      /\ Cardinality(pendingWork') = Cardinality(pendingWork) - 1
      /\ Cardinality(pendingWork) \in Nat /\ Cardinality(pendingWork') \in Nat
      /\ Cardinality(Core) \in Nat
  <2>1. /\ IsFiniteSet(pendingWork) /\ pendingWork' \in SUBSET Core
        /\ Cardinality(pendingWork) \in Nat /\ Cardinality(Core) \in Nat
    BY <1>1, Finite DEF TypeOK
  <2>. QED  BY <2>1, <1>1, <1>2, Finite, FS_RemoveElement DEF Transaction
<1>4. pc[x] # "end"
  BY <1>1, <1>2, EndMeansNoWork
<1>5. /\ pc'[x] \in {"asleep", "woken"} /\ pc' \in [Core -> {"idle", "lookup", "request",
                                  "obj", "post", "asleep", "woken", "end"}]
      /\ \A d \in Core \ {x} : pc'[d] = pc[d]
      /\ pc'[x] = "asleep" => ~AllIn(respCount + 1)
  BY <1>2, <1>4 DEF Reply, Sleepers, Signals, Waits, TypeOK
<1>6. \A d \in Core : Waits(d)' <=> Waits(d)
  BY <1>2, <1>5 DEF Waits
<1>7. TypeOK'
  <2>1. respCount' \in 0 .. Cardinality(Core) - 1
    BY <1>1, <1>3 DEF TypeOK
  <2>. QED  BY <1>1, <1>5, <2>1 DEF TypeOK
<1>8. Locks'
  BY <1>1, <1>2, <1>5, <1>6 DEF Locks, Waits, TypeOK
<1>9. Transaction'
  <2>1. x \notin pendingWork' /\ respCount' + Cardinality(pendingWork') = Cardinality(Core) - 1
    BY <1>1, <1>2, <1>3 DEF Transaction, TypeOK
  <2>2. \A d \in Core \ {x} : d \in pendingWork' \/ seen'[d] = serial'
    BY <1>1, <1>2 DEF Transaction
  <2>. QED  BY <1>2, <1>5, <1>6, <2>1, <2>2 DEF Transaction
<1>10. Busy' /\ SnoopsOneTransaction'
  BY <1>1 DEF Busy, SnoopsOneTransaction, TypeOK
<1>11. NoLostWakeup'
  BY <1>1, <1>2, <1>5 DEF NoLostWakeup, AllIn, Waits, TypeOK
<1>12. Accounted'
  <2>1. Entering' = Entering
    BY <1>2, <1>5 DEF Entering, Waits
  <2>. QED  BY <1>1, <2>1 DEF Accounted
<1>. QED  BY <1>7, <1>8, <1>9, <1>10, <1>11, <1>12

LEMMA SpuriousStep ==
  ASSUME IInv, NEW c \in Core, WakeSpuriously(c)
  PROVE  IInv'
<1>. USE DEF IInv
<1>1. /\ UNCHANGED <<requests, reqLock, objLock, serial, respCount, pendingWork, seen>>
      /\ \/ pc[c] = "asleep" /\ pc' = [pc EXCEPT ![c] = "woken"] /\ UNCHANGED rpc
         \/ rpc[c] = "asleep" /\ rpc' = [rpc EXCEPT ![c] = "woken"] /\ UNCHANGED pc
  BY DEF WakeSpuriously
<1>2. \A x \in Core : Waits(x)' <=> Waits(x)
  BY <1>1 DEF Waits, TypeOK
<1>3. TypeOK' /\ Locks'
  BY <1>1, <1>2 DEF TypeOK, Locks, Waits
<1>4. Transaction'
  BY <1>1, <1>2 DEF Transaction, AllIn, TypeOK
<1>5. Busy' /\ SnoopsOneTransaction' /\ NoLostWakeup'
  BY <1>1 DEF Busy, SnoopsOneTransaction, NoLostWakeup, AllIn, TypeOK
<1>6. Entering' = Entering
  BY <1>1 DEF Entering, TypeOK
<1>7. Accounted'
  BY <1>1, <1>6 DEF Accounted
<1>. QED  BY <1>3, <1>4, <1>5, <1>7

-----------------------------------------------------------------------------
(* The theorems.                                                           *)

\* The inductive invariant holds in every reachable state of the handshake.
THEOREM Invariance == Spec => []IInv
<1>1. Init => IInv
  <2>. SUFFICES ASSUME Init PROVE IInv
    OBVIOUS
  <2>1. TypeOK
    <3>1. Cardinality(Core) - 1 \in Nat \/ Core = {}
      BY Finite, EmptyMeansZero
    <3>. QED  BY <3>1, BusAssumption DEF Init, TypeOK
  <2>2. Entering = {} /\ Cardinality(Entering) = 0
    BY EmptyMeansZero DEF Init, Entering
  <2>. QED  BY <2>1, <2>2, BusAssumption DEF Init, IInv, Locks, Transaction, Busy, Waits,
               Accounted, NoLostWakeup, SnoopsOneTransaction
<1>2. ASSUME IInv, [Next]_vars PROVE IInv'
  <2>1. ASSUME NEW c \in Core, BeginLookup(c) PROVE IInv'
    BY <1>2, <2>1, BeforePost
  <2>2. ASSUME NEW c \in Core, RequestThread(c) PROVE IInv'
    BY <1>2, <2>2, BeforePost, PostStep, RecheckStep, EndStep DEF RequestThread
  <2>3. ASSUME NEW c \in Core, ResponseThread(c) PROVE IInv'
    BY <1>2, <2>3, ResponseStep, ReplyStep DEF ResponseThread
  <2>4. ASSUME NEW c \in Core, WakeSpuriously(c) PROVE IInv'
    BY <1>2, <2>4, SpuriousStep
  <2>5. CASE UNCHANGED vars
    BY <1>2, <2>5 DEF vars, reqVars, IInv, TypeOK, Locks, Transaction, Busy, Accounted, Waits,
       Entering, NoLostWakeup, SnoopsOneTransaction, AllIn
  <2>. QED  BY <1>2, <2>1, <2>2, <2>3, <2>4, <2>5 DEF Next, Terminated
<1>. QED  BY <1>1, <1>2, PTL DEF Spec

\* Every variable keeps its type; in particular resp_count never exceeds the
\* number of cores asked, however many requests there are.
THEOREM TypeCorrect == Spec => []TypeOK
<1>1. IInv => TypeOK
  BY DEF IInv
<1>. QED  BY <1>1, Invariance, PTL

\* wait_for_responses and response_worker lose no wakeup: who is blocked on
\* req_cvar or resp_cvar still has something to wait for.
THEOREM NobodyOversleeps == Spec => []NoLostWakeup
<1>1. IInv => NoLostWakeup
  BY DEF IInv
<1>. QED  BY <1>1, Invariance, PTL

\* A response thread reads Bus::addr and Bus::opt of one transaction, and its
\* answer is counted in that transaction.
THEOREM OneTransactionSnooped == Spec => []SnoopsOneTransaction
<1>1. IInv => SnoopsOneTransaction
  BY DEF IInv
<1>. QED  BY <1>1, Invariance, PTL

\* wait_for_responses returns only after every other cache has snooped the
\* operation that was posted.
THEOREM EndIsSnooped == Spec => []EndMeansSnooped
<1>1. ASSUME IInv PROVE EndMeansSnooped
  <2>. SUFFICES ASSUME NEW x \in Core, pc[x] = "end", NEW c \in Core \ {x}
                PROVE  seen[c] = serial /\ rpc[c] # "snooping"
    BY DEF EndMeansSnooped
  <2>1. pendingWork = {}
    BY <1>1, EndMeansNoWork
  <2>. QED  BY <1>1, <2>1 DEF IInv, Transaction, Waits, Busy
<1>. QED  BY <1>1, Invariance, PTL

-----------------------------------------------------------------------------
(* The refinement.                                                         *)

\* Requester is the core that waits.
RequesterWaits ==
  /\ \A x \in Core : Waits(x) <=> Requester = x
  /\ Requester \in Core \cup {NoCore}

LEMMA RequesterFacts == IInv => RequesterWaits
<1>. SUFFICES ASSUME IInv PROVE RequesterWaits
  OBVIOUS
<1>1. \A x, y \in Core : Waits(x) /\ Waits(y) => x = y
  BY DEF IInv, Locks
<1>2. CASE \E x \in Core : Waits(x)
  <2>1. Requester \in Core /\ Waits(Requester)
    BY <1>2 DEF Requester, Waits
  <2>. QED  BY <1>1, <1>2, <2>1 DEF RequesterWaits
<1>3. CASE \A x \in Core : ~Waits(x)
  <2>1. Requester = NoCore
    BY <1>3 DEF Requester, Waits
  <2>. QED  BY <1>3, <2>1, BusAssumption DEF RequesterWaits
<1>. QED  BY <1>2, <1>3

\* The mutexes, the condition variables, the flags and the counter implement
\* the service: one transaction at a time, one answer from every other core
\* in each, and no end before all of them are in.
THEOREM Refinement == Spec => ImplementsService
<1>1. Init => Service!Init
  BY DEF Init, Service!Init, Requester
<1>2. IInv' => RequesterWaits'
  BY RequesterFacts, PTL
<1>3. ASSUME IInv, IInv', [Next]_vars PROVE [Service!Next]_(Service!vars)
  <2>. USE BusAssumption
  <2>a. RequesterWaits /\ RequesterWaits'
    BY <1>2, <1>3, RequesterFacts
  <2>b. ASSUME \A x \in Core : Waits(x)' <=> Waits(x)
        PROVE  Requester' = Requester
    BY <2>a, <2>b DEF RequesterWaits
  <2>1. ASSUME NEW c \in Core, Post(c) PROVE Service!Begin(c)
    <3>1. /\ reqLock = c /\ \A x \in Core : ~Waits(x)
          /\ Waits(c)' /\ pendingWork' = pendingWork \cup (Core \ {c})
      BY <1>3, <2>1 DEF Post, IInv, TypeOK, Locks, Waits
    <3>2. Requester = NoCore /\ Requester' = c
      BY <2>a, <3>1 DEF RequesterWaits
    <3>. QED  BY <3>1, <3>2 DEF Service!Begin
  <2>2. ASSUME NEW c \in Core, Reply(c) PROVE Service!Answer(c)
    <3>1. c \in pendingWork /\ pendingWork' = pendingWork \ {c}
      BY <1>3, <2>2 DEF Reply, Taken, IInv, Busy
    <3>2. PICK x \in Core : Waits(x) /\ x # c /\ x \notin pendingWork
      BY <1>3, <3>1 DEF IInv, Transaction
    <3>3. \A y \in Core : Waits(y)' <=> Waits(y)
      <4>1. pc[x] # "end"
        BY <1>3, <3>1, EndMeansNoWork
      <4>. QED  BY <4>1, <1>3, <2>2, <3>2 DEF Reply, Sleepers, Signals, Waits, IInv, TypeOK
    <3>4. Requester = x /\ Requester' = x
      BY <2>a, <2>b, <3>2, <3>3 DEF RequesterWaits
    <3>. QED  BY <3>1, <3>2, <3>4 DEF Service!Answer
  <2>3. ASSUME NEW c \in Core, EndTransaction(c) PROVE Service!End
    <3>1. pendingWork = {} /\ Waits(c)
      BY <1>3, <2>3, EndMeansNoWork DEF EndTransaction, Waits
    <3>2. \A x \in Core : ~Waits(x)'
      BY <1>3, <2>3, <3>1 DEF EndTransaction, IInv, TypeOK, Locks, Waits
    <3>3. Requester = c /\ Requester' = NoCore
      BY <2>a, <3>1, <3>2 DEF RequesterWaits
    <3>. QED  BY <3>1, <3>3 DEF Service!End
  <2>4. ASSUME \A x \in Core : Waits(x)' <=> Waits(x), UNCHANGED pendingWork
        PROVE  UNCHANGED Service!vars
    BY <2>b, <2>4 DEF Service!vars
  <2>5. ASSUME NEW c \in Core,
               \/ BeginLookup(c) \/ EndLookup(c) \/ TakeReqLock(c) \/ TakeObjLock(c)
               \/ Recheck(c) \/ EnterLoop(c) \/ BeginSnoop(c) \/ EndSnoop(c)
               \/ WakeSpuriously(c)
        PROVE  UNCHANGED Service!vars
    <3>1. \A x \in Core : Waits(x)' <=> Waits(x)
      BY <1>3, <2>5 DEF BeginLookup, EndLookup, TakeReqLock, TakeObjLock, Recheck, EnterLoop,
         BeginSnoop, EndSnoop, WakeSpuriously, Waits, IInv, TypeOK, reqVars
    <3>2. UNCHANGED pendingWork
      BY <2>5 DEF BeginLookup, EndLookup, TakeReqLock, TakeObjLock, Recheck, EnterLoop,
         BeginSnoop, EndSnoop, WakeSpuriously
    <3>. QED  BY <2>4, <3>1, <3>2
  <2>6. ASSUME UNCHANGED vars PROVE UNCHANGED Service!vars
    BY <2>4, <2>6 DEF vars, reqVars, Waits
  <2>. QED  BY <1>3, <2>1, <2>2, <2>3, <2>5, <2>6 DEF Next, Terminated, RequestThread,
            ResponseThread, Service!Next
<1>. QED  BY <1>1, <1>3, Invariance, PTL DEF Spec, ImplementsService, Service!Spec
=============================================================================
