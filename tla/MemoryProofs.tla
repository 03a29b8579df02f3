---------------------------- MODULE MemoryProofs ----------------------------
(***************************************************************************)
(* Memory::request and memory_worker, for any number of callers, addresses *)
(* and calls: no pointer to a MemRequest dangles, its waiters are counted  *)
(* exactly, no wakeup is lost, an address is fetched once for all that     *)
(* miss it, and all this implements MemoryService.                         *)
(***************************************************************************)
EXTENDS Memory, FiniteSetTheorems, SequenceTheorems, TLAPS

-----------------------------------------------------------------------------
(* The inductive invariant.                                                *)

\* Who is within Memory::request waits for a request.  A live request is done
\* or still in the table, and one that is not live has no waiters.  The
\* worker is busy with the head of the table.
Bookkeeping ==
  /\ \A c \in Core : thread[c] = "out" <=> request[c] = NoCore
  /\ \A r \in Core : request[r] = r =>
       addr[r] \in Addr /\ (done[r] \/ r \in ToSet(reqTable))
  /\ \A r \in Core : request[r] # r => waiters[r] = 0
  /\ worker = "busy" => reqTable # <<>>

IInv ==
  /\ TypeOK /\ RequestsLive /\ WaitersCounted /\ NoLostWakeup /\ OneRequestPerAddress
  /\ Bookkeeping

-----------------------------------------------------------------------------
(* Counting the waiters, and the elements of the table.                    *)

\* The callers that have joined request r.
Joined(r) == {c \in Core \ {r} : request[c] = r}

LEMMA JoinedFinite ==
  ASSUME NEW r
  PROVE  IsFiniteSet(Joined(r)) /\ Cardinality(Joined(r)) \in Nat
<1>1. Joined(r) \in SUBSET Core
  BY DEF Joined
<1>. QED  BY <1>1, MemoryAssumption, FS_Subset, FS_CardinalityType

LEMMA JoinedBound ==
  ASSUME NEW r \in Core, NEW S \in SUBSET (Core \ {r})
  PROVE  Cardinality(S) \in 0 .. Cardinality(Core) - 1
<1>1. /\ IsFiniteSet(Core \ {r}) /\ Cardinality(Core) \in Nat
      /\ Cardinality(Core \ {r}) = Cardinality(Core) - 1
  BY MemoryAssumption, FS_RemoveElement, FS_CardinalityType
<1>2. IsFiniteSet(S) /\ Cardinality(S) <= Cardinality(Core \ {r})
  BY <1>1, FS_Subset
<1>. QED  BY <1>1, <1>2, FS_CardinalityType

LEMMA JoinedEmpty ==
  ASSUME NEW r
  PROVE  Cardinality(Joined(r)) = 0 <=> Joined(r) = {}
BY JoinedFinite, FS_EmptySet

LEMMA JoinedRises ==
  ASSUME NEW r, NEW c, c \notin Joined(r), Joined(r)' = Joined(r) \cup {c}
  PROVE  Cardinality(Joined(r)') = Cardinality(Joined(r)) + 1
BY JoinedFinite, FS_AddElement

LEMMA JoinedFalls ==
  ASSUME NEW r, NEW c \in Joined(r), Joined(r)' = Joined(r) \ {c}
  PROVE  Cardinality(Joined(r)') = Cardinality(Joined(r)) - 1
BY JoinedFinite, FS_RemoveElement

LEMMA AppendedTable ==
  ASSUME NEW s \in Seq(Core), NEW c \in Core
  PROVE  /\ Append(s, c) \in Seq(Core)
         /\ ToSet(Append(s, c)) = ToSet(s) \cup {c}
         /\ Append(s, c) # <<>>
<1>1. /\ DOMAIN s = 1 .. Len(s) /\ Len(s) \in Nat
      /\ DOMAIN Append(s, c) = 1 .. Len(s) + 1
      /\ \A i \in 1 .. Len(s) : Append(s, c)[i] = s[i]
      /\ Append(s, c)[Len(s) + 1] = c
      /\ Append(s, c) \in Seq(Core) /\ Append(s, c) # <<>>
  BY AppendProperties, LenProperties
<1>2. DOMAIN Append(s, c) = DOMAIN s \cup {Len(s) + 1}
  BY <1>1
<1>. QED  BY <1>1, <1>2 DEF ToSet

LEMMA ShortenedTable ==
  ASSUME NEW s \in Seq(Core), s # <<>>,
         \A i, j \in DOMAIN s : i # j => s[i] # s[j]
  PROVE  /\ Tail(s) \in Seq(Core) /\ Head(s) \in ToSet(s)
         /\ ToSet(Tail(s)) = ToSet(s) \ {Head(s)}
         /\ \A i \in DOMAIN Tail(s) : i + 1 \in DOMAIN s /\ i \in Nat \ {0}
                                      /\ Tail(s)[i] = s[i + 1]
<1>1. /\ DOMAIN s = 1 .. Len(s) /\ Len(s) \in Nat \ {0} /\ Head(s) = s[1]
      /\ Tail(s) \in Seq(Core) /\ DOMAIN Tail(s) = 1 .. Len(s) - 1
      /\ \A i \in 1 .. Len(s) - 1 : Tail(s)[i] = s[i + 1]
  BY HeadTailProperties, LenProperties, EmptySeq
<1>2. \A i \in DOMAIN Tail(s) : i + 1 \in DOMAIN s /\ i \in Nat \ {0}
                                /\ Tail(s)[i] = s[i + 1]
  BY <1>1
<1>3. ToSet(Tail(s)) \subseteq ToSet(s) \ {Head(s)}
  <2>. SUFFICES ASSUME NEW i \in DOMAIN Tail(s)
                PROVE  Tail(s)[i] \in ToSet(s) /\ Tail(s)[i] # Head(s)
    BY DEF ToSet
  <2>. QED  BY <1>1, <1>2 DEF ToSet
<1>4. ToSet(s) \ {Head(s)} \subseteq ToSet(Tail(s))
  <2>. SUFFICES ASSUME NEW i \in DOMAIN s, i # 1
                PROVE  s[i] \in ToSet(Tail(s))
    BY <1>1 DEF ToSet
  <2>1. i - 1 \in DOMAIN Tail(s) /\ Tail(s)[i - 1] = s[i]
    BY <1>1
  <2>. QED  BY <2>1 DEF ToSet
<1>. QED  BY <1>1, <1>2, <1>3, <1>4 DEF ToSet

\* The table lists no request twice.
LEMMA TableDistinct ==
  ASSUME IInv
  PROVE  \A i, j \in DOMAIN reqTable : i # j => reqTable[i] # reqTable[j]
BY DEF IInv, OneRequestPerAddress

\* Only those within Memory::request wait for something live.
LEMMA WaitingFacts ==
  ASSUME IInv, NEW c \in Core, thread[c] # "out"
  PROVE  /\ request[c] \in Core /\ request[request[c]] = request[c]
         /\ addr[request[c]] \in Addr
         /\ waiters[request[c]] = Cardinality(Joined(request[c]))
BY DEF IInv, RequestsLive, Bookkeeping, WaitersCounted, Joined

-----------------------------------------------------------------------------
(* The steps of a caller.                                                  *)

\* c joins request r: it was not waiting for anything before, and one more
\* waiter is counted.
LEMMA JoinStep ==
  ASSUME IInv, NEW c \in Core, NEW r \in Core, NEW a \in Addr, Join(c, r, a)
  PROVE  IInv'
<1>. USE DEF IInv
<1>0. NoCore \notin Core /\ NoAddr \notin Addr /\ MaxCalls \in Nat
  BY MemoryAssumption
<1>1. /\ thread[c] = "out" /\ calls' = calls + 1 /\ calls < MaxCalls
      /\ thread' = [thread EXCEPT ![c] = "asleep"]
      /\ request' = [request EXCEPT ![c] = r]
      /\ waiters' = [waiters EXCEPT ![r] = @ + 1]
      /\ UNCHANGED <<addr, done, reqTable, worker, memReqs>>
      /\ r \in ToSet(reqTable)
  BY DEF Join, Enters, Joins
<1>2. request[r] = r /\ request[c] = NoCore /\ r # c /\ ~done[r]
  BY <1>0, <1>1 DEF RequestsLive, Bookkeeping, OneRequestPerAddress
<1>3. /\ c \notin Joined(r) /\ Joined(r)' = Joined(r) \cup {c}
      /\ \A q \in Core \ {r} : Joined(q)' = Joined(q)
  BY <1>0, <1>1, <1>2 DEF Joined, TypeOK
<1>4. waiters'[r] = Cardinality(Joined(r)')
  <2>1. Cardinality(Joined(r)') = Cardinality(Joined(r)) + 1
    BY <1>3, JoinedRises
  <2>. QED  BY <1>1, <1>2, <2>1 DEF WaitersCounted, Joined, TypeOK
<1>5. TypeOK'
  <2>1. Cardinality(Joined(r)') \in 0 .. Cardinality(Core) - 1
    BY JoinedBound DEF Joined
  <2>. QED  BY <1>0, <1>1, <1>4, <2>1 DEF TypeOK
<1>6. \A q \in Core : request'[q] = q <=> request[q] = q
  BY <1>0, <1>1, <1>2 DEF TypeOK
<1>7. RequestsLive'
  BY <1>1, <1>2, <1>6 DEF RequestsLive, TypeOK
<1>8. WaitersCounted'
  <2>. SUFFICES ASSUME NEW q \in Core, request'[q] = q
                PROVE  waiters'[q] = Cardinality(Joined(q)')
    BY DEF WaitersCounted, Joined
  <2>1. CASE q # r
    BY <2>1, <1>1, <1>3, <1>6 DEF WaitersCounted, Joined, TypeOK
  <2>. QED  BY <2>1, <1>4
<1>9. NoLostWakeup'
  BY <1>1, <1>2, WaitingFacts DEF NoLostWakeup, MustWait, TypeOK
<1>10. OneRequestPerAddress'
  BY <1>1 DEF OneRequestPerAddress
<1>11. Bookkeeping'
  BY <1>0, <1>1, <1>2, <1>6 DEF Bookkeeping, TypeOK
<1>. QED  BY <1>5, <1>7, <1>8, <1>9, <1>10, <1>11

\* c appends a request of its own, which nobody can be waiting for.
LEMMA InsertStep ==
  ASSUME IInv, NEW c \in Core, NEW a \in Addr, Insert(c, a)
  PROVE  IInv'
<1>. USE DEF IInv
<1>0. NoCore \notin Core /\ NoAddr \notin Addr /\ MaxCalls \in Nat
  BY MemoryAssumption
<1>1. /\ thread[c] = "out" /\ calls' = calls + 1 /\ calls < MaxCalls
      /\ thread' = [thread EXCEPT ![c] = "asleep"]
      /\ request' = [request EXCEPT ![c] = c]
      /\ addr' = [addr EXCEPT ![c] = a]
      /\ done' = [done EXCEPT ![c] = FALSE]
      /\ waiters' = [waiters EXCEPT ![c] = 0]
      /\ reqTable' = Append(reqTable, c)
      /\ UNCHANGED memReqs
      /\ \A r \in ToSet(reqTable) : addr[r] # a
  BY DEF Insert, Enters, Joins, TypeOK, ToSet
<1>2. worker' = IF reqTable = <<>> /\ worker = "asleep" THEN "woken" ELSE worker
  BY EmptySeq DEF Insert, SignalsWorker, TypeOK
<1>3. request[c] = NoCore /\ request[c] # c /\ c \notin ToSet(reqTable)
  BY <1>0, <1>1 DEF RequestsLive, Bookkeeping
<1>4. \A d \in Core : request[d] # c
  BY <1>0, <1>1, <1>3 DEF RequestsLive, Bookkeeping
<1>5. /\ reqTable' \in Seq(Core) /\ reqTable' # <<>>
      /\ ToSet(reqTable') = ToSet(reqTable) \cup {c}
  BY <1>1, AppendedTable DEF TypeOK
<1>6. Joined(c)' = {} /\ \A q \in Core \ {c} : Joined(q)' = Joined(q)
  <2>1. \A d \in Core \ {c} : request'[d] = request[d]
    BY <1>1 DEF TypeOK
  <2>2. Joined(c)' = {}
    BY <1>4, <2>1 DEF Joined
  <2>3. ASSUME NEW q \in Core \ {c} PROVE Joined(q)' = Joined(q)
    BY <1>0, <1>1, <1>3, <2>1 DEF Joined, TypeOK
  <2>. QED  BY <2>2, <2>3
<1>7. TypeOK'
  <2>1. 0 \in 0 .. Cardinality(Core) - 1
    BY JoinedBound, FS_EmptySet
  <2>. QED  BY <1>0, <1>1, <1>2, <1>5, <2>1 DEF TypeOK
<1>8. RequestsLive'
  <2>1. \A r \in ToSet(reqTable') : request'[r] = r
    BY <1>1, <1>5 DEF RequestsLive, TypeOK, ToSet
  <2>2. \A d \in Core : thread'[d] # "out" =>
          request'[d] \in Core /\ request'[request'[d]] = request'[d]
    BY <1>1, <1>4 DEF RequestsLive, TypeOK
  <2>. QED  BY <2>1, <2>2 DEF RequestsLive
<1>9. WaitersCounted'
  <2>. SUFFICES ASSUME NEW q \in Core, request'[q] = q
                PROVE  waiters'[q] = Cardinality(Joined(q)')
    BY DEF WaitersCounted, Joined
  <2>1. CASE q # c
    BY <2>1, <1>1, <1>6 DEF WaitersCounted, Joined, TypeOK
  <2>2. CASE q = c
    BY <2>2, <1>1, <1>6, FS_EmptySet DEF TypeOK
  <2>. QED  BY <2>1, <2>2
<1>10. NoLostWakeup'
  <2>1. \A d \in Core \ {c} : MustWait(d) /\ thread[d] # "out" => MustWait(d)'
    BY <1>1, <1>4, WaitingFacts DEF MustWait, TypeOK
  <2>. QED  BY <1>1, <1>2, <2>1 DEF NoLostWakeup, MustWait, TypeOK
<1>11. OneRequestPerAddress'
  <2>1. \A r \in ToSet(reqTable') : ~done'[r]
    BY <1>1, <1>3, <1>5 DEF OneRequestPerAddress, TypeOK, ToSet
  <2>2. \A r \in ToSet(reqTable) : addr'[r] = addr[r]
    BY <1>1, <1>3 DEF TypeOK, ToSet
  <2>3. ASSUME NEW i \in DOMAIN reqTable', NEW j \in DOMAIN reqTable', i # j
        PROVE  addr'[reqTable'[i]] # addr'[reqTable'[j]]
    <3>1. /\ DOMAIN reqTable = 1 .. Len(reqTable) /\ Len(reqTable) \in Nat
          /\ DOMAIN reqTable' = 1 .. Len(reqTable) + 1
          /\ \A k \in DOMAIN reqTable : reqTable'[k] = reqTable[k]
          /\ reqTable'[Len(reqTable) + 1] = c
      BY <1>1, AppendProperties, LenProperties DEF TypeOK
    <3>2. \A k \in DOMAIN reqTable : addr'[reqTable'[k]] = addr[reqTable[k]]
                                     /\ addr[reqTable[k]] # a
      BY <1>1, <2>2, <3>1 DEF ToSet
    <3>3. addr'[c] = a
      BY <1>1 DEF TypeOK
    <3>4. CASE i \in DOMAIN reqTable /\ j \in DOMAIN reqTable
      BY <2>3, <3>2, <3>4 DEF OneRequestPerAddress
    <3>5. CASE i = Len(reqTable) + 1
      BY <2>3, <3>1, <3>2, <3>3, <3>5
    <3>6. CASE j = Len(reqTable) + 1
      BY <2>3, <3>1, <3>2, <3>3, <3>6
    <3>. QED  BY <3>1, <3>4, <3>5, <3>6
  <2>. QED  BY <2>1, <2>3 DEF OneRequestPerAddress
<1>12. Bookkeeping'
  <2>1. \A r \in Core : request'[r] = r =>
          addr'[r] \in Addr /\ (done'[r] \/ r \in ToSet(reqTable'))
    BY <1>1, <1>5 DEF Bookkeeping, TypeOK
  <2>. QED  BY <1>0, <1>1, <1>2, <1>5, <2>1 DEF Bookkeeping, TypeOK
<1>. QED  BY <1>7, <1>8, <1>9, <1>10, <1>11, <1>12

\* A thread wakes, or finds that it must sleep on.
LEMMA ThreadStep ==
  ASSUME IInv, NEW c \in Core, SleepAgain(c) \/ WakeSpuriously(c)
  PROVE  IInv'
<1>. USE DEF IInv
<1>1. /\ UNCHANGED <<calls, request, addr, done, waiters, reqTable, worker, memReqs>>
      /\ thread[c] # "out"
      /\ \/ thread' = [thread EXCEPT ![c] = "asleep"] /\ MustWait(c)
         \/ thread' = [thread EXCEPT ![c] = "woken"]
  BY DEF SleepAgain, WakeSpuriously
<1>2. \A d \in Core : thread'[d] = "out" <=> thread[d] = "out"
  BY <1>1 DEF TypeOK
<1>5. TypeOK'
  BY <1>1 DEF TypeOK
<1>6. RequestsLive'
  BY <1>1, <1>2 DEF RequestsLive
<1>7. Bookkeeping'
  BY <1>1, <1>2 DEF Bookkeeping
<1>3. WaitersCounted' /\ OneRequestPerAddress'
  BY <1>1 DEF WaitersCounted, OneRequestPerAddress
<1>4. NoLostWakeup'
  BY <1>1 DEF NoLostWakeup, MustWait, TypeOK
<1>. QED  BY <1>3, <1>4, <1>5, <1>6, <1>7

\* One that joined returns.  If it is the last, the only thread that can
\* still be blocked on the condition variable is the original requester, so
\* the signal does not miss it.
LEMMA LeaveStep ==
  ASSUME IInv, NEW c \in Core, Leave(c), NEW r, r = request[c]
  PROVE  IInv'
<1>. USE DEF IInv
<1>0. NoCore \notin Core
  BY MemoryAssumption
<1>1. /\ thread[c] = "woken" /\ done[r] /\ r # c
      /\ waiters' = [waiters EXCEPT ![r] = @ - 1]
      /\ request' = [request EXCEPT ![c] = NoCore]
      /\ UNCHANGED <<calls, addr, done, reqTable, worker, memReqs>>
  BY DEF Leave, MustWait
<1>2. r \in Core /\ request[r] = r /\ waiters[r] = Cardinality(Joined(r))
  BY <1>1, WaitingFacts
<1>3. /\ c \in Joined(r) /\ Joined(r)' = Joined(r) \ {c}
      /\ \A q \in Core \ {r} : Joined(q)' = Joined(q)
  BY <1>0, <1>1, <1>2 DEF Joined, TypeOK
<1>4. waiters'[r] = Cardinality(Joined(r)')
  <2>1. Cardinality(Joined(r)') = Cardinality(Joined(r)) - 1
    BY <1>3, JoinedFalls
  <2>. QED  BY <1>1, <1>2, <2>1 DEF TypeOK
<1>5. \A d \in Core : thread[d] = "asleep" /\ request[d] = r => d = r
  BY <1>1 DEF NoLostWakeup, MustWait
<1>6. /\ thread' \in [Core -> {"out", "asleep", "woken"}] /\ thread'[c] = "out"
      /\ \A d \in Core \ {c} :
           thread'[d] = thread[d] \/ (thread[d] = "asleep" /\ thread'[d] = "woken")
  <2>1. CASE thread' = [thread EXCEPT ![c] = "out"]
    BY <2>1 DEF TypeOK
  <2>2. ASSUME NEW w \in Sleepers(r), thread' = [thread EXCEPT ![c] = "out", ![w] = "woken"]
        PROVE  <1>6
    BY <2>2, <1>1 DEF Sleepers, TypeOK
  <2>. QED  BY <2>1, <2>2 DEF Leave, Notified
<1>7. waiters[r] = 1 => thread'[r] # "asleep"
  BY <1>1, <1>2, <1>5, <1>6 DEF Leave, Notified, Sleepers, TypeOK
<1>8. TypeOK'
  <2>1. Cardinality(Joined(r)') \in 0 .. Cardinality(Core) - 1
    BY <1>2, JoinedBound DEF Joined
  <2>. QED  BY <1>1, <1>2, <1>4, <1>6, <2>1 DEF TypeOK
<1>9. \A q \in Core : request'[q] = q <=> request[q] = q
  BY <1>0, <1>1 DEF TypeOK
<1>10. RequestsLive'
  BY <1>1, <1>2, <1>6, <1>9 DEF RequestsLive, TypeOK, ToSet
<1>11. WaitersCounted'
  <2>. SUFFICES ASSUME NEW q \in Core, request'[q] = q
                PROVE  waiters'[q] = Cardinality(Joined(q)')
    BY DEF WaitersCounted, Joined
  <2>1. CASE q # r
    <3>1. waiters[q] = Cardinality(Joined(q))
      BY <1>9 DEF WaitersCounted, Joined
    <3>. QED  BY <2>1, <3>1, <1>1, <1>2, <1>3 DEF TypeOK
  <2>. QED  BY <2>1, <1>4
<1>12. NoLostWakeup'
  <2>. SUFFICES ASSUME NEW d \in Core, thread'[d] = "asleep"
                PROVE  MustWait(d)'
    BY <1>1 DEF NoLostWakeup
  <2>1. d # c /\ thread[d] = "asleep" /\ MustWait(d) /\ request'[d] = request[d]
    BY <1>1, <1>6 DEF NoLostWakeup, TypeOK
  <2>2. CASE d # r
    BY <2>1, <2>2, <1>1, <1>2, WaitingFacts DEF MustWait, TypeOK
  <2>3. CASE d = r
    BY <2>1, <2>3, <1>1, <1>2, <1>7 DEF MustWait, TypeOK
  <2>. QED  BY <2>2, <2>3
<1>13. OneRequestPerAddress'
  BY <1>1 DEF OneRequestPerAddress
<1>14. Bookkeeping'
  <2>1. \A q \in Core : request'[q] # q => waiters'[q] = 0
    BY <1>1, <1>2, <1>9 DEF Bookkeeping, TypeOK
  <2>. QED  BY <1>0, <1>1, <1>6, <1>9, <2>1 DEF Bookkeeping, TypeOK
<1>. QED  BY <1>8, <1>10, <1>11, <1>12, <1>13, <1>14

\* The original requester returns; nobody waits for its request any more,
\* and the table does not list it.
LEMMA FinishStep ==
  ASSUME IInv, NEW c \in Core, Finish(c)
  PROVE  IInv'
<1>. USE DEF IInv
<1>0. NoCore \notin Core
  BY MemoryAssumption
<1>1. /\ thread[c] = "woken" /\ request[c] = c /\ done[c] /\ waiters[c] = 0
      /\ thread' = [thread EXCEPT ![c] = "out"]
      /\ request' = [request EXCEPT ![c] = NoCore]
      /\ addr' = [addr EXCEPT ![c] = NoAddr]
      /\ UNCHANGED <<calls, done, waiters, reqTable, worker, memReqs>>
  BY DEF Finish, MustWait
<1>2. \A d \in Core \ {c} : request[d] # c
  BY <1>1, JoinedEmpty DEF WaitersCounted, Joined
<1>3. c \notin ToSet(reqTable)
  BY <1>1 DEF OneRequestPerAddress
<1>4. TypeOK'
  BY <1>1 DEF TypeOK
<1>5. RequestsLive'
  BY <1>1, <1>2, <1>3 DEF RequestsLive, TypeOK, ToSet
<1>6. WaitersCounted'
  <2>. SUFFICES ASSUME NEW q \in Core, request'[q] = q
                PROVE  waiters'[q] = Cardinality(Joined(q)')
    BY DEF WaitersCounted, Joined
  <2>1. q # c /\ request[q] = q /\ Joined(q)' = Joined(q)
    BY <1>0, <1>1 DEF Joined, TypeOK
  <2>. QED  BY <2>1, <1>1 DEF WaitersCounted, Joined
<1>7. NoLostWakeup'
  BY <1>1, <1>2, WaitingFacts DEF NoLostWakeup, MustWait, TypeOK
<1>8. OneRequestPerAddress'
  BY <1>1, <1>3 DEF OneRequestPerAddress, TypeOK, ToSet
<1>9. Bookkeeping'
  BY <1>0, <1>1 DEF Bookkeeping, TypeOK
<1>. QED  BY <1>4, <1>5, <1>6, <1>7, <1>8, <1>9

-----------------------------------------------------------------------------
(* The steps of memory_worker.                                             *)

\* It starts or wakes, and looks at the table.
LEMMA WorkerStep ==
  ASSUME IInv, WorkerStart \/ WorkerWakeSpuriously
  PROVE  IInv'
<1>. USE DEF IInv
<1>1. UNCHANGED <<calls, thread, request, addr, done, waiters, reqTable>>
  BY DEF WorkerStart, WorkerWakeSpuriously
<1>2. /\ worker' \in {"asleep", "woken", "busy"} /\ memReqs' \in Nat
      /\ worker' = "asleep" => reqTable = <<>>
      /\ worker' = "busy" => reqTable # <<>>
  BY DEF WorkerStart, WorkerWakeSpuriously, WorkerLoop, TypeOK
<1>3. TypeOK'
  BY <1>1, <1>2 DEF TypeOK
<1>4. RequestsLive' /\ WaitersCounted' /\ OneRequestPerAddress'
  BY <1>1 DEF RequestsLive, WaitersCounted, OneRequestPerAddress
<1>5. NoLostWakeup' /\ Bookkeeping'
  BY <1>1, <1>2 DEF NoLostWakeup, MustWait, Bookkeeping
<1>. QED  BY <1>3, <1>4, <1>5

\* The head of the table is done: all who wait for it are woken, and it is
\* taken out.
LEMMA ServeStep ==
  ASSUME IInv, WorkerServe
  PROVE  IInv'
<1>. USE DEF IInv
<1>1. PICK h : h = Head(reqTable)
  OBVIOUS
<1>2. /\ reqTable # <<>> /\ reqTable \in Seq(Core)
      /\ reqTable' = Tail(reqTable)
      /\ done' = [done EXCEPT ![h] = TRUE]
      /\ thread' = [c \in Core |-> IF c \in Sleepers(h) THEN "woken" ELSE thread[c]]
      /\ UNCHANGED <<calls, request, addr, waiters>>
  BY <1>1 DEF WorkerServe, Completed, Bookkeeping, TypeOK
<1>3. /\ worker' \in {"asleep", "busy"} /\ memReqs' \in Nat
      /\ worker' = "asleep" => reqTable' = <<>>
      /\ worker' = "busy" => reqTable' # <<>>
  BY <1>2 DEF WorkerServe, WorkerLoop, TypeOK
<1>4. /\ h \in ToSet(reqTable) /\ reqTable' \in Seq(Core)
      /\ ToSet(reqTable') = ToSet(reqTable) \ {h}
      /\ \A i \in DOMAIN reqTable' : i + 1 \in DOMAIN reqTable /\ i \in Nat \ {0}
                                     /\ reqTable'[i] = reqTable[i + 1]
  BY <1>1, <1>2, TableDistinct, ShortenedTable
<1>5. h \in Core
  BY <1>2, <1>4 DEF ToSet
<1>6. TypeOK'
  BY <1>2, <1>3, <1>4 DEF TypeOK
<1>a. \A c \in Core : thread'[c] = "out" <=> thread[c] = "out"
  BY <1>2 DEF Sleepers, TypeOK
<1>b. \A r \in ToSet(reqTable') : r \in ToSet(reqTable) /\ r # h /\ r \in Core
  <2>1. ToSet(reqTable) \subseteq Core
    BY <1>2 DEF ToSet
  <2>. QED  BY <2>1, <1>4
<1>c. done'[h] = TRUE /\ \A r \in Core \ {h} : done'[r] = done[r]
  BY <1>2, <1>5 DEF TypeOK
<1>7. RequestsLive'
  BY <1>2, <1>a, <1>b DEF RequestsLive
<1>8. WaitersCounted'
  BY <1>2 DEF WaitersCounted
<1>9. NoLostWakeup'
  <2>. SUFFICES ASSUME NEW c \in Core, thread'[c] = "asleep"
                PROVE  MustWait(c)'
    BY <1>3 DEF NoLostWakeup
  <2>1. thread[c] = "asleep" /\ request[c] # h /\ MustWait(c)
    BY <1>2 DEF NoLostWakeup, Sleepers
  <2>. QED  BY <2>1, <1>2 DEF MustWait, TypeOK
<1>10. OneRequestPerAddress'
  <2>1. \A r \in ToSet(reqTable') : ~done'[r]
    BY <1>b, <1>c DEF OneRequestPerAddress
  <2>2. ASSUME NEW i \in DOMAIN reqTable', NEW j \in DOMAIN reqTable', i # j
        PROVE  addr'[reqTable'[i]] # addr'[reqTable'[j]]
    <3>1. i + 1 # j + 1
      BY <2>2, <1>4
    <3>. QED  BY <3>1, <1>2, <1>4 DEF OneRequestPerAddress
  <2>. QED  BY <2>1, <2>2 DEF OneRequestPerAddress
<1>11. Bookkeeping'
  BY <1>2, <1>3, <1>4, <1>5, <1>a, <1>c DEF Bookkeeping
<1>. QED  BY <1>6, <1>7, <1>8, <1>9, <1>10, <1>11

-----------------------------------------------------------------------------
(* The theorems.                                                           *)

\* The inductive invariant holds in every reachable state of the memory.
THEOREM Invariance == Spec => []IInv
<1>1. Init => IInv
  <2>. SUFFICES ASSUME Init PROVE IInv
    OBVIOUS
  <2>1. reqTable = <<>> /\ reqTable \in Seq(Core) /\ DOMAIN reqTable = {} /\ ToSet(reqTable) = {}
    BY EmptySeq, LenProperties DEF Init, ToSet
  <2>2. \A c \in Core : 0 \in 0 .. Cardinality(Core) - 1
    BY JoinedBound, FS_EmptySet
  <2>3. TypeOK
    BY <2>1, <2>2, MemoryAssumption DEF Init, TypeOK
  <2>. QED  BY <2>1, <2>3, MemoryAssumption DEF Init, IInv, RequestsLive, WaitersCounted,
               NoLostWakeup, OneRequestPerAddress, Bookkeeping
<1>2. ASSUME IInv, [Next]_vars PROVE IInv'
  <2>1. ASSUME NEW c \in Core, Caller(c) \/ WakeSpuriously(c) PROVE IInv'
    BY <1>2, <2>1, ThreadStep, LeaveStep, FinishStep DEF Caller
  <2>2. ASSUME NEW c \in Core, NEW a \in Addr, Insert(c, a) PROVE IInv'
    BY <1>2, <2>2, InsertStep
  <2>3. ASSUME NEW c \in Core, NEW a \in Addr, NEW r \in Core, Join(c, r, a) PROVE IInv'
    BY <1>2, <2>3, JoinStep
  <2>4. CASE WorkerStart \/ WorkerServe \/ WorkerWakeSpuriously
    BY <1>2, <2>4, WorkerStep, ServeStep
  <2>5. CASE UNCHANGED vars
    BY <1>2, <2>5 DEF vars, IInv, TypeOK, RequestsLive, WaitersCounted, NoLostWakeup, MustWait,
       OneRequestPerAddress, Bookkeeping
  <2>. QED  BY <1>2, <2>1, <2>2, <2>3, <2>4, <2>5 DEF Next, Terminated
<1>. QED  BY <1>1, <1>2, PTL DEF Spec

\* Every variable keeps its type; MemRequest::waiters never goes below zero.
THEOREM TypeCorrect == Spec => []TypeOK
<1>1. IInv => TypeOK
  BY DEF IInv
<1>. QED  BY <1>1, Invariance, PTL

\* A MemRequest is on the stack of a call that has not returned as long as
\* the table lists it or a thread waits for it.
THEOREM NoPointerDangles == Spec => []RequestsLive
<1>1. IInv => RequestsLive
  BY DEF IInv
<1>. QED  BY <1>1, Invariance, PTL

\* MemRequest::waiters is the number of threads that have joined and not yet
\* returned, so that its owner neither leaves too early nor waits for nobody.
THEOREM WaitersAreCounted == Spec => []WaitersCounted
<1>1. IInv => WaitersCounted
  BY DEF IInv
<1>. QED  BY <1>1, Invariance, PTL

\* One signal from the last waiter is enough although owner and joiners share
\* a condition variable, and so is the signal to the worker from the first
\* request of an empty table.
THEOREM NobodyOversleeps == Spec => []NoLostWakeup
<1>1. IInv => NoLostWakeup
  BY DEF IInv
<1>. QED  BY <1>1, Invariance, PTL

\* Simultaneous misses of one address are in the table once.
THEOREM FetchedOnce == Spec => []OneRequestPerAddress
<1>1. IInv => OneRequestPerAddress
  BY DEF IInv
<1>. QED  BY <1>1, Invariance, PTL

-----------------------------------------------------------------------------
(* The refinement.                                                         *)

\* What Service takes for its variables.
Wanted == [c \in Core |-> IF thread[c] = "out" THEN NoAddr ELSE addr[request[c]]]
Served == {c \in Core : thread[c] # "out" /\ done[request[c]]}
Queue  == [i \in DOMAIN reqTable |-> addr[reqTable[i]]]

\* The queue is a sequence, and has an address if and only if the table has
\* a request for it.
QueueKnown ==
  /\ Queue \in Seq(Addr) /\ Len(Queue) = Len(reqTable)
  /\ DOMAIN Queue = DOMAIN reqTable /\ DOMAIN reqTable = 1 .. Len(reqTable)
  /\ \A a : a \in ToSet(Queue) <=> \E r \in ToSet(reqTable) : addr[r] = a

LEMMA QueueFacts == IInv => QueueKnown
<1>. SUFFICES ASSUME IInv PROVE QueueKnown
  OBVIOUS
<1>. USE DEF IInv
<1>1. /\ DOMAIN reqTable = 1 .. Len(reqTable) /\ Len(reqTable) \in Nat
      /\ \A i \in DOMAIN reqTable : reqTable[i] \in Core
  BY LenProperties DEF TypeOK
<1>2. \A i \in DOMAIN reqTable : addr[reqTable[i]] \in Addr
  BY <1>1 DEF RequestsLive, Bookkeeping, ToSet
<1>3. Queue \in Seq(Addr) /\ Len(Queue) = Len(reqTable)
  <2>1. Queue \in [1 .. Len(reqTable) -> Addr]
    BY <1>1, <1>2 DEF Queue
  <2>2. Queue \in Seq(Addr)
    BY <1>1, <2>1, SeqDef
  <2>. QED  BY <1>1, <2>1, <2>2, LenProperties
<1>4. ASSUME NEW a
      PROVE  a \in ToSet(Queue) <=> \E r \in ToSet(reqTable) : addr[r] = a
  BY DEF Queue, ToSet
<1>. QED  BY <1>1, <1>3, <1>4 DEF Queue, QueueKnown

\* A call that joins or inserts asks.
LEMMA AskRefined ==
  ASSUME IInv, QueueKnown', NEW c \in Core, NEW a \in Addr,
         Insert(c, a) \/ \E r \in Core : Join(c, r, a)
  PROVE  Service!Ask(c, a)
<1>. USE DEF IInv
<1>0. NoCore \notin Core /\ NoAddr \notin Addr
  BY MemoryAssumption
<1>1. thread[c] = "out" /\ thread' = [thread EXCEPT ![c] = "asleep"]
  BY DEF Insert, Join, Enters
<1>2. Wanted[c] = NoAddr
  BY <1>1 DEF Wanted
<1>3. CASE Insert(c, a)
  <2>1. /\ request' = [request EXCEPT ![c] = c]
        /\ addr' = [addr EXCEPT ![c] = a]
        /\ done' = [done EXCEPT ![c] = FALSE]
        /\ reqTable' = Append(reqTable, c)
        /\ \A r \in ToSet(reqTable) : addr[r] # a
    BY <1>3 DEF Insert, Joins, TypeOK, ToSet
  <2>2. c \notin ToSet(reqTable) /\ \A d \in Core : request[d] # c
    BY <1>0, <1>1 DEF RequestsLive, Bookkeeping
  <2>3. Wanted' = [Wanted EXCEPT ![c] = a]
    BY <1>1, <2>1, <2>2, WaitingFacts DEF Wanted, TypeOK
  <2>4. Served' = Served
    BY <1>1, <2>1, <2>2, WaitingFacts DEF Served, TypeOK
  <2>5. a \notin ToSet(Queue) /\ Queue' = Append(Queue, a)
    <3>1. a \notin ToSet(Queue)
      BY <2>1, QueueFacts DEF QueueKnown
    <3>2. /\ DOMAIN reqTable' = 1 .. Len(reqTable) + 1 /\ Len(reqTable') = Len(reqTable) + 1
          /\ \A i \in 1 .. Len(reqTable) : reqTable'[i] = reqTable[i]
          /\ reqTable'[Len(reqTable) + 1] = c /\ Len(reqTable) \in Nat
      BY <2>1, AppendProperties, LenProperties DEF TypeOK
    <3>3. \A i \in 1 .. Len(reqTable) : addr'[reqTable[i]] = addr[reqTable[i]]
      BY <2>1, <2>2, QueueFacts DEF QueueKnown, TypeOK, ToSet
    <3>4. /\ Queue \in Seq(Addr) /\ Len(Queue) = Len(reqTable)
          /\ Queue' \in Seq(Addr) /\ Len(Queue') = Len(Queue) + 1
      BY <3>2, QueueFacts DEF QueueKnown
    <3>5. /\ \A i \in 1 .. Len(Queue) : Queue'[i] = Queue[i]
          /\ Queue'[Len(Queue) + 1] = a
      <4>1. addr'[c] = a
        BY <2>1 DEF TypeOK
      <4>2. \A i \in DOMAIN reqTable' : Queue'[i] = addr'[reqTable'[i]]
        BY DEF Queue
      <4>3. \A i \in 1 .. Len(reqTable) : Queue[i] = addr[reqTable[i]]
        BY QueueFacts DEF QueueKnown, Queue
      <4>. QED  BY <4>1, <4>2, <4>3, <3>2, <3>3, <3>4
    <3>6. Queue' = Append(Queue, a)
      BY <3>4, <3>5, AppendProperties, SeqEqual
    <3>. QED  BY <3>1, <3>6
  <2>. QED  BY <1>2, <2>3, <2>4, <2>5 DEF Service!Ask, Service!ToSet,
            ToSet, Wanted, Served, Queue
<1>4. ASSUME NEW r \in Core, Join(c, r, a) PROVE Service!Ask(c, a)
  <2>1. /\ request' = [request EXCEPT ![c] = r] /\ r \in ToSet(reqTable) /\ addr[r] = a
        /\ UNCHANGED <<addr, done, reqTable>>
    BY <1>4 DEF Join, Joins
  <2>2. ~done[r] /\ a \in ToSet(Queue)
    BY <2>1, QueueFacts DEF QueueKnown, OneRequestPerAddress
  <2>3. Wanted' = [Wanted EXCEPT ![c] = a]
    BY <1>1, <2>1 DEF Wanted, TypeOK
  <2>4. Served' = Served
    BY <1>1, <2>1, <2>2 DEF Served, TypeOK
  <2>5. Queue' = Queue
    BY <2>1 DEF Queue
  <2>. QED  BY <1>2, <2>2, <2>3, <2>4, <2>5 DEF Service!Ask, Service!ToSet,
            ToSet, Wanted, Served, Queue
<1>. QED  BY <1>3, <1>4

\* Completing the head of the table serves all who have asked for its
\* address: there is no other request for it that is not done.
LEMMA ServeRefined ==
  ASSUME IInv, WorkerServe
  PROVE  Service!Serve
<1>. USE DEF IInv
<1>1. PICK h : h = Head(reqTable)
  OBVIOUS
<1>2. /\ reqTable # <<>> /\ reqTable \in Seq(Core) /\ reqTable' = Tail(reqTable)
      /\ done' = [done EXCEPT ![h] = TRUE]
      /\ thread' = [c \in Core |-> IF c \in Sleepers(h) THEN "woken" ELSE thread[c]]
      /\ UNCHANGED <<request, addr>>
  BY <1>1 DEF WorkerServe, Completed, Bookkeeping, TypeOK
<1>3. \A c \in Core : thread'[c] = "out" <=> thread[c] = "out"
  BY <1>2 DEF Sleepers, TypeOK
<1>4. /\ Len(reqTable) \in Nat \ {0} /\ h = reqTable[1] /\ h \in ToSet(reqTable) /\ h \in Core
      /\ DOMAIN reqTable = 1 .. Len(reqTable) /\ DOMAIN reqTable' = 1 .. Len(reqTable) - 1
      /\ \A i \in 1 .. Len(reqTable) - 1 : reqTable'[i] = reqTable[i + 1]
  BY <1>1, <1>2, HeadTailProperties, LenProperties, EmptySeq, TableDistinct, ShortenedTable
<1>5. Queue # <<>> /\ Head(Queue) = addr[h] /\ Queue' = Tail(Queue)
  <2>1. /\ Queue \in Seq(Addr) /\ Len(Queue) = Len(reqTable)
        /\ \A i \in 1 .. Len(reqTable) : Queue[i] = addr[reqTable[i]]
    BY <1>4, QueueFacts DEF QueueKnown, Queue
  <2>2. Queue # <<>> /\ Head(Queue) = Queue[1] /\ Queue[1] = addr[h]
    BY <1>4, <2>1, EmptySeq
  <2>3. Queue' = [i \in 1 .. Len(reqTable) - 1 |-> addr[reqTable[i + 1]]]
    BY <1>2, <1>4 DEF Queue
  <2>4. /\ Tail(Queue) \in Seq(Addr) /\ DOMAIN Tail(Queue) = 1 .. Len(reqTable) - 1
        /\ \A i \in 1 .. Len(reqTable) - 1 : Tail(Queue)[i] = addr[reqTable[i + 1]]
    BY <1>4, <2>1, <2>2, HeadTailProperties, LenProperties
  <2>5. Tail(Queue) = [i \in 1 .. Len(reqTable) - 1 |-> Tail(Queue)[i]]
    BY <2>4, LenProperties
  <2>. QED  BY <2>2, <2>3, <2>4, <2>5
<1>6. Wanted' = Wanted
  BY <1>2, <1>3 DEF Wanted
<1>7. Served' = Served \cup {c \in Core : Wanted[c] = Head(Queue)}
  <2>1. ASSUME NEW c \in Core, thread[c] # "out", addr[request[c]] = addr[h], ~done[request[c]]
        PROVE  request[c] = h
    <3>1. request[c] \in ToSet(reqTable)
      BY <2>1, WaitingFacts DEF Bookkeeping
    <3>2. PICK i \in DOMAIN reqTable : request[c] = reqTable[i]
      BY <3>1 DEF ToSet
    <3>. QED  BY <2>1, <3>2, <1>4 DEF OneRequestPerAddress
  <2>2. ASSUME NEW c \in Core
        PROVE  c \in Served' <=> c \in Served \/ Wanted[c] = Head(Queue)
    <3>1. CASE thread[c] = "out"
      <4>1. Wanted[c] = NoAddr /\ addr[h] \in Addr
        BY <3>1, <1>4 DEF Wanted, RequestsLive, Bookkeeping
      <4>. QED  BY <3>1, <4>1, <1>3, <1>5, MemoryAssumption DEF Served
    <3>2. CASE thread[c] # "out"
      <4>1. request[c] \in Core /\ Wanted[c] = addr[request[c]]
        BY <3>2, WaitingFacts DEF Wanted
      <4>2. done'[request[c]] <=> done[request[c]] \/ request[c] = h
        BY <4>1, <1>2 DEF TypeOK
      <4>. QED  BY <3>2, <4>1, <4>2, <2>1, <1>2, <1>3, <1>5 DEF Served
    <3>. QED  BY <3>1, <3>2
  <2>. QED  BY <2>2 DEF Served
<1>. QED  BY <1>5, <1>6, <1>7 DEF Service!Serve, Wanted, Served, Queue

\* A call that comes back returns, and only after its address was served.
LEMMA ReturnRefined ==
  ASSUME IInv, NEW c \in Core, Leave(c) \/ Finish(c)
  PROVE  Service!Return(c)
<1>. USE DEF IInv
<1>0. NoCore \notin Core
  BY MemoryAssumption
<1>1. /\ thread[c] = "woken" /\ done[request[c]]
      /\ request' = [request EXCEPT ![c] = NoCore]
      /\ UNCHANGED <<done, reqTable>>
  BY DEF Leave, Finish, MustWait
<1>2. thread'[c] = "out" /\ \A d \in Core \ {c} : thread'[d] = "out" <=> thread[d] = "out"
  <2>1. CASE thread' = [thread EXCEPT ![c] = "out"]
    BY <2>1 DEF TypeOK
  <2>2. ASSUME NEW w \in Core, thread[w] = "asleep",
               thread' = [thread EXCEPT ![c] = "out", ![w] = "woken"]
        PROVE  <1>2!1 /\ <1>2!2
    BY <2>2, <1>1 DEF TypeOK
  <2>. QED  BY <2>1, <2>2 DEF Leave, Finish, Notified, Sleepers
<1>3. \A d \in Core \ {c} : thread[d] # "out" => addr'[request[d]] = addr[request[d]]
  <2>1. CASE Leave(c)
    BY <2>1 DEF Leave
  <2>2. CASE Finish(c)
    <3>1. addr' = [addr EXCEPT ![c] = NoAddr] /\ request[c] = c /\ waiters[c] = 0
      BY <2>2 DEF Finish, MustWait
    <3>2. \A d \in Core \ {c} : request[d] # c
      BY <3>1, JoinedEmpty DEF WaitersCounted, Joined
    <3>. QED  BY <3>1, <3>2 DEF TypeOK
  <2>. QED  BY <2>1, <2>2
<1>4. \A i \in DOMAIN reqTable : addr'[reqTable[i]] = addr[reqTable[i]]
  <2>1. CASE Leave(c)
    BY <2>1 DEF Leave
  <2>2. CASE Finish(c)
    <3>1. addr' = [addr EXCEPT ![c] = NoAddr] /\ c \notin ToSet(reqTable)
      BY <2>2, <1>1 DEF Finish, OneRequestPerAddress
    <3>. QED  BY <3>1, LenProperties DEF TypeOK, ToSet
  <2>. QED  BY <2>1, <2>2
<1>5. c \in Served /\ Served' = Served \ {c}
  BY <1>1, <1>2 DEF Served, TypeOK
<1>6. Wanted' = [Wanted EXCEPT ![c] = NoAddr]
  BY <1>1, <1>2, <1>3 DEF Wanted, TypeOK
<1>7. Queue' = Queue
  BY <1>1, <1>4 DEF Queue
<1>. QED  BY <1>5, <1>6, <1>7 DEF Service!Return, Wanted, Served, Queue

\* The threads, the lock and the condition variables implement the queue of
\* addresses that MemoryService describes.
THEOREM Refinement == Spec => ImplementsService
<1>1. Init => Service!Init
  <2>. SUFFICES ASSUME Init PROVE Service!Init
    OBVIOUS
  <2>1. Wanted = [c \in Core |-> NoAddr] /\ Served = {}
    BY DEF Init, Wanted, Served
  <2>2. Queue = <<>>
    BY LenProperties, EmptySeq DEF Init, Queue
  <2>. QED  BY <2>1, <2>2 DEF Service!Init, Wanted, Served, Queue
<1>2. IInv' => QueueKnown'
  BY QueueFacts, PTL
<1>3. ASSUME IInv, IInv', [Next]_vars PROVE [Service!Next]_(Service!vars)
  <2>1. ASSUME NEW c \in Core, Leave(c) \/ Finish(c) PROVE Service!Next
    BY <1>3, <2>1, ReturnRefined DEF Service!Next
  <2>2. ASSUME NEW c \in Core, NEW a \in Addr, Insert(c, a) \/ \E r \in Core : Join(c, r, a)
        PROVE  Service!Next
    BY <1>2, <1>3, <2>2, AskRefined DEF Service!Next
  <2>3. CASE WorkerServe
    BY <1>3, <2>3, ServeRefined DEF Service!Next
  <2>4. ASSUME UNCHANGED <<request, addr, done, reqTable>>,
               \A c \in Core : thread'[c] = "out" <=> thread[c] = "out"
        PROVE  UNCHANGED Service!vars
    <3>1. Wanted' = Wanted /\ Served' = Served /\ Queue' = Queue
      BY <2>4 DEF Wanted, Served, Queue
    <3>. QED  BY <3>1 DEF Service!vars, Wanted, Served, Queue
  <2>5. ASSUME NEW c \in Core, SleepAgain(c) \/ WakeSpuriously(c)
        PROVE  UNCHANGED Service!vars
    BY <1>3, <2>4, <2>5 DEF SleepAgain, WakeSpuriously, IInv, TypeOK
  <2>6. CASE WorkerStart \/ WorkerWakeSpuriously \/ UNCHANGED vars
    BY <2>4, <2>6 DEF WorkerStart, WorkerWakeSpuriously, vars
  <2>. QED  BY <1>3, <2>1, <2>2, <2>3, <2>5, <2>6 DEF Next, Caller, Terminated
<1>. QED  BY <1>1, <1>3, Invariance, PTL DEF Spec, ImplementsService, Service!Spec
=============================================================================
