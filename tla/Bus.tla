-------------------------------- MODULE Bus --------------------------------
(***************************************************************************)
(* The handshake between a request thread in Bus::wait_for_responses and   *)
(* the response threads of the other cores: the mutexes req_lock and       *)
(* obj->lock, the condition variables resp_cvar and req_cvar.  What the    *)
(* operation does to the lines is in Snooping and Update; here it is only  *)
(* its serial number.                                                      *)
(*                                                                         *)
(* A thread that holds resp_lock asks for no other lock until it gives it  *)
(* up, by unlocking or waiting, so what it does in between is one action.  *)
(* The other mutexes are held across actions.  A thread that waits on a    *)
(* condition variable is "asleep" until it is signalled, or until it wakes *)
(* for no reason, and then takes resp_lock again.                          *)
(***************************************************************************)
EXTENDS Integers, FiniteSets

CONSTANTS
  Core, NoCore,  \* as in Snooping
  MaxRequests    \* bound: accesses and retries of refused accesses

ASSUME BusAssumption ==
  IsFiniteSet(Core) /\ Core # {} /\ NoCore \notin Core /\ MaxRequests \in Nat

VARIABLES
  requests,     \* accesses and retries so far
  pc,           \* where each request thread is
  rpc,          \* where each response thread is
  reqLock,      \* the core whose request thread holds Bus::req_lock
  objLock,      \* which thread of a core, if any, holds its obj->lock
  serial,       \* Bus::addr and Bus::opt, as the number of the transaction
  respCount,    \* Bus::resp_count
  pendingWork,  \* the cores with Bus::pending_work set
  seen          \* what each response thread last read of addr and opt

reqVars == <<requests, pc, reqLock>>
vars    == <<reqVars, rpc, objLock, serial, respCount, pendingWork, seen>>

Init ==
  /\ requests = 0
  /\ pc = [c \in Core |-> "idle"]
  /\ rpc = [c \in Core |-> "start"]
  /\ reqLock = NoCore
  /\ objLock = [c \in Core |-> "free"]
  /\ serial = 0 /\ respCount = 0 /\ pendingWork = {}
  /\ seen = [c \in Core |-> 0]

Lock(c, thread) == objLock[c] = "free" /\ objLock' = [objLock EXCEPT ![c] = thread]
Unlock(c) == objLock' = [objLock EXCEPT ![c] = "free"]

-----------------------------------------------------------------------------
(* The request thread of c.                                                *)

\* handle_request begins and takes obj->lock for its first lookup.
BeginLookup(c) ==
  /\ pc[c] = "idle" /\ requests < MaxRequests
  /\ requests' = requests + 1
  /\ Lock(c, "request")
  /\ pc' = [pc EXCEPT ![c] = "lookup"]
  /\ UNCHANGED <<rpc, reqLock, serial, respCount, pendingWork, seen>>

\* Mutant of AfterMiss: the lock of the lookup is kept.
AfterMissLocked(c) == UNCHANGED objLock

\* On a miss the lock of the lookup is given up before the bus is asked for.
AfterMiss(c) == Unlock(c)

\* A hit ends the access.
EndLookup(c) ==
  /\ pc[c] = "lookup"
  /\ \/ pc' = [pc EXCEPT ![c] = "idle"] /\ Unlock(c)
     \/ pc' = [pc EXCEPT ![c] = "request"] /\ AfterMiss(c)
  /\ UNCHANGED <<requests, rpc, reqLock, serial, respCount, pendingWork, seen>>

\* Mutant of TakesBus: the bus is not locked.
TakesBusUnlocked(c) == reqLock' = c

TakesBus(c) == reqLock = NoCore /\ reqLock' = c

TakeReqLock(c) ==
  /\ pc[c] = "request"
  /\ TakesBus(c)
  /\ pc' = [pc EXCEPT ![c] = "obj"]
  /\ UNCHANGED <<requests, rpc, objLock, serial, respCount, pendingWork, seen>>

TakeObjLock(c) ==
  /\ pc[c] = "obj"
  /\ Lock(c, "request")
  /\ pc' = [pc EXCEPT ![c] = "post"]
  /\ UNCHANGED <<requests, rpc, reqLock, serial, respCount, pendingWork, seen>>

\* Mutant of CountReset: the answers of the last transaction stay counted.
CountKept == respCount
CountReset == 0

AllIn(n) == n = Cardinality(Core) - 1

\* wait_for_responses, up to its wait; with a single core it does not wait.
Post(c) ==
  /\ pc[c] = "post"
  /\ serial' = serial + 1
  /\ respCount' = CountReset
  /\ pendingWork' = pendingWork \cup (Core \ {c})
  /\ rpc' = [d \in Core |-> IF rpc[d] = "asleep" THEN "woken" ELSE rpc[d]]
  /\ pc' = [pc EXCEPT ![c] = IF AllIn(CountReset) THEN "end" ELSE "asleep"]
  /\ UNCHANGED <<requests, reqLock, objLock, seen>>

\* It wakes, takes resp_lock and looks at resp_count again.
Recheck(c) ==
  /\ pc[c] = "woken"
  /\ pc' = [pc EXCEPT ![c] = IF AllIn(respCount) THEN "end" ELSE "asleep"]
  /\ UNCHANGED <<requests, rpc, reqLock, objLock, serial, respCount, pendingWork, seen>>

\* The line is changed and the two locks are given up: obj->lock first, but
\* nobody wants that one before the next transaction.  An access that was
\* refused goes back for the bus.  After Memory::request the thread
\* takes obj->lock once more, alone, as for a lookup that hits: BeginLookup.
EndTransaction(c) ==
  /\ pc[c] = "end"
  /\ reqLock' = NoCore /\ Unlock(c)
  /\ \/ /\ pc' = [pc EXCEPT ![c] = "idle"]
        /\ UNCHANGED requests
     \/ /\ requests < MaxRequests
        /\ requests' = requests + 1
        /\ pc' = [pc EXCEPT ![c] = "request"]
  /\ UNCHANGED <<rpc, serial, respCount, pendingWork, seen>>

-----------------------------------------------------------------------------
(* The response thread of c.                                               *)

\* The head of its loop, reached with resp_lock held: c waits, or goes on
\* with resp_lock released.
LoopHead(c, work) == IF c \in work THEN "obj" ELSE "asleep"

EnterLoop(c) ==
  /\ rpc[c] \in {"start", "woken"}
  /\ rpc' = [rpc EXCEPT ![c] = LoopHead(c, pendingWork)]
  /\ UNCHANGED <<reqVars, objLock, serial, respCount, pendingWork, seen>>

\* It takes obj->lock and begins to read addr and opt.
BeginSnoop(c) ==
  /\ rpc[c] = "obj"
  /\ Lock(c, "response")
  /\ seen' = [seen EXCEPT ![c] = serial]
  /\ rpc' = [rpc EXCEPT ![c] = "snooping"]
  /\ UNCHANGED <<reqVars, serial, respCount, pendingWork>>

EndSnoop(c) ==
  /\ rpc[c] = "snooping"
  /\ Unlock(c)
  /\ rpc' = [rpc EXCEPT ![c] = "reply"]
  /\ UNCHANGED <<reqVars, serial, respCount, pendingWork, seen>>

\* Mutant of Signals: the count is compared before it is raised.
SignalsLate == AllIn(respCount)

\* The answer that makes the count complete signals req_cvar.
Signals == AllIn(respCount + 1)

Sleepers == {x \in Core : pc[x] = "asleep"}

\* Mutant of Taken: pending_work stays set.
TakenNot(c) == pendingWork
Taken(c) == pendingWork \ {c}

Reply(c) ==
  /\ rpc[c] = "reply"
  /\ pendingWork' = Taken(c)
  /\ respCount' = respCount + 1
  /\ IF Signals /\ Sleepers # {}
     THEN \E x \in Sleepers : pc' = [pc EXCEPT ![x] = "woken"]
     ELSE UNCHANGED pc
  /\ rpc' = [rpc EXCEPT ![c] = LoopHead(c, Taken(c))]
  /\ UNCHANGED <<requests, reqLock, objLock, serial, seen>>

\* A condition variable may wake a thread for no reason.
WakeSpuriously(c) ==
  /\ \/ pc[c] = "asleep" /\ pc' = [pc EXCEPT ![c] = "woken"] /\ UNCHANGED rpc
     \/ rpc[c] = "asleep" /\ rpc' = [rpc EXCEPT ![c] = "woken"] /\ UNCHANGED pc
  /\ UNCHANGED <<requests, reqLock, objLock, serial, respCount, pendingWork, seen>>

-----------------------------------------------------------------------------
\* main has seen every access counted and returns.
Terminated ==
  /\ requests = MaxRequests
  /\ \A c \in Core : pc[c] = "idle"
  /\ UNCHANGED vars

RequestThread(c) ==
  \/ EndLookup(c) \/ TakeReqLock(c) \/ TakeObjLock(c) \/ Post(c) \/ Recheck(c)
  \/ EndTransaction(c)

ResponseThread(c) == EnterLoop(c) \/ BeginSnoop(c) \/ EndSnoop(c) \/ Reply(c)

Next ==
  \/ \E c \in Core :
       BeginLookup(c) \/ RequestThread(c) \/ ResponseThread(c) \/ WakeSpuriously(c)
  \/ Terminated

Spec == Init /\ [][Next]_vars

\* A thread gets a mutex that stays free.  The trace may end anywhere, and
\* nothing has to wake spuriously.
Fairness == \A c \in Core : WF_vars(RequestThread(c)) /\ WF_vars(ResponseThread(c))

FairSpec == Spec /\ Fairness
-----------------------------------------------------------------------------
(* Properties.                                                             *)

\* The type invariant; resp_count never exceeds the number of cores asked,
\* which the test for equality in wait_for_responses relies on.
TypeOK ==
  /\ requests \in 0 .. MaxRequests
  /\ pc \in [Core -> {"idle", "lookup", "request", "obj", "post", "asleep", "woken", "end"}]
  /\ rpc \in [Core -> {"start", "asleep", "woken", "obj", "snooping", "reply"}]
  /\ reqLock \in Core \cup {NoCore}
  /\ objLock \in [Core -> {"free", "request", "response"}]
  /\ serial \in 0 .. MaxRequests /\ respCount \in 0 .. Cardinality(Core) - 1
  /\ pendingWork \subseteq Core
  /\ seen \in [Core -> 0 .. MaxRequests]

\* No wakeup is lost: a response thread blocked on resp_cvar has no work, and
\* a requester blocked on req_cvar still lacks an answer.
NoLostWakeup ==
  \A c \in Core :
    /\ rpc[c] = "asleep" => c \notin pendingWork
    /\ pc[c] = "asleep" => ~AllIn(respCount)

\* Bus::addr and Bus::opt, read without resp_lock, are those of one
\* transaction from the first read of a snoop until its answer is counted.
SnoopsOneTransaction ==
  \A c \in Core : rpc[c] \in {"snooping", "reply"} => seen[c] = serial

\* A requester goes on only when every other cache has snooped its operation,
\* and not merely as many answers have been counted as there are caches.
EndMeansSnooped ==
  \A x \in Core : pc[x] = "end" => \A c \in Core \ {x} : seen[c] = serial /\ rpc[c] # "snooping"

\* The locks and condition variables implement the service.
Requester == IF \E c \in Core : pc[c] \in {"asleep", "woken", "end"}
             THEN CHOOSE c \in Core : pc[c] \in {"asleep", "woken", "end"} ELSE NoCore

Service == INSTANCE BusService WITH
  requester <- Requester,
  answered  <- IF Requester = NoCore THEN {} ELSE Core \ (pendingWork \cup {Requester})

ImplementsService == Service!Spec

\* No access hangs in the handshake, and so no two threads wait for each
\* other's locks, although a requester holds its obj->lock while it waits for
\* threads that need theirs.
EveryRequestEnds == \A c \in Core : pc[c] # "idle" ~> pc[c] = "idle"
=============================================================================
