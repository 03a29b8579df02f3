------------------------------- MODULE Memory -------------------------------
(***************************************************************************)
(* The simulated memory: Memory::request, called by the request threads,   *)
(* and the thread memory_worker.  The caller that finds no entry for its   *)
(* address puts a MemRequest, which lives on its own stack, in req_table;  *)
(* a caller that finds one joins it.  A MemRequest is named by the core    *)
(* whose stack it is on.                                                   *)
(*                                                                         *)
(* One action is what a thread does from taking Memory::lock to giving it  *)
(* up, by unlocking or by waiting on a condition variable.  A thread that  *)
(* waits is "asleep" until a signal, a broadcast or nothing at all (POSIX  *)
(* allows it) makes it "woken", and then has to take the lock again.       *)
(***************************************************************************)
EXTENDS Integers, FiniteSets, Sequences, SequencesExt

CONSTANTS
  Core,      \* the callers
  Addr,      \* the addresses they ask for
  NoAddr,    \* no address
  NoCore,    \* no request
  MaxCalls   \* bound: calls of Memory::request

ASSUME MemoryAssumption ==
  IsFiniteSet(Core) /\ NoCore \notin Core /\ NoAddr \notin Addr /\ MaxCalls \in Nat

VARIABLES
  calls,     \* calls made
  thread,    \* "out" of Memory::request, or "asleep" or "woken" within it
  request,   \* the request the caller waits for: its own, or one it joined
  addr,      \* MemRequest::addr
  done,      \* MemRequest::done
  waiters,   \* MemRequest::waiters
  reqTable,  \* Memory::req_table
  worker,    \* memory_worker: "starting", "asleep", "woken" or "busy"
  memReqs    \* Protocol::mem_reqs

vars == <<calls, thread, request, addr, done, waiters, reqTable, worker, memReqs>>

\* The callers blocked on the condition variable of request r.
Sleepers(r) == {c \in Core : thread[c] = "asleep" /\ request[c] = r}

Init ==
  /\ calls = 0
  /\ thread = [c \in Core |-> "out"]
  /\ request = [c \in Core |-> NoCore]
  /\ addr = [c \in Core |-> NoAddr]
  /\ done = [c \in Core |-> FALSE]
  /\ waiters = [c \in Core |-> 0]
  /\ reqTable = <<>>
  /\ worker = "starting"
  /\ memReqs = 0

-----------------------------------------------------------------------------
(* Memory::request.                                                        *)

\* Mutant of Joins: the table is not searched.
JoinsNone(r, a) == FALSE

Joins(r, a) == r \in ToSet(reqTable) /\ addr[r] = a

Enters(c) ==
  /\ thread[c] = "out" /\ calls < MaxCalls
  /\ calls' = calls + 1
  /\ thread' = [thread EXCEPT ![c] = "asleep"]

\* The address is in the table: c waits for that request.
Join(c, r, a) ==
  /\ Enters(c)
  /\ Joins(r, a)
  /\ request' = [request EXCEPT ![c] = r]
  /\ waiters' = [waiters EXCEPT ![r] = @ + 1]
  /\ UNCHANGED <<addr, done, reqTable, worker, memReqs>>

\* Mutant of SignalsWorker: only a second request signals.
SignalsWorkerLate == Len(reqTable) = 1

\* The worker is signalled by the request that makes the size of the table 1.
SignalsWorker == Len(reqTable) = 0

\* It is not: c constructs a request and appends it.
Insert(c, a) ==
  /\ Enters(c)
  /\ ~ \E r \in Core : Joins(r, a)
  /\ request' = [request EXCEPT ![c] = c]
  /\ addr' = [addr EXCEPT ![c] = a]
  /\ done' = [done EXCEPT ![c] = FALSE]
  /\ waiters' = [waiters EXCEPT ![c] = 0]
  /\ reqTable' = Append(reqTable, c)
  /\ worker' = IF SignalsWorker /\ worker = "asleep" THEN "woken" ELSE worker
  /\ UNCHANGED memReqs

\* A condition variable may wake a thread for no reason.
WakeSpuriously(c) ==
  /\ thread[c] = "asleep"
  /\ thread' = [thread EXCEPT ![c] = "woken"]
  /\ UNCHANGED <<calls, request, addr, done, waiters, reqTable, worker, memReqs>>

\* What c waits for has not happened yet.
\* Mutant of MustWait: the original requester does not wait for the others.
MustWaitForDone(c) == ~done[request[c]]
MustWait(c) == ~done[request[c]] \/ (request[c] = c /\ waiters[c] # 0)

SleepAgain(c) ==
  /\ thread[c] = "woken" /\ MustWait(c)
  /\ thread' = [thread EXCEPT ![c] = "asleep"]
  /\ UNCHANGED <<calls, request, addr, done, waiters, reqTable, worker, memReqs>>

\* Mutant of Notified: the last waiter signals nobody.
NotifiedNobody(c) == {}

\* Whom c may wake by leaving: when the last of the waiters, the original
\* requester or whoever else is blocked on the same condition variable.
Notified(c) == IF waiters[request[c]] = 1 THEN Sleepers(request[c]) ELSE {}

\* One that joined returns.
Leave(c) ==
  /\ thread[c] = "woken" /\ ~MustWait(c) /\ request[c] # c
  /\ waiters' = [waiters EXCEPT ![request[c]] = @ - 1]
  /\ \/ Notified(c) = {} /\ thread' = [thread EXCEPT ![c] = "out"]
     \/ \E w \in Notified(c) : thread' = [thread EXCEPT ![c] = "out", ![w] = "woken"]
  /\ request' = [request EXCEPT ![c] = NoCore]
  /\ UNCHANGED <<calls, addr, done, reqTable, worker, memReqs>>

\* The original requester returns, and its MemRequest is destroyed.
Finish(c) ==
  /\ thread[c] = "woken" /\ ~MustWait(c) /\ request[c] = c
  /\ thread' = [thread EXCEPT ![c] = "out"]
  /\ request' = [request EXCEPT ![c] = NoCore]
  /\ addr' = [addr EXCEPT ![c] = NoAddr]
  /\ UNCHANGED <<calls, done, waiters, reqTable, worker, memReqs>>

-----------------------------------------------------------------------------
(* memory_worker.                                                          *)

\* The head of its loop, which it reaches with the lock held.
WorkerLoop(table) ==
  IF table = <<>>
  THEN worker' = "asleep" /\ UNCHANGED memReqs
  ELSE worker' = "busy" /\ memReqs' = memReqs + 1

WorkerStart ==
  /\ worker \in {"starting", "woken"}
  /\ WorkerLoop(reqTable)
  /\ UNCHANGED <<calls, thread, request, addr, done, waiters, reqTable>>

WorkerWakeSpuriously ==
  /\ worker = "asleep"
  /\ worker' = "woken"
  /\ UNCHANGED <<calls, thread, request, addr, done, waiters, reqTable, memReqs>>

\* Mutant of Completed: the broadcast comes after pop_front, on the new head.
CompletedSecond == reqTable[Len(reqTable)]

\* The request that is complete when the latency is over.
Completed == Head(reqTable)

WorkerServe ==
  /\ worker = "busy"
  /\ done' = [done EXCEPT ![Completed] = TRUE]
  /\ thread' = [c \in Core |-> IF c \in Sleepers(Completed) THEN "woken" ELSE thread[c]]
  /\ reqTable' = Tail(reqTable)
  /\ WorkerLoop(Tail(reqTable))
  /\ UNCHANGED <<calls, request, addr, waiters>>

-----------------------------------------------------------------------------
\* main has returned: every call has, too.
Terminated ==
  /\ calls = MaxCalls
  /\ \A c \in Core : thread[c] = "out"
  /\ worker = "asleep"
  /\ UNCHANGED vars

Caller(c) == SleepAgain(c) \/ Leave(c) \/ Finish(c)

Next ==
  \/ \E c \in Core :
       \/ Caller(c) \/ WakeSpuriously(c)
       \/ \E a \in Addr : Insert(c, a) \/ \E r \in Core : Join(c, r, a)
  \/ WorkerStart \/ WorkerServe \/ WorkerWakeSpuriously
  \/ Terminated

Spec == Init /\ [][Next]_vars

\* A thread that wants Memory::lock gets it.  Nothing has to wake spuriously.
Fairness ==
  /\ \A c \in Core : WF_vars(Caller(c))
  /\ WF_vars(WorkerStart) /\ WF_vars(WorkerServe)

FairSpec == Spec /\ Fairness
-----------------------------------------------------------------------------
(* Properties.                                                             *)

\* The type invariant; MemRequest::waiters never goes below zero.
TypeOK ==
  /\ calls \in 0 .. MaxCalls
  /\ thread \in [Core -> {"out", "asleep", "woken"}]
  /\ request \in [Core -> Core \cup {NoCore}]
  /\ addr \in [Core -> Addr \cup {NoAddr}]
  /\ done \in [Core -> BOOLEAN]
  /\ waiters \in [Core -> 0 .. Cardinality(Core) - 1]
  /\ reqTable \in Seq(Core)
  /\ worker \in {"starting", "asleep", "woken", "busy"}
  /\ memReqs \in Nat

\* No pointer dangles: a request that the table lists or that a thread waits
\* for is on the stack of a call of Memory::request that has not returned.
RequestsLive ==
  /\ \A r \in ToSet(reqTable) : request[r] = r
  /\ \A c \in Core : thread[c] # "out" =>
       request[c] \in Core /\ request[request[c]] = request[c]

\* MemRequest::waiters counts exactly the threads, other than the original
\* requester, that will still touch the request.
WaitersCounted ==
  \A r \in Core : request[r] = r =>
    waiters[r] = Cardinality({c \in Core \ {r} : request[c] = r})

\* No wakeup is lost: whoever is blocked on a condition variable still has
\* something to wait for, although caller and joiners of a request share one
\* variable, the last of them is woken by a signal and not by a broadcast,
\* and the worker is signalled by the first request of an empty table only.
NoLostWakeup ==
  /\ \A c \in Core : thread[c] = "asleep" => MustWait(c)
  /\ worker = "asleep" => reqTable = <<>>

\* An address that several caches miss at the same time is fetched once: the
\* table never lists it twice, and never lists what is done.
OneRequestPerAddress ==
  /\ \A i, j \in DOMAIN reqTable : i # j => addr[reqTable[i]] # addr[reqTable[j]]
  /\ \A r \in ToSet(reqTable) : ~done[r]

\* The threads, the lock and the condition variables implement the service.
Service == INSTANCE MemoryService WITH
  wanted <- [c \in Core |-> IF thread[c] = "out" THEN NoAddr ELSE addr[request[c]]],
  served <- {c \in Core : thread[c] # "out" /\ done[request[c]]},
  queue  <- [i \in DOMAIN reqTable |-> addr[reqTable[i]]]

ImplementsService == Service!Spec

\* Every call of Memory::request returns.
EveryCallReturns == \A c \in Core : thread[c] # "out" ~> thread[c] = "out"
=============================================================================
