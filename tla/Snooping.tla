------------------------------ MODULE Snooping ------------------------------
(***************************************************************************)
(* The snooping caches of the invalidation protocols (MSI, MESI, MOSI and  *)
(* MOESI): one request thread and one response thread per core, meeting on *)
(* the bus.  The four classes share their control and differ in the tables *)
(* of the modules MSI, MESI, MOSI and MOESI.                               *)
(*                                                                         *)
(* One action is one critical section.  The request thread of c holds      *)
(* Bus::req_lock and its own obj->lock from Request(c) until it has seen   *)
(* every response; no response thread asks for the lock of c meanwhile, so *)
(* reqLock stands for both.  A response thread holds its obj->lock for one *)
(* Snoop, and Bus::resp_lock for one Reply.                                *)
(*                                                                         *)
(* A cache is the map from addresses to line states that Cache.cpp keeps   *)
(* in its sets; Memory::request is a wait of any length; the trace is any  *)
(* sequence of at most MaxAccesses accesses.                               *)
(***************************************************************************)
EXTENDS CacheStates, Integers, FiniteSets

CONSTANTS
  Core,            \* the caches, 0 .. num_cores - 1
  Addr,            \* the block addresses the trace names (never 0)
  NoAddr,          \* the address 0
  NoCore,          \* owner_id = -1; also "nobody holds req_lock"
  Protocols,       \* the -p values a run covers
  Ways,            \* Cache::associativity
  SetOf,           \* the cache set of an address
  InitialPending,  \* what the uninitialised pending_addr may hold
  MaxAccesses      \* bound: the length of the trace

ASSUME SnoopingAssumption ==
  /\ IsFiniteSet(Core) /\ Core # {}
  /\ NoCore \notin Core
  /\ NoAddr \notin Addr
  /\ Protocols \subseteq {"MSI", "MESI", "MOSI", "MOESI"}
  /\ InitialPending \subseteq Addr \cup {NoAddr}
  /\ Ways \in Nat \ {0}
  /\ MaxAccesses \in Nat

VARIABLES
  protocol,       \* the class Protocol::initialize instantiates
  issued,         \* accesses the trace thread has handed out
  pc,             \* where the request thread of each core is
  op, addr,       \* the access it is handling
  cacheTransfer,  \* its local flag cache_transfer
  status,         \* the state of each line of each cache
  pendingAddr,    \* obj->pending_addr
  opt,            \* obj->opt
  reqLock,        \* who holds Bus::req_lock
  busAddr, busOpt, recvNak, readEx, ownerId, respCount,  \* the fields of Bus
  pendingWork,    \* the cores with Bus::pending_work set
  snooped         \* those of them between their snoop and their reply

traceVars == <<protocol, issued, op, addr>>
lineVars  == <<status, pendingAddr, opt>>
busVars   == <<reqLock, busAddr, busOpt, recvNak, readEx, ownerId, respCount,
               pendingWork, snooped>>
vars      == <<traceVars, pc, cacheTransfer, lineVars, busVars>>

-----------------------------------------------------------------------------
(* The virtual dispatch: the table of the protocol in use.                 *)

MSI   == INSTANCE MSI
MESI  == INSTANCE MESI
MOSI  == INSTANCE MOSI
MOESI == INSTANCE MOESI

Hit(p, st, o) ==
  CASE p = "MSI"  -> MSI!Hit(st, o)  [] p = "MESI"  -> MESI!Hit(st, o)
    [] p = "MOSI" -> MOSI!Hit(st, o) [] p = "MOESI" -> MOESI!Hit(st, o)

HitStatus(p, st, o) ==
  CASE p = "MSI"  -> MSI!HitStatus(st, o)  [] p = "MESI"  -> MESI!HitStatus(st, o)
    [] p = "MOSI" -> MOSI!HitStatus(st, o) [] p = "MOESI" -> MOESI!HitStatus(st, o)

MayIssue(p, st, o) ==
  CASE p = "MSI"  -> MSI!MayIssue(st, o)  [] p = "MESI"  -> MESI!MayIssue(st, o)
    [] p = "MOSI" -> MOSI!MayIssue(st, o) [] p = "MOESI" -> MOESI!MayIssue(st, o)

IssuedOp(p, st, o) ==
  CASE p = "MSI"  -> MSI!IssuedOp(st, o)  [] p = "MESI"  -> MESI!IssuedOp(st, o)
    [] p = "MOSI" -> MOSI!IssuedOp(st, o) [] p = "MOESI" -> MOESI!IssuedOp(st, o)

FillStatus(p, o, alone) ==
  CASE p = "MSI"  -> MSI!FillStatus(o, alone)  [] p = "MESI"  -> MESI!FillStatus(o, alone)
    [] p = "MOSI" -> MOSI!FillStatus(o, alone) [] p = "MOESI" -> MOESI!FillStatus(o, alone)

SnoopAsserts(p, st, b) ==
  CASE p = "MSI"  -> MSI!SnoopAsserts(st, b)  [] p = "MESI"  -> MESI!SnoopAsserts(st, b)
    [] p = "MOSI" -> MOSI!SnoopAsserts(st, b) [] p = "MOESI" -> MOESI!SnoopAsserts(st, b)

SnoopStatus(p, st, b) ==
  CASE p = "MSI"  -> MSI!SnoopStatus(st, b)  [] p = "MESI"  -> MESI!SnoopStatus(st, b)
    [] p = "MOSI" -> MOSI!SnoopStatus(st, b) [] p = "MOESI" -> MOESI!SnoopStatus(st, b)

Supplies(p, st, b, f) ==
  CASE p = "MSI"  -> MSI!Supplies(st, b, f)  [] p = "MESI"  -> MESI!Supplies(st, b, f)
    [] p = "MOSI" -> MOSI!Supplies(st, b, f) [] p = "MOESI" -> MOESI!Supplies(st, b, f)

\* Mutant of TellsShared: no snoop clears Bus::read_ex.
NeverTellsShared(p, st, b) == FALSE

TellsShared(p, st, b) ==
  CASE p = "MSI"  -> MSI!TellsShared(st, b)  [] p = "MESI"  -> MESI!TellsShared(st, b)
    [] p = "MOSI" -> MOSI!TellsShared(st, b) [] p = "MOESI" -> MOESI!TellsShared(st, b)

-----------------------------------------------------------------------------
(* The cache as handle_request uses it.                                    *)

Line(c) == status[c][addr[c]]

\* The lines that share a set with a and are in use by c.
Occupied(c, a) == {b \in Addr \ {a} : SetOf[b] = SetOf[a] /\ status[c][b] # "Invalid"}

\* insert_cache: a takes an Invalid line of its set, or else evicts one.
InsertLine(c, a, st) ==
  IF Cardinality(Occupied(c, a)) < Ways
  THEN status' = [status EXCEPT ![c][a] = st]
  ELSE \E v \in Occupied(c, a) : status' = [status EXCEPT ![c][v] = "Invalid", ![c][a] = st]

-----------------------------------------------------------------------------
Init ==
  /\ protocol \in Protocols
  /\ issued = 0
  /\ pc = [c \in Core |-> "idle"]
  /\ op = [c \in Core |-> "R"]
  /\ addr = [c \in Core |-> NoAddr]
  /\ cacheTransfer = [c \in Core |-> FALSE]
  /\ status = [c \in Core |-> [a \in Addr |-> "Invalid"]]
  /\ pendingAddr \in [Core -> InitialPending]
  /\ opt \in [Core -> {"BusRd", "BusRdX"}]
  /\ \A c \in Core : pendingAddr[c] = NoAddr => opt[c] = "BusRd"
  /\ reqLock = NoCore
  /\ busAddr = NoAddr /\ busOpt = "BusRdX" /\ recvNak = FALSE /\ readEx = TRUE
  /\ ownerId = NoCore /\ respCount = 0
  /\ pendingWork = {} /\ snooped = {}

-----------------------------------------------------------------------------
(* The request thread of c.                                                *)

\* request_worker takes an access that names c; handle_request begins.
Accept(c) ==
  /\ pc[c] = "idle"
  /\ issued < MaxAccesses
  /\ issued' = issued + 1
  /\ \E o \in Access, a \in Addr : op' = [op EXCEPT ![c] = o] /\ addr' = [addr EXCEPT ![c] = a]
  /\ cacheTransfer' = [cacheTransfer EXCEPT ![c] = FALSE]
  /\ pc' = [pc EXCEPT ![c] = "lookup"]
  /\ UNCHANGED <<protocol, lineVars, busVars>>

\* The fast path, under obj->lock alone: a hit ends the access.
Lookup(c) ==
  /\ pc[c] = "lookup"
  /\ IF Hit(protocol, Line(c), op[c])
     THEN /\ status' = [status EXCEPT ![c][addr[c]] = HitStatus(protocol, Line(c), op[c])]
          /\ pc' = [pc EXCEPT ![c] = "idle"]
     ELSE /\ pc' = [pc EXCEPT ![c] = "bus"]
          /\ UNCHANGED status
  /\ UNCHANGED <<traceVars, cacheTransfer, pendingAddr, opt, busVars>>

\* Mutant of Others: the loop does not skip the requester.
OthersAndSelf(c) == Core

\* The caches that wait_for_responses asks.
Others(c) == Core \ {c}

\* Mutant of ResetAnswers: a refusal is never forgotten.
KeepRefusal ==
  /\ recvNak' = recvNak
  /\ readEx' = TRUE /\ ownerId' = NoCore /\ respCount' = 0

\* wait_for_responses begins with no answer.
ResetAnswers ==
  /\ recvNak' = FALSE
  /\ readEx' = TRUE /\ ownerId' = NoCore /\ respCount' = 0

\* Mutant of BusFree: handle_request does not take Bus::req_lock.
BusAlwaysFree == TRUE

BusFree == reqLock = NoCore

\* c wins the bus, looks its line up again and, in wait_for_responses, asks
\* every other cache to snoop.  An assert that fails ends the program here.
Request(c) ==
  /\ pc[c] = "bus"
  /\ BusFree
  /\ MayIssue(protocol, Line(c), op[c])
  /\ reqLock' = c
  /\ LET bop == IssuedOp(protocol, Line(c), op[c])
     IN opt' = [opt EXCEPT ![c] = bop] /\ busOpt' = bop
  /\ busAddr' = addr[c]
  /\ ResetAnswers
  /\ pendingWork' = pendingWork \cup Others(c)
  /\ pc' = [pc EXCEPT ![c] = "wait"]
  /\ UNCHANGED <<traceVars, cacheTransfer, status, pendingAddr, snooped>>

\* Mutant of Answered: one answer is not waited for.
AnsweredButOne(c) == pc[c] = "wait" /\ respCount >= Cardinality(Core) - 2

\* Everything the other caches had to say is in.
Answered(c) == pc[c] = "wait" /\ respCount = Cardinality(Core) - 1

\* Mutant of Release: a supplier does not clear pending_addr.
ReleaseKeepingPending(c, pending) ==
  /\ pendingAddr' = [pendingAddr EXCEPT ![c] = pending]
  /\ cacheTransfer' = [cacheTransfer EXCEPT ![c] = @ \/ ownerId # NoCore]
  /\ reqLock' = NoCore
  /\ UNCHANGED <<traceVars, opt, busAddr, busOpt, recvNak, readEx, ownerId, respCount,
                 pendingWork, snooped>>

\* What every end of a transaction does with owner_id, and the unlocking.
\* A supplier clears pending_addr and raises the flag even if c was refused.
Release(c, pending) ==
  /\ pendingAddr' = [pendingAddr EXCEPT ![c] = IF ownerId # NoCore THEN NoAddr ELSE pending]
  /\ cacheTransfer' = [cacheTransfer EXCEPT ![c] = @ \/ ownerId # NoCore]
  /\ reqLock' = NoCore
  /\ UNCHANGED <<traceVars, opt, busAddr, busOpt, recvNak, readEx, ownerId, respCount,
                 pendingWork, snooped>>

\* Some cache refused: back to the top of the loop.
Refused(c) ==
  /\ Answered(c) /\ recvNak
  /\ Release(c, pendingAddr[c])
  /\ pc' = [pc EXCEPT ![c] = "bus"]
  /\ UNCHANGED status

\* A write to a line c has: the others have dropped theirs.
Upgraded(c) ==
  /\ Answered(c) /\ ~recvNak
  /\ Line(c) # "Invalid"
  /\ status' = [status EXCEPT ![c][addr[c]] = "Modified"]
  /\ Release(c, pendingAddr[c])
  /\ pc' = [pc EXCEPT ![c] = "idle"]

\* A miss: the line is put in the cache at once.  Unless the flag says that
\* a cache transferred it, its data is still to come from memory.
Filled(c) ==
  /\ Answered(c) /\ ~recvNak
  /\ Line(c) = "Invalid"
  /\ InsertLine(c, addr[c], FillStatus(protocol, op[c], readEx))
  /\ Release(c, addr[c])
  /\ pc' = [pc EXCEPT ![c] = IF cacheTransfer'[c] THEN "idle" ELSE "memory"]

\* Memory::request has returned.
Fetched(c) ==
  /\ pc[c] = "memory"
  /\ pendingAddr' = [pendingAddr EXCEPT ![c] = NoAddr]
  /\ pc' = [pc EXCEPT ![c] = "idle"]
  /\ UNCHANGED <<traceVars, cacheTransfer, status, opt, busVars>>

-----------------------------------------------------------------------------
(* The response thread of c.                                               *)

\* Mutant of Refuses: only the refuser's own operation counts.
RefusesOwnWritesOnly(c) == pendingAddr[c] = busAddr /\ opt[c] # "BusRd"

\* c is in the middle of an operation on the line that does not mix with
\* the one on the bus (two reads do mix).
Refuses(c) ==
  pendingAddr[c] = busAddr /\ (opt[c] # "BusRd" \/ busOpt # "BusRd")

\* The body under obj->lock.  The assert of a refusal, that pending_addr is
\* not 0, follows: Bus::addr is a block address.  The count of write-backs is
\* left out.
Snoop(c) ==
  /\ c \in pendingWork \ snooped
  /\ snooped' = snooped \cup {c}
  /\ \/ /\ Refuses(c)
        /\ recvNak' = TRUE
        /\ UNCHANGED <<status, ownerId, readEx>>
     \/ LET st == status[c][busAddr] IN
        /\ ~Refuses(c)
        /\ SnoopAsserts(protocol, st, busOpt)
        /\ status' = [status EXCEPT ![c][busAddr] = SnoopStatus(protocol, st, busOpt)]
        /\ ownerId' = IF Supplies(protocol, st, busOpt, pendingAddr[c] = busAddr)
                      THEN c ELSE ownerId
        /\ readEx' = (readEx /\ ~TellsShared(protocol, st, busOpt))
        /\ UNCHANGED recvNak
  /\ UNCHANGED <<traceVars, pc, cacheTransfer, pendingAddr, opt, reqLock, busAddr, busOpt,
                 respCount, pendingWork>>

\* The body under Bus::resp_lock.
Reply(c) ==
  /\ c \in snooped
  /\ snooped' = snooped \ {c}
  /\ pendingWork' = pendingWork \ {c}
  /\ respCount' = respCount + 1
  /\ UNCHANGED <<traceVars, pc, cacheTransfer, lineVars, reqLock, busAddr, busOpt,
                 recvNak, readEx, ownerId>>

-----------------------------------------------------------------------------
\* main has seen every access counted and returns.
Terminated ==
  /\ issued = MaxAccesses
  /\ \A c \in Core : pc[c] = "idle"
  /\ UNCHANGED vars

Work(c) ==
  \/ Lookup(c) \/ Request(c) \/ Refused(c) \/ Upgraded(c) \/ Filled(c) \/ Fetched(c)
  \/ Snoop(c) \/ Reply(c)

Next ==
  \/ \E c \in Core : Accept(c) \/ Work(c)
  \/ Terminated

Spec == Init /\ [][Next]_vars

\* Every thread that can run goes on running; the trace may end anywhere.
Fairness ==
  \A c \in Core : /\ WF_vars(Lookup(c)) /\ WF_vars(Request(c))
                  /\ WF_vars(Refused(c) \/ Upgraded(c) \/ Filled(c))
                  /\ WF_vars(Fetched(c))
                  /\ WF_vars(Snoop(c)) /\ WF_vars(Reply(c))

FairSpec == Spec /\ Fairness
-----------------------------------------------------------------------------
(* Properties.                                                             *)

\* The type invariant: every field holds a value of its C++ type that the
\* code can put there.
TypeOK ==
  /\ protocol \in Protocols
  /\ issued \in 0 .. MaxAccesses
  /\ pc \in [Core -> {"idle", "lookup", "bus", "wait", "memory"}]
  /\ op \in [Core -> Access]
  /\ addr \in [Core -> Addr \cup {NoAddr}]
  /\ \A c \in Core : pc[c] # "idle" => addr[c] \in Addr
  /\ cacheTransfer \in [Core -> BOOLEAN]
  /\ status \in [Core -> [Addr -> CacheState]]
  /\ pendingAddr \in [Core -> Addr \cup {NoAddr}]
  /\ opt \in [Core -> BusOp]
  /\ reqLock \in Core \cup {NoCore}
  /\ busAddr \in Addr \cup {NoAddr}
  /\ busOpt \in BusOp
  /\ recvNak \in BOOLEAN /\ readEx \in BOOLEAN
  /\ ownerId \in Core \cup {NoCore}
  /\ respCount \in 0 .. Cardinality(Core) - 1
  /\ pendingWork \subseteq Core /\ snooped \subseteq pendingWork

\* Coherence, at every instant and not only between transactions: a cache
\* that has a line Modified or Exclusive is the only one that has it, and a
\* line has at most one Owner.
Coherent ==
  \A c, d \in Core : \A a \in Addr :
    c # d => /\ status[c][a] \in Sole => status[d][a] = "Invalid"
             /\ status[c][a] = "Owner" => status[d][a] # "Owner"

\* No assert of handle_request or response_worker fails: the line a request
\* finds when it has won the bus still calls for the bus (it was looked up
\* before, without the bus), and no snoop meets a state its operation
\* excludes.
AssertionsHold ==
  /\ \A c \in Core : pc[c] = "bus" /\ BusFree => MayIssue(protocol, Line(c), op[c])
  /\ \A c \in pendingWork \ snooped :
        ~Refuses(c) => SnoopAsserts(protocol, status[c][busAddr], busOpt)

\* While a cache is recorded as fetching a line, it has the line: no other
\* cache's operation takes away the line that memory is about to deliver.
FetchedLineStays ==
  \A c \in Core : pendingAddr[c] # NoAddr => status[c][pendingAddr[c]] # "Invalid"

\* While a cache is recorded as fetching a line, the line is not dirty in
\* another.  A request that is refused may already have invalidated copies
\* in the caches that did not refuse; none of them was the only good one.
RefusalLosesNoData ==
  \A c, d \in Core : pendingAddr[c] \in Addr /\ c # d => status[d][pendingAddr[c]] \notin Dirty

\* The response threads read Bus::addr and Bus::opt without a lock: neither
\* changes until every one of them has replied.
BusHeldStill == [][pendingWork # {} => UNCHANGED <<busAddr, busOpt, reqLock>>]_vars

\* A request of c is refused by a cache that is not fetching the line: its
\* pending_addr is stale, left behind by a refusal or never initialised.
StaleRefusal ==
  \E c, d \in Core :
    /\ pc[c] \in {"bus", "wait"} /\ c # d
    /\ pendingAddr[d] = addr[c] /\ pc[d] # "memory"
    /\ opt[d] # "BusRd" \/ IssuedOp(protocol, Line(c), op[c]) # "BusRd"

\* An access that a core has taken is completed, however often its requests
\* are refused, unless from some moment on there is, for ever, a core that a
\* stale pending_addr refuses.
EveryAccessCompletes ==
  \A c \in Core : pc[c] # "idle" ~> (pc[c] = "idle" \/ []StaleRefusal)

\* "This will never be on a pending address because if it was pending, this
\* would have been NAKd" (the Modified case of response_worker).
ModifiedSnoopNeverPending ==
  \A c \in pendingWork \ snooped :
    ~Refuses(c) /\ status[c][busAddr] = "Modified" => pendingAddr[c] # busAddr

-----------------------------------------------------------------------------
(* Why Coherent is inductive: what is known in the middle of a transaction.*)

\* The holder of req_lock is the one core that waits for answers.
LockHeld ==
  /\ \A c \in Core : pc[c] = "wait" <=> reqLock = c
  /\ reqLock = NoCore => pendingWork = {}

\* The line it asks about is as it was when it asked, and every core that it
\* asked has been counted or has still to answer.
Transaction ==
  \A x \in Core : reqLock = x =>
    /\ busAddr = addr[x]
    /\ MayIssue(protocol, Line(x), op[x])
    /\ busOpt = IssuedOp(protocol, Line(x), op[x])
    /\ x \notin pendingWork
    /\ respCount + Cardinality(pendingWork) = Cardinality(Core) - 1

\* A core that has snooped keeps, until the transaction ends, the promise
\* its answer made.
Answers ==
  \A x, d \in Core :
    reqLock = x /\ ~recvNak /\ d # x /\ d \notin pendingWork \ snooped =>
      /\ busOpt # "BusRd" => status[d][busAddr] = "Invalid"
      /\ busOpt = "BusRd" => status[d][busAddr] \notin Sole
      /\ busOpt = "BusRd" /\ readEx /\ protocol \in {"MESI", "MOESI"}
            => status[d][busAddr] = "Invalid"

\* The inductive invariant behind Coherent.
IInv == TypeOK /\ Coherent /\ LockHeld /\ Transaction /\ Answers
=============================================================================
