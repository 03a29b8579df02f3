------------------------------- MODULE Update -------------------------------
(***************************************************************************)
(* The snooping caches of the update protocols, Dragon and CompSnooping.   *)
(* A write to a shared line is broadcast (BusUpdt) and the other copies    *)
(* stay; CompSnooping gives a copy up once it has been updated too often   *)
(* between two uses of its own.  Nobody refuses a request.                 *)
(*                                                                         *)
(* The steps are those of module Snooping, except for a write miss, which  *)
(* is a BusRd, then the transfer or the memory request, and then, with the *)
(* locks taken again, the insertion of the line and perhaps a BusUpdt.     *)
(* In between the cache has no trace of the line: its write window.        *)
(***************************************************************************)
EXTENDS CacheStates, Integers, FiniteSets

CONSTANTS
  Core, Addr, NoAddr, NoCore,  \* as in Snooping
  Protocols,     \* a subset of {"Dragon", "CompSnooping"}
  Ways, SetOf,   \* as in Snooping
  Threshold,     \* CLINE_CTR_THRESH
  InitialPending,  \* as in Snooping
  MaxAccesses    \* bound: the length of the trace

ASSUME UpdateAssumption ==
  /\ IsFiniteSet(Core) /\ Core # {}
  /\ NoCore \notin Core /\ NoAddr \notin Addr
  /\ Protocols \subseteq {"Dragon", "CompSnooping"}
  /\ InitialPending \subseteq Addr \cup {NoAddr}
  /\ Ways \in Nat \ {0} /\ Threshold \in Nat \ {0} /\ MaxAccesses \in Nat

VARIABLES
  protocol, issued, op, addr,   \* as in Snooping
  pc,           \* also "window" and "update", the second half of a write miss
  alone,        \* its local variable read_ex
  status,       \* the state of each line of each cache
  counter,      \* CacheLine::counter; 0 when the line is Invalid
  pendingAddr,  \* obj->pending_addr
  reqLock, busAddr, busOpt, readEx, ownerId, respCount, pendingWork, snooped,
  raced         \* history: a line has been asked for in another core's window

traceVars == <<protocol, issued, op, addr>>
lineVars  == <<status, counter, pendingAddr>>
busVars   == <<reqLock, busAddr, busOpt, readEx, ownerId, respCount, pendingWork, snooped>>
vars      == <<traceVars, pc, alone, lineVars, busVars, raced>>

Line(c) == status[c][addr[c]]

Init ==
  /\ protocol \in Protocols
  /\ issued = 0
  /\ pc = [c \in Core |-> "idle"]
  /\ op = [c \in Core |-> "R"]
  /\ addr = [c \in Core |-> NoAddr]
  /\ alone = [c \in Core |-> TRUE]
  /\ status = [c \in Core |-> [a \in Addr |-> "Invalid"]]
  /\ counter = [c \in Core |-> [a \in Addr |-> 0]]
  /\ pendingAddr \in [Core -> InitialPending]
  /\ reqLock = NoCore
  /\ busAddr = NoAddr /\ busOpt = "BusRdX" /\ readEx = TRUE
  /\ ownerId = NoCore /\ respCount = 0
  /\ pendingWork = {} /\ snooped = {}
  /\ raced = FALSE

-----------------------------------------------------------------------------
(* The cache.                                                              *)

\* cache_incr_counter, which only CompSnooping calls.
Used(c, a) == [counter EXCEPT ![c][a] = IF protocol = "CompSnooping" THEN @ + 1 ELSE @]

Occupied(c, a) == {b \in Addr \ {a} : SetOf[b] = SetOf[a] /\ status[c][b] # "Invalid"}

\* insert_cache: a takes an Invalid line of its set, or else evicts one.
InsertLine(c, a, st) ==
  IF Cardinality(Occupied(c, a)) < Ways
  THEN /\ status' = [status EXCEPT ![c][a] = st]
       /\ counter' = [counter EXCEPT ![c][a] = Threshold]
  ELSE \E v \in Occupied(c, a) :
         /\ status' = [status EXCEPT ![c][v] = "Invalid", ![c][a] = st]
         /\ counter' = [counter EXCEPT ![c][v] = 0, ![c][a] = Threshold]

-----------------------------------------------------------------------------
(* The bus.                                                                *)

\* wait_for_responses, up to the wait.
Ask(c, bop) ==
  /\ reqLock = NoCore
  /\ reqLock' = c
  /\ busAddr' = addr[c] /\ busOpt' = bop
  /\ readEx' = TRUE /\ ownerId' = NoCore /\ respCount' = 0
  /\ pendingWork' = pendingWork \cup (Core \ {c})
  /\ UNCHANGED snooped

\* Mutant of Answered: one answer is not waited for.
AnsweredButOne(c) == reqLock = c /\ respCount >= Cardinality(Core) - 2

\* The other end of wait_for_responses.
Answered(c) == reqLock = c /\ respCount = Cardinality(Core) - 1

ReleaseBus ==
  /\ reqLock' = NoCore
  /\ UNCHANGED <<busAddr, busOpt, readEx, ownerId, respCount, pendingWork, snooped>>

\* The cores between the BusRd of a write miss on a and its insertion.
InWindow(a) ==
  {c \in Core : addr[c] = a /\ op[c] = "W" /\ pc[c] \in {"memory", "window"}}

-----------------------------------------------------------------------------
(* The request thread of c.                                                *)

Accept(c) ==
  /\ pc[c] = "idle" /\ issued < MaxAccesses
  /\ issued' = issued + 1
  /\ \E o \in Access, a \in Addr : op' = [op EXCEPT ![c] = o] /\ addr' = [addr EXCEPT ![c] = a]
  /\ pc' = [pc EXCEPT ![c] = "lookup"]
  /\ UNCHANGED <<protocol, alone, lineVars, busVars, raced>>

Hits(c) == Line(c) \in Sole \/ (Line(c) # "Invalid" /\ op[c] = "R")

\* The fast path; a write makes an Exclusive line Modified.
Lookup(c) ==
  /\ pc[c] = "lookup"
  /\ \/ /\ Hits(c)
        /\ status' = IF Line(c) = "Exclusive" /\ op[c] = "W"
                     THEN [status EXCEPT ![c][addr[c]] = "Modified"] ELSE status
        /\ counter' = Used(c, addr[c])
        /\ pc' = [pc EXCEPT ![c] = "idle"]
     \/ /\ ~Hits(c)
        /\ pc' = [pc EXCEPT ![c] = "bus"]
        /\ UNCHANGED <<status, counter>>
  /\ UNCHANGED <<traceVars, alone, pendingAddr, busVars, raced>>

\* The line must be Invalid, or shared and about to be written.
MayIssue(c) == Line(c) = "Invalid" \/ (Line(c) \in {"ShClean", "ShModified"} /\ op[c] = "W")

\* c wins the bus, looks its line up again and asks.
Request(c) ==
  /\ pc[c] = "bus"
  /\ MayIssue(c)
  /\ Ask(c, IF Line(c) = "Invalid" THEN "BusRd" ELSE "BusUpdt")
  /\ counter' = IF Line(c) = "Invalid" THEN counter ELSE Used(c, addr[c])
  /\ pc' = [pc EXCEPT ![c] = "wait"]
  /\ raced' = (raced \/ InWindow(addr[c]) \ {c} # {})
  /\ UNCHANGED <<traceVars, alone, status, pendingAddr>>

\* The others have taken over what was written to a shared line.
Updated(c) ==
  /\ pc[c] = "wait" /\ Answered(c) /\ Line(c) # "Invalid"
  /\ status' = [status EXCEPT ![c][addr[c]] = IF readEx THEN "Modified" ELSE "ShModified"]
  /\ pc' = [pc EXCEPT ![c] = "idle"]
  /\ ReleaseBus
  /\ UNCHANGED <<traceVars, alone, counter, pendingAddr, raced>>

\* Where a miss goes on: to memory, unless a cache has transferred the line.
GoOn(c, next) ==
  /\ pc' = [pc EXCEPT ![c] = IF ownerId = NoCore THEN "memory" ELSE next]
  /\ pendingAddr' = [pendingAddr EXCEPT ![c] = IF ownerId = NoCore THEN addr[c] ELSE @]
  /\ ReleaseBus

\* Mutant of FillStatus: the other copies are not looked at.
FillExclusive == "Exclusive"

\* The state of a line brought in by a read.
FillStatus == IF readEx THEN "Exclusive" ELSE "ShClean"

ReadMiss(c) ==
  /\ pc[c] = "wait" /\ Answered(c) /\ Line(c) = "Invalid" /\ op[c] = "R"
  /\ InsertLine(c, addr[c], FillStatus)
  /\ GoOn(c, "idle")
  /\ UNCHANGED <<traceVars, alone, raced>>

WriteMiss(c) ==
  /\ pc[c] = "wait" /\ Answered(c) /\ Line(c) = "Invalid" /\ op[c] = "W"
  /\ alone' = [alone EXCEPT ![c] = readEx]
  /\ GoOn(c, "window")
  /\ UNCHANGED <<traceVars, status, counter, raced>>

\* Memory::request has returned.
Fetched(c) ==
  /\ pc[c] = "memory"
  /\ pendingAddr' = [pendingAddr EXCEPT ![c] = NoAddr]
  /\ pc' = [pc EXCEPT ![c] = IF op[c] = "R" THEN "idle" ELSE "window"]
  /\ UNCHANGED <<traceVars, alone, status, counter, busVars, raced>>

\* Nobody had a copy when c asked: the line is inserted without the bus.
InsertAlone(c) ==
  /\ pc[c] = "window" /\ alone[c]
  /\ InsertLine(c, addr[c], "Modified")
  /\ pc' = [pc EXCEPT ![c] = "idle"]
  /\ UNCHANGED <<traceVars, alone, pendingAddr, busVars, raced>>

\* Somebody had: the line is inserted and the write broadcast.
InsertShared(c) ==
  /\ pc[c] = "window" /\ ~alone[c]
  /\ InsertLine(c, addr[c], "ShModified")
  /\ Ask(c, "BusUpdt")
  /\ pc' = [pc EXCEPT ![c] = "update"]
  /\ raced' = (raced \/ InWindow(addr[c]) \ {c} # {})
  /\ UNCHANGED <<traceVars, alone, pendingAddr>>

UpdateSent(c) ==
  /\ pc[c] = "update" /\ Answered(c)
  /\ pc' = [pc EXCEPT ![c] = "idle"]
  /\ ReleaseBus
  /\ UNCHANGED <<traceVars, alone, lineVars, raced>>

-----------------------------------------------------------------------------
(* The response thread of c, with st the state of its line.                *)

SnoopAsserts(st) == st \in Sole => busOpt = "BusRd"

\* The copy has been updated once too often and is given up.
GivesUp(c, st) ==
  /\ protocol = "CompSnooping" /\ busOpt = "BusUpdt"
  /\ st \in {"ShModified", "ShClean"} /\ counter[c][busAddr] <= 1

\* Mutant of SnoopStatus: an update leaves a ShModified line as it is.
SnoopStatusNoDemotion(c, st) ==
  CASE GivesUp(c, st)                                -> "Invalid"
    [] ~GivesUp(c, st) /\ st = "Modified"            -> "ShModified"
    [] ~GivesUp(c, st) /\ st = "Exclusive"           -> "ShClean"
    [] OTHER                                         -> st

SnoopStatus(c, st) ==
  CASE GivesUp(c, st)                                -> "Invalid"
    [] ~GivesUp(c, st) /\ st = "Modified"            -> "ShModified"
    [] ~GivesUp(c, st) /\ st = "Exclusive"           -> "ShClean"
    [] ~GivesUp(c, st) /\ st = "ShModified" /\ busOpt = "BusUpdt" -> "ShClean"
    [] OTHER                                         -> st

\* Mutant of LeftAfter: the counter goes down before it is looked at.
LeftAfterEarly(c, st) ==
  IF GivesUp(c, st) THEN 0
  ELSE IF protocol = "CompSnooping" /\ busOpt = "BusUpdt" THEN counter[c][busAddr] - 2
  ELSE counter[c][busAddr]

\* What the snoop leaves of the counter.
LeftAfter(c, st) ==
  IF GivesUp(c, st) THEN 0
  ELSE IF protocol = "CompSnooping" /\ busOpt = "BusUpdt" THEN counter[c][busAddr] - 1
  ELSE counter[c][busAddr]

Supplies(c, st) ==
  \/ st = "Modified"
  \/ st = "ShModified" /\ busOpt = "BusRd"
  \/ st \in {"ShClean", "Exclusive"} /\ pendingAddr[c] # busAddr

Snoop(c) ==
  /\ c \in pendingWork \ snooped
  /\ snooped' = snooped \cup {c}
  /\ LET st == status[c][busAddr] IN
     /\ SnoopAsserts(st)
     /\ status' = [status EXCEPT ![c][busAddr] = SnoopStatus(c, st)]
     /\ counter' = IF st = "Invalid" THEN counter
                   ELSE [counter EXCEPT ![c][busAddr] = LeftAfter(c, st)]
     /\ ownerId' = IF Supplies(c, st) THEN c ELSE ownerId
     /\ readEx' = (readEx /\ (st = "Invalid" \/ GivesUp(c, st)))
  /\ UNCHANGED <<traceVars, pc, alone, pendingAddr, reqLock, busAddr, busOpt, respCount,
                 pendingWork, raced>>

Reply(c) ==
  /\ c \in snooped
  /\ snooped' = snooped \ {c}
  /\ pendingWork' = pendingWork \ {c}
  /\ respCount' = respCount + 1
  /\ UNCHANGED <<traceVars, pc, alone, lineVars, reqLock, busAddr, busOpt, readEx, ownerId,
                 raced>>

-----------------------------------------------------------------------------
Work(c) ==
  \/ Lookup(c) \/ Request(c) \/ Updated(c) \/ ReadMiss(c) \/ WriteMiss(c) \/ Fetched(c)
  \/ InsertAlone(c) \/ InsertShared(c) \/ UpdateSent(c) \/ Snoop(c) \/ Reply(c)

\* An assert that fails ends the program.
AssertFails ==
  /\ \/ \E c \in Core : pc[c] = "bus" /\ reqLock = NoCore /\ ~MayIssue(c)
     \/ \E c \in pendingWork \ snooped : ~SnoopAsserts(status[c][busAddr])
  /\ UNCHANGED vars

\* main has seen every access counted and returns.
Terminated ==
  /\ issued = MaxAccesses /\ \A c \in Core : pc[c] = "idle"
  /\ UNCHANGED vars

Next ==
  \/ \E c \in Core : Accept(c) \/ Work(c)
  \/ AssertFails
  \/ Terminated

Spec == Init /\ [][Next]_vars
-----------------------------------------------------------------------------
(* Properties.                                                             *)

\* The type invariant.
TypeOK ==
  /\ protocol \in Protocols /\ issued \in 0 .. MaxAccesses
  /\ op \in [Core -> Access] /\ addr \in [Core -> Addr \cup {NoAddr}]
  /\ pc \in [Core -> {"idle", "lookup", "bus", "wait", "memory", "window", "update"}]
  /\ alone \in [Core -> BOOLEAN]
  /\ status \in [Core -> [Addr -> {"Modified", "Exclusive", "ShModified", "ShClean", "Invalid"}]]
  /\ counter \in [Core -> [Addr -> Nat]]
  /\ pendingAddr \in [Core -> Addr \cup {NoAddr}]
  /\ reqLock \in Core \cup {NoCore} /\ busAddr \in Addr \cup {NoAddr}
  /\ busOpt \in BusOp /\ readEx \in BOOLEAN /\ ownerId \in Core \cup {NoCore}
  /\ respCount \in 0 .. Cardinality(Core) - 1
  /\ pendingWork \subseteq Core /\ snooped \subseteq pendingWork
  /\ raced \in BOOLEAN

\* assert(c.counter) of cache_decr_counter: the counter of a line in the
\* cache is never brought down to zero.
CountersStayPositive ==
  \A c \in Core, a \in Addr : status[c][a] # "Invalid" => counter[c][a] > 0

\* A Modified or Exclusive line is the only one, and a line is ShModified in
\* one cache, but for those that an update has still to reach; this as long
\* as no line was asked for within another core's write window.
CoherentUnlessRaced ==
  raced \/ \A c, d \in Core : \A a \in Addr :
    c # d => /\ status[c][a] \in Sole => status[d][a] = "Invalid"
             /\ status[c][a] = "ShModified" /\ status[d][a] = "ShModified"
                  => /\ busAddr = a /\ busOpt = "BusUpdt"
                     /\ {c, d} \cap (pendingWork \ snooped) # {}

\* No assert of handle_request or response_worker fails, under the same
\* condition.
AssertionsHoldUnlessRaced ==
  raced \/ /\ \A c \in Core : pc[c] = "bus" => MayIssue(c)
           /\ \A c \in pendingWork \ snooped : SnoopAsserts(status[c][busAddr])

\* "assert(Bus::opt == BusRd)": a Modified or Exclusive line is never met by
\* an update.
UpdateNeverMeetsSole == \A c \in pendingWork \ snooped : SnoopAsserts(status[c][busAddr])
=============================================================================
