--------------------------- MODULE DispatchProofs ---------------------------
(***************************************************************************)
(* The mailbox, for any trace file and any number of cores: no wakeup is   *)
(* lost, every line reaches its core once and in order, and main ends only *)
(* when all have been handled.                                             *)
(***************************************************************************)
EXTENDS Dispatch, FiniteSetTheorems, SequenceTheorems, TLAPS

-----------------------------------------------------------------------------
(* The inductive invariant.                                                *)

Accesses == [op : {"R", "W"}, addr : Nat]

\* The access that a line asks for, in the block of its address.
AccessOf(line) == [op |-> line.op, addr |-> Block(line.addr)]

Types ==
  /\ trace \in Traces
  /\ reader \in {"reading", "posting", "asleep", "woken", "counting", "ended", "aborted"}
  /\ localCount \in 0 .. Len(trace) /\ traceCount \in Nat
  /\ ready \in BOOLEAN
  /\ worker \in [Core -> {"asleep", "woken", "handling", "handled"}]
  /\ access \in [Core -> Accesses \cup {NoAccess}]

\* What is not counted yet is in the mailbox or with a core.
InMailbox == IF ready THEN 1 ELSE 0

AtWork == {c \in Core : worker[c] \in {"handling", "handled"}}

Accounted == localCount = traceCount + Cardinality(AtWork) + InMailbox

\* The reader has a line in hand, or has come to the end of the file.
ReaderPosition ==
  /\ reader \in {"posting", "woken", "asleep"} => localCount < Len(trace)
  /\ reader \in {"counting", "ended"} => localCount = Len(trace)
  /\ reader = "ended" => ~ready

\* A full mailbox holds the line that was posted last.
Mailbox ==
  /\ ready => /\ localCount > 0
              /\ requestId = trace[localCount].id
              /\ request = AccessOf(trace[localCount])
  /\ requestId \in {trace[i].id : i \in 1 .. Len(trace)} \cup {0}

\* Nothing but accesses of the trace is passed on, none to the first block.
Passed(x) ==
  x = NoAccess \/ \E i \in 1 .. Len(trace) : x = AccessOf(trace[i]) /\ x.addr # 0

Genuine ==
  /\ Passed(request)
  /\ \A c \in Core : Passed(access[c])
  /\ \A c \in Core : worker[c] = "handling" => access[c] # NoAccess

\* The lines taken so far named cores that exist.
Delivered == \A i \in 1 .. localCount - InMailbox : trace[i].id \in Core

IInv ==
  /\ Types /\ Accounted /\ ReaderPosition /\ Mailbox /\ Genuine /\ Delivered
  /\ NoLostWakeup

-----------------------------------------------------------------------------
(* Lines and blocks.                                                       *)

LEMMA TraceFacts ==
  ASSUME Types
  PROVE  /\ Len(trace) \in Nat
         /\ \A i \in 1 .. Len(trace) :
              /\ trace[i].id \in Int /\ trace[i].op \in {"R", "W"} /\ trace[i].addr \in Nat
<1>. DEFINE L == [id : Int, op : {"R", "W"}, addr : Nat]
<1>1. trace \in Seq(L)
  BY DispatchAssumption DEF Types
<1>2. Len(trace) \in Nat /\ \A i \in 1 .. Len(trace) : trace[i] \in L
  BY <1>1, ElementOfSeq, LenProperties
<1>. QED  BY <1>2

\* The start of a block is a multiple of its size, and not far below.
LEMMA BlockFacts ==
  ASSUME NEW a \in Nat
  PROVE  /\ Block(a) \in Nat
         /\ Block(a) % BlockSize = 0
         /\ a - Block(a) \in 0 .. BlockSize - 1
<1>. DEFINE q == a \div BlockSize
<1>1. BlockSize \in Nat /\ BlockSize > 0
  BY DispatchAssumption
<1>2. q \in Nat /\ a - q * BlockSize \in 0 .. BlockSize - 1
  BY <1>1
<1>3. (q * BlockSize) % BlockSize = 0
  BY <1>1, <1>2
<1>. QED  BY <1>1, <1>2, <1>3 DEF Block

LEMMA PassedIsOfTheTrace ==
  ASSUME Types, NEW x, Passed(x)
  PROVE  x = NoAccess \/ OfTheTrace(x)
<1>. SUFFICES ASSUME NEW i \in 1 .. Len(trace), x = AccessOf(trace[i]), x.addr # 0
              PROVE  OfTheTrace(x)
  BY DEF Passed
<1>1. trace[i].addr \in Nat /\ x.op = trace[i].op /\ x.addr = Block(trace[i].addr)
  BY TraceFacts DEF AccessOf
<1>. QED  BY <1>1, BlockFacts DEF OfTheTrace

\* What a line asks for is an access.
LEMMA AccessOfType ==
  ASSUME Types, NEW i \in 1 .. Len(trace)
  PROVE  AccessOf(trace[i]) \in Accesses /\ AccessOf(trace[i]) # NoAccess
<1>1. trace[i].op \in {"R", "W"} /\ Block(trace[i].addr) \in Nat
  BY TraceFacts, BlockFacts
<1>. QED  BY <1>1, DispatchAssumption DEF Accesses, AccessOf

-----------------------------------------------------------------------------
(* Counting.                                                               *)

LEMMA AtWorkFinite ==
  /\ IsFiniteSet(AtWork) /\ Cardinality(AtWork) \in Nat
  /\ Cardinality(AtWork) = 0 <=> AtWork = {}
<1>1. IsFiniteSet(AtWork)
  BY DispatchAssumption, FS_Subset DEF AtWork
<1>. QED  BY <1>1, FS_CardinalityType, FS_EmptySet

LEMMA AtWorkRises ==
  ASSUME NEW c \in Core \ AtWork, AtWork' = AtWork \cup {c}
  PROVE  Cardinality(AtWork') = Cardinality(AtWork) + 1
BY AtWorkFinite, FS_AddElement

LEMMA AtWorkFalls ==
  ASSUME NEW c \in AtWork, AtWork' = AtWork \ {c}
  PROVE  Cardinality(AtWork') = Cardinality(AtWork) - 1
BY AtWorkFinite, FS_RemoveElement

-----------------------------------------------------------------------------
(* The main thread.                                                        *)

LEMMA InitInv == Init => IInv
<1>. SUFFICES ASSUME Init PROVE IInv
  OBVIOUS
<1>1. Types
  <2>1. trace \in Seq([id : Int, op : {"R", "W"}, addr : Nat])
    BY DispatchAssumption DEF Init
  <2>2. Len(trace) \in Nat
    BY <2>1, LenProperties
  <2>3. localCount \in 0 .. Len(trace)
    BY <2>2 DEF Init
  <2>. QED  BY <2>3 DEF Init, Types
<1>2. AtWork = {}
  BY DEF Init, AtWork
<1>3. Accounted
  BY <1>2, FS_EmptySet DEF Init, Accounted, InMailbox
<1>4. ReaderPosition /\ Mailbox /\ Genuine /\ Delivered /\ NoLostWakeup
  BY DEF Init, ReaderPosition, Mailbox, Genuine, Passed, Delivered, InMailbox, NoLostWakeup
<1>. QED  BY <1>1, <1>3, <1>4 DEF IInv

\* Every step of main but the post leaves the mailbox and the cores alone.
LEMMA MainMoves ==
  ASSUME IInv, Read \/ ReaderSleeps \/ Abort \/ End
  PROVE  IInv'
<1>. USE DEF IInv
<1>1. UNCHANGED <<trace, localCount, ready, requestId, request, worker, access, traceCount>>
  BY DEF Read, ReaderSleeps, Abort, End, mailbox
<1>2. Types' /\ Accounted' /\ Mailbox' /\ Genuine' /\ Delivered'
  BY <1>1 DEF Types, Accounted, InMailbox, AtWork, Mailbox, Genuine, Passed, Delivered,
     Read, ReaderSleeps, Abort, End
<1>3. End => ~ready
  BY AtWorkFinite DEF End, AllCounted, Accounted, InMailbox, Types
<1>4. ReaderPosition'
  BY <1>1, <1>3, TraceFacts
     DEF ReaderPosition, Types, Read, ReaderSleeps, Abort, End, HasTheLock
<1>5. NoLostWakeup'
  BY <1>1 DEF NoLostWakeup, Read, ReaderSleeps, Abort, End, Full
<1>. QED  BY <1>2, <1>4, <1>5

LEMMA PostKeeps ==
  ASSUME IInv, Post
  PROVE  IInv'
<1>. USE DEF IInv
<1>1. /\ ~ready /\ ready' /\ reader' = "reading" /\ localCount' = localCount + 1
      /\ requestId' = Line.id /\ request' = AccessOf(Line) /\ Block(Line.addr) # 0
      /\ UNCHANGED <<trace, access, traceCount>>
      /\ worker' = [c \in Core |-> IF worker[c] = "asleep" THEN "woken" ELSE worker[c]]
  BY DEF Post, Full, AccessOf, Notified
<1>2. localCount + 1 \in 1 .. Len(trace) /\ localCount \in Nat /\ Len(trace) \in Nat
  BY TraceFacts DEF Post, HasTheLock, ReaderPosition, Types
<1>3. Types'
  BY <1>1, <1>2 DEF Types
<1>4. AtWork' = AtWork
  BY <1>1 DEF AtWork, Types
<1>5. Accounted'
  BY <1>1, <1>4, AtWorkFinite DEF Accounted, InMailbox, Types
<1>6. ReaderPosition'
  BY <1>1 DEF ReaderPosition
<1>7. Mailbox'
  BY <1>1, <1>2 DEF Mailbox, Line
<1>8. Genuine'
  <2>1. Passed(request)'
    BY <1>1, <1>2 DEF Passed, Line, AccessOf
  <2>2. \A c \in Core : Passed(access[c])'
    BY <1>1 DEF Genuine, Passed
  <2>. QED  BY <1>1, <2>1, <2>2 DEF Genuine, Types
<1>9. Delivered' /\ NoLostWakeup'
  BY <1>1, <1>2 DEF Delivered, InMailbox, NoLostWakeup, Types
<1>. QED  BY <1>3, <1>5, <1>6, <1>7, <1>8, <1>9

-----------------------------------------------------------------------------
(* The request threads.                                                    *)

\* The head of the loop of a core that comes from its wait or from a request
\* that it has counted; the books are kept apart, since the two differ there.
LEMMA LoopHeadKeeps ==
  ASSUME IInv, NEW c \in Core, LoopHead(c), worker[c] \in {"woken", "handled"},
         UNCHANGED <<trace, localCount>>, traceCount' \in Nat
  PROVE  Types' /\ ReaderPosition' /\ Mailbox' /\ Genuine' /\ Delivered' /\ NoLostWakeup'
<1>. USE DEF IInv
<1>1. CASE ForMe(c)
  <2>1. /\ ready /\ ~ready' /\ requestId = c /\ access' = [access EXCEPT ![c] = request]
        /\ reader' = (IF reader = "asleep" THEN "woken" ELSE reader)
        /\ worker' = [worker EXCEPT ![c] = "handling"]
        /\ UNCHANGED <<requestId, request>>
    BY <1>1 DEF LoopHead, ForMe, Signalled
  <2>2. localCount \in 1 .. Len(trace)
    BY <2>1, TraceFacts DEF Mailbox, Types
  <2>3. request \in Accesses /\ request # NoAccess
    BY <2>1, <2>2, AccessOfType DEF Mailbox
  <2>4. Types'
    BY <2>1, <2>3 DEF Types, LoopHead
  <2>5. ReaderPosition'
    BY <2>1 DEF ReaderPosition, Types
  <2>6. Mailbox' /\ NoLostWakeup'
    BY <2>1 DEF Mailbox, NoLostWakeup
  <2>7. Genuine'
    <3>1. Passed(request)' /\ \A d \in Core : Passed(access[d])'
      BY <2>1 DEF Genuine, Passed, Types
    <3>. QED  BY <2>1, <2>3, <3>1 DEF Genuine, Types
  <2>8. Delivered'
    <3>1. trace[localCount].id \in Core
      BY <2>1 DEF Mailbox
    <3>. QED  BY <2>1, <2>2, <3>1 DEF Delivered, InMailbox
  <2>. QED  BY <2>4, <2>5, <2>6, <2>7, <2>8
<1>2. CASE ~ForMe(c)
  <2>1. /\ worker' = [worker EXCEPT ![c] = "asleep"]
        /\ UNCHANGED <<access, ready, requestId, request, reader>>
    BY <1>2 DEF LoopHead, mailbox
  <2>2. NoLostWakeup'
    BY <1>2, <2>1 DEF NoLostWakeup, ForMe, Types
  <2>3. Types' /\ Genuine'
    BY <2>1 DEF Types, Genuine, Passed
  <2>. QED  BY <2>1, <2>2, <2>3 DEF ReaderPosition, Mailbox, Delivered, InMailbox
<1>. QED  BY <1>1, <1>2

LEMMA WokenKeeps ==
  ASSUME IInv, NEW c \in Core, Woken(c)
  PROVE  IInv'
<1>. USE DEF IInv
<1>1. worker[c] = "woken" /\ LoopHead(c) /\ UNCHANGED <<trace, localCount, traceCount>>
  BY DEF Woken
<1>2. Types' /\ ReaderPosition' /\ Mailbox' /\ Genuine' /\ Delivered' /\ NoLostWakeup'
  BY <1>1, LoopHeadKeeps DEF Types
<1>3. Accounted'
  <2>1. CASE ForMe(c)
    <3>1. ready /\ ~ready' /\ worker' = [worker EXCEPT ![c] = "handling"]
      BY <1>1, <2>1 DEF LoopHead, ForMe
    <3>2. AtWork' = AtWork \cup {c} /\ c \notin AtWork
      BY <1>1, <3>1 DEF AtWork, Types
    <3>3. Cardinality(AtWork') = Cardinality(AtWork) + 1
      BY <3>2, AtWorkRises
    <3>. QED  BY <1>1, <3>1, <3>3, AtWorkFinite DEF Accounted, InMailbox, Types, ForMe
  <2>2. CASE ~ForMe(c)
    <3>1. UNCHANGED ready /\ worker' = [worker EXCEPT ![c] = "asleep"]
      BY <1>1, <2>2 DEF LoopHead, mailbox
    <3>2. AtWork' = AtWork
      BY <1>1, <3>1 DEF AtWork, Types
    <3>. QED  BY <1>1, <3>1, <3>2 DEF Accounted, InMailbox
  <2>. QED  BY <2>1, <2>2
<1>. QED  BY <1>2, <1>3

LEMMA CountKeeps ==
  ASSUME IInv, NEW c \in Core, Count(c)
  PROVE  IInv'
<1>. USE DEF IInv
<1>1. /\ worker[c] = "handled" /\ LoopHead(c) /\ UNCHANGED <<trace, localCount>>
      /\ traceCount' = traceCount + 1
  BY DEF Count
<1>2. Types' /\ ReaderPosition' /\ Mailbox' /\ Genuine' /\ Delivered' /\ NoLostWakeup'
  BY <1>1, LoopHeadKeeps DEF Types
<1>3. Accounted'
  <2>1. CASE ForMe(c)
    <3>1. ready /\ ~ready' /\ worker' = [worker EXCEPT ![c] = "handling"]
      BY <1>1, <2>1 DEF LoopHead, ForMe
    <3>2. AtWork' = AtWork
      BY <1>1, <3>1 DEF AtWork, Types
    <3>. QED  BY <1>1, <3>1, <3>2, AtWorkFinite DEF Accounted, InMailbox, Types
  <2>2. CASE ~ForMe(c)
    <3>1. UNCHANGED ready /\ worker' = [worker EXCEPT ![c] = "asleep"]
      BY <1>1, <2>2 DEF LoopHead, mailbox
    <3>2. AtWork' = AtWork \ {c} /\ c \in AtWork
      BY <1>1, <3>1 DEF AtWork, Types
    <3>3. Cardinality(AtWork') = Cardinality(AtWork) - 1
      BY <3>2, AtWorkFalls
    <3>. QED  BY <1>1, <3>1, <3>3, AtWorkFinite DEF Accounted, InMailbox, Types
  <2>. QED  BY <2>1, <2>2
<1>. QED  BY <1>2, <1>3

\* A request that has been handled, or a thread that wakes for no reason,
\* changes none of what the threads share.
LEMMA HandledKeeps ==
  ASSUME IInv, NEW c \in Core, Handled(c)
  PROVE  IInv'
<1>. USE DEF IInv
<1>1. /\ worker[c] = "handling" /\ worker' = [worker EXCEPT ![c] = "handled"]
      /\ UNCHANGED <<trace, reader, localCount, ready, requestId, request, access, traceCount>>
  BY DEF Handled, mailbox
<1>2. AtWork' = AtWork
  BY <1>1 DEF AtWork, Types
<1>3. Types' /\ Genuine' /\ NoLostWakeup'
  BY <1>1 DEF Types, Genuine, Passed, NoLostWakeup
<1>. QED  BY <1>1, <1>2, <1>3 DEF Accounted, InMailbox, ReaderPosition, Mailbox, Delivered

LEMMA SpuriousKeeps ==
  ASSUME IInv, WakeSpuriously
  PROVE  IInv'
<1>. USE DEF IInv
<1>1. UNCHANGED <<trace, localCount, ready, requestId, request, access, traceCount>>
  BY DEF WakeSpuriously, mailbox
<1>2. reader' = reader \/ (reader = "asleep" /\ reader' = "woken")
  BY DEF WakeSpuriously
<1>3. worker' = worker \/ \E c \in Core : worker[c] = "asleep"
                                    /\ worker' = [worker EXCEPT ![c] = "woken"]
  BY DEF WakeSpuriously
<1>4. AtWork' = AtWork
  BY <1>3 DEF AtWork, Types
<1>5. Types' /\ Genuine' /\ NoLostWakeup'
  BY <1>1, <1>2, <1>3 DEF Types, Genuine, Passed, NoLostWakeup
<1>. QED  BY <1>1, <1>2, <1>4, <1>5
          DEF Accounted, InMailbox, ReaderPosition, Mailbox, Delivered

-----------------------------------------------------------------------------
(* The theorems.                                                           *)

\* The invariant holds of every trace file.
THEOREM Invariance == Spec => []IInv
<1>1. ASSUME IInv, [Next]_vars PROVE IInv'
  <2>1. CASE UNCHANGED vars
    BY <1>1, <2>1 DEF vars, mailbox, IInv, Types, Accounted, AtWork, InMailbox, ReaderPosition,
       Mailbox, Genuine, Passed, Delivered, NoLostWakeup
  <2>. QED  BY <1>1, <2>1, MainMoves, PostKeeps, WokenKeeps, HandledKeeps, CountKeeps,
            SpuriousKeeps DEF Next, Main, Work, Stopped
<1>. QED  BY <1>1, InitInv, PTL DEF Spec

\* Every variable keeps its type; in particular a core is given nothing but
\* accesses of the trace, aligned to blocks, and trace_count never overtakes
\* what has been posted.
THEOREM TypeCorrect == Spec => []TypeOK
<1>1. ASSUME IInv PROVE TypeOK
  <2>1. request = NoAccess \/ OfTheTrace(request)
    BY <1>1, PassedIsOfTheTrace DEF IInv, Genuine
  <2>2. \A c \in Core : access[c] = NoAccess \/ OfTheTrace(access[c])
    BY <1>1, PassedIsOfTheTrace DEF IInv, Genuine
  <2>3. traceCount \in 0 .. localCount
    BY <1>1, AtWorkFinite DEF IInv, Types, Accounted, InMailbox
  <2>. QED  BY <1>1, <2>1, <2>2, <2>3 DEF IInv, Types, Mailbox, TypeOK
<1>. QED  BY <1>1, Invariance, PTL

\* The broadcast of worker_cv and the signal of trace_cv lose no wakeup.
THEOREM NobodyOversleeps == Spec => []NoLostWakeup
<1>1. IInv => NoLostWakeup
  BY DEF IInv
<1>. QED  BY <1>1, Invariance, PTL

\* main never returns from a trace that names a core that does not exist:
\* whatever the threads do, the program cannot end in the regular way.
THEOREM MissingCoreNeverEnds == Spec => (Hangs => [](reader # "ended"))
<1>1. ASSUME IInv, Hangs PROVE reader # "ended"
  BY <1>1 DEF IInv, Hangs, ReaderPosition, Delivered, InMailbox
<1>2. ASSUME Hangs, [Next]_vars PROVE Hangs'
  <2>1. trace' = trace
    BY <1>2 DEF Next, Main, Work, Read, ReaderSleeps, Post, Abort, End, Woken, Handled, Count,
       WakeSpuriously, Stopped, vars
  <2>. QED  BY <1>2, <2>1 DEF Hangs
<1>. QED  BY <1>1, <1>2, Invariance, PTL DEF Spec

-----------------------------------------------------------------------------
(* The refinement.                                                         *)

\* The state of the service that a state of the program stands for.
Lines == [i \in 1 .. Len(trace) |->
            [id |-> trace[i].id,
             access |-> [op |-> trace[i].op, addr |-> Block(trace[i].addr)]]]

Taken == localCount - (IF ready THEN 1 ELSE 0)

Current == [c \in Core |-> IF worker[c] = "handling" THEN access[c] ELSE NoAccess]

LEMMA LinesFacts ==
  ASSUME Types
  PROVE  /\ Len(Lines) = Len(trace)
         /\ \A i \in 1 .. Len(trace) :
              Lines[i].id = trace[i].id /\ Lines[i].access = AccessOf(trace[i])
<1>1. Len(trace) \in Nat
  BY TraceFacts
<1>2. Len(Lines) = Len(trace)
  BY <1>1 DEF Lines
<1>. QED  BY <1>2 DEF Lines, AccessOf

\* Taking what is in the mailbox begins the next line.
LEMMA TakeRefined ==
  ASSUME IInv, NEW c \in Core, worker[c] \in {"woken", "handled"}, ForMe(c), LoopHead(c),
         UNCHANGED <<trace, localCount>>
  PROVE  Service!Begin(c)
<1>. USE DEF IInv
<1>1. /\ ready /\ ~ready' /\ requestId = c /\ access' = [access EXCEPT ![c] = request]
      /\ reader' = (IF reader = "asleep" THEN "woken" ELSE reader)
      /\ worker' = [worker EXCEPT ![c] = "handling"]
  BY DEF LoopHead, ForMe, Signalled
<1>2. localCount \in 1 .. Len(trace) /\ Len(trace) \in Nat
  BY <1>1, TraceFacts DEF Mailbox, Types
<1>3. Taken = localCount - 1 /\ Taken' = Taken + 1
  BY <1>1, <1>2 DEF Taken
<1>4. /\ Taken < Len(Lines) /\ Lines[Taken + 1].id = c
      /\ Lines[Taken + 1].access = request
  BY <1>1, <1>2, <1>3, LinesFacts DEF Mailbox
<1>5. Current[c] = NoAccess /\ Current' = [Current EXCEPT ![c] = request]
  BY <1>1 DEF Current, Types
<1>6. Lines' = Lines /\ ((reader = "ended")' <=> reader = "ended")
  BY <1>1 DEF Lines
<1>. QED  BY <1>3, <1>4, <1>5, <1>6 DEF Service!Begin, Lines, Taken, Current

\* A step that takes nothing and finishes nothing is no step of the service.
LEMMA Stutters ==
  ASSUME UNCHANGED <<trace, access>>, Taken' = Taken,
         \A c \in Core : worker'[c] = "handling" <=> worker[c] = "handling",
         reader' = "ended" <=> reader = "ended"
  PROVE  UNCHANGED Service!vars
<1>1. Lines' = Lines /\ Current' = Current
  BY DEF Lines, Current
<1>. QED  BY <1>1 DEF Service!vars, Lines, Taken, Current

\* The mailbox, the lock and the condition variables implement the service:
\* every line is taken once, in order, by the core it names, with its own
\* operation and block; and main ends only when all have been worked off.
THEOREM Refinement == Spec => ImplementsService
<1>1. Init => Service!Init
  <2>. SUFFICES ASSUME Init PROVE Service!Init
    OBVIOUS
  <2>1. reader = "reading" /\ localCount = 0 /\ ready \in BOOLEAN /\ ~ready
    BY DEF Init
  <2>2. (IF ready THEN 1 ELSE 0) = 0
    BY <2>1
  <2>3. Taken = localCount - 0
    BY <2>2 DEF Taken
  <2>4. Taken = 0 /\ (reader = "ended") = FALSE
    BY <2>1, <2>3
  <2>5. Current = [c \in Core |-> NoAccess]
    BY DEF Init, Current
  <2>. QED  BY <2>4, <2>5 DEF Service!Init, Taken, Current
<1>2. ASSUME IInv, [Next]_vars PROVE [Service!Next]_(Service!vars)
  <2>1. ASSUME NEW c \in Core, Woken(c) \/ Count(c) PROVE [Service!Next]_(Service!vars)
    <3>1. worker[c] \in {"woken", "handled"} /\ LoopHead(c) /\ UNCHANGED <<trace, localCount>>
      BY <2>1 DEF Woken, Count
    <3>2. CASE ForMe(c)
      BY <1>2, <3>1, <3>2, TakeRefined DEF Service!Next
    <3>3. CASE ~ForMe(c)
      <4>1. /\ worker' = [worker EXCEPT ![c] = "asleep"]
            /\ UNCHANGED <<access, ready, reader>>
        BY <3>1, <3>3 DEF LoopHead, mailbox
      <4>. QED  BY <1>2, <3>1, <4>1, Stutters DEF Taken, IInv, Types
    <3>. QED  BY <3>2, <3>3
  <2>2. ASSUME NEW c \in Core, Handled(c) PROVE Service!Finish(c)
    <3>1. /\ worker[c] = "handling" /\ worker' = [worker EXCEPT ![c] = "handled"]
          /\ UNCHANGED <<trace, reader, localCount, ready, access>>
      BY <2>2 DEF Handled, mailbox
    <3>2. Current[c] # NoAccess
      BY <1>2, <3>1 DEF Current, IInv, Genuine
    <3>3. Current' = [Current EXCEPT ![c] = NoAccess]
      BY <1>2, <3>1 DEF Current, IInv, Types
    <3>. QED  BY <3>1, <3>2, <3>3 DEF Service!Finish, Current
  <2>3. CASE End
    <3>1. /\ localCount = Len(trace) /\ localCount = traceCount /\ reader' = "ended"
          /\ UNCHANGED <<trace, localCount, ready, worker, access>>
      BY <1>2, <2>3 DEF End, AllCounted, mailbox, IInv, ReaderPosition
    <3>2. ~ready /\ AtWork = {}
      BY <1>2, <3>1, AtWorkFinite DEF IInv, Accounted, InMailbox, Types
    <3>3. Taken = Len(Lines) /\ \A c \in Core : Current[c] = NoAccess
      <4>1. Taken = Len(trace)
        BY <1>2, <3>1, <3>2 DEF Taken, IInv, Types
      <4>. QED  BY <1>2, <3>2, <4>1, LinesFacts DEF Current, AtWork, IInv
    <3>. QED  BY <3>1, <3>3 DEF Service!Next, Service!End, Lines, Taken, Current
  <2>4. CASE Post
    <3>1. Taken' = Taken
      BY <1>2, <2>4 DEF Post, Full, Taken, IInv, Types
    <3>. QED  BY <1>2, <2>4, <3>1, Stutters DEF Post, HasTheLock, Notified, IInv, Types
  <2>5. CASE Read \/ ReaderSleeps \/ Abort \/ WakeSpuriously
    <3>1. UNCHANGED <<trace, access, localCount, ready>>
      BY <2>5 DEF Read, ReaderSleeps, Abort, WakeSpuriously, mailbox
    <3>2. reader # "ended" /\ reader' # "ended"
      BY <2>5 DEF Read, ReaderSleeps, Abort, WakeSpuriously, HasTheLock, Running
    <3>3. \A c \in Core : worker'[c] = "handling" <=> worker[c] = "handling"
      BY <1>2, <2>5 DEF Read, ReaderSleeps, Abort, WakeSpuriously, IInv, Types
    <3>. QED  BY <3>1, <3>2, <3>3, Stutters DEF Taken
  <2>6. CASE UNCHANGED vars
    BY <2>6, Stutters DEF vars, mailbox, Taken
  <2>. QED  BY <1>2, <2>1, <2>2, <2>3, <2>4, <2>5, <2>6
            DEF Next, Main, Work, Stopped, Service!Next
<1>. QED  BY <1>1, <1>2, Invariance, PTL DEF Spec, ImplementsService, Service!Spec
=============================================================================
