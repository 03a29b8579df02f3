------------------------------ MODULE Dispatch ------------------------------
(***************************************************************************)
(* The replay of a trace file: main reads it line by line and puts every   *)
(* access in the one-place mailbox of class Protocol, from which the       *)
(* request thread of the core it names takes it.  What handle_request does *)
(* with it is the subject of Snooping and Update; here it takes any time.  *)
(*                                                                         *)
(* One action is what a thread does from taking Protocol::lock to giving   *)
(* it up, by unlocking or by waiting on a condition variable.  A thread    *)
(* that waits is "asleep" until a signal, a broadcast or nothing at all    *)
(* makes it "woken", and then has to take the lock again.                  *)
(***************************************************************************)
EXTENDS Integers, Sequences, FiniteSets

CONSTANTS
  Core,       \* 0 .. num_cores - 1
  Traces,     \* trace files: sequences of lines [id, op, addr]
  NoAccess,   \* nothing taken from the mailbox yet
  BlockSize   \* 1 << Cache::block_bits

ASSUME DispatchAssumption ==
  /\ Core \subseteq Int /\ IsFiniteSet(Core)
  /\ BlockSize \in Nat \ {0}
  /\ \A tr \in Traces : tr \in Seq([id : Int, op : {"R", "W"}, addr : Nat])
  /\ NoAccess \notin [op : {"R", "W"}, addr : Nat]

VARIABLES
  trace,       \* the file being replayed
  reader,      \* the main thread
  localCount,  \* its local_count: the lines it has posted
  ready, requestId, request,  \* the mailbox; request is request_op, request_addr
  worker,      \* the request thread of each core
  access,      \* the op and addr it took last
  traceCount   \* Protocol::trace_count

vars == <<trace, reader, localCount, ready, requestId, request, worker, access, traceCount>>

mailbox == <<ready, requestId, request>>

\* Mutant of Block: the bits within the block are left.
BlockUnmasked(a) == a

\* addr & ~((1 << block_bits) - 1).
Block(a) == (a \div BlockSize) * BlockSize

Init ==
  /\ trace \in Traces
  /\ reader = "reading"
  /\ localCount = 0
  /\ ready = FALSE /\ requestId = 0 /\ request = NoAccess
  /\ worker = [c \in Core |-> "woken"]
  /\ access = [c \in Core |-> NoAccess]
  /\ traceCount = 0

\* An assert that fails ends every thread.
Running == reader # "aborted" /\ reader # "ended"

-----------------------------------------------------------------------------
(* The main thread: process_trace_file and process_mem_access.             *)

\* The next line, or the end of the file.
Read ==
  /\ reader = "reading"
  /\ reader' = IF localCount < Len(trace) THEN "posting" ELSE "counting"
  /\ UNCHANGED <<trace, localCount, mailbox, worker, access, traceCount>>

Line == trace[localCount + 1]

\* Mutant of Full: the mailbox is not tested.
FullNever == FALSE

\* The mailbox still holds the previous line.
Full == ready

HasTheLock == reader \in {"posting", "woken"}

ReaderSleeps ==
  /\ HasTheLock /\ Full
  /\ reader' = "asleep"
  /\ UNCHANGED <<trace, localCount, mailbox, worker, access, traceCount>>

\* Mutant of Notified: worker_cv is signalled, which wakes one thread only.
NotifiedOne == LET asleep == {c \in Core : worker[c] = "asleep"}
               IN IF asleep = {} THEN {} ELSE {CHOOSE c \in asleep : TRUE}

\* Whom the broadcast of worker_cv wakes.
Notified == {c \in Core : worker[c] = "asleep"}

Post ==
  /\ HasTheLock /\ ~Full /\ Block(Line.addr) # 0
  /\ ready' = TRUE /\ requestId' = Line.id
  /\ request' = [op |-> Line.op, addr |-> Block(Line.addr)]
  /\ worker' = [c \in Core |-> IF c \in Notified THEN "woken" ELSE worker[c]]
  /\ reader' = "reading"
  /\ localCount' = localCount + 1
  /\ UNCHANGED <<trace, access, traceCount>>

\* assert(addr), assert(request_addr): no line may name the first block.
Abort ==
  /\ HasTheLock /\ ~Full /\ Block(Line.addr) = 0
  /\ reader' = "aborted"
  /\ UNCHANGED <<trace, localCount, mailbox, worker, access, traceCount>>

AllCounted == localCount = traceCount

\* The spin at the end is over; main prints the metrics and returns.
End ==
  /\ reader = "counting" /\ AllCounted
  /\ reader' = "ended"
  /\ UNCHANGED <<trace, localCount, mailbox, worker, access, traceCount>>

-----------------------------------------------------------------------------
(* The request thread of c: request_worker.                                *)

ForMe(c) == ready /\ requestId = c

\* Mutant of Signalled: taking a request signals nobody.
SignalledNot == reader

\* trace_cv is signalled; only the reader waits on it.
Signalled == IF reader = "asleep" THEN "woken" ELSE reader

\* The head of the loop, with the lock held: c takes what is for it and goes
\* to handle it without the lock, or waits.
LoopHead(c) ==
  \/ /\ ForMe(c)
     /\ access' = [access EXCEPT ![c] = request]
     /\ ready' = FALSE
     /\ reader' = Signalled
     /\ worker' = [worker EXCEPT ![c] = "handling"]
     /\ UNCHANGED <<requestId, request>>
  \/ /\ ~ForMe(c)
     /\ worker' = [worker EXCEPT ![c] = "asleep"]
     /\ UNCHANGED <<access, mailbox, reader>>

\* The thread starts, or comes back from its wait.
Woken(c) ==
  /\ Running
  /\ worker[c] = "woken"
  /\ LoopHead(c)
  /\ UNCHANGED <<trace, localCount, traceCount>>

\* handle_request returns.
Handled(c) ==
  /\ Running
  /\ worker[c] = "handling"
  /\ worker' = [worker EXCEPT ![c] = "handled"]
  /\ UNCHANGED <<trace, reader, localCount, mailbox, access, traceCount>>

\* It is counted, and the lock is kept to the head of the loop.
Count(c) ==
  /\ Running
  /\ worker[c] = "handled"
  /\ traceCount' = traceCount + 1
  /\ LoopHead(c)
  /\ UNCHANGED <<trace, localCount>>

-----------------------------------------------------------------------------
\* A condition variable may wake a thread for no reason.
WakeSpuriously ==
  /\ Running
  /\ \/ /\ reader = "asleep" /\ reader' = "woken"
        /\ UNCHANGED worker
     \/ /\ \E c \in Core : worker[c] = "asleep" /\ worker' = [worker EXCEPT ![c] = "woken"]
        /\ UNCHANGED reader
  /\ UNCHANGED <<trace, localCount, mailbox, access, traceCount>>

Stopped == ~Running /\ UNCHANGED vars

Main == Read \/ ReaderSleeps \/ Post \/ Abort \/ End
Work(c) == Woken(c) \/ Handled(c) \/ Count(c)

Next ==
  \/ Main
  \/ \E c \in Core : Work(c)
  \/ WakeSpuriously
  \/ Stopped

Spec == Init /\ [][Next]_vars

\* Every thread that can run goes on running.
Fairness == WF_vars(Main) /\ \A c \in Core : WF_vars(Work(c))

FairSpec == Spec /\ Fairness
-----------------------------------------------------------------------------
(* Properties.                                                             *)

\* x is an access to the block, aligned and not the first, of some line.
OfTheTrace(x) ==
  /\ x.addr % BlockSize = 0 /\ x.addr # 0
  /\ \E i \in 1 .. Len(trace) :
       x.op = trace[i].op /\ trace[i].addr - x.addr \in 0 .. BlockSize - 1

\* The type invariant: what a core is given is an access of the trace.
TypeOK ==
  /\ reader \in {"reading", "posting", "asleep", "woken", "counting", "ended", "aborted"}
  /\ localCount \in 0 .. Len(trace) /\ traceCount \in 0 .. localCount
  /\ ready \in BOOLEAN
  /\ requestId \in {trace[i].id : i \in 1 .. Len(trace)} \cup {0}
  /\ request = NoAccess \/ OfTheTrace(request)
  /\ worker \in [Core -> {"asleep", "woken", "handling", "handled"}]
  /\ DOMAIN access = Core
  /\ \A c \in Core : access[c] = NoAccess \/ OfTheTrace(access[c])

\* Nobody sleeps through the wakeup that is meant for him, with a broadcast
\* to the workers and a signal to the reader: main waits only for a full
\* mailbox, and the core that the mailbox names does not wait.
NoLostWakeup ==
  /\ reader = "asleep" => ready
  /\ \A c \in Core : ready /\ requestId = c => worker[c] # "asleep"

\* Each line is handed over once, in the order of the file, to the core it
\* names and with its own operation and block, while the cores work at the
\* same time; and main ends only after the last of them has been handled.
Service == INSTANCE TraceService WITH
  trace   <- [i \in 1 .. Len(trace) |->
                [id |-> trace[i].id,
                 access |-> [op |-> trace[i].op, addr |-> Block(trace[i].addr)]]],
  taken   <- localCount - (IF ready THEN 1 ELSE 0),
  current <- [c \in Core |-> IF worker[c] = "handling" THEN access[c] ELSE NoAccess],
  ended   <- reader = "ended"

ImplementsService == Service!Spec

\* The program ends, whatever the interleaving, exactly when every line names
\* a core that exists; a line of the first block ends it by an assert, if no
\* line for a missing core hangs it first.
Hangs == \E i \in 1 .. Len(trace) : trace[i].id \notin Core
Asserts == \E i \in 1 .. Len(trace) : Block(trace[i].addr) = 0
EndsWhenItCan ==
  /\ ~Hangs /\ ~Asserts => <>(reader = "ended")
  /\ ~Hangs /\ Asserts => <>(reader = "aborted")
  /\ Hangs => [](reader # "ended")
=============================================================================
