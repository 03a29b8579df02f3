------------------------------- MODULE Tracer -------------------------------
(***************************************************************************)
(* Recording a trace: a program of src/programs runs under one of the Pin  *)
(* tools, which call an analysis routine before every access to memory.    *)
(*                                                                         *)
(* The programs (all but reader_writer) have one shape.  The main thread   *)
(* prepares its data, calls dummy_instr_start, creates the other threads,  *)
(* does its part of the work, joins the others and calls dummy_instr_end.  *)
(* The work is to increment shared cells, under a mutex or not.  A thread  *)
(* is the sequence of its steps; accesses to its own stack and to data     *)
(* that nobody writes are left out, except for one by main before the      *)
(* demarcated part and one after it.  So are those that the functions of   *)
(* pthread make to their own data, such as the words of the mutexes: the   *)
(* file has records of them too, between those the module speaks of.       *)
(***************************************************************************)
EXTENDS Integers, Sequences, SequencesExt, FiniteSets

CONSTANTS
  Tools, Programs,  \* the tools and the programs that a run covers
  NumThreads,       \* the first argument of every program
  Iterations,       \* num_iters of the add programs
  Numbers,          \* numbers of the fill_bucket programs: a sequence of buckets
  Nobody            \* the holder of a free mutex

ASSUME TracerAssumption ==
  /\ Tools \subseteq {"TraceFuncsList", "MyMemTracer"}
  /\ Programs \subseteq {"lock_add", "wild_add", "lock_fill_bucket", "wild_fill_bucket"}
  /\ NumThreads \in Nat \ {0} /\ Iterations \in Nat
  /\ Numbers \in Seq(Nat)
  /\ Nobody \notin 0 .. NumThreads - 1

Thread == 0 .. NumThreads - 1   \* 0 is main

VARIABLES
  tool, program,
  text,        \* the steps of each thread, as compiled
  at,          \* the next step of each thread; 0 until it is created
  instrument,  \* the flag of TraceFuncsList
  passed,      \* threads that have found the flag set and want the PIN lock
  trace,       \* the file
  mem,         \* the shared cells, counted from what they hold when the
               \* threads start: 0 in global_val, anything in the buckets
  reg,         \* what each thread has loaded
  holder       \* the mutex of each cell

build == <<tool, program, text>>
vars == <<build, at, instrument, passed, trace, mem, reg, holder>>

-----------------------------------------------------------------------------
(* The programs.                                                           *)

Locked == program \in {"lock_add", "lock_fill_bucket"}
Adds == program \in {"lock_add", "wild_add"}

\* global_val, or the buckets; and what main touches outside.
GlobalVal == 0
Cells == {GlobalVal} \cup ToSet(Numbers)
Outside == -1

\* Mutant of RangeStart: the ranges overlap by one.
RangeStartEarly(t) == IF t = 0 THEN 0 ELSE (Len(Numbers) \div NumThreads) * t - 1

RangeStart(t) == (Len(Numbers) \div NumThreads) * t

\* Mutant of RangeEnd: what does not divide evenly is left over.
RangeEndEven(t) == RangeStart(t) + Len(Numbers) \div NumThreads

RangeEnd(t) ==
  IF t = NumThreads - 1 THEN Len(Numbers) ELSE RangeStart(t) + Len(Numbers) \div NumThreads

\* The cells that t increments.
Work(t) ==
  IF Adds THEN [i \in 1 .. Iterations |-> GlobalVal]
  ELSE SubSeq(Numbers, RangeStart(t) + 1, RangeEnd(t))

Step(what, arg) == [do |-> what, arg |-> arg]

\* InstrumentInstruction: an operand that is read and written is recorded
\* twice before the instruction; a load and a store, if that is what the
\* compiler makes of an increment, are recorded one by one.
Increment(x, fused) ==
  IF fused THEN <<Step("R", x), Step("W", x), Step("load", x), Step("store", x)>>
  ELSE <<Step("R", x), Step("load", x), Step("W", x), Step("store", x)>>

\* Mutant of Guarded: the mutex is given up before the increment.
GuardedBriefly(x, fused) ==
  IF Locked THEN <<Step("lock", x), Step("unlock", x)>> \o Increment(x, fused)
  ELSE Increment(x, fused)

Guarded(x, fused) ==
  IF Locked THEN <<Step("lock", x)>> \o Increment(x, fused) \o <<Step("unlock", x)>>
  ELSE Increment(x, fused)

\* One turn of the loop after the other.
Body(t, fused) ==
  LET turn == Len(Guarded(GlobalVal, fused))
  IN [i \in 1 .. Len(Work(t)) * turn |->
        Guarded(Work(t)[(i - 1) \div turn + 1], fused)[((i - 1) % turn) + 1]]

ForOthers(what) == [t \in 1 .. NumThreads - 1 |-> Step(what, t)]

Text(t, fused) ==
  IF t # 0 THEN Body(t, fused)
  ELSE <<Step("W", Outside), Step("start", 0)>> \o ForOthers("create") \o Body(0, fused)
         \o ForOthers("join") \o <<Step("end", 0), Step("W", Outside)>>

Finished(t) == at[t] = Len(text[t]) + 1

-----------------------------------------------------------------------------
Init ==
  /\ tool \in Tools /\ program \in Programs
  /\ \E fused \in BOOLEAN : text = [t \in Thread |-> Text(t, fused)]
  /\ at = [t \in Thread |-> IF t = 0 THEN 1 ELSE 0]
  /\ instrument = FALSE
  /\ passed = {}
  /\ trace = <<>>
  /\ mem = [x \in Cells |-> 0]
  /\ reg = [t \in Thread |-> 0]
  /\ holder = [x \in Cells |-> Nobody]

Now(t) == text[t][at[t]]

\* t is about to do this.
AtStep(t, kinds) == at[t] # 0 /\ ~Finished(t) /\ Now(t).do \in kinds
Arg(t) == Now(t).arg

GoOn(t) == at' = [at EXCEPT ![t] = @ + 1]

\* Mutant of Records: the flag is not looked at.
RecordsAlways == TRUE

\* The tool MyMemTracer has no flag.
Records == tool = "MyMemTracer" \/ instrument

\* The test at the head of RecordMemRead and RecordMemWrite.
TestFlag(t) ==
  /\ AtStep(t, {"R", "W"}) /\ t \notin passed
  /\ IF Records THEN passed' = passed \cup {t} /\ UNCHANGED at
                ELSE GoOn(t) /\ UNCHANGED passed
  /\ UNCHANGED <<build, instrument, trace, mem, reg, holder>>

\* The rest of them, under the PIN lock: fprintf and fflush.
PrintRecord(t) ==
  /\ t \in passed
  /\ trace' = Append(trace, [tid |-> t, op |-> Now(t).do, addr |-> Arg(t)])
  /\ passed' = passed \ {t}
  /\ GoOn(t)
  /\ UNCHANGED <<build, instrument, mem, reg, holder>>

\* The instruction itself: an increment is a load and a store.
Load(t) ==
  /\ AtStep(t, {"load"})
  /\ reg' = [reg EXCEPT ![t] = mem[Arg(t)]]
  /\ GoOn(t)
  /\ UNCHANGED <<build, instrument, passed, trace, mem, holder>>

Store(t) ==
  /\ AtStep(t, {"store"})
  /\ mem' = [mem EXCEPT ![Arg(t)] = reg[t] + 1]
  /\ GoOn(t)
  /\ UNCHANGED <<build, instrument, passed, trace, reg, holder>>

Lock(t) ==
  /\ AtStep(t, {"lock"}) /\ holder[Arg(t)] = Nobody
  /\ holder' = [holder EXCEPT ![Arg(t)] = t]
  /\ GoOn(t)
  /\ UNCHANGED <<build, instrument, passed, trace, mem, reg>>

\* Mutant of HolderAfter: the mutex is not given up.
HolderAfterKeeping(t) == t

HolderAfter(t) == Nobody

Unlock(t) ==
  /\ AtStep(t, {"unlock"})
  /\ holder' = [holder EXCEPT ![Arg(t)] = HolderAfter(t)]
  /\ GoOn(t)
  /\ UNCHANGED <<build, instrument, passed, trace, mem, reg>>

\* dummy_instr_start and dummy_instr_end, with the calls that Routine of
\* TraceFuncsList inserts: StartInstr and StopInstr.
Demarcate ==
  /\ AtStep(0, {"start", "end"})
  /\ instrument' = (tool = "TraceFuncsList" /\ Now(0).do = "start")
  /\ GoOn(0)
  /\ UNCHANGED <<build, passed, trace, mem, reg, holder>>

Create ==
  /\ AtStep(0, {"create"})
  /\ at' = [at EXCEPT ![0] = @ + 1, ![Arg(0)] = 1]
  /\ UNCHANGED <<build, instrument, passed, trace, mem, reg, holder>>

\* Mutant of Joinable: main does not wait.
JoinableAtOnce(t) == TRUE

Joinable(t) == Finished(t)

Join ==
  /\ AtStep(0, {"join"}) /\ Joinable(Arg(0))
  /\ GoOn(0)
  /\ UNCHANGED <<build, instrument, passed, trace, mem, reg, holder>>

\* The program has exited, and Fini has closed the file.
Exited == Finished(0) /\ UNCHANGED vars

Main == Demarcate \/ Create \/ Join
Run(t) == TestFlag(t) \/ PrintRecord(t) \/ Load(t) \/ Store(t) \/ Lock(t) \/ Unlock(t)

Next ==
  \/ Main
  \/ \E t \in Thread : Run(t)
  \/ Exited

Spec == Init /\ [][Next]_vars

\* Every thread that can run goes on running.
Fairness == WF_vars(Main) /\ \A t \in Thread : WF_vars(Run(t))

FairSpec == Spec /\ Fairness
-----------------------------------------------------------------------------
(* Properties.                                                             *)

\* How often the threads increment a cell in all.
Increments(x) ==
  IF Adds THEN IF x = GlobalVal THEN NumThreads * Iterations ELSE 0
  ELSE Cardinality({i \in 1 .. Len(Numbers) : Numbers[i] = x})

\* The type invariant: no cell is raised by more than there is to count.
TypeOK ==
  /\ tool \in Tools /\ program \in Programs
  /\ \A t \in Thread : at[t] \in 0 .. Len(text[t]) + 1
  /\ instrument \in BOOLEAN
  /\ passed \subseteq Thread
  /\ trace \in Seq([tid : Thread, op : {"R", "W"}, addr : Cells \cup {Outside}])
  /\ \A x \in Cells : mem[x] \in 0 .. Increments(x) /\ holder[x] \in Thread \cup {Nobody}
  /\ DOMAIN reg = Thread

\* "Count instructions only for demarcated part of program": what the file
\* has of a thread is what the thread has accessed, or is about to access,
\* in its own order, within the demarcated part; and of a tool without the
\* flag, everywhere.
Demarcated(step) ==
  step.do \in {"R", "W"} /\ (tool = "MyMemTracer" \/ step.arg # Outside)

\* The how-manieth of S is i.
Rank(i, S) == Cardinality({k \in S : k <= i})

TraceIsFaithful ==
  \A t \in Thread :
    LET accesses == {i \in 1 .. at[t] - 1 : Demarcated(text[t][i])}
        records == {j \in DOMAIN trace : trace[j].tid = t}
    IN /\ Cardinality(records) = Cardinality(accesses)
       /\ \A i \in accesses, j \in records : Rank(i, accesses) = Rank(j, records) =>
            trace[j].op = text[t][i].do /\ trace[j].addr = text[t][i].arg

\* A record is printed before the access and apart from it.  Still, the trace
\* of a program with mutexes shows its critical sections one by one: the
\* record of a cell before a write is the read of the same thread, and the
\* one before a read is not another read.
CriticalSectionsWhole ==
  Locked => \A x \in Cells :
    LET records == {j \in DOMAIN trace : trace[j].addr = x}
        Between(i, j) == {k \in records : i < k /\ k < j}
    IN \A j \in records :
         /\ trace[j].op = "W" =>
              \E i \in records : /\ i < j /\ Between(i, j) = {}
                               /\ trace[i].op = "R" /\ trace[i].tid = trace[j].tid
         /\ trace[j].op = "R" =>
              \A i \in records : i < j /\ trace[i].op = "R" => Between(i, j) # {}

\* The ranges of the threads cover all the numbers once, and under the
\* mutexes no increment is lost: each cell ends as much above its first value
\* as there are increments of it, which is what the sum that lock_fill_bucket
\* has commented out would show if the buckets were set to zero.
NoIncrementLost ==
  Finished(0) /\ Locked => \A x \in Cells : mem[x] = Increments(x)

\* The flag is read without the PIN lock, which is no race as long as main
\* changes it only when it is the one thread there is.
FlagChangesAlone ==
  [][instrument' # instrument => \A t \in Thread \ {0} : at[t] = 0 \/ Finished(t)]_vars

\* The traced program exits; the tool never makes it hang.
RunEnds == <>Finished(0)
=============================================================================
