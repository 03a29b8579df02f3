# Verification of CacheSim

CacheSim (`src/CacheSim`) replays a memory trace through a set of simulated
caches kept coherent by a snooping protocol chosen on the command line: MSI,
MESI, MOSI, MOESI, Dragon or CompSnooping.  It is a multi-threaded program:
every simulated core has a *request thread* and a *response thread*, the
simulated memory has a thread, and the main thread reads the trace.  They meet
on mutexes, condition variables and static variables.

This directory holds TLA+ models of that program, the TLC runs that check them
on small instances, and proofs that TLAPS checks for every instance.

    tlc -workers 2 -config MCSnooping.cfg MCSnooping     # a run
    tlapm BusProofs.tla                                  # the proofs of one module

`PROJECT.json` lists the runs with their properties, the lines of code each
definition stands for, the mutants that show each property can fail, the
hazards the properties are aimed at, the findings and the theorems.


## 1. Inventory

### The trace reader and the mailbox (`main.cpp`, `Protocol.cpp`)

*State.* A one-place mailbox `ready`, `request_id`, `request_op`,
`request_addr` under `Protocol::lock`, with the condition variables `trace_cv`
(the reader waits for the mailbox to empty) and `worker_cv` (the request
threads wait for it to name them); the counters `trace_count`,
`bus_transactions`, `mem_reqs`, `mem_write_backs`, `cache_transfers`.

*Operations.* `process_mem_access` fills the mailbox; every `request_worker`
empties it when it carries its own id, handles the access with the lock
released and adds one to `trace_count`; `process_trace_file` spins until
`trace_count` equals the number of lines read.

*Hard.* One waiting reader and many waiting workers, a broadcast and a signal;
an access for a busy core blocks all the others behind it; termination.

*Correct if* every access is handled exactly once by the core it names, in
trace order for each core, main does not end before, and the program ends
whenever every line names a core that exists.

### The snooping caches (`MSI`, `MESI`, `MOSI`, `MOESI`, `Dragon`, `CompSnooping`)

*State, per core.* A `Cache`, `pending_addr` (the address being fetched from
memory), `opt` (the operation last issued), a mutex `lock`.

*Operations.* `handle_request` looks the line up under `lock`; a hit ends there.
Otherwise it takes `Bus::req_lock` and then `lock`, looks the line up again,
broadcasts an operation, waits for every other core to answer, and then
upgrades the line or inserts it and perhaps goes to memory with the locks
released.  In the four invalidation protocols a core may be *refused*
(`recv_nak`) and tries again.  `response_worker` waits for the bus to set its
`pending_work` flag, changes its line as the protocol's switch says, records
what it has to say in `owner_id`, `read_ex` or `recv_nak`, and counts itself.

*Hard.* The lookup that decides on a bus transaction is made before the bus is
won.  Response threads read `Bus::addr` and `Bus::opt` and write the answers
under different locks.  A refused operation has already taken effect in the
caches that did not refuse.  A line is in the cache before its data is.  The
write miss of the update protocols gives up the bus in the middle.

*Correct if* at every instant a Modified or Exclusive line is the only copy and
a line has at most one Owner; no `assert` fails; no line is taken away while it
is being fetched, and no refusal loses the only good copy; every access is
completed.

### The bus (`Bus.cpp`)

*State.* `req_lock`, which serialises transactions; `resp_lock` with `resp_cvar`
(response threads wait for work) and `req_cvar` (the requester waits for the
last answer); `addr`, `opt`, `recv_nak`, `read_ex`, `owner_id`, `resp_count`,
`pending_work`.

*Operations.* `wait_for_responses` for the requester, the two ends of the loop
of `response_worker` for the others.

*Correct if* each transaction collects exactly one answer from every other core,
none is counted in another transaction, `addr` and `opt` stand still while they
are read, and nobody sleeps through the wakeup meant for him.

### The memory (`Memory.cpp`)

*State.* `req_table`, a list of pointers to `MemRequest`s that live on the stacks
of their callers, each with `done`, `waiters` and a condition variable; the
worker's condition variable; `mem_reqs`.

*Operations.* `request` joins the entry of its address or appends one, and waits;
`memory_worker` serves the head of the list, after a latency with the lock
released.

*Hard.* The owner of a request and those that joined it share one condition
variable, and the last of them wakes the owner with a *signal*; the request
is gone as soon as the owner returns; the worker is signalled only when the
list becomes non-empty.

*Correct if* no pointer dangles, no wakeup is lost, simultaneous misses of one
address cost one fetch, and every call returns.

### The cache (`Cache.cpp`)

*State.* The number of sets and of ways and the masks, fixed by `-s` and `-a`; sets
of ways, each with tag, status, last use, and the counter of CompSnooping.

*Operations.* Look up, set a status, record a use, insert (evicting from a full
set), and the three operations on the counter.

*Hard.* Lookups compare tags and not validity, and an invalidated way keeps its
tag; tag 0 is the tag of a way never used and also of real addresses; set and tag
are cut out of the address by two masks computed apart.

*Correct if* the cache behaves as a map from addresses to states, evicts the least
recently used line and counts the write-backs of dirty lines.

### The tools and the programs they trace (`MyMemTracer`, `programs`)

*State.* Of a tool: the file, the PIN lock and, in `TraceFuncsList`, the flag
`instrument`.  Of a program: its threads, the shared cells they increment
(`global_val`, `buckets`) and perhaps mutexes.

*Operations.* A call before every read and every write prints a line with the
thread, `R` or `W`, and the address; in `TraceFuncsList` only while the flag is
set, which calls at `dummy_instr_start` and `dummy_instr_end` do.

*Hard.* The flag is tested without the lock; a record is printed before the access
and apart from it, so that other threads come in between.

*Correct if* the file has the accesses of the demarcated part and no others, those
of each thread in its order and those of critical sections one section at a time.

### What else there is

`reader_writer` (a program whose threads spin), `run_pintool.sh`, the generators
and the traces in `src/traces`.  They are not modelled (section 6).


## 2. Modules

| Module | Models | Extends or instantiates |
|---|---|---|
| `CacheStates` | the enumerations | |
| `MSI`, `MESI`, `MOSI`, `MOESI` | what the switches of one class say of one line: hit, operation issued, state inserted, and for a snoop the state left and the answer | `CacheStates` |
| `Snooping` | request and response threads of the four invalidation protocols, with the bus between them | the four tables |
| `Update` | the same for Dragon and CompSnooping | `CacheStates` |
| `Bus` | the handshake: `req_lock`, `obj->lock`, `resp_lock` and the two condition variables | `BusService` |
| `BusService` | abstract specification: what a transaction is | |
| `Memory` | `Memory::request` and `memory_worker` | `MemoryService` |
| `MemoryService` | abstract specification: what `Memory::request` promises | |
| `Cache` | one cache: `cache_init`, the split of an address, the operations on the ways | `LineMap` |
| `LineMap` | abstract specification: what the protocols take a cache to be | |
| `Dispatch` | main reading the trace, the mailbox of `Protocol`, the loops of the request threads | `TraceService` |
| `TraceService` | abstract specification: what replaying a trace means | |
| `Tracer` | a program of `src/programs` running under one of the Pin tools | |
| `SnoopingProofs`, `UpdateProofs`, `BusProofs`, `MemoryProofs`, `CacheProofs`, `DispatchProofs`, `TracerProofs` | theorems about the module of that name (section 4) | that module |
| `MCSnooping`, `MCUpdate`, `MCBus`, `MCMemory`, `MCCache`, `MCDispatch`, `MCTracer` | the constants of the runs | |

### Snooping

An action is a critical section.

| Action | Code |
|---|---|
| `Accept` | `request_worker` takes an access from the mailbox |
| `Lookup` | the part of `handle_request` under `obj->lock` alone |
| `Request` | from taking `req_lock` to the wait in `wait_for_responses` |
| `Refused`, `Upgraded`, `Filled` | from the end of that wait to releasing the locks |
| `Fetched` | after `Memory::request` |
| `Snoop` | the body of `response_worker` under `obj->lock` |
| `Reply` | its end, under `resp_lock` |

The requester holds `req_lock` and its own `obj->lock` from `Request` to the end
of the transaction, and no response thread wants that `obj->lock` meanwhile,
because the requester is not asked; so `reqLock` stands for both.  Between
`Request` and the end the fast paths and snoops of all other cores interleave.

`Snoop` and `Reply` are two actions because the lock changes hands in between.
Within a `Snoop` the fields of `Bus` are written without a common lock; since
all response threads write the same values to `read_ex` and `recv_nak`, and
any of the values written to `owner_id` is as good as another (it is only
compared with -1), the order in which concurrent snoops write does not matter
and one order for each interleaving of the actions covers them.

The four classes differ only in their switches, which are the operators of the
four table modules; `Snooping` picks the table by `protocol`, as
`Protocol::initialize` picks the class.  A failing `assert` is a missing step:
`Request` and `Snoop` have the assertion as a guard and `AssertionsHold`
states that the guard never blocks.  Deadlock is checked.

`pending_addr` and `opt` are never initialised in the code.  `InitialPending` says
what they may hold: zero, as on fresh memory, or anything.  Of `opt` only
the comparison with `BusRd` matters, which is what `Init` leaves open.
`StaleRefusal` speaks of a `pending_addr` without a fetch, whether it was never
initialised or left behind (section 5).

The cache is a map from addresses to states, where an insertion into a full set
puts out *some* other line; `Cache` shows that `Cache.cpp` behaves like that.
`Memory::request` is a wait of any length; `Memory` shows that it returns.

### Update

The structure is that of `Snooping`, without refusals.  A write miss is
`Request` (BusRd), `WriteMiss` (release, with the answer kept in a local
variable), perhaps `Fetched`, and then `InsertAlone` or `InsertShared` and
`UpdateSent`.  `counter` is `CacheLine::counter`, which the request thread of a
core raises and a snooped update lowers; CompSnooping gives a copy up where
Dragon keeps it (`GivesUp`).  A failed assert, which the
code does reach, stops the program (`AssertFails`); any other standstill is a
deadlock, which is checked.  As no step of an access is ever repeated, this also means that
every access completes.

`raced` is a history variable.  It becomes true when a core broadcasts an
operation on a line that another core is about to insert: the line is then
out of reach of the snoop.  See section 5.  `pending_addr` starts as in `Snooping`; here it
decides only whether a copy supplies the line.

### Bus

`Snooping` and `Update` let a requester go on when the count is complete and a
response thread when it has work.  `Bus` is the same handshake with the
mutexes and condition variables that bring this about, and without the cache
lines; the operation on the bus is only its serial number.  `reqLock` and `objLock` are
variables, since those mutexes are held while others are asked for.  What a
thread does while it holds `resp_lock` is one action, as it asks for no other
lock meanwhile.  A response thread that goes from its answer to the head of its
loop keeps `resp_lock`, so `Reply` includes the test there.  The lock that a
request thread takes after `Memory::request`, alone and for one assignment, is that of
a lookup which hits.

`serial` is read at the beginning of a snoop (`seen`), and `SnoopsOneTransaction`
says it is still the same when the answer is counted.  `BusService` is a
requester and the set of those that have answered; in the refinement a transaction
lasts from `Post` to `EndTransaction`, and the cores that have answered are those
without pending work.

### Memory

One action is what a thread does from getting `Memory::lock` to giving it up.  A
thread blocked on a condition variable is `"asleep"`; a signal wakes one of those
on that variable, chosen by the model, a broadcast all of them, and nothing at all
may wake any of them at any time (`WakeSpuriously`).  A woken thread still has to
take the lock, which others may do first.  A `MemRequest` is named by the core
whose stack it is on, and `Finish` destroys it.  The latency is the time that
the worker spends `"busy"`.

`MemoryService` knows neither threads nor wakeups: a queue of distinct addresses,
a step that serves the head for everybody who asked for it, a return for those
that have been served.  `Memory` implements it with `wanted`, `served` and `queue`
read off the requests (`ImplementsService`).

### Cache

`Init` is `cache_init`: 64 lines for each unit of `-s`, shared out among sets of `-a`
ways, and no initial state where the assert for a power of two fails.  The
masks are the arithmetic they stand for: `set_mask` selects the remainder by
`num_set` of the block number, the tag mask the quotient by
2^(`set_bits` + `block_bits`).  `sets` has the sets that `Addr` can touch; the
others stay empty.  The operations scan and stop at the first way that carries
the tag, valid or not.  They are called in the order the protocols call
them: insertion after a lookup that said `Invalid`, the others after one that did
not.  `LineMap` is the map that `Snooping` and `Update` assume (`InsertLine`); the
refinement maps an address to what a lookup says of it.

`CacheAssumption` leaves out two inputs that the asserts let pass: no set at all
(`-a` above 64 times `-s`; zero passes for a power of two, and every access then
indexes an empty vector), and caches so large that the int `1 << (set_bits +
block_bits)` overflows: whenever the number of sets is 2^n, n + `BlockBits` is at
most 30.  `PowersOfTwo` is a fact of arithmetic on such n that the provers do not
have; it mentions nothing of the cache, and TLC evaluates all of it.  The unit of `-s` is 64 lines of 64 bytes, 4 KB, where
the usage text (main.cpp:24) and Cache.h:64 say MB.

### Dispatch

| Action | Code |
|---|---|
| `Read` | the head of the loop of `process_trace_file` |
| `ReaderSleeps`, `Post`, `Abort` | `process_mem_access`: the mailbox is full; it is filled; an assert fails |
| `End` | the spin on `trace_count` is over, main returns |
| `Woken` | a request thread gets `Protocol::lock`, at its start or from its wait |
| `Handled` | `handle_request` returns |
| `Count` | the access is counted, up to the next wait or access |

One action is what a thread does while it holds `Protocol::lock`, and threads
sleep and wake as in `Memory`.  `LoopHead`, the test at the head of the loop of
`request_worker`, is part of `Woken` and of `Count`, because a thread that comes
back from an access keeps the lock up to there.  `handle_request` is a wait of any
length, during which main goes on; that it ends is `EveryAccessCompletes`.

The trace is chosen in the beginning.  `BlockSize` is 64 in the run, as in the
code, and any positive number in the proofs.  A line may name a core that does not exist
(the default of `-c` is 1 and the traces name up to 16) or an address of the
first block, which the asserts forbid.  `TraceService` has neither mailbox nor
threads: a position in the file and what each core is working on.  It is
implemented with the lines mapped to their blocks, so the refinement says who gets
which access, in which order, and that main ends after the last of them.

### Tracer

A thread is the sequence of its steps (`text`), which the module derives from the
program: what `Work` gives it to increment, each increment with or without the
mutex, one turn of the loop after the other (`Body`), and for main the frame
around it.  An increment is one instruction or two,
as the compiler may choose: in the first case both records come before the load.
`TestFlag` and `PrintRecord` are the two halves of `RecordMemRead` and
`RecordMemWrite`; the second is one action, since it is done under the PIN lock and
flushed there.  In `MyMemTracer` there is no flag.  An access of main
before `dummy_instr_start` and one after `dummy_instr_end` stand for everything
outside the demarcated part.  A failing `pthread_create` is left out.

`TraceIsFaithful` compares by rank: a thread has as many records as accesses made
in the demarcated part, and its n-th record is of its n-th access.
`CriticalSectionsWhole` looks at the records of one cell: right before a write is
the read of the same thread, and right before a read is no other read.

`mem` counts from what the cells hold in the beginning: `buckets` comes from `new int[]`
and is never set, so what a bucket holds in the end is that plus `mem`.  The
functions of pthread access mutexes and their own data within the demarcated
part, and the tools record that too; the model has no such records, and the
properties say nothing about them.

That Pin calls a routine before each access of a thread, and that its lock is a
lock, is assumed.  The traces of `Dispatch` are what these tools write: whole
lines with thread ids counted from 0.


## 3. Runs

| Run | Instance | What it shows |
|---|---|---|
| `snooping` | 3 cores, 2 addresses in one set of 1 way, 6 accesses, 4 protocols | coherence, no failing assert, nothing lost during a fetch or by a refusal, the bus stands still while it is snooped, no deadlock |
| `snooping_liveness` | 3 cores, 1 address, 4 accesses, 4 protocols, any initial `pending_addr` | every access completes, unless a stale `pending_addr` refuses somebody for ever |
| `snooping_stale_pending` | 3 cores, 6 accesses, MSI | *violation*: see section 5 |
| `update` | 3 cores, 2 addresses in one set of 1 way, 5 accesses, both protocols, any initial `pending_addr` | coherence and asserts outside the write window, counters never brought to zero |
| `update_window` | 2 cores, 1 address, 4 accesses, Dragon | *violation*: see section 5 |
| `bus` | 3 cores, 4 accesses or retries | no lost wakeup, no deadlock, one transaction at a time with one answer from everyone, implements `BusService`, every request gets through |
| `memory` | 4 callers, 2 addresses, 5 calls | lifetime of requests, no lost wakeup, one fetch per address, implements `MemoryService`, every call returns |
| `cache` | 64 sets of 1 way, 32 of 2, 64 of 3; 4 addresses, 4 uses of a set | masks and scans implement `LineMap`; a valid way is never hidden by a stale tag |
| `cache_lru`, `cache_writeback` | the same | *violations*: see section 5 |
| `dispatch` | 3 cores, all traces of up to 4 lines, some for a missing core or the first block | no lost wakeup, implements `TraceService`, main ends exactly when it can |
| `tracer` | 2 tools, 4 programs, 3 threads, 1 increment each or 4 numbers to share | the file is faithful to the demarcated part, critical sections are whole in it, no increment is lost, the flag is never raced, the program exits |

### Bounds and why they are enough

* *Three cores.* A transaction concerns a requester, a core that answers and, for
  refusals, a third whose copy is affected while another refuses.  Two answers
  can arrive in either order, and one can be missing while the other is in.
* *Two addresses competing for one way.* Every insertion that finds the way taken
  evicts, so every line can disappear at every point where its own core
  inserts another; two independent lines are also enough to confuse
  `pending_addr` with `Bus::addr`.
* *The length of the trace* (`MaxAccesses`).  Six accesses let each core miss,
  upgrade and be invalidated, and are enough to leave a stale `pending_addr`.
  Three updates of one copy are needed for CompSnooping to give it up
  (`CLINE_CTR_THRESH` is 3), which five accesses allow after two reads.
* *Four accesses or retries* on the bus: each core asks once, and one of them again
  while the answers to the others are still being counted.
* *Four callers* of the memory: two requests with a joiner each, or one with three.
* *One address* in `snooping_liveness`: all refusals and retries are about one line,
  and three cores contending for it are the worst there is.  A refusal leaves a
  stale `pending_addr` behind only when two addresses compete for a way (that is
  in `snooping`); here the initial values stand for it, and without the exception
  for them TLC finds the property violated.
* *Shapes of the cache.*  Real values of `-s` and `-a`.  Three of the four blocks fall in one
  set in all shapes and the fourth with them where there are 32 sets, so a bit
  assigned wrongly to set or tag makes two of them one.  The tag 0 of an unused
  way is among them; one and two ways overflow, and with three ways a stale tag can be before and
  behind a valid one.
* *Four lines*: one access handled, one in the mailbox, one that main waits to post,
  for the same core, and one for another core behind them.
* *Three threads*: two that interleave anywhere while main creates or joins; one
  increment each, and two for the thread that takes the remainder of four numbers.

For the safety properties and the refinements none of these bounds matters: they
are theorems (section 4).  Symmetry of cores and addresses is used in the runs that check
no liveness.

### Fairness

Weak fairness of every step of every thread, except those that take a new access, since the trace may
end anywhere, and the spurious wakeups, on which nothing may depend.  This is
what the scheduler of the operating system gives: a thread that can run
eventually does.  For steps that take a mutex it says that a thread gets a mutex that stays
free; a thread that could be overtaken for ever is not assumed to win.  As
the trace is finite and a refused core cannot spin without the fetching core
being able to proceed, that is enough.  `EveryAccessCompletes` has an exception,
spelled out in the formula (`StaleRefusal`): a core with a `pending_addr` that it is not
fetching can refuse others for ever (section 5).  It is an exception only for runs
in which that lasts for ever; a stale `pending_addr` that goes away excuses nothing.

### Mutants

Every property of a passing run has a mutant: a plausible bug in one definition
under which TLC finds the property violated.  The operators whose comment
starts with "Mutant of" are these forms; nothing else uses them.


## 4. Proofs

Every invariant and action property that the passing runs check is a theorem, and
so are the four refinements: they hold for every value of the constants, for
any number of cores, threads and addresses and traces of any length.

| Module | Theorem | Says |
|---|---|---|
| `SnoopingProofs` | `TypeCorrect` | `Spec => []TypeOK` |
| | `Coherence` | `Spec => []Coherent` |
| | `NoAssertFails` | `Spec => []AssertionsHold` |
| | `BusStandsStill` | `Spec => BusHeldStill` |
| | `FetchedLineIsKept` | `Spec => []FetchedLineStays`, if `pending_addr` starts as zero |
| | `RefusalIsHarmless` | `Spec => []RefusalLosesNoData`, if `pending_addr` starts as zero |
| `UpdateProofs` | `TypeCorrect` | `Spec => []TypeOK` |
| | `CountersPositive` | `Spec => []CountersStayPositive`, raced or not |
| | `CoherenceUnlessRaced` | `Spec => []CoherentUnlessRaced` |
| | `NoAssertFailsUnlessRaced` | `Spec => []AssertionsHoldUnlessRaced` |
| `BusProofs` | `TypeCorrect` | `Spec => []TypeOK` |
| | `NobodyOversleeps` | `Spec => []NoLostWakeup` |
| | `OneTransactionSnooped` | `Spec => []SnoopsOneTransaction` |
| | `EndIsSnooped` | `Spec => []EndMeansSnooped` |
| | `Refinement` | `Spec => ImplementsService` |
| `MemoryProofs` | `TypeCorrect` | `Spec => []TypeOK` |
| | `NoPointerDangles` | `Spec => []RequestsLive` |
| | `WaitersAreCounted` | `Spec => []WaitersCounted` |
| | `NobodyOversleeps` | `Spec => []NoLostWakeup` |
| | `FetchedOnce` | `Spec => []OneRequestPerAddress` |
| | `Refinement` | `Spec => ImplementsService` |
| `CacheProofs` | `TypeCorrect` | `Spec => []TypeOK` |
| | `ValidFound` | `Spec => []ValidIsFirstMatch` |
| | `InsertNeverAsserts` | the assert of `insert_cache` cannot fail after a lookup that said `Invalid` |
| | `Refinement` | `Spec => ImplementsMap` |
| `DispatchProofs` | `TypeCorrect` | `Spec => []TypeOK` |
| | `NobodyOversleeps` | `Spec => []NoLostWakeup` |
| | `MissingCoreNeverEnds` | main does not end a trace with a line for a missing core |
| | `Refinement` | `Spec => ImplementsService` |
| `TracerProofs` | `TypeCorrect` | `Spec => []TypeOK` |
| | `FileIsFaithful` | `Spec => []TraceIsFaithful` |
| | `SectionsWhole` | `Spec => []CriticalSectionsWhole` |
| | `NothingLost` | `Spec => []NoIncrementLost` |
| | `FlagNotRaced` | `Spec => FlagChangesAlone` |

The theorem `Invariance` of a module states its inductive invariant, on which the
others rest.  The assumptions are the `ASSUME`s of the modules, all of which the runs
evaluate: finite sets of cores, special values that are not members, and numbers
of the right kind.  Those that exclude something the program accepts are that
there is a core (`SnoopingAssumption`, `UpdateAssumption`, `BusAssumption`) and the two
of `CacheAssumption` (section 2).

### The caches: `Snooping`

All but the two that say so hold for every `InitialPending`, so also for
uninitialised memory.

*Why coherence needs more than itself.*  When a requester makes its line Modified it
looks only at a counter and two flags.  That no other cache has the line follows
from the history of the transaction, which the invariant has to remember:

    IInv == TypeOK /\ Coherent /\ LockHeld /\ Transaction /\ Answers

`LockHeld`: the holder of `req_lock` is the one core that waits, and without a
holder nobody has work.  `Transaction`: the bus carries the holder's address, its
line is as it was when it asked, and the answers counted and the cores still to
answer add up to `num_cores - 1`.  `Answers`: as long as nobody has refused, a
core that has snooped still keeps the promise it made: it has no copy, after
an operation that takes the line; no sole copy, after a BusRd; no copy at all,
after a BusRd that left `read_ex` true in a protocol that reads it.  No core can
break such a promise, because a hit never makes a line out of nothing and a miss
needs the bus.  When the count is complete the set of cores still to answer
is empty (`AnsweredMeansAll`), so the promises are those of all other cores.

*Layout.*  Lemmas about the four tables come first (`HitFacts`, `IssueFacts`,
`FillFacts`, `SnoopFacts`): they are all that the rest knows of the protocols.
Then counting of answers, one lemma for each action, and the theorems.
`NoAssertFails` strengthens `IInv` by the fact that a core on its way to the
bus still has a line the bus is called for.  `RefusalIsHarmless` needs two more
promises of the cores that have answered (`DataAnswers`): none of them is dirty
if nobody supplied, and none of them is fetching the line if it is to be taken.

### The caches: `Update`

    IInv == BookInv /\ (~raced => CoherenceInv)

`BookInv` is the bookkeeping of the bus and holds whatever happens: the count, the
lock, what the operation on the bus says about its issuer, and that no counter is
zero while the line is valid.  `CoherenceInv` is what a race destroys: `Answers`, as
in `Snooping`; `Windows`, what is known of the others while a write miss is between
its BusRd and the insertion; and `Coherence` proper, in which two ShModified copies
may coexist only while one of them still has to see the update of the other.  The
condition `~raced` is on the invariant and not on the steps: a step that races is one
after which nothing is claimed of coherence, and that is the whole of what the
code loses.

### The bus

    IInv == TypeOK /\ Locks /\ Transaction /\ Busy /\ Accounted
              /\ NoLostWakeup /\ SnoopsOneTransaction

`Locks` ties each mutex to the places of the thread that holds it.  `Transaction`:
while a requester waits, the answers counted and the cores with pending work add
up to the number of the others, and whoever has no pending work has seen the
present `serial`.  From these, a response that is counted is counted in the
transaction it belongs to, and it is the last one exactly when the count is
complete, so the one signal of `req_cvar` is neither early nor missing.  `Accounted`
bounds `serial` by the requests made, for the type.

### The memory

    IInv == TypeOK /\ RequestsLive /\ WaitersCounted /\ NoLostWakeup
              /\ OneRequestPerAddress /\ Bookkeeping

The properties support each other.  That the owner of a request leaves only when
`waiters` is zero says that nobody uses the request afterwards only if `waiters` counts
them all; the count is kept only if a request found in the table is alive; and
the single signals suffice only because done, waiters and the table agree
(`Bookkeeping`: a request is done or in the table, and the worker is busy only with
a table that is not empty).

### The cache

    IInv == Types /\ Owned /\ ValidIsFirstMatch

`Owned`: the tag of a valid way is that of a block of its set.  The arithmetic comes
first: set and tag determine the block (`PowersOfTwo` and the division of an address
by the two masks), so two blocks of a set differ in their tags.  Then a scan that
stops at the first tag finds the valid line if there is one; an
insertion, which takes place only after a scan has found no valid line with this
tag, keeps that true wherever it puts the line.  The refinement is proved
operation by operation.

### The mailbox

    IInv == Types /\ Accounted /\ ReaderPosition /\ Mailbox /\ Genuine
              /\ Delivered /\ NoLostWakeup

`Accounted`: the lines posted are those counted, those being handled and the one in
the mailbox.  `Mailbox`: what is in it is the last line posted, with its address
rounded to a block.  `Genuine`: what a core works on comes from the trace.
`Delivered`: every line that has left the mailbox was for a core that exists, which
gives `MissingCoreNeverEnds`; a line for a missing core stays in the mailbox.

### The tools

The invariant has layers, each inductive given those before it.

* `Course`: types, main's place in relation to those of the threads that it creates and
  joins, the flag set exactly from start to end, and a thread that has passed the
  test is at a demarcated access.  `FlagNotRaced` follows.
* `Faithful(t)`: the accesses and the records of one thread correspond by rank.  A
  thread makes no access while its own record is to be printed, so an access and
  its record get the same rank, whatever the others print in between.
* `Mutex`: who holds a mutex is between its lock and its unlock.
* `Sections`: the last record of a cell is a read while somebody is between his read and
  his write, and only then.
* `Counted`: a cell is at most the number of stores made to it, and equal to it under
  mutexes; the same of what a thread has loaded.  That the turns of all threads
  together are the increments asked for is arithmetic: the ranges of
  the threads are apart and cover all numbers, the last one taking the
  remainder of the division.

### Only model-checked

Liveness is out of the prover's reach and stays with TLC: `EveryAccessCompletes`,
`EveryRequestEnds`, `EveryCallReturns`, `RunEnds` and `EndsWhenItCan`, whose safety half
is `MissingCoreNeverEnds`.  So does the absence of deadlock.  The models are composed by
their interfaces, as section 2 says (`Snooping` takes the bus, the memory and the
cache to be what `BusService`, `MemoryService` and `LineMap` promise); that composition is an
argument and not a theorem.


## 5. Findings

**A stale `pending_addr`** (`snooping_stale_pending`; MSI.cpp:184-187 and the same lines of
the other three).  A request that one cache refuses while another supplies the
line raises the local flag `cache_transfer`.  The flag survives the retry.
If nobody supplies then, the line is inserted, `pending_addr` is set, and
`Memory::request`, after which it would be cleared, is skipped because of the flag.
It stays until a later request of this core finds a supplier or goes to memory.
From then on the core refuses the others although it fetches nothing, which
can keep their threads retrying for ever, and a line is Modified while recorded
as pending, which the comment at MSI.cpp:56 excludes.  Coherence is not affected.

**Eviction is not LRU** (`cache_lru`; Cache.cpp:148).  `evict` is a reference to way 0;
the assignment meant to select the least recently used way copies it there.

**Write-backs** (`cache_writeback`; Cache.cpp:142, 161-165).  The status is tested after
it has been overwritten with that of the new line, and each eviction counts one
in any case.

**The write window of the update protocols** (`update_window`; Dragon.cpp:202-237 and
CompSnooping.cpp:227-262).  A write miss asks, releases both locks with no trace of the
line in the cache, and inserts it later.  A request of another core in between is
answered as if the line were not coming.  Two caches can then hold the line
Modified, and a later update meets a Modified line, where the assert fails.
`CoherentUnlessRaced` and `AssertionsHoldUnlessRaced` show that this window is the
only way: without a request inside one, the update protocols are coherent.


## 6. Plan and what is not modelled

Modelled: all components of the simulator, the tools and four of the programs.
What could still be added is a theorem that the composition of `Snooping` with `Bus` and
`Cache` implements `Snooping` as it stands, which would replace the argument of
section 2 by a refinement.

Not modelled:

* Option parsing and output: input and output without state.
* `bus_transactions`, `cache_transfers` and the write-backs counted by a snoop: counters
  that nothing reads before the end.
* `reader_writer`: its threads spin on a counter, so its trace has no bound, and
  nothing is asked of it that the other programs do not show.
* `run_pintool.sh`, the Makefiles, the trace generators and the traces: a build script,
  scripts that write fixed lines, and data.
* A last line of a trace that is cut short: the reads of main.cpp:46-47 are not
  checked, and it would repeat the operation and the address of the line before.
  The tools write whole lines unless they are killed.
* The exit of the process: main returns while response threads may still be on
  their way to look at `Bus::pending_work`, whose vector is then destroyed.
