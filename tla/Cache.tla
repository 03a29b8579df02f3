-------------------------------- MODULE Cache --------------------------------
(***************************************************************************)
(* One cache (classes Cache, Set and CacheLine).  An address is split into *)
(* a set and a tag by masks that cache_init computes from the options -s   *)
(* and -a.  A set is a few ways, each with a tag, a status and the time of *)
(* its last use; every operation scans the ways of a set and stops at the  *)
(* first that carries the tag, whether that way is valid or not; a way     *)
(* keeps the tag of the line it held when it is invalidated.               *)
(*                                                                         *)
(* The operations come in the order the protocols call them: a line is     *)
(* inserted when the lookup says Invalid, and its status is set and its    *)
(* use recorded when the lookup says otherwise.                            *)
(***************************************************************************)
EXTENDS CacheStates, Integers, FiniteSets, FiniteSetsExt

CONSTANTS
  Options,    \* the values of -s and -a that a run covers
  Addr,       \* block addresses, as Protocol::request_addr holds them
  BlockBits,  \* block_bits
  Status,     \* the states the protocol uses
  MaxUses     \* bound: the value of current_lru

\* Beyond the asserts of cache_init: there is a set (0 passes for a power of
\* two), and the tag mask, an int, is not shifted out.
CacheAssumption ==
  /\ BlockBits \in 0 .. 30 /\ MaxUses \in Nat
  /\ Addr \subseteq Nat /\ \A a \in Addr : a # 0 /\ a % 2^BlockBits = 0
  /\ Status \subseteq CacheState /\ "Invalid" \in Status
  /\ \A o \in Options :
       /\ o.size \in Nat \ {0} /\ o.associativity \in 1 .. o.size * 2^6
       /\ \A n \in 0 .. 30 : 2^n = (o.size * 2^6) \div o.associativity => n + BlockBits <= 30

ASSUME CacheAssumption

\* The powers of two that an int holds.  No constant of this module occurs
\* in it: TLC evaluates all of it, and proofs cite it as the law of 2^n.
ASSUME PowersOfTwo ==
  \A m, n \in 0 .. 30 :
    2^m \in Nat \ {0} /\ (m + n <= 30 => 2^(m + n) = 2^m * 2^n)

VARIABLES
  associativity, numSet, setBits,  \* as cache_init leaves them
  sets,         \* for each set the trace can touch, current_lru, and the ways
                \* with tag, status and lru_num
  writeBacks    \* Protocol::mem_write_backs, as far as evictions count it

geometry == <<associativity, numSet, setBits>>
vars == <<geometry, sets, writeBacks>>

-----------------------------------------------------------------------------
(* Where an address belongs.                                               *)

\* (addr & set_mask) >> block_bits, where set_mask is the number of sets less
\* one, a row of ones, shifted by block_bits.
SetOf(a) == (a \div 2^BlockBits) % numSet

\* Mutant of TagShift: the tag begins one bit too high.
TagShiftLong == setBits + BlockBits + 1

TagShift == setBits + BlockBits

\* (addr & tag_mask) >> (set_bits + block_bits).
TagOf(a) == a \div 2^TagShift

Index == {SetOf(a) : a \in Addr}
Way == 1 .. associativity

\* cache_init, and the constructors of Cache and Set.  The number of sets
\* has to be a power of two, or else an assert fails.
Init ==
  /\ \E o \in Options :
       /\ associativity = o.associativity
       /\ numSet = (o.size * 2^6) \div o.associativity
  /\ setBits \in {n \in 0 .. 30 : 2^n = numSet}
  /\ sets = [i \in Index |->
               [current_lru |-> 0,
                cl |-> [w \in Way |-> [tag |-> 0, status |-> "Invalid", lru_num |-> 0]]]]
  /\ writeBacks = 0

-----------------------------------------------------------------------------
(* The operations.                                                         *)

Line(a) == sets[SetOf(a)].cl

Carrying(a) == {w \in Way : Line(a)[w].tag = TagOf(a)}

\* Where a scan for the tag stops.
Match(a) == Min(Carrying(a))

\* cache_check_status.
Check(a) == IF Carrying(a) = {} THEN "Invalid" ELSE Line(a)[Match(a)].status

Clock(a) == sets[SetOf(a)].current_lru

Write(a, w, line, time) ==
  sets' = [sets EXCEPT ![SetOf(a)] = [current_lru |-> time, cl |-> [@.cl EXCEPT ![w] = line]]]

\* Mutant of Tick: the time of the use is not kept.
Ticked(a) == Clock(a)

Tick(a) == Clock(a) + 1

\* update_cache_lru, on a hit.
Update(a) ==
  /\ Check(a) # "Invalid" /\ Clock(a) < MaxUses
  /\ Write(a, Match(a), [Line(a)[Match(a)] EXCEPT !.lru_num = Clock(a) + 1], Tick(a))
  /\ UNCHANGED <<geometry, writeBacks>>

\* cache_set_status, by a snoop, a silent write or an upgrade.
SetStatus(a, st) ==
  /\ Check(a) # "Invalid"
  /\ Write(a, Match(a), [Line(a)[Match(a)] EXCEPT !.status = st], Clock(a))
  /\ UNCHANGED <<geometry, writeBacks>>

Free(a) == {w \in Way : Line(a)[w].status = "Invalid"}

\* The ways insert_cache has seen when it finds a free one; an assert fails
\* if one of them, all valid, carries the tag.
Scanned(a) == IF Free(a) = {} THEN Way ELSE 1 .. Min(Free(a)) - 1
InsertAsserts(a) == \A w \in Scanned(a) : Line(a)[w].tag # TagOf(a)

\* Mutant of Chosen: the last free way is taken.
ChosenLast(a) == IF Free(a) = {} THEN 1 ELSE Max(Free(a))

\* The way that takes the new line: the first free one, or else the one
\* evicted.  The loop that looks for the least recently used way assigns it
\* through the reference to way 0, which only copies it there; it is way 0
\* that is overwritten.
Chosen(a) == IF Free(a) = {} THEN 1 ELSE Min(Free(a))

\* An eviction counts one write-back, and another if the new line is dirty.
Counted(a, st) == IF Free(a) # {} THEN 0 ELSE IF st \in Dirty THEN 2 ELSE 1

\* insert_cache.
Insert(a, st) ==
  /\ Check(a) = "Invalid" /\ st # "Invalid" /\ Clock(a) < MaxUses
  /\ InsertAsserts(a)
  /\ Write(a, Chosen(a), [tag |-> TagOf(a), status |-> st, lru_num |-> Clock(a) + 1], Tick(a))
  /\ writeBacks' = writeBacks + Counted(a, st)
  /\ UNCHANGED geometry

\* The cache is never done; the model stops when its bound is reached.
Exhausted == (\A a \in Addr : Clock(a) = MaxUses) /\ UNCHANGED vars

Next ==
  \/ \E a \in Addr : Update(a) \/ \E st \in Status : SetStatus(a, st) \/ Insert(a, st)
  \/ Exhausted

Spec == Init /\ [][Next]_vars
-----------------------------------------------------------------------------
(* Properties.                                                             *)

\* The type invariant: no use is later than the clock of its set.
TypeOK ==
  /\ associativity \in Nat \ {0} /\ numSet = 2^setBits
  /\ DOMAIN sets = Index /\ Index \subseteq 0 .. numSet - 1
  /\ \A i \in DOMAIN sets :
       /\ sets[i].current_lru \in 0 .. MaxUses
       /\ sets[i].cl \in [Way -> [tag : {TagOf(a) : a \in Addr} \cup {0}, status : Status,
                                  lru_num : 0 .. sets[i].current_lru]]
  /\ writeBacks \in Nat

\* A valid line is the one a scan for its tag finds: no way before it still
\* carries the tag of a line invalidated or evicted earlier.
ValidIsFirstMatch ==
  \A i \in DOMAIN sets : \A w \in Way :
    sets[i].cl[w].status # "Invalid" =>
      \A v \in Way : v < w => sets[i].cl[v].tag # sets[i].cl[w].tag

\* The scans over ways and tags, and the masks, implement the map from
\* addresses to states that the protocols work with: two addresses are
\* never taken for one another, and one disappears only to make room for
\* another of its set.
Map == INSTANCE LineMap WITH
  ways <- associativity,
  setOf <- [a \in Addr |-> SetOf(a)],
  status <- [a \in Addr |-> Check(a)]

ImplementsMap == Map!Spec

\* The lines a step puts out to make room for another.
Evicted == {u \in Addr : Check(u) # "Invalid" /\ Check(u)' = "Invalid"}
Evicts == \E a \in Addr : Free(a) = {} /\ Check(a) = "Invalid" /\ Check(a)' # "Invalid"

\* "Do LRU now": the line put out is the one used least recently.
EvictsLeastRecentlyUsed ==
  [][Evicts => \A u \in Evicted, w \in Way : Line(u)[Match(u)].lru_num <= Line(u)[w].lru_num]_vars

\* "On eviction check if status indicates modification": an eviction counts
\* a write-back if and only if the line put out was dirty.
WriteBackWhenDirty ==
  [][Evicts => \A u \in Evicted :
       writeBacks' = writeBacks + (IF Check(u) \in Dirty THEN 1 ELSE 0)]_vars
=============================================================================
