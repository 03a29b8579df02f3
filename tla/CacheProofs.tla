----------------------------- MODULE CacheProofs -----------------------------
(***************************************************************************)
(* The cache, for any block addresses and any size and associativity that  *)
(* cache_init accepts: a valid line is the one that a scan for its tag     *)
(* finds, and the scans over ways and tags implement the map of LineMap.   *)
(***************************************************************************)
EXTENDS Cache, FiniteSetTheorems, WellFoundedInduction, TLAPS

-----------------------------------------------------------------------------
(* Numbers.                                                                *)

\* Min finds the least of any numbers.
LEMMA MinFacts ==
  ASSUME NEW S \in SUBSET Nat, S # {}
  PROVE  Min(S) \in S /\ \A n \in S : Min(S) <= n
<1>1. PICK m \in S : \A n \in S : <<n, m>> \notin OpToRel(<, Nat)
  BY WFMin, NatLessThanWellFounded, Zenon
<1>2. \A n \in S : ~(n < m)
  BY <1>1, Zenon DEF OpToRel
<1>3. \A n \in S : m <= n
  BY <1>2
<1>. QED  BY <1>3 DEF Min

\* A quotient and a remainder are all there is to know of a number.
LEMMA QuotientRemainder ==
  ASSUME NEW a \in Nat, NEW m \in Nat \ {0}
  PROVE  /\ a \div m \in Nat /\ a % m \in 0 .. m - 1
         /\ a = (a \div m) * m + (a % m)
<1>1. m \in Nat /\ m > 0
  OBVIOUS
<1>. QED  BY <1>1

\* A multiple of B is known by its place in a row of n blocks, and its row.
LEMMA SplitTells ==
  ASSUME NEW B \in Nat \ {0}, NEW n \in Nat \ {0}, NEW a \in Nat, NEW b \in Nat,
         a % B = 0, b % B = 0,
         (a \div B) % n = (b \div B) % n, a \div (n * B) = b \div (n * B)
  PROVE  a = b
<1>1. PICK q \in Nat : q = a \div B
  BY QuotientRemainder
<1>2. PICK p \in Nat : p = b \div B
  BY QuotientRemainder
<1>3. a = q * B /\ b = p * B
  <2>1. a = q * B + 0 /\ b = p * B + 0
    BY <1>1, <1>2, QuotientRemainder
  <2>. QED  BY <2>1
<1>4. PICK u \in Nat, v \in Nat, r \in 0 .. n - 1 : q = u * n + r /\ p = v * n + r
  <2>1. q % n = p % n /\ q % n \in 0 .. n - 1
    BY <1>1, <1>2, QuotientRemainder
  <2>2. /\ q = (q \div n) * n + (q % n) /\ q \div n \in Nat
        /\ p = (p \div n) * n + (p % n) /\ p \div n \in Nat
    BY QuotientRemainder
  <2>. QED  BY <2>1, <2>2
<1>5. PICK M \in Nat \ {0} : M = n * B
  OBVIOUS
<1>6. PICK t \in Nat : t = a \div M /\ t = b \div M
  BY <1>5, QuotientRemainder
<1>7. PICK x \in Nat : x = t * M
  OBVIOUS
<1>8. /\ a = x + (a % M) /\ a % M \in 0 .. M - 1
      /\ b = x + (b % M) /\ b % M \in 0 .. M - 1
  BY <1>6, <1>7, QuotientRemainder
<1>9. a - b = (u - v) * M /\ a - b < M /\ b - a < M
  <2>1. a - b = (u - v) * M
    BY <1>3, <1>4, <1>5
  <2>. QED  BY <1>8, <2>1
<1>10. u = v
  BY <1>9
<1>. QED  BY <1>9, <1>10

-----------------------------------------------------------------------------
(* Sets and tags.                                                          *)

Geometry ==
  /\ associativity \in Nat \ {0} /\ setBits \in 0 .. 30 /\ setBits + BlockBits <= 30
  /\ numSet = 2^setBits

LEMMA ShapeFacts ==
  ASSUME Geometry
  PROVE  /\ numSet \in Nat \ {0} /\ 2^BlockBits \in Nat \ {0}
         /\ 2^TagShift = numSet * 2^BlockBits /\ 2^TagShift \in Nat \ {0}
<1>1. /\ setBits \in 0 .. 30 /\ BlockBits \in 0 .. 30 /\ setBits + BlockBits <= 30
      /\ numSet = 2^setBits
  BY CacheAssumption DEF Geometry, CacheAssumption
<1>2. /\ 2^setBits \in Nat \ {0} /\ 2^BlockBits \in Nat \ {0}
      /\ 2^TagShift = 2^setBits * 2^BlockBits
  BY <1>1, PowersOfTwo DEF TagShift
<1>3. 2^setBits * 2^BlockBits \in Nat \ {0}
  BY <1>2
<1>. QED  BY <1>1, <1>2, <1>3

LEMMA SetAndTagTypes ==
  ASSUME Geometry, NEW a \in Addr
  PROVE  SetOf(a) \in 0 .. numSet - 1 /\ TagOf(a) \in Nat
<1>1. a \in Nat
  BY CacheAssumption DEF CacheAssumption
<1>2. a \div 2^BlockBits \in Nat
  BY <1>1, ShapeFacts, QuotientRemainder
<1>3. SetOf(a) \in 0 .. numSet - 1
  BY <1>2, ShapeFacts, QuotientRemainder DEF SetOf
<1>4. TagOf(a) \in Nat
  BY <1>1, ShapeFacts, QuotientRemainder DEF TagOf
<1>. QED  BY <1>3, <1>4

\* The masks lose nothing but the bits within the block: blocks of one set
\* and one tag are one block.
LEMMA SetAndTagTell ==
  ASSUME Geometry, NEW a \in Addr, NEW b \in Addr,
         SetOf(a) = SetOf(b), TagOf(a) = TagOf(b)
  PROVE  a = b
<1>1. a \in Nat /\ b \in Nat /\ a % 2^BlockBits = 0 /\ b % 2^BlockBits = 0
  BY CacheAssumption DEF CacheAssumption
<1>2. 2^BlockBits \in Nat \ {0} /\ numSet \in Nat \ {0} /\ 2^TagShift = numSet * 2^BlockBits
  BY ShapeFacts
<1>. QED  BY <1>1, <1>2, SplitTells DEF SetOf, TagOf

-----------------------------------------------------------------------------
(* The inductive invariant.                                                *)

Tags == {TagOf(a) : a \in Addr} \cup {0}
LineType == [tag : Tags, status : Status, lru_num : Nat]
SetType == [current_lru : 0 .. MaxUses, cl : [Way -> LineType]]

Types ==
  /\ Geometry
  /\ sets \in [Index -> SetType]
  /\ \A i \in Index, w \in Way : sets[i].cl[w].lru_num <= sets[i].current_lru
  /\ writeBacks \in Nat

\* A valid line is the line of a block of its set.
Owned ==
  \A i \in Index, w \in Way : sets[i].cl[w].status # "Invalid" =>
    \E b \in Addr : SetOf(b) = i /\ sets[i].cl[w].tag = TagOf(b)

IInv == Types /\ Owned /\ ValidIsFirstMatch

-----------------------------------------------------------------------------
(* What a lookup finds.                                                    *)

\* Way w holds the block a.
Holds(a, w) == Line(a)[w].tag = TagOf(a) /\ Line(a)[w].status # "Invalid"

\* A block is in one way at most, and the lookup tells its status.
LookupTells ==
  \A a \in Addr :
    /\ \A w \in Way : Holds(a, w) =>
         /\ Check(a) = Line(a)[w].status /\ Match(a) = w
         /\ \A v \in Way : Holds(a, v) => v = w
    /\ Check(a) # "Invalid" => Match(a) \in Way /\ Holds(a, Match(a))

LEMMA IndexOf ==
  ASSUME NEW a \in Addr
  PROVE  SetOf(a) \in Index
BY DEF Index

LEMMA LookupFacts == IInv => LookupTells
<1>. SUFFICES ASSUME IInv, NEW a \in Addr
              PROVE  /\ \A w \in Way : Holds(a, w) =>
                          /\ Check(a) = Line(a)[w].status /\ Match(a) = w
                          /\ \A v \in Way : Holds(a, v) => v = w
                     /\ Check(a) # "Invalid" => Match(a) \in Way /\ Holds(a, Match(a))
  BY DEF LookupTells
<1>. USE DEF IInv
<1>1. Carrying(a) \in SUBSET Nat /\ Carrying(a) \subseteq Way
  BY DEF Carrying, Way
<1>2. ASSUME NEW w \in Way, Holds(a, w)
      PROVE  Match(a) = w /\ Check(a) = Line(a)[w].status
  <2>1. w \in Carrying(a)
    BY <1>2 DEF Holds, Carrying
  <2>2. Match(a) \in Carrying(a) /\ Match(a) <= w
    BY <1>1, <2>1, MinFacts DEF Match
  <2>3. ~(Match(a) < w)
    BY <1>1, <1>2, <2>2, IndexOf
       DEF ValidIsFirstMatch, Types, Holds, Carrying, Line
  <2>4. w \in Nat /\ Match(a) \in Nat
    BY <1>1, <2>1, <2>2
  <2>5. Match(a) = w
    BY <2>2, <2>3, <2>4
  <2>. QED  BY <2>1, <2>5 DEF Check
<1>3. ASSUME Check(a) # "Invalid"
      PROVE  Match(a) \in Way /\ Holds(a, Match(a))
  <2>1. Carrying(a) # {} /\ Check(a) = Line(a)[Match(a)].status
    BY <1>3 DEF Check
  <2>2. Match(a) \in Carrying(a)
    BY <1>1, <2>1, MinFacts DEF Match
  <2>. QED  BY <1>3, <2>1, <2>2 DEF Carrying, Holds
<1>. QED  BY <1>2, <1>3

\* The first free way, and that all before it are taken.
LEMMA FreeFacts ==
  ASSUME NEW a \in Addr
  PROVE  /\ Free(a) = {} \/ Min(Free(a)) \in Free(a)
         /\ \A w \in Free(a) : Min(Free(a)) <= w
BY MinFacts DEF Free, Way

-----------------------------------------------------------------------------
(* What a write leaves.                                                    *)

\* The shape of the cache does not change, nor what is computed from it.
LEMMA SameGeometry ==
  ASSUME UNCHANGED geometry
  PROVE  /\ Way' = Way /\ Index' = Index /\ Tags' = Tags /\ LineType' = LineType
         /\ SetType' = SetType /\ (Geometry => Geometry')
         /\ \A a \in Addr : SetOf(a)' = SetOf(a) /\ TagOf(a)' = TagOf(a)
BY DEF geometry, Way, Index, Tags, LineType, SetType, Geometry, SetOf, TagOf, TagShift

LEMMA WriteFacts ==
  ASSUME Types, NEW a \in Addr, NEW w \in Way, NEW line \in LineType,
         NEW time \in 0 .. MaxUses, Write(a, w, line, time)
  PROVE  /\ sets' \in [Index -> SetType]
         /\ sets'[SetOf(a)].current_lru = time
         /\ sets'[SetOf(a)].cl[w] = line
         /\ \A v \in Way \ {w} : sets'[SetOf(a)].cl[v] = sets[SetOf(a)].cl[v]
         /\ \A i \in Index \ {SetOf(a)} : sets'[i] = sets[i]
<1>1. SetOf(a) \in Index /\ sets \in [Index -> SetType]
  BY IndexOf DEF Types
<1>2. sets[SetOf(a)] \in SetType /\ sets[SetOf(a)].cl \in [Way -> LineType]
  BY <1>1 DEF SetType
<1>3. PICK new : new = [current_lru |-> time, cl |-> [sets[SetOf(a)].cl EXCEPT ![w] = line]]
  OBVIOUS
<1>4. sets' = [sets EXCEPT ![SetOf(a)] = new]
  BY <1>1, <1>3 DEF Write
<1>5. new \in SetType
  BY <1>2, <1>3 DEF SetType
<1>6. /\ new.current_lru = time /\ new.cl[w] = line
      /\ \A v \in Way \ {w} : new.cl[v] = sets[SetOf(a)].cl[v]
  BY <1>2, <1>3
<1>. QED  BY <1>1, <1>4, <1>5, <1>6

\* What a write has to respect for the invariant to survive it.
LEMMA WriteKeeps ==
  ASSUME IInv, NEW a \in Addr, NEW w \in Way, NEW line \in LineType,
         NEW time \in 0 .. MaxUses, Write(a, w, line, time), UNCHANGED geometry,
         writeBacks' \in Nat,
         line.lru_num <= time, Clock(a) <= time,
         line.status # "Invalid" => line.tag = TagOf(a),
         \A v \in Way : v < w /\ line.status # "Invalid" => Line(a)[v].tag # line.tag,
         \A v \in Way : w < v /\ Line(a)[v].status # "Invalid" => Line(a)[v].tag # line.tag
  PROVE  IInv'
<1>. USE DEF IInv
<1>1. /\ sets' \in [Index -> SetType]
      /\ sets'[SetOf(a)].current_lru = time
      /\ sets'[SetOf(a)].cl[w] = line
      /\ \A v \in Way \ {w} : sets'[SetOf(a)].cl[v] = sets[SetOf(a)].cl[v]
      /\ \A i \in Index \ {SetOf(a)} : sets'[i] = sets[i]
  BY WriteFacts
<1>2. Types'
  <2>1. ASSUME NEW i \in Index, NEW v \in Way
        PROVE  sets'[i].cl[v].lru_num <= sets'[i].current_lru
    <3>1. /\ sets[i].cl[v].lru_num <= sets[i].current_lru
          /\ sets[i].cl[v].lru_num \in Nat /\ sets[i].current_lru \in Nat
      BY CacheAssumption DEF Types, SetType, LineType, CacheAssumption
    <3>2. CASE i # SetOf(a)
      BY <3>1, <3>2, <1>1
    <3>3. CASE i = SetOf(a) /\ v = w
      BY <3>3, <1>1
    <3>4. CASE i = SetOf(a) /\ v # w
      BY <3>1, <3>4, <1>1 DEF Clock
    <3>. QED  BY <3>2, <3>3, <3>4
  <2>. QED  BY <1>1, <2>1, SameGeometry DEF Types
<1>3. Owned'
  <2>1. ASSUME NEW i \in Index, NEW v \in Way, sets'[i].cl[v].status # "Invalid"
        PROVE  \E b \in Addr : SetOf(b) = i /\ sets'[i].cl[v].tag = TagOf(b)
    <3>1. CASE i = SetOf(a) /\ v = w
      BY <2>1, <3>1, <1>1
    <3>2. CASE ~(i = SetOf(a) /\ v = w)
      <4>1. sets'[i].cl[v] = sets[i].cl[v]
        BY <3>2, <1>1
      <4>. QED  BY <2>1, <4>1 DEF Owned
    <3>. QED  BY <3>1, <3>2
  <2>. QED  BY <2>1, SameGeometry DEF Owned
<1>4. ValidIsFirstMatch'
  <2>1. ASSUME NEW i \in Index, NEW u \in Way, sets'[i].cl[u].status # "Invalid",
               NEW v \in Way, v < u
        PROVE  sets'[i].cl[v].tag # sets'[i].cl[u].tag
    <3>1. /\ sets[i].cl[u].status # "Invalid" => sets[i].cl[v].tag # sets[i].cl[u].tag
      BY <2>1 DEF ValidIsFirstMatch, Types
    <3>2. CASE i # SetOf(a)
      BY <2>1, <3>1, <3>2, <1>1
    <3>3. CASE i = SetOf(a) /\ u = w
      <4>1. v # w /\ line.status # "Invalid"
        BY <2>1, <3>3, <1>1 DEF Way
      <4>. QED  BY <2>1, <3>3, <4>1, <1>1 DEF Line
    <3>4. CASE i = SetOf(a) /\ v = w
      <4>1. u # w
        BY <2>1, <3>4 DEF Way
      <4>. QED  BY <2>1, <3>4, <4>1, <1>1 DEF Line
    <3>5. CASE i = SetOf(a) /\ u # w /\ v # w
      BY <2>1, <3>1, <3>5, <1>1
    <3>. QED  BY <3>2, <3>3, <3>4, <3>5
  <2>2. DOMAIN sets' = Index
    BY <1>1
  <2>. QED  BY <2>1, <2>2, SameGeometry DEF ValidIsFirstMatch
<1>. QED  BY <1>2, <1>3, <1>4

-----------------------------------------------------------------------------
(* The steps.                                                              *)

LEMMA InitInv == Init => IInv
<1>. SUFFICES ASSUME Init  PROVE IInv
  OBVIOUS
<1>1. PICK o \in Options : /\ associativity = o.associativity
                           /\ numSet = (o.size * 2^6) \div o.associativity
  BY DEF Init
<1>2. setBits \in 0 .. 30 /\ numSet = 2^setBits
  BY DEF Init
<1>3. Geometry
  <2>1. associativity \in Nat \ {0}
    BY <1>1, CacheAssumption DEF CacheAssumption
  <2>2. setBits + BlockBits <= 30
    BY <1>1, <1>2, CacheAssumption DEF CacheAssumption
  <2>. QED  BY <1>2, <2>1, <2>2 DEF Geometry
<1>4. PICK line : line = [tag |-> 0, status |-> "Invalid", lru_num |-> 0]
  OBVIOUS
<1>5. line \in LineType /\ line.status = "Invalid" /\ line.lru_num = 0
  BY <1>4, CacheAssumption DEF LineType, Tags, CacheAssumption
<1>6. PICK set : set = [current_lru |-> 0, cl |-> [w \in Way |-> line]]
  OBVIOUS
<1>7. /\ set \in SetType /\ set.current_lru = 0 /\ \A w \in Way : set.cl[w] = line
  BY <1>5, <1>6, CacheAssumption DEF SetType, CacheAssumption
<1>8. sets = [i \in Index |-> set]
  BY <1>4, <1>6 DEF Init
<1>9. Types
  BY <1>3, <1>5, <1>7, <1>8 DEF Types, Init
<1>10. \A i \in Index, w \in Way : sets[i].cl[w].status = "Invalid"
  BY <1>5, <1>7, <1>8
<1>11. DOMAIN sets = Index
  BY <1>8
<1>. QED  BY <1>9, <1>10, <1>11 DEF IInv, Owned, ValidIsFirstMatch

LEMMA LineFacts ==
  ASSUME Types, NEW a \in Addr
  PROVE  /\ Clock(a) \in 0 .. MaxUses
         /\ \A w \in Way : Line(a)[w] \in LineType /\ Line(a)[w].lru_num <= Clock(a)
<1>1. SetOf(a) \in Index /\ sets \in [Index -> SetType]
  BY IndexOf DEF Types
<1>. QED  BY <1>1 DEF Types, SetType, Clock, Line

\* The way a lookup finds: no other, if valid, carries the tag, and none
\* before it does.
LEMMA FoundFacts ==
  ASSUME IInv, NEW a \in Addr, Check(a) # "Invalid"
  PROVE  /\ Match(a) \in Way /\ Line(a)[Match(a)].tag = TagOf(a)
         /\ \A v \in Way : v < Match(a) => Line(a)[v].tag # TagOf(a)
         /\ \A v \in Way : Match(a) < v /\ Line(a)[v].status # "Invalid"
                           => Line(a)[v].tag # TagOf(a)
<1>1. Match(a) \in Way /\ Holds(a, Match(a))
  BY LookupFacts DEF LookupTells
<1>2. \A v, w \in Way : v < w /\ Line(a)[w].status # "Invalid" => Line(a)[v].tag # Line(a)[w].tag
  BY IndexOf DEF IInv, Types, ValidIsFirstMatch, Line
<1>. QED  BY <1>1, <1>2 DEF Holds

LEMMA UpdateInv == ASSUME IInv, NEW a \in Addr, Update(a)  PROVE IInv'
<1>1. PICK w \in Way : w = Match(a)
  BY FoundFacts DEF Update
<1>2. PICK line : line = [Line(a)[w] EXCEPT !.lru_num = Clock(a) + 1]
  OBVIOUS
<1>3. Clock(a) \in Nat /\ Tick(a) \in 0 .. MaxUses /\ Tick(a) = Clock(a) + 1
  BY LineFacts, CacheAssumption DEF IInv, Update, Tick, CacheAssumption
<1>4. /\ line \in LineType /\ line.lru_num = Clock(a) + 1
      /\ line.tag = TagOf(a)
  BY <1>1, <1>2, <1>3, LineFacts, FoundFacts DEF IInv, Update, LineType
<1>5. Write(a, w, line, Tick(a)) /\ UNCHANGED geometry /\ writeBacks' \in Nat
  BY <1>1, <1>2 DEF Update, IInv, Types
<1>6. /\ \A v \in Way : v < w => Line(a)[v].tag # line.tag
      /\ \A v \in Way : w < v /\ Line(a)[v].status # "Invalid" => Line(a)[v].tag # line.tag
  BY <1>1, <1>4, FoundFacts DEF Update
<1>. QED  BY <1>3, <1>4, <1>5, <1>6, WriteKeeps

LEMMA SetStatusInv ==
  ASSUME IInv, NEW a \in Addr, NEW st \in Status, SetStatus(a, st)
  PROVE  IInv'
<1>1. PICK w \in Way : w = Match(a)
  BY FoundFacts DEF SetStatus
<1>2. PICK line : line = [Line(a)[w] EXCEPT !.status = st]
  OBVIOUS
<1>3. Clock(a) \in 0 .. MaxUses
  BY LineFacts DEF IInv
<1>4. line \in LineType /\ line.lru_num <= Clock(a) /\ line.tag = TagOf(a)
  BY <1>1, <1>2, LineFacts, FoundFacts DEF IInv, SetStatus, LineType
<1>5. Write(a, w, line, Clock(a)) /\ UNCHANGED geometry /\ writeBacks' \in Nat
  BY <1>1, <1>2 DEF SetStatus, IInv, Types
<1>6. /\ \A v \in Way : v < w => Line(a)[v].tag # line.tag
      /\ \A v \in Way : w < v /\ Line(a)[v].status # "Invalid" => Line(a)[v].tag # line.tag
  BY <1>1, <1>4, FoundFacts DEF SetStatus
<1>. QED  BY <1>3, <1>4, <1>5, <1>6, WriteKeeps

\* The way insert_cache takes: it is free, or there is none and it is the
\* first; those before it are all valid.
LEMMA ChosenFacts ==
  ASSUME IInv, NEW a \in Addr
  PROVE  /\ Chosen(a) \in Way
         /\ Free(a) # {} => Chosen(a) \in Free(a)
         /\ \A v \in Way : v < Chosen(a) => v \in Scanned(a) /\ v \notin Free(a)
<1>1. associativity \in Nat \ {0} /\ Free(a) \subseteq Way
  BY DEF IInv, Types, Geometry, Free
<1>2. CASE Free(a) = {}
  BY <1>1, <1>2 DEF Chosen, Way, Scanned
<1>3. CASE Free(a) # {}
  <2>1. PICK m \in Way : m = Min(Free(a)) /\ m \in Free(a) /\ \A w \in Free(a) : m <= w
    BY <1>1, <1>3, FreeFacts
  <2>2. Chosen(a) = m /\ Scanned(a) = 1 .. m - 1
    BY <1>3, <2>1 DEF Chosen, Scanned
  <2>. QED  BY <2>1, <2>2 DEF Way
<1>. QED  BY <1>2, <1>3

\* insert_cache's assert does not fail when the lookup has said Invalid: the
\* ways it passes over are valid, and a valid way that carried the tag would
\* have been found.
LEMMA AssertHolds ==
  ASSUME IInv, NEW a \in Addr, Check(a) = "Invalid"
  PROVE  InsertAsserts(a) /\ \A w \in Way : ~Holds(a, w)
<1>1. \A w \in Way : ~Holds(a, w)
  BY LookupFacts DEF LookupTells, Holds
<1>2. \A w \in Scanned(a) : w \in Way /\ Line(a)[w].status # "Invalid"
  <2>1. associativity \in Nat /\ Free(a) \subseteq Way
    BY DEF IInv, Types, Geometry, Free
  <2>2. CASE Free(a) = {}
    BY <2>2 DEF Scanned, Free
  <2>3. CASE Free(a) # {}
    <3>1. PICK m \in Way : m = Min(Free(a)) /\ \A w \in Free(a) : m <= w
      BY <2>1, <2>3, FreeFacts
    <3>2. Scanned(a) = 1 .. m - 1
      BY <2>3, <3>1 DEF Scanned
    <3>. QED  BY <2>1, <3>1, <3>2 DEF Way, Free
  <2>. QED  BY <2>2, <2>3
<1>. QED  BY <1>1, <1>2 DEF InsertAsserts, Holds

LEMMA InsertInv ==
  ASSUME IInv, NEW a \in Addr, NEW st \in Status, Insert(a, st)
  PROVE  IInv'
<1>1. PICK w \in Way : w = Chosen(a)
  BY ChosenFacts
<1>2. PICK line : line = [tag |-> TagOf(a), status |-> st, lru_num |-> Clock(a) + 1]
  OBVIOUS
<1>3. Clock(a) \in Nat /\ Tick(a) \in 0 .. MaxUses /\ Tick(a) = Clock(a) + 1
  BY LineFacts, CacheAssumption DEF IInv, Insert, Tick, CacheAssumption
<1>4. line \in LineType /\ line.lru_num = Clock(a) + 1 /\ line.tag = TagOf(a)
  BY <1>2, <1>3 DEF LineType, Tags
<1>5. Write(a, w, line, Tick(a)) /\ UNCHANGED geometry
  BY <1>1, <1>2 DEF Insert
<1>6. writeBacks' \in Nat
  BY DEF Insert, IInv, Types, Counted
<1>7. /\ \A v \in Way : v < w => Line(a)[v].tag # line.tag
      /\ \A v \in Way : w < v /\ Line(a)[v].status # "Invalid" => Line(a)[v].tag # line.tag
  BY <1>1, <1>4, ChosenFacts, AssertHolds DEF Insert, InsertAsserts, Holds
<1>. QED  BY <1>3, <1>4, <1>5, <1>6, <1>7, WriteKeeps

LEMMA StutterInv == IInv /\ UNCHANGED vars => IInv'
<1>. SUFFICES ASSUME IInv, UNCHANGED vars  PROVE IInv'
  OBVIOUS
<1>1. sets' = sets /\ writeBacks' = writeBacks /\ UNCHANGED geometry
  BY DEF vars
<1>2. /\ Way' = Way /\ Index' = Index /\ SetType' = SetType /\ Geometry'
      /\ \A a \in Addr : SetOf(a)' = SetOf(a) /\ TagOf(a)' = TagOf(a)
  BY <1>1, SameGeometry DEF IInv, Types
<1>. QED  BY <1>1, <1>2 DEF IInv, Types, Owned, ValidIsFirstMatch

\* The invariant: no two ways of a set hold the same block, no stale tag
\* hides one, and no valid line is of a block of another set.
THEOREM Invariance == Spec => []IInv
<1>1. Init => IInv
  BY InitInv
<1>2. IInv /\ [Next]_vars => IInv'
  BY UpdateInv, SetStatusInv, InsertInv, StutterInv DEF Next, Exhausted
<1>. QED  BY <1>1, <1>2, PTL DEF Spec

\* The variables keep their types, and no use is later than the clock of its
\* set (class Set).
THEOREM TypeCorrect == Spec => []TypeOK
<1>1. IInv => TypeOK
  <2>. SUFFICES ASSUME IInv  PROVE TypeOK
    OBVIOUS
  <2>1. Index \subseteq 0 .. numSet - 1
    BY SetAndTagTypes DEF IInv, Types, Index
  <2>2. ASSUME NEW i \in Index
        PROVE  /\ sets[i].current_lru \in 0 .. MaxUses
               /\ sets[i].cl \in [Way -> [tag : Tags, status : Status,
                                         lru_num : 0 .. sets[i].current_lru]]
    <3>1. sets[i] \in SetType /\ sets[i].cl \in [Way -> LineType]
      BY <2>2 DEF IInv, Types, SetType
    <3>2. \A w \in Way : sets[i].cl[w].lru_num <= sets[i].current_lru
      BY <2>2 DEF IInv, Types
    <3>3. sets[i].current_lru \in 0 .. MaxUses
      BY <3>1 DEF SetType
    <3>4. ASSUME NEW w \in Way
          PROVE  sets[i].cl[w] \in [tag : Tags, status : Status,
                                    lru_num : 0 .. sets[i].current_lru]
      BY <3>1, <3>2, <3>3 DEF LineType
    <3>. QED  BY <3>1, <3>3, <3>4
  <2>. QED  BY <2>1, <2>2 DEF TypeOK, IInv, Types, Geometry, Tags
<1>. QED  BY <1>1, Invariance, PTL

\* A scan for a tag that stops at the first way that carries it, valid or
\* not, never misses a valid line (cache_check_status).
THEOREM ValidFound == Spec => []ValidIsFirstMatch
<1>1. IInv => ValidIsFirstMatch
  BY DEF IInv
<1>. QED  BY <1>1, Invariance, PTL

\* The assert in insert_cache does not fail: a thread inserts a line when
\* the lookup has said Invalid.
THEOREM InsertNeverAsserts ==
  Spec => [](\A a \in Addr : Check(a) = "Invalid" => InsertAsserts(a))
<1>1. IInv => \A a \in Addr : Check(a) = "Invalid" => InsertAsserts(a)
  BY AssertHolds
<1>. QED  BY <1>1, Invariance, PTL

-----------------------------------------------------------------------------
(* The map from addresses to states that the scans implement.              *)

\* The ways after a write, and what a lookup finds in them.
LEMMA LookupAfter ==
  ASSUME IInv, LookupTells', UNCHANGED geometry, NEW a \in Addr, NEW w \in Way,
         NEW line \in LineType, NEW time \in 0 .. MaxUses, Write(a, w, line, time)
  PROVE  /\ Line(a)'[w] = line
         /\ \A b \in Addr : \A v \in Way :
              v # w \/ SetOf(b) # SetOf(a) => Line(b)'[v] = Line(b)[v]
         /\ \A b \in Addr : \A v \in Way :
              Line(b)'[v].tag = TagOf(b) /\ Line(b)'[v].status # "Invalid"
                => Check(b)' = Line(b)'[v].status
         /\ \A b \in Addr : Check(b)' # "Invalid" =>
              \E v \in Way : /\ Line(b)'[v].tag = TagOf(b)
                            /\ Line(b)'[v].status # "Invalid"
<1>1. /\ Way' = Way
      /\ \A b \in Addr : SetOf(b)' = SetOf(b) /\ TagOf(b)' = TagOf(b)
  BY SameGeometry
<1>2. /\ sets'[SetOf(a)].cl[w] = line
      /\ \A v \in Way \ {w} : sets'[SetOf(a)].cl[v] = sets[SetOf(a)].cl[v]
      /\ \A i \in Index \ {SetOf(a)} : sets'[i] = sets[i]
  BY WriteFacts DEF IInv
<1>3. \A b \in Addr : Line(b)' = sets'[SetOf(b)].cl
  BY <1>1 DEF Line
<1>4. Line(a)'[w] = line
  BY <1>2, <1>3
<1>5. \A b \in Addr : \A v \in Way :
        v # w \/ SetOf(b) # SetOf(a) => Line(b)'[v] = Line(b)[v]
  BY <1>2, <1>3, IndexOf DEF Line
<1>6. ASSUME NEW b \in Addr, NEW v \in Way,
             Line(b)'[v].tag = TagOf(b), Line(b)'[v].status # "Invalid"
      PROVE  Check(b)' = Line(b)'[v].status
  <2>1. Holds(b, v)'
    BY <1>1, <1>6 DEF Holds
  <2>. QED  BY <1>1, <2>1 DEF LookupTells
<1>7. ASSUME NEW b \in Addr, Check(b)' # "Invalid"
      PROVE  \E v \in Way : /\ Line(b)'[v].tag = TagOf(b)
                           /\ Line(b)'[v].status # "Invalid"
  <2>1. Match(b)' \in Way /\ Holds(b, Match(b))'
    BY <1>1, <1>7 DEF LookupTells
  <2>2. /\ Line(b)'[Match(b)'].tag = TagOf(b)
        /\ Line(b)'[Match(b)'].status # "Invalid"
    BY <1>1, <2>1 DEF Holds
  <2>. QED  BY <2>1, <2>2
<1>. QED  BY <1>4, <1>5, <1>6, <1>7

\* A write for one block changes the lookup of another only where it
\* overwrites its way.
LEMMA OthersKeep ==
  ASSUME IInv, LookupTells', UNCHANGED geometry, NEW a \in Addr, NEW w \in Way,
         NEW line \in LineType, NEW time \in 0 .. MaxUses, Write(a, w, line, time),
         line.tag = TagOf(a), NEW b \in Addr, b # a
  PROVE  /\ SetOf(b) # SetOf(a) \/ ~Holds(b, w) => Check(b)' = Check(b)
         /\ SetOf(b) = SetOf(a) /\ Holds(b, w) => Check(b)' = "Invalid"
<1>. USE DEF Holds
<1>1. LookupTells
  BY LookupFacts
<1>2. SetOf(b) = SetOf(a) => TagOf(b) # TagOf(a) /\ Line(b)'[w] = line
  <2>1. SetOf(b) = SetOf(a) => Line(b)' = Line(a)'
    BY SameGeometry DEF Line
  <2>. QED  BY <2>1, LookupAfter, SetAndTagTell DEF IInv, Types
<1>3. \A v \in Way : v # w \/ SetOf(b) # SetOf(a) => Line(b)'[v] = Line(b)[v]
  BY LookupAfter
<1>4. /\ \A v \in Way : Line(b)'[v].tag = TagOf(b) /\ Line(b)'[v].status # "Invalid"
                       => Check(b)' = Line(b)'[v].status
      /\ Check(b)' # "Invalid" => \E v \in Way : /\ Line(b)'[v].tag = TagOf(b)
                                               /\ Line(b)'[v].status # "Invalid"
  BY LookupAfter
<1>5. ASSUME SetOf(b) # SetOf(a) \/ ~Holds(b, w)  PROVE Check(b)' = Check(b)
  <2>1. CASE Check(b) # "Invalid"
    <3>1. PICK v \in Way : Holds(b, v) /\ Check(b) = Line(b)[v].status
      BY <1>1, <2>1 DEF LookupTells
    <3>2. Line(b)'[v] = Line(b)[v]
      BY <1>3, <1>5, <3>1
    <3>. QED  BY <1>4, <3>1, <3>2
  <2>2. CASE Check(b) = "Invalid" /\ Check(b)' # "Invalid"
    <3>1. PICK v \in Way : /\ Line(b)'[v].tag = TagOf(b)
                           /\ Line(b)'[v].status # "Invalid"
      BY <1>4, <2>2
    <3>2. Line(b)'[v] = Line(b)[v]
      BY <1>2, <1>3, <3>1
    <3>. QED  BY <1>1, <2>2, <3>1, <3>2 DEF LookupTells
  <2>. QED  BY <2>1, <2>2
<1>6. ASSUME SetOf(b) = SetOf(a), Holds(b, w)  PROVE Check(b)' = "Invalid"
  <2>. SUFFICES ASSUME Check(b)' # "Invalid"  PROVE FALSE
    OBVIOUS
  <2>1. PICK v \in Way : /\ Line(b)'[v].tag = TagOf(b)
                         /\ Line(b)'[v].status # "Invalid"
    BY <1>4
  <2>2. v # w /\ Line(b)'[v] = Line(b)[v]
    BY <1>2, <1>3, <1>6, <2>1
  <2>. QED  BY <1>1, <1>6, <2>1, <2>2 DEF LookupTells
<1>. QED  BY <1>5, <1>6

\* A write of a valid line is what the next lookup of its block finds.
LEMMA WrittenFound ==
  ASSUME IInv, LookupTells', UNCHANGED geometry, NEW a \in Addr, NEW w \in Way,
         NEW line \in LineType, NEW time \in 0 .. MaxUses, Write(a, w, line, time),
         line.tag = TagOf(a)
  PROVE  /\ line.status # "Invalid" => Check(a)' = line.status
         /\ line.status = "Invalid" /\ (\A v \in Way : Holds(a, v) => v = w)
              => Check(a)' = "Invalid"
<1>1. /\ Line(a)'[w] = line
      /\ \A v \in Way : v # w => Line(a)'[v] = Line(a)[v]
      /\ \A v \in Way : Line(a)'[v].tag = TagOf(a) /\ Line(a)'[v].status # "Invalid"
                       => Check(a)' = Line(a)'[v].status
      /\ Check(a)' # "Invalid" => \E v \in Way : /\ Line(a)'[v].tag = TagOf(a)
                                               /\ Line(a)'[v].status # "Invalid"
  BY LookupAfter
<1>. QED  BY <1>1 DEF Holds

\* The blocks that take a way of the set of a.
Present(a) == {b \in Addr : SetOf(b) = SetOf(a) /\ Check(b) # "Invalid"}

\* They are as many as the ways taken: one for each.
LEMMA PresentCounts ==
  ASSUME IInv, NEW a \in Addr
  PROVE  /\ Free(a) = {} => Cardinality(Present(a)) = associativity
         /\ Free(a) # {} => Cardinality(Present(a)) < associativity
<1>. DEFINE Taken == Way \ Free(a)
            f == [b \in Present(a) |-> Match(b)]
<1>1. /\ associativity \in Nat \ {0} /\ Geometry
      /\ \A b \in Present(a) : b \in Addr /\ SetOf(b) = SetOf(a) /\ Line(b) = Line(a)
  BY DEF IInv, Types, Geometry, Present, Line
<1>2. \A b \in Present(a) : Match(b) \in Way /\ Holds(b, Match(b))
  BY LookupFacts DEF LookupTells, Present
<1>3. \A b \in Present(a) : Match(b) \in Taken
  BY <1>1, <1>2 DEF Holds, Free
<1>4. \A b, c \in Present(a) : Match(b) = Match(c) => b = c
  BY <1>1, <1>2, SetAndTagTell DEF Holds
<1>5. f \in Injection(Present(a), Taken)
  BY <1>3, <1>4 DEF Injection, IsInjective
<1>6. IsFiniteSet(Way) /\ Cardinality(Way) = associativity
  BY <1>1, FS_Interval DEF Way
<1>7. /\ IsFiniteSet(Taken) /\ Cardinality(Taken) \in Nat
      /\ Cardinality(Taken) <= associativity
      /\ Cardinality(Taken) = associativity => Taken = Way
  BY <1>6, FS_Subset, FS_CardinalityType
<1>8. /\ IsFiniteSet(Present(a)) /\ Cardinality(Present(a)) \in Nat
      /\ Cardinality(Present(a)) <= Cardinality(Taken)
      /\ f \in Surjection(Present(a), Taken) => Cardinality(Present(a)) = Cardinality(Taken)
  BY <1>5, <1>7, FS_Injection, FS_CardinalityType
<1>9. CASE Free(a) # {}
  <2>1. Taken # Way
    BY <1>9 DEF Free
  <2>. QED  BY <1>1, <1>7, <1>8, <1>9, <2>1
<1>10. CASE Free(a) = {}
  <2>1. ASSUME NEW w \in Taken  PROVE \E b \in Present(a) : Match(b) = w
    <3>1. w \in Way /\ Line(a)[w].status # "Invalid"
      BY <1>10, <2>1 DEF Free
    <3>2. PICK b \in Addr : SetOf(b) = SetOf(a) /\ Line(a)[w].tag = TagOf(b)
      BY <3>1, IndexOf DEF IInv, Owned, Line
    <3>3. Holds(b, w)
      BY <3>1, <3>2 DEF Holds, Line
    <3>4. Match(b) = w /\ Check(b) # "Invalid"
      BY <3>1, <3>3, LookupFacts DEF LookupTells, Holds
    <3>. QED  BY <3>2, <3>4 DEF Present
  <2>2. f \in Surjection(Present(a), Taken)
    BY <1>3, <2>1 DEF Surjection
  <2>. QED  BY <1>6, <1>8, <1>10, <2>2
<1>. QED  BY <1>9, <1>10

LEMMA UpdateKeepsMap ==
  ASSUME IInv, LookupTells', NEW a \in Addr, Update(a)
  PROVE  \A b \in Addr : Check(b)' = Check(b)
<1>1. PICK w \in Way : w = Match(a)
  BY FoundFacts DEF Update
<1>2. PICK line : line = [Line(a)[w] EXCEPT !.lru_num = Clock(a) + 1]
  OBVIOUS
<1>3. Clock(a) \in Nat /\ Tick(a) \in 0 .. MaxUses
  BY LineFacts, CacheAssumption DEF IInv, Update, Tick, CacheAssumption
<1>4. /\ line \in LineType /\ line.tag = TagOf(a) /\ line.tag = Line(a)[w].tag
      /\ line.status = Line(a)[w].status /\ line.status = Check(a)
  BY <1>1, <1>2, <1>3, LineFacts, FoundFacts, LookupFacts
     DEF IInv, Update, LineType, LookupTells, Holds
<1>5. Write(a, w, line, Tick(a)) /\ UNCHANGED geometry
  BY <1>1, <1>2 DEF Update
<1>6. Check(a)' = Check(a)
  BY <1>3, <1>4, <1>5, WrittenFound DEF Update
<1>7. ASSUME NEW b \in Addr, b # a  PROVE Check(b)' = Check(b)
  <2>1. SetOf(b) # SetOf(a) \/ ~Holds(b, w)
    BY <1>4, <1>7, SetAndTagTell DEF IInv, Types, Holds, Line
  <2>. QED  BY <1>3, <1>4, <1>5, <1>7, <2>1, OthersKeep
<1>. QED  BY <1>6, <1>7

LEMMA SetStatusMaps ==
  ASSUME IInv, LookupTells', NEW a \in Addr, NEW st \in Status, SetStatus(a, st)
  PROVE  Check(a)' = st /\ \A b \in Addr \ {a} : Check(b)' = Check(b)
<1>1. PICK w \in Way : w = Match(a)
  BY FoundFacts DEF SetStatus
<1>2. PICK line : line = [Line(a)[w] EXCEPT !.status = st]
  OBVIOUS
<1>3. Clock(a) \in 0 .. MaxUses
  BY LineFacts DEF IInv
<1>4. /\ line \in LineType /\ line.tag = TagOf(a) /\ line.tag = Line(a)[w].tag
      /\ line.status = st
  BY <1>1, <1>2, LineFacts, FoundFacts DEF IInv, SetStatus, LineType
<1>5. Write(a, w, line, Clock(a)) /\ UNCHANGED geometry
  BY <1>1, <1>2 DEF SetStatus
<1>6. \A v \in Way : Holds(a, v) => v = w
  BY <1>1, LookupFacts DEF SetStatus, LookupTells
<1>7. Check(a)' = st
  BY <1>3, <1>4, <1>5, <1>6, WrittenFound
<1>8. ASSUME NEW b \in Addr, b # a  PROVE Check(b)' = Check(b)
  <2>1. SetOf(b) # SetOf(a) \/ ~Holds(b, w)
    BY <1>4, <1>8, SetAndTagTell DEF IInv, Types, Holds, Line
  <2>. QED  BY <1>3, <1>4, <1>5, <1>8, <2>1, OthersKeep
<1>. QED  BY <1>7, <1>8

\* The new line appears; if there was no free way, exactly one other line of
\* the set disappears.
LEMMA InsertMaps ==
  ASSUME IInv, LookupTells', NEW a \in Addr, NEW st \in Status, Insert(a, st)
  PROVE  /\ Check(a)' = st
         /\ Free(a) # {} => \A b \in Addr \ {a} : Check(b)' = Check(b)
         /\ Free(a) = {} => \E v \in Present(a) \ {a} :
              /\ Check(v)' = "Invalid"
              /\ \A b \in Addr \ {a, v} : Check(b)' = Check(b)
<1>1. PICK w \in Way : w = Chosen(a)
  BY ChosenFacts
<1>2. PICK line : line = [tag |-> TagOf(a), status |-> st, lru_num |-> Clock(a) + 1]
  OBVIOUS
<1>3. Clock(a) \in Nat /\ Tick(a) \in 0 .. MaxUses
  BY LineFacts, CacheAssumption DEF IInv, Insert, Tick, CacheAssumption
<1>4. line \in LineType /\ line.tag = TagOf(a) /\ line.status = st /\ st # "Invalid"
  BY <1>2, <1>3 DEF LineType, Tags, Insert
<1>5. Write(a, w, line, Tick(a)) /\ UNCHANGED geometry
  BY <1>1, <1>2 DEF Insert
<1>6. Check(a)' = st
  BY <1>3, <1>4, <1>5, WrittenFound
<1>7. \A b \in Addr \ {a} :
        /\ SetOf(b) # SetOf(a) \/ ~Holds(b, w) => Check(b)' = Check(b)
        /\ SetOf(b) = SetOf(a) /\ Holds(b, w) => Check(b)' = "Invalid"
  BY <1>3, <1>4, <1>5, OthersKeep
<1>8. ASSUME Free(a) # {}, NEW b \in Addr \ {a}  PROVE Check(b)' = Check(b)
  <2>1. Line(a)[w].status = "Invalid"
    BY <1>1, <1>8, ChosenFacts DEF Free
  <2>2. SetOf(b) # SetOf(a) \/ ~Holds(b, w)
    BY <2>1 DEF Holds, Line
  <2>. QED  BY <1>7, <2>2
<1>9. ASSUME Free(a) = {}
      PROVE  \E v \in Present(a) \ {a} :
               /\ Check(v)' = "Invalid"
               /\ \A b \in Addr \ {a, v} : Check(b)' = Check(b)
  <2>1. Line(a)[w].status # "Invalid"
    BY <1>9 DEF Free
  <2>2. PICK v \in Addr : SetOf(v) = SetOf(a) /\ Line(a)[w].tag = TagOf(v)
    BY <2>1, IndexOf DEF IInv, Owned, Line
  <2>3. Holds(v, w)
    BY <2>1, <2>2 DEF Holds, Line
  <2>4. Check(v) # "Invalid" /\ v # a
    BY <2>3, LookupFacts DEF LookupTells, Holds, Insert
  <2>5. ASSUME NEW b \in Addr \ {a, v}  PROVE SetOf(b) # SetOf(a) \/ ~Holds(b, w)
    BY <2>2, <2>3, SetAndTagTell DEF IInv, Types, Holds, Line
  <2>. QED  BY <1>7, <2>2, <2>3, <2>4, <2>5 DEF Present
<1>. QED  BY <1>6, <1>8, <1>9

\* Every step of the scans is a step of the map, or none.
LEMMA StepMaps ==
  ASSUME IInv, LookupTells', [Next]_vars
  PROVE  [Map!Next]_(Map!vars)
<1>. DEFINE shown == [b \in Addr |-> Check(b)]
            place == [b \in Addr |-> SetOf(b)]
<1>1. UNCHANGED geometry => UNCHANGED <<associativity, place>>
  BY SameGeometry DEF geometry
<1>2. \A a \in Addr : Map!Occupied(a) = Present(a)
  BY DEF Map!Occupied, Present
<1>3. \A S : Map!Cardinality(S) = Cardinality(S)
  BY Zenon DEF Map!Cardinality, Cardinality
<1>4. ASSUME NEW a \in Addr, Update(a)  PROVE UNCHANGED Map!vars
  BY <1>1, <1>4, UpdateKeepsMap DEF Map!vars, Update
<1>5. ASSUME NEW a \in Addr, NEW st \in Status, SetStatus(a, st)  PROVE Map!Next
  <2>1. shown' = [shown EXCEPT ![a] = st] /\ shown[a] # "Invalid"
    BY <1>5, SetStatusMaps DEF SetStatus
  <2>2. Map!SetStatus(a, st)
    BY <2>1 DEF Map!SetStatus
  <2>. QED  BY <1>1, <1>5, <2>2 DEF Map!Next, SetStatus
<1>6. ASSUME NEW a \in Addr, NEW st \in Status, Insert(a, st)  PROVE Map!Next
  <2>1. shown[a] = "Invalid" /\ st # "Invalid"
    BY <1>6 DEF Insert
  <2>2. CASE Free(a) # {}
    <3>1. shown' = [shown EXCEPT ![a] = st]
      BY <1>6, <2>2, InsertMaps
    <3>2. Map!Cardinality(Map!Occupied(a)) < associativity
      BY <1>2, <1>3, <2>2, PresentCounts
    <3>3. Map!Insert(a, st)
      BY <2>1, <3>1, <3>2 DEF Map!Insert
    <3>. QED  BY <1>1, <1>6, <3>3 DEF Map!Next, Insert
  <2>3. CASE Free(a) = {}
    <3>1. PICK v \in Present(a) \ {a} :
            /\ Check(v)' = "Invalid"
            /\ \A b \in Addr \ {a, v} : Check(b)' = Check(b)
      BY <1>6, <2>3, InsertMaps
    <3>2. shown' = [shown EXCEPT ![v] = "Invalid", ![a] = st]
      BY <1>6, <3>1, InsertMaps DEF Present
    <3>3. v \in Map!Occupied(a) /\ Map!Cardinality(Map!Occupied(a)) = associativity
      BY <1>2, <1>3, <2>3, <3>1, PresentCounts
    <3>4. Map!Insert(a, st)
      BY <2>1, <3>2, <3>3 DEF Map!Insert
    <3>. QED  BY <1>1, <1>6, <3>4 DEF Map!Next, Insert
  <2>. QED  BY <2>2, <2>3
<1>7. ASSUME UNCHANGED vars  PROVE UNCHANGED Map!vars
  <2>1. UNCHANGED geometry /\ sets' = sets
    BY <1>7 DEF vars
  <2>2. \A b \in Addr : Check(b)' = Check(b)
    BY <2>1, SameGeometry DEF Check, Match, Carrying, Line
  <2>. QED  BY <1>1, <2>1, <2>2 DEF Map!vars
<1>. QED  BY <1>4, <1>5, <1>6, <1>7 DEF Next, Exhausted

\* The masks, tags and scans implement the map from addresses to states that
\* the protocols work with (cache_check_status, cache_set_status and
\* insert_cache).
THEOREM Refinement == Spec => ImplementsMap
<1>1. Init => Map!Init
  <2>. SUFFICES ASSUME Init  PROVE \A b \in Addr : Check(b) = "Invalid"
    BY DEF Map!Init
  <2>1. \A b \in Addr, w \in Way : Line(b)[w].status = "Invalid"
    BY IndexOf DEF Init, Line
  <2>. QED  BY <2>1, InitInv, LookupFacts DEF LookupTells, Holds
<1>2. IInv => LookupTells
  BY LookupFacts
<1>3. IInv /\ LookupTells' /\ [Next]_vars => [Map!Next]_(Map!vars)
  BY StepMaps
<1>. QED  BY <1>1, <1>2, <1>3, Invariance, PTL DEF Spec, ImplementsMap, Map!Spec
=============================================================================
