---------------------------- MODULE TracerProofs ----------------------------
(***************************************************************************)
(* The traced programs under the tools, for any number of threads, of      *)
(* iterations and of numbers to count: the file is faithful to the         *)
(* demarcated part, critical sections are whole in it, no increment is     *)
(* lost under the mutexes, and the flag is never raced.                    *)
(***************************************************************************)
EXTENDS Tracer, FiniteSetTheorems, FunctionTheorems, SequenceTheorems, TLAPS

-----------------------------------------------------------------------------
(* What a thread has to do.                                                *)

Steps == [do : {"R", "W", "load", "store", "lock", "unlock", "start", "end", "create", "join"},
          arg : Int]

\* The ranges of the threads follow one another and end with the numbers.
LEMMA RangeFacts ==
  ASSUME NEW t \in Thread
  PROVE  /\ RangeStart(t) \in Nat /\ RangeEnd(t) \in Nat
         /\ RangeStart(t) <= RangeEnd(t) /\ RangeEnd(t) <= Len(Numbers)
<1>1. NumThreads \in Nat \ {0} /\ t \in 0 .. NumThreads - 1 /\ Len(Numbers) \in Nat
  BY TracerAssumption DEF Thread
<1>2. PICK q \in Nat : q = Len(Numbers) \div NumThreads
  BY <1>1
<1>3. q * NumThreads <= Len(Numbers)
  BY <1>1, <1>2
<1>4. PICK p \in Nat : p = q * t
  BY <1>1
<1>5. p + q <= q * NumThreads
  <2>1. q * (t + 1) <= q * NumThreads
    BY <1>1
  <2>2. q * (t + 1) = p + q
    BY <1>1, <1>4
  <2>. QED  BY <2>1, <2>2
<1>6. RangeStart(t) = p
  BY <1>2, <1>4 DEF RangeStart
<1>7. RangeEnd(t) = IF t = NumThreads - 1 THEN Len(Numbers) ELSE p + q
  BY <1>2, <1>6 DEF RangeEnd
<1>8. q * NumThreads \in Nat
  BY <1>1
<1>. QED  BY <1>1, <1>3, <1>5, <1>6, <1>7, <1>8

LEMMA CellFacts ==
  /\ GlobalVal \in Cells /\ Outside \notin Cells /\ Cells \subseteq Nat
  /\ Outside \in Int /\ Len(Numbers) \in Nat
  /\ \A i \in 1 .. Len(Numbers) : Numbers[i] \in Cells
BY TracerAssumption DEF Cells, GlobalVal, Outside, ToSet

\* The loop of a thread makes one turn for each element of Work.
LEMMA WorkFacts ==
  ASSUME NEW t \in Thread
  PROVE  /\ Work(t) \in Seq(Cells) /\ Len(Work(t)) \in Nat
         /\ Adds => Len(Work(t)) = Iterations
              /\ \A j \in 1 .. Iterations : Work(t)[j] = GlobalVal
         /\ ~Adds => Len(Work(t)) = RangeEnd(t) - RangeStart(t)
              /\ \A j \in 1 .. Len(Work(t)) : Work(t)[j] = Numbers[RangeStart(t) + j]
<1>1. CASE Adds
  <2>1. Work(t) = [i \in 1 .. Iterations |-> GlobalVal] /\ Iterations \in Nat
    BY <1>1, TracerAssumption DEF Work
  <2>2. Work(t) \in Seq(Cells) /\ Len(Work(t)) = Iterations
    BY <2>1, CellFacts
  <2>. QED  BY <1>1, <2>1, <2>2
<1>2. CASE ~Adds
  <2>1. Work(t) = SubSeq(Numbers, RangeStart(t) + 1, RangeEnd(t))
    BY <1>2 DEF Work
  <2>2. PICK m \in Int, n \in Int : m = RangeStart(t) + 1 /\ n = RangeEnd(t)
    BY RangeFacts
  <2>3. 1 <= m /\ m <= n + 1 /\ n <= Len(Numbers) /\ n - m + 1 = RangeEnd(t) - RangeStart(t)
    BY <2>2, RangeFacts, CellFacts
  <2>4. \A i \in m .. n : Numbers[i] \in Cells
    BY <2>3, CellFacts
  <2>5. /\ SubSeq(Numbers, m, n) \in Seq(Cells)
        /\ Len(SubSeq(Numbers, m, n)) = IF m <= n THEN n - m + 1 ELSE 0
        /\ \A i \in 1 .. n - m + 1 : SubSeq(Numbers, m, n)[i] = Numbers[m + i - 1]
    BY <2>4, SubSeqProperties
  <2>6. Len(Work(t)) = RangeEnd(t) - RangeStart(t) /\ Len(Work(t)) = n - m + 1
    BY <2>1, <2>2, <2>3, <2>5
  <2>7. ASSUME NEW j \in 1 .. Len(Work(t))
        PROVE  Work(t)[j] = Numbers[RangeStart(t) + j]
    <3>1. Work(t)[j] = Numbers[m + j - 1] /\ m + j - 1 = RangeStart(t) + j
      BY <2>1, <2>2, <2>5, <2>6, RangeFacts
    <3>. QED  BY <3>1
  <2>. QED  BY <1>2, <2>1, <2>2, <2>3, <2>5, <2>6, <2>7
<1>. QED  BY <1>1, <1>2

\* One sequence after another.
LEMMA Concat ==
  ASSUME NEW s \in Seq(Steps), NEW t \in Seq(Steps)
  PROVE  /\ s \o t \in Seq(Steps) /\ Len(s \o t) = Len(s) + Len(t)
         /\ \A i \in 1 .. Len(s) : (s \o t)[i] = s[i]
         /\ \A i \in 1 .. Len(t) : (s \o t)[Len(s) + i] = t[i]
<1>1. /\ s \o t \in Seq(Steps) /\ Len(s \o t) = Len(s) + Len(t)
      /\ \A i \in 1 .. Len(s) + Len(t) : (s \o t)[i] = IF i <= Len(s) THEN s[i] ELSE t[i - Len(s)]
  BY ConcatProperties
<1>2. Len(s) \in Nat /\ Len(t) \in Nat
  OBVIOUS
<1>3. ASSUME NEW i \in 1 .. Len(s)  PROVE (s \o t)[i] = s[i]
  BY <1>1, <1>2
<1>4. ASSUME NEW i \in 1 .. Len(t)  PROVE (s \o t)[Len(s) + i] = t[i]
  <2>1. Len(s) + i \in 1 .. Len(s) + Len(t) /\ ~(Len(s) + i <= Len(s)) /\ (Len(s) + i) - Len(s) = i
    BY <1>2
  <2>. QED  BY <1>1, <2>1
<1>. QED  BY <1>1, <1>3, <1>4

LEMMA OneStep ==
  ASSUME NEW r \in Steps
  PROVE  <<r>> \in Seq(Steps) /\ Len(<<r>>) = 1 /\ <<r>>[1] = r
OBVIOUS

LEMMA TwoSteps ==
  ASSUME NEW r \in Steps, NEW s \in Steps
  PROVE  /\ <<r, s>> \in Seq(Steps) /\ Len(<<r, s>>) = 2
         /\ <<r, s>>[1] = r /\ <<r, s>>[2] = s
OBVIOUS

LEMMA WorkCell ==
  ASSUME NEW t \in Thread, NEW j \in 1 .. Len(Work(t))
  PROVE  Work(t)[j] \in Cells
<1>1. PICK w \in Seq(Cells) : w = Work(t)
  BY WorkFacts
<1>. QED  BY <1>1

\* The steps of one turn; without the mutex there is no first and no last.
Turn == IF Locked THEN 6 ELSE 4
First == IF Locked THEN 1 ELSE 0

LEMMA TurnFacts ==
  /\ Turn \in {4, 6} /\ First \in {0, 1} /\ Turn = 4 + 2 * First
  /\ Locked <=> First = 1
BY DEF Turn, First

LEMMA GuardedFacts ==
  ASSUME NEW x \in Int, NEW fused \in BOOLEAN
  PROVE  /\ Guarded(x, fused) \in Seq(Steps) /\ Len(Guarded(x, fused)) = Turn
         /\ Guarded(x, fused)[First + 1] = Step("R", x)
         /\ Guarded(x, fused)[First + 2] = Step(IF fused THEN "W" ELSE "load", x)
         /\ Guarded(x, fused)[First + 3] = Step(IF fused THEN "load" ELSE "W", x)
         /\ Guarded(x, fused)[First + 4] = Step("store", x)
         /\ Locked => /\ Guarded(x, fused)[1] = Step("lock", x)
                      /\ Guarded(x, fused)[6] = Step("unlock", x)
<1>1. PICK inc \in Seq(Steps) :
        /\ inc = Increment(x, fused) /\ Len(inc) = 4
        /\ inc[1] = Step("R", x) /\ inc[2] = Step(IF fused THEN "W" ELSE "load", x)
        /\ inc[3] = Step(IF fused THEN "load" ELSE "W", x) /\ inc[4] = Step("store", x)
  <2>1. PICK r \in Steps, w \in Steps, l \in Steps, s \in Steps :
          r = Step("R", x) /\ w = Step("W", x) /\ l = Step("load", x) /\ s = Step("store", x)
    BY DEF Step, Steps
  <2>2. CASE fused
    <3>1. Increment(x, fused) = <<r, w, l, s>>
      BY <2>1, <2>2 DEF Increment
    <3>2. PICK inc : inc = <<r, w, l, s>>
      OBVIOUS
    <3>3. inc \in Seq(Steps) /\ Len(inc) = 4 /\ inc[1] = r /\ inc[2] = w /\ inc[3] = l /\ inc[4] = s
      BY <3>2
    <3>. QED  BY <2>1, <2>2, <3>1, <3>2, <3>3
  <2>3. CASE ~fused
    <3>1. Increment(x, fused) = <<r, l, w, s>>
      BY <2>1, <2>3 DEF Increment
    <3>2. PICK inc : inc = <<r, l, w, s>>
      OBVIOUS
    <3>3. inc \in Seq(Steps) /\ Len(inc) = 4 /\ inc[1] = r /\ inc[2] = l /\ inc[3] = w /\ inc[4] = s
      BY <3>2
    <3>. QED  BY <2>1, <2>3, <3>1, <3>2, <3>3
  <2>. QED  BY <2>2, <2>3
<1>2. CASE ~Locked
  BY <1>1, <1>2 DEF Guarded, Turn, First
<1>3. CASE Locked
  <2>1. Step("lock", x) \in Steps /\ Step("unlock", x) \in Steps
    BY DEF Step, Steps
  <2>2. PICK l \in Seq(Steps) : l = <<Step("lock", x)>> /\ Len(l) = 1 /\ l[1] = Step("lock", x)
    BY <2>1, OneStep
  <2>3. PICK u \in Seq(Steps) : u = <<Step("unlock", x)>> /\ Len(u) = 1 /\ u[1] = Step("unlock", x)
    BY <2>1, OneStep
  <2>5. PICK v \in Seq(Steps) : v = l \o inc
    BY Concat
  <2>6. /\ Len(v) = 5 /\ v[1] = l[1]
        /\ v[2] = inc[1] /\ v[3] = inc[2] /\ v[4] = inc[3] /\ v[5] = inc[4]
    <3>1. /\ Len(v) = Len(l) + Len(inc)
          /\ \A i \in 1 .. Len(l) : v[i] = l[i]
          /\ \A i \in 1 .. Len(inc) : v[Len(l) + i] = inc[i]
      BY <2>5, Concat
    <3>. QED  BY <1>1, <2>2, <3>1
  <2>7. PICK w \in Seq(Steps) : w = v \o u
    BY Concat
  <2>8. /\ Len(w) = 6 /\ w[1] = v[1] /\ w[2] = v[2] /\ w[3] = v[3] /\ w[4] = v[4] /\ w[5] = v[5]
        /\ w[6] = u[1]
    <3>1. /\ Len(w) = Len(v) + Len(u)
          /\ \A i \in 1 .. Len(v) : w[i] = v[i]
          /\ \A i \in 1 .. Len(u) : w[Len(v) + i] = u[i]
      BY <2>7, Concat
    <3>. QED  BY <2>3, <2>6, <3>1
  <2>9. Guarded(x, fused) = w
    BY <1>1, <1>3, <2>2, <2>3, <2>5, <2>7 DEF Guarded
  <2>10. Turn = 6 /\ First = 1
    BY <1>3 DEF Turn, First
  <2>. QED  BY <1>1, <1>3, <2>2, <2>3, <2>6, <2>8, <2>9, <2>10
<1>. QED  BY <1>2, <1>3

\* Where the loop of a thread begins and ends, and where in its turn a step
\* of the loop is.
Before(t) == IF t = 0 THEN NumThreads + 1 ELSE 0
LoopEnd(t) == Before(t) + Len(Work(t)) * Turn
InLoop(t, i) == i \in Before(t) + 1 .. LoopEnd(t)
Nth(t, i) == (i - 1 - Before(t)) \div Turn + 1
Place(t, i) == (i - 1 - Before(t)) % Turn
CellAt(t, i) == Work(t)[Nth(t, i)]

LEMMA LoopTypes ==
  ASSUME NEW t \in Thread
  PROVE  Before(t) \in Nat /\ LoopEnd(t) \in Nat /\ Before(t) <= LoopEnd(t)
<1>1. Before(t) \in Nat
  BY TracerAssumption DEF Before, Thread
<1>2. Len(Work(t)) * Turn \in Nat
  BY WorkFacts, TurnFacts
<1>. QED  BY <1>1, <1>2 DEF LoopEnd

LEMMA LoopFacts ==
  ASSUME NEW t \in Thread, NEW i \in Int, InLoop(t, i)
  PROVE  /\ i \in Nat \ {0}
         /\ Place(t, i) \in 0 .. Turn - 1 /\ Nth(t, i) \in 1 .. Len(Work(t))
         /\ CellAt(t, i) \in Cells
         /\ i = Before(t) + Turn * (Nth(t, i) - 1) + Place(t, i) + 1
         /\ Place(t, i) # Turn - 1 => /\ InLoop(t, i + 1) /\ Nth(t, i + 1) = Nth(t, i)
                                     /\ Place(t, i + 1) = Place(t, i) + 1
         /\ Place(t, i) = Turn - 1 /\ i # LoopEnd(t) => /\ InLoop(t, i + 1)
                                                       /\ Place(t, i + 1) = 0
<1>1. PICK b \in Nat, l \in Nat : b = Before(t) /\ l = Len(Work(t))
  BY WorkFacts, LoopTypes
<1>2. i \in b + 1 .. LoopEnd(t) /\ LoopEnd(t) = b + l * Turn
  BY <1>1 DEF InLoop, LoopEnd
<1>3. CASE Turn = 4
  <2>1. LoopEnd(t) = b + 4 * l /\ i \in b + 1 .. b + 4 * l
    BY <1>1, <1>2, <1>3
  <2>2. PICK k \in 0 .. 4 * l - 1 : k = i - 1 - b /\ i = k + 1 + b
    BY <2>1
  <2>3. PICK n \in Nat, p \in 0 .. 3 : n = k \div 4 /\ p = k % 4 /\ k = 4 * n + p
    OBVIOUS
  <2>4. Nth(t, i) = n + 1 /\ Place(t, i) = p
    BY <1>1, <1>3, <2>2, <2>3 DEF Nth, Place
  <2>5. n + 1 \in 1 .. l
    BY <2>3
  <2>6. CellAt(t, i) \in Cells
    BY <1>1, <2>4, <2>5, WorkCell DEF CellAt
  <2>7. Nth(t, i + 1) = (k + 1) \div 4 + 1 /\ Place(t, i + 1) = (k + 1) % 4
    <3>1. i + 1 - 1 - b = k + 1
      BY <2>2
    <3>. QED  BY <1>1, <1>3, <3>1 DEF Nth, Place
  <2>8. p # 3 => /\ (k + 1) \div 4 = n /\ (k + 1) % 4 = p + 1
                 /\ k + 1 < 4 * l
    BY <2>3, <2>5
  <2>9. p = 3 => (k + 1) % 4 = 0
    BY <2>3
  <2>10. k + 1 < 4 * l => InLoop(t, i + 1)
    <3>1. InLoop(t, i + 1) <=> i + 1 \in b + 1 .. b + 4 * l
      BY <1>1, <2>1 DEF InLoop
    <3>2. k + 1 < 4 * l => i + 1 \in b + 1 .. b + 4 * l
      BY <2>2
    <3>. QED  BY <3>1, <3>2
  <2>11. i # LoopEnd(t) => k + 1 < 4 * l
    BY <2>1, <2>2
  <2>12. i \in Nat \ {0} /\ i = Before(t) + 4 * n + p + 1
    <3>1. i \in Nat \ {0} /\ i = b + 4 * n + p + 1
      BY <2>2, <2>3
    <3>. QED  BY <1>1, <3>1
  <2>13. i = Before(t) + Turn * (Nth(t, i) - 1) + Place(t, i) + 1
    BY <1>3, <2>4, <2>12
  <2>14. p # 3 => InLoop(t, i + 1) /\ Nth(t, i + 1) = Nth(t, i) /\ Place(t, i + 1) = Place(t, i) + 1
    BY <2>4, <2>7, <2>8, <2>10
  <2>15. p = 3 /\ i # LoopEnd(t) => InLoop(t, i + 1) /\ Place(t, i + 1) = 0
    BY <2>7, <2>9, <2>10, <2>11
  <2>. QED  BY <1>1, <1>3, <2>4, <2>5, <2>6, <2>12, <2>13, <2>14, <2>15
<1>4. CASE Turn = 6
  <2>1. LoopEnd(t) = b + 6 * l /\ i \in b + 1 .. b + 6 * l
    BY <1>1, <1>2, <1>4
  <2>2. PICK k \in 0 .. 6 * l - 1 : k = i - 1 - b /\ i = k + 1 + b
    BY <2>1
  <2>3. PICK n \in Nat, p \in 0 .. 5 : n = k \div 6 /\ p = k % 6 /\ k = 6 * n + p
    OBVIOUS
  <2>4. Nth(t, i) = n + 1 /\ Place(t, i) = p
    BY <1>1, <1>4, <2>2, <2>3 DEF Nth, Place
  <2>5. n + 1 \in 1 .. l
    BY <2>3
  <2>6. CellAt(t, i) \in Cells
    BY <1>1, <2>4, <2>5, WorkCell DEF CellAt
  <2>7. Nth(t, i + 1) = (k + 1) \div 6 + 1 /\ Place(t, i + 1) = (k + 1) % 6
    <3>1. i + 1 - 1 - b = k + 1
      BY <2>2
    <3>. QED  BY <1>1, <1>4, <3>1 DEF Nth, Place
  <2>8. p # 5 => /\ (k + 1) \div 6 = n /\ (k + 1) % 6 = p + 1
                 /\ k + 1 < 6 * l
    BY <2>3, <2>5
  <2>9. p = 5 => (k + 1) % 6 = 0
    BY <2>3
  <2>10. k + 1 < 6 * l => InLoop(t, i + 1)
    <3>1. InLoop(t, i + 1) <=> i + 1 \in b + 1 .. b + 6 * l
      BY <1>1, <2>1 DEF InLoop
    <3>2. k + 1 < 6 * l => i + 1 \in b + 1 .. b + 6 * l
      BY <2>2
    <3>. QED  BY <3>1, <3>2
  <2>11. i # LoopEnd(t) => k + 1 < 6 * l
    BY <2>1, <2>2
  <2>12. i \in Nat \ {0} /\ i = Before(t) + 6 * n + p + 1
    <3>1. i \in Nat \ {0} /\ i = b + 6 * n + p + 1
      BY <2>2, <2>3
    <3>. QED  BY <1>1, <3>1
  <2>13. i = Before(t) + Turn * (Nth(t, i) - 1) + Place(t, i) + 1
    BY <1>4, <2>4, <2>12
  <2>14. p # 5 => InLoop(t, i + 1) /\ Nth(t, i + 1) = Nth(t, i) /\ Place(t, i + 1) = Place(t, i) + 1
    BY <2>4, <2>7, <2>8, <2>10
  <2>15. p = 5 /\ i # LoopEnd(t) => InLoop(t, i + 1) /\ Place(t, i + 1) = 0
    BY <2>7, <2>9, <2>10, <2>11
  <2>. QED  BY <1>1, <1>4, <2>4, <2>5, <2>6, <2>12, <2>13, <2>14, <2>15
<1>. QED  BY <1>3, <1>4, TurnFacts

LEMMA BodyFacts ==
  ASSUME NEW t \in Thread, NEW fused \in BOOLEAN
  PROVE  /\ Body(t, fused) \in Seq(Steps) /\ Len(Body(t, fused)) = Len(Work(t)) * Turn
         /\ \A i \in 1 .. Len(Work(t)) * Turn :
              Body(t, fused)[i] = Guarded(Work(t)[(i - 1) \div Turn + 1], fused)[((i - 1) % Turn) + 1]
<1>1. Len(Guarded(GlobalVal, fused)) = Turn
  BY GuardedFacts, CellFacts
<1>2. PICK n \in Nat : n = Len(Work(t)) * Turn
  BY WorkFacts, TurnFacts
<1>3. Body(t, fused) = [i \in 1 .. n |->
        Guarded(Work(t)[(i - 1) \div Turn + 1], fused)[((i - 1) % Turn) + 1]]
  BY <1>1, <1>2 DEF Body
<1>4. ASSUME NEW i \in 1 .. n
      PROVE  Guarded(Work(t)[(i - 1) \div Turn + 1], fused)[((i - 1) % Turn) + 1] \in Steps
  <2>1. (i - 1) \div Turn + 1 \in 1 .. Len(Work(t)) /\ ((i - 1) % Turn) + 1 \in 1 .. Turn
    <3>1. PICK l \in Nat : l = Len(Work(t)) /\ n = l * Turn
      BY <1>2, WorkFacts
    <3>2. CASE Turn = 4
      <4>1. i - 1 \in 0 .. 4 * l - 1
        BY <3>1, <3>2
      <4>. QED  BY <3>1, <3>2, <4>1
    <3>3. CASE Turn = 6
      <4>1. i - 1 \in 0 .. 6 * l - 1
        BY <3>1, <3>3
      <4>. QED  BY <3>1, <3>3, <4>1
    <3>. QED  BY <3>2, <3>3, TurnFacts
  <2>2. PICK x \in Cells : x = Work(t)[(i - 1) \div Turn + 1]
    BY <2>1, WorkCell
  <2>3. PICK g \in Seq(Steps) : g = Guarded(x, fused) /\ Len(g) = Turn
    BY GuardedFacts, CellFacts
  <2>. QED  BY <2>1, <2>2, <2>3
<1>5. PICK body : body = Body(t, fused)
  OBVIOUS
<1>6. body \in Seq(Steps) /\ Len(body) = n
  BY <1>3, <1>4, <1>5
<1>. QED  BY <1>2, <1>3, <1>5, <1>6

LEMMA OthersFacts ==
  ASSUME NEW what, NEW m \in Nat, m = NumThreads - 1,
         \A i \in 1 .. m : Step(what, i) \in Steps
  PROVE  /\ ForOthers(what) \in Seq(Steps) /\ Len(ForOthers(what)) = m
         /\ \A i \in 1 .. m : ForOthers(what)[i] = Step(what, i)
<1>1. ForOthers(what) = [i \in 1 .. m |-> Step(what, i)]
  BY DEF ForOthers
<1>. QED  BY <1>1

\* The frame of main around its loop.
LEMMA MainText ==
  ASSUME NEW fused \in BOOLEAN
  PROVE  /\ 0 \in Thread
         /\ Text(0, fused) \in Seq(Steps)
         /\ Len(Text(0, fused)) = LoopEnd(0) + NumThreads + 1
         /\ Text(0, fused)[1] = Step("W", Outside)
         /\ Text(0, fused)[2] = Step("start", 0)
         /\ \A i \in 1 .. NumThreads - 1 : Text(0, fused)[2 + i] = Step("create", i)
         /\ \A i \in 1 .. Len(Work(0)) * Turn :
              Text(0, fused)[NumThreads + 1 + i] = Body(0, fused)[i]
         /\ \A i \in 1 .. NumThreads - 1 : Text(0, fused)[LoopEnd(0) + i] = Step("join", i)
         /\ Text(0, fused)[LoopEnd(0) + NumThreads] = Step("end", 0)
         /\ Text(0, fused)[LoopEnd(0) + NumThreads + 1] = Step("W", Outside)
<1>1. 0 \in Thread /\ NumThreads \in Nat \ {0}
  BY TracerAssumption DEF Thread
<1>2. /\ Step("W", Outside) \in Steps /\ Step("start", 0) \in Steps /\ Step("end", 0) \in Steps
      /\ \A i \in 1 .. NumThreads - 1 : Step("create", i) \in Steps /\ Step("join", i) \in Steps
  BY <1>1, CellFacts DEF Step, Steps
<1>3. PICK a \in Seq(Steps) : a = <<Step("W", Outside), Step("start", 0)>>
  BY <1>2, TwoSteps
<1>4. PICK e \in Seq(Steps) : e = <<Step("end", 0), Step("W", Outside)>>
  BY <1>2, TwoSteps
<1>5. /\ Len(a) = 2 /\ a[1] = Step("W", Outside) /\ a[2] = Step("start", 0)
      /\ Len(e) = 2 /\ e[1] = Step("end", 0) /\ e[2] = Step("W", Outside)
  BY <1>2, <1>3, <1>4, TwoSteps
<1>6. PICK m \in Nat : m = NumThreads - 1
  BY <1>1
<1>7. PICK c \in Seq(Steps), j \in Seq(Steps) : c = ForOthers("create") /\ j = ForOthers("join")
  BY <1>2, <1>6, OthersFacts
<1>8. /\ Len(c) = m /\ \A i \in 1 .. m : c[i] = Step("create", i)
      /\ Len(j) = m /\ \A i \in 1 .. m : j[i] = Step("join", i)
  BY <1>2, <1>6, <1>7, OthersFacts
<1>9. PICK n \in Nat : n = Len(Work(0)) * Turn
  BY <1>1, WorkFacts, TurnFacts
<1>10. PICK b \in Seq(Steps) : b = Body(0, fused)
  BY <1>1, BodyFacts
<1>11. Len(b) = n
  BY <1>1, <1>9, <1>10, BodyFacts
<1>12. PICK ac \in Seq(Steps) : ac = a \o c
  BY Concat
<1>13. /\ Len(ac) = 2 + m /\ \A i \in 1 .. 2 : ac[i] = a[i]
       /\ \A i \in 1 .. m : ac[2 + i] = c[i]
  <2>1. /\ Len(ac) = Len(a) + Len(c)
        /\ \A i \in 1 .. Len(a) : ac[i] = a[i]
        /\ \A i \in 1 .. Len(c) : ac[Len(a) + i] = c[i]
    BY <1>12, Concat
  <2>. QED  BY <1>5, <1>8, <2>1
<1>14. PICK acb \in Seq(Steps) : acb = ac \o b
  BY Concat
<1>15. /\ Len(acb) = 2 + m + n /\ \A i \in 1 .. 2 + m : acb[i] = ac[i]
       /\ \A i \in 1 .. n : acb[2 + m + i] = b[i]
  <2>1. /\ Len(acb) = Len(ac) + Len(b)
        /\ \A i \in 1 .. Len(ac) : acb[i] = ac[i]
        /\ \A i \in 1 .. Len(b) : acb[Len(ac) + i] = b[i]
    BY <1>14, Concat
  <2>. QED  BY <1>11, <1>13, <2>1
<1>16. PICK acbj \in Seq(Steps) : acbj = acb \o j
  BY Concat
<1>17. /\ Len(acbj) = 2 + m + n + m /\ \A i \in 1 .. 2 + m + n : acbj[i] = acb[i]
       /\ \A i \in 1 .. m : acbj[2 + m + n + i] = j[i]
  <2>1. /\ Len(acbj) = Len(acb) + Len(j)
        /\ \A i \in 1 .. Len(acb) : acbj[i] = acb[i]
        /\ \A i \in 1 .. Len(j) : acbj[Len(acb) + i] = j[i]
    BY <1>16, Concat
  <2>. QED  BY <1>8, <1>15, <2>1
<1>18. PICK whole \in Seq(Steps) : whole = acbj \o e
  BY Concat
<1>19. /\ Len(whole) = 2 + m + n + m + 2 /\ \A i \in 1 .. 2 + m + n + m : whole[i] = acbj[i]
       /\ \A i \in 1 .. 2 : whole[2 + m + n + m + i] = e[i]
  <2>1. /\ Len(whole) = Len(acbj) + Len(e)
        /\ \A i \in 1 .. Len(acbj) : whole[i] = acbj[i]
        /\ \A i \in 1 .. Len(e) : whole[Len(acbj) + i] = e[i]
    BY <1>18, Concat
  <2>. QED  BY <1>5, <1>17, <2>1
<1>20. Text(0, fused) = whole
  <2>1. Text(0, fused) =
          <<Step("W", Outside), Step("start", 0)>> \o ForOthers("create") \o Body(0, fused)
            \o ForOthers("join") \o <<Step("end", 0), Step("W", Outside)>>
    BY DEF Text
  <2>2. Text(0, fused) = a \o c \o b \o j \o e
    BY <1>3, <1>4, <1>7, <1>10, <2>1, Zenon
  <2>. QED  BY <1>12, <1>14, <1>16, <1>18, <2>2, Zenon
<1>21. ASSUME NEW i \in 1 .. 2 + m  PROVE whole[i] = ac[i]
  <2>1. i \in 1 .. 2 + m + n /\ i \in 1 .. 2 + m + n + m
    OBVIOUS
  <2>. QED  BY <1>15, <1>17, <1>19, <2>1
<1>22. /\ whole[1] = Step("W", Outside) /\ whole[2] = Step("start", 0)
       /\ \A i \in 1 .. m : whole[2 + i] = Step("create", i)
  BY <1>5, <1>8, <1>13, <1>21
<1>23. \A i \in 1 .. n : whole[2 + m + i] = b[i]
  <2>1. \A i \in 1 .. n : 2 + m + i \in 1 .. 2 + m + n /\ 2 + m + i \in 1 .. 2 + m + n + m
    OBVIOUS
  <2>. QED  BY <1>15, <1>17, <1>19, <2>1
<1>24. \A i \in 1 .. m : whole[2 + m + n + i] = Step("join", i)
  <2>1. \A i \in 1 .. m : 2 + m + n + i \in 1 .. 2 + m + n + m
    OBVIOUS
  <2>. QED  BY <1>8, <1>17, <1>19, <2>1
<1>25. whole[2 + m + n + m + 1] = Step("end", 0) /\ whole[2 + m + n + m + 2] = Step("W", Outside)
  BY <1>5, <1>19
<1>26. NumThreads = m + 1
  BY <1>1, <1>6
<1>27. LoopEnd(0) = 2 + m + n
  BY <1>9, <1>26 DEF LoopEnd, Before
<1>28. /\ LoopEnd(0) + NumThreads = 2 + m + n + m + 1 /\ LoopEnd(0) + NumThreads + 1 = 2 + m + n + m + 2
       /\ NumThreads + 1 = 2 + m /\ NumThreads - 1 = m
       /\ Len(whole) = LoopEnd(0) + NumThreads + 1
  BY <1>19, <1>26, <1>27
<1>. QED  BY <1>1, <1>9, <1>10, <1>20, <1>22, <1>23, <1>24, <1>25, <1>27, <1>28

-----------------------------------------------------------------------------
(* The steps as they were compiled.                                        *)

Compiled ==
  /\ tool \in Tools /\ program \in Programs
  /\ \E fused \in BOOLEAN : text = [t \in Thread |-> Text(t, fused)]

\* An increment is one instruction; otherwise it is a load and a store.
Fused == text = [t \in Thread |-> Text(t, TRUE)]

LoadAt == First + IF Fused THEN 2 ELSE 1
WriteAt == First + IF Fused THEN 1 ELSE 2

LEMMA FusedFacts ==
  ASSUME Compiled
  PROVE  \E fused \in BOOLEAN :
           /\ text = [t \in Thread |-> Text(t, fused)]
           /\ fused => LoadAt = First + 2 /\ WriteAt = First + 1
           /\ ~fused => LoadAt = First + 1 /\ WriteAt = First + 2
<1>1. CASE Fused
  BY <1>1 DEF Fused, LoadAt, WriteAt
<1>2. CASE ~Fused
  <2>1. text = [t \in Thread |-> Text(t, FALSE)]
    BY <1>2 DEF Fused, Compiled
  <2>. QED  BY <1>2, <2>1 DEF LoadAt, WriteAt
<1>. QED  BY <1>1, <1>2

LEMMA PlaceFacts == LoadAt \in {First + 1, First + 2} /\ WriteAt = 2 * First + 3 - LoadAt
BY TurnFacts DEF LoadAt, WriteAt

\* What the steps of a loop are.
LEMMA LoopSteps ==
  ASSUME Compiled, NEW t \in Thread, NEW i \in Int, InLoop(t, i)
  PROVE  /\ text[t][i].arg = CellAt(t, i)
         /\ text[t][i].do \in {"lock", "R", "W", "load", "store", "unlock"}
         /\ text[t][i].do = "lock" <=> Locked /\ Place(t, i) = 0
         /\ text[t][i].do = "R" <=> Place(t, i) = First
         /\ text[t][i].do = "W" <=> Place(t, i) = WriteAt
         /\ text[t][i].do = "load" <=> Place(t, i) = LoadAt
         /\ text[t][i].do = "store" <=> Place(t, i) = First + 3
         /\ text[t][i].do = "unlock" <=> Locked /\ Place(t, i) = 5
<1>1. PICK fused \in BOOLEAN :
        /\ text = [u \in Thread |-> Text(u, fused)]
        /\ fused => LoadAt = First + 2 /\ WriteAt = First + 1
        /\ ~fused => LoadAt = First + 1 /\ WriteAt = First + 2
  BY FusedFacts
<1>2. PICK k \in 1 .. Len(Work(t)) * Turn :
        /\ k = i - Before(t)
        /\ Nth(t, i) = (k - 1) \div Turn + 1 /\ Place(t, i) = (k - 1) % Turn
  <2>1. PICK b \in Nat, m \in Nat : b = Before(t) /\ m = Len(Work(t)) * Turn
    BY LoopTypes, WorkFacts, TurnFacts
  <2>2. i - b \in 1 .. m /\ i - 1 - b = (i - b) - 1
    BY <2>1 DEF InLoop, LoopEnd
  <2>. QED  BY <2>1, <2>2 DEF Nth, Place
<1>3. text[t][i] = Body(t, fused)[k]
  <2>1. CASE t = 0
    <3>1. text[t] = Text(0, fused)
      BY <1>1, <2>1
    <3>2. i = NumThreads + 1 + k
      BY <1>2, <2>1, TracerAssumption DEF Before
    <3>. QED  BY <1>2, <2>1, <3>1, <3>2, MainText
  <2>2. CASE t # 0
    <3>1. text[t] = Body(t, fused)
      BY <1>1, <2>2 DEF Text
    <3>2. i = k
      BY <1>2, <2>2 DEF Before
    <3>. QED  BY <3>1, <3>2
  <2>. QED  BY <2>1, <2>2
<1>4. PICK x \in Cells, p \in 0 .. Turn - 1 : x = CellAt(t, i) /\ p = Place(t, i)
  BY LoopFacts
<1>5. text[t][i] = Guarded(x, fused)[p + 1]
  BY <1>2, <1>3, <1>4, BodyFacts DEF CellAt
<1>6. x \in Int
  BY CellFacts
<1>7. p = First => text[t][i] = Step("R", x)
  BY <1>5, <1>6, GuardedFacts
<1>8. p = WriteAt => text[t][i] = Step("W", x)
  <2>1. CASE fused
    <3>1. WriteAt + 1 = First + 2
      BY <1>1, <2>1, TurnFacts
    <3>. QED  BY <1>5, <1>6, <2>1, <3>1, GuardedFacts
  <2>2. CASE ~fused
    <3>1. WriteAt + 1 = First + 3
      BY <1>1, <2>2, TurnFacts
    <3>. QED  BY <1>5, <1>6, <2>2, <3>1, GuardedFacts
  <2>. QED  BY <2>1, <2>2
<1>9. p = LoadAt => text[t][i] = Step("load", x)
  <2>1. CASE fused
    <3>1. LoadAt + 1 = First + 3
      BY <1>1, <2>1, TurnFacts
    <3>. QED  BY <1>5, <1>6, <2>1, <3>1, GuardedFacts
  <2>2. CASE ~fused
    <3>1. LoadAt + 1 = First + 2
      BY <1>1, <2>2, TurnFacts
    <3>. QED  BY <1>5, <1>6, <2>2, <3>1, GuardedFacts
  <2>. QED  BY <2>1, <2>2
<1>10. p = First + 3 => text[t][i] = Step("store", x)
  BY <1>5, <1>6, GuardedFacts, TurnFacts
<1>11. Locked /\ p = 0 => text[t][i] = Step("lock", x)
  BY <1>5, <1>6, GuardedFacts
<1>12. Locked /\ p = 5 => text[t][i] = Step("unlock", x)
  BY <1>5, <1>6, GuardedFacts
<1>13. \/ p = First \/ p = WriteAt \/ p = LoadAt \/ p = First + 3
       \/ (Locked /\ p = 0) \/ (Locked /\ p = 5)
  BY <1>4, TurnFacts, PlaceFacts
<1>14. /\ First # WriteAt /\ First # LoadAt /\ WriteAt # LoadAt /\ WriteAt # First + 3
       /\ LoadAt # First + 3 /\ First # First + 3
       /\ Locked => /\ First \notin {0, 5} /\ WriteAt \notin {0, 5} /\ LoadAt \notin {0, 5}
                    /\ First + 3 \notin {0, 5}
  BY TurnFacts, PlaceFacts
<1>15. \A d : Step(d, x).do = d /\ Step(d, x).arg = x
  BY DEF Step
<1>. QED  BY <1>4, <1>7, <1>8, <1>9, <1>10, <1>11, <1>12, <1>13, <1>14, <1>15

\* Where a text ends, and what main does around its loop.
LEMMA Ends ==
  ASSUME Compiled, NEW t \in Thread
  PROVE  /\ text[t] \in Seq(Steps)
         /\ Len(text[t]) = IF t = 0 THEN LoopEnd(0) + NumThreads + 1 ELSE LoopEnd(t)
<1>1. PICK fused \in BOOLEAN : text = [u \in Thread |-> Text(u, fused)]
  BY FusedFacts
<1>2. CASE t = 0
  BY <1>1, <1>2, MainText
<1>3. CASE t # 0
  BY <1>1, <1>3, BodyFacts, WorkFacts, TurnFacts DEF Text, LoopEnd, Before
<1>. QED  BY <1>2, <1>3

LEMMA MainSteps ==
  ASSUME Compiled, NEW i \in 1 .. LoopEnd(0) + NumThreads + 1
  PROVE  /\ i \in {1, LoopEnd(0) + NumThreads + 1} => text[0][i] = Step("W", Outside)
         /\ i = 2 => text[0][i] = Step("start", 0)
         /\ i \in 3 .. NumThreads + 1 => text[0][i] = Step("create", i - 2)
         /\ i \in LoopEnd(0) + 1 .. LoopEnd(0) + NumThreads - 1
              => text[0][i] = Step("join", i - LoopEnd(0))
         /\ i = LoopEnd(0) + NumThreads => text[0][i] = Step("end", 0)
         /\ InLoop(0, i) <=> i \in NumThreads + 2 .. LoopEnd(0)
<1>1. PICK fused \in BOOLEAN : text = [u \in Thread |-> Text(u, fused)]
  BY FusedFacts
<1>2. text[0] = Text(0, fused)
  BY <1>1, MainText
<1>3. NumThreads \in Nat \ {0} /\ LoopEnd(0) \in Nat
  BY TracerAssumption, LoopTypes, MainText
<1>4. i \in 3 .. NumThreads + 1 => text[0][i] = Step("create", i - 2)
  <2>1. i \in 3 .. NumThreads + 1 => i - 2 \in 1 .. NumThreads - 1 /\ i = 2 + (i - 2)
    BY <1>3
  <2>. QED  BY <1>2, <2>1, MainText
<1>5. i \in LoopEnd(0) + 1 .. LoopEnd(0) + NumThreads - 1
        => text[0][i] = Step("join", i - LoopEnd(0))
  <2>1. i \in LoopEnd(0) + 1 .. LoopEnd(0) + NumThreads - 1 =>
          i - LoopEnd(0) \in 1 .. NumThreads - 1 /\ i = LoopEnd(0) + (i - LoopEnd(0))
    BY <1>3
  <2>. QED  BY <1>2, <2>1, MainText
<1>6. InLoop(0, i) <=> i \in NumThreads + 2 .. LoopEnd(0)
  BY <1>3 DEF InLoop, Before
<1>. QED  BY <1>2, <1>4, <1>5, <1>6, MainText

-----------------------------------------------------------------------------
(* The inductive invariant, first what it says of the course of things.    *)

Record == [tid : Thread, op : {"R", "W"}, addr : Cells \cup {Outside}]

Types ==
  /\ Compiled
  /\ at \in [Thread -> Nat] /\ \A t \in Thread : at[t] <= Len(text[t]) + 1
  /\ instrument \in BOOLEAN /\ passed \subseteq Thread
  /\ trace \in Seq(Record)
  /\ mem \in [Cells -> Nat] /\ reg \in [Thread -> Nat]
  /\ holder \in [Cells -> Thread \cup {Nobody}]

\* Main creates the others before its loop and joins them after it, and the
\* flag is set from dummy_instr_start to dummy_instr_end.
Control ==
  /\ at[0] # 0
  /\ \A t \in Thread \ {0} : at[t] = 0 <=> at[0] <= t + 2
  /\ \A t \in Thread \ {0} : at[0] > LoopEnd(0) + t => at[t] = LoopEnd(t) + 1
  /\ instrument <=> tool = "TraceFuncsList" /\ at[0] \in 3 .. LoopEnd(0) + NumThreads

\* A thread that has found the flag set is about to make the access, in the
\* demarcated part.
Requested == \A t \in passed : AtStep(t, {"R", "W"}) /\ Demarcated(Now(t))

Course == Types /\ Control /\ Requested

\* Names for the numbers that the positions of main are compared with.
LEMMA FrameNumbers ==
  /\ NumThreads \in Nat \ {0} /\ LoopEnd(0) \in Nat /\ NumThreads + 1 <= LoopEnd(0)
  /\ 0 \in Thread /\ \A t \in Thread \ {0} : t \in 1 .. NumThreads - 1
<1>1. NumThreads \in Nat \ {0} /\ 0 \in Thread /\ \A t \in Thread \ {0} : t \in 1 .. NumThreads - 1
  BY TracerAssumption DEF Thread
<1>. QED  BY <1>1, LoopTypes DEF Before

\* A thread that has been created and has not finished is at a step.
LEMMA Position ==
  ASSUME Types, NEW t \in Thread, at[t] # 0, ~Finished(t)
  PROVE  /\ at[t] \in 1 .. Len(text[t]) /\ at[t] \in Nat
         /\ t # 0 => InLoop(t, at[t])
         /\ t = 0 => at[0] \in 1 .. LoopEnd(0) + NumThreads + 1
<1>1. at[t] \in Nat /\ at[t] <= Len(text[t]) + 1 /\ at[t] # Len(text[t]) + 1
  BY DEF Types, Finished
<1>2. text[t] \in Seq(Steps) /\ Len(text[t]) \in Nat
      /\ Len(text[t]) = IF t = 0 THEN LoopEnd(0) + NumThreads + 1 ELSE LoopEnd(t)
  BY Ends DEF Types
<1>3. at[t] \in 1 .. Len(text[t])
  BY <1>1, <1>2
<1>4. t # 0 => InLoop(t, at[t])
  BY <1>2, <1>3, FrameNumbers DEF InLoop, Before
<1>. QED  BY <1>1, <1>2, <1>3, <1>4

\* What main is about to do.
LEMMA MainAt ==
  ASSUME Types, at[0] # 0, ~Finished(0)
  PROVE  \/ at[0] \in {1, LoopEnd(0) + NumThreads + 1} /\ Now(0) = Step("W", Outside)
         \/ at[0] = 2 /\ Now(0) = Step("start", 0)
         \/ at[0] \in 3 .. NumThreads + 1 /\ Now(0) = Step("create", at[0] - 2)
         \/ InLoop(0, at[0]) /\ at[0] \in NumThreads + 2 .. LoopEnd(0)
         \/ /\ at[0] \in LoopEnd(0) + 1 .. LoopEnd(0) + NumThreads - 1
            /\ Now(0) = Step("join", at[0] - LoopEnd(0))
         \/ at[0] = LoopEnd(0) + NumThreads /\ Now(0) = Step("end", 0)
<1>1. Compiled /\ NumThreads \in Nat \ {0} /\ LoopEnd(0) \in Nat /\ NumThreads + 1 <= LoopEnd(0)
  BY FrameNumbers DEF Types
<1>2. PICK i \in 1 .. LoopEnd(0) + NumThreads + 1 : i = at[0] /\ Now(0) = text[0][i]
  BY Position, FrameNumbers DEF Now
<1>3. \/ i \in {1, LoopEnd(0) + NumThreads + 1} \/ i = 2 \/ i \in 3 .. NumThreads + 1
      \/ i \in NumThreads + 2 .. LoopEnd(0)
      \/ i \in LoopEnd(0) + 1 .. LoopEnd(0) + NumThreads - 1 \/ i = LoopEnd(0) + NumThreads
  BY <1>1
<1>. QED  BY <1>1, <1>2, <1>3, MainSteps

\* The steps of the loop, and the two outside the demarcated part.
RunKinds == {"R", "W", "load", "store", "lock", "unlock"}

LEMMA RunAt ==
  ASSUME Types, NEW t \in Thread, AtStep(t, RunKinds)
  PROVE  \/ InLoop(t, at[t])
         \/ /\ t = 0 /\ at[0] \in {1, LoopEnd(0) + NumThreads + 1}
            /\ Now(t) = Step("W", Outside)
<1>1. at[t] # 0 /\ ~Finished(t) /\ Now(t).do \in RunKinds
  BY DEF AtStep
<1>2. CASE t # 0
  BY <1>1, <1>2, Position
<1>3. CASE t = 0
  <2>1. \A d, x : Step(d, x).do = d
    BY DEF Step
  <2>. QED  BY <1>1, <1>3, <2>1, MainAt DEF RunKinds
<1>. QED  BY <1>2, <1>3

\* Within a loop the flag is set.
LEMMA LoopRecorded ==
  ASSUME Types, Control, NEW t \in Thread, InLoop(t, at[t])
  PROVE  Records /\ Now(t).arg \in Cells
<1>1. at[t] \in Nat /\ Now(t).arg = CellAt(t, at[t]) /\ CellAt(t, at[t]) \in Cells
  <2>1. at[t] \in Nat /\ Compiled
    BY DEF Types
  <2>. QED  BY <2>1, LoopFacts, LoopSteps DEF Now
<1>2. at[0] \in 3 .. LoopEnd(0) + NumThreads
  <2>1. CASE t = 0
    <3>1. at[0] \in NumThreads + 2 .. LoopEnd(0)
      BY <2>1, FrameNumbers DEF InLoop, Before
    <3>. QED  BY <3>1, FrameNumbers
  <2>2. CASE t # 0
    <3>1. t \in 1 .. NumThreads - 1 /\ LoopEnd(t) \in Nat /\ at[t] \in 1 .. LoopEnd(t)
      BY <2>2, FrameNumbers, LoopTypes DEF InLoop, Before
    <3>2. at[0] \in Nat /\ ~(at[0] <= t + 2) /\ ~(at[0] > LoopEnd(0) + t)
      BY <2>2, <3>1, FrameNumbers DEF Control, Types
    <3>. QED  BY <3>1, <3>2, FrameNumbers
  <2>. QED  BY <2>1, <2>2
<1>3. Records
  BY <1>2, TracerAssumption DEF Control, Records, Types, Compiled
<1>. QED  BY <1>1, <1>3

\* What depends on the program and its text alone does not change.
LEMMA SameBuild ==
  ASSUME UNCHANGED build
  PROVE  /\ Compiled => Compiled'
         /\ (Locked' <=> Locked) /\ (Adds' <=> Adds) /\ Turn' = Turn /\ First' = First
         /\ LoadAt' = LoadAt /\ WriteAt' = WriteAt
         /\ \A t \in Thread : /\ Work(t)' = Work(t) /\ LoopEnd(t)' = LoopEnd(t)
                             /\ \A i \in Int : /\ InLoop(t, i)' <=> InLoop(t, i)
                                              /\ Nth(t, i)' = Nth(t, i)
                                              /\ Place(t, i)' = Place(t, i)
                                              /\ CellAt(t, i)' = CellAt(t, i)
<1>1. tool' = tool /\ program' = program /\ text' = text
  BY DEF build
<1>2. (Locked' <=> Locked) /\ (Adds' <=> Adds)
  BY <1>1 DEF Locked, Adds
<1>3. Turn' = Turn /\ First' = First
  BY <1>2 DEF Turn, First
<1>4. \A t \in Thread : Work(t)' = Work(t)
  BY <1>2 DEF Work
<1>5. \A x, fused : Increment(x, fused)' = Increment(x, fused)
  BY DEF Increment
<1>6. \A x, fused : Guarded(x, fused)' = Guarded(x, fused)
  BY <1>2, <1>5 DEF Guarded
<1>7. \A t \in Thread, fused \in BOOLEAN : Body(t, fused)' = Body(t, fused)
  BY <1>4, <1>6, Zenon DEF Body
<1>8. \A t \in Thread, fused \in BOOLEAN : Text(t, fused)' = Text(t, fused)
  <2>1. 0 \in Thread
    BY FrameNumbers
  <2>. QED  BY <1>7, <2>1, Zenon DEF Text
<1>9. /\ Compiled => Compiled'
      /\ Fused' <=> Fused
  BY <1>1, <1>8, Zenon DEF Compiled, Fused
<1>10. LoadAt' = LoadAt /\ WriteAt' = WriteAt
  BY <1>3, <1>9 DEF LoadAt, WriteAt
<1>11. \A t \in Thread : LoopEnd(t)' = LoopEnd(t)
  BY <1>3, <1>4 DEF LoopEnd
<1>12. \A t \in Thread, i \in Int :
         /\ InLoop(t, i)' <=> InLoop(t, i)
         /\ Nth(t, i)' = Nth(t, i) /\ Place(t, i)' = Place(t, i)
         /\ CellAt(t, i)' = CellAt(t, i)
  BY <1>3, <1>4, <1>11 DEF InLoop, Nth, Place, CellAt
<1>. QED  BY <1>2, <1>3, <1>4, <1>9, <1>10, <1>11, <1>12

\* A step of a thread, other than those of main's frame, leaves the course of
\* things as it is.
LEMMA GoOnKeeps ==
  ASSUME Types, Control, NEW t \in Thread, AtStep(t, RunKinds), GoOn(t),
         UNCHANGED <<build, instrument>>
  PROVE  /\ at' \in [Thread -> Nat] /\ \A u \in Thread : at'[u] <= Len(text'[u]) + 1
         /\ at'[t] = at[t] + 1 /\ \A u \in Thread \ {t} : at'[u] = at[u]
         /\ Control' /\ Compiled'
<1>1. tool' = tool /\ program' = program /\ text' = text /\ instrument' = instrument
  BY DEF build
<1>2. LoopEnd(0)' = LoopEnd(0) /\ (\A u \in Thread : LoopEnd(u)' = LoopEnd(u)) /\ Compiled'
  BY SameBuild, FrameNumbers DEF Types
<1>3. /\ at' \in [Thread -> Nat]
      /\ at'[t] = at[t] + 1 /\ \A u \in Thread \ {t} : at'[u] = at[u]
  BY DEF GoOn, Types
<1>4. /\ at[t] # 0 /\ ~Finished(t) /\ at[t] \in 1 .. Len(text[t]) /\ Len(text[t]) \in Nat
  <2>1. at[t] # 0 /\ ~Finished(t)
    BY DEF AtStep
  <2>2. text[t] \in Seq(Steps)
    BY Ends DEF Types
  <2>. QED  BY <2>1, <2>2, Position
<1>5. ASSUME NEW u \in Thread  PROVE at'[u] <= Len(text'[u]) + 1
  <2>1. CASE u = t
    BY <1>1, <1>3, <1>4, <2>1
  <2>2. CASE u # t
    BY <1>1, <1>3, <2>2 DEF Types
  <2>. QED  BY <2>1, <2>2
<1>6. Control'
  <2>1. CASE t # 0
    <3>1. at[t] # LoopEnd(t) + 1 /\ at[t] \in Nat
      BY <1>4, <2>1, Ends DEF Finished, Types
    <3>2. at'[0] = at[0] /\ at'[t] # 0
      BY <1>3, <2>1, <3>1, FrameNumbers
    <3>. QED  BY <1>1, <1>2, <1>3, <1>4, <2>1, <3>1, <3>2 DEF Control
  <2>2. CASE t = 0
    <3>1. \/ at[0] \in NumThreads + 2 .. LoopEnd(0)
          \/ at[0] \in {1, LoopEnd(0) + NumThreads + 1}
      BY <2>2, RunAt, FrameNumbers DEF InLoop, Before
    <3>2. PICK i \in Nat : i = at[0] /\ at'[0] = i + 1
      BY <1>3, <1>4, <2>2
    <3>3. \A u \in Thread \ {0} :
            /\ i <= u + 2 <=> i + 1 <= u + 2
            /\ i > LoopEnd(0) + u <=> i + 1 > LoopEnd(0) + u
      BY <3>1, <3>2, FrameNumbers
    <3>4. i \in 3 .. LoopEnd(0) + NumThreads <=> i + 1 \in 3 .. LoopEnd(0) + NumThreads
      BY <3>1, <3>2, FrameNumbers
    <3>. QED  BY <1>1, <1>2, <1>3, <2>2, <3>2, <3>3, <3>4 DEF Control
  <2>. QED  BY <2>1, <2>2
<1>. QED  BY <1>2, <1>3, <1>5, <1>6

\* Who asked to record something is still about to access it, if it has not
\* moved.
LEMMA RequestedKeeps ==
  ASSUME Requested, UNCHANGED build, NEW S \in SUBSET Thread,
         \A t \in S : (t \in passed \/ (AtStep(t, {"R", "W"}) /\ Demarcated(Now(t)))) /\ at'[t] = at[t]
  PROVE  \A t \in S : AtStep(t, {"R", "W"})' /\ Demarcated(Now(t))'
BY DEF Requested, AtStep, Demarcated, Now, Finished, build

LEMMA TestFlagCourse == ASSUME Course, NEW t \in Thread, TestFlag(t)  PROVE Course'
<1>. USE DEF Course
<1>1. AtStep(t, {"R", "W"}) /\ AtStep(t, RunKinds) /\ t \notin passed
  BY DEF TestFlag, AtStep, RunKinds
<1>2. UNCHANGED <<build, instrument>> /\ UNCHANGED <<trace, mem, reg, holder>>
  BY DEF TestFlag
<1>3. CASE Records
  <2>1. passed' = passed \cup {t} /\ at' = at
    BY <1>3 DEF TestFlag
  <2>2. Demarcated(Now(t))
    <3>1. Now(t).do \in {"R", "W"}
      BY <1>1 DEF AtStep
    <3>2. CASE InLoop(t, at[t])
      <4>1. Now(t).arg # Outside
        BY <3>2, LoopRecorded, CellFacts
      <4>. QED  BY <3>1, <4>1 DEF Demarcated
    <3>3. CASE t = 0 /\ at[0] \in {1, LoopEnd(0) + NumThreads + 1}
      <4>1. ~(at[0] \in 3 .. LoopEnd(0) + NumThreads)
        BY <3>3, FrameNumbers
      <4>. QED  BY <1>3, <3>1, <4>1 DEF Control, Records, Demarcated
    <3>. QED  BY <1>1, <3>2, <3>3, RunAt
  <2>3. Requested'
    <3>1. \A u \in passed' : (u \in passed \/ (AtStep(u, {"R", "W"}) /\ Demarcated(Now(u)))) /\ at'[u] = at[u]
      BY <1>1, <2>1, <2>2
    <3>2. passed' \in SUBSET Thread
      BY <2>1 DEF Types
    <3>. QED  BY <1>2, <3>1, <3>2, RequestedKeeps DEF Requested
  <2>4. Types'
    BY <1>2, <2>1, SameBuild DEF Types, build
  <2>5. Control'
    BY <1>2, <2>1, SameBuild, FrameNumbers DEF Control, build
  <2>. QED  BY <2>3, <2>4, <2>5
<1>4. CASE ~Records
  <2>1. passed' = passed /\ GoOn(t)
    BY <1>4 DEF TestFlag
  <2>2. /\ at' \in [Thread -> Nat] /\ \A u \in Thread : at'[u] <= Len(text'[u]) + 1
        /\ \A u \in Thread \ {t} : at'[u] = at[u]
        /\ Control' /\ Compiled'
    BY <1>1, <1>2, <2>1, GoOnKeeps
  <2>3. Requested'
    <3>1. \A u \in passed' : u \in passed /\ at'[u] = at[u]
      BY <1>1, <2>1, <2>2 DEF Types
    <3>2. passed' \in SUBSET Thread
      BY <2>1 DEF Types
    <3>. QED  BY <1>2, <3>1, <3>2, RequestedKeeps DEF Requested
  <2>4. Types'
    BY <1>2, <2>1, <2>2 DEF Types
  <2>. QED  BY <2>2, <2>3, <2>4
<1>. QED  BY <1>3, <1>4

\* The record that a thread prints.
LEMMA RecordType ==
  ASSUME Course, NEW t \in Thread, AtStep(t, {"R", "W"})
  PROVE  [tid |-> t, op |-> Now(t).do, addr |-> Arg(t)] \in Record
<1>1. Now(t).do \in {"R", "W"} /\ AtStep(t, RunKinds)
  BY DEF AtStep, RunKinds
<1>2. Now(t).arg \in Cells \cup {Outside}
  <2>1. InLoop(t, at[t]) => Now(t).arg \in Cells
    BY LoopRecorded DEF Course
  <2>2. Now(t) = Step("W", Outside) => Now(t).arg = Outside
    BY DEF Step
  <2>. QED  BY <1>1, <2>1, <2>2, RunAt DEF Course
<1>. QED  BY <1>1, <1>2 DEF Record, Arg

LEMMA PrintRecordCourse == ASSUME Course, NEW t \in Thread, PrintRecord(t)  PROVE Course'
<1>. USE DEF Course
<1>1. t \in passed /\ AtStep(t, {"R", "W"}) /\ AtStep(t, RunKinds)
  BY DEF PrintRecord, Requested, AtStep, RunKinds
<1>2. /\ UNCHANGED <<build, instrument>> /\ UNCHANGED <<mem, reg, holder>>
      /\ passed' = passed \ {t} /\ GoOn(t)
  BY DEF PrintRecord
<1>3. trace' \in Seq(Record)
  <2>1. PICK r \in Record : r = [tid |-> t, op |-> Now(t).do, addr |-> Arg(t)]
    BY <1>1, RecordType
  <2>2. trace' = Append(trace, r) /\ trace \in Seq(Record)
    BY <2>1 DEF PrintRecord, Types
  <2>. QED  BY <2>2
<1>4. /\ at' \in [Thread -> Nat] /\ \A u \in Thread : at'[u] <= Len(text'[u]) + 1
      /\ \A u \in Thread \ {t} : at'[u] = at[u]
      /\ Control' /\ Compiled'
  BY <1>1, <1>2, GoOnKeeps
<1>5. Requested'
  <2>1. \A u \in passed' : u \in passed /\ at'[u] = at[u]
    BY <1>2, <1>4 DEF Types
  <2>2. passed' \in SUBSET Thread
    BY <1>2 DEF Types
  <2>. QED  BY <1>2, <2>1, <2>2, RequestedKeeps DEF Requested
<1>6. Types'
  BY <1>2, <1>3, <1>4 DEF Types
<1>. QED  BY <1>4, <1>5, <1>6

\* The steps that record nothing.
LEMMA SilentCourse ==
  ASSUME Course, NEW t \in Thread, AtStep(t, RunKinds \ {"R", "W"}), GoOn(t),
         UNCHANGED <<build, instrument, passed, trace>>,
         mem' \in [Cells -> Nat], reg' \in [Thread -> Nat],
         holder' \in [Cells -> Thread \cup {Nobody}]
  PROVE  Course'
<1>. USE DEF Course
<1>1. AtStep(t, RunKinds) /\ t \notin passed
  BY DEF AtStep, RunKinds, Requested
<1>2. /\ at' \in [Thread -> Nat] /\ \A u \in Thread : at'[u] <= Len(text'[u]) + 1
      /\ \A u \in Thread \ {t} : at'[u] = at[u]
      /\ Control' /\ Compiled'
  BY <1>1, GoOnKeeps
<1>3. Requested'
  <2>1. \A u \in passed' : u \in passed /\ at'[u] = at[u]
    BY <1>1, <1>2 DEF Types
  <2>2. passed' \in SUBSET Thread
    BY DEF Types
  <2>. QED  BY <2>1, <2>2, RequestedKeeps DEF Requested
<1>4. Types'
  BY <1>2 DEF Types
<1>. QED  BY <1>2, <1>3, <1>4

\* The cell that a step of the loop is about.
LEMMA CellOfStep ==
  ASSUME Course, NEW t \in Thread, AtStep(t, RunKinds \ {"R", "W"})
  PROVE  InLoop(t, at[t]) /\ Arg(t) \in Cells /\ Arg(t) = CellAt(t, at[t])
<1>1. AtStep(t, RunKinds) /\ Now(t).do \notin {"R", "W"}
  BY DEF AtStep, RunKinds
<1>2. Now(t) = Step("W", Outside) => Now(t).do = "W"
  BY DEF Step
<1>3. InLoop(t, at[t])
  BY <1>1, <1>2, RunAt DEF Course
<1>4. Now(t).arg = CellAt(t, at[t]) /\ at[t] \in Nat
  <2>1. Compiled /\ at[t] \in Nat
    BY DEF Course, Types
  <2>. QED  BY <1>3, <2>1, LoopSteps DEF Now
<1>. QED  BY <1>3, <1>4, LoopRecorded DEF Course, Arg

LEMMA LoadCourse == ASSUME Course, NEW t \in Thread, Load(t)  PROVE Course'
<1>1. AtStep(t, RunKinds \ {"R", "W"})
  BY DEF Load, AtStep, RunKinds
<1>2. mem[Arg(t)] \in Nat
  BY <1>1, CellOfStep DEF Course, Types
<1>. QED  BY <1>1, <1>2, SilentCourse DEF Load, Course, Types

LEMMA StoreCourse == ASSUME Course, NEW t \in Thread, Store(t)  PROVE Course'
<1>1. AtStep(t, RunKinds \ {"R", "W"})
  BY DEF Store, AtStep, RunKinds
<1>2. mem' \in [Cells -> Nat]
  <2>1. reg[t] + 1 \in Nat
    BY DEF Course, Types
  <2>. QED  BY <2>1 DEF Store, Course, Types
<1>. QED  BY <1>1, <1>2, SilentCourse DEF Store, Course, Types

LEMMA LockCourse == ASSUME Course, NEW t \in Thread, Lock(t)  PROVE Course'
<1>1. AtStep(t, RunKinds \ {"R", "W"})
  BY DEF Lock, AtStep, RunKinds
<1>. QED  BY <1>1, SilentCourse DEF Lock, Course, Types

LEMMA UnlockCourse == ASSUME Course, NEW t \in Thread, Unlock(t)  PROVE Course'
<1>1. AtStep(t, RunKinds \ {"R", "W"})
  BY DEF Unlock, AtStep, RunKinds
<1>. QED  BY <1>1, SilentCourse DEF Unlock, HolderAfter, Course, Types
\* Main starts and ends the recording while it is alone.
LEMMA DemarcateCourse ==
  ASSUME Course, Demarcate
  PROVE  Course' /\ \A t \in Thread \ {0} : at[t] = 0 \/ Finished(t)
<1>. USE DEF Course
<1>1. /\ AtStep(0, {"start", "end"}) /\ 0 \in Thread /\ GoOn(0)
      /\ UNCHANGED <<build, passed, trace, mem, reg, holder>>
      /\ instrument' = (tool = "TraceFuncsList" /\ Now(0).do = "start")
      /\ tool' = tool /\ program' = program /\ text' = text
  BY FrameNumbers DEF Demarcate, build
<1>2. \/ at[0] = 2 /\ Now(0).do = "start"
      \/ at[0] = LoopEnd(0) + NumThreads /\ Now(0).do = "end"
  <2>1. at[0] # 0 /\ ~Finished(0) /\ Now(0).do \in {"start", "end"}
    BY <1>1 DEF AtStep
  <2>2. \A d, x : Step(d, x).do = d
    BY DEF Step
  <2>3. ~InLoop(0, at[0])
    <3>1. at[0] \in Int /\ Compiled
      BY <1>1 DEF Types
    <3>2. InLoop(0, at[0]) => Now(0).do \notin {"start", "end"}
      BY <1>1, <3>1, LoopSteps DEF Now
    <3>. QED  BY <2>1, <3>2
  <2>. QED  BY <2>1, <2>2, <2>3, MainAt
<1>3. /\ at' \in [Thread -> Nat]
      /\ at'[0] = at[0] + 1 /\ \A u \in Thread \ {0} : at'[u] = at[u]
  BY <1>1 DEF GoOn, Types
<1>4. LoopEnd(0)' = LoopEnd(0) /\ (\A u \in Thread : LoopEnd(u)' = LoopEnd(u)) /\ Compiled'
  BY <1>1, SameBuild DEF Types
<1>5. Len(text[0]) = LoopEnd(0) + NumThreads + 1 /\ text[0] \in Seq(Steps)
  BY <1>1, Ends DEF Types
<1>6. Types'
  <2>1. at'[0] <= Len(text'[0]) + 1
    BY <1>1, <1>2, <1>3, <1>5, FrameNumbers
  <2>2. \A u \in Thread : at'[u] <= Len(text'[u]) + 1
    BY <1>1, <1>3, <2>1 DEF Types
  <2>3. instrument' \in BOOLEAN
    BY <1>1
  <2>. QED  BY <1>1, <1>3, <1>4, <2>2, <2>3 DEF Types
<1>7. Control'
  <2>1. PICK i \in Nat : i = at[0] /\ at'[0] = i + 1
    BY <1>1, <1>3 DEF Types
  <2>2. \A u \in Thread \ {0} :
          /\ i <= u + 2 <=> i + 1 <= u + 2
          /\ i > LoopEnd(0) + u <=> i + 1 > LoopEnd(0) + u
    BY <1>2, <2>1, FrameNumbers
  <2>3. instrument' <=> tool = "TraceFuncsList" /\ i + 1 \in 3 .. LoopEnd(0) + NumThreads
    <3>1. i + 1 \in 3 .. LoopEnd(0) + NumThreads <=> Now(0).do = "start"
      BY <1>2, <2>1, FrameNumbers
    <3>. QED  BY <1>1, <3>1, Zenon
  <2>4. \A t \in Thread \ {0} : at'[t] = 0 <=> at'[0] <= t + 2
    BY <1>3, <2>1, <2>2 DEF Control
  <2>5. \A t \in Thread \ {0} : at'[0] > LoopEnd(0) + t => at'[t] = LoopEnd(t) + 1
    BY <1>3, <2>1, <2>2 DEF Control
  <2>. QED  BY <1>1, <1>3, <1>4, <2>1, <2>3, <2>4, <2>5 DEF Control
<1>8. Requested'
  <2>1. 0 \notin passed
    BY <1>1, <1>2 DEF Requested, AtStep
  <2>2. \A u \in passed' : u \in passed /\ at'[u] = at[u]
    BY <1>1, <1>3, <2>1 DEF Types
  <2>3. passed' \in SUBSET Thread
    BY <1>1 DEF Types
  <2>. QED  BY <1>1, <2>2, <2>3, RequestedKeeps DEF Requested
<1>9. ASSUME NEW t \in Thread \ {0}  PROVE at[t] = 0 \/ Finished(t)
  <2>1. CASE at[0] = 2
    BY <2>1, FrameNumbers DEF Control
  <2>2. CASE at[0] = LoopEnd(0) + NumThreads
    <3>1. at[0] > LoopEnd(0) + t
      BY <2>2, FrameNumbers
    <3>. QED  BY <3>1, Ends DEF Control, Finished, Types
  <2>. QED  BY <1>2, <2>1, <2>2
<1>. QED  BY <1>6, <1>7, <1>8, <1>9

\* Main creates the others in their order, each once.
LEMMA CreateFacts ==
  ASSUME Course, Create
  PROVE  /\ at[0] \in 3 .. NumThreads + 1 /\ Now(0).do = "create"
         /\ \E c \in Thread \ {0} : /\ c = at[0] - 2 /\ Arg(0) = c /\ at[c] = 0
                                  /\ at' = [at EXCEPT ![0] = @ + 1, ![c] = 1]
<1>. USE DEF Course
<1>1. at[0] # 0 /\ ~Finished(0) /\ Now(0).do = "create"
  BY DEF Create, AtStep
<1>2. \A d, x : Step(d, x).do = d
  BY DEF Step
<1>3. ~InLoop(0, at[0])
  <2>1. at[0] \in Int /\ Compiled
    BY FrameNumbers DEF Types
  <2>2. InLoop(0, at[0]) => Now(0).do # "create"
    BY <2>1, FrameNumbers, LoopSteps DEF Now
  <2>. QED  BY <1>1, <2>2
<1>4. at[0] \in 3 .. NumThreads + 1 /\ Now(0) = Step("create", at[0] - 2)
  BY <1>1, <1>2, <1>3, MainAt
<1>5. PICK c \in Thread \ {0} : c = at[0] - 2 /\ Arg(0) = c
  <2>1. Arg(0) = at[0] - 2
    BY <1>4 DEF Arg, Step
  <2>2. at[0] - 2 \in Thread \ {0}
    BY <1>4, FrameNumbers DEF Thread
  <2>. QED  BY <2>1, <2>2
<1>6. at[c] = 0
  BY <1>4, <1>5, FrameNumbers DEF Control
<1>7. at' = [at EXCEPT ![0] = @ + 1, ![c] = 1]
  BY <1>5 DEF Create
<1>. QED  BY <1>1, <1>4, <1>5, <1>6, <1>7

LEMMA CreateCourse == ASSUME Course, Create  PROVE Course'
<1>. USE DEF Course
<1>1. /\ AtStep(0, {"create"}) /\ 0 \in Thread
      /\ UNCHANGED <<build, instrument, passed, trace, mem, reg, holder>>
      /\ tool' = tool /\ program' = program /\ text' = text /\ instrument' = instrument
  BY FrameNumbers DEF Create, build
<1>2. at[0] \in 3 .. NumThreads + 1
  BY CreateFacts
<1>3. PICK i \in 3 .. NumThreads + 1, c \in Thread \ {0} :
        i = at[0] /\ c = i - 2 /\ Arg(0) = c /\ at[c] = 0
  BY <1>2, CreateFacts
<1>4. /\ at' \in [Thread -> Nat] /\ at'[0] = i + 1 /\ at'[c] = 1
      /\ \A u \in Thread \ {0, c} : at'[u] = at[u]
  BY <1>1, <1>3 DEF Create, Types
<1>5. LoopEnd(0)' = LoopEnd(0) /\ (\A u \in Thread : LoopEnd(u)' = LoopEnd(u)) /\ Compiled'
  BY <1>1, SameBuild DEF Types
<1>6. Types'
  <2>1. at'[0] <= Len(text'[0]) + 1
    <3>1. Len(text[0]) = LoopEnd(0) + NumThreads + 1
      BY <1>1, Ends DEF Types
    <3>. QED  BY <1>1, <1>4, <3>1, FrameNumbers
  <2>2. at'[c] <= Len(text'[c]) + 1
    <3>1. Len(text[c]) \in Nat
      BY Ends, LoopTypes DEF Types
    <3>. QED  BY <1>1, <1>4, <3>1
  <2>3. \A u \in Thread : at'[u] <= Len(text'[u]) + 1
    BY <1>1, <1>4, <2>1, <2>2 DEF Types
  <2>. QED  BY <1>1, <1>4, <1>5, <2>3 DEF Types
<1>7. Control'
  <2>1. \A t \in Thread \ {0} : at'[t] = 0 <=> at'[0] <= t + 2
    <3>1. \A t \in Thread \ {0, c} : i <= t + 2 <=> i + 1 <= t + 2
      BY <1>3, FrameNumbers
    <3>2. ~(i + 1 <= c + 2)
      BY <1>3
    <3>. QED  BY <1>3, <1>4, <3>1, <3>2 DEF Control
  <2>2. \A t \in Thread \ {0} : ~(at'[0] > LoopEnd(0) + t)
    BY <1>3, <1>4, FrameNumbers
  <2>3. i \in 3 .. LoopEnd(0) + NumThreads /\ i + 1 \in 3 .. LoopEnd(0) + NumThreads
    BY <1>3, FrameNumbers
  <2>4. instrument' <=> tool' = "TraceFuncsList" /\ at'[0] \in 3 .. LoopEnd(0) + NumThreads
    BY <1>1, <1>3, <1>4, <2>3 DEF Control
  <2>5. at'[0] # 0
    BY <1>3, <1>4
  <2>. QED  BY <1>5, <2>1, <2>2, <2>4, <2>5 DEF Control
<1>8. Requested'
  <2>1. 0 \notin passed /\ c \notin passed
    BY <1>1, <1>3 DEF Requested, AtStep
  <2>2. \A u \in passed' : u \in passed /\ at'[u] = at[u]
    BY <1>1, <1>4, <2>1 DEF Types
  <2>3. passed' \in SUBSET Thread
    BY <1>1 DEF Types
  <2>. QED  BY <1>1, <2>2, <2>3, RequestedKeeps DEF Requested
<1>. QED  BY <1>6, <1>7, <1>8

LEMMA JoinCourse == ASSUME Course, Join  PROVE Course'
<1>. USE DEF Course
<1>1. /\ AtStep(0, {"join"}) /\ 0 \in Thread /\ GoOn(0) /\ Finished(Arg(0))
      /\ UNCHANGED <<build, instrument, passed, trace, mem, reg, holder>>
      /\ tool' = tool /\ program' = program /\ text' = text /\ instrument' = instrument
  BY FrameNumbers DEF Join, Joinable, build
<1>2. /\ at[0] \in LoopEnd(0) + 1 .. LoopEnd(0) + NumThreads - 1
      /\ Now(0) = Step("join", at[0] - LoopEnd(0))
  <2>1. at[0] # 0 /\ ~Finished(0) /\ Now(0).do = "join"
    BY <1>1 DEF AtStep
  <2>2. \A d, x : Step(d, x).do = d
    BY DEF Step
  <2>3. ~InLoop(0, at[0])
    <3>1. at[0] \in Int /\ Compiled
      BY <1>1 DEF Types
    <3>2. InLoop(0, at[0]) => Now(0).do # "join"
      BY <1>1, <3>1, LoopSteps DEF Now
    <3>. QED  BY <2>1, <3>2
  <2>. QED  BY <2>1, <2>2, <2>3, MainAt
<1>3. PICK i \in LoopEnd(0) + 1 .. LoopEnd(0) + NumThreads - 1, c \in Thread \ {0} :
        i = at[0] /\ i = LoopEnd(0) + c /\ Arg(0) = c
  <2>1. Arg(0) = at[0] - LoopEnd(0)
    BY <1>2 DEF Arg, Step
  <2>2. at[0] - LoopEnd(0) \in Thread \ {0} /\ at[0] = LoopEnd(0) + (at[0] - LoopEnd(0))
    BY <1>2, FrameNumbers DEF Thread
  <2>. QED  BY <1>2, <2>1, <2>2
<1>4. i \in Nat
  <2>1. at \in [Thread -> Nat] /\ 0 \in Thread
    BY FrameNumbers DEF Types
  <2>. QED  BY <1>3, <2>1
<1>5. /\ at' \in [Thread -> Nat] /\ at'[0] = i + 1
      /\ \A u \in Thread \ {0} : at'[u] = at[u]
  <2>1. at' = [at EXCEPT ![0] = @ + 1] /\ 0 \in Thread
    BY <1>1 DEF GoOn
  <2>2. at \in [Thread -> Nat] /\ at[0] = i
    BY <1>3 DEF Types
  <2>. QED  BY <1>4, <2>1, <2>2
<1>6. LoopEnd(0)' = LoopEnd(0) /\ (\A u \in Thread : LoopEnd(u)' = LoopEnd(u)) /\ Compiled'
  BY <1>1, SameBuild DEF Types
<1>7. at[c] = LoopEnd(c) + 1
  BY <1>1, <1>3, Ends DEF Finished, Types
<1>8. Types'
  <2>1. at'[0] <= Len(text'[0]) + 1
    <3>1. Len(text[0]) = LoopEnd(0) + NumThreads + 1
      BY <1>1, Ends DEF Types
    <3>. QED  BY <1>1, <1>3, <1>5, <3>1, FrameNumbers
  <2>2. \A u \in Thread : at'[u] <= Len(text'[u]) + 1
    BY <1>1, <1>5, <2>1 DEF Types
  <2>. QED  BY <1>1, <1>5, <1>6, <2>2 DEF Types
<1>9. Control'
  <2>1. \A t \in Thread \ {0} : at'[t] = 0 <=> at'[0] <= t + 2
    <3>1. \A t \in Thread \ {0} : i <= t + 2 <=> i + 1 <= t + 2
      BY <1>3, FrameNumbers
    <3>. QED  BY <1>3, <1>5, <3>1 DEF Control
  <2>2. \A t \in Thread \ {0} : at'[0] > LoopEnd(0) + t => at'[t] = LoopEnd(t) + 1
    <3>1. \A t \in Thread \ {0, c} : i + 1 > LoopEnd(0) + t => i > LoopEnd(0) + t
      BY <1>3, FrameNumbers
    <3>. QED  BY <1>3, <1>5, <1>7, <3>1 DEF Control
  <2>3. i \in 3 .. LoopEnd(0) + NumThreads /\ i + 1 \in 3 .. LoopEnd(0) + NumThreads
    BY <1>3, FrameNumbers
  <2>4. instrument' <=> tool' = "TraceFuncsList" /\ at'[0] \in 3 .. LoopEnd(0) + NumThreads
    BY <1>1, <1>3, <1>5, <2>3 DEF Control
  <2>5. at'[0] # 0
    BY <1>4, <1>5
  <2>. QED  BY <1>6, <2>1, <2>2, <2>4, <2>5 DEF Control
<1>10. Requested'
  <2>1. 0 \notin passed
    BY <1>1 DEF Requested, AtStep
  <2>2. \A u \in passed' : u \in passed /\ at'[u] = at[u]
    BY <1>1, <1>5, <2>1 DEF Types
  <2>3. passed' \in SUBSET Thread
    BY <1>1 DEF Types
  <2>. QED  BY <1>1, <2>2, <2>3, RequestedKeeps DEF Requested
<1>. QED  BY <1>8, <1>9, <1>10
LEMMA ExitedCourse == ASSUME Course, UNCHANGED vars  PROVE Course'
<1>1. tool' = tool /\ program' = program /\ text' = text /\ instrument' = instrument
      /\ UNCHANGED build
  BY DEF vars, build
<1>2. LoopEnd(0)' = LoopEnd(0) /\ (\A u \in Thread : LoopEnd(u)' = LoopEnd(u)) /\ Compiled'
  BY <1>1, SameBuild, FrameNumbers DEF Course, Types
<1>3. Types' /\ Control'
  BY <1>1, <1>2 DEF vars, Course, Types, Control
<1>4. Requested'
  <2>1. \A u \in passed : at'[u] = at[u]
    BY DEF vars
  <2>. QED  BY <1>1, <2>1, RequestedKeeps DEF vars, Course, Types, Requested
<1>. QED  BY <1>3, <1>4 DEF Course

LEMMA InitCourse == ASSUME Init  PROVE Course
<1>1. Compiled
  BY DEF Init, Compiled
<1>2. \A t \in Thread : Len(text[t]) \in Nat
  BY <1>1, Ends
<1>3. Types
  <2>1. \A t \in Thread : at[t] \in Nat /\ at[t] <= Len(text[t]) + 1
    BY <1>2 DEF Init
  <2>2. at \in [Thread -> Nat]
    BY DEF Init
  <2>3. trace \in Seq(Record)
    BY DEF Init
  <2>4. mem \in [Cells -> Nat] /\ reg \in [Thread -> Nat] /\ holder \in [Cells -> Thread \cup {Nobody}]
    BY DEF Init
  <2>5. instrument \in BOOLEAN /\ passed \subseteq Thread
    BY DEF Init
  <2>. QED  BY <1>1, <2>1, <2>2, <2>3, <2>4, <2>5 DEF Types
<1>4. Control
  <2>1. at[0] = 1 /\ \A t \in Thread \ {0} : at[t] = 0
    BY FrameNumbers DEF Init
  <2>2. \A t \in Thread \ {0} : 1 <= t + 2 /\ ~(1 > LoopEnd(0) + t)
    BY FrameNumbers
  <2>3. ~instrument
    BY DEF Init
  <2>. QED  BY <2>1, <2>2, <2>3, FrameNumbers DEF Control
<1>. QED  BY <1>3, <1>4 DEF Course, Requested, Init

LEMMA NextCourse == ASSUME Course, [Next]_vars  PROVE Course'
<1>1. CASE Main
  BY <1>1, DemarcateCourse, CreateCourse, JoinCourse DEF Main
<1>2. ASSUME NEW t \in Thread, Run(t)  PROVE Course'
  BY <1>2, TestFlagCourse, PrintRecordCourse, LoadCourse, StoreCourse, LockCourse, UnlockCourse
  DEF Run
<1>3. CASE UNCHANGED vars
  BY <1>3, ExitedCourse
<1>. QED  BY <1>1, <1>2, <1>3 DEF Next, Exited

LEMMA CourseHolds == Spec => []Course
<1>1. Init => Course
  BY InitCourse
<1>2. Course /\ [Next]_vars => Course'
  BY NextCourse
<1>. QED  BY <1>1, <1>2, PTL DEF Spec

\* The flag changes only while main is the one thread there is: nobody reads
\* it meanwhile, though the tool takes no lock for it.
THEOREM FlagNotRaced == Spec => FlagChangesAlone
<1>1. Course /\ [Next]_vars =>
        [instrument' # instrument => \A t \in Thread \ {0} : at[t] = 0 \/ Finished(t)]_vars
  <2>. SUFFICES ASSUME Course, [Next]_vars, instrument' # instrument
                PROVE  \A t \in Thread \ {0} : at[t] = 0 \/ Finished(t)
    OBVIOUS
  <2>1. Demarcate
    BY DEF Next, Main, Run, Exited, vars, Create, Join, TestFlag, PrintRecord, Load, Store,
           Lock, Unlock
  <2>. QED  BY <2>1, DemarcateCourse
<1>. QED  BY <1>1, CourseHolds, PTL DEF Spec, FlagChangesAlone
-----------------------------------------------------------------------------
(* The rest of the inductive invariant: what threads do in their loops.    *)

Inside(t) == InLoop(t, at[t])
Phase(t) == Place(t, at[t])
Cell(t) == CellAt(t, at[t])
Round(t) == Nth(t, at[t])

\* Who has locked the mutex of x and not unlocked it again.
Holds(t, x) == Inside(t) /\ Phase(t) # 0 /\ Cell(t) = x

Mutex == Locked => \A x \in Cells, t \in Thread : holder[x] = t <=> Holds(t, x)

\* Who has recorded the read of an increment of x and not yet the write.
Open(t, x) == Inside(t) /\ Phase(t) \in First + 1 .. WriteAt /\ Cell(t) = x

RecordsOf(x) == {j \in DOMAIN trace : trace[j].addr = x}

WholeIn(S, file) ==
  LET Between(i, j) == {k \in S : i < k /\ k < j}
  IN \A j \in S :
       /\ file[j].op = "W" =>
            \E i \in S : /\ i < j /\ Between(i, j) = {}
                        /\ file[i].op = "R" /\ file[i].tid = file[j].tid
       /\ file[j].op = "R" =>
            \A i \in S : i < j /\ file[i].op = "R" => Between(i, j) # {}

Whole(x) == WholeIn(RecordsOf(x), trace)

\* The last record of x is a read while somebody is between his read and his
\* write, and only then.
Sections ==
  Locked => \A x \in Cells :
    /\ Whole(x)
    /\ \A t \in Thread : Open(t, x) =>
         \E i \in RecordsOf(x) : /\ trace[i].op = "R" /\ trace[i].tid = t
                                /\ \A k \in RecordsOf(x) : k <= i
    /\ (\A t \in Thread : ~Open(t, x)) =>
         \A i \in RecordsOf(x) : trace[i].op = "R" => \E k \in RecordsOf(x) : i < k

\* The turns of all the loops that increment x, and those that have done so.
MostTurns == IF Adds THEN Iterations ELSE Len(Numbers)
Turns(x) ==
  {s \in Thread \X (1 .. MostTurns) :
     s[2] <= Len(Work(s[1])) /\ Work(s[1])[s[2]] = x}
StoreAt(t, j) == Before(t) + Turn * (j - 1) + First + 4
Done(x) == {s \in Turns(x) : StoreAt(s[1], s[2]) < at[s[1]]}

Loaded(t) == Inside(t) /\ Phase(t) \in LoadAt + 1 .. First + 3

\* A cell has been incremented at most as often as threads have stored to it,
\* and under the mutexes exactly as often.
Counted ==
  /\ \A x \in Cells : mem[x] <= Cardinality(Done(x))
  /\ \A t \in Thread : Loaded(t) => reg[t] <= Cardinality(Done(Cell(t)))
  /\ Locked => /\ \A x \in Cells : mem[x] = Cardinality(Done(x))
               /\ \A t \in Thread : Loaded(t) => reg[t] = mem[Cell(t)]
\* No step takes a thread further than one step.
LEMMA Pace ==
  ASSUME Course, [Next]_vars, NEW t \in Thread
  PROVE  /\ UNCHANGED build
         /\ at'[t] = at[t] \/ at'[t] = at[t] + 1
<1>. USE DEF Course
<1>1. at \in [Thread -> Nat]
  BY DEF Types
<1>2. CASE Create
  <2>1. UNCHANGED build
    BY <1>2 DEF Create
  <2>. QED  BY <1>1, <1>2, <2>1, CreateFacts
<1>3. CASE at' = at /\ UNCHANGED build
  BY <1>3
<1>4. ASSUME NEW u \in Thread, GoOn(u), UNCHANGED build
      PROVE  at'[t] = at[t] \/ at'[t] = at[t] + 1
  BY <1>1, <1>4 DEF GoOn
<1>5. CASE Demarcate \/ Join
  BY <1>4, <1>5, FrameNumbers DEF Demarcate, Join
<1>6. ASSUME NEW u \in Thread, Run(u)
      PROVE  UNCHANGED build /\ (at' = at \/ GoOn(u))
  BY <1>6 DEF Run, TestFlag, PrintRecord, Load, Store, Lock, Unlock
<1>7. CASE UNCHANGED vars
  BY <1>3, <1>7 DEF vars
<1>. QED  BY <1>2, <1>3, <1>4, <1>5, <1>6, <1>7 DEF Next, Main, Exited

\* Where a thread is, if it does not move and if it does.
LEMMA Stays ==
  ASSUME UNCHANGED build, NEW t \in Thread, at[t] \in Nat, at'[t] = at[t]
  PROVE  /\ Inside(t)' <=> Inside(t)
         /\ Phase(t)' = Phase(t) /\ Cell(t)' = Cell(t) /\ Round(t)' = Round(t)
<1>1. Turn' = Turn /\ Work(t)' = Work(t) /\ LoopEnd(t)' = LoopEnd(t)
  BY SameBuild
<1>. QED  BY <1>1 DEF Inside, Phase, Cell, Round, InLoop, Place, CellAt, Nth

LEMMA Moves ==
  ASSUME UNCHANGED build, NEW t \in Thread, at[t] \in Nat, at'[t] = at[t] + 1
  PROVE  /\ Inside(t) /\ Phase(t) # Turn - 1 =>
              Inside(t)' /\ Phase(t)' = Phase(t) + 1 /\ Cell(t)' = Cell(t) /\ Round(t)' = Round(t)
         /\ Inside(t) /\ Phase(t) = Turn - 1 /\ Inside(t)' => Phase(t)' = 0
         /\ ~Inside(t) /\ Inside(t)' => Phase(t)' = 0
<1>1. PICK i \in Nat, b \in Nat, e \in Nat, j \in Nat :
        i = at[t] /\ b = Before(t) /\ e = LoopEnd(t) /\ j = i + 1
  BY LoopTypes
<1>2. /\ Inside(t)' <=> InLoop(t, j)
      /\ Phase(t)' = Place(t, j) /\ Round(t)' = Nth(t, j) /\ Cell(t)' = CellAt(t, j)
  <2>1. Turn' = Turn /\ Work(t)' = Work(t) /\ LoopEnd(t)' = LoopEnd(t)
    BY SameBuild
  <2>2. at'[t] = j
    BY <1>1
  <2>. QED  BY <2>1, <2>2 DEF Inside, Phase, Cell, Round, InLoop, Place, CellAt, Nth
<1>3. /\ Inside(t) <=> InLoop(t, i)
      /\ Phase(t) = Place(t, i) /\ Round(t) = Nth(t, i) /\ Cell(t) = CellAt(t, i)
  BY <1>1 DEF Inside, Phase, Round, Cell
<1>4. ASSUME InLoop(t, i), Place(t, i) # Turn - 1
      PROVE  InLoop(t, j) /\ Place(t, j) = Place(t, i) + 1 /\ Nth(t, j) = Nth(t, i)
  BY <1>1, <1>4, LoopFacts
<1>5. ASSUME InLoop(t, i), Place(t, i) = Turn - 1, InLoop(t, j)
      PROVE  Place(t, j) = 0
  <2>1. i # LoopEnd(t)
    BY <1>1, <1>5 DEF InLoop
  <2>. QED  BY <1>1, <1>5, <2>1, LoopFacts
<1>6. ASSUME ~InLoop(t, i), InLoop(t, j)
      PROVE  Place(t, j) = 0
  <2>1. j = b + 1
    BY <1>1, <1>6 DEF InLoop
  <2>2. Place(t, j) = 0 % Turn
    BY <1>1, <2>1 DEF Place
  <2>3. 0 % 4 = 0 /\ 0 % 6 = 0
    OBVIOUS
  <2>. QED  BY <2>2, <2>3, TurnFacts
<1>. QED  BY <1>2, <1>3, <1>4, <1>5, <1>6 DEF CellAt

\* What a thread in its loop is about to do.
LEMMA PhaseFacts ==
  ASSUME Course, NEW t \in Thread, Inside(t)
  PROVE  /\ Phase(t) \in 0 .. Turn - 1 /\ Cell(t) \in Cells /\ Round(t) \in 1 .. Len(Work(t))
         /\ Arg(t) = Cell(t) /\ Records
         /\ Now(t).do \in {"lock", "R", "W", "load", "store", "unlock"}
         /\ Now(t).do = "lock" <=> Locked /\ Phase(t) = 0
         /\ Now(t).do = "R" <=> Phase(t) = First
         /\ Now(t).do = "W" <=> Phase(t) = WriteAt
         /\ Now(t).do = "load" <=> Phase(t) = LoadAt
         /\ Now(t).do = "store" <=> Phase(t) = First + 3
         /\ Now(t).do = "unlock" <=> Locked /\ Phase(t) = 5
<1>1. PICK i \in Int : i = at[t] /\ Compiled
  BY DEF Course, Types
<1>2. InLoop(t, i) /\ Phase(t) = Place(t, i) /\ Cell(t) = CellAt(t, i) /\ Round(t) = Nth(t, i)
      /\ Now(t) = text[t][i]
  BY <1>1 DEF Inside, Phase, Cell, Round, Now
<1>3. Arg(t) = text[t][i].arg /\ Records
  BY <1>1, <1>2, LoopRecorded DEF Arg, Course
<1>4. Place(t, i) \in 0 .. Turn - 1 /\ Nth(t, i) \in 1 .. Len(Work(t)) /\ CellAt(t, i) \in Cells
  BY <1>1, <1>2, LoopFacts
<1>. QED  BY <1>1, <1>2, <1>3, <1>4, LoopSteps
\* Who moves within his loop has done what is due in that phase.
LEMMA Movers ==
  ASSUME Course, [Next]_vars, NEW t \in Thread, Inside(t), at'[t] # at[t]
  PROVE  \/ PrintRecord(t) /\ Phase(t) \in {First, WriteAt}
         \/ Load(t) /\ Phase(t) = LoadAt
         \/ Store(t) /\ Phase(t) = First + 3
         \/ Lock(t) /\ Locked /\ Phase(t) = 0
         \/ Unlock(t) /\ Locked /\ Phase(t) = 5
<1>. USE DEF Course
<1>1. at \in [Thread -> Nat] /\ at[t] # 0
  <2>1. at \in [Thread -> Nat]
    BY DEF Types
  <2>2. at[t] # 0
    BY <2>1, LoopTypes DEF Inside, InLoop
  <2>. QED  BY <2>1, <2>2
<1>2. Now(t).do \in {"lock", "R", "W", "load", "store", "unlock"}
  BY PhaseFacts
<1>3. ~(Demarcate \/ Join)
  <2>1. CASE t = 0
    BY <1>2, <2>1 DEF Demarcate, Join, AtStep
  <2>2. CASE t # 0
    BY <1>1, <2>2 DEF Demarcate, Join, GoOn
  <2>. QED  BY <2>1, <2>2
<1>4. ~Create
  <2>. SUFFICES ASSUME Create  PROVE FALSE
    OBVIOUS
  <2>1. t # 0
    BY <1>2, CreateFacts
  <2>. QED  BY <1>1, <2>1, CreateFacts
<1>5. ~UNCHANGED vars
  BY DEF vars
<1>6. Run(t)
  <2>1. PICK u \in Thread : Run(u)
    BY <1>3, <1>4, <1>5 DEF Next, Main, Exited
  <2>2. at' = at \/ GoOn(u)
    BY <2>1 DEF Run, TestFlag, PrintRecord, Load, Store, Lock, Unlock
  <2>3. u = t
    BY <1>1, <2>2 DEF GoOn
  <2>. QED  BY <2>1, <2>3
<1>7. ~TestFlag(t)
  BY PhaseFacts DEF TestFlag
<1>8. PrintRecord(t) => Now(t).do \in {"R", "W"}
  BY DEF PrintRecord, Requested, AtStep
<1>9. /\ Load(t) => Now(t).do = "load"
      /\ Store(t) => Now(t).do = "store"
      /\ Lock(t) => Now(t).do = "lock"
      /\ Unlock(t) => Now(t).do = "unlock"
  BY DEF Load, Store, Lock, Unlock, AtStep
<1>. QED  BY <1>6, <1>7, <1>8, <1>9, PhaseFacts DEF Run

LEMMA HoldsKeeps ==
  ASSUME Course, [Next]_vars, Locked, NEW t \in Thread,
         at'[t] = at[t] \/ ~Inside(t) \/ Phase(t) \notin {0, 5}
  PROVE  \A x : Holds(t, x)' <=> Holds(t, x)
<1>1. UNCHANGED build /\ at[t] \in Nat /\ (at'[t] = at[t] \/ at'[t] = at[t] + 1)
  BY Pace DEF Course, Types
<1>2. Turn = 6
  BY DEF Turn
<1>3. CASE at'[t] = at[t]
  BY <1>1, <1>3, Stays DEF Holds
<1>4. CASE at'[t] = at[t] + 1 /\ ~Inside(t)
  BY <1>1, <1>4, Moves DEF Holds
<1>5. CASE at'[t] = at[t] + 1 /\ Inside(t)
  <2>1. Phase(t) # 0 /\ Phase(t) # 5 /\ Phase(t) \in 0 .. 5
    BY <1>1, <1>2, <1>5, PhaseFacts
  <2>2. Inside(t)' /\ Phase(t)' # 0 /\ Cell(t)' = Cell(t)
    BY <1>1, <1>2, <1>5, <2>1, Moves
  <2>. QED  BY <1>5, <2>1, <2>2 DEF Holds
<1>. QED  BY <1>1, <1>3, <1>4, <1>5

LEMMA MutexNext == ASSUME Course, Mutex, [Next]_vars  PROVE Mutex'
<1>. SUFFICES ASSUME Locked, NEW x \in Cells, NEW t \in Thread
              PROVE  (holder[x] = t)' <=> Holds(t, x)'
  <2>1. 0 \in Thread => (Locked' <=> Locked)
    BY Pace, SameBuild
  <2>. QED  BY <2>1, FrameNumbers DEF Mutex
<1>1. /\ UNCHANGED build /\ at \in [Thread -> Nat] /\ holder \in [Cells -> Thread \cup {Nobody}]
      /\ Turn = 6 /\ Nobody \notin Thread
  BY Pace, TracerAssumption DEF Course, Types, Turn, Thread
<1>2. \A y \in Cells, u \in Thread : holder[y] = u <=> Holds(u, y)
  BY DEF Mutex
<1>3. ASSUME NEW u \in Thread, Lock(u)
      PROVE  holder'[x] = t <=> Holds(t, x)'
  <2>1. Inside(u) /\ Phase(u) = 0 /\ Arg(u) = Cell(u) /\ Cell(u) \in Cells
    <3>1. AtStep(u, RunKinds \ {"R", "W"}) /\ Now(u).do = "lock"
      BY <1>3 DEF Lock, AtStep, RunKinds
    <3>2. Inside(u)
      BY <3>1, CellOfStep DEF Inside
    <3>. QED  BY <3>1, <3>2, PhaseFacts
  <2>2. /\ at'[u] = at[u] + 1 /\ \A v \in Thread \ {u} : at'[v] = at[v]
        /\ holder[Cell(u)] = Nobody /\ holder'[Cell(u)] = u
        /\ \A y \in Cells \ {Cell(u)} : holder'[y] = holder[y]
    BY <1>1, <1>3, <2>1 DEF Lock, GoOn
  <2>3. Inside(u)' /\ Phase(u)' = 1 /\ Cell(u)' = Cell(u)
    BY <1>1, <2>1, <2>2, Moves
  <2>4. CASE t = u
    <3>1. x # Cell(u) => holder'[x] # u
      BY <1>2, <2>1, <2>2 DEF Holds
    <3>. QED  BY <2>2, <2>3, <2>4, <3>1 DEF Holds
  <2>5. CASE t # u
    <3>1. Holds(t, x)' <=> Holds(t, x)
      BY <2>2, <2>5, HoldsKeeps
    <3>2. x = Cell(u) => ~Holds(t, x)
      BY <1>1, <1>2, <2>2
    <3>. QED  BY <1>2, <2>2, <2>5, <3>1, <3>2
  <2>. QED  BY <2>4, <2>5
<1>4. ASSUME NEW u \in Thread, Unlock(u)
      PROVE  holder'[x] = t <=> Holds(t, x)'
  <2>1. Inside(u) /\ Phase(u) = 5 /\ Arg(u) = Cell(u) /\ Cell(u) \in Cells
    <3>1. AtStep(u, RunKinds \ {"R", "W"}) /\ Now(u).do = "unlock"
      BY <1>4 DEF Unlock, AtStep, RunKinds
    <3>2. Inside(u)
      BY <3>1, CellOfStep DEF Inside
    <3>. QED  BY <3>1, <3>2, PhaseFacts
  <2>2. /\ at'[u] = at[u] + 1 /\ \A v \in Thread \ {u} : at'[v] = at[v]
        /\ holder'[Cell(u)] = Nobody
        /\ \A y \in Cells \ {Cell(u)} : holder'[y] = holder[y]
    BY <1>1, <1>4, <2>1 DEF Unlock, HolderAfter, GoOn
  <2>3. holder[Cell(u)] = u
    BY <1>2, <2>1 DEF Holds
  <2>4. CASE t = u
    <3>1. Inside(u)' => Phase(u)' = 0
      BY <1>1, <2>1, <2>2, Moves
    <3>2. x # Cell(u) => holder'[x] # u
      BY <1>2, <2>1, <2>2 DEF Holds
    <3>. QED  BY <1>1, <2>2, <2>4, <3>1, <3>2 DEF Holds
  <2>5. CASE t # u
    <3>1. Holds(t, x)' <=> Holds(t, x)
      BY <2>2, <2>5, HoldsKeeps
    <3>2. x = Cell(u) => ~Holds(t, x) /\ holder'[x] # t
      BY <1>1, <1>2, <2>2, <2>3, <2>5
    <3>. QED  BY <1>2, <2>2, <3>1, <3>2
  <2>. QED  BY <2>4, <2>5
<1>5. CASE \A u \in Thread : ~Lock(u) /\ ~Unlock(u)
  <2>1. holder' = holder
    BY <1>5 DEF Next, Main, Run, Exited, vars, Demarcate, Create, Join, TestFlag, PrintRecord,
                Load, Store
  <2>2. at'[t] = at[t] \/ ~Inside(t) \/ Phase(t) \notin {0, 5}
    <3>1. First \notin {0, 5} /\ WriteAt \notin {0, 5} /\ LoadAt \notin {0, 5} /\ First + 3 \notin {0, 5}
      BY TurnFacts, PlaceFacts
    <3>. QED  BY <1>5, <3>1, Movers
  <2>. QED  BY <1>2, <2>1, <2>2, HoldsKeeps
<1>. QED  BY <1>3, <1>4, <1>5
-----------------------------------------------------------------------------
(* The file is faithful.                                                   *)

\* A set of numbers to which a greater one is added.
LEMMA RankFacts ==
  ASSUME NEW S \in SUBSET Int, IsFiniteSet(S), NEW m \in Int, \A k \in S : k < m
  PROVE  /\ IsFiniteSet(S \cup {m}) /\ Cardinality(S) \in Nat
         /\ Cardinality(S \cup {m}) = Cardinality(S) + 1
         /\ Rank(m, S \cup {m}) = Cardinality(S) + 1
         /\ \A i \in S : Rank(i, S \cup {m}) = Rank(i, S) /\ Rank(i, S) <= Cardinality(S)
<1>1. m \notin S
  OBVIOUS
<1>2. /\ IsFiniteSet(S \cup {m}) /\ Cardinality(S) \in Nat
      /\ Cardinality(S \cup {m}) = Cardinality(S) + 1
  BY <1>1, FS_AddElement, FS_CardinalityType
<1>3. {k \in S \cup {m} : k <= m} = S \cup {m}
  <2>1. m <= m /\ \A k \in S : k <= m
    OBVIOUS
  <2>. QED  BY <2>1
<1>4. ASSUME NEW i \in S
      PROVE  Rank(i, S \cup {m}) = Rank(i, S) /\ Rank(i, S) <= Cardinality(S)
  <2>1. {k \in S \cup {m} : k <= i} = {k \in S : k <= i}
    OBVIOUS
  <2>2. Cardinality({k \in S : k <= i}) <= Cardinality(S)
    <3>1. {k \in S : k <= i} \subseteq S
      OBVIOUS
    <3>. QED  BY <3>1, FS_Subset
  <2>. QED  BY <2>1, <2>2 DEF Rank
<1>. QED  BY <1>2, <1>3, <1>4 DEF Rank

\* A thread that goes on without printing a record had nothing to record.
LEMMA Skips ==
  ASSUME Course, [Next]_vars, NEW t \in Thread,
         at[t] # 0, at'[t] = at[t] + 1, ~PrintRecord(t)
  PROVE  ~Demarcated(Now(t))
<1>. USE DEF Course
<1>1. at \in [Thread -> Nat] /\ at[t] \in Nat /\ at'[t] # at[t]
  BY DEF Types
<1>2. CASE Demarcate \/ Join
  <2>1. GoOn(0) /\ Now(0).do \in {"start", "end", "join"}
    BY <1>2 DEF Demarcate, Join, AtStep
  <2>2. t = 0
    BY <1>1, <2>1, FrameNumbers DEF GoOn
  <2>. QED  BY <2>1, <2>2 DEF Demarcated
<1>3. CASE Create
  <2>1. t = 0
    BY <1>1, <1>3, CreateFacts
  <2>. QED  BY <1>3, <2>1, CreateFacts DEF Demarcated
<1>4. ASSUME NEW u \in Thread, Run(u)
      PROVE  ~Demarcated(Now(t))
  <2>1. u = t
    <3>1. at' = at \/ GoOn(u)
      BY <1>4 DEF Run, TestFlag, PrintRecord, Load, Store, Lock, Unlock
    <3>. QED  BY <1>1, <3>1 DEF GoOn
  <2>2. CASE TestFlag(t)
    <3>1. ~Records /\ AtStep(t, RunKinds)
      BY <1>1, <2>2 DEF TestFlag, AtStep, RunKinds
    <3>2. ~Inside(t)
      BY <3>1, PhaseFacts
    <3>3. Now(t) = Step("W", Outside)
      BY <3>1, <3>2, RunAt DEF Inside
    <3>. QED  BY <3>1, <3>3 DEF Records, Demarcated, Step
  <2>3. CASE Load(t) \/ Store(t) \/ Lock(t) \/ Unlock(t)
    BY <2>3 DEF Load, Store, Lock, Unlock, AtStep, Demarcated
  <2>. QED  BY <1>4, <2>1, <2>2, <2>3 DEF Run
<1>5. ~UNCHANGED vars
  BY <1>1 DEF vars
<1>. QED  BY <1>2, <1>3, <1>4, <1>5 DEF Next, Main, Exited

Accesses(t) == {i \in 1 .. at[t] - 1 : Demarcated(text[t][i])}
RecordsBy(t) == {j \in DOMAIN trace : trace[j].tid = t}
Faithful(t) ==
  /\ Cardinality(RecordsBy(t)) = Cardinality(Accesses(t))
  /\ \A i \in Accesses(t), j \in RecordsBy(t) : Rank(i, Accesses(t)) = Rank(j, RecordsBy(t)) =>
       trace[j].op = text[t][i].do /\ trace[j].addr = text[t][i].arg

LEMMA FaithfulNext ==
  ASSUME Course, [Next]_vars, NEW t \in Thread, Faithful(t)
  PROVE  Faithful(t)'
<1>1. /\ UNCHANGED build /\ tool' = tool /\ text' = text
      /\ at[t] \in Nat /\ (at'[t] = at[t] \/ at'[t] = at[t] + 1)
  BY Pace DEF Course, Types, build
<1>2. PICK n \in Nat : n = Len(trace) /\ DOMAIN trace = 1 .. n
  BY DEF Course, Types
<1>3. PICK A \in SUBSET Int, R \in SUBSET Int : A = Accesses(t) /\ R = RecordsBy(t)
  <2>1. Accesses(t) \in SUBSET Int
    BY <1>1 DEF Accesses
  <2>2. RecordsBy(t) \in SUBSET Int
    BY <1>2 DEF RecordsBy
  <2>. QED  BY <2>1, <2>2
<1>4. IsFiniteSet(A) /\ IsFiniteSet(R)
  <2>1. IsFiniteSet(1 .. at[t] - 1) /\ IsFiniteSet(1 .. n)
    BY <1>1, FS_Interval
  <2>2. A \subseteq 1 .. at[t] - 1 /\ R \subseteq 1 .. n
    BY <1>2, <1>3 DEF Accesses, RecordsBy
  <2>. QED  BY <2>1, <2>2, FS_Subset
<1>5. \A i : Demarcated(text[t][i])' <=> Demarcated(text[t][i])
  BY <1>1 DEF Demarcated
<1>6. CASE PrintRecord(t)
  <2>1. PICK r \in Record : r = [tid |-> t, op |-> Now(t).do, addr |-> Arg(t)]
    <3>1. AtStep(t, {"R", "W"})
      BY <1>6 DEF PrintRecord, Course, Requested
    <3>. QED  BY <3>1, RecordType
  <2>2. /\ trace' = Append(trace, r) /\ trace \in Seq(Record) /\ at'[t] = at[t] + 1
        /\ Demarcated(Now(t)) /\ AtStep(t, {"R", "W"})
    BY <1>6, <2>1 DEF PrintRecord, GoOn, Course, Types, Requested
  <2>3. /\ DOMAIN trace' = 1 .. n + 1 /\ trace'[n + 1] = r
        /\ \A j \in 1 .. n : trace'[j] = trace[j]
    BY <1>2, <2>2
  <2>4. PICK m \in Nat \ {0} : m = at[t]
    BY <1>1, <2>2 DEF AtStep
  <2>5. RecordsBy(t)' = R \cup {n + 1}
    BY <1>2, <1>3, <2>1, <2>3 DEF RecordsBy
  <2>6. Accesses(t)' = A \cup {m}
    <3>1. Accesses(t)' = {i \in 1 .. m : Demarcated(text[t][i])}
      BY <1>5, <2>2, <2>4 DEF Accesses
    <3>2. Demarcated(text[t][m])
      BY <2>2, <2>4 DEF Now
    <3>. QED  BY <1>3, <2>4, <3>1, <3>2 DEF Accesses
  <2>7. (\A k \in R : k < n + 1) /\ (\A k \in A : k < m)
    BY <1>2, <1>3, <2>4 DEF RecordsBy, Accesses
  <2>8. PICK a \in Nat : a = Cardinality(A) /\ a = Cardinality(R)
    BY <1>3, <1>4, FS_CardinalityType DEF Faithful
  <2>9. n + 1 \in Int /\ m \in Int
    OBVIOUS
  <2>10. /\ Cardinality(A \cup {m}) = a + 1 /\ Rank(m, A \cup {m}) = a + 1
        /\ \A i \in A : Rank(i, A \cup {m}) = Rank(i, A) /\ Rank(i, A) <= a
    BY <1>4, <2>7, <2>8, <2>9, RankFacts, Zenon
  <2>11. /\ Cardinality(R \cup {n + 1}) = a + 1 /\ Rank(n + 1, R \cup {n + 1}) = a + 1
         /\ \A j \in R : Rank(j, R \cup {n + 1}) = Rank(j, R) /\ Rank(j, R) <= a
    BY <1>4, <2>7, <2>8, <2>9, RankFacts, Zenon
  <2>12. ASSUME NEW i \in A \cup {m}, NEW j \in R \cup {n + 1},
                Rank(i, A \cup {m}) = Rank(j, R \cup {n + 1})
         PROVE  trace'[j].op = text[t][i].do /\ trace'[j].addr = text[t][i].arg
    <3>1. CASE i \in A /\ j \in R
      <4>1. Rank(i, A) = Rank(j, R)
        BY <2>10, <2>11, <2>12, <3>1, Zenon
      <4>2. j \in 1 .. n
        BY <1>2, <1>3, <3>1 DEF RecordsBy
      <4>. QED  BY <1>3, <2>3, <3>1, <4>1, <4>2 DEF Faithful
    <3>2. CASE i = m /\ j = n + 1
      BY <2>1, <2>3, <2>4, <3>2 DEF Now, Arg
    <3>3. ~(a + 1 <= a)
      OBVIOUS
    <3>4. CASE i \in A /\ j = n + 1
      BY <2>10, <2>11, <2>12, <3>3, <3>4, Zenon
    <3>5. CASE i = m /\ j \in R
      BY <2>10, <2>11, <2>12, <3>3, <3>5, Zenon
    <3>. QED  BY <3>1, <3>2, <3>4, <3>5
  <2>. QED  BY <1>1, <2>5, <2>6, <2>10, <2>11, <2>12 DEF Faithful
<1>7. CASE ~PrintRecord(t)
  <2>1. trace' = trace \/ \E r \in Record : trace' = Append(trace, r) /\ r.tid # t
    <3>1. ASSUME NEW u \in Thread, PrintRecord(u)
          PROVE  \E r \in Record : trace' = Append(trace, r) /\ r.tid # t
      <4>1. AtStep(u, {"R", "W"}) /\ u # t
        BY <1>7, <3>1 DEF PrintRecord, Course, Requested
      <4>2. [tid |-> u, op |-> Now(u).do, addr |-> Arg(u)] \in Record
        BY <4>1, RecordType
      <4>. QED  BY <3>1, <4>1, <4>2 DEF PrintRecord
    <3>2. CASE \A u \in Thread : ~PrintRecord(u)
      BY <3>2 DEF Next, Main, Run, Exited, vars, Demarcate, Create, Join, TestFlag, Load, Store,
                  Lock, Unlock
    <3>. QED  BY <3>1, <3>2
  <2>2. RecordsBy(t)' = R /\ \A j \in R : trace'[j] = trace[j]
    <3>1. CASE trace' = trace
      BY <1>3, <3>1 DEF RecordsBy
    <3>2. ASSUME NEW r \in Record, trace' = Append(trace, r), r.tid # t
          PROVE  RecordsBy(t)' = R /\ \A j \in R : trace'[j] = trace[j]
      <4>1. trace \in Seq(Record)
        BY DEF Course, Types
      <4>2. /\ DOMAIN trace' = 1 .. n + 1 /\ trace'[n + 1] = r
            /\ \A j \in 1 .. n : trace'[j] = trace[j]
        BY <1>2, <3>2, <4>1
      <4>. QED  BY <1>2, <1>3, <3>2, <4>2 DEF RecordsBy
    <3>. QED  BY <2>1, <3>1, <3>2
  <2>3. Accesses(t)' = A
    <3>1. CASE at'[t] = at[t]
      BY <1>3, <1>5, <3>1 DEF Accesses
    <3>2. CASE at[t] = 0 /\ at'[t] = 1
      <4>1. 1 .. 0 - 1 = {} /\ 1 .. 1 - 1 = {}
        OBVIOUS
      <4>. QED  BY <1>3, <3>2, <4>1 DEF Accesses
    <3>3. CASE at[t] # 0 /\ at'[t] = at[t] + 1
      <4>1. ~Demarcated(text[t][at[t]])
        BY <1>7, <3>3, Skips DEF Now
      <4>2. PICK m \in Nat \ {0} : m = at[t] /\ at'[t] = m + 1
        BY <1>1, <3>3
      <4>3. Accesses(t)' = {i \in 1 .. m : Demarcated(text[t][i])}
        BY <1>5, <4>2 DEF Accesses
      <4>. QED  BY <1>3, <4>1, <4>2, <4>3 DEF Accesses
    <3>. QED  BY <1>1, <3>1, <3>2, <3>3
  <2>. QED  BY <1>1, <1>3, <2>2, <2>3 DEF Faithful
<1>. QED  BY <1>6, <1>7

\* The file has what the threads access within the demarcated part, and no
\* more, each thread's accesses in their order.
THEOREM FileIsFaithful == Spec => []TraceIsFaithful
<1>1. TraceIsFaithful <=> \A t \in Thread : Faithful(t)
  BY Zenon DEF TraceIsFaithful, Faithful, Accesses, RecordsBy
<1>2. Init => \A t \in Thread : Faithful(t)
  <2>. SUFFICES ASSUME Init, NEW t \in Thread  PROVE Faithful(t)
    OBVIOUS
  <2>1. 1 .. 0 - 1 = {} /\ 1 .. 1 - 1 = {}
    OBVIOUS
  <2>2. Accesses(t) = {}
    BY <2>1 DEF Init, Accesses
  <2>3. RecordsBy(t) = {}
    BY DEF Init, RecordsBy
  <2>. QED  BY <2>2, <2>3 DEF Faithful
<1>3. Course /\ (\A t \in Thread : Faithful(t)) /\ [Next]_vars
        => (\A t \in Thread : Faithful(t))'
  BY FaithfulNext
<1>. QED  BY <1>1, <1>2, <1>3, CourseHolds, PTL DEF Spec
-----------------------------------------------------------------------------
(* Critical sections are whole.                                            *)

\* A thread goes from before the read to after the write by its records only.
LEMMA OpenKeeps ==
  ASSUME Course, [Next]_vars, NEW t \in Thread, ~PrintRecord(t) \/ ~Inside(t), NEW x
  PROVE  Open(t, x)' <=> Open(t, x)
<1>1. UNCHANGED build /\ at[t] \in Nat /\ (at'[t] = at[t] \/ at'[t] = at[t] + 1)
  BY Pace DEF Course, Types
<1>2. First' = First /\ WriteAt' = WriteAt
  BY <1>1, SameBuild
<1>3. CASE at'[t] = at[t]
  BY <1>1, <1>2, <1>3, Stays DEF Open
<1>4. CASE at'[t] = at[t] + 1 /\ ~Inside(t)
  <2>1. Inside(t)' => Phase(t)' = 0
    BY <1>1, <1>4, Moves
  <2>2. 0 \notin First + 1 .. WriteAt
    BY TurnFacts, PlaceFacts
  <2>. QED  BY <1>2, <1>4, <2>1, <2>2 DEF Open
<1>5. CASE at'[t] = at[t] + 1 /\ Inside(t)
  <2>1. \/ Phase(t) = LoadAt \/ Phase(t) = First + 3
        \/ (Locked /\ Phase(t) = 0)
        \/ (Locked /\ Phase(t) = 5)
    <3>1. at'[t] # at[t]
      BY <1>1, <1>5
    <3>. QED  BY <1>5, <3>1, Movers
  <2>2. Phase(t) \in 0 .. Turn - 1
    BY <1>5, PhaseFacts
  <2>3. Phase(t) # Turn - 1 =>
          Inside(t)' /\ Phase(t)' = Phase(t) + 1 /\ Cell(t)' = Cell(t)
    BY <1>1, <1>5, Moves
  <2>4. Phase(t) = Turn - 1 /\ Inside(t)' => Phase(t)' = 0
    BY <1>1, <1>5, Moves
  <2>5. 0 \notin First + 1 .. WriteAt
    BY TurnFacts, PlaceFacts
  <2>6. CASE Phase(t) = Turn - 1
    <3>1. Phase(t) \notin First + 1 .. WriteAt
      BY <2>6, TurnFacts, PlaceFacts
    <3>. QED  BY <1>2, <2>4, <2>5, <2>6, <3>1 DEF Open
  <2>7. CASE Phase(t) # Turn - 1
    <3>1. Phase(t) + 1 \in First + 1 .. WriteAt <=> Phase(t) \in First + 1 .. WriteAt
      BY <2>1, <2>2, TurnFacts, PlaceFacts
    <3>. QED  BY <1>2, <1>5, <2>3, <2>7, <3>1 DEF Open
  <2>. QED  BY <2>6, <2>7
<1>. QED  BY <1>1, <1>3, <1>4, <1>5

LEMMA OpenMoves ==
  ASSUME Course, [Next]_vars, NEW t \in Thread, PrintRecord(t), Inside(t)
  PROVE  /\ Phase(t) \in {First, WriteAt} /\ Cell(t) \in Cells /\ Inside(t)' /\ Cell(t)' = Cell(t)
         /\ Now(t).do = (IF Phase(t) = First THEN "R" ELSE "W") /\ Arg(t) = Cell(t)
         /\ \A x : ~Open(t, x) <=> Phase(t) = First \/ Cell(t) # x
         /\ \A x : Open(t, x)' <=> Phase(t) = First /\ Cell(t) = x
         /\ \A u \in Thread \ {t} : ~PrintRecord(u)
<1>1. UNCHANGED build /\ at \in [Thread -> Nat] /\ at[t] \in Nat /\ at'[t] = at[t] + 1
      /\ \A u \in Thread \ {t} : at'[u] = at[u]
  BY Pace DEF Course, Types, PrintRecord, GoOn
<1>2. First' = First /\ WriteAt' = WriteAt
  BY <1>1, SameBuild
<1>3. Now(t).do \in {"R", "W"}
  BY DEF PrintRecord, Course, Requested, AtStep
<1>4. Phase(t) \in {First, WriteAt} /\ Cell(t) \in Cells /\ Arg(t) = Cell(t)
      /\ Now(t).do = (IF Phase(t) = First THEN "R" ELSE "W")
  BY <1>3, PhaseFacts
<1>5. /\ First # Turn - 1 /\ WriteAt # Turn - 1 /\ First # WriteAt
      /\ First \notin First + 1 .. WriteAt /\ WriteAt \in First + 1 .. WriteAt
      /\ First + 1 \in First + 1 .. WriteAt /\ WriteAt + 1 \notin First + 1 .. WriteAt
  BY TurnFacts, PlaceFacts
<1>6. Inside(t)' /\ Phase(t)' = Phase(t) + 1 /\ Cell(t)' = Cell(t)
  BY <1>1, <1>4, <1>5, Moves
<1>7. \A x : ~Open(t, x) <=> Phase(t) = First \/ Cell(t) # x
  BY <1>4, <1>5 DEF Open
<1>8. \A x : Open(t, x)' <=> Phase(t) = First /\ Cell(t) = x
  BY <1>2, <1>4, <1>5, <1>6 DEF Open
<1>9. \A u \in Thread \ {t} : ~PrintRecord(u)
  <2>. SUFFICES ASSUME NEW u \in Thread \ {t}, PrintRecord(u)  PROVE FALSE
    OBVIOUS
  <2>1. at'[u] = at[u] + 1 /\ at[u] \in Nat
    BY <1>1 DEF PrintRecord, GoOn
  <2>. QED  BY <1>1, <2>1
<1>. QED  BY <1>4, <1>6, <1>7, <1>8, <1>9

\* One at a time is between his read and his write, of one cell.
LEMMA OpenAlone ==
  ASSUME Course, Mutex, Locked, NEW t \in Thread, NEW u \in Thread, t # u,
         Inside(t), Phase(t) # 0, Cell(t) \in Cells
  PROVE  ~Open(u, Cell(t))
<1>1. 0 \notin First + 1 .. WriteAt
  BY TurnFacts, PlaceFacts
<1>2. Open(u, Cell(t)) => Holds(u, Cell(t))
  BY <1>1 DEF Open, Holds
<1>3. Holds(t, Cell(t))
  BY DEF Holds
<1>. QED  BY <1>2, <1>3 DEF Mutex

LEMMA SectionsNext ==
  ASSUME Course, Mutex, Sections, [Next]_vars
  PROVE  Sections'
<1>. DEFINE P(x) ==
       /\ Whole(x)
       /\ \A t \in Thread : Open(t, x) =>
            \E i \in RecordsOf(x) : /\ trace[i].op = "R" /\ trace[i].tid = t
                                   /\ \A k \in RecordsOf(x) : k <= i
       /\ (\A t \in Thread : ~Open(t, x)) =>
            \A i \in RecordsOf(x) : trace[i].op = "R" => \E k \in RecordsOf(x) : i < k
<1>. SUFFICES ASSUME Locked, NEW x \in Cells  PROVE P(x)'
  <2>1. Locked' <=> Locked
    BY FrameNumbers, Pace, SameBuild
  <2>. QED  BY <2>1 DEF Sections
<1>1. P(x)
  BY DEF Sections
<1>2. PICK n \in Nat : n = Len(trace) /\ DOMAIN trace = 1 .. n
  BY DEF Course, Types
<1>3. PICK R \in SUBSET (1 .. n) : R = RecordsOf(x)
  BY <1>2 DEF RecordsOf
<1>4. WholeIn(R, trace) /\ \A k \in R : k \in Nat /\ k <= n
  <2>1. WholeIn(R, trace)
    BY <1>1, <1>3 DEF Whole
  <2>2. \A k \in 1 .. n : k \in Nat /\ k <= n
    OBVIOUS
  <2>. QED  BY <2>1, <2>2
<1>5. ASSUME NEW u \in Thread, PrintRecord(u), Inside(u), Cell(u) = x
      PROVE  P(x)'
  <2>1. /\ Phase(u) \in {First, WriteAt}
        /\ Now(u).do = (IF Phase(u) = First THEN "R" ELSE "W") /\ Arg(u) = x
        /\ ~Open(u, x) <=> Phase(u) = First
        /\ Open(u, x)' <=> Phase(u) = First
        /\ \A t \in Thread \ {u} : ~PrintRecord(t)
    BY <1>5, OpenMoves
  <2>2. PICK r \in Record : /\ r = [tid |-> u, op |-> Now(u).do, addr |-> x]
                            /\ trace' = Append(trace, r)
    <3>1. AtStep(u, {"R", "W"})
      BY <1>5 DEF PrintRecord, Course, Requested
    <3>. QED  BY <1>5, <2>1, <3>1, RecordType DEF PrintRecord
  <2>3. /\ DOMAIN trace' = 1 .. n + 1 /\ trace'[n + 1] = r
        /\ \A j \in 1 .. n : trace'[j] = trace[j]
    <3>1. trace \in Seq(Record)
      BY DEF Course, Types
    <3>. QED  BY <1>2, <2>2, <3>1
  <2>4. RecordsOf(x)' = R \cup {n + 1} /\ (\A j \in R : trace'[j] = trace[j] /\ j <= n)
    BY <1>2, <1>3, <2>2, <2>3 DEF RecordsOf
  <2>5. r.op = Now(u).do /\ r.tid = u
    BY <2>2
  <2>6. \A t \in Thread \ {u} : ~Open(t, x) /\ ~Open(t, x)'
    <3>1. Phase(u) # 0
      BY <2>1, TurnFacts, PlaceFacts
    <3>2. \A t \in Thread \ {u} : ~Open(t, x)
      BY <1>5, <3>1, OpenAlone
    <3>. QED  BY <2>1, <3>2, OpenKeeps
  <2>7. CASE Phase(u) = First
    <3>1. r.op = "R" /\ \A i \in R : trace[i].op = "R" => \E k \in R : i < k
      BY <1>1, <1>3, <2>1, <2>5, <2>6, <2>7
    <3>2. Whole(x)'
      <4>1. ASSUME NEW j \in R \cup {n + 1}, trace'[j].op = "W"
            PROVE  \E i \in R \cup {n + 1} :
                     /\ i < j /\ {k \in R \cup {n + 1} : i < k /\ k < j} = {}
                     /\ trace'[i].op = "R" /\ trace'[i].tid = trace'[j].tid
        <5>1. j \in R /\ trace[j].op = "W" /\ trace'[j] = trace[j]
          BY <2>3, <2>4, <3>1, <4>1
        <5>2. PICK i \in R : /\ i < j /\ {k \in R : i < k /\ k < j} = {}
                             /\ trace[i].op = "R" /\ trace[i].tid = trace[j].tid
          BY <1>4, <5>1 DEF WholeIn
        <5>3. ~(n + 1 < j)
          BY <1>4, <5>1
        <5>4. {k \in R \cup {n + 1} : i < k /\ k < j} = {}
          BY <5>2, <5>3
        <5>. QED  BY <2>4, <5>1, <5>2, <5>4
      <4>2. ASSUME NEW j \in R \cup {n + 1}, trace'[j].op = "R",
                   NEW i \in R \cup {n + 1}, i < j, trace'[i].op = "R"
            PROVE  {k \in R \cup {n + 1} : i < k /\ k < j} # {}
        <5>1. i \in R /\ trace[i].op = "R"
          <6>1. j <= n + 1 /\ j \in Nat
            BY <1>4
          <6>. QED  BY <2>4, <4>2, <6>1
        <5>2. CASE j \in R
          <6>1. {k \in R : i < k /\ k < j} # {}
            BY <1>4, <2>4, <4>2, <5>1, <5>2 DEF WholeIn
          <6>. QED  BY <6>1
        <5>3. CASE j = n + 1
          <6>1. PICK k \in R : i < k
            BY <3>1, <5>1
          <6>2. k < j
            BY <5>3
          <6>. QED  BY <6>1, <6>2
        <5>. QED  BY <5>2, <5>3
      <4>3. WholeIn(R \cup {n + 1}, trace')
        BY <4>1, <4>2, Zenon DEF WholeIn
      <4>. QED  BY <2>4, <4>3, Zenon DEF Whole
    <3>3. \A t \in Thread : Open(t, x)' =>
            \E i \in R \cup {n + 1} : /\ trace'[i].op = "R" /\ trace'[i].tid = t
                                     /\ \A k \in R \cup {n + 1} : k <= i
      <4>1. trace'[n + 1].op = "R" /\ trace'[n + 1].tid = u
        BY <2>3, <2>5, <3>1
      <4>2. \A k \in R \cup {n + 1} : k <= n + 1
        BY <1>4
      <4>3. \A t \in Thread : Open(t, x)' => t = u
        BY <2>6
      <4>. QED  BY <4>1, <4>2, <4>3
    <3>4. Open(u, x)'
      BY <2>1, <2>7
    <3>. QED  BY <2>4, <3>2, <3>3, <3>4, Zenon
  <2>8. CASE Phase(u) = WriteAt
    <3>0. Phase(u) # First
      BY <2>8, TurnFacts, PlaceFacts
    <3>1. r.op = "W" /\ Open(u, x)
      BY <2>1, <2>5, <3>0
    <3>2. PICK l \in R : /\ trace[l].op = "R" /\ trace[l].tid = u
                         /\ \A k \in R : k <= l
      BY <1>1, <1>3, <3>1
    <3>3. Whole(x)'
      <4>1. ASSUME NEW j \in R \cup {n + 1}, trace'[j].op = "W"
            PROVE  \E i \in R \cup {n + 1} :
                     /\ i < j /\ {k \in R \cup {n + 1} : i < k /\ k < j} = {}
                     /\ trace'[i].op = "R" /\ trace'[i].tid = trace'[j].tid
        <5>1. CASE j \in R
          <6>1. trace[j].op = "W" /\ trace'[j] = trace[j]
            BY <2>4, <4>1, <5>1
          <6>2. PICK i \in R : /\ i < j /\ {k \in R : i < k /\ k < j} = {}
                               /\ trace[i].op = "R" /\ trace[i].tid = trace[j].tid
            BY <1>4, <5>1, <6>1 DEF WholeIn
          <6>3. ~(n + 1 < j)
            BY <1>4, <5>1
          <6>4. {k \in R \cup {n + 1} : i < k /\ k < j} = {}
            BY <6>2, <6>3
          <6>. QED  BY <2>4, <6>1, <6>2, <6>4
        <5>2. CASE j = n + 1
          <6>1. l < j
            BY <5>2
          <6>2. ASSUME NEW k \in R \cup {n + 1}, l < k, k < j  PROVE FALSE
            BY <3>2, <5>2, <6>2
          <6>3. trace'[l].op = "R" /\ trace'[l].tid = trace'[j].tid
            BY <2>3, <2>4, <2>5, <3>2, <5>2
          <6>. QED  BY <6>1, <6>2, <6>3
        <5>. QED  BY <5>1, <5>2
      <4>2. ASSUME NEW j \in R \cup {n + 1}, trace'[j].op = "R",
                   NEW i \in R \cup {n + 1}, i < j, trace'[i].op = "R"
            PROVE  {k \in R \cup {n + 1} : i < k /\ k < j} # {}
        <5>1. i \in R /\ j \in R
          BY <2>3, <3>1, <4>2
        <5>2. {k \in R : i < k /\ k < j} # {}
          BY <1>4, <2>4, <4>2, <5>1 DEF WholeIn
        <5>. QED  BY <5>2
      <4>3. WholeIn(R \cup {n + 1}, trace')
        BY <4>1, <4>2, Zenon DEF WholeIn
      <4>. QED  BY <2>4, <4>3, Zenon DEF Whole
    <3>4. \A t \in Thread : ~Open(t, x)'
      BY <2>1, <2>6, <3>0
    <3>5. \A i \in R \cup {n + 1} : trace'[i].op = "R" => \E k \in R \cup {n + 1} : i < k
      <4>1. \A i \in R : i < n + 1
        OBVIOUS
      <4>. QED  BY <2>3, <3>1, <4>1
    <3>. QED  BY <2>4, <3>3, <3>4, <3>5, Zenon
  <2>. QED  BY <2>1, <2>7, <2>8
<1>6. CASE \A u \in Thread : ~(PrintRecord(u) /\ Inside(u) /\ Cell(u) = x)
  <2>1. trace' = trace \/ \E r \in Record : trace' = Append(trace, r) /\ r.addr # x
    <3>1. ASSUME NEW u \in Thread, PrintRecord(u)
          PROVE  \E r \in Record : trace' = Append(trace, r) /\ r.addr # x
      <4>1. AtStep(u, {"R", "W"}) /\ AtStep(u, RunKinds)
        BY <3>1 DEF PrintRecord, Course, Requested, AtStep, RunKinds
      <4>2. Arg(u) # x
        <5>1. CASE Inside(u)
          BY <1>6, <3>1, <5>1, PhaseFacts
        <5>2. CASE ~Inside(u)
          <6>1. Now(u) = Step("W", Outside)
            BY <4>1, <5>2, RunAt DEF Inside, Course
          <6>. QED  BY <6>1, CellFacts DEF Arg, Step
        <5>. QED  BY <5>1, <5>2
      <4>3. [tid |-> u, op |-> Now(u).do, addr |-> Arg(u)] \in Record
        BY <4>1, RecordType
      <4>. QED  BY <3>1, <4>2, <4>3 DEF PrintRecord
    <3>2. CASE \A u \in Thread : ~PrintRecord(u)
      BY <3>2 DEF Next, Main, Run, Exited, vars, Demarcate, Create, Join, TestFlag, Load, Store,
                  Lock, Unlock
    <3>. QED  BY <3>1, <3>2
  <2>2. RecordsOf(x)' = R /\ \A j \in R : trace'[j] = trace[j]
    <3>1. CASE trace' = trace
      BY <1>3, <3>1 DEF RecordsOf
    <3>2. ASSUME NEW r \in Record, trace' = Append(trace, r), r.addr # x
          PROVE  RecordsOf(x)' = R /\ \A j \in R : trace'[j] = trace[j]
      <4>1. trace \in Seq(Record)
        BY DEF Course, Types
      <4>2. /\ DOMAIN trace' = 1 .. n + 1 /\ trace'[n + 1] = r
            /\ \A j \in 1 .. n : trace'[j] = trace[j]
        BY <1>2, <3>2, <4>1
      <4>. QED  BY <1>2, <1>3, <3>2, <4>2 DEF RecordsOf
    <3>. QED  BY <2>1, <3>1, <3>2
  <2>3. ASSUME NEW t \in Thread  PROVE Open(t, x)' <=> Open(t, x)
    <3>1. CASE ~PrintRecord(t) \/ ~Inside(t)
      BY <3>1, OpenKeeps
    <3>2. CASE PrintRecord(t) /\ Inside(t)
      <4>1. Cell(t) # x
        BY <1>6, <3>2
      <4>. QED  BY <3>2, <4>1, OpenMoves
    <3>. QED  BY <3>1, <3>2
  <2>4. Whole(x)'
    <3>1. WholeIn(R, trace')
      BY <1>4, <2>2 DEF WholeIn
    <3>. QED  BY <2>2, <3>1, Zenon DEF Whole
  <2>. QED  BY <1>1, <1>3, <2>2, <2>3, <2>4
<1>. QED  BY <1>5, <1>6

LEMMA SectionsHold == Spec => [](Course /\ Mutex /\ Sections)
<1>1. Init => Mutex /\ Sections
  <2>. SUFFICES ASSUME Init  PROVE Mutex /\ Sections
    OBVIOUS
  <2>1. \A t \in Thread : ~Inside(t)
    <3>1. \A t \in Thread : Before(t) + 1 > at[t]
      BY FrameNumbers DEF Init, Before
    <3>2. \A t \in Thread : at[t] \in Nat
      BY DEF Init
    <3>. QED  BY <3>1, <3>2, LoopTypes DEF Inside, InLoop
  <2>2. \A x : RecordsOf(x) = {}
    BY DEF Init, RecordsOf
  <2>3. Nobody \notin Thread
    BY TracerAssumption DEF Thread
  <2>4. Mutex
    BY <2>1, <2>3 DEF Init, Mutex, Holds
  <2>5. Sections
    BY <2>1, <2>2 DEF Sections, Whole, WholeIn, Open
  <2>. QED  BY <2>4, <2>5
<1>2. Course /\ Mutex /\ Sections /\ [Next]_vars => Mutex' /\ Sections'
  BY MutexNext, SectionsNext
<1>. QED  BY <1>1, <1>2, CourseHolds, PTL DEF Spec

\* Under the mutexes the file shows every critical section whole.
THEOREM SectionsWhole == Spec => []CriticalSectionsWhole
<1>1. Sections => CriticalSectionsWhole
  BY Zenon DEF Sections, Whole, WholeIn, RecordsOf, CriticalSectionsWhole
<1>. QED  BY <1>1, SectionsHold, PTL
-----------------------------------------------------------------------------
(* No increment is lost: what there is to count.                           *)

\* The ranges do not overlap, and leave no number out.
LEMMA RangesApart ==
  ASSUME NEW t \in Thread, NEW u \in Thread, t < u
  PROVE  RangeEnd(t) <= RangeStart(u)
<1>1. NumThreads \in Nat \ {0} /\ Len(Numbers) \in Nat /\ t \in Nat /\ u \in Nat /\ t # NumThreads - 1
  BY TracerAssumption DEF Thread
<1>2. PICK q \in Nat : q = Len(Numbers) \div NumThreads
  BY <1>1
<1>3. RangeEnd(t) = q * t + q /\ RangeStart(u) = q * u
  BY <1>1, <1>2 DEF RangeEnd, RangeStart
<1>4. q * (t + 1) <= q * u
  <2>1. PICK d \in Nat : u = (t + 1) + d
    <3>1. u - (t + 1) \in Nat /\ u = (t + 1) + (u - (t + 1))
      BY <1>1
    <3>. QED  BY <3>1
  <2>2. q * u = q * (t + 1) + q * d /\ q * d \in Nat /\ q * (t + 1) \in Nat
    BY <1>1, <2>1
  <2>. QED  BY <2>2
<1>5. q * (t + 1) = q * t + q
  BY <1>1
<1>. QED  BY <1>3, <1>4, <1>5

LEMMA RangesCover ==
  ASSUME NEW i \in 1 .. Len(Numbers)
  PROVE  \E t \in Thread : RangeStart(t) < i /\ i <= RangeEnd(t)
<1>1. NumThreads \in Nat \ {0} /\ Len(Numbers) \in Nat
  BY TracerAssumption
<1>2. PICK l \in Thread : l = NumThreads - 1 /\ l \in Nat
  BY <1>1 DEF Thread
<1>3. PICK q \in Nat : q = Len(Numbers) \div NumThreads
  BY <1>1
<1>4. \A t \in Thread : RangeStart(t) = q * t
  BY <1>3 DEF RangeStart
<1>5. CASE q * l < i
  <2>1. RangeEnd(l) = Len(Numbers)
    BY <1>2 DEF RangeEnd
  <2>. QED  BY <1>1, <1>2, <1>4, <1>5, <2>1
<1>6. CASE ~(q * l < i)
  <2>1. q \in Nat \ {0}
    <3>1. q # 0
      <4>1. q = 0 => q * l = 0
        BY <1>2
      <4>. QED  BY <1>6, <4>1
    <3>. QED  BY <3>1
  <2>2. PICK t \in Nat, r \in 0 .. q - 1 : i - 1 = q * t + r
    <3>1. PICK k \in Nat : k = i - 1
      OBVIOUS
    <3>2. k \div q \in Nat /\ k % q \in 0 .. q - 1 /\ k = q * (k \div q) + (k % q)
      BY <2>1
    <3>. QED  BY <3>1, <3>2
  <2>3. PICK m \in Nat : m = q * t /\ i - 1 = m + r
    BY <2>2
  <2>4. t < l
    <3>. SUFFICES ASSUME ~(t < l)  PROVE FALSE
      OBVIOUS
    <3>1. PICK d \in Nat : t = l + d
      <4>1. t - l \in Nat /\ t = l + (t - l)
        BY <1>2
      <4>. QED  BY <4>1
    <3>2. q * (l + d) = q * l + q * d /\ q * d \in Nat /\ q * l \in Nat
      BY <1>2
    <3>3. m = q * l + q * d
      BY <2>3, <3>1, <3>2
    <3>. QED  BY <1>6, <2>3, <3>2, <3>3
  <2>5. t \in Thread /\ t # NumThreads - 1
    BY <1>1, <1>2, <2>4 DEF Thread
  <2>6. RangeStart(t) = m /\ RangeEnd(t) = m + q
    BY <1>3, <1>4, <2>3, <2>5 DEF RangeEnd
  <2>. QED  BY <2>3, <2>5, <2>6
<1>. QED  BY <1>5, <1>6

LEMMA TurnsType ==
  /\ \A x : IsFiniteSet(Turns(x))
  /\ \A x, s : s \in Turns(x) <=> /\ s = <<s[1], s[2]>> /\ s[1] \in Thread
                                 /\ s[2] \in 1 .. Len(Work(s[1])) /\ Work(s[1])[s[2]] = x
<1>1. PICK n \in Nat : n = MostTurns
  BY TracerAssumption DEF MostTurns
<1>2. IsFiniteSet(Thread \X (1 .. n))
  <2>1. IsFiniteSet(Thread) /\ IsFiniteSet(1 .. n)
    BY FS_Interval, TracerAssumption DEF Thread
  <2>. QED  BY <2>1, FS_Product
<1>3. \A x : Turns(x) = {s \in Thread \X (1 .. n) : s[2] <= Len(Work(s[1])) /\ Work(s[1])[s[2]] = x}
  BY <1>1, Zenon DEF Turns
<1>4. \A x : IsFiniteSet(Turns(x))
  <2>1. \A x : Turns(x) \subseteq Thread \X (1 .. n)
    BY <1>3
  <2>. QED  BY <1>2, <2>1, FS_Subset
<1>5. ASSUME NEW t \in Thread
      PROVE  Len(Work(t)) \in Nat /\ Len(Work(t)) <= n
  BY <1>1, WorkFacts, RangeFacts DEF MostTurns
<1>6. ASSUME NEW x, NEW s
      PROVE  s \in Turns(x) <=> /\ s = <<s[1], s[2]>> /\ s[1] \in Thread
                               /\ s[2] \in 1 .. Len(Work(s[1])) /\ Work(s[1])[s[2]] = x
  <2>1. s \in Thread \X (1 .. n) <=> s = <<s[1], s[2]>> /\ s[1] \in Thread /\ s[2] \in 1 .. n
    OBVIOUS
  <2>2. s[1] \in Thread =>
          (s[2] \in 1 .. Len(Work(s[1])) <=> s[2] \in 1 .. n /\ s[2] <= Len(Work(s[1])))
    BY <1>5
  <2>. QED  BY <1>3, <2>1, <2>2
<1>. QED  BY <1>4, <1>6

\* The loops make as many turns on a cell as there are increments of it.
LEMMA TurnsCount ==
  ASSUME NEW x \in Cells
  PROVE  Cardinality(Turns(x)) = Increments(x)
<1>1. CASE Adds /\ x = GlobalVal
  <2>1. Turns(x) = Thread \X (1 .. Iterations)
    <3>1. \A t \in Thread : Len(Work(t)) = Iterations /\ \A j \in 1 .. Iterations : Work(t)[j] = x
      BY <1>1, WorkFacts
    <3>2. \A j \in 1 .. Iterations : j <= Iterations
      BY TracerAssumption
    <3>3. MostTurns = Iterations
      BY <1>1 DEF MostTurns
    <3>. QED  BY <3>1, <3>2, <3>3 DEF Turns
  <2>2. IsFiniteSet(Thread) /\ Cardinality(Thread) = NumThreads
    BY FS_Interval, TracerAssumption DEF Thread
  <2>3. IsFiniteSet(1 .. Iterations) /\ Cardinality(1 .. Iterations) = Iterations
    BY FS_Interval, TracerAssumption
  <2>4. Cardinality(Turns(x)) = NumThreads * Iterations
    BY <2>1, <2>2, <2>3, FS_Product
  <2>. QED  BY <1>1, <2>4 DEF Increments
<1>2. CASE Adds /\ x # GlobalVal
  <2>1. Turns(x) = {}
    BY <1>2, TurnsType, WorkFacts
  <2>. QED  BY <1>2, <2>1, FS_EmptySet DEF Increments
<1>3. CASE ~Adds
  <2>. DEFINE S == {i \in 1 .. Len(Numbers) : Numbers[i] = x}
              f == [s \in Turns(x) |-> RangeStart(s[1]) + s[2]]
  <2>1. ASSUME NEW s \in Turns(x)
        PROVE  /\ s = <<s[1], s[2]>> /\ s[1] \in Thread /\ s[2] \in Nat
               /\ RangeStart(s[1]) \in Nat /\ RangeEnd(s[1]) \in Nat
               /\ RangeStart(s[1]) < f[s] /\ f[s] <= RangeEnd(s[1])
               /\ f[s] \in 1 .. Len(Numbers) /\ Numbers[f[s]] = x
    <3>0. PICK t \in Thread : s[1] = t
      BY TurnsType
    <3>1. PICK j \in 1 .. Len(Work(t)) : s[2] = j /\ s = <<t, j>> /\ Work(t)[j] = x
      BY <3>0, TurnsType
    <3>2. /\ RangeStart(t) \in Nat /\ RangeEnd(t) \in Nat /\ RangeEnd(t) <= Len(Numbers)
          /\ Len(Work(t)) = RangeEnd(t) - RangeStart(t) /\ Len(Numbers) \in Nat
          /\ Numbers[RangeStart(t) + j] = x
      BY <1>3, <3>1, RangeFacts, WorkFacts, CellFacts
    <3>3. f[s] = RangeStart(t) + j
      BY <3>0, <3>1
    <3>. QED  BY <3>0, <3>1, <3>2, <3>3
  <2>2. f \in [Turns(x) -> S]
    BY <2>1
  <2>3. ASSUME NEW a \in Turns(x), NEW b \in Turns(x), f[a] = f[b]
        PROVE  a = b
    <3>1. ~(a[1] < b[1])
      <4>1. a[1] < b[1] => RangeEnd(a[1]) <= RangeStart(b[1])
        BY <2>1, RangesApart
      <4>. QED  BY <2>1, <2>3, <4>1
    <3>2. ~(b[1] < a[1])
      <4>1. b[1] < a[1] => RangeEnd(b[1]) <= RangeStart(a[1])
        BY <2>1, RangesApart
      <4>. QED  BY <2>1, <2>3, <4>1
    <3>3. a[1] = b[1]
      <4>1. a[1] \in Int /\ b[1] \in Int
        BY <2>1 DEF Thread
      <4>. QED  BY <3>1, <3>2, <4>1
    <3>4. f[a] = RangeStart(a[1]) + a[2] /\ f[b] = RangeStart(b[1]) + b[2]
      OBVIOUS
    <3>5. a[2] = b[2]
      BY <2>1, <2>3, <3>3, <3>4
    <3>. QED  BY <2>1, <3>3, <3>5
  <2>4. ASSUME NEW i \in S
        PROVE  \E s \in Turns(x) : f[s] = i
    <3>1. PICK t \in Thread : RangeStart(t) < i /\ i <= RangeEnd(t)
      BY RangesCover
    <3>2. PICK j \in 1 .. Len(Work(t)) : i = RangeStart(t) + j
      <4>1. RangeStart(t) \in Nat /\ RangeEnd(t) \in Nat /\ i \in Nat
            /\ Len(Work(t)) = RangeEnd(t) - RangeStart(t)
        BY <1>3, RangeFacts, WorkFacts, CellFacts
      <4>2. i - RangeStart(t) \in 1 .. Len(Work(t)) /\ i = RangeStart(t) + (i - RangeStart(t))
        BY <3>1, <4>1
      <4>. QED  BY <4>2
    <3>3. Work(t)[j] = x
      BY <1>3, <3>2, WorkFacts
    <3>4. <<t, j>> \in Turns(x)
      BY <3>3, TurnsType
    <3>. QED  BY <3>2, <3>4
  <2>5. f \in Bijection(Turns(x), S)
    BY <2>2, <2>3, <2>4, Fun_IsBij
  <2>6. ExistsBijection(Turns(x), S)
    BY <2>5, Fun_ExistsBij
  <2>7. Cardinality(S) = Cardinality(Turns(x))
    BY <2>6, TurnsType, FS_Bijection
  <2>. QED  BY <1>3, <2>7 DEF Increments
<1>. QED  BY <1>1, <1>2, <1>3
-----------------------------------------------------------------------------
(* No increment is lost: what has been counted.                            *)

\* The store of a turn is where the turn is.
LEMMA StoreAtFacts ==
  ASSUME NEW t \in Thread, NEW j \in 1 .. Len(Work(t))
  PROVE  /\ StoreAt(t, j) \in Nat /\ InLoop(t, StoreAt(t, j)) /\ StoreAt(t, j) <= LoopEnd(t)
         /\ Place(t, StoreAt(t, j)) = First + 3 /\ Nth(t, StoreAt(t, j)) = j
<1>1. PICK b \in Nat, l \in Nat : b = Before(t) /\ l = Len(Work(t)) /\ LoopEnd(t) = b + l * Turn
  BY LoopTypes, WorkFacts DEF LoopEnd
<1>2. CASE Turn = 4
  <2>1. First = 0 /\ LoopEnd(t) = b + 4 * l
    BY <1>1, <1>2, TurnFacts
  <2>2. PICK k \in Nat : k = 4 * (j - 1) + 3
    OBVIOUS
  <2>3. StoreAt(t, j) = b + k + 1
    BY <1>1, <1>2, <2>1, <2>2 DEF StoreAt
  <2>4. b + k + 1 \in b + 1 .. b + 4 * l
    BY <1>1, <2>2
  <2>5. InLoop(t, b + k + 1)
    BY <1>1, <2>1, <2>4 DEF InLoop
  <2>6. k \div 4 = j - 1 /\ k % 4 = 3
    BY <2>2
  <2>7. Place(t, b + k + 1) = 3 /\ Nth(t, b + k + 1) = j
    <3>1. PICK i \in Nat : i = b + k + 1 /\ i - 1 - b = k
      OBVIOUS
    <3>2. Place(t, i) = 3 /\ Nth(t, i) = j - 1 + 1
      BY <1>1, <1>2, <2>6, <3>1 DEF Place, Nth
    <3>. QED  BY <3>1, <3>2
  <2>. QED  BY <2>1, <2>3, <2>4, <2>5, <2>7
<1>3. CASE Turn = 6
  <2>1. First = 1 /\ LoopEnd(t) = b + 6 * l
    BY <1>1, <1>3, TurnFacts
  <2>2. PICK k \in Nat : k = 6 * (j - 1) + 4
    OBVIOUS
  <2>3. StoreAt(t, j) = b + k + 1
    BY <1>1, <1>3, <2>1, <2>2 DEF StoreAt
  <2>4. b + k + 1 \in b + 1 .. b + 6 * l
    BY <1>1, <2>2
  <2>5. InLoop(t, b + k + 1)
    BY <1>1, <2>1, <2>4 DEF InLoop
  <2>6. k \div 6 = j - 1 /\ k % 6 = 4
    BY <2>2
  <2>7. Place(t, b + k + 1) = 4 /\ Nth(t, b + k + 1) = j
    <3>1. PICK i \in Nat : i = b + k + 1 /\ i - 1 - b = k
      OBVIOUS
    <3>2. Place(t, i) = 4 /\ Nth(t, i) = j - 1 + 1
      BY <1>1, <1>3, <2>6, <3>1 DEF Place, Nth
    <3>. QED  BY <3>1, <3>2
  <2>. QED  BY <2>1, <2>3, <2>4, <2>5, <2>7
<1>. QED  BY <1>2, <1>3, TurnFacts

LEMMA DoneType ==
  ASSUME NEW x
  PROVE  IsFiniteSet(Done(x)) /\ Cardinality(Done(x)) \in Nat
         /\ IsFiniteSet(Turns(x)) /\ Cardinality(Turns(x)) \in Nat
         /\ Cardinality(Done(x)) <= Cardinality(Turns(x))
<1>1. IsFiniteSet(Turns(x)) /\ Done(x) \subseteq Turns(x)
  BY TurnsType DEF Done
<1>2. IsFiniteSet(Done(x)) /\ Cardinality(Done(x)) <= Cardinality(Turns(x))
  BY <1>1, FS_Subset
<1>. QED  BY <1>1, <1>2, FS_CardinalityType

\* The store of a turn is not yet done while the thread is at it, and done
\* when it has moved on; nothing else changes what is done.
LEMMA DoneSteps ==
  ASSUME Course, [Next]_vars, NEW x, NEW s \in Turns(x)
  PROVE  /\ Turns(x)' = Turns(x) /\ StoreAt(s[1], s[2])' = StoreAt(s[1], s[2])
         /\ s \in Done(x) => s \in Done(x)'
         /\ s \in Done(x)' /\ s \notin Done(x) =>
              /\ Store(s[1]) /\ at[s[1]] = StoreAt(s[1], s[2])
<1>1. PICK t \in Thread : s[1] = t
  BY TurnsType
<1>2. PICK j \in 1 .. Len(Work(t)) : s[2] = j
  BY <1>1, TurnsType
<1>3. UNCHANGED build /\ at[t] \in Nat /\ (at'[t] = at[t] \/ at'[t] = at[t] + 1)
  BY Pace DEF Course, Types
<1>4. Turns(x)' = Turns(x)
  <2>1. (Adds' <=> Adds) /\ \A u \in Thread : Work(u)' = Work(u)
    BY <1>3, SameBuild
  <2>2. MostTurns' = MostTurns
    BY <2>1 DEF MostTurns
  <2>. QED  BY <2>1, <2>2, Zenon DEF Turns
<1>5. StoreAt(t, j)' = StoreAt(t, j)
  BY <1>3, SameBuild DEF StoreAt
<1>6. s \in Done(x) <=> StoreAt(t, j) < at[t]
  BY <1>1, <1>2 DEF Done
<1>7. s \in Done(x)' <=> StoreAt(t, j) < at'[t]
  <2>1. s \in Done(x)' <=> s \in Turns(x)' /\ StoreAt(s[1], s[2])' < at'[s[1]]
    BY Zenon DEF Done
  <2>2. StoreAt(s[1], s[2])' = StoreAt(t, j) /\ at'[s[1]] = at'[t]
    BY <1>1, <1>2, <1>5
  <2>. QED  BY <1>4, <2>1, <2>2
<1>8. PICK p \in Nat : /\ p = StoreAt(t, j) /\ InLoop(t, p)
                       /\ Place(t, p) = First + 3
  BY StoreAtFacts
<1>9. ASSUME p < at'[t], ~(p < at[t])
      PROVE  Store(t) /\ at[t] = p
  <2>1. at[t] = p /\ at'[t] # at[t]
    BY <1>3, <1>9
  <2>2. Inside(t) /\ Phase(t) = First + 3
    BY <1>8, <2>1 DEF Inside, Phase
  <2>3. First + 3 # First /\ First + 3 # WriteAt /\ First + 3 # LoadAt /\ First + 3 \notin {0, 5}
    BY TurnFacts, PlaceFacts
  <2>. QED  BY <2>1, <2>2, <2>3, Movers
<1>10. p < at[t] => p < at'[t]
  BY <1>3
<1>. QED  BY <1>1, <1>2, <1>4, <1>5, <1>6, <1>7, <1>8, <1>9, <1>10

LEMMA DoneSame ==
  ASSUME Course, [Next]_vars, NEW x,
         \A t \in Thread : Store(t) => Cell(t) # x
  PROVE  Done(x)' = Done(x)
<1>1. Turns(x)' = Turns(x)
  <2>1. UNCHANGED build
    BY Pace, FrameNumbers
  <2>2. (Adds' <=> Adds) /\ \A u \in Thread : Work(u)' = Work(u)
    BY <2>1, SameBuild
  <2>3. MostTurns' = MostTurns
    BY <2>2 DEF MostTurns
  <2>. QED  BY <2>2, <2>3, Zenon DEF Turns
<1>2. Done(x) \subseteq Turns(x) /\ Done(x)' \subseteq Turns(x)'
  BY DEF Done
<1>3. ASSUME NEW s \in Turns(x)
      PROVE  s \in Done(x)' <=> s \in Done(x)
  <2>. SUFFICES ASSUME s \in Done(x)', s \notin Done(x)  PROVE FALSE
    BY DoneSteps
  <2>1. PICK t \in Thread : s[1] = t
    BY TurnsType
  <2>2. PICK j \in 1 .. Len(Work(t)) : s[2] = j /\ Work(t)[j] = x
    BY <2>1, TurnsType
  <2>3. Store(t) /\ at[t] = StoreAt(t, j)
    BY <2>1, <2>2, DoneSteps
  <2>4. Cell(t) = x
    BY <2>2, <2>3, StoreAtFacts DEF Cell, CellAt
  <2>. QED  BY <2>3, <2>4
<1>. QED  BY <1>1, <1>2, <1>3

LEMMA DoneGrows ==
  ASSUME Course, [Next]_vars, NEW t \in Thread, Store(t), Inside(t), NEW x, x = Cell(t)
  PROVE  Cardinality(Done(x)') = Cardinality(Done(x)) + 1
<1>1. UNCHANGED build /\ at \in [Thread -> Nat] /\ at[t] \in Nat /\ at'[t] = at[t] + 1
      /\ \A u \in Thread \ {t} : at'[u] = at[u]
  BY Pace DEF Course, Types, Store, GoOn
<1>2. PICK j \in 1 .. Len(Work(t)) : j = Round(t)
  BY PhaseFacts
<1>3. Phase(t) = First + 3
  BY PhaseFacts DEF Store, AtStep
<1>4. at[t] = StoreAt(t, j)
  <2>1. PICK i \in Int : i = at[t]
    BY <1>1
  <2>2. InLoop(t, i) /\ Place(t, i) = First + 3 /\ Nth(t, i) = j
    BY <1>2, <1>3, <2>1 DEF Inside, Phase, Round
  <2>3. i = Before(t) + Turn * (Nth(t, i) - 1) + Place(t, i) + 1
    BY <2>2, LoopFacts
  <2>4. PICK m \in Int : m = Turn * (j - 1)
    BY TurnFacts
  <2>5. i = Before(t) + m + (First + 3) + 1 /\ StoreAt(t, j) = Before(t) + m + First + 4
    BY <2>2, <2>3, <2>4 DEF StoreAt
  <2>6. PICK b \in Nat, f \in Nat : b = Before(t) /\ f = First
    BY LoopTypes, TurnFacts
  <2>7. i = b + m + f + 4 /\ StoreAt(t, j) = b + m + f + 4
    BY <2>5, <2>6
  <2>. QED  BY <2>1, <2>7
<1>5. Work(t)[j] = x
  BY <1>2 DEF Cell, CellAt, Round
<1>6. PICK new : new = <<t, j>>
  OBVIOUS
<1>7. new[1] = t /\ new[2] = j /\ new = <<new[1], new[2]>>
  BY <1>6
<1>8. new \in Turns(x)
  BY <1>5, <1>7, TurnsType
<1>9. new \notin Done(x)
  BY <1>1, <1>4, <1>7 DEF Done
<1>10. new \in Done(x)'
  <2>1. new \in Turns(x)' /\ StoreAt(new[1], new[2])' = at[t]
    BY <1>4, <1>7, <1>8, DoneSteps
  <2>2. at[t] < at'[new[1]]
    BY <1>1, <1>7
  <2>. QED  BY <2>1, <2>2, Zenon DEF Done
<1>11. ASSUME NEW s \in Done(x)', s \notin Done(x)
       PROVE  s = new
  <2>1. s \in Turns(x)
    <3>1. s \in Turns(x)' /\ Turns(x)' = Turns(x)
      BY <1>8, <1>11, DoneSteps DEF Done
    <3>. QED  BY <3>1
  <2>2. PICK u \in Thread : s[1] = u
    BY <2>1, TurnsType
  <2>3. PICK k \in 1 .. Len(Work(u)) : s[2] = k /\ s = <<u, k>>
    BY <2>1, <2>2, TurnsType
  <2>4. Store(u) /\ at[u] = StoreAt(u, k)
    BY <1>11, <2>1, <2>2, <2>3, DoneSteps
  <2>5. u = t
    <3>1. at'[u] = at[u] + 1 /\ at[u] \in Nat
      BY <1>1, <2>4 DEF Store, GoOn
    <3>. QED  BY <1>1, <3>1
  <2>6. k = j
    <3>1. Nth(t, StoreAt(t, k)) = k /\ Nth(t, StoreAt(t, j)) = j
      BY <2>5, StoreAtFacts
    <3>. QED  BY <1>4, <2>4, <2>5, <3>1
  <2>. QED  BY <1>6, <2>3, <2>5, <2>6
<1>12. Done(x)' = Done(x) \cup {new}
  <2>1. \A s \in Done(x) : s \in Done(x)'
    BY DoneSteps DEF Done
  <2>. QED  BY <1>10, <1>11, <2>1
<1>. QED  BY <1>9, <1>12, DoneType, FS_AddElement

\* What a thread has loaded it has loaded just now, or before.
LEMMA LoadedFrom ==
  ASSUME Course, [Next]_vars, NEW t \in Thread, Loaded(t)'
  PROVE  /\ Inside(t) /\ Cell(t)' = Cell(t) /\ Cell(t) \in Cells /\ ~Store(t)
         /\ \/ Load(t) /\ reg'[t] = mem[Cell(t)]
            \/ Loaded(t) /\ Phase(t) # 0 /\ reg'[t] = reg[t]
<1>1. UNCHANGED build /\ at \in [Thread -> Nat] /\ at[t] \in Nat
      /\ (at'[t] = at[t] \/ at'[t] = at[t] + 1) /\ reg \in [Thread -> Nat]
  BY Pace DEF Course, Types
<1>2. First' = First /\ LoadAt' = LoadAt
  BY <1>1, SameBuild
<1>3. 0 \notin LoadAt + 1 .. First + 3 /\ First + 3 + 1 \notin LoadAt + 1 .. First + 3
  BY TurnFacts, PlaceFacts
<1>4. ASSUME ~Load(t)  PROVE reg'[t] = reg[t]
  <2>1. CASE \E u \in Thread : Load(u)
    BY <1>1, <1>4, <2>1 DEF Load
  <2>2. CASE \A u \in Thread : ~Load(u)
    BY <2>2 DEF Next, Main, Run, Exited, vars, Demarcate, Create, Join, TestFlag, PrintRecord,
                Store, Lock, Unlock
  <2>. QED  BY <2>1, <2>2
<1>5. CASE at'[t] = at[t]
  <2>1. Loaded(t) /\ Cell(t)' = Cell(t)
    BY <1>1, <1>2, <1>5, Stays DEF Loaded
  <2>2. ~Store(t) /\ ~Load(t)
    BY <1>1, <1>5 DEF Store, Load, GoOn
  <2>3. Phase(t) # 0 /\ Inside(t)
    BY <1>3, <2>1 DEF Loaded
  <2>. QED  BY <1>4, <2>1, <2>2, <2>3, PhaseFacts
<1>6. CASE at'[t] = at[t] + 1
  <2>1. Inside(t)
    BY <1>1, <1>2, <1>3, <1>6, Moves DEF Loaded
  <2>2. Phase(t) # Turn - 1
    BY <1>1, <1>2, <1>3, <1>6, <2>1, Moves DEF Loaded
  <2>3. Phase(t)' = Phase(t) + 1 /\ Cell(t)' = Cell(t)
    BY <1>1, <1>6, <2>1, <2>2, Moves
  <2>4. Phase(t) + 1 \in LoadAt + 1 .. First + 3
    BY <1>2, <2>3 DEF Loaded
  <2>5. Phase(t) # First + 3
    BY <1>3, <2>4
  <2>6. Phase(t) \in 0 .. Turn - 1 /\ Cell(t) \in Cells
    BY <2>1, PhaseFacts
  <2>7. ~Store(t)
    BY <2>1, <2>5, PhaseFacts DEF Store, AtStep
  <2>8. CASE Load(t)
    <3>1. reg'[t] = mem[Arg(t)]
      BY <1>1, <2>8 DEF Load
    <3>. QED  BY <2>1, <2>3, <2>6, <2>7, <2>8, <3>1, PhaseFacts
  <2>9. CASE ~Load(t)
    <3>1. Phase(t) # LoadAt
      <4>1. Phase(t) \in {First, WriteAt, First + 3, 0, 5}
        BY <1>1, <1>6, <2>1, <2>9, Movers
      <4>. QED  BY <4>1, TurnFacts, PlaceFacts
    <3>2. Phase(t) \in LoadAt + 1 .. First + 3 /\ Phase(t) # 0
      BY <2>4, <2>6, <3>1, TurnFacts, PlaceFacts
    <3>. QED  BY <1>4, <2>1, <2>3, <2>6, <2>7, <2>9, <3>2 DEF Loaded
  <2>. QED  BY <2>8, <2>9
<1>. QED  BY <1>1, <1>5, <1>6
LEMMA CountedNext ==
  ASSUME Course, Mutex, Counted, [Next]_vars
  PROVE  Counted'
<1>1. UNCHANGED build /\ at \in [Thread -> Nat] /\ mem \in [Cells -> Nat] /\ reg \in [Thread -> Nat]
      /\ (Locked' <=> Locked)
  BY FrameNumbers, Pace, SameBuild DEF Course, Types
<1>2. \A x \in Cells : Cardinality(Done(x)) \in Nat
  BY DoneType
<1>3. CASE \E u \in Thread : Store(u)
  <2>1. PICK u \in Thread : Store(u)
    BY <1>3
  <2>2. Inside(u) /\ Arg(u) = Cell(u) /\ Cell(u) \in Cells /\ Phase(u) = First + 3
    <3>1. AtStep(u, RunKinds \ {"R", "W"}) /\ Now(u).do = "store"
      BY <2>1 DEF Store, AtStep, RunKinds
    <3>2. Inside(u)
      BY <3>1, CellOfStep DEF Inside
    <3>. QED  BY <3>1, <3>2, PhaseFacts
  <2>3. PICK x \in Cells : x = Cell(u)
    BY <2>2
  <2>4. /\ mem' = [mem EXCEPT ![x] = reg[u] + 1] /\ reg' = reg /\ at'[u] = at[u] + 1
        /\ \A t \in Thread \ {u} : at'[t] = at[t]
    BY <1>1, <2>1, <2>2, <2>3 DEF Store, GoOn
  <2>5. \A t \in Thread \ {u} : ~Store(t)
    <3>. SUFFICES ASSUME NEW t \in Thread \ {u}, Store(t)  PROVE FALSE
      OBVIOUS
    <3>1. at'[t] = at[t] + 1 /\ at[t] \in Nat
      BY <1>1 DEF Store, GoOn
    <3>. QED  BY <2>4, <3>1
  <2>6. Cardinality(Done(x)') = Cardinality(Done(x)) + 1
    BY <2>1, <2>2, <2>3, DoneGrows
  <2>7. \A y \in Cells \ {x} : Done(y)' = Done(y)
    BY <2>3, <2>5, DoneSame
  <2>8. Loaded(u) /\ Phase(u) # 0
    BY <2>2, TurnFacts, PlaceFacts DEF Loaded
  <2>9. ASSUME NEW y \in Cells
        PROVE  mem'[y] <= Cardinality(Done(y)')
    <3>1. CASE y = x
      <4>1. reg[u] <= Cardinality(Done(x))
        BY <2>3, <2>8 DEF Counted
      <4>. QED  BY <1>1, <1>2, <2>4, <2>6, <3>1, <4>1
    <3>2. CASE y # x
      BY <1>1, <2>4, <2>7, <3>2 DEF Counted
    <3>. QED  BY <3>1, <3>2
  <2>10. ASSUME NEW t \in Thread, Loaded(t)'
         PROVE  /\ t # u /\ Loaded(t) /\ Cell(t)' = Cell(t) /\ Cell(t) \in Cells
                /\ reg'[t] = reg[t] /\ Holds(t, Cell(t))
    <3>1. /\ Inside(t) /\ Cell(t)' = Cell(t) /\ Cell(t) \in Cells /\ ~Store(t)
          /\ Load(t) \/ (Loaded(t) /\ Phase(t) # 0 /\ reg'[t] = reg[t])
      BY <2>10, LoadedFrom
    <3>2. t # u
      BY <2>1, <3>1
    <3>3. ~Load(t)
      <4>1. Load(t) => at'[t] = at[t] + 1 /\ at[t] \in Nat
        BY <1>1 DEF Load, GoOn
      <4>. QED  BY <2>4, <3>2, <4>1
    <3>. QED  BY <3>1, <3>2, <3>3 DEF Holds
  <2>11. ASSUME NEW t \in Thread, Loaded(t)'
         PROVE  reg'[t] <= Cardinality(Done(Cell(t))')
    <3>1. PICK y \in Cells : y = Cell(t) /\ Cell(t)' = y /\ reg'[t] = reg[t] /\ Loaded(t)
      BY <2>10, <2>11
    <3>2. reg[t] <= Cardinality(Done(y))
      BY <3>1 DEF Counted
    <3>3. Done(Cell(t))' = Done(y)'
      BY <3>1, Zenon DEF Done, Turns
    <3>4. CASE y = x
      BY <1>1, <1>2, <2>6, <3>1, <3>2, <3>3, <3>4
    <3>5. CASE y # x
      BY <2>7, <3>1, <3>2, <3>3, <3>5
    <3>. QED  BY <3>4, <3>5
  <2>12. ASSUME Locked, NEW y \in Cells
         PROVE  mem'[y] = Cardinality(Done(y)')
    <3>1. CASE y = x
      <4>1. reg[u] = mem[x] /\ mem[x] = Cardinality(Done(x))
        BY <2>3, <2>8, <2>12 DEF Counted
      <4>. QED  BY <1>1, <2>4, <2>6, <3>1, <4>1
    <3>2. CASE y # x
      BY <1>1, <2>4, <2>7, <2>12, <3>2 DEF Counted
    <3>. QED  BY <3>1, <3>2
  <2>13. ASSUME Locked, NEW t \in Thread, Loaded(t)'
         PROVE  reg'[t] = mem'[Cell(t)']
    <3>1. PICK y \in Cells : y = Cell(t) /\ Cell(t)' = y /\ reg'[t] = reg[t] /\ Loaded(t)
      BY <2>10, <2>13
    <3>2. y # x
      <4>1. Holds(t, y) /\ t # u
        BY <2>10, <2>13, <3>1
      <4>2. Holds(u, x)
        BY <2>2, <2>3, <2>8 DEF Holds
      <4>. QED  BY <2>13, <4>1, <4>2 DEF Mutex
    <3>3. reg[t] = mem[y]
      BY <2>13, <3>1 DEF Counted
    <3>. QED  BY <1>1, <2>4, <3>1, <3>2, <3>3
  <2>. QED  BY <1>1, <2>9, <2>11, <2>12, <2>13 DEF Counted
<1>4. CASE \A u \in Thread : ~Store(u)
  <2>1. mem' = mem
    BY <1>4 DEF Next, Main, Run, Exited, vars, Demarcate, Create, Join, TestFlag, PrintRecord,
                Load, Lock, Unlock
  <2>2. \A y \in Cells : Done(y)' = Done(y)
    BY <1>4, DoneSame
  <2>3. ASSUME NEW t \in Thread, Loaded(t)'
        PROVE  /\ reg'[t] <= Cardinality(Done(Cell(t))')
               /\ Locked => reg'[t] = mem'[Cell(t)']
    <3>1. PICK y \in Cells :
            /\ y = Cell(t) /\ Cell(t)' = y
            /\ reg'[t] = mem[y] \/ (Loaded(t) /\ reg'[t] = reg[t])
      BY <2>3, LoadedFrom
    <3>2. Done(Cell(t))' = Done(y)
      <4>1. Done(Cell(t))' = Done(y)'
        BY <3>1, Zenon DEF Done, Turns
      <4>. QED  BY <2>2, <4>1
    <3>3. CASE reg'[t] = mem[y]
      BY <2>1, <3>1, <3>2, <3>3 DEF Counted
    <3>4. CASE Loaded(t) /\ reg'[t] = reg[t]
      BY <2>1, <3>1, <3>2, <3>4 DEF Counted
    <3>. QED  BY <3>1, <3>3, <3>4
  <2>4. \A y \in Cells : mem'[y] <= Cardinality(Done(y)')
    BY <2>1, <2>2 DEF Counted
  <2>5. Locked => \A y \in Cells : mem'[y] = Cardinality(Done(y)')
    BY <2>1, <2>2 DEF Counted
  <2>. QED  BY <1>1, <2>3, <2>4, <2>5 DEF Counted
<1>. QED  BY <1>3, <1>4

LEMMA InitCounted == ASSUME Init  PROVE Counted
<1>1. \A t \in Thread : ~Inside(t)
  <2>1. \A t \in Thread : at[t] \in Nat /\ Before(t) + 1 > at[t]
    BY FrameNumbers DEF Init, Before
  <2>. QED  BY <2>1, LoopTypes DEF Inside, InLoop
<1>2. ASSUME NEW x  PROVE Done(x) = {}
  <2>. SUFFICES ASSUME NEW s \in Done(x)  PROVE FALSE
    OBVIOUS
  <2>1. s \in Turns(x) /\ StoreAt(s[1], s[2]) < at[s[1]]
    BY DEF Done
  <2>2. PICK t \in Thread : s[1] = t
    BY <2>1, TurnsType
  <2>3. PICK j \in 1 .. Len(Work(t)) : s[2] = j
    BY <2>1, <2>2, TurnsType
  <2>4. PICK p \in Nat : p = StoreAt(t, j) /\ p \in Before(t) + 1 .. LoopEnd(t)
    BY StoreAtFacts DEF InLoop
  <2>5. at[t] \in Nat /\ Before(t) \in Nat /\ Before(t) + 1 > at[t]
    BY FrameNumbers, LoopTypes DEF Init, Before
  <2>6. p < at[t]
    BY <2>1, <2>2, <2>3, <2>4
  <2>7. PICK b \in Nat, i \in Nat : b = Before(t) /\ i = at[t]
    BY <2>5
  <2>8. p < i /\ b + 1 > i
    BY <2>5, <2>6, <2>7
  <2>9. b + 1 <= p
    <3>1. PICK e \in Nat : e = LoopEnd(t)
      BY LoopTypes
    <3>2. p \in b + 1 .. e
      BY <2>4, <2>7, <3>1
    <3>. QED  BY <3>2
  <2>. QED  BY <2>8, <2>9
<1>3. Cardinality({}) = 0
  BY FS_EmptySet
<1>4. \A x \in Cells : mem[x] = 0
  BY DEF Init
<1>5. \A x : Cardinality(Done(x)) = 0
  BY <1>2, <1>3
<1>6. \A t \in Thread : ~Loaded(t)
  BY <1>1 DEF Loaded
<1>. QED  BY <1>4, <1>5, <1>6 DEF Counted

LEMMA CountedHolds == Spec => [](Course /\ Counted)
<1>1. Init => Counted
  BY InitCounted
<1>2. Course /\ Mutex /\ Counted /\ [Next]_vars => Counted'
  BY CountedNext
<1>. QED  BY <1>1, <1>2, SectionsHold, PTL DEF Spec

\* The type invariant: in any program, under a mutex or not, no cell is ever
\* counted higher than there is to count.
THEOREM TypeCorrect == Spec => []TypeOK
<1>1. Course /\ Counted => TypeOK
  <2>. SUFFICES ASSUME Course, Counted  PROVE TypeOK
    OBVIOUS
  <2>1. \A t \in Thread : at[t] \in 0 .. Len(text[t]) + 1
    <3>. SUFFICES ASSUME NEW t \in Thread  PROVE at[t] \in 0 .. Len(text[t]) + 1
      OBVIOUS
    <3>1. text[t] \in Seq(Steps) /\ at[t] \in Nat /\ at[t] <= Len(text[t]) + 1
      BY Ends DEF Course, Types
    <3>2. Len(text[t]) \in Nat
      BY <3>1
    <3>. QED  BY <3>1, <3>2
  <2>2. ASSUME NEW x \in Cells  PROVE mem[x] \in 0 .. Increments(x)
    <3>1. /\ mem[x] <= Cardinality(Done(x)) /\ Cardinality(Done(x)) <= Cardinality(Turns(x))
          /\ Cardinality(Turns(x)) = Increments(x)
          /\ mem[x] \in Nat /\ Cardinality(Done(x)) \in Nat /\ Cardinality(Turns(x)) \in Nat
      BY DoneType, TurnsCount DEF Counted, Course, Types
    <3>. QED  BY <3>1
  <2>3. trace \in Seq([tid : Thread, op : {"R", "W"}, addr : Cells \cup {Outside}])
    BY DEF Course, Types, Record
  <2>. QED  BY <2>1, <2>2, <2>3 DEF TypeOK, Course, Types, Compiled
<1>. QED  BY <1>1, CountedHolds, PTL

\* When a program with mutexes exits, every increment has been counted: the
\* ranges of the threads cover all the numbers once.
THEOREM NothingLost == Spec => []NoIncrementLost
<1>1. Course /\ Counted => NoIncrementLost
  <2>. SUFFICES ASSUME Course, Counted, Finished(0), Locked, NEW x \in Cells
                PROVE  mem[x] = Increments(x)
    BY DEF NoIncrementLost
  <2>1. ASSUME NEW t \in Thread  PROVE at[t] \in Nat /\ at[t] > LoopEnd(t)
    <3>1. at[0] = LoopEnd(0) + NumThreads + 2
      <4>1. Len(text[0]) = LoopEnd(0) + NumThreads + 1
        BY FrameNumbers, Ends DEF Course, Types
      <4>. QED  BY <4>1, FrameNumbers DEF Finished
    <3>2. t # 0 => at[t] = LoopEnd(t) + 1
      <4>1. t # 0 => at[0] > LoopEnd(0) + t
        BY <3>1, FrameNumbers
      <4>. QED  BY <4>1 DEF Course, Control
    <3>3. at[t] \in Nat /\ LoopEnd(t) \in Nat
      BY LoopTypes DEF Course, Types
    <3>. QED  BY <3>1, <3>2, <3>3, FrameNumbers
  <2>2. Done(x) = Turns(x)
    <3>1. ASSUME NEW s \in Turns(x)  PROVE StoreAt(s[1], s[2]) < at[s[1]]
      <4>1. PICK t \in Thread : s[1] = t
        BY TurnsType
      <4>2. PICK j \in 1 .. Len(Work(t)) : s[2] = j
        BY <4>1, TurnsType
      <4>3. StoreAt(t, j) \in Nat /\ StoreAt(t, j) <= LoopEnd(t) /\ LoopEnd(t) \in Nat
        BY StoreAtFacts, LoopTypes
      <4>. QED  BY <2>1, <4>1, <4>2, <4>3
    <3>. QED  BY <3>1 DEF Done
  <2>. QED  BY <2>2, TurnsCount DEF Counted
<1>. QED  BY <1>1, CountedHolds, PTL
=============================================================================
