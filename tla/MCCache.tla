------------------------------ MODULE MCCache ------------------------------
EXTENDS Cache

Option(s, a) == [size |-> s, associativity |-> a]

\* 64 sets of 1 way, 32 of 2, and 64 of 3; 21 sets of 3 ways are refused by
\* an assert.
Shapes == {Option(1, 1), Option(1, 2), Option(3, 3), Option(1, 3)}

\* Blocks 5, 69 and 133 are of one set in all the shapes, and 37 is of that
\* set where there are 32; the tag of 5 is that of a way never used.
Blocks == {64 * n : n \in {5, 37, 69, 133}}
=============================================================================
