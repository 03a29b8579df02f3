----------------------------- MODULE MCDispatch -----------------------------
EXTENDS Dispatch

CONSTANTS
  Ids,       \* the thread ids that the files name; one is not a core
  MaxLines

\* The lines of a file differ, so that the order in which a core sees them
\* shows; two of the addresses are of one block.  Address 40 is of the first
\* block.
LineAt(i, id, null) ==
  [id |-> id, op |-> IF i % 2 = 1 THEN "R" ELSE "W",
   addr |-> IF null THEN 40 ELSE <<100, 127, 200, 300>>[i]]

Files ==
  UNION {{[i \in 1 .. n |-> LineAt(i, f[i][1], f[i][2])] : f \in [1 .. n -> Ids \X BOOLEAN]}
           : n \in 0 .. MaxLines}
=============================================================================
