------------------------------ MODULE MCUpdate ------------------------------
EXTENDS Update, TLC

\* Every address in one set: the worst case for evictions.
OneSet == [a \in Addr |-> 0]

\* pending_addr is whatever the memory held before; or it happens to be zero.
AnyPending == Addr \cup {NoAddr}
Zeroed == {NoAddr}

Symmetry == Permutations(Core) \cup Permutations(Addr)
=============================================================================
