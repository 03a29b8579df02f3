---------------------------- MODULE MCSnooping ----------------------------
EXTENDS Snooping, TLC

\* Every address in one set: the worst case for evictions.
OneSet == [a \in Addr |-> 0]

\* pending_addr happens to be zero.
Zeroed == {NoAddr}

\* pending_addr is whatever the memory held before.
AnyPending == Addr \cup {NoAddr}

Symmetry == Permutations(Core) \cup Permutations(Addr)
=============================================================================
