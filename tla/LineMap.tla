------------------------------ MODULE LineMap ------------------------------
(***************************************************************************)
(* What the protocols take a cache to be (module Snooping does so): a      *)
(* state for every address, at most ways of those in one set other than    *)
(* Invalid, where a line brought into a full set puts out another of it.   *)
(***************************************************************************)
EXTENDS Naturals, FiniteSets

CONSTANTS Addr, Status

VARIABLES
  ways, setOf,  \* the shape of the cache, fixed when the program starts
  status

vars == <<ways, setOf, status>>

Occupied(a) == {b \in Addr : setOf[b] = setOf[a] /\ status[b] # "Invalid"}

Init == status = [a \in Addr |-> "Invalid"]

SetStatus(a, st) == status[a] # "Invalid" /\ status' = [status EXCEPT ![a] = st]

Insert(a, st) ==
  /\ status[a] = "Invalid" /\ st # "Invalid"
  /\ \/ /\ Cardinality(Occupied(a)) < ways
        /\ status' = [status EXCEPT ![a] = st]
     \/ /\ Cardinality(Occupied(a)) = ways
        /\ \E v \in Occupied(a) : status' = [status EXCEPT ![v] = "Invalid", ![a] = st]

Next ==
  /\ \E a \in Addr, st \in Status : SetStatus(a, st) \/ Insert(a, st)
  /\ UNCHANGED <<ways, setOf>>

Spec == Init /\ [][Next]_vars
=============================================================================
