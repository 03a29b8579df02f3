------------------------------- MODULE MSI -------------------------------
(***************************************************************************)
(* The tables of the MSI protocol: what one line does on an access of its  *)
(* own processor and on a bus operation of another cache.  "fetching" says *)
(* that the snooped line is the one its cache is still waiting for, that   *)
(* is pending_addr = Bus::addr.                                            *)
(***************************************************************************)
EXTENDS CacheStates

\* The accesses served without the bus, and the state they leave.
Hit(st, op) == st = "Modified" \/ (st = "Shared" /\ op = "R")
HitStatus(st, op) == st

\* The states in which the bus half of handle_request may find the line (in
\* any other an assert fails), the operation it issues, and the state of a
\* line brought in.
MayIssue(st, op) == st = "Invalid" \/ (st = "Shared" /\ op = "W")
IssuedOp(st, op) == IF st = "Invalid" /\ op = "R" THEN "BusRd" ELSE "BusRdX"
FillStatus(op, alone) == IF op = "R" THEN "Shared" ELSE "Modified"

\* One snoop: the asserts that must hold, the state it leaves, whether the
\* cache names itself in Bus::owner_id and whether it clears Bus::read_ex.
SnoopAsserts(st, bop) ==
  \/ st \in {"Shared", "Invalid"}
  \/ st = "Modified" /\ bop \in {"BusRd", "BusRdX"}
SnoopStatus(st, bop) ==
  CASE st = "Modified"                  -> IF bop = "BusRd" THEN "Shared" ELSE "Invalid"
    [] st = "Shared" /\ bop = "BusRdX"  -> "Invalid"
    [] OTHER                            -> st
Supplies(st, bop, fetching) == st = "Modified" \/ (st = "Shared" /\ ~fetching)
TellsShared(st, bop) == FALSE
=============================================================================
