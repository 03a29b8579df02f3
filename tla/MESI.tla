------------------------------- MODULE MESI -------------------------------
(***************************************************************************)
(* The tables of the MESI protocol: MSI with an Exclusive state, entered   *)
(* by a read that no other cache answered with a copy, and left without    *)
(* the bus by a write of its own processor.                                *)
(***************************************************************************)
EXTENDS CacheStates

\* The accesses served without the bus, and the state they leave: a write
\* turns an Exclusive line Modified silently.
Hit(st, op) == st \in Sole \/ (st = "Shared" /\ op = "R")
HitStatus(st, op) == IF st = "Exclusive" /\ op = "W" THEN "Modified" ELSE st

MayIssue(st, op) == st = "Invalid" \/ (st = "Shared" /\ op = "W")
IssuedOp(st, op) == IF st = "Invalid" /\ op = "R" THEN "BusRd" ELSE "BusRdX"
FillStatus(op, alone) ==
  CASE op = "W"            -> "Modified"
    [] op = "R" /\ alone   -> "Exclusive"
    [] op = "R" /\ ~alone  -> "Shared"

SnoopAsserts(st, bop) == st \in {"Modified", "Shared", "Invalid", "Exclusive"}
SnoopStatus(st, bop) ==
  CASE st \in Sole                      -> IF bop = "BusRd" THEN "Shared" ELSE "Invalid"
    [] st = "Shared" /\ bop = "BusRdX"  -> "Invalid"
    [] OTHER                            -> st
Supplies(st, bop, fetching) ==
  st = "Modified" \/ (st \in {"Shared", "Exclusive"} /\ ~fetching)
TellsShared(st, bop) ==
  st \in {"Shared", "Exclusive"} \/ (st = "Modified" /\ bop = "BusRd")
=============================================================================
