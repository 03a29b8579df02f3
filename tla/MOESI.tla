------------------------------- MODULE MOESI -------------------------------
(***************************************************************************)
(* The tables of the MOESI protocol: MOSI with the Exclusive state.        *)
(***************************************************************************)
EXTENDS CacheStates

Hit(st, op) == st \in Sole \/ (st \in {"Shared", "Owner"} /\ op = "R")
HitStatus(st, op) == IF st = "Exclusive" /\ op = "W" THEN "Modified" ELSE st

MayIssue(st, op) == st = "Invalid" \/ (st \in {"Shared", "Owner"} /\ op = "W")
IssuedOp(st, op) ==
  CASE st # "Invalid"              -> "BusUpg"
    [] st = "Invalid" /\ op = "R"  -> "BusRd"
    [] st = "Invalid" /\ op = "W"  -> "BusRdX"
FillStatus(op, alone) ==
  CASE op = "W"            -> "Modified"
    [] op = "R" /\ alone   -> "Exclusive"
    [] op = "R" /\ ~alone  -> "Shared"

SnoopAsserts(st, bop) ==
  \/ st \in {"Owner", "Shared", "Invalid"}
  \/ st \in Sole /\ bop \in {"BusRd", "BusRdX"}
SnoopStatus(st, bop) ==
  CASE st = "Modified"  -> IF bop = "BusRd" THEN "Owner" ELSE "Invalid"
    [] st = "Exclusive" -> IF bop = "BusRd" THEN "Shared" ELSE "Invalid"
    [] st \in {"Owner", "Shared"} /\ bop \in {"BusRdX", "BusUpg"} -> "Invalid"
    [] OTHER -> st
Supplies(st, bop, fetching) ==
  \/ st = "Modified"
  \/ st = "Owner" /\ bop # "BusUpg"
  \/ st \in {"Shared", "Exclusive"} /\ ~fetching
TellsShared(st, bop) ==
  \/ st \in {"Shared", "Exclusive", "Owner"}
  \/ st = "Modified" /\ bop = "BusRd"
=============================================================================
