------------------------------- MODULE MOSI -------------------------------
(***************************************************************************)
(* The tables of the MOSI protocol: a Modified line that is read by        *)
(* another cache becomes Owner and goes on answering for the line.         *)
(***************************************************************************)
EXTENDS CacheStates

Hit(st, op) == st = "Modified" \/ (st \in {"Shared", "Owner"} /\ op = "R")
HitStatus(st, op) == st

MayIssue(st, op) == st = "Invalid" \/ (st \in {"Shared", "Owner"} /\ op = "W")
IssuedOp(st, op) ==
  CASE st # "Invalid"              -> "BusUpg"
    [] st = "Invalid" /\ op = "R"  -> "BusRd"
    [] st = "Invalid" /\ op = "W"  -> "BusRdX"
FillStatus(op, alone) == IF op = "R" THEN "Shared" ELSE "Modified"

\* The Owner case of the switch has no break and runs on into the Shared one.
SnoopAsserts(st, bop) ==
  \/ st \in {"Owner", "Shared", "Invalid"}
  \/ st = "Modified" /\ bop \in {"BusRd", "BusRdX"}
SnoopStatus(st, bop) ==
  CASE st = "Modified" -> IF bop = "BusRd" THEN "Owner" ELSE "Invalid"
    [] st \in {"Owner", "Shared"} /\ bop \in {"BusRdX", "BusUpg"} -> "Invalid"
    [] OTHER -> st
Supplies(st, bop, fetching) ==
  \/ st = "Modified"
  \/ st = "Owner" /\ bop \in {"BusRd", "BusRdX"}
  \/ st \in {"Owner", "Shared"} /\ ~fetching
TellsShared(st, bop) == FALSE
=============================================================================
