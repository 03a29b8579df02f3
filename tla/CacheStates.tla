---------------------------- MODULE CacheStates ----------------------------
(***************************************************************************)
(* The vocabulary the coherence protocols share: the states of a cache     *)
(* line, the operations of the bus and the two accesses of a trace.        *)
(***************************************************************************)

\* enum cache_state.  No protocol uses all seven.
CacheState ==
  {"Modified", "Shared", "Invalid", "Exclusive", "Owner", "ShModified", "ShClean"}

\* enum operations.
BusOp == {"BusRd", "BusRdX", "BusUpg", "BusUpdt"}

\* The two operations a trace line may name.
Access == {"R", "W"}

\* The states of a line that main memory does not agree with.
Dirty == {"Modified", "Owner", "ShModified"}

\* The states that promise no other cache holds the line.
Sole == {"Modified", "Exclusive"}
=============================================================================
