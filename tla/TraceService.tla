---------------------------- MODULE TraceService ----------------------------
(***************************************************************************)
(* What replaying a trace means, without mailbox, threads or wakeups: the  *)
(* lines are taken in the order of the file, each by the core it names     *)
(* when that core has finished with its previous one, cores work at the    *)
(* same time, and the program ends when every line has been worked off.    *)
(***************************************************************************)
EXTENDS Naturals, Sequences

CONSTANTS Core, NoAccess

VARIABLES
  trace,    \* the lines: id, and the access to perform
  taken,    \* how many of them cores have taken
  current,  \* what each core is working on
  ended

vars == <<trace, taken, current, ended>>

Init ==
  /\ taken = 0
  /\ current = [c \in Core |-> NoAccess]
  /\ ended = FALSE

Begin(c) ==
  /\ taken < Len(trace) /\ trace[taken + 1].id = c
  /\ current[c] = NoAccess
  /\ taken' = taken + 1
  /\ current' = [current EXCEPT ![c] = trace[taken + 1].access]
  /\ UNCHANGED <<trace, ended>>

Finish(c) ==
  /\ current[c] # NoAccess
  /\ current' = [current EXCEPT ![c] = NoAccess]
  /\ UNCHANGED <<trace, taken, ended>>

End ==
  /\ taken = Len(trace) /\ \A c \in Core : current[c] = NoAccess
  /\ ended' = TRUE
  /\ UNCHANGED <<trace, taken, current>>

Next == (\E c \in Core : Begin(c) \/ Finish(c)) \/ End

Spec == Init /\ [][Next]_vars
=============================================================================
