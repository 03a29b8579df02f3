----------------------------- MODULE BusService -----------------------------
(***************************************************************************)
(* What the bus promises the caches, without locks or condition variables: *)
(* one transaction at a time, in which every core but the requester        *)
(* answers once, and which ends when all of them have.                     *)
(***************************************************************************)
CONSTANTS Core, NoCore

VARIABLES
  requester,  \* the core whose transaction it is, or NoCore
  answered    \* the cores that have answered

vars == <<requester, answered>>

Init == requester = NoCore /\ answered = {}

Begin(c) ==
  /\ requester = NoCore
  /\ requester' = c /\ answered' = {}

Answer(c) ==
  /\ requester # NoCore
  /\ c \notin answered \cup {requester}
  /\ answered' = answered \cup {c}
  /\ UNCHANGED requester

End ==
  /\ requester # NoCore
  /\ answered = Core \ {requester}
  /\ requester' = NoCore /\ answered' = {}

Next == (\E c \in Core : Begin(c) \/ Answer(c)) \/ End

Spec == Init /\ [][Next]_vars
=============================================================================
