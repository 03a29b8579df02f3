--------------------------- MODULE MemoryService ---------------------------
(***************************************************************************)
(* What Memory::request promises its callers, without threads, locks or    *)
(* condition variables: the addresses asked for form a queue without       *)
(* repetitions, the head of the queue is served for everyone who asked for *)
(* it by then, and a call returns only after its address has been served.  *)
(***************************************************************************)
EXTENDS Naturals, Sequences, SequencesExt

CONSTANTS Core, Addr, NoAddr

VARIABLES
  wanted,   \* the address each core has asked for, or NoAddr
  served,   \* the cores whose address has come
  queue     \* the addresses still to be served

vars == <<wanted, served, queue>>

Init ==
  /\ wanted = [c \in Core |-> NoAddr]
  /\ served = {}
  /\ queue = <<>>

Ask(c, a) ==
  /\ wanted[c] = NoAddr
  /\ wanted' = [wanted EXCEPT ![c] = a]
  /\ queue' = IF a \in ToSet(queue) THEN queue ELSE Append(queue, a)
  /\ UNCHANGED served

Serve ==
  /\ queue # <<>>
  /\ served' = served \cup {c \in Core : wanted[c] = Head(queue)}
  /\ queue' = Tail(queue)
  /\ UNCHANGED wanted

Return(c) ==
  /\ c \in served
  /\ served' = served \ {c}
  /\ wanted' = [wanted EXCEPT ![c] = NoAddr]
  /\ UNCHANGED queue

Next ==
  \/ \E c \in Core : Return(c) \/ \E a \in Addr : Ask(c, a)
  \/ Serve

Spec == Init /\ [][Next]_vars
=============================================================================
