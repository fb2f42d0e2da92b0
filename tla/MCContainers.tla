----------------------------- MODULE MCContainers -----------------------------
(* The lock-free stack and the ring buffer share nothing.  One run explores  *)
(* both, one after the other: subject says which, and the variables of the   *)
(* other keep one initial value.                                             *)
EXTENDS LockFreeStack, RingBuffer, TLC

VARIABLE subject

Symmetry == Permutations(Threads)

MCInit ==
  /\ Init /\ RingInit
  /\ subject \in {"stack", "ring"}
  /\ subject # "ring" => use = "send"

MCNext ==
  /\ UNCHANGED subject
  /\ \/ subject = "stack" /\ Next /\ UNCHANGED ringVars
     \/ subject = "ring" /\ RingNext /\ UNCHANGED vars

MCSpec == MCInit /\ [][MCNext]_<<subject, vars, ringVars>>
=============================================================================
