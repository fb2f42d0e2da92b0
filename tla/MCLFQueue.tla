----------------------------- MODULE MCLFQueue -----------------------------
(* Instances of LFQueue for TLC. *)
EXTENDS LFQueue, TLC

Symmetry == Permutations(Producers) \union Permutations(Consumers)
=============================================================================
