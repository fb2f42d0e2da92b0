---------------------------- MODULE MCTCPFighter ----------------------------
(* Instances of TCPFighter for TLC. *)
EXTENDS TCPFighter

=============================================================================
