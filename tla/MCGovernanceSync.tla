------------------------- MODULE MCGovernanceSync -------------------------
(* Small instances of GovernanceSync for TLC. *)
EXTENDS GovernanceSync

MCParams == {[k |-> 1, t |-> 0]}
=============================================================================
