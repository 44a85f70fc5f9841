--------------------------- MODULE MCPunchService ---------------------------
(* Instances of PunchService for TLC. *)
EXTENDS PunchProperties, TLC

Symmetry == Permutations(Requests) \cup Permutations(Jobs)
=============================================================================
