------------------------------ MODULE MCStaff ------------------------------
(* Instances of Staff for TLC. *)
EXTENDS Staff, TLC

MCRoles == {{"owner"}, {}}
Symmetry == Permutations(Requests) \cup Permutations(Approvals)
=============================================================================
