------------------------- MODULE MCTerraformServers -------------------------
(* Instances of TerraformServers for TLC. *)
EXTENDS TerraformServers, TLC

\* The plans are interchangeable, and so are the ids of server records.
Symmetry == Permutations(Plans) \cup Permutations(Ids)
=============================================================================
