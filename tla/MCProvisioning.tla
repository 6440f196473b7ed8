--------------------------- MODULE MCProvisioning ---------------------------
(* The TLC instance of Provisioning: the rows of a server are alike. *)
EXTENDS Provisioning, TLC

Symmetry == Permutations(RowId)
=============================================================================
