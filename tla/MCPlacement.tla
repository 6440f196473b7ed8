---------------------------- MODULE MCPlacement ----------------------------
(* TLC instances of Placement.                                             *)
EXTENDS Placement, TLC

\* Accounts and uuids are interchangeable; so are nodes and workers.
Symmetry ==
    Permutations(User) \cup Permutations(Uuid)
      \cup Permutations(Node) \cup Permutations(Worker)
=============================================================================
