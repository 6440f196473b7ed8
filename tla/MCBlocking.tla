----------------------------- MODULE MCBlocking -----------------------------
(* TLC instance of Blocking.                                               *)
EXTENDS Blocking, TLC

CONSTANTS n2, p2

\* The second node keeps the fallback port for itself and has one seat.
OnePanel == [n \in Node |-> IF n = n2 THEN {p2} ELSE {}]
\* The control inbound a node starts with is on a port of the other class; a
\* pass over the second node may put one on a port of this class.
NoControl == [n \in Node |-> {}]
OnePass   == [n \in Node |-> IF n = n2 THEN 1 ELSE 0]
Seats    == [n \in Node |-> IF n = n2 THEN 1 ELSE 3]
Symmetry == Permutations(User) \cup Permutations(Inbound)
=============================================================================
