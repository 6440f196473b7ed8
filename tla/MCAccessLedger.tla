--------------------------- MODULE MCAccessLedger ---------------------------
(* TLC instances of AccessLedger.  A unit is the length of the fallback; a *)
(* view of the package of two ads buys one, the cap is two.               *)
EXTENDS AccessLedger, TLC

Lengths == [double |-> 1]
Counts  == [double |-> 2]

Symmetry == Permutations(User) \cup Permutations(Token)
              \cup Permutations(Worker)
=============================================================================
