---------------------------- MODULE OperatorConsent ----------------------------
(***************************************************************************)
(* What the update machinery promises the operator (the module comments of  *)
(* services/xray_updates.py and db/models/update.py): a node's Xray may be  *)
(* restarted only on a proposal a human said yes to; an answer is given     *)
(* once and is final; and what ended does not restart anything any more.    *)
(***************************************************************************)
EXTENDS Naturals

CONSTANT Proposal

VARIABLES
    stage,      \* where each proposal stands
    restarts    \* how often its node was restarted for it while it stood approved

vars == <<stage, restarts>>

Stage == {"none", "open", "yes", "no", "done"}

Init ==
    /\ stage = [p \in Proposal |-> "none"]
    /\ restarts = [p \in Proposal |-> 0]

\* The proposals in S move on together.
Moved(S, to) == stage' = [p \in Proposal |-> IF p \in S THEN to ELSE stage[p]]

Raise(S) ==
    /\ \A p \in S : stage[p] = "none"
    /\ Moved(S, "open")
    /\ UNCHANGED restarts

Answer(S, verdict) ==
    /\ \A p \in S : stage[p] = "open"
    /\ Moved(S, verdict)
    /\ UNCHANGED restarts

Restart(p) ==
    /\ stage[p] = "yes"
    /\ restarts' = [restarts EXCEPT ![p] = @ + 1]
    /\ UNCHANGED stage

End(p) ==
    /\ stage[p] = "yes"
    /\ Moved({p}, "done")
    /\ restarts' = [restarts EXCEPT ![p] = 0]

\* Proposals of a node that is gone, or of no interest to anyone any more.
Drop(S) ==
    /\ Moved(S, "none")
    /\ restarts' = [p \in Proposal |-> IF p \in S THEN 0 ELSE restarts[p]]

Next ==
    \/ \E S \in SUBSET Proposal :
         \/ Raise(S) \/ Drop(S)
         \/ \E verdict \in {"yes", "no"} : Answer(S, verdict)
    \/ \E p \in Proposal : Restart(p) \/ End(p)

Spec == Init /\ [][Next]_vars
=============================================================================
