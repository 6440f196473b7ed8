----------------------------- MODULE EgressProofs -----------------------------
(* What holds of the head's way out for every set of inbounds and every limit *)
(* on the probes: the container runs no proxy without a link, counts failures *)
(* of a running proxy only and never past the limit, and an operator's own    *)
(* link is never replaced by anything the head says.                          *)
EXTENDS Egress, TLAPS

\* A link whose node is pushed to, or deleted, is still a link.
LEMMA UnservedTypes ==
    ASSUME TypeOK
    PROVE  /\ Unserved \in IF pinned THEN {"pinned"} ELSE Link \cup {None}
           /\ Unserved = None => link = None
<1>1. CASE pinned \/ link = None
  BY <1>1 DEF TypeOK, Unserved
<1>2. CASE ~(pinned \/ link = None)
  <2>1. link \in Link
    BY <1>2 DEF TypeOK
  <2>2. Unserved \in Link
    BY <1>2, <2>1 DEF Unserved, Link
  <2>3. QED
    BY <1>2, <2>2, EgressNoneAssumption
<1>3. QED
  BY <1>1, <1>2

LEMMA FreshTypes == ASSUME NEW i \in Inbound PROVE Fresh(i) \in Link
  BY DEF Fresh, Link

LEMMA TypeInit == Init => TypeOK
  BY EgressAssumption, EgressNoneAssumption DEF Init, Given, TypeOK

LEMMA TypeStep == TypeOK /\ [Next]_vars => TypeOK'
<1> SUFFICES ASSUME TypeOK, [Next]_vars PROVE TypeOK'
  OBVIOUS
<1> USE EgressAssumption, EgressNoneAssumption
<1>f. Fault => faults' \in 0..MaxFaults
  BY DEF Fault, TypeOK
<1>g. Given \in (IF pinned THEN {"pinned"} ELSE Link \cup {None})
  BY DEF Given
<1>p. ProbeFailures \in Nat /\ 0 \in 0..ProbeFailures
  OBVIOUS
<1>1. CASE Fetch
  <2>1. ~pinned /\ row' \in Inbound /\ link' \in Link
    BY <1>1, FreshTypes DEF Fetch, Assigned, TypeOK
  <2>2. QED
    BY <1>1, <2>1 DEF Fetch, TypeOK
<1>2. CASE FetchIsLost
  BY <1>2, <1>f DEF FetchIsLost, Assigned, TypeOK
<1>3. CASE StartProxy
  BY <1>3, <1>p DEF StartProxy, TypeOK
<1>4. CASE Notice
  BY <1>4, <1>p DEF Notice, TypeOK
<1>5. CASE Probe
  BY <1>5, <1>p DEF Probe, TypeOK
<1>6. CASE RestartPinned
  BY <1>6, <1>p DEF RestartPinned, Restarted, TypeOK
<1>7. CASE Report
  <2>1. row' \in Inbound \cup {None} /\ link' \in Link \cup {None}
    BY <1>7, FreshTypes DEF Report, Replaced, Unreplaced, TypeOK
  <2>2. QED
    BY <1>7, <1>p, <2>1 DEF Report, Restarted, TypeOK
<1>8. CASE ReportIsLost
  BY <1>8, <1>f, <1>p DEF ReportIsLost, Replaced, Unreplaced, Restarted, TypeOK
<1>9. CASE Misses
  <2>1. proxy = "up"
    BY <1>9 DEF Misses, Carries
  <2>2. failures' \in 0..ProbeFailures
    BY <1>9, <1>p DEF Misses, TypeOK
  <2>3. QED
    BY <1>9, <1>f, <2>1, <2>2 DEF Misses, TypeOK
<1>10. CASE ProxyFails
  BY <1>10, <1>f DEF ProxyFails, TypeOK
<1>11. CASE ContainerRestarts
  BY <1>11, <1>f, <1>g, <1>p DEF ContainerRestarts, Restarted, TypeOK
<1>12. CASE Moved
  BY <1>12, <1>f, UnservedTypes DEF Moved, TypeOK
<1>13. CASE PushedAgain
  BY <1>13, UnservedTypes DEF PushedAgain, TypeOK
<1>14. CASE Blocks
  BY <1>14, <1>f DEF Blocks, TypeOK
<1>15. CASE UNCHANGED vars
  BY <1>15 DEF vars, TypeOK
<1>16. QED
  BY <1>1, <1>2, <1>3, <1>4, <1>5, <1>6, <1>7, <1>8, <1>9, <1>10, <1>11, <1>12,
     <1>13, <1>14, <1>15 DEF Next, EgressStep

\* No proxy without a link, no failure counted past the limit or of a proxy
\* that does not run, and a pinned link stays the pinned one.
THEOREM TypeCorrect == Spec => []TypeOK
  BY TypeInit, TypeStep, PTL DEF Spec
=============================================================================
