------------------------------- MODULE Egress -------------------------------
(* The head's own way out: the container that carries its Telegram traffic    *)
(* through one of its nodes (src/provisioning/egress.py), the two endpoints   *)
(* it asks for a link (api/routers/egress.py) and the account behind them     *)
(* (services/egress.py), which lives among the customers and is moved,        *)
(* stranded and blocked like one.  Nobody tells the container: it has no      *)
(* chat, so a push of its account is dropped, and it learns by probing.       *)
(*                                                                            *)
(* How the head chooses an inbound and whom else a report moves is            *)
(* Blocking's.  The links it hands out are ones the container can read.       *)
EXTENDS Naturals

CONSTANTS
    Inbound,
    ProbeFailures,  \* failed probes in a row before a link is given up
    MaxFaults,      \* bound on everything that goes wrong from outside
    None

ASSUME EgressAssumption ==
    /\ None \notin Inbound /\ "pinned" \notin Inbound
    /\ ProbeFailures \in Nat \ {0}
    /\ MaxFaults \in Nat

VARIABLES
    pinned,     \* EGRESS_VLESS_URL is set: one link, never switched
    row,        \* the inbound of the account's live assignment, or None
    blocked,    \* the inbound the censor keeps the container from, or None
    link,       \* current: what the container was given last
    proxy,      \* its xray process
    failures,   \* probes failed in a row
    faults

vars == <<pinned, row, blocked, link, proxy, failures, faults>>

\* served: the node of the link still has its id.
Link == [at : Inbound, served : BOOLEAN]

ASSUME EgressNoneAssumption == None \notin Link /\ None # "pinned"

TypeOK ==
    /\ pinned \in BOOLEAN
    /\ row \in Inbound \cup {None}
    /\ blocked \in Inbound \cup {None}
    /\ link \in IF pinned THEN {"pinned"} ELSE Link \cup {None}
    /\ proxy \in {"down", "up", "hung", "exited"}
    /\ link = None => proxy = "down"
    /\ failures \in 0..ProbeFailures
    /\ failures > 0 => proxy # "down"
    /\ faults \in 0..MaxFaults

\* What the container knows when it starts.
Given == IF pinned THEN "pinned" ELSE None

Init ==
    /\ pinned \in BOOLEAN
    /\ row = None
    /\ blocked = None
    /\ link = Given
    /\ proxy = "down"
    /\ failures = 0
    /\ faults = 0

Fault == faults < MaxFaults /\ faults' = faults + 1

Fresh(i) == [at |-> i, served |-> TRUE]

-----------------------------------------------------------------------------
(* What becomes of the account and of the way to it.                          *)

Unserved == IF pinned \/ link = None THEN link ELSE [link EXCEPT !.served = FALSE]

\* A report of customers moves the account with them; a deleted node, or a dead
\* inbound with nowhere to go, leaves it without a row.  The node that is left
\* serves the old id on until something pushes it.
Moved ==
    /\ row # None
    /\ row' \in (Inbound \cup {None}) \ {row}
    /\ \/ link' = Unserved
       \/ link' = link /\ (link # Given => link.at # row')
    /\ Fault
    /\ UNCHANGED <<pinned, blocked, proxy, failures>>

PushedAgain ==
    /\ link # Given /\ link' = Unserved
    /\ link.at # row
    /\ UNCHANGED <<pinned, row, blocked, proxy, failures, faults>>

\* The censor turns to another inbound, or to none.
Blocks ==
    /\ blocked' \in (Inbound \cup {None}) \ {blocked}
    /\ Fault
    /\ UNCHANGED <<pinned, row, link, proxy, failures>>

-----------------------------------------------------------------------------
(* The head's two answers, each one transaction.                              *)

\* connect: the live assignment as it is, or a new one.
Assigned == IF row = None THEN Inbound ELSE {row}
\* report-failure: another inbound than the one it is counted against.
Replaced == Inbound \ {row}

-----------------------------------------------------------------------------
(* The container.                                                             *)

Fetch ==
    /\ link = None
    /\ row' \in Assigned
    /\ link' = Fresh(row')
    /\ UNCHANGED <<pinned, blocked, proxy, failures, faults>>

\* The head committed and the answer was lost; a head that does not answer, or
\* has no node, changes nothing and the container sleeps and asks again.
FetchIsLost ==
    /\ link = None
    /\ row' \in Assigned
    /\ Fault
    /\ UNCHANGED <<pinned, blocked, link, proxy, failures>>

StartProxy ==
    /\ link # None /\ proxy = "down"
    /\ proxy' = "up"
    /\ failures' = 0
    /\ UNCHANGED <<pinned, row, blocked, link, faults>>

\* Seen before the next probe: the same link, a new process.
Notice ==
    /\ proxy = "exited" /\ failures < ProbeFailures
    /\ proxy' = "down"
    /\ failures' = 0
    /\ UNCHANGED <<pinned, row, blocked, link, faults>>

\* An operator's own server is taken to be there.
Carries ==
    /\ proxy = "up"
    /\ IF pinned THEN TRUE ELSE link.served /\ link.at # blocked

Probe ==
    /\ proxy \in {"up", "hung"} /\ failures < ProbeFailures
    /\ failures' = IF Carries THEN 0 ELSE failures + 1
    /\ UNCHANGED <<pinned, row, blocked, link, proxy, faults>>

\* The same process serves the next link; it was stopped by then.
RestartedCounting == proxy' = "down" /\ UNCHANGED failures
Restarted == proxy' = "down" /\ failures' = 0

RestartPinned ==
    /\ pinned /\ failures = ProbeFailures
    /\ Restarted
    /\ UNCHANGED <<pinned, row, blocked, link, faults>>

\* What is used next when a report brought no link: a fresh one is asked for.
UnreplacedKept == IF row' = row THEN link ELSE Unserved
Unreplaced == None

Report ==
    /\ ~pinned /\ failures = ProbeFailures
    /\ IF row = None
       THEN UNCHANGED row /\ link' = Unreplaced
       ELSE row' \in Replaced /\ link' = Fresh(row')
    /\ Restarted
    /\ UNCHANGED <<pinned, blocked, faults>>

\* No answer, a refusal that is rolled back, or an answer lost after the commit.
ReportIsLost ==
    /\ ~pinned /\ failures = ProbeFailures
    /\ row' \in Replaced \cup {row}
    /\ link' = Unreplaced
    /\ Restarted
    /\ Fault
    /\ UNCHANGED <<pinned, blocked>>

EgressStep ==
    Fetch \/ StartProxy \/ Notice \/ Probe \/ RestartPinned \/ Report

-----------------------------------------------------------------------------
(* What happens to it.                                                        *)

\* A probe that fails by accident, an xray that hangs or dies, a container
\* that is started again.
Misses ==
    /\ Carries /\ failures < ProbeFailures
    /\ failures' = failures + 1
    /\ Fault
    /\ UNCHANGED <<pinned, row, blocked, link, proxy>>

ProxyFails ==
    /\ \/ proxy = "up" /\ proxy' = "hung"
       \/ proxy \in {"up", "hung"} /\ proxy' = "exited"
    /\ Fault
    /\ UNCHANGED <<pinned, row, blocked, link, failures>>

ContainerRestarts ==
    /\ link' = Given
    /\ Restarted
    /\ Fault
    /\ UNCHANGED <<pinned, row, blocked>>

Next ==
    \/ EgressStep
    \/ FetchIsLost \/ ReportIsLost
    \/ Misses \/ ProxyFails \/ ContainerRestarts
    \/ Moved \/ PushedAgain \/ Blocks

\* One loop with sleeps in it, in a container that is always restarted.
Spec == Init /\ [][Next]_vars /\ WF_vars(EgressStep)

-----------------------------------------------------------------------------
(* What it promises.                                                          *)

\* The way out heals by itself: with one inbound blocked at a time, and once
\* nothing new goes wrong, traffic flows again and again, whatever link was
\* left behind by moves, deleted nodes, lost answers and reports, and without
\* anybody telling the container.  A pinned server heals from a hung xray.
WayOutHeals == []<>Carries
=============================================================================
