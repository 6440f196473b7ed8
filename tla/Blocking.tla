------------------------------- MODULE Blocking -------------------------------
(***************************************************************************)
(* The "does not work" button (services/fail_handler.py) together with the  *)
(* choice of inbounds and ports (inbound_factory.py, live_inbound).  Users  *)
(* are the only detector of a blockage: a report moves its author, enough   *)
(* reports on one inbound inside a window declare it dead and move everyone *)
(* on it, and several dead inbounds of one node make the node burned.       *)
(*                                                                         *)
(* All of one report is one transaction that pushes to nodes while it runs: *)
(* the reporter is placed first, and an error there ends the request with   *)
(* nothing written; the others follow one by one, and an error there is     *)
(* logged and passed over.  Requests come one at a time here; how two of    *)
(* them interleave is Placement's subject.                                  *)
(*                                                                         *)
(* The session of a request keeps what it has loaded.  A push renders the    *)
(* collection of assignments as it was first read, for as long as something *)
(* refers to the inbound; held and unseen keep track of that.               *)
(*                                                                         *)
(* A node also has control inbounds, which every config carries and which no *)
(* report touches: one by a pass of provisioning that got through, another   *)
(* by each repeated pass.  A pass reads which ports the server listens on    *)
(* and looks neither at the customers' inbounds nor at the control inbound   *)
(* it made before; Reprovision is what a pass does to the ports.             *)
(*                                                                         *)
(* Abstracted: one service class (the classes share neither inbounds nor    *)
(* ports, tiers.py); everybody has paid time; a window lapses at any moment *)
(* between requests, and so does the cooldown after a report, which then    *)
(* forbids nothing; the SNI of an inbound (SniPool); which of several equal *)
(* inbounds, ports or users comes first is left open.                       *)
(* A dead inbound that is empty and long dead is a row nothing reads, and   *)
(* its id stands for a new row afterwards.                                  *)
(***************************************************************************)
EXTENDS Naturals, FiniteSets

CONSTANTS
    User,
    Node,
    Inbound,            \* ids for the rows of `inbounds` that matter at once
    Preferred,          \* tiers.ports_for
    Fallback,           \* tiers.fallback_range_for
    Foreign,            \* ports that something else on the node holds for good
    Control,            \* ports of the control inbounds a node starts with
    MaxPasses,          \* bound on the passes of provisioning over each node
    Capacity,           \* Node.capacity
    FailThreshold,      \* inbound_fail_threshold
    BurnThreshold,      \* node_dead_inbound_threshold
    None

Port == Preferred \cup Fallback

ASSUME PortAssumption ==
    /\ Foreign \in [Node -> SUBSET Port] /\ Control \in [Node -> SUBSET Port]
    /\ Preferred \cap Fallback = {}
ASSUME ThresholdAssumption ==
    /\ FailThreshold \in Nat \ {0, 1} /\ BurnThreshold \in Nat \ {0}
    /\ Capacity \in [Node -> Nat] /\ MaxPasses \in [Node -> Nat]
ASSUME BlockingNoneAssumption == None \notin User \cup Node \cup Inbound

VARIABLES
    db,     \* the committed tables
    runs,   \* the config each node last took from the request being served
    tx,     \* the request being served
    control,    \* ports of the control inbounds of each node
    occupied,   \* nodes.occupied_ports
    overrun,    \* ports that a pass took or found taken under a living inbound
    passes      \* passes over each node so far that changed something

site == <<control, occupied, overrun, passes>>
vars == <<db, runs, tx, site>>

\* A row of `inbounds`: fail_count of the window, whether that window is still
\* open, the users whose fail_reports fall into it, and whether died_at does.
Row == [node : Node, port : Port, state : {"active", "suspect", "dead"},
        count : 0..FailThreshold, open : BOOLEAN, by : SUBSET User,
        fresh : BOOLEAN]

\* The tables: inbounds, and the unreleased assignment of each user.
Tables == [row : [Inbound -> Row \cup {None}],
           seat : [User -> Inbound \cup {None}]]

ASSUME RowNoneAssumption == None \notin Row

\* An inbound of a config.  A control inbound has the head for a client and
\* None for an id, so two of them on one port show as one.
Listener == [inbound : Inbound \cup {None}, port : Port, clients : SUBSET User]

\* A request: who asked, who is being placed, where it may still try, who waits
\* for a move, who gets a ConfigPush, the tables as its transaction sees them;
\* and of the session, the inbounds whose loaded collection of assignments is
\* held on to, and the users that were seated there after it was loaded.
Tx == [pc : {"idle", "choose", "placed", "skipped"},
       kind : {"connect", "report"},
       by : User \cup {None}, who : User \cup {None},
       todo : SUBSET Node, not : SUBSET Inbound, notAt : SUBSET Node,
       waiting : SUBSET User, told : SUBSET User, broken : SUBSET User,
       held : SUBSET Inbound, unseen : SUBSET User,
       view : Tables]

Idle == [pc |-> "idle", kind |-> "connect", by |-> None, who |-> None,
         todo |-> {}, not |-> {}, notAt |-> {}, waiting |-> {}, told |-> {},
         broken |-> {}, held |-> {}, unseen |-> {}, view |-> db]

NoPushes == [n \in Node |-> {}]

\* The foreign key of an assignment.
SeatsExist(v) == \A u \in User : v.seat[u] # None => v.row[v.seat[u]] # None

TypeOK ==
    /\ db \in Tables
    /\ SeatsExist(db) /\ SeatsExist(tx.view)
    /\ runs \in [Node -> SUBSET Listener]
    /\ tx \in Tx
    /\ control \in [Node -> SUBSET Port] /\ occupied \in [Node -> SUBSET Port]
    /\ overrun \in [Node -> SUBSET Port] /\ passes \in [Node -> Nat]

Init ==
    /\ db = [row |-> [i \in Inbound |-> None], seat |-> [u \in User |-> None]]
    /\ runs = NoPushes
    /\ tx = Idle
    /\ control = Control /\ occupied = Foreign
    /\ overrun = [n \in Node |-> {}] /\ passes = [n \in Node |-> 0]

-----------------------------------------------------------------------------
(* Reading the tables v of a transaction.  A definition named after another *)
(* one with a suffix is that code with a plausible slip.                    *)

Rows(v)     == {i \in Inbound : v.row[i] # None}
RowsOf(v, n) == {i \in Rows(v) : v.row[i].node = n}
Sitting(v, i) == {u \in User : v.seat[u] = i}
Load(v, n)  == Cardinality({u \in User : v.seat[u] \in RowsOf(v, n)})

\* What render_node_config makes of a node: every control inbound, and every
\* other one that is not dead with the assignments of its collection.
Image(v, n, unseen) ==
    {[inbound |-> None, port |-> p, clients |-> {}] : p \in control[n]}
      \cup
    {[inbound |-> i, port |-> v.row[i].port, clients |-> Sitting(v, i) \ unseen] :
       i \in {j \in RowsOf(v, n) : v.row[j].state # "dead"}}

\* Ports that something listens on, and ports whose inbound died inside the
\* window.
CustomerPorts(v, n) ==
    {v.row[i].port : i \in {j \in RowsOf(v, n) : v.row[j].state # "dead"}}
LivePortsActive(v, n) ==
    occupied[n] \cup control[n]
      \cup {v.row[i].port : i \in {j \in RowsOf(v, n) : v.row[j].state = "active"}}
LivePortsCustomers(v, n) == occupied[n] \cup CustomerPorts(v, n)
LivePorts(v, n) == occupied[n] \cup control[n] \cup CustomerPorts(v, n)
BurnedPorts(v, n) ==
    {v.row[i].port : i \in {j \in RowsOf(v, n) : /\ v.row[j].state = "dead"
                                                 /\ v.row[j].fresh}}

\* pick_port; with no port left at all it raises.
PortChoices(v, n) ==
    LET live  == LivePorts(v, n)
        clean == Preferred \ (live \cup BurnedPorts(v, n))
    IN IF clean # {} THEN clean
       ELSE IF Fallback \ live # {} THEN Fallback \ live
       ELSE Preferred \ live

\* live_inbound: the usable inbounds of a node, those with the fewest reports.
UsableSuspect(v, n, not) ==
    {i \in RowsOf(v, n) \ not : v.row[i].state # "dead"}
Usable(v, n, not) == {i \in RowsOf(v, n) \ not : v.row[i].state = "active"}
Best(v, n, not) ==
    {i \in Usable(v, n, not) :
       \A j \in Usable(v, n, not) : v.row[i].count <= v.row[j].count}

Spent(v, i) ==
    v.row[i] # None => /\ v.row[i].state = "dead"
                       /\ ~v.row[i].fresh /\ ~v.row[i].open
                       /\ Sitting(v, i) = {}
Forgotten(v) ==
    [v EXCEPT !.row = [i \in Inbound |-> IF Spent(v, i) THEN None ELSE @[i]]]
Unused(v) == {i \in Inbound : v.row[i] = None}

NewRow(n, p) == [node |-> n, port |-> p, state |-> "active", count |-> 0,
                 open |-> FALSE, by |-> {}, fresh |-> FALSE]

\* _bump_fail_count: a report inside the window adds to it, a later one starts
\* the count again; the second report makes an active inbound suspect.
Suspected(r) ==
    [r EXCEPT !.state = IF r.count > 1 /\ r.state = "active" THEN "suspect"
                        ELSE @]
Bumped(r, u) ==
    Suspected(
      IF r.open
      THEN [r EXCEPT !.count = IF @ < FailThreshold THEN @ + 1 ELSE @,
                     !.by = @ \cup {u}]
      ELSE [r EXCEPT !.count = 1, !.open = TRUE, !.by = {u}])

Killed(r) == [r EXCEPT !.state = "dead", !.fresh = TRUE]

\* _recently_dead_inbound_count, against the threshold of a burned node.
Burned(v, n) ==
    Cardinality({i \in RowsOf(v, n) : v.row[i].state = "dead" /\ v.row[i].fresh})
      >= BurnThreshold

-----------------------------------------------------------------------------
(* Placing one user: assign_config.                                         *)

\* It starts with the nodes that have room and are not excluded.  One that
\* selection leaves out as isolated counts as one that refuses: either way it
\* is the next node's turn.
Placing(t, u, v) ==
    tx' = [t EXCEPT !.pc = "choose", !.who = u, !.view = v,
                    !.todo = {n \in Node \ t.notAt : Load(v, n) < Capacity[n]}]

\* The next node: the least loaded of those left.
Turn(n) ==
    /\ tx.pc = "choose" /\ n \in tx.todo
    /\ \A m \in tx.todo : Load(tx.view, n) <= Load(tx.view, m)

\* What the attempt to seat tx.who on n leaves in the tables before the push:
\* on a usable inbound when there is one, on a new one otherwise.
Attempts(v, n) ==
    IF Usable(v, n, tx.not) # {}
    THEN {[v EXCEPT !.seat[tx.who] = i] : i \in Best(v, n, tx.not)}
    ELSE UNION {{[row |-> [v.row EXCEPT ![i] = NewRow(n, p)],
                  seat |-> [v.seat EXCEPT ![tx.who] = i]] :
                   p \in PortChoices(v, n)} : i \in Unused(v)}

\* inbound.assignments is loaded by the first push that renders it and kept for
\* as long as the object lives; a row added later by its foreign key is not in
\* it.  The object lives on when the node of the reported inbound, which
\* report_failure holds, was called over its tunnel (node.inbounds), or when a
\* refused push left an exception behind that no collection has cleared yet.
Unseen(v) == IF v.seat[tx.who] \in tx.held THEN tx.unseen \cup {tx.who} ELSE tx.unseen
Held(v, n) ==
    IF tx.waiting = {} \/ RowsOf(v, n) \cap tx.held # {} THEN {tx.held}
    ELSE {tx.held, tx.held \cup {i \in RowsOf(v, n) : v.row[i].state # "dead"}}
Home == {tx.view.row[i].node : i \in tx.not}

\* The node takes the config.
Accept(n) ==
    /\ Turn(n)
    /\ \E v \in Attempts(tx.view, n) :
         /\ runs' = [runs EXCEPT ![n] = Image(v, n, Unseen(v))]
         /\ \E held \in IF n \in Home THEN Held(v, n) ELSE {tx.held} :
              tx' = [tx EXCEPT !.pc = "placed", !.view = v,
                               !.held = held, !.unseen = Unseen(v)]
    /\ UNCHANGED db

\* The node does not answer, or takes the config and does not answer in time:
\* the assignment and an inbound made for it are deleted, the previous
\* assignment is live again.
UndoneHalf(v, t) == [v EXCEPT !.row = t.view.row]
Undone(v, t) ==
    [row |-> t.view.row, seat |-> [v.seat EXCEPT ![t.who] = t.view.seat[t.who]]]

Refuse(n) ==
    /\ Turn(n)
    /\ \E v \in Attempts(tx.view, n) :
         /\ \/ UNCHANGED runs
            \/ runs' = [runs EXCEPT ![n] = Image(v, n, Unseen(v))]
         /\ \E held \in Held(tx.view, n) :
              tx' = [tx EXCEPT !.todo = @ \ {n}, !.view = Undone(v, tx),
                               !.held = held]
    /\ UNCHANGED db

RollBack ==
    /\ tx' = Idle
    /\ runs' = NoPushes
    /\ UNCHANGED db

\* An error while a stranded user is moved is logged and passed over.
PassOver(v, broken) ==
    /\ tx' = [tx EXCEPT !.pc = "skipped", !.view = v, !.broken = @ \cup broken]
    /\ UNCHANGED <<db, runs>>

\* No node took the user.  The request of the one who asked ends in 503 with
\* nothing written; anybody else keeps the seat they had.
NoCapacity ==
    /\ tx.pc = "choose" /\ tx.todo = {}
    /\ IF tx.who = tx.by THEN RollBack ELSE PassOver(tx.view, {})

\* pick_port found nothing: an error nobody expects, before any row changed.
NoPort(n) ==
    /\ Turn(n)
    /\ Usable(tx.view, n, tx.not) = {} /\ PortChoices(tx.view, n) = {}
    /\ IF tx.who = tx.by THEN RollBack ELSE PassOver(tx.view, {})

\* The push fails with an error that is not NodeChannelError (a tunnel client
\* that cannot start, a row that cannot be rendered): nothing is reversed.
Break(n) ==
    /\ Turn(n)
    /\ \E v \in Attempts(tx.view, n) :
         IF tx.who = tx.by THEN RollBack ELSE PassOver(v, {tx.who})

-----------------------------------------------------------------------------
(* The requests.                                                            *)

Connect(u) ==
    /\ tx.pc = "idle"
    /\ Placing([Idle EXCEPT !.kind = "connect", !.by = u], u, db)
    /\ UNCHANGED <<db, runs>>

\* report_failure up to the placement of the reporter.  Without a seat it
\* answers 409 and changes nothing.
ReportFew(u) ==
    /\ tx.pc = "idle" /\ db.seat[u] # None
    /\ LET i == db.seat[u]
           v == [db EXCEPT !.row[i] = Bumped(db.row[i], u)]
       IN /\ v.row[i].count < FailThreshold
          /\ Placing([Idle EXCEPT !.kind = "report", !.by = u,
                                  !.not = {i}], u, v)
    /\ UNCHANGED <<db, runs>>

ReportLast(u) ==
    /\ tx.pc = "idle" /\ db.seat[u] # None
    /\ LET i == db.seat[u]
           v == [db EXCEPT !.row[i] = Bumped(db.row[i], u)]
           d == [v EXCEPT !.row[i] = Killed(v.row[i])]
           n == d.row[i].node
       IN /\ v.row[i].count >= FailThreshold
          /\ Placing([Idle EXCEPT !.kind = "report", !.by = u,
                                  !.not = {i},
                                  !.notAt = IF Burned(d, n) THEN {n} ELSE {},
                                  !.waiting = Sitting(d, i) \ {u}], u, d)
    /\ UNCHANGED <<db, runs>>

\* The tables from now on, without the rows that nothing reads any more.
Writes(v) ==
    /\ db' = Forgotten(v)
    /\ tx' = [Idle EXCEPT !.view = Forgotten(v)]

\* One user is done with: whoever was moved without asking gets a ConfigPush.
SettledSilently(t) == t
Settled(t) ==
    IF t.pc = "placed" /\ t.who # t.by
    THEN [t EXCEPT !.told = @ \cup {t.who}] ELSE t

MoveNext(u) ==
    /\ tx.pc \in {"placed", "skipped"} /\ u \in tx.waiting
    /\ Placing([Settled(tx) EXCEPT !.waiting = @ \ {u}], u, tx.view)
    /\ UNCHANGED <<db, runs>>

Commit ==
    /\ tx.pc \in {"placed", "skipped"} /\ tx.waiting = {}
    /\ Writes(tx.view)
    /\ runs' = NoPushes

\* The process dies, or the commit fails.
Crash == tx.pc # "idle" /\ RollBack

\* Time, between requests.
WindowCloses(i) ==
    /\ tx.pc = "idle" /\ db.row[i] # None
    /\ \/ /\ db.row[i].open
          /\ Writes([db EXCEPT !.row[i].open = FALSE, !.row[i].by = {}])
       \/ /\ db.row[i].fresh
          /\ Writes([db EXCEPT !.row[i].fresh = FALSE])
    /\ UNCHANGED runs

\* sweep_expired released the user (Placement).
SweptAway(u) ==
    /\ tx.pc = "idle" /\ db.seat[u] # None
    /\ Writes([db EXCEPT !.seat[u] = None])
    /\ UNCHANGED runs

\* provision_node runs again over a node in service: occupied_ports is what
\* listens there at that moment, with Xray up (its own inbounds among it) or
\* down; the port for one more control inbound is _free_port of just that, from
\* candidates that are preferred ports of this class or of the other one.
Reprovision(n) ==
    /\ tx.pc = "idle" /\ passes[n] < MaxPasses[n]
    /\ \E listening \in {Foreign[n], Foreign[n] \cup control[n] \cup CustomerPorts(db, n)} :
       \E added \in {{}} \cup {{p} : p \in IF Preferred \ listening # {}
                                         THEN Preferred \ listening ELSE Preferred} :
         /\ <<listening, added \subseteq control[n]>> # <<occupied[n], TRUE>>
         /\ occupied' = [occupied EXCEPT ![n] = listening]
         /\ control' = [control EXCEPT ![n] = @ \cup added]
         /\ overrun' = [overrun EXCEPT ![n] =
                          @ \cup ((listening \cup added) \cap CustomerPorts(db, n))]
    /\ passes' = [passes EXCEPT ![n] = @ + 1]
    /\ UNCHANGED <<db, runs, tx>>

Serve ==
    \/ \E n \in Node : Accept(n) \/ Refuse(n) \/ Break(n) \/ NoPort(n)
    \/ NoCapacity
    \/ \E u \in User : MoveNext(u)
    \/ Commit

Request ==
    \/ \E u \in User : Connect(u) \/ ReportFew(u) \/ ReportLast(u) \/ SweptAway(u)
    \/ Serve \/ Crash
    \/ \E i \in Inbound : WindowCloses(i)

Next ==
    \/ Request /\ UNCHANGED site
    \/ \E n \in Node : Reprovision(n)

Spec == Init /\ [][Next]_vars

-----------------------------------------------------------------------------
(* What should hold.                                                        *)

\* No config makes a node bind one port for two customers' inbounds, nor for a
\* customer's inbound and a control inbound or a service of the node's own, which
\* would keep Xray from starting for everybody on the node; except on a port that
\* a repeated pass of provisioning laid a control inbound over, or found open,
\* while a customer's inbound was living on it.  So every port is chosen against
\* all inbounds of the node, those made earlier in the same transaction, undone
\* ones and suspects included.  (provisioning.py does not choose that way: the
\* exception is real, and so are two control inbounds on one port.)
PortsBindable ==
    \A n \in Node : \A a, b \in runs[n] :
      a.inbound # None =>
        /\ a.port \in occupied[n] => a.port \in overrun[n]
        /\ a.port = b.port => a = b \/ (b.inbound = None /\ a.port \in overrun[n])

\* A commit that seats a user elsewhere because others found their inbound
\* blocked, and whether the node was given a config with that user.
StrandedMoved(u) ==
    /\ tx.pc # "idle" /\ tx.kind = "report"
    /\ u # tx.by /\ u \notin tx.broken
    /\ db'.seat[u] # db.seat[u]
ServedAt(u, i) ==
    \E a \in runs[db'.row[i].node] : a.inbound = i /\ u \in a.clients

\* Whoever is moved because others found their inbound blocked ends up on an
\* inbound that is alive and that their node serves them on, and is told; or
\* stays where they were.  (An error that is not the node's leaves the rows of
\* that one user half changed; and see MovedIsServed.)
StrandedMoveIsWhole ==
    [][\A u \in User :
         StrandedMoved(u)
         => /\ db'.row[db'.seat[u]].state # "dead"
            /\ u \notin tx.unseen => ServedAt(u, db'.seat[u])
            /\ u \in Settled(tx).told]_vars

\* assign_config: "the only thing that comes back is a working vless:// link",
\* for everyone a report moves as well: the node was given a config that lists
\* them.  A collection loaded by an earlier push of the same transaction does
\* not list them.
MovedIsServed ==
    [][\A u \in User : StrandedMoved(u) => ServedAt(u, db'.seat[u])]_vars

\* An inbound is declared dead on the word of distinct users, all but one of the
\* reports that count: nobody is heard twice in one window, however they report,
\* reconnect and wait, but for one account, once.  For a report moves its author
\* away, the second one makes the inbound suspect, and a suspect inbound takes
\* nobody back; between the first and the second the author may return.
\* (config.py:45 says "once this many distinct users report it": the code counts
\* taps, and one user fewer is enough.)
KillersAreDistinct ==
    [][\A i \in Inbound :
         db.row[i] # None /\ db.row[i].state # "dead"
           /\ db'.row[i] # None /\ db'.row[i].state = "dead"
         => Cardinality(db'.row[i].by) >= FailThreshold - 1]_vars
=============================================================================
