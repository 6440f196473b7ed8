------------------------------ MODULE Placement ------------------------------
(***************************************************************************)
(* Where users sit, as three parties see it: the table `assignments`, the  *)
(* transactions that are changing it, and the Xray configs the nodes run.  *)
(*                                                                         *)
(* A node is told everything at once: every change renders the whole list  *)
(* of client ids of that node and replaces what it runs (node_sync.py,     *)
(* config_render.py).  A request writes its rows, flushes, pushes, and     *)
(* commits last.  Requests run in a thread pool beside the background      *)
(* loops, each in its own READ COMMITTED transaction; a worker is one such *)
(* thread.  One worker models the program with requests one at a time.     *)
(*                                                                         *)
(* Abstracted: an inbound is its node and service class (the life of       *)
(* single inbounds is another module's business, none is dead here); time  *)
(* is a paid stretch that lapses at any moment; which nodes are isolated   *)
(* is an arbitrary choice at each selection; the outcome of a push is an   *)
(* arbitrary choice as well.  An assignment row is a value; its uuid tells  *)
(* apart the rows of one user on one inbound, and a uuid that no live row, *)
(* no node and no open transaction knows can be drawn again, so that a     *)
(* finite set of them carries infinite behaviours.                         *)
(***************************************************************************)
EXTENDS Naturals, FiniteSets

CONSTANTS
    User,           \* accounts
    Node,           \* nodes in rotation (NodeStatus.active)
    Uuid,           \* what distinguishes xray_uuid values
    Worker,         \* threads of the head that can hold a transaction open
    Capacity,       \* Node.capacity
    GraceCapacity,  \* int(Node.capacity * free_admission_ratio)
    Faults,         \* which of {"crash", "late"} the environment may produce
    None

Tier == {"full", "grace"}

\* A row of `assignments` with the inbound it points to.
Assignment == [user : User, node : Node, tier : Tier, uuid : Uuid]

ASSUME CapacityAssumption == Capacity \in Nat /\ GraceCapacity \in Nat
\* A table and the fleet it describes are finite.
ASSUME FiniteAssumption == IsFiniteSet(Assignment)
ASSUME NoneAssumption == None \notin User \cup Node \cup Uuid \cup Tier
ASSUME FaultsAssumption == Faults \subseteq {"crash", "late"}

VARIABLES
    access,     \* access_expires_at / access_is_grace, as the class they buy
    banned,     \* users whose status is banned
    live,       \* committed rows of assignments with released_at IS NULL
    queued,     \* users with an undelivered ConfigPush row
    config,     \* what each node runs: the assignments its Xray config lists
    tx          \* the open transaction of each worker

vars == <<access, banned, live, queued, config, tx>>

Kind == {"idle", "connect", "grant", "reconcile", "sweep"}

Tx == [kind : Kind, pc : {"choose", "push", "pushed", "failed"},
       user : User \cup {None}, tier : Tier \cup {None},
       todo : SUBSET Node, at : Node \cup {None}, seen : [Node -> Nat],
       loads : SUBSET Node, locks : SUBSET Node,
       prev : SUBSET Assignment, added : SUBSET Assignment,
       doomed : SUBSET Assignment, rel : SUBSET Assignment,
       unrel : SUBSET Assignment, image : SUBSET Assignment]

Idle == [kind |-> "idle", pc |-> "choose", user |-> None, tier |-> None,
         todo |-> {}, at |-> None, seen |-> [n \in Node |-> 0],
         loads |-> {}, locks |-> {}, prev |-> {}, added |-> {}, doomed |-> {},
         rel |-> {}, unrel |-> {}, image |-> {}]

TypeOK ==
    /\ access \in [User -> Tier \cup {"none"}]
    /\ banned \in SUBSET User
    /\ live \in SUBSET Assignment
    /\ queued \in SUBSET User
    /\ config \in [Node -> SUBSET Assignment]
    /\ tx \in [Worker -> Tx]

Init ==
    /\ access = [u \in User |-> "none"]
    /\ banned = {}
    /\ live = {}
    /\ queued = {}
    /\ config = [n \in Node |-> {}]
    /\ tx = [w \in Worker |-> Idle]

-----------------------------------------------------------------------------
(* Reading the database.  A definition named after another one with a       *)
(* suffix is that code with a plausible slip: the properties must catch it. *)

HasAccess(u) == access[u] # "none"

\* users_to_disconnect keeps whoever is neither banned nor lapsed.
Entitled(u) == HasAccess(u) /\ u \notin banned

\* required_tier, for a user whose stretch is of class a.
RequiredTier(a) == IF a = "full" THEN "full" ELSE "grace"

LiveOf(u) == {x \in live : x.user = u}

\* active_assignment: nothing, or one live row of the user.  With several
\* the code takes the newest; which one that is, is left open.
ActiveAssignment(u) ==
    IF LiveOf(u) = {} THEN {{}} ELSE {{x} : x \in LiveOf(u)}

Load(n) == Cardinality({x \in live : x.node = n})

CeilingOffByOne(t) == IF t = "full" THEN Capacity + 1 ELSE GraceCapacity

Ceiling(t) == IF t = "full" THEN Capacity ELSE GraceCapacity

\* The rows that a transaction sees as live: the committed ones with its own
\* inserts and updates on top.
LiveInKeepsReleased(t) == live \cup t.added \cup t.unrel
LiveIn(t) == (live \cup t.added \cup t.unrel) \ t.rel

\* render_node_config over the transaction's view.
RenderedCommitted(n, rows) == {x \in rows : x.node = n /\ x \in live}
RenderedIds(n, rows) == {x.uuid : x \in {y \in rows : y.node = n}}
Rendered(n, rows) == {x \in rows : x.node = n}

\* Row locks: an UPDATE waits for the open transactions that wrote the row.
RowsFree(w, rows) ==
    \A v \in Worker \ {w} : (tx[v].rel \cup tx[v].unrel) \cap rows = {}
NodesFree(w, nodes) == \A v \in Worker \ {w} : tx[v].locks \cap nodes = {}

\* Rows somebody may still refer to; a new row is none of them.
Held(v) == tx[v].prev \cup tx[v].added \cup tx[v].doomed
             \cup tx[v].rel \cup tx[v].unrel \cup tx[v].image
Fresh(x) ==
    /\ x \notin live
    /\ \A n \in Node : x \notin config[n]
    /\ \A v \in Worker : x \notin Held(v)

-----------------------------------------------------------------------------
(* Placing a user: assign_config and the four ways into it.                *)

Placing(t) == t.kind \in {"connect", "grant", "reconcile"}

\* The start of assign_config: required_tier, eligible_nodes over the nodes
\* that are not isolated, and active_assignment.  eligible_nodes also
\* refreshes the counter Node.load; the rows it makes dirty (arbitrary ones
\* here, the counter is used for nothing) are locked by the next flush.
Selected(kind, u, t, prev, scanned, dirty) ==
    LET open == {n \in scanned : Load(n) < Ceiling(t)}
    IN [Idle EXCEPT
          !.kind = kind, !.user = u, !.tier = t, !.prev = prev,
          !.todo = open, !.loads = dirty,
          !.seen = [n \in Node |-> IF n \in open THEN Load(n) ELSE 0]]

StartPlacing(w, kind, u, t, prev) ==
    \E scanned \in SUBSET Node : \E dirty \in SUBSET scanned :
      tx' = [tx EXCEPT ![w] = Selected(kind, u, t, prev, scanned, dirty)]

\* connect_user: paid time is required, nothing else is.  (The app's door
\* also refuses banned accounts; the service door does not.)
Connect(w, u) ==
    /\ tx[w].kind = "idle"
    /\ HasAccess(u)
    /\ \E prev \in ActiveAssignment(u) :
         StartPlacing(w, "connect", u, RequiredTier(access[u]), prev)
    /\ UNCHANGED <<access, banned, live, queued, config>>

\* A rewarded view, a grace stretch or a manual grant, followed by
\* reconcile_placement in the same transaction.  Without a live row, or on
\* the right class already, it commits at once.  Grace does not demote a
\* stretch that was paid for.  The grant is flushed first, so that a second
\* one waits for the row of the user.
Grant(w, u, t) ==
    /\ tx[w].kind = "idle"
    /\ \A v \in Worker : ~(tx[v].kind = "grant" /\ tx[v].user = u)
    /\ LET bought == IF access[u] = "full" THEN "full" ELSE t
       IN \E prev \in ActiveAssignment(u) :
            IF \A x \in prev : x.tier = bought
            THEN /\ access' = [access EXCEPT ![u] = bought]
                 /\ UNCHANGED tx
            ELSE /\ StartPlacing(w, "grant", u, bought, prev)
                 /\ UNCHANGED access
    /\ UNCHANGED <<banned, live, queued, config>>

\* One turn of run_tier_reconciliation.
Reconcile(w, u) ==
    /\ tx[w].kind = "idle"
    /\ \A v \in Worker : tx[v].kind # "reconcile"
    /\ HasAccess(u)
    /\ LET wanted == RequiredTier(access[u])
       IN \E x \in LiveOf(u) :
            /\ x.tier # wanted
            /\ StartPlacing(w, "reconcile", u, wanted, {x})
    /\ UNCHANGED <<access, banned, live, queued, config>>

\* One turn of the loop over nodes, up to the push: insert the new row,
\* release the previous one, flush, render.  Least loaded first.
TryNode(w, n) ==
    LET t == tx[w] IN
    /\ Placing(t) /\ t.pc = "choose"
    /\ n \in t.todo
    /\ \A m \in t.todo : t.seen[n] <= t.seen[m]
    /\ RowsFree(w, t.prev)
    /\ NodesFree(w, t.loads)
    /\ \E id \in Uuid :
         LET x    == [user |-> t.user, node |-> n, tier |-> t.tier, uuid |-> id]
             rel  == t.rel \cup t.prev
             unr  == t.unrel \ t.prev
             rows == (live \cup {x} \cup unr) \ rel
         IN /\ Fresh(x)
            /\ tx' = [tx EXCEPT ![w] =
                        [t EXCEPT !.pc = "push", !.at = n, !.added = {x},
                                  !.rel = rel, !.unrel = unr,
                                  !.locks = @ \cup t.loads,
                                  !.image = Rendered(n, rows)]]
    /\ UNCHANGED <<access, banned, live, queued, config>>

\* call_node ran the push on one of its paths and the node answered.
PushOk(w) ==
    /\ tx[w].kind # "idle" /\ tx[w].pc = "push"
    /\ config' = [config EXCEPT ![tx[w].at] = tx[w].image]
    /\ tx' = [tx EXCEPT ![w].pc = "pushed"]
    /\ UNCHANGED <<access, banned, live, queued>>

\* call_node raised.  The node may have restarted on the new config all the
\* same: the answer to /restart can time out or get lost ("late").
PushFail(w) ==
    /\ tx[w].kind # "idle" /\ tx[w].pc = "push"
    /\ \/ UNCHANGED config
       \/ /\ "late" \in Faults
          /\ config' = [config EXCEPT ![tx[w].at] = tx[w].image]
    /\ tx' = [tx EXCEPT ![w].pc = "failed"]
    /\ UNCHANGED <<access, banned, live, queued>>

\* The except branch of assign_config: the rows are reversed by hand, inside
\* the same transaction, and the next node is tried.
ReversedHalf(t) ==
    [t EXCEPT !.pc = "choose", !.at = None, !.image = {}, !.added = {},
              !.todo = @ \ {t.at}, !.locks = @ \cup {t.at}]
Reversed(t) ==
    [t EXCEPT !.pc = "choose", !.at = None, !.image = {}, !.added = {},
              !.rel = @ \ t.prev, !.unrel = @ \cup t.prev,
              !.todo = @ \ {t.at}, !.locks = @ \cup {t.at}]

Undo(w) ==
    LET t == tx[w] IN
    /\ Placing(t) /\ t.pc = "failed"
    /\ NodesFree(w, {t.at})
    /\ tx' = [tx EXCEPT ![w] = Reversed(t)]
    /\ UNCHANGED <<access, banned, live, queued, config>>

\* What COMMIT makes visible.
Commit(w) ==
    LET t == tx[w] IN
    /\ live' = LiveIn(t)
    /\ access' = IF t.kind = "grant" THEN [access EXCEPT ![t.user] = t.tier]
                 ELSE access
    /\ tx' = [tx EXCEPT ![w] = Idle]
    /\ UNCHANGED <<banned, config>>

\* A config the user asked for is in the answer; any other is queued.
UnaskedNightly(t) == t.kind = "reconcile"
Unasked(t) == t.kind # "connect"

\* The node took the config: commit, and for a move the user did not ask
\* for, queue a ConfigPush with it.
Finish(w) ==
    LET t == tx[w] IN
    /\ Placing(t) /\ t.pc = "pushed"
    /\ NodesFree(w, {t.at})
    /\ queued' = IF Unasked(t) THEN queued \cup {t.user} ELSE queued
    /\ Commit(w)

\* NoCapacityError: connect answers 503 and reconciliation rolls back, both
\* without a commit; a grant swallows it and commits what was granted.
NoCapacity(w) ==
    LET t == tx[w] IN
    /\ Placing(t) /\ t.pc = "choose" /\ t.todo = {}
    /\ UNCHANGED queued
    /\ IF t.kind = "grant"
       THEN NodesFree(w, t.loads) /\ Commit(w)
       ELSE /\ tx' = [tx EXCEPT ![w] = Idle]
            /\ UNCHANGED <<access, banned, live, config>>

-----------------------------------------------------------------------------
(* Cutting users off: sweep_expired, one transaction over all nodes.       *)

DoomedLapsed == {x \in live : ~HasAccess(x.user)}
Doomed == {x \in live : ~Entitled(x.user)}

SweepBegin(w) ==
    /\ tx[w].kind = "idle"
    /\ \A v \in Worker : tx[v].kind # "sweep"
    /\ Doomed # {}
    /\ tx' = [tx EXCEPT ![w] =
                [Idle EXCEPT !.kind = "sweep", !.doomed = Doomed,
                             !.todo = {x.node : x \in Doomed}]]
    /\ UNCHANGED <<access, banned, live, queued, config>>

DoomedOn(t, n) == {x \in t.doomed : x.node = n}

SweepRelease(w, n) ==
    LET t    == tx[w]
        rel  == t.rel \cup DoomedOn(t, n)
        rows == (live \cup t.unrel) \ rel
    IN /\ t.kind = "sweep" /\ t.pc = "choose"
       /\ n \in t.todo
       /\ RowsFree(w, DoomedOn(t, n))
       /\ tx' = [tx EXCEPT ![w] =
                   [t EXCEPT !.pc = "push", !.at = n, !.rel = rel,
                             !.image = Rendered(n, rows)]]
       /\ UNCHANGED <<access, banned, live, queued, config>>

\* What a finished node gives back: its rows stay released after a push that
\* worked, and are put back after one that did not.
BackNever(t) == {}
Back(t) == IF t.pc = "failed" THEN DoomedOn(t, t.at) ELSE {}

SweepNext(w) ==
    LET t == tx[w] IN
    /\ t.kind = "sweep" /\ t.pc \in {"pushed", "failed"}
    /\ NodesFree(w, {t.at})
    /\ tx' = [tx EXCEPT ![w] =
                [t EXCEPT !.pc = "choose", !.at = None, !.image = {},
                          !.rel = @ \ Back(t), !.unrel = @ \cup Back(t),
                          !.todo = @ \ {t.at}, !.locks = @ \cup {t.at}]]
    /\ UNCHANGED <<access, banned, live, queued, config>>

SweepCommit(w) ==
    /\ tx[w].kind = "sweep" /\ tx[w].pc = "choose" /\ tx[w].todo = {}
    /\ UNCHANGED queued
    /\ Commit(w)

-----------------------------------------------------------------------------
(* Everything else that moves.                                             *)

\* The process dies, or the commit fails: rolled back, the nodes keep what
\* they have.  Of two open transactions the database may also kill one as
\* the victim of a deadlock: they lock rows of `nodes` and `assignments`,
\* in no common order.
Abort(w) ==
    /\ tx[w].kind # "idle"
    /\ \/ "crash" \in Faults
       \/ \E v \in Worker \ {w} : tx[v].kind # "idle"
    /\ tx' = [tx EXCEPT ![w] = Idle]
    /\ UNCHANGED <<access, banned, live, queued, config>>

\* The stretch runs out, or is revoked from the admin panel.
Lapse(u) ==
    /\ HasAccess(u)
    /\ access' = [access EXCEPT ![u] = "none"]
    /\ UNCHANGED <<banned, live, queued, config, tx>>

\* ban and unban only set the status; like any request they need a thread.
SetBan(w, u) ==
    /\ tx[w].kind = "idle"
    /\ banned' = IF u \in banned THEN banned \ {u} ELSE banned \cup {u}
    /\ UNCHANGED <<access, live, queued, config, tx>>

\* The bot fetched the user's pending pushes and acknowledged them.
DrainOutbox(u) ==
    /\ u \in queued
    /\ queued' = queued \ {u}
    /\ UNCHANGED <<access, banned, live, config, tx>>

PlaceStep(w) ==
    \/ \E n \in Node : TryNode(w, n)
    \/ Undo(w)
    \/ Finish(w)
    \/ NoCapacity(w)

SweepStep(w) ==
    \/ \E n \in Node : SweepRelease(w, n)
    \/ SweepNext(w)
    \/ SweepCommit(w)

Next ==
    \/ \E w \in Worker :
         \/ \E u \in User : \/ Connect(w, u)
                            \/ Reconcile(w, u)
                            \/ SetBan(w, u)
                            \/ \E t \in Tier : Grant(w, u, t)
         \/ PlaceStep(w)
         \/ SweepBegin(w) \/ SweepStep(w)
         \/ PushOk(w) \/ PushFail(w)
         \/ Abort(w)
    \/ \E u \in User : Lapse(u) \/ DrainOutbox(u)

Spec == Init /\ [][Next]_vars

\* The scheduling the code gives: a thread that has started a request
\* carries it to an end; the sweep runs again every minute; a node that is
\* asked again and again answers some day, and crashes do not single out the
\* sweeps whose pushes worked.
Fairness ==
    /\ \A w \in Worker :
         /\ WF_vars(PlaceStep(w))
         /\ WF_vars(SweepStep(w))
         /\ WF_vars(PushOk(w) \/ PushFail(w))
         /\ SF_vars(SweepBegin(w))
         /\ SF_vars(tx[w].rel # {} /\ SweepCommit(w))
    /\ \A w \in Worker, n \in Node :
         /\ SF_vars(SweepRelease(w, n))
         /\ SF_vars(tx[w].kind = "sweep" /\ tx[w].at = n /\ PushOk(w))
         /\ SF_vars(tx[w].pc = "pushed" /\ tx[w].at = n /\ SweepNext(w))

FairSpec == Spec /\ Fairness

-----------------------------------------------------------------------------
(* What should hold.                                                       *)

\* No user ever holds two unreleased assignments: assign_config releases
\* the previous row in the transaction that adds the new one, also when
\* nodes fail in between and the rows are reversed by hand.
OneActivePerUser ==
    \A x, y \in live : x.user = y.user => x = y

\* Admission (eligible_nodes) keeps every node within its capacity, whatever
\* moves, reversals and sweeps happen between two selections.
WithinCapacity == \A n \in Node : Load(n) <= Capacity

\* The row a commit adds is on its node at that very moment, so the vless
\* link in the response works.
CommittedLinkWorks ==
    [][\A x \in live' \ live : x \in config'[x.node]]_vars

\* A sweep reports an id as released only if its node no longer runs it.
SweepReleasesOnlyRemoved ==
    [][\A w \in Worker :
         tx[w].kind = "sweep" /\ tx'[w].kind = "idle"
           => \A x \in live \ live' : x \notin config[x.node]]_vars

\* A user who is entitled to be online and has a place never loses it
\* without getting another, whatever fails while they are being moved.
EntitledKeepsPlace ==
    [][\A u \in User :
         Entitled(u) /\ LiveOf(u) # {} => LiveOf(u)' # {}]_vars

\* Whoever is moved without having asked has a push waiting in the outbox
\* from the commit that moved them on.
UnaskedMoveIsQueued ==
    [][\A w \in Worker :
         LET t == tx[w] IN
         t.kind \in {"grant", "reconcile"} /\ live' # live /\ tx'[w] # t
           => t.user \in queued']_vars

\* A user whose time has run out or who was banned does not keep an
\* assignment for ever: it is released, or they are entitled again.
LapsedIsReleased ==
    \A u \in User :
      (~Entitled(u) /\ LiveOf(u) # {}) ~> (Entitled(u) \/ LiveOf(u) = {})
=============================================================================
