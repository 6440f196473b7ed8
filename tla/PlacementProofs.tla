--------------------------- MODULE PlacementProofs ---------------------------
(***************************************************************************)
(* What Placement guarantees for every set of users, nodes and uuids and   *)
(* every capacity.  Type correctness holds for any number of workers; the  *)
(* other theorems are about requests that run one at a time (OneWorker):   *)
(* with two workers TLC refutes them.                                      *)
(***************************************************************************)
EXTENDS Placement, FiniteSetTheorems, TLAPS

\* A user is being placed with the class and the account known, and a push
\* goes to a node.
TxKnown(t) ==
    /\ Placing(t) => t.user \in User /\ t.tier \in Tier
    /\ t.pc # "choose" => t.at \in Node

TypeInv == TypeOK /\ \A w \in Worker : TxKnown(tx[w])

-----------------------------------------------------------------------------
(* Type correctness.                                                       *)

\* Loads are counts: eligible_nodes compares them with the ceiling.
LEMMA LoadIsNat == TypeOK => \A n \in Node : Load(n) \in Nat
<1>1. SUFFICES ASSUME TypeOK, NEW n \in Node PROVE Load(n) \in Nat
  OBVIOUS
<1>2. {x \in live : x.node = n} \subseteq Assignment
  BY <1>1 DEF TypeOK
<1>3. IsFiniteSet({x \in live : x.node = n})
  BY <1>2, FS_Subset, FiniteAssumption
<1>4. QED
  BY <1>3, FS_CardinalityType DEF Load

\* A thread without a request is a well-typed transaction record.
LEMMA IdleIsTx == Idle \in Tx /\ TxKnown(Idle)
  BY DEF Idle, Tx, Kind, Placing, TxKnown

\* What selection (assign_config up to its loop) leaves in the transaction.
LEMMA SelectedFields ==
    ASSUME NEW u, NEW t, NEW kind, NEW prev, NEW scanned, NEW dirty
    PROVE  LET open == {n \in scanned : Load(n) < Ceiling(t)}
           IN Selected(kind, u, t, prev, scanned, dirty) =
                [kind |-> kind, pc |-> "choose", user |-> u, tier |-> t,
                 todo |-> open, at |-> None,
                 seen |-> [n \in Node |-> IF n \in open THEN Load(n) ELSE 0],
                 loads |-> dirty, locks |-> {}, prev |-> prev, added |-> {},
                 doomed |-> {}, rel |-> {}, unrel |-> {}, image |-> {}]
<1> DEFINE open == {n \in scanned : Load(n) < Ceiling(t)}
           seen == [n \in Node |-> IF n \in open THEN Load(n) ELSE 0]
<1>1. Selected(kind, u, t, prev, scanned, dirty) =
        [Idle EXCEPT !.kind = kind, !.user = u, !.tier = t, !.prev = prev,
                     !.todo = open, !.loads = dirty, !.seen = seen]
  BY DEF Selected
<1> HIDE DEF open, seen
<1>2. Selected(kind, u, t, prev, scanned, dirty) =
        [kind |-> kind, pc |-> "choose", user |-> u, tier |-> t,
         todo |-> open, at |-> None, seen |-> seen, loads |-> dirty,
         locks |-> {}, prev |-> prev, added |-> {}, doomed |-> {},
         rel |-> {}, unrel |-> {}, image |-> {}]
  BY <1>1 DEF Idle
<1>3. QED
  BY <1>2 DEF open, seen

LEMMA SelectedType ==
    ASSUME TypeOK, NEW u \in User, NEW t \in Tier,
           NEW kind \in {"connect", "grant", "reconcile"},
           NEW prev \in SUBSET Assignment,
           NEW scanned \in SUBSET Node, NEW dirty \in SUBSET scanned
    PROVE  LET s == Selected(kind, u, t, prev, scanned, dirty)
           IN s \in Tx /\ TxKnown(s)
<1> DEFINE open == {n \in scanned : Load(n) < Ceiling(t)}
           seen == [n \in Node |-> IF n \in open THEN Load(n) ELSE 0]
<1>1. seen \in [Node -> Nat]
  BY LoadIsNat
<1>2. open \in SUBSET Node
  OBVIOUS
<1>3. Selected(kind, u, t, prev, scanned, dirty) =
        [kind |-> kind, pc |-> "choose", user |-> u, tier |-> t,
         todo |-> open, at |-> None, seen |-> seen, loads |-> dirty,
         locks |-> {}, prev |-> prev, added |-> {}, doomed |-> {},
         rel |-> {}, unrel |-> {}, image |-> {}]
  BY SelectedFields
<1>4. kind \in Kind /\ dirty \in SUBSET Node
  BY DEF Kind
<1> HIDE DEF open, seen
<1>5. Selected(kind, u, t, prev, scanned, dirty) \in Tx
  BY <1>1, <1>2, <1>3, <1>4 DEF Tx
<1>6. TxKnown(Selected(kind, u, t, prev, scanned, dirty))
  BY <1>3 DEF TxKnown, Placing
<1>7. QED
  BY <1>5, <1>6

LEMMA StartPlacingType ==
    ASSUME TypeInv, NEW w \in Worker, NEW u \in User, NEW t \in Tier,
           NEW kind \in {"connect", "grant", "reconcile"},
           NEW prev \in SUBSET Assignment, StartPlacing(w, kind, u, t, prev)
    PROVE  tx' \in [Worker -> Tx] /\ \A v \in Worker : TxKnown(tx'[v])
<1>1. PICK scanned \in SUBSET Node : \E dirty \in SUBSET scanned :
        tx' = [tx EXCEPT ![w] = Selected(kind, u, t, prev, scanned, dirty)]
  BY DEF StartPlacing
<1>2. PICK dirty \in SUBSET scanned :
        tx' = [tx EXCEPT ![w] = Selected(kind, u, t, prev, scanned, dirty)]
  BY <1>1
<1> DEFINE new == Selected(kind, u, t, prev, scanned, dirty)
<1>3. new \in Tx /\ TxKnown(new)
  BY SelectedType DEF TypeInv
<1> HIDE DEF new
<1>4. QED
  BY <1>2, <1>3 DEF TypeInv, TypeOK, new

\* Replacing one transaction by a well-typed one keeps all of them well typed.
LEMMA OneTxChanges ==
    ASSUME TypeInv, NEW w \in Worker, NEW t, t \in Tx, TxKnown(t),
           tx' = [tx EXCEPT ![w] = t]
    PROVE  tx' \in [Worker -> Tx] /\ \A v \in Worker : TxKnown(tx'[v])
  BY DEF TypeInv, TypeOK

LEMMA TypeInvInit == Init => TypeInv
  BY IdleIsTx DEF Init, TypeInv, TypeOK

\* Whatever a transaction writes back is rows, and it writes only at COMMIT.
LEMMA CommitType ==
    ASSUME TypeInv, NEW w \in Worker, Commit(w), tx[w].kind # "idle",
           queued' \in SUBSET User
    PROVE  TypeInv'
<1>1. tx[w] \in Tx /\ TxKnown(tx[w])
  BY DEF TypeInv, TypeOK
<1>2. live' \in SUBSET Assignment
  BY <1>1 DEF TypeInv, TypeOK, Commit, LiveIn, Tx
<1>3. access' \in [User -> Tier \cup {"none"}]
  BY <1>1 DEF TypeInv, TypeOK, Commit, TxKnown, Placing
<1>4. tx' \in [Worker -> Tx] /\ \A v \in Worker : TxKnown(tx'[v])
  BY IdleIsTx, OneTxChanges DEF Commit
<1>5. banned' \in SUBSET User /\ config' \in [Node -> SUBSET Assignment]
  BY DEF TypeInv, TypeOK, Commit
<1>6. QED
  BY <1>2, <1>3, <1>4, <1>5 DEF TypeInv, TypeOK

LEMMA TypeInvStep == TypeInv /\ [Next]_vars => TypeInv'
<1> SUFFICES ASSUME TypeInv, [Next]_vars PROVE TypeInv'
  OBVIOUS
<1> USE DEF Tier
<1>1. \A w \in Worker : tx[w] \in Tx /\ TxKnown(tx[w])
  BY DEF TypeInv, TypeOK
<1>2. ASSUME NEW w \in Worker, NEW u \in User, Connect(w, u) PROVE TypeInv'
  <2>1. RequiredTier(access[u]) \in Tier
    BY DEF RequiredTier
  <2>2. PICK prev \in ActiveAssignment(u) :
          StartPlacing(w, "connect", u, RequiredTier(access[u]), prev)
    BY <1>2 DEF Connect
  <2>3. prev \in SUBSET Assignment
    BY <2>2 DEF ActiveAssignment, LiveOf, TypeInv, TypeOK
  <2>4. tx' \in [Worker -> Tx] /\ \A v \in Worker : TxKnown(tx'[v])
    BY <2>1, <2>2, <2>3, StartPlacingType
  <2>5. QED
    BY <1>2, <2>4 DEF Connect, TypeInv, TypeOK
<1>3. ASSUME NEW w \in Worker, NEW u \in User, Reconcile(w, u) PROVE TypeInv'
  <2>1. RequiredTier(access[u]) \in Tier
    BY DEF RequiredTier
  <2>2. PICK x \in LiveOf(u) :
          StartPlacing(w, "reconcile", u, RequiredTier(access[u]), {x})
    BY <1>3 DEF Reconcile
  <2>3. {x} \in SUBSET Assignment
    BY <2>2 DEF LiveOf, TypeInv, TypeOK
  <2>4. tx' \in [Worker -> Tx] /\ \A v \in Worker : TxKnown(tx'[v])
    BY <2>1, <2>2, <2>3, StartPlacingType
  <2>5. QED
    BY <1>3, <2>4 DEF Reconcile, TypeInv, TypeOK
<1>4. ASSUME NEW w \in Worker, NEW u \in User, NEW t \in Tier, Grant(w, u, t)
      PROVE  TypeInv'
  <2> DEFINE bought == IF access[u] = "full" THEN "full" ELSE t
  <2>1. bought \in Tier
    OBVIOUS
  <2>2. PICK prev \in ActiveAssignment(u) :
          IF \A x \in prev : x.tier = bought
          THEN access' = [access EXCEPT ![u] = bought] /\ UNCHANGED tx
          ELSE StartPlacing(w, "grant", u, bought, prev) /\ UNCHANGED access
    BY <1>4 DEF Grant
  <2>3. prev \in SUBSET Assignment
    BY <2>2 DEF ActiveAssignment, LiveOf, TypeInv, TypeOK
  <2> HIDE DEF bought
  <2>4. access' \in [User -> Tier \cup {"none"}]
    BY <2>1, <2>2 DEF TypeInv, TypeOK
  <2>5. tx' \in [Worker -> Tx] /\ \A v \in Worker : TxKnown(tx'[v])
    <3>1. CASE \A x \in prev : x.tier = bought
      BY <2>2, <3>1 DEF TypeInv, TypeOK
    <3>2. CASE ~(\A x \in prev : x.tier = bought)
      BY <2>1, <2>2, <2>3, <3>2, StartPlacingType
    <3>3. QED
      BY <3>1, <3>2
  <2>6. QED
    BY <1>4, <2>4, <2>5 DEF Grant, TypeInv, TypeOK
<1>5. ASSUME NEW w \in Worker, NEW n \in Node, TryNode(w, n) PROVE TypeInv'
  <2>1. PICK id \in Uuid :
          LET x    == [user |-> tx[w].user, node |-> n, tier |-> tx[w].tier,
                       uuid |-> id]
              rel  == tx[w].rel \cup tx[w].prev
              unr  == tx[w].unrel \ tx[w].prev
              rows == (live \cup {x} \cup unr) \ rel
          IN tx' = [tx EXCEPT ![w] =
                      [tx[w] EXCEPT !.pc = "push", !.at = n, !.added = {x},
                                    !.rel = rel, !.unrel = unr,
                                    !.locks = @ \cup tx[w].loads,
                                    !.image = Rendered(n, rows)]]
    BY <1>5 DEF TryNode
  <2> DEFINE t    == tx[w]
             x    == [user |-> t.user, node |-> n, tier |-> t.tier, uuid |-> id]
             rel  == t.rel \cup t.prev
             unr  == t.unrel \ t.prev
             rows == (live \cup {x} \cup unr) \ rel
             img  == Rendered(n, rows)
             new  == [t EXCEPT !.pc = "push", !.at = n, !.added = {x},
                               !.rel = rel, !.unrel = unr,
                               !.locks = @ \cup t.loads, !.image = img]
  <2>2. t \in Tx /\ t.user \in User /\ t.tier \in Tier
    BY <1>1, <1>5 DEF TryNode, TxKnown
  <2>3. {x} \in SUBSET Assignment
    BY <2>2 DEF Assignment
  <2>4. rel \in SUBSET Assignment /\ unr \in SUBSET Assignment
    BY <2>2 DEF Tx
  <2>5. img \in SUBSET Assignment
    BY <2>3, <2>4 DEF Rendered, TypeInv, TypeOK
  <2>6. tx' = [tx EXCEPT ![w] = new]
    BY <2>1
  <2> HIDE DEF x, rel, unr, rows, img
  <2>7. new \in Tx
    BY <2>2, <2>3, <2>4, <2>5 DEF Tx
  <2>8. TxKnown(new)
    BY <2>2 DEF TxKnown, Tx
  <2> HIDE DEF new, t
  <2>9. tx' \in [Worker -> Tx] /\ \A v \in Worker : TxKnown(tx'[v])
    BY <2>6, <2>7, <2>8, OneTxChanges
  <2>10. QED
    BY <1>5, <2>9 DEF TryNode, TypeInv, TypeOK
<1>6. ASSUME NEW w \in Worker, PushOk(w) PROVE TypeInv'
  <2>1. [tx[w] EXCEPT !.pc = "pushed"] \in Tx
        /\ TxKnown([tx[w] EXCEPT !.pc = "pushed"])
    BY <1>1, <1>6 DEF Tx, TxKnown, Placing, PushOk
  <2>2. tx' \in [Worker -> Tx] /\ \A v \in Worker : TxKnown(tx'[v])
    BY <1>6, <2>1, OneTxChanges DEF PushOk
  <2>3. config' \in [Node -> SUBSET Assignment]
    BY <1>1, <1>6 DEF PushOk, TypeInv, TypeOK, Tx
  <2>4. QED
    BY <1>6, <2>2, <2>3 DEF PushOk, TypeInv, TypeOK
<1>7. ASSUME NEW w \in Worker, PushFail(w) PROVE TypeInv'
  <2>1. [tx[w] EXCEPT !.pc = "failed"] \in Tx
        /\ TxKnown([tx[w] EXCEPT !.pc = "failed"])
    BY <1>1, <1>7 DEF Tx, TxKnown, Placing, PushFail
  <2>2. tx' \in [Worker -> Tx] /\ \A v \in Worker : TxKnown(tx'[v])
    BY <1>7, <2>1, OneTxChanges DEF PushFail
  <2>3. config' \in [Node -> SUBSET Assignment]
    BY <1>1, <1>7 DEF PushFail, TypeInv, TypeOK, Tx
  <2>4. QED
    BY <1>7, <2>2, <2>3 DEF PushFail, TypeInv, TypeOK
<1>8. ASSUME NEW w \in Worker, Undo(w) PROVE TypeInv'
  <2>1. Reversed(tx[w]) \in Tx /\ TxKnown(Reversed(tx[w]))
    <3> DEFINE t     == tx[w]
               rel   == t.rel \ t.prev
               unrel == t.unrel \cup t.prev
               todo  == t.todo \ {t.at}
               locks == t.locks \cup {t.at}
    <3>1. /\ rel \in SUBSET Assignment /\ unrel \in SUBSET Assignment
          /\ todo \in SUBSET Node
      BY <1>1 DEF Tx
    <3>2. locks \in SUBSET Node
      BY <1>1, <1>8 DEF Tx, Undo, TxKnown
    <3>3. Reversed(t) = [t EXCEPT !.pc = "choose", !.at = None, !.image = {},
                                  !.added = {}, !.rel = rel, !.unrel = unrel,
                                  !.todo = todo, !.locks = locks]
      BY <1>1 DEF Reversed, Tx
    <3> HIDE DEF rel, unrel, todo, locks
    <3>4. QED
      BY <1>1, <3>1, <3>2, <3>3 DEF Tx, TxKnown, Placing
  <2>2. tx' \in [Worker -> Tx] /\ \A v \in Worker : TxKnown(tx'[v])
    BY <1>8, <2>1, OneTxChanges DEF Undo
  <2>3. QED
    BY <1>8, <2>2 DEF Undo, TypeInv, TypeOK
<1>9. ASSUME NEW w \in Worker, Finish(w) PROVE TypeInv'
  <2>1. queued' \in SUBSET User
    BY <1>1, <1>9 DEF Finish, TxKnown, TypeInv, TypeOK
  <2>2. QED
    BY <1>9, <2>1, CommitType DEF Finish, Placing
<1>10. ASSUME NEW w \in Worker, NoCapacity(w) PROVE TypeInv'
  <2>1. queued' \in SUBSET User /\ tx[w].kind # "idle"
    BY <1>10 DEF NoCapacity, Placing, TypeInv, TypeOK
  <2>2. CASE tx[w].kind = "grant"
    BY <1>10, <2>1, <2>2, CommitType DEF NoCapacity
  <2>3. CASE tx[w].kind # "grant"
    <3>1. tx' \in [Worker -> Tx] /\ \A v \in Worker : TxKnown(tx'[v])
      BY <1>10, <2>3, IdleIsTx, OneTxChanges DEF NoCapacity
    <3>2. QED
      BY <1>10, <2>3, <3>1 DEF NoCapacity, TypeInv, TypeOK
  <2>4. QED
    BY <2>2, <2>3
<1>11. ASSUME NEW w \in Worker, SweepBegin(w) PROVE TypeInv'
  <2> DEFINE new == [Idle EXCEPT !.kind = "sweep", !.doomed = Doomed,
                                 !.todo = {x.node : x \in Doomed}]
  <2>1. Doomed \in SUBSET Assignment /\ {x.node : x \in Doomed} \in SUBSET Node
    BY DEF Doomed, TypeInv, TypeOK, Assignment
  <2>2. new \in Tx /\ TxKnown(new)
    BY <2>1 DEF Idle, Tx, Kind, TxKnown, Placing
  <2>3. tx' \in [Worker -> Tx] /\ \A v \in Worker : TxKnown(tx'[v])
    BY <1>11, <2>2, OneTxChanges DEF SweepBegin
  <2>4. QED
    BY <1>11, <2>3 DEF SweepBegin, TypeInv, TypeOK
<1>12. ASSUME NEW w \in Worker, NEW n \in Node, SweepRelease(w, n)
       PROVE  TypeInv'
  <2> DEFINE t   == tx[w]
             rel == t.rel \cup DoomedOn(t, n)
             img == Rendered(n, (live \cup t.unrel) \ rel)
             new == [t EXCEPT !.pc = "push", !.at = n, !.rel = rel,
                              !.image = img]
  <2>1. rel \in SUBSET Assignment
    BY <1>1 DEF Tx, DoomedOn
  <2>2. img \in SUBSET Assignment
    BY <1>1 DEF Rendered, Tx, TypeInv, TypeOK
  <2>3. tx' = [tx EXCEPT ![w] = new]
    BY <1>12 DEF SweepRelease
  <2> HIDE DEF rel, img
  <2>4. new \in Tx /\ TxKnown(new)
    BY <1>1, <1>12, <2>1, <2>2 DEF Tx, TxKnown, Placing
  <2> HIDE DEF new
  <2>5. tx' \in [Worker -> Tx] /\ \A v \in Worker : TxKnown(tx'[v])
    BY <2>3, <2>4, OneTxChanges
  <2>6. QED
    BY <1>12, <2>5 DEF SweepRelease, TypeInv, TypeOK
<1>13. ASSUME NEW w \in Worker, SweepNext(w) PROVE TypeInv'
  <2> DEFINE t    == tx[w]
             back == Back(t)
             new  == [t EXCEPT !.pc = "choose", !.at = None, !.image = {},
                               !.rel = @ \ back, !.unrel = @ \cup back,
                               !.todo = @ \ {t.at}, !.locks = @ \cup {t.at}]
  <2>1. back \in SUBSET Assignment
    BY <1>1 DEF Tx, Back, DoomedOn
  <2>2. tx' = [tx EXCEPT ![w] = new]
    BY <1>13 DEF SweepNext
  <2>3. new \in Tx /\ TxKnown(new)
    <3> DEFINE rel   == t.rel \ back
               unrel == t.unrel \cup back
               todo  == t.todo \ {t.at}
               locks == t.locks \cup {t.at}
    <3>1. /\ rel \in SUBSET Assignment /\ unrel \in SUBSET Assignment
          /\ todo \in SUBSET Node
      BY <1>1, <2>1 DEF Tx
    <3>2. locks \in SUBSET Node
      BY <1>1, <1>13 DEF Tx, SweepNext, TxKnown
    <3>3. new = [t EXCEPT !.pc = "choose", !.at = None, !.image = {},
                          !.rel = rel, !.unrel = unrel,
                          !.todo = todo, !.locks = locks]
      BY <1>1 DEF Tx
    <3>4. ~Placing(t) /\ t \in Tx
      BY <1>1, <1>13 DEF Placing, SweepNext
    <3> HIDE DEF rel, unrel, todo, locks, new, t
    <3>5. new \in Tx /\ ~Placing(new) /\ new.pc = "choose"
      BY <3>1, <3>2, <3>3, <3>4 DEF Tx, Placing
    <3>6. QED
      BY <3>5 DEF TxKnown
  <2> HIDE DEF back
  <2> HIDE DEF new
  <2>4. tx' \in [Worker -> Tx] /\ \A v \in Worker : TxKnown(tx'[v])
    BY <2>2, <2>3, OneTxChanges
  <2>5. QED
    BY <1>13, <2>4 DEF SweepNext, TypeInv, TypeOK
<1>14. ASSUME NEW w \in Worker, SweepCommit(w) PROVE TypeInv'
  BY <1>14, CommitType DEF SweepCommit, TypeInv, TypeOK
<1>15. ASSUME NEW w \in Worker, Abort(w) PROVE TypeInv'
  <2>1. tx' \in [Worker -> Tx] /\ \A v \in Worker : TxKnown(tx'[v])
    BY <1>15, IdleIsTx, OneTxChanges DEF Abort
  <2>2. QED
    BY <1>15, <2>1 DEF Abort, TypeInv, TypeOK
<1>16. ASSUME NEW u \in User, Lapse(u) PROVE TypeInv'
  BY <1>16 DEF Lapse, TypeInv, TypeOK
<1>17. ASSUME NEW w \in Worker, NEW u \in User, SetBan(w, u) PROVE TypeInv'
  BY <1>17 DEF SetBan, TypeInv, TypeOK
<1>18. ASSUME NEW u \in User, DrainOutbox(u) PROVE TypeInv'
  BY <1>18 DEF DrainOutbox, TypeInv, TypeOK
<1>19. CASE UNCHANGED vars
  BY <1>19 DEF vars, TypeInv, TypeOK
<1>20. QED
  BY <1>2, <1>3, <1>4, <1>5, <1>6, <1>7, <1>8, <1>9, <1>10, <1>11, <1>12,
     <1>13, <1>14, <1>15, <1>16, <1>17, <1>18, <1>19
  DEF Next, PlaceStep, SweepStep

\* Every variable keeps its type, for any number of workers: in particular a
\* node is only ever asked to run rows of `assignments`, and a failed or
\* aborted request leaves a well-formed transaction behind.
THEOREM PlacementTypeOK == Spec => []TypeOK
<1>1. Init => TypeInv
  BY TypeInvInit
<1>2. TypeInv /\ [Next]_vars => TypeInv'
  BY TypeInvStep
<1>3. TypeInv => TypeOK
  BY DEF TypeInv
<1>4. QED
  BY <1>1, <1>2, <1>3, PTL DEF Spec

-----------------------------------------------------------------------------
(* Requests one at a time.                                                 *)

OneWorker == \A v, w \in Worker : v = w

\* A placement in progress has touched the row its user had and the row it
\* offers instead, and nothing else; it offers one only while it pushes.
PlacingInv(t) ==
    Placing(t) =>
      /\ t.prev = LiveOf(t.user)
      /\ t.pc = "choose" =>
           t.added = {} /\ t.rel = {} /\ t.unrel \subseteq t.prev
      /\ t.pc # "choose" =>
           /\ t.rel = t.prev /\ t.unrel = {}
           /\ \E x \in Assignment :
                /\ t.added = {x} /\ x \notin live
                /\ x.user = t.user /\ x.node = t.at
           /\ t.image = Rendered(t.at, (live \cup t.added) \ t.prev)
      /\ t.pc = "pushed" => config[t.at] = t.image

\* A sweep in progress releases rows of users who are still not entitled to
\* them, and a row it keeps released is off its node.
SweepInv(t) ==
    t.kind = "sweep" =>
      /\ t.added = {} /\ t.unrel \subseteq live
      /\ t.doomed \subseteq live /\ t.rel \subseteq t.doomed
      /\ \A x \in t.doomed : ~Entitled(x.user)
      /\ t.pc = "choose" => t.at = None
      /\ t.pc = "push" => t.image = Rendered(t.at, live \ t.rel)
      /\ \A x \in t.rel :
           x.node # t.at \/ t.pc = "pushed" => x \notin config[x.node]

IInv ==
    /\ TypeInv
    /\ OneActivePerUser
    /\ \A w \in Worker : PlacingInv(tx[w]) /\ SweepInv(tx[w])

\* With one worker the transaction just written is the only one.
LEMMA OnlyTx ==
    ASSUME OneWorker, tx \in [Worker -> Tx], NEW w \in Worker, NEW t,
           tx' = [tx EXCEPT ![w] = t]
    PROVE  \A v \in Worker : tx'[v] = t
  BY DEF OneWorker

\* A selection starts with nothing written.
LEMMA StartPlacingInv ==
    ASSUME OneWorker, IInv, NEW w \in Worker, NEW u \in User, NEW t \in Tier,
           NEW kind \in {"connect", "grant", "reconcile"}, NEW prev,
           prev = LiveOf(u), StartPlacing(w, kind, u, t, prev),
           UNCHANGED live
    PROVE  \A v \in Worker : PlacingInv(tx[v])' /\ SweepInv(tx[v])'
<1>1. PICK scanned \in SUBSET Node : \E dirty \in SUBSET scanned :
        tx' = [tx EXCEPT ![w] = Selected(kind, u, t, prev, scanned, dirty)]
  BY DEF StartPlacing
<1>2. PICK dirty \in SUBSET scanned :
        tx' = [tx EXCEPT ![w] = Selected(kind, u, t, prev, scanned, dirty)]
  BY <1>1
<1> DEFINE new == Selected(kind, u, t, prev, scanned, dirty)
<1>3. /\ new.kind = kind /\ new.pc = "choose" /\ new.user = u
      /\ new.prev = prev /\ new.added = {} /\ new.rel = {} /\ new.unrel = {}
  BY SelectedFields
<1> HIDE DEF new
<1>4. \A v \in Worker : tx'[v] = new
  BY <1>2, OnlyTx DEF IInv, TypeInv, TypeOK, new
<1>5. LiveOf(u)' = prev
  BY DEF LiveOf
<1>6. QED
  BY <1>3, <1>4, <1>5 DEF PlacingInv, SweepInv, Placing

\* Back to no transaction at all.
LEMMA IdleInv ==
    ASSUME OneWorker, IInv, NEW w \in Worker, tx' = [tx EXCEPT ![w] = Idle]
    PROVE  \A v \in Worker : PlacingInv(tx[v])' /\ SweepInv(tx[v])'
<1>1. \A v \in Worker : tx'[v] = Idle
  BY OnlyTx DEF IInv, TypeInv, TypeOK
<1>2. Idle.kind = "idle"
  BY DEF Idle
<1>3. QED
  BY <1>1, <1>2 DEF PlacingInv, SweepInv, Placing

\* What a COMMIT does to the live rows: a placement swaps the row of its user
\* for the one its node runs, a grant without room changes none, a sweep drops
\* rows of users who are not entitled and whose nodes do not run them.
LEMMA CommitEffect ==
    ASSUME OneWorker, IInv, NEW w \in Worker, Commit(w), tx[w].kind # "idle",
           tx[w].pc \in {"choose", "pushed"}
    PROVE  \/ /\ Placing(tx[w]) /\ tx[w].pc = "choose"
              /\ live' = live
           \/ /\ Placing(tx[w]) /\ tx[w].pc = "pushed"
              /\ \E x \in Assignment :
                   /\ x.user = tx[w].user /\ x \in config[x.node]
                   /\ live' = (live \cup {x}) \ LiveOf(tx[w].user)
                   /\ x \notin live
           \/ /\ tx[w].kind = "sweep"
              /\ live' \subseteq live
              /\ \A x \in live \ live' :
                   /\ ~Entitled(x.user)
                   /\ tx[w].pc = "choose" => x \notin config[x.node]
<1> DEFINE t == tx[w]
<1>1. PlacingInv(t) /\ SweepInv(t) /\ t \in Tx
  BY DEF IInv, TypeInv, TypeOK
<1>2. live' = (live \cup t.added \cup t.unrel) \ t.rel
  BY DEF Commit, LiveIn
<1>3. Placing(t) \/ t.kind = "sweep"
  BY <1>1 DEF Tx, Kind, Placing
<1>4. CASE Placing(t) /\ t.pc = "choose"
  <2>1. t.added = {} /\ t.rel = {} /\ t.unrel \subseteq live
    BY <1>1, <1>4 DEF PlacingInv, LiveOf
  <2>2. QED
    BY <1>2, <1>4, <2>1
<1>5. CASE Placing(t) /\ t.pc = "pushed"
  <2>1. PICK x \in Assignment :
          /\ t.added = {x} /\ x \notin live
          /\ x.user = t.user /\ x.node = t.at
    BY <1>1, <1>5 DEF PlacingInv
  <2>2. /\ t.rel = LiveOf(t.user) /\ t.unrel = {} /\ config[t.at] = t.image
        /\ t.image = Rendered(t.at, (live \cup t.added) \ LiveOf(t.user))
    BY <1>1, <1>5 DEF PlacingInv
  <2>3. x \in config[x.node]
    BY <2>1, <2>2 DEF Rendered, LiveOf
  <2>4. live' = (live \cup {x}) \ LiveOf(t.user)
    BY <1>2, <2>1, <2>2
  <2>5. QED
    BY <1>5, <2>1, <2>3, <2>4
<1>6. CASE t.kind = "sweep"
  <2>1. live' = live \ t.rel
    BY <1>1, <1>2, <1>6 DEF SweepInv
  <2>2. \A x \in t.rel : ~Entitled(x.user)
    BY <1>1, <1>6 DEF SweepInv
  <2>3. ASSUME NEW x \in t.rel, t.pc = "choose" PROVE x \notin config[x.node]
    <3>1. x.node # t.at
      BY <1>1, <1>6, <2>3, NoneAssumption DEF SweepInv, Tx, Assignment
    <3>2. QED
      BY <1>1, <1>6, <2>3, <3>1 DEF SweepInv
  <2>4. QED
    BY <1>6, <2>1, <2>2, <2>3
<1>7. QED
  BY <1>3, <1>4, <1>5, <1>6 DEF Tx

LEMMA CommitKeepsOneActive ==
    ASSUME OneWorker, IInv, NEW w \in Worker, Commit(w), tx[w].kind # "idle",
           tx[w].pc \in {"choose", "pushed"}
    PROVE  OneActivePerUser'
<1>1. CASE live' \subseteq live
  BY <1>1 DEF IInv, OneActivePerUser
<1>2. CASE \E x \in Assignment :
             /\ x.user = tx[w].user
             /\ live' = (live \cup {x}) \ LiveOf(tx[w].user)
             /\ x \notin live
  BY <1>2 DEF IInv, OneActivePerUser, LiveOf
<1>3. QED
  BY <1>1, <1>2, CommitEffect

LEMMA IInvInit == Init => IInv
<1> SUFFICES ASSUME Init PROVE IInv
  OBVIOUS
<1>1. TypeInv /\ OneActivePerUser
  BY TypeInvInit DEF Init, OneActivePerUser
<1>2. Idle.kind = "idle"
  BY DEF Idle
<1>3. \A w \in Worker : tx[w] = Idle
  BY DEF Init
<1>4. \A w \in Worker : PlacingInv(tx[w]) /\ SweepInv(tx[w])
  BY <1>2, <1>3 DEF PlacingInv, SweepInv, Placing
<1>5. QED
  BY <1>1, <1>4 DEF IInv

LEMMA IInvStep == OneWorker /\ IInv /\ [Next]_vars => IInv'
<1> SUFFICES ASSUME OneWorker, IInv, [Next]_vars PROVE IInv'
  OBVIOUS
<1> DEFINE TxInv == \A v \in Worker : PlacingInv(tx[v]) /\ SweepInv(tx[v])
<1>1. TypeInv'
  BY TypeInvStep DEF IInv
<1>2. /\ \A w \in Worker : PlacingInv(tx[w]) /\ SweepInv(tx[w]) /\ tx[w] \in Tx
      /\ tx \in [Worker -> Tx] /\ OneActivePerUser
      /\ \A w \in Worker : TxKnown(tx[w])
  BY DEF IInv, TypeInv, TypeOK
<1>3. ASSUME UNCHANGED live PROVE OneActivePerUser'
  BY <1>2, <1>3 DEF OneActivePerUser
<1>4. \A u \in User : \A prev \in ActiveAssignment(u) : prev = LiveOf(u)
  BY <1>2 DEF ActiveAssignment, LiveOf, OneActivePerUser
<1>5. ASSUME NEW w \in Worker, NEW u \in User, Connect(w, u)
      PROVE  OneActivePerUser' /\ TxInv'
  <2>1. RequiredTier(access[u]) \in Tier
    BY DEF RequiredTier, Tier
  <2>2. QED
    BY <1>3, <1>4, <1>5, <2>1, StartPlacingInv DEF Connect
<1>6. ASSUME NEW w \in Worker, NEW u \in User, Reconcile(w, u)
      PROVE  OneActivePerUser' /\ TxInv'
  <2>1. RequiredTier(access[u]) \in Tier
    BY DEF RequiredTier, Tier
  <2>2. PICK x \in LiveOf(u) :
          StartPlacing(w, "reconcile", u, RequiredTier(access[u]), {x})
    BY <1>6 DEF Reconcile
  <2>3. {x} = LiveOf(u)
    BY <1>2, <2>2 DEF LiveOf, OneActivePerUser
  <2>4. QED
    BY <1>3, <1>6, <2>1, <2>2, <2>3, StartPlacingInv DEF Reconcile
<1>7. ASSUME NEW w \in Worker, UNCHANGED <<live, config, tx>>, tx[w].kind = "idle"
      PROVE  OneActivePerUser' /\ TxInv'
  BY <1>3, <1>7 DEF OneWorker, PlacingInv, SweepInv, Placing
<1>8. ASSUME NEW w \in Worker, NEW u \in User, NEW t \in Tier, Grant(w, u, t)
      PROVE  OneActivePerUser' /\ TxInv'
  <2> DEFINE bought == IF access[u] = "full" THEN "full" ELSE t
  <2>1. PICK prev \in ActiveAssignment(u) :
          IF \A x \in prev : x.tier = bought
          THEN access' = [access EXCEPT ![u] = bought] /\ UNCHANGED tx
          ELSE StartPlacing(w, "grant", u, bought, prev) /\ UNCHANGED access
    BY <1>8 DEF Grant
  <2>2. bought \in Tier
    BY DEF Tier
  <2> HIDE DEF bought
  <2>3. CASE \A x \in prev : x.tier = bought
    BY <1>7, <1>8, <2>1, <2>3 DEF Grant
  <2>4. CASE ~(\A x \in prev : x.tier = bought)
    <3>1. StartPlacing(w, "grant", u, bought, prev) /\ UNCHANGED live
      BY <1>8, <2>1, <2>4 DEF Grant
    <3>2. QED
      BY <1>3, <1>4, <2>2, <3>1, StartPlacingInv
  <2>5. QED
    BY <2>3, <2>4
<1>9. ASSUME NEW w \in Worker, NEW n \in Node, TryNode(w, n)
      PROVE  OneActivePerUser' /\ TxInv'
  <2>1. PICK t : t = tx[w]
    OBVIOUS
  <2>2. PICK id \in Uuid :
          LET x    == [user |-> t.user, node |-> n, tier |-> t.tier, uuid |-> id]
              rel  == t.rel \cup t.prev
              unr  == t.unrel \ t.prev
              rows == (live \cup {x} \cup unr) \ rel
          IN /\ Fresh(x)
             /\ tx' = [tx EXCEPT ![w] =
                         [t EXCEPT !.pc = "push", !.at = n, !.added = {x},
                                   !.rel = rel, !.unrel = unr,
                                   !.locks = @ \cup t.loads,
                                   !.image = Rendered(n, rows)]]
    BY <1>9, <2>1 DEF TryNode
  <2> DEFINE x    == [user |-> t.user, node |-> n, tier |-> t.tier, uuid |-> id]
             rel  == t.rel \cup t.prev
             unr  == t.unrel \ t.prev
             rows == (live \cup {x} \cup unr) \ rel
  <2>3. PICK new : new = [t EXCEPT !.pc = "push", !.at = n, !.added = {x},
                                   !.rel = rel, !.unrel = unr,
                                   !.locks = @ \cup t.loads,
                                   !.image = Rendered(n, rows)]
    OBVIOUS
  <2>4. /\ Placing(t) /\ t.pc = "choose" /\ t \in Tx
        /\ t.prev = LiveOf(t.user) /\ t.rel = {} /\ t.unrel \subseteq t.prev
    BY <1>2, <1>9, <2>1 DEF TryNode, PlacingInv
  <2>5. x \in Assignment /\ x \notin live /\ x.user = t.user /\ x.node = n
    BY <1>2, <2>1, <2>2, <2>4 DEF TxKnown, Assignment, Fresh
  <2>6. rel = t.prev /\ unr = {} /\ rows = (live \cup {x}) \ t.prev
    BY <2>4
  <2>7. tx' = [tx EXCEPT ![w] = new] /\ UNCHANGED <<live, config>>
    BY <1>9, <2>2, <2>3 DEF TryNode
  <2> HIDE DEF x, rel, unr, rows
  <2>8. /\ new.kind = t.kind /\ new.pc = "push" /\ new.user = t.user
        /\ new.prev = t.prev /\ new.at = n /\ new.added = {x}
        /\ new.rel = rel /\ new.unrel = unr /\ new.image = Rendered(n, rows)
    BY <2>3, <2>4 DEF Tx
  <2>9. \A v \in Worker : tx'[v] = new
    BY <1>2, <2>7, OnlyTx
  <2>10. LiveOf(t.user)' = LiveOf(t.user)
    BY <2>7 DEF LiveOf
  <2>11. PlacingInv(new)'
    BY <2>4, <2>5, <2>6, <2>7, <2>8, <2>10 DEF PlacingInv, Rendered
  <2>12. SweepInv(new)'
    BY <2>4, <2>8 DEF SweepInv, Placing
  <2>13. QED
    BY <1>3, <2>7, <2>9, <2>11, <2>12
<1>10. ASSUME NEW w \in Worker, PushOk(w) PROVE OneActivePerUser' /\ TxInv'
  <2>1. PICK t : t = tx[w]
    OBVIOUS
  <2>2. PICK new : new = [t EXCEPT !.pc = "pushed"]
    OBVIOUS
  <2>3. tx' = [tx EXCEPT ![w] = new] /\ UNCHANGED <<access, banned, live>>
    BY <1>10, <2>1, <2>2 DEF PushOk
  <2>4. /\ t \in Tx /\ t.pc = "push" /\ PlacingInv(t) /\ SweepInv(t)
        /\ t.at \in Node
    BY <1>2, <1>10, <2>1 DEF PushOk, TxKnown
  <2>5. config' = [config EXCEPT ![t.at] = t.image]
        /\ config \in [Node -> SUBSET Assignment]
    BY <1>10, <2>1 DEF PushOk, IInv, TypeInv, TypeOK
  <2>6. /\ new.kind = t.kind /\ new.pc = "pushed" /\ new.user = t.user
        /\ new.prev = t.prev /\ new.at = t.at /\ new.added = t.added
        /\ new.rel = t.rel /\ new.unrel = t.unrel /\ new.image = t.image
        /\ new.doomed = t.doomed
    BY <2>2, <2>4 DEF Tx
  <2>7. \A v \in Worker : tx'[v] = new
    BY <1>2, <2>3, OnlyTx
  <2>8. LiveOf(t.user)' = LiveOf(t.user)
    BY <2>3 DEF LiveOf
  <2>9. PlacingInv(new)'
    BY <2>3, <2>4, <2>5, <2>6, <2>8 DEF PlacingInv, Rendered, Placing
  <2>10. SweepInv(new)'
    <3>1. ASSUME t.kind = "sweep", NEW x \in t.rel
          PROVE  x \notin config'[x.node]
      <4>1. x \in Assignment /\ x.node \in Node
        BY <2>4, <3>1 DEF Tx, Assignment
      <4>2. CASE x.node = t.at
        BY <2>4, <2>5, <3>1, <4>1, <4>2 DEF SweepInv, Rendered
      <4>3. CASE x.node # t.at
        BY <2>4, <2>5, <3>1, <4>1, <4>3 DEF SweepInv
      <4>4. QED
        BY <4>2, <4>3
    <3>2. QED
      BY <2>3, <2>4, <2>6, <3>1 DEF SweepInv, Entitled, HasAccess
  <2>11. QED
    BY <1>3, <2>3, <2>7, <2>9, <2>10
<1>11. ASSUME NEW w \in Worker, PushFail(w) PROVE OneActivePerUser' /\ TxInv'
  <2>1. PICK t : t = tx[w]
    OBVIOUS
  <2>2. PICK new : new = [t EXCEPT !.pc = "failed"]
    OBVIOUS
  <2>3. tx' = [tx EXCEPT ![w] = new] /\ UNCHANGED <<access, banned, live>>
    BY <1>11, <2>1, <2>2 DEF PushFail
  <2>4. /\ t \in Tx /\ t.pc = "push" /\ PlacingInv(t) /\ SweepInv(t)
        /\ t.at \in Node
    BY <1>2, <1>11, <2>1 DEF PushFail, TxKnown
  <2>5. /\ config' = [config EXCEPT ![t.at] = t.image] \/ config' = config
        /\ config \in [Node -> SUBSET Assignment]
    BY <1>11, <2>1 DEF PushFail, IInv, TypeInv, TypeOK
  <2>6. /\ new.kind = t.kind /\ new.pc = "failed" /\ new.user = t.user
        /\ new.prev = t.prev /\ new.at = t.at /\ new.added = t.added
        /\ new.rel = t.rel /\ new.unrel = t.unrel /\ new.image = t.image
        /\ new.doomed = t.doomed
    BY <2>2, <2>4 DEF Tx
  <2>7. \A v \in Worker : tx'[v] = new
    BY <1>2, <2>3, OnlyTx
  <2>8. LiveOf(t.user)' = LiveOf(t.user)
    BY <2>3 DEF LiveOf
  <2>9. PlacingInv(new)'
    BY <2>3, <2>4, <2>6, <2>8 DEF PlacingInv, Rendered, Placing
  <2>10. SweepInv(new)'
    <3>1. ASSUME t.kind = "sweep", NEW x \in t.rel, x.node # t.at
          PROVE  x \notin config'[x.node]
      BY <2>4, <2>5, <3>1 DEF SweepInv, Tx, Assignment
    <3>2. QED
      BY <2>3, <2>4, <2>6, <3>1 DEF SweepInv, Entitled, HasAccess
  <2>11. QED
    BY <1>3, <2>3, <2>7, <2>9, <2>10
<1>12. ASSUME NEW w \in Worker, Undo(w) PROVE OneActivePerUser' /\ TxInv'
  <2>1. PICK t : t = tx[w]
    OBVIOUS
  <2>2. PICK new : new = Reversed(t)
    OBVIOUS
  <2>3. tx' = [tx EXCEPT ![w] = new] /\ UNCHANGED <<live, config>>
    BY <1>12, <2>1, <2>2 DEF Undo
  <2>4. t \in Tx /\ t.pc = "failed" /\ Placing(t) /\ PlacingInv(t)
    BY <1>2, <1>12, <2>1 DEF Undo
  <2>5. t.rel = t.prev /\ t.unrel = {} /\ t.prev = LiveOf(t.user)
    BY <2>4 DEF PlacingInv
  <2>6. /\ new.kind = t.kind /\ new.pc = "choose" /\ new.user = t.user
        /\ new.prev = t.prev /\ new.added = {}
        /\ new.rel = t.rel \ t.prev /\ new.unrel = t.unrel \cup t.prev
    BY <2>2, <2>4 DEF Tx, Reversed
  <2>7. \A v \in Worker : tx'[v] = new
    BY <1>2, <2>3, OnlyTx
  <2>8. LiveOf(t.user)' = LiveOf(t.user)
    BY <2>3 DEF LiveOf
  <2>9. PlacingInv(new)' /\ SweepInv(new)'
    BY <2>4, <2>5, <2>6, <2>8 DEF PlacingInv, SweepInv, Placing
  <2>10. QED
    BY <1>3, <2>3, <2>7, <2>9
<1>13. ASSUME NEW w \in Worker, Commit(w), tx[w].kind # "idle",
              tx[w].pc \in {"choose", "pushed"}
       PROVE  OneActivePerUser' /\ TxInv'
  BY <1>13, CommitKeepsOneActive, IdleInv DEF Commit
<1>14. ASSUME NEW w \in Worker, NoCapacity(w) PROVE OneActivePerUser' /\ TxInv'
  <2>1. CASE tx[w].kind = "grant"
    BY <1>13, <1>14, <2>1 DEF NoCapacity
  <2>2. CASE tx[w].kind # "grant"
    BY <1>3, <1>14, <2>2, IdleInv DEF NoCapacity
  <2>3. QED
    BY <2>1, <2>2
<1>15. ASSUME NEW w \in Worker, SweepBegin(w) PROVE OneActivePerUser' /\ TxInv'
  <2>1. PICK new : new = [Idle EXCEPT !.kind = "sweep", !.doomed = Doomed,
                                      !.todo = {x.node : x \in Doomed}]
    OBVIOUS
  <2>2. tx' = [tx EXCEPT ![w] = new]
        /\ UNCHANGED <<access, banned, live, config>>
    BY <1>15, <2>1 DEF SweepBegin
  <2>3. /\ new.kind = "sweep" /\ new.pc = "choose" /\ new.at = None
        /\ new.added = {} /\ new.rel = {} /\ new.unrel = {}
        /\ new.doomed = Doomed
    BY <2>1 DEF Idle
  <2>4. \A v \in Worker : tx'[v] = new
    BY <1>2, <2>2, OnlyTx
  <2>5. PlacingInv(new)' /\ SweepInv(new)'
    BY <2>2, <2>3 DEF PlacingInv, SweepInv, Placing, Doomed, Entitled, HasAccess
  <2>6. QED
    BY <1>3, <2>2, <2>4, <2>5
<1>16. ASSUME NEW w \in Worker, NEW n \in Node, SweepRelease(w, n)
       PROVE  OneActivePerUser' /\ TxInv'
  <2>1. PICK t : t = tx[w]
    OBVIOUS
  <2>2. PICK rel : rel = t.rel \cup DoomedOn(t, n)
    OBVIOUS
  <2>3. PICK new :
          new = [t EXCEPT !.pc = "push", !.at = n, !.rel = rel,
                          !.image = Rendered(n, (live \cup t.unrel) \ rel)]
    OBVIOUS
  <2>4. tx' = [tx EXCEPT ![w] = new]
        /\ UNCHANGED <<access, banned, live, config>>
    BY <1>16, <2>1, <2>2, <2>3 DEF SweepRelease
  <2>5. /\ t \in Tx /\ t.kind = "sweep" /\ t.pc = "choose" /\ SweepInv(t)
    BY <1>2, <1>16, <2>1 DEF SweepRelease
  <2>6. /\ new.kind = "sweep" /\ new.pc = "push" /\ new.at = n
        /\ new.added = t.added /\ new.rel = rel /\ new.unrel = t.unrel
        /\ new.doomed = t.doomed
        /\ new.image = Rendered(n, (live \cup t.unrel) \ rel)
    BY <2>3, <2>5 DEF Tx
  <2>7. \A v \in Worker : tx'[v] = new
    BY <1>2, <2>4, OnlyTx
  <2>8. new.image = Rendered(n, live \ rel)
    BY <2>5, <2>6 DEF SweepInv, Rendered
  <2>9. \A x \in t.rel : x \notin config[x.node]
    BY <2>5, NoneAssumption DEF SweepInv, Tx, Assignment
  <2>10. \A x \in DoomedOn(t, n) : x.node = n /\ x \in t.doomed
    BY DEF DoomedOn
  <2>11. SweepInv(new)'
    BY <2>2, <2>4, <2>5, <2>6, <2>8, <2>9, <2>10
    DEF SweepInv, Entitled, HasAccess, Rendered
  <2>12. PlacingInv(new)'
    BY <2>6 DEF PlacingInv, Placing
  <2>13. QED
    BY <1>3, <2>4, <2>7, <2>11, <2>12
<1>17. ASSUME NEW w \in Worker, SweepNext(w) PROVE OneActivePerUser' /\ TxInv'
  <2>1. PICK t : t = tx[w]
    OBVIOUS
  <2>2. PICK new :
          new = [t EXCEPT !.pc = "choose", !.at = None, !.image = {},
                          !.rel = @ \ Back(t), !.unrel = @ \cup Back(t),
                          !.todo = @ \ {t.at}, !.locks = @ \cup {t.at}]
    OBVIOUS
  <2>3. tx' = [tx EXCEPT ![w] = new]
        /\ UNCHANGED <<access, banned, live, config>>
    BY <1>17, <2>1, <2>2 DEF SweepNext
  <2>4. /\ t \in Tx /\ t.kind = "sweep" /\ t.pc \in {"pushed", "failed"}
        /\ SweepInv(t)
    BY <1>2, <1>17, <2>1 DEF SweepNext
  <2>5. /\ new.kind = "sweep" /\ new.pc = "choose" /\ new.at = None
        /\ new.added = t.added /\ new.rel = t.rel \ Back(t)
        /\ new.unrel = t.unrel \cup Back(t) /\ new.doomed = t.doomed
    BY <2>2, <2>4 DEF Tx
  <2>6. \A v \in Worker : tx'[v] = new
    BY <1>2, <2>3, OnlyTx
  <2>7. Back(t) \subseteq live
    BY <2>4 DEF Back, DoomedOn, SweepInv
  <2>8. \A x \in t.rel \ Back(t) : x \notin config[x.node]
    BY <2>4 DEF Back, DoomedOn, SweepInv
  <2>9. SweepInv(new)'
    BY <2>3, <2>4, <2>5, <2>7, <2>8 DEF SweepInv, Entitled, HasAccess
  <2>10. PlacingInv(new)'
    BY <2>5 DEF PlacingInv, Placing
  <2>11. QED
    BY <1>3, <2>3, <2>6, <2>9, <2>10
<1>18. ASSUME NEW w \in Worker, Abort(w) PROVE OneActivePerUser' /\ TxInv'
  BY <1>3, <1>18, IdleInv DEF Abort
<1>19. ASSUME UNCHANGED <<live, config, tx>>,
              \A u \in User : ~Entitled(u) => ~Entitled(u)'
       PROVE  OneActivePerUser' /\ TxInv'
  <2>1. ASSUME NEW v \in Worker PROVE PlacingInv(tx[v])'
    <3>1. LiveOf(tx[v].user)' = LiveOf(tx[v].user)
      BY <1>19 DEF LiveOf
    <3>2. QED
      BY <1>2, <1>19, <3>1 DEF PlacingInv, Rendered
  <2>2. ASSUME NEW v \in Worker PROVE SweepInv(tx[v])'
    BY <1>2, <1>19 DEF SweepInv, Rendered, Tx, Assignment
  <2>3. QED
    BY <1>3, <1>19, <2>1, <2>2
<1>20. ASSUME NEW u \in User, Lapse(u) PROVE OneActivePerUser' /\ TxInv'
  BY <1>19, <1>20 DEF Lapse, Entitled, HasAccess, IInv, TypeInv, TypeOK
<1>21. ASSUME NEW w \in Worker, NEW u \in User, SetBan(w, u)
       PROVE  OneActivePerUser' /\ TxInv'
  BY <1>7, <1>21 DEF SetBan
<1>22. ASSUME NEW u \in User, DrainOutbox(u) PROVE OneActivePerUser' /\ TxInv'
  BY <1>19, <1>22 DEF DrainOutbox, Entitled, HasAccess
<1>23. ASSUME UNCHANGED vars PROVE OneActivePerUser' /\ TxInv'
  BY <1>19, <1>23 DEF vars, Entitled, HasAccess
<1>24. ASSUME NEW w \in Worker, Finish(w) \/ SweepCommit(w)
       PROVE  OneActivePerUser' /\ TxInv'
  BY <1>13, <1>24 DEF Finish, SweepCommit, Placing
<1>25. OneActivePerUser' /\ TxInv'
  BY <1>5, <1>6, <1>8, <1>9, <1>10, <1>11, <1>12, <1>14, <1>15, <1>16, <1>17,
     <1>18, <1>20, <1>21, <1>22, <1>23, <1>24
  DEF Next, PlaceStep, SweepStep
<1>26. QED
  BY <1>1, <1>25 DEF IInv

\* The inductive invariant, for any users, nodes, uuids and capacities.
LEMMA IInvAlways == OneWorker => (Spec => []IInv)
<1> SUFFICES ASSUME OneWorker PROVE Spec => []IInv
  OBVIOUS
<1>1. Init => IInv
  BY IInvInit
<1>2. IInv /\ [Next]_vars => IInv'
  BY IInvStep
<1>3. QED
  BY <1>1, <1>2, PTL DEF Spec

-----------------------------------------------------------------------------
(* The theorems.                                                           *)

\* With requests one at a time no user ever has two unreleased assignments,
\* whatever nodes fail, answer late or crash the head in between: the swap in
\* assign_config and its reversal by hand never leave a second row behind.
THEOREM OneActive == OneWorker => (Spec => []OneActivePerUser)
<1>1. IInv => OneActivePerUser
  BY DEF IInv
<1>2. QED
  BY <1>1, IInvAlways, PTL

\* Which steps change the live rows: only a COMMIT does.
LEMMA LiveChangesAtCommit ==
    ASSUME IInv, [Next]_vars, live' # live
    PROVE  \E w \in Worker :
             /\ Commit(w) /\ tx[w].kind # "idle"
             /\ \/ Finish(w)
                \/ SweepCommit(w)
                \/ NoCapacity(w) /\ tx[w].kind = "grant"
<1>1. PICK w \in Worker :
        \/ Finish(w)
        \/ SweepCommit(w)
        \/ NoCapacity(w) /\ tx[w].kind = "grant"
  BY DEF Next, PlaceStep, SweepStep, Connect, Reconcile, SetBan, Grant, TryNode,
     Undo, NoCapacity, SweepBegin, SweepRelease, SweepNext, PushOk, PushFail,
     Abort, Lapse, DrainOutbox, vars
<1>2. QED
  BY <1>1 DEF Finish, SweepCommit, NoCapacity, Placing

\* With requests one at a time a committed row is on its node when it is
\* committed: connect never answers with a link that no node serves.
THEOREM CommittedLink == OneWorker => (Spec => CommittedLinkWorks)
<1> SUFFICES ASSUME OneWorker PROVE Spec => CommittedLinkWorks
  OBVIOUS
<1>1. IInv /\ [Next]_vars
        => [\A x \in live' \ live : x \in config'[x.node]]_vars
  <2> SUFFICES ASSUME IInv, [Next]_vars, NEW x \in live' \ live
               PROVE  x \in config'[x.node]
    OBVIOUS
  <2>1. PICK w \in Worker :
          /\ Commit(w) /\ tx[w].kind # "idle"
          /\ tx[w].pc \in {"choose", "pushed"}
    BY LiveChangesAtCommit DEF Finish, SweepCommit, NoCapacity
  <2>2. x \in config[x.node]
    BY <2>1, CommitEffect
  <2>3. QED
    BY <2>1, <2>2 DEF Commit
<1>2. QED
  BY <1>1, IInvAlways, PTL DEF Spec, CommittedLinkWorks

\* With requests one at a time a sweep never reports as released an id that
\* its node still runs.
THEOREM SweepReleases == OneWorker => (Spec => SweepReleasesOnlyRemoved)
<1> SUFFICES ASSUME OneWorker PROVE Spec => SweepReleasesOnlyRemoved
  OBVIOUS
<1>1. IInv /\ [Next]_vars
        => [\A w \in Worker :
              tx[w].kind = "sweep" /\ tx'[w].kind = "idle"
                => \A x \in live \ live' : x \notin config[x.node]]_vars
  <2> SUFFICES ASSUME IInv, [Next]_vars, NEW w \in Worker,
                      tx[w].kind = "sweep", NEW x \in live \ live'
               PROVE  x \notin config[x.node]
    OBVIOUS
  <2>1. PICK v \in Worker :
          /\ Commit(v) /\ tx[v].kind # "idle"
          /\ \/ Finish(v)
             \/ SweepCommit(v)
             \/ NoCapacity(v) /\ tx[v].kind = "grant"
    BY LiveChangesAtCommit
  <2>2. v = w
    BY DEF OneWorker
  <2>3. tx[v].pc = "choose" /\ ~Placing(tx[v])
    BY <2>1, <2>2 DEF Finish, SweepCommit, Placing
  <2>4. QED
    BY <2>1, <2>2, <2>3, CommitEffect
<1>2. QED
  BY <1>1, IInvAlways, PTL DEF Spec, SweepReleasesOnlyRemoved

\* With requests one at a time an entitled user who has a place never loses it
\* without getting another, whatever fails while they are being moved.
THEOREM EntitledKeeps == OneWorker => (Spec => EntitledKeepsPlace)
<1> SUFFICES ASSUME OneWorker PROVE Spec => EntitledKeepsPlace
  OBVIOUS
<1>1. IInv /\ [Next]_vars
        => [\A u \in User :
              Entitled(u) /\ LiveOf(u) # {} => LiveOf(u)' # {}]_vars
  <2> SUFFICES ASSUME IInv, [Next]_vars, NEW u \in User, Entitled(u),
                      LiveOf(u) # {}
               PROVE  LiveOf(u)' # {}
    OBVIOUS
  <2>1. CASE live' = live
    BY <2>1 DEF LiveOf
  <2>2. CASE live' # live
    <3>1. PICK w \in Worker :
            /\ Commit(w) /\ tx[w].kind # "idle"
            /\ tx[w].pc \in {"choose", "pushed"}
      BY <2>2, LiveChangesAtCommit DEF Finish, SweepCommit, NoCapacity
    <3>2. PICK y \in live : y.user = u
      BY DEF LiveOf
    <3>3. CASE \E x \in Assignment :
                 /\ x.user = tx[w].user
                 /\ live' = (live \cup {x}) \ LiveOf(tx[w].user)
                 /\ x \notin live
      BY <3>2, <3>3 DEF LiveOf
    <3>4. CASE \A x \in live \ live' : ~Entitled(x.user)
      BY <3>2, <3>4 DEF LiveOf
    <3>5. QED
      BY <2>2, <3>1, <3>3, <3>4, CommitEffect
  <2>3. QED
    BY <2>1, <2>2
<1>2. QED
  BY <1>1, IInvAlways, PTL DEF Spec, EntitledKeepsPlace

\* Whoever is moved without having asked has a push in the outbox from the
\* commit that moved them on: a grant without room commits, but moves nobody.
THEOREM UnaskedMoves == OneWorker => (Spec => UnaskedMoveIsQueued)
<1> SUFFICES ASSUME OneWorker PROVE Spec => UnaskedMoveIsQueued
  OBVIOUS
<1>1. IInv /\ [Next]_vars
        => [\A w \in Worker :
              LET t == tx[w] IN
              t.kind \in {"grant", "reconcile"} /\ live' # live /\ tx'[w] # t
                => t.user \in queued']_vars
  <2> SUFFICES ASSUME IInv, [Next]_vars, NEW w \in Worker, live' # live,
                      tx[w].kind \in {"grant", "reconcile"}
               PROVE  tx[w].user \in queued'
    BY Zenon
  <2>1. PICK v \in Worker :
          /\ Commit(v) /\ tx[v].kind # "idle"
          /\ \/ Finish(v)
             \/ SweepCommit(v)
             \/ NoCapacity(v) /\ tx[v].kind = "grant"
    BY LiveChangesAtCommit
  <2>2. v = w
    BY DEF OneWorker
  <2>3. CASE Finish(w)
    BY <2>3 DEF Finish, Unasked
  <2>4. CASE SweepCommit(w)
    BY <2>4 DEF SweepCommit
  <2>5. CASE NoCapacity(w)
    <3>1. tx[w].pc = "choose" /\ Placing(tx[w])
      BY <2>5 DEF NoCapacity
    <3>2. tx[w].kind # "sweep"
      OBVIOUS
    <3>3. live' = live
      BY <2>1, <2>2, <3>1, <3>2, CommitEffect
    <3>4. QED
      BY <3>3
  <2>6. QED
    BY <2>1, <2>2, <2>3, <2>4, <2>5
<1>2. QED
  BY <1>1, IInvAlways, PTL DEF Spec, UnaskedMoveIsQueued

-----------------------------------------------------------------------------
(* Capacity.                                                               *)

\* free_admission_ratio is at most one.  The setting is a number that nothing
\* checks; with a larger one grace users alone would fill a node twice.
GraceLeavesRoom == GraceCapacity <= Capacity

\* What selection saw is still true when it is used: every node that a
\* placement may still try has a seat left, and so has the one it tries.
RoomInv(t) ==
    Placing(t) =>
      /\ \A n \in t.todo : Load(n) < Capacity
      /\ t.pc # "choose" => t.at \in t.todo

CapInv ==
    /\ IInv
    /\ WithinCapacity
    /\ \A w \in Worker : RoomInv(tx[w])

LEMMA LiveFinite == TypeOK => IsFiniteSet(live)
  BY FS_Subset, FiniteAssumption DEF TypeOK

LEMMA SelectedRoom ==
    ASSUME GraceLeavesRoom, TypeOK, NEW u, NEW t, NEW kind, NEW prev,
           NEW scanned \in SUBSET Node, NEW dirty
    PROVE  RoomInv(Selected(kind, u, t, prev, scanned, dirty))
<1> DEFINE open == {n \in scanned : Load(n) < Ceiling(t)}
           new == Selected(kind, u, t, prev, scanned, dirty)
<1>1. new.todo = open /\ new.pc = "choose"
  BY SelectedFields
<1>2. \A n \in Node : Load(n) \in Nat
  BY LoadIsNat
<1>3. Ceiling(t) \in Nat /\ Capacity \in Nat /\ Ceiling(t) <= Capacity
  BY CapacityAssumption DEF Ceiling, GraceLeavesRoom
<1>4. ASSUME NEW n \in open PROVE Load(n) < Capacity
  <2>1. n \in Node /\ Load(n) < Ceiling(t)
    OBVIOUS
  <2>2. QED
    BY <1>2, <1>3, <2>1
<1> HIDE DEF new, open
<1>5. RoomInv(new)
  BY <1>1, <1>4 DEF RoomInv
<1>6. QED
  BY <1>5 DEF new

LEMMA StartRoom ==
    ASSUME OneWorker, GraceLeavesRoom, IInv, NEW w \in Worker, NEW u \in User, NEW t,
           NEW kind, NEW prev, StartPlacing(w, kind, u, t, prev), UNCHANGED live
    PROVE  \A v \in Worker : RoomInv(tx[v])'
<1>1. PICK scanned \in SUBSET Node : \E dirty \in SUBSET scanned :
        tx' = [tx EXCEPT ![w] = Selected(kind, u, t, prev, scanned, dirty)]
  BY DEF StartPlacing
<1>2. PICK dirty \in SUBSET scanned :
        tx' = [tx EXCEPT ![w] = Selected(kind, u, t, prev, scanned, dirty)]
  BY <1>1
<1> DEFINE new == Selected(kind, u, t, prev, scanned, dirty)
<1>3. RoomInv(new)
  BY SelectedRoom DEF IInv, TypeInv
<1> HIDE DEF new
<1>4. \A v \in Worker : tx'[v] = new
  BY <1>2, OnlyTx DEF IInv, TypeInv, TypeOK, new
<1>5. \A n : Load(n)' = Load(n)
  BY DEF Load
<1>6. QED
  BY <1>3, <1>4, <1>5 DEF RoomInv, Placing

\* A transaction that goes on without a commit tries no node that was not open
\* to it before.
LEMMA RoomKept ==
    ASSUME OneWorker, CapInv, NEW w \in Worker, NEW new, UNCHANGED live,
           tx' = [tx EXCEPT ![w] = new], Placing(new) => Placing(tx[w]),
           Placing(new) => new.todo \subseteq tx[w].todo,
           Placing(new) /\ new.pc # "choose" => new.at \in new.todo
    PROVE  WithinCapacity' /\ \A v \in Worker : RoomInv(tx[v])'
<1>1. \A v \in Worker : tx'[v] = new
  BY OnlyTx DEF CapInv, IInv, TypeInv, TypeOK
<1>2. \A n : Load(n)' = Load(n)
  BY DEF Load
<1>3. RoomInv(tx[w]) /\ WithinCapacity
  BY DEF CapInv
<1>4. \A v \in Worker : RoomInv(tx[v])'
  BY <1>1, <1>2, <1>3 DEF RoomInv, Placing
<1>5. WithinCapacity'
  BY <1>2, <1>3 DEF WithinCapacity
<1>6. QED
  BY <1>4, <1>5

LEMMA IdleRoom ==
    ASSUME OneWorker, CapInv, NEW w \in Worker, tx' = [tx EXCEPT ![w] = Idle]
    PROVE  \A v \in Worker : RoomInv(tx[v])'
<1>1. \A v \in Worker : tx'[v] = Idle
  BY OnlyTx DEF CapInv, IInv, TypeInv, TypeOK
<1>2. Idle.kind = "idle"
  BY DEF Idle
<1>3. QED
  BY <1>1, <1>2 DEF RoomInv, Placing

\* A commit adds one row at most, on the node that still had room.
LEMMA CommitRoom ==
    ASSUME OneWorker, CapInv, NEW w \in Worker, Commit(w), tx[w].kind # "idle",
           tx[w].pc \in {"choose", "pushed"}
    PROVE  WithinCapacity'
<1> DEFINE t == tx[w]
           on(n) == {x \in live : x.node = n}
<1>1. IsFiniteSet(live) /\ \A n \in Node : Load(n) \in Nat
  BY LiveFinite, LoadIsNat DEF CapInv, IInv, TypeInv
<1>2. \A n \in Node : IsFiniteSet(on(n)) /\ Load(n) = Cardinality(on(n))
  <2>1. \A n \in Node : on(n) \subseteq live
    OBVIOUS
  <2>2. QED
    BY <1>1, <2>1, FS_Subset DEF Load
<1>3. \A n \in Node : Load(n) <= Capacity
  BY DEF CapInv, WithinCapacity
<1>4. CASE live' \subseteq live
  <2> SUFFICES ASSUME NEW n \in Node PROVE Load(n)' <= Capacity
    BY DEF WithinCapacity
  <2>1. {x \in live' : x.node = n} \subseteq on(n)
    BY <1>4
  <2> DEFINE new == {x \in live' : x.node = n}
  <2>2. Load(n)' = Cardinality(new)
    BY DEF Load
  <2> HIDE DEF on, new
  <2>3. Cardinality(new) <= Cardinality(on(n)) /\ Cardinality(new) \in Nat
    BY <1>2, <2>1, FS_Subset, FS_CardinalityType DEF new
  <2>4. QED
    BY <1>1, <1>2, <1>3, <2>2, <2>3, CapacityAssumption
<1>5. CASE Placing(t) /\ t.pc = "pushed"
  <2>1. PlacingInv(t) /\ RoomInv(t) /\ t \in Tx /\ TxKnown(t)
    BY DEF CapInv, IInv, TypeInv, TypeOK
  <2>2. PICK x \in Assignment : t.added = {x} /\ x.node = t.at
    BY <1>5, <2>1 DEF PlacingInv
  <2>3. t.at \in Node /\ Load(t.at) < Capacity
    BY <1>5, <2>1 DEF RoomInv, TxKnown
  <2>4. live' \subseteq live \cup {x}
    <3>1. t.unrel = {}
      BY <1>5, <2>1 DEF PlacingInv
    <3>2. live' = (live \cup t.added \cup t.unrel) \ t.rel
      BY DEF Commit, LiveIn
    <3>3. QED
      BY <2>2, <3>1, <3>2
  <2> SUFFICES ASSUME NEW n \in Node PROVE Load(n)' <= Capacity
    BY DEF WithinCapacity
  <2> DEFINE new == {y \in live' : y.node = n}
  <2>5. Load(n)' = Cardinality(new)
    BY DEF Load
  <2>6. CASE n # t.at
    <3>1. new \subseteq on(n)
      BY <2>2, <2>4, <2>6
    <3>2. Cardinality(new) <= Cardinality(on(n)) /\ Cardinality(new) \in Nat
      BY <1>2, <3>1, FS_Subset, FS_CardinalityType
    <3>3. QED
      BY <1>1, <1>2, <1>3, <2>5, <3>2, CapacityAssumption
  <2>7. CASE n = t.at
    <3>1. new \subseteq on(n) \cup {x}
      BY <2>4
    <3> HIDE DEF on, new
    <3>2. /\ IsFiniteSet(on(n) \cup {x})
          /\ Cardinality(on(n) \cup {x}) <= Cardinality(on(n)) + 1
      <4>1. CASE x \in on(n)
        <5>1. on(n) \cup {x} = on(n)
          BY <4>1
        <5>2. IsFiniteSet(on(n)) /\ Cardinality(on(n)) \in Nat
          BY <1>2, FS_CardinalityType
        <5>3. Cardinality(on(n)) <= Cardinality(on(n)) + 1
          BY <5>2
        <5>4. QED
          BY <5>1, <5>2, <5>3
      <4>2. CASE x \notin on(n)
        <5>1. Cardinality(on(n) \cup {x}) = Cardinality(on(n)) + 1
          BY <1>2, <4>2, FS_AddElement
        <5>2. QED
          BY <1>1, <1>2, <5>1, FS_AddElement
      <4>3. QED
        BY <4>1, <4>2
    <3>3. Cardinality(new) <= Cardinality(on(n) \cup {x}) /\ Cardinality(new) \in Nat
          /\ Cardinality(on(n) \cup {x}) \in Nat
      BY <3>1, <3>2, FS_Subset, FS_CardinalityType
    <3>4. QED
      BY <1>1, <1>2, <2>3, <2>5, <2>7, <3>2, <3>3, CapacityAssumption
  <2>8. QED
    BY <2>6, <2>7
<1>6. QED
  BY <1>4, <1>5, CommitEffect DEF CapInv

LEMMA CapInvInit == Init => CapInv
<1> SUFFICES ASSUME Init PROVE CapInv
  OBVIOUS
<1>1. IInv
  BY IInvInit
<1>2. Idle.kind = "idle"
  BY DEF Idle
<1>3. \A w \in Worker : RoomInv(tx[w])
  BY <1>2 DEF Init, RoomInv, Placing
<1>4. \A n \in Node : Load(n) = 0
  <2>1. \A n \in Node : {x \in live : x.node = n} = {}
    BY DEF Init
  <2>2. QED
    BY <2>1, FS_EmptySet DEF Load
<1>5. WithinCapacity
  BY <1>4, CapacityAssumption DEF WithinCapacity
<1>6. QED
  BY <1>1, <1>3, <1>5 DEF CapInv

LEMMA CapInvStep ==
    ASSUME OneWorker, GraceLeavesRoom, CapInv, [Next]_vars
    PROVE  CapInv'
<1> DEFINE Room == WithinCapacity' /\ \A v \in Worker : RoomInv(tx[v])'
<1>0. IInv /\ IInv'
  BY IInvStep DEF CapInv
<1>1. \A w \in Worker : tx[w] \in Tx /\ RoomInv(tx[w])
  BY <1>0 DEF IInv, TypeInv, TypeOK, CapInv
<1>2. ASSUME UNCHANGED live PROVE WithinCapacity'
  BY <1>2 DEF CapInv, WithinCapacity, Load
<1>3. ASSUME UNCHANGED <<live, tx>> PROVE Room
  <2>1. \A n : Load(n)' = Load(n)
    BY <1>3 DEF Load
  <2>2. QED
    BY <1>1, <1>2, <1>3, <2>1 DEF RoomInv
<1>4. ASSUME NEW w \in Worker, NEW u \in User, NEW kind, NEW t, NEW prev,
             StartPlacing(w, kind, u, t, prev), UNCHANGED live
      PROVE  Room
  BY <1>0, <1>2, <1>4, StartRoom
<1>5. ASSUME NEW w \in Worker, NEW u \in User,
             Connect(w, u) \/ Reconcile(w, u) \/ \E t \in Tier : Grant(w, u, t)
      PROVE  Room
  <2>1. CASE Connect(w, u)
    BY <1>4, <2>1 DEF Connect
  <2>2. CASE Reconcile(w, u)
    BY <1>4, <2>2 DEF Reconcile
  <2>3. CASE \E t \in Tier : Grant(w, u, t)
    BY <1>3, <1>4, <2>3 DEF Grant
  <2>4. QED
    BY <1>5, <2>1, <2>2, <2>3
<1>6. ASSUME NEW w \in Worker, NEW n \in Node, TryNode(w, n) PROVE Room
  <2> DEFINE t == tx[w]
  <2>1. Placing(t) /\ n \in t.todo /\ UNCHANGED live
    BY <1>6 DEF TryNode
  <2>2. PICK id \in Uuid :
          LET x    == [user |-> t.user, node |-> n, tier |-> t.tier, uuid |-> id]
              rel  == t.rel \cup t.prev
              unr  == t.unrel \ t.prev
              rows == (live \cup {x} \cup unr) \ rel
          IN tx' = [tx EXCEPT ![w] =
                      [t EXCEPT !.pc = "push", !.at = n, !.added = {x},
                                !.rel = rel, !.unrel = unr,
                                !.locks = @ \cup t.loads,
                                !.image = Rendered(n, rows)]]
    BY <1>6 DEF TryNode
  <2> DEFINE a == {[user |-> t.user, node |-> n, tier |-> t.tier, uuid |-> id]}
             b == t.rel \cup t.prev
             c == t.unrel \ t.prev
             d == t.locks \cup t.loads
             e == Rendered(n, (live \cup a \cup c) \ b)
  <2> DEFINE new == [t EXCEPT !.pc = "push", !.at = n, !.added = a, !.rel = b,
                              !.unrel = c, !.locks = d, !.image = e]
  <2>3. tx' = [tx EXCEPT ![w] = new]
    BY <1>1, <2>2 DEF Tx
  <2> HIDE DEF a, b, c, d, e
  <2>4. new.todo = t.todo /\ new.at = n
    BY <1>1 DEF Tx
  <2> HIDE DEF new, t
  <2>5. QED
    BY <2>1, <2>3, <2>4, RoomKept DEF t
<1>7. ASSUME NEW w \in Worker, PushOk(w) \/ PushFail(w) PROVE Room
  <2> DEFINE t == tx[w]
  <2>1. PICK pc : tx' = [tx EXCEPT ![w] = [t EXCEPT !.pc = pc]]
    BY <1>7 DEF PushOk, PushFail
  <2> DEFINE new == [t EXCEPT !.pc = pc]
  <2>2. new.todo = t.todo /\ new.at = t.at /\ new.kind = t.kind
    BY <1>1 DEF Tx
  <2>3. t.pc # "choose" /\ UNCHANGED live
    BY <1>7 DEF PushOk, PushFail
  <2>4. Placing(t) => t.at \in t.todo
    BY <1>1, <2>3 DEF RoomInv
  <2>5. tx' = [tx EXCEPT ![w] = new]
    BY <2>1
  <2> HIDE DEF new
  <2>6. QED
    BY <2>2, <2>3, <2>4, <2>5, RoomKept DEF Placing
<1>8. ASSUME NEW w \in Worker, Undo(w) PROVE Room
  <2> DEFINE new == Reversed(tx[w])
  <2>1. new.todo \subseteq tx[w].todo /\ new.pc = "choose" /\ new.kind = tx[w].kind
    BY <1>1 DEF Tx, Reversed
  <2>2. tx' = [tx EXCEPT ![w] = new] /\ UNCHANGED live
    BY <1>8 DEF Undo
  <2> HIDE DEF new
  <2>3. QED
    BY <2>1, <2>2, RoomKept DEF Placing
<1>9. ASSUME NEW w \in Worker, NEW new, UNCHANGED live, tx' = [tx EXCEPT ![w] = new],
             new.kind \in {"idle", "sweep"}
      PROVE  Room
  BY <1>9, RoomKept DEF Placing
<1>10. ASSUME NEW w \in Worker, SweepBegin(w) PROVE Room
  <2> DEFINE new == [Idle EXCEPT !.kind = "sweep", !.doomed = Doomed,
                                 !.todo = {x.node : x \in Doomed}]
  <2>1. new.kind = "sweep"
    BY DEF Idle
  <2>2. tx' = [tx EXCEPT ![w] = new] /\ UNCHANGED live
    BY <1>10 DEF SweepBegin
  <2> HIDE DEF new
  <2>3. QED
    BY <1>9, <2>1, <2>2
<1>11. ASSUME NEW w \in Worker, NEW n \in Node, SweepRelease(w, n) PROVE Room
  <2> DEFINE t == tx[w]
  <2>1. t.kind = "sweep" /\ UNCHANGED live
    BY <1>11 DEF SweepRelease
  <2>2. PICK a, b : tx' = [tx EXCEPT ![w] = [t EXCEPT !.pc = "push", !.at = n,
                                                      !.rel = a, !.image = b]]
    BY <1>11 DEF SweepRelease
  <2> DEFINE new == [t EXCEPT !.pc = "push", !.at = n, !.rel = a, !.image = b]
  <2>3. new.kind = "sweep"
    BY <1>1, <2>1 DEF Tx
  <2> HIDE DEF new, t
  <2>4. QED
    BY <1>9, <2>1, <2>2, <2>3 DEF new, t
<1>12. ASSUME NEW w \in Worker, SweepNext(w) PROVE Room
  <2> DEFINE t == tx[w]
             a == t.rel \ Back(t)
             b == t.unrel \cup Back(t)
             c == t.todo \ {t.at}
             d == t.locks \cup {t.at}
             new == [t EXCEPT !.pc = "choose", !.at = None, !.image = {},
                              !.rel = a, !.unrel = b, !.todo = c, !.locks = d]
  <2>1. t.kind = "sweep" /\ UNCHANGED live
    BY <1>12 DEF SweepNext
  <2>2. tx' = [tx EXCEPT ![w] = new]
    BY <1>1, <1>12 DEF SweepNext, Tx
  <2>3. new.kind = "sweep"
    BY <1>1, <2>1 DEF Tx
  <2> HIDE DEF new, t
  <2>4. QED
    BY <1>9, <2>1, <2>2, <2>3 DEF new, t
<1>13. ASSUME NEW w \in Worker, Commit(w), tx[w].kind # "idle",
              tx[w].pc \in {"choose", "pushed"}
       PROVE  Room
  BY <1>13, CommitRoom, IdleRoom DEF Commit
<1>14. ASSUME NEW w \in Worker,
              Finish(w) \/ SweepCommit(w) \/ (NoCapacity(w) /\ tx[w].kind = "grant")
       PROVE  Room
  BY <1>13, <1>14 DEF Finish, SweepCommit, NoCapacity, Placing
<1>15. ASSUME NEW w \in Worker, Abort(w) \/ (NoCapacity(w) /\ tx[w].kind # "grant")
       PROVE  Room
  BY <1>2, <1>15, IdleRoom DEF Abort, NoCapacity
<1>16. ASSUME NEW u \in User, Lapse(u) \/ DrainOutbox(u) PROVE Room
  BY <1>3, <1>16 DEF Lapse, DrainOutbox
<1>17. ASSUME NEW w \in Worker, NEW u \in User, SetBan(w, u) PROVE Room
  BY <1>3, <1>17 DEF SetBan
<1>18. ASSUME UNCHANGED vars PROVE Room
  BY <1>3, <1>18 DEF vars
<1>19. Room
  BY <1>5, <1>6, <1>7, <1>8, <1>10, <1>11, <1>12, <1>14, <1>15, <1>16, <1>17, <1>18
  DEF Next, PlaceStep, SweepStep
<1>20. QED
  BY <1>0, <1>19 DEF CapInv

\* With requests one at a time no node ever has more users than it has room
\* for: the counts that selection saw hold until the commit that uses them,
\* however many nodes refuse in between.
THEOREM NodesHaveRoom ==
    OneWorker /\ GraceLeavesRoom => (Spec => []WithinCapacity)
<1> SUFFICES ASSUME OneWorker, GraceLeavesRoom PROVE Spec => []WithinCapacity
  OBVIOUS
<1>1. Init => CapInv
  BY CapInvInit
<1>2. CapInv /\ [Next]_vars => CapInv'
  BY CapInvStep
<1>3. CapInv => WithinCapacity
  BY DEF CapInv
<1>4. QED
  BY <1>1, <1>2, <1>3, PTL DEF Spec
=============================================================================
