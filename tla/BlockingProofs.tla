--------------------------- MODULE BlockingProofs ---------------------------
(* What Blocking guarantees for every number of users, nodes, inbounds and    *)
(* ports: configs a node can bind, whole moves, and no inbound that is        *)
(* declared dead on the word of too few.                                      *)
EXTENDS Blocking, FiniteSetTheorems, TLAPS

-----------------------------------------------------------------------------
(* The tables and the rows of inbounds.                                       *)

LEMMA TableFields ==
    ASSUME NEW v \in Tables
    PROVE  /\ v = [row |-> v.row, seat |-> v.seat]
           /\ v.row \in [Inbound -> Row \cup {None}]
           /\ v.seat \in [User -> Inbound \cup {None}]
           /\ \A i \in Inbound : v.row[i] # None => v.row[i] \in Row
  BY DEF Tables

LEMMA NewRowFields ==
    ASSUME NEW n \in Node, NEW p \in Port
    PROVE  /\ NewRow(n, p) \in Row /\ NewRow(n, p) # None
           /\ NewRow(n, p).node = n /\ NewRow(n, p).port = p
           /\ NewRow(n, p).state = "active" /\ NewRow(n, p).count = 0
           /\ NewRow(n, p).by = {}
<1> DEFINE no == FALSE
<1>1. no \in BOOLEAN /\ no = FALSE
  OBVIOUS
<1>2. NewRow(n, p) = [node |-> n, port |-> p, state |-> "active", count |-> 0,
                      open |-> no, by |-> {}, fresh |-> no]
  BY DEF NewRow
<1> HIDE DEF no
<1>3. NewRow(n, p) \in Row
  BY <1>1, <1>2, ThresholdAssumption DEF Row
<1>4. NewRow(n, p) # None
  BY <1>3, RowNoneAssumption
<1>5. /\ NewRow(n, p).node = n /\ NewRow(n, p).port = p
      /\ NewRow(n, p).state = "active" /\ NewRow(n, p).count = 0
      /\ NewRow(n, p).by = {}
  BY <1>2
<1>6. QED
  BY <1>1, <1>3, <1>4, <1>5

\* A report counts in the window, and its author in those who reported in it.
LEMMA BumpedEffect ==
    ASSUME NEW r \in Row, NEW u \in User
    PROVE  LET b == Bumped(r, u) IN
           /\ b \in Row
           /\ b.node = r.node /\ b.port = r.port
           /\ b.open
           /\ b.by = IF r.open THEN r.by \cup {u} ELSE {u}
           /\ b.count = IF r.open THEN IF r.count < FailThreshold THEN r.count + 1 ELSE r.count
                        ELSE 1
           /\ b.state = IF b.count > 1 /\ r.state = "active" THEN "suspect" ELSE r.state
<1> DEFINE yes == TRUE
           more == IF r.count < FailThreshold THEN r.count + 1 ELSE r.count
           both == r.by \cup {u}
           c == IF r.open THEN more ELSE 1
           s == IF c > 1 /\ r.state = "active" THEN "suspect" ELSE r.state
           w == IF r.open THEN both ELSE {u}
<1>1. /\ r.count \in Nat /\ r.count <= FailThreshold /\ FailThreshold \in Nat
      /\ FailThreshold > 1
  BY ThresholdAssumption DEF Row
<1>2. c \in 0..FailThreshold /\ w \in SUBSET User /\ s \in {"active", "suspect", "dead"}
      /\ yes \in BOOLEAN /\ yes
  BY <1>1 DEF Row
<1>3. CASE r.open
  <2>1. r.open = yes
    BY <1>3 DEF Row
  <2> DEFINE q == [r EXCEPT !.count = c, !.by = w]
  <2>2. Bumped(r, u) = Suspected(q)
    BY <1>3 DEF Bumped, Row
  <2> HIDE DEF c, w, s, yes
  <2>3. /\ q \in Row /\ q.node = r.node /\ q.port = r.port /\ q.count = c /\ q.by = w
        /\ q.state = r.state
    BY <1>2 DEF Row
  <2>4. q.open = yes
    BY <2>1, Zenon DEF Row
  <2> HIDE DEF q
  <2>5. Suspected(q) = [q EXCEPT !.state = s]
    BY <2>3 DEF Suspected, s, Row
  <2>6. /\ Suspected(q) \in Row /\ Suspected(q).node = q.node /\ Suspected(q).port = q.port
        /\ Suspected(q).count = q.count /\ Suspected(q).by = q.by /\ Suspected(q).state = s
    BY <1>2, <2>3, <2>5 DEF Row
  <2>7. Suspected(q).open = q.open
    BY <2>3, <2>5, Zenon DEF Row
  <2>8. Bumped(r, u).open
    BY <1>2, <2>2, <2>4, <2>7, Zenon
  <2>9. QED
    BY <2>2, <2>3, <2>6, <2>8 DEF c, w, s
<1>4. CASE ~r.open
  <2> DEFINE q == [r EXCEPT !.count = c, !.open = yes, !.by = w]
  <2>2. Bumped(r, u) = Suspected(q)
    BY <1>4 DEF Bumped
  <2> HIDE DEF c, w, s, yes
  <2>3. /\ q \in Row /\ q.node = r.node /\ q.port = r.port /\ q.count = c /\ q.by = w
        /\ q.state = r.state
    BY <1>2 DEF Row
  <2>4. q.open = yes
    BY Zenon DEF Row
  <2> HIDE DEF q
  <2>5. Suspected(q) = [q EXCEPT !.state = s]
    BY <2>3 DEF Suspected, s, Row
  <2>6. /\ Suspected(q) \in Row /\ Suspected(q).node = q.node /\ Suspected(q).port = q.port
        /\ Suspected(q).count = q.count /\ Suspected(q).by = q.by /\ Suspected(q).state = s
    BY <1>2, <2>3, <2>5 DEF Row
  <2>7. Suspected(q).open = q.open
    BY <2>3, <2>5, Zenon DEF Row
  <2>8. Bumped(r, u).open
    BY <1>2, <2>2, <2>4, <2>7, Zenon
  <2>9. QED
    BY <2>2, <2>3, <2>6, <2>8 DEF c, w, s
<1>5. QED
  BY <1>3, <1>4

LEMMA KilledEffect ==
    ASSUME NEW r \in Row
    PROVE  /\ Killed(r) \in Row
           /\ Killed(r).node = r.node /\ Killed(r).port = r.port
           /\ Killed(r).state = "dead" /\ Killed(r).by = r.by /\ Killed(r).count = r.count
           /\ Killed(r).open = r.open
<1> DEFINE yes == TRUE
<1>1. Killed(r) = [r EXCEPT !.state = "dead", !.fresh = yes] /\ yes \in BOOLEAN
  BY DEF Killed
<1> HIDE DEF yes
<1>2. /\ Killed(r) \in Row
      /\ Killed(r).node = r.node /\ Killed(r).port = r.port
      /\ Killed(r).state = "dead" /\ Killed(r).by = r.by /\ Killed(r).count = r.count
  BY <1>1 DEF Row
<1>3. Killed(r).open = r.open
  BY <1>1, Zenon DEF Row
<1>4. QED
  BY <1>2, <1>3

\* One row is changed.
LEMMA RowEdit ==
    ASSUME NEW v \in Tables, SeatsExist(v), NEW i \in Inbound, NEW r \in Row
    PROVE  LET e == [v EXCEPT !.row[i] = r] IN
           /\ e \in Tables /\ SeatsExist(e) /\ e.seat = v.seat
           /\ e.row[i] = r /\ \A j \in Inbound \ {i} : e.row[j] = v.row[j]
<1> DEFINE e == [v EXCEPT !.row[i] = r]
           rows == [v.row EXCEPT ![i] = r]
<1>1. /\ v.row \in [Inbound -> Row \cup {None}] /\ v.seat \in [User -> Inbound \cup {None}]
  BY TableFields
<1>2. e = [row |-> rows, seat |-> v.seat]
  BY TableFields DEF Tables
<1>3. /\ rows \in [Inbound -> Row \cup {None}]
      /\ rows[i] = r /\ \A j \in Inbound \ {i} : rows[j] = v.row[j]
  BY <1>1
<1> HIDE DEF e, rows
<1>4. e \in Tables /\ e.row = rows /\ e.seat = v.seat
  BY <1>1, <1>2, <1>3 DEF Tables
<1>5. SeatsExist(e)
  <2> SUFFICES ASSUME NEW u \in User, v.seat[u] # None PROVE rows[v.seat[u]] # None
    BY <1>4 DEF SeatsExist
  <2>1. v.seat[u] \in Inbound /\ v.row[v.seat[u]] # None
    BY <1>1 DEF SeatsExist
  <2>2. r # None
    BY RowNoneAssumption
  <2>3. QED
    BY <1>3, <2>1, <2>2
<1>6. QED
  BY <1>3, <1>4, <1>5 DEF e

\* Rows that nothing reads are gone, the seats and their inbounds stay.
LEMMA ForgottenEffect ==
    ASSUME NEW v \in Tables, SeatsExist(v)
    PROVE  LET f == Forgotten(v) IN
           /\ f \in Tables /\ SeatsExist(f) /\ f.seat = v.seat
           /\ \A i \in Inbound :
                /\ f.row[i] # None => f.row[i] = v.row[i]
                /\ v.row[i] # None /\ (v.row[i].state # "dead" \/ Sitting(v, i) # {})
                     => f.row[i] = v.row[i]
<1> DEFINE rows == [i \in Inbound |-> IF Spent(v, i) THEN None ELSE v.row[i]]
<1>1. v.row \in [Inbound -> Row \cup {None}] /\ v.seat \in [User -> Inbound \cup {None}]
  BY TableFields
<1>2. Forgotten(v) = [row |-> rows, seat |-> v.seat]
  BY TableFields DEF Forgotten
<1>3. rows \in [Inbound -> Row \cup {None}]
  BY <1>1
<1>4. \A i \in Inbound :
        /\ rows[i] # None => rows[i] = v.row[i]
        /\ v.row[i] # None /\ (v.row[i].state # "dead" \/ Sitting(v, i) # {})
             => rows[i] = v.row[i]
  BY DEF Spent
<1> HIDE DEF rows
<1>5. Forgotten(v) \in Tables /\ Forgotten(v).row = rows /\ Forgotten(v).seat = v.seat
  BY <1>1, <1>2, <1>3 DEF Tables
<1>6. SeatsExist(Forgotten(v))
  <2>1. \A u \in User : v.seat[u] # None => v.row[v.seat[u]] # None /\ u \in Sitting(v, v.seat[u])
    BY DEF SeatsExist, Sitting
  <2>2. QED
    BY <1>1, <1>4, <1>5, <2>1 DEF SeatsExist
<1>7. QED
  BY <1>4, <1>5, <1>6

-----------------------------------------------------------------------------
(* A request under way.                                                       *)

\* Somebody asked and somebody is being placed; between requests the session
\* sees the tables, and no config is counted as pushed.
Base ==
    /\ TypeOK
    /\ tx.pc # "idle" => tx.who \in User /\ tx.by \in User
    /\ tx.pc = "idle" => tx.view = db /\ runs = NoPushes

LEMMA BaseFacts ==
    ASSUME Base
    PROVE  /\ db \in Tables /\ SeatsExist(db)
           /\ tx.view \in Tables /\ SeatsExist(tx.view)
           /\ tx \in Tx /\ control \in [Node -> SUBSET Port]
  BY DEF Base, TypeOK, Tx

LEMMA IdleFields ==
    ASSUME NEW v \in Tables, db = v
    PROVE  /\ Idle \in Tx
           /\ Idle = [pc |-> "idle", kind |-> "connect", by |-> None, who |-> None,
                      todo |-> {}, not |-> {}, notAt |-> {}, waiting |-> {}, told |-> {},
                      broken |-> {}, held |-> {}, unseen |-> {}, view |-> v]
  BY DEF Idle, Tx

LEMMA PlacingEffect ==
    ASSUME NEW t \in Tx, NEW u \in User, NEW v \in Tables, Placing(t, u, v)
    PROVE  /\ tx' \in Tx /\ tx'.pc = "choose" /\ tx'.who = u /\ tx'.view = v
           /\ tx'.by = t.by /\ tx'.not = t.not /\ tx'.waiting = t.waiting
           /\ tx'.told = t.told /\ tx'.broken = t.broken /\ tx'.unseen = t.unseen
           /\ tx'.kind = t.kind
<1> DEFINE open == {n \in Node \ t.notAt : Load(v, n) < Capacity[n]}
<1>1. open \in SUBSET Node
  OBVIOUS
<1>2. tx' = [t EXCEPT !.pc = "choose", !.who = u, !.view = v, !.todo = open]
  BY DEF Placing
<1> HIDE DEF open
<1>3. QED
  BY <1>1, <1>2 DEF Tx

\* A port that is chosen is free.
LEMMA PortChoicesFree ==
    ASSUME NEW v, NEW n \in Node, NEW p \in PortChoices(v, n)
    PROVE  p \in Port /\ p \notin LivePorts(v, n)
  BY DEF PortChoices, Port

LEMMA LivePortsAre ==
    ASSUME NEW v, NEW n \in Node, NEW p, p \notin LivePorts(v, n)
    PROVE  /\ p \notin occupied[n] \cup control[n]
           /\ \A i \in Inbound : v.row[i] # None /\ v.row[i].node = n
                                   /\ v.row[i].state # "dead" => v.row[i].port # p
  BY DEF LivePorts, CustomerPorts, RowsOf, Rows

\* An attempt seats the user on an inbound of the node that is active, an old
\* one or a new one on a port that is free.
Seated(v, n, j) ==
    /\ v \in Tables /\ SeatsExist(v)
    /\ v.seat = [tx.view.seat EXCEPT ![tx.who] = j]
    /\ v.row[j] \in Row /\ v.row[j].node = n /\ v.row[j].state = "active"
    /\ \A i \in Inbound \ {j} : v.row[i] = tx.view.row[i]
    /\ \/ v.row[j] = tx.view.row[j]
       \/ /\ tx.view.row[j] = None
          /\ \E p \in PortChoices(tx.view, n) : v.row[j] = NewRow(n, p)

LEMMA AttemptEffect ==
    ASSUME Base, tx.pc = "choose", NEW n \in Node, NEW v \in Attempts(tx.view, n)
    PROVE  \E j \in Inbound : Seated(v, n, j)
<1> DEFINE w == tx.view
           u == tx.who
<1>1. /\ w \in Tables /\ SeatsExist(w) /\ u \in User
      /\ w = [row |-> w.row, seat |-> w.seat]
      /\ w.row \in [Inbound -> Row \cup {None}] /\ w.seat \in [User -> Inbound \cup {None}]
  BY BaseFacts, TableFields DEF Base
<1>2. CASE Usable(w, n, tx.not) # {}
  <2>1. PICK j \in Best(w, n, tx.not) : v = [w EXCEPT !.seat[u] = j]
    BY <1>2 DEF Attempts
  <2>2. /\ j \in Inbound /\ w.row[j] # None /\ w.row[j] \in Row
        /\ w.row[j].node = n /\ w.row[j].state = "active"
    BY <1>1, <2>1 DEF Best, Usable, RowsOf, Rows
  <2> DEFINE seats == [w.seat EXCEPT ![u] = j]
  <2>3. seats \in [User -> Inbound \cup {None}]
    BY <1>1, <2>2
  <2>4. v = [row |-> w.row, seat |-> seats]
    BY <1>1, <2>1 DEF Tables
  <2>5. \A x \in User : seats[x] # None => w.row[seats[x]] # None
    BY <1>1, <2>2 DEF SeatsExist
  <2>6. seats = [tx.view.seat EXCEPT ![tx.who] = j]
    OBVIOUS
  <2> HIDE DEF w, u, seats
  <2>7. v \in Tables /\ v.row = w.row /\ v.seat = seats
    BY <1>1, <2>3, <2>4 DEF Tables
  <2>8. SeatsExist(v)
    BY <2>5, <2>7 DEF SeatsExist
  <2>9. QED
    BY <2>2, <2>6, <2>7, <2>8 DEF Seated, w, u
<1>3. CASE Usable(w, n, tx.not) = {}
  <2>1. PICK j \in Unused(w) : \E p \in PortChoices(w, n) :
          v = [row |-> [w.row EXCEPT ![j] = NewRow(n, p)], seat |-> [w.seat EXCEPT ![u] = j]]
    <3>1. v \in UNION {{[row |-> [w.row EXCEPT ![i] = NewRow(n, p)],
                         seat |-> [w.seat EXCEPT ![u] = i]] :
                          p \in PortChoices(w, n)} : i \in Unused(w)}
      BY <1>3 DEF Attempts
    <3>2. QED
      BY <3>1
  <2>0. PICK p \in PortChoices(w, n) :
          v = [row |-> [w.row EXCEPT ![j] = NewRow(n, p)], seat |-> [w.seat EXCEPT ![u] = j]]
    BY <2>1
  <2>2. /\ j \in Inbound /\ w.row[j] = None /\ NewRow(n, p) \in Row /\ NewRow(n, p) # None
        /\ NewRow(n, p).node = n /\ NewRow(n, p).state = "active"
    <3>1. p \in Port
      BY PortChoicesFree
    <3>2. j \in Inbound /\ w.row[j] = None
      BY DEF Unused
    <3>3. NewRow(n, p) \in Row /\ NewRow(n, p) # None
      BY <3>1, NewRowFields
    <3>4. NewRow(n, p).node = n /\ NewRow(n, p).state = "active"
      BY <3>1, NewRowFields
    <3>5. QED
      BY <3>2, <3>3, <3>4
  <2> DEFINE seats == [w.seat EXCEPT ![u] = j]
             r == NewRow(n, p)
             rows == [w.row EXCEPT ![j] = r]
  <2>3. seats \in [User -> Inbound \cup {None}] /\ rows \in [Inbound -> Row \cup {None}]
    BY <1>1, <2>2
  <2>4. v = [row |-> rows, seat |-> seats]
    BY <2>0
  <2>5. ASSUME NEW x \in User, seats[x] # None PROVE rows[seats[x]] # None
    <3>1. CASE x = u
      BY <1>1, <2>2, <3>1
    <3>2. CASE x # u
      <4>1. seats[x] = w.seat[x] /\ w.seat[x] \in Inbound
        BY <1>1, <2>2, <2>5, <3>2
      <4>2. w.row[seats[x]] # None
        BY <2>5, <4>1, <1>1 DEF SeatsExist
      <4>3. QED
        BY <1>1, <2>2, <4>1, <4>2
    <3>3. QED
      BY <3>1, <3>2
  <2>6. /\ seats = [tx.view.seat EXCEPT ![tx.who] = j] /\ tx.view.row[j] = None
        /\ rows[j] = NewRow(n, p) /\ \A i \in Inbound \ {j} : rows[i] = tx.view.row[i]
    BY <1>1, <2>2
  <2>7. p \in PortChoices(tx.view, n)
    OBVIOUS
  <2> HIDE DEF w, u, seats, r, rows
  <2>8. v \in Tables /\ v.row = rows /\ v.seat = seats
    BY <2>3, <2>4 DEF Tables
  <2>9. SeatsExist(v)
    BY <2>5, <2>8 DEF SeatsExist
  <2>10. QED
    BY <2>2, <2>6, <2>7, <2>8, <2>9 DEF Seated
<1>4. QED
  BY <1>2, <1>3

\* Taking it back leaves the tables as they were.
LEMMA UndoneEffect ==
    ASSUME Base, tx.pc = "choose", NEW n \in Node, NEW v \in Attempts(tx.view, n)
    PROVE  Undone(v, tx) = tx.view
<1>1. PICK j \in Inbound : Seated(v, n, j)
  BY AttemptEffect
<1>2. /\ v = [row |-> v.row, seat |-> v.seat] /\ tx.who \in User
      /\ tx.view = [row |-> tx.view.row, seat |-> tx.view.seat]
      /\ tx.view.seat \in [User -> Inbound \cup {None}]
  BY <1>1, BaseFacts, TableFields DEF Seated, Base
<1>3. [v.seat EXCEPT ![tx.who] = tx.view.seat[tx.who]] = tx.view.seat
  BY <1>1, <1>2 DEF Seated
<1>4. Undone(v, tx) = [row |-> tx.view.row,
                       seat |-> [v.seat EXCEPT ![tx.who] = tx.view.seat[tx.who]]]
  BY DEF Undone
<1>5. QED
  BY <1>2, <1>3, <1>4

LEMMA ImageTypes ==
    ASSUME control \in [Node -> SUBSET Port], NEW v \in Tables, NEW n \in Node,
           NEW unseen
    PROVE  /\ Image(v, n, unseen) \in SUBSET Listener
           /\ \A a \in Image(v, n, unseen) :
                a.inbound # None =>
                  /\ a.inbound \in Inbound /\ v.row[a.inbound] # None
                  /\ v.row[a.inbound].node = n /\ v.row[a.inbound].state # "dead"
                  /\ a.port = v.row[a.inbound].port
                  /\ a.clients = Sitting(v, a.inbound) \ unseen
           /\ \A a \in Image(v, n, unseen) : a.inbound = None => a.port \in control[n]
           /\ \A i \in Inbound : v.row[i] # None /\ v.row[i].node = n
                                   /\ v.row[i].state # "dead" =>
                \E a \in Image(v, n, unseen) :
                   a.inbound = i /\ a.clients = Sitting(v, i) \ unseen
           /\ \A a, b \in Image(v, n, unseen) :
                a.inbound # None /\ a.inbound = b.inbound => a = b
<1> DEFINE own == {[inbound |-> None, port |-> p, clients |-> {}] : p \in control[n]}
           lively == {j \in RowsOf(v, n) : v.row[j].state # "dead"}
           listener(i) == [inbound |-> i, port |-> v.row[i].port,
                           clients |-> Sitting(v, i) \ unseen]
           others == {listener(i) : i \in lively}
<1>1. Image(v, n, unseen) = own \cup others
  BY DEF Image
<1>2. \A a \in own : a \in Listener /\ a.inbound = None /\ a.port \in control[n]
  BY DEF Listener
<1>3. ASSUME NEW i \in lively
      PROVE  /\ i \in Inbound /\ i # None /\ v.row[i] # None /\ v.row[i].node = n
             /\ v.row[i].state # "dead" /\ v.row[i].port \in Port
             /\ listener(i) \in Listener
  <2>1. i \in Inbound /\ v.row[i] # None /\ v.row[i].node = n /\ v.row[i].state # "dead"
    BY DEF RowsOf, Rows
  <2>2. v.row[i].port \in Port
    BY <2>1, TableFields DEF Row
  <2>3. i # None
    BY <2>1, BlockingNoneAssumption
  <2>4. QED
    BY <2>1, <2>2, <2>3 DEF Listener, Sitting
<1>4. ASSUME NEW a \in others PROVE \E i \in lively : a = listener(i) /\ a.inbound = i
  OBVIOUS
<1>5. ASSUME NEW i \in Inbound, v.row[i] # None, v.row[i].node = n, v.row[i].state # "dead"
      PROVE  listener(i) \in others
  BY <1>5 DEF RowsOf, Rows
<1>6. \A i : /\ listener(i).inbound = i /\ listener(i).port = v.row[i].port
             /\ listener(i).clients = Sitting(v, i) \ unseen
  OBVIOUS
<1> HIDE DEF own, lively, listener, others
<1>7. Image(v, n, unseen) \in SUBSET Listener
  BY <1>1, <1>2, <1>3, <1>4
<1>8. ASSUME NEW a \in Image(v, n, unseen), a.inbound # None
      PROVE  /\ a.inbound \in Inbound /\ v.row[a.inbound] # None
             /\ v.row[a.inbound].node = n /\ v.row[a.inbound].state # "dead"
             /\ a = listener(a.inbound)
  BY <1>1, <1>2, <1>3, <1>4, <1>8
<1>9. ASSUME NEW a \in Image(v, n, unseen), a.inbound = None PROVE a.port \in control[n]
  BY <1>1, <1>2, <1>3, <1>4, <1>9
<1>10. QED
  BY <1>1, <1>5, <1>6, <1>7, <1>8, <1>9

-----------------------------------------------------------------------------
(* What the steps do.                                                         *)

\* What a request keeps while one user is being placed.
SameRequest ==
    /\ tx'.by = tx.by /\ tx'.kind = tx.kind /\ tx'.not = tx.not
    /\ tx'.waiting = tx.waiting /\ tx'.told = tx.told /\ tx'.who = tx.who

\* A request starts: nothing is moved, nobody told.
Started(u) ==
    /\ tx.pc = "idle" /\ db' = db /\ runs' = runs
    /\ tx' \in Tx /\ tx'.pc = "choose" /\ tx'.who = u /\ tx'.by = u
    /\ tx'.told = {} /\ tx'.broken = {} /\ tx'.unseen = {}

\* v is w with another row for the inbound i.
Edited(v, w, i, r) ==
    /\ v \in Tables /\ SeatsExist(v) /\ v.seat = w.seat /\ v.row[i] = r
    /\ \A j \in Inbound \ {i} : v.row[j] = w.row[j]

Connecting(u) == Started(u) /\ tx'.view = db /\ tx'.waiting = {}

Reporting(u) ==
    /\ Started(u)
    /\ db.seat[u] \in Inbound
    /\ LET i == db.seat[u]
           b == Bumped(db.row[i], u)
       IN /\ db.row[i] \in Row
          /\ \/ /\ Edited(tx'.view, db, i, b)
                /\ tx'.waiting = {}
             \/ /\ Edited(tx'.view, db, i, Killed(b))
                /\ b.count >= FailThreshold
                /\ tx'.waiting = Sitting(db, i) \ {u}

\* A node takes the config.
Accepted(n, v, j) ==
    /\ tx.pc = "choose" /\ Seated(v, n, j) /\ db' = db
    /\ runs' = [runs EXCEPT ![n] = Image(v, n, Unseen(v))]
    /\ tx' \in Tx /\ tx'.pc = "placed" /\ tx'.view = v /\ SameRequest
    /\ tx'.broken = tx.broken /\ tx'.unseen = Unseen(v)

\* A node refuses it, whether or not it has taken it.
Refused(n, v, j) ==
    /\ tx.pc = "choose" /\ Seated(v, n, j) /\ db' = db
    /\ \/ runs' = runs
       \/ runs' = [runs EXCEPT ![n] = Image(v, n, Unseen(v))]
    /\ tx' \in Tx /\ tx'.pc = "choose" /\ tx'.view = tx.view /\ SameRequest
    /\ tx'.broken = tx.broken /\ tx'.unseen = tx.unseen

Over == tx' \in Tx /\ tx'.pc = "idle" /\ tx'.view = db' /\ runs' = NoPushes

\* A user is passed over, their rows untouched or left half changed.
Skipping ==
    /\ tx.pc = "choose" /\ tx.who # tx.by /\ db' = db /\ runs' = runs
    /\ tx' \in Tx /\ tx'.pc = "skipped" /\ SameRequest /\ tx'.unseen = tx.unseen
SkippedWhole == Skipping /\ tx'.view = tx.view /\ tx'.broken = tx.broken
SkippedBroken(n, v, j) ==
    /\ Skipping /\ Seated(v, n, j)
    /\ tx'.view = v /\ tx'.broken = tx.broken \cup {tx.who}

\* The next of those who wait.
Continued(u) ==
    /\ tx.pc \in {"placed", "skipped"} /\ u \in tx.waiting /\ db' = db /\ runs' = runs
    /\ tx' \in Tx /\ tx'.pc = "choose" /\ tx'.who = u /\ tx'.by = tx.by
    /\ tx'.view = tx.view /\ tx'.waiting = tx.waiting \ {u}
    /\ tx'.told = IF tx.pc = "placed" /\ tx.who # tx.by THEN tx.told \cup {tx.who} ELSE tx.told
    /\ tx'.broken = tx.broken /\ tx'.unseen = tx.unseen

Written(v) ==
    /\ tx' \in Tx /\ tx'.pc = "idle"
    /\ db' = Forgotten(v) /\ tx'.view = db'

\* A row loses its window or the memory of its death.
Aging(i, r) ==
    /\ r \in Row /\ r.node = db.row[i].node /\ r.port = db.row[i].port
    /\ r.state = db.row[i].state /\ r.count = db.row[i].count
    /\ r.by \subseteq db.row[i].by
    /\ ~r.open \/ (r.open = db.row[i].open /\ r.by = db.row[i].by)

LEMMA ConnectStep ==
    ASSUME Base, NEW u \in User, Connect(u)
    PROVE  Connecting(u)
<1> DEFINE t == [Idle EXCEPT !.kind = "connect", !.by = u]
<1>1. /\ t \in Tx /\ t.by = u /\ t.waiting = {}
      /\ t.told = {} /\ t.broken = {} /\ t.unseen = {}
  <2>1. db \in Tables
    BY BaseFacts
  <2>2. QED
    BY <2>1 DEF Idle, Tx
<1>2. tx.pc = "idle" /\ Placing(t, u, db) /\ db' = db /\ runs' = runs
  BY DEF Connect
<1> HIDE DEF t
<1>3. QED
  BY <1>1, <1>2, BaseFacts, PlacingEffect DEF Connecting, Started

LEMMA ReportFewStep ==
    ASSUME Base, NEW u \in User, ReportFew(u)
    PROVE  Reporting(u)
<1> DEFINE i == db.seat[u]
           b == Bumped(db.row[i], u)
           v == [db EXCEPT !.row[i] = b]
           t == [Idle EXCEPT !.kind = "report", !.by = u, !.not = {i}]
<1>1. /\ tx.pc = "idle" /\ db.seat[u] # None /\ Placing(t, u, v)
      /\ db' = db /\ runs' = runs
  BY DEF ReportFew
<1>2. i \in Inbound /\ db.row[i] \in Row /\ db \in Tables /\ SeatsExist(db)
  BY <1>1, BaseFacts, TableFields DEF SeatsExist
<1>3. b \in Row
  BY <1>2, BumpedEffect
<1>4. /\ t \in Tx /\ t.by = u /\ t.waiting = {}
      /\ t.told = {} /\ t.broken = {} /\ t.unseen = {}
  BY <1>2 DEF Idle, Tx
<1>5. Edited(v, db, i, b) /\ v \in Tables
  <2> HIDE DEF i, b
  <2>1. QED
    BY <1>2, <1>3, RowEdit DEF Edited
<1> HIDE DEF v, t
<1>6. Started(u) /\ tx'.view = v /\ tx'.waiting = {}
  BY <1>1, <1>4, <1>5, PlacingEffect DEF Started
<1>7. QED
  BY <1>2, <1>5, <1>6 DEF Reporting

LEMMA ReportLastStep ==
    ASSUME Base, NEW u \in User, ReportLast(u)
    PROVE  Reporting(u)
<1> DEFINE i == db.seat[u]
           b == Bumped(db.row[i], u)
           v == [db EXCEPT !.row[i] = b]
           d == [v EXCEPT !.row[i] = Killed(v.row[i])]
           n == d.row[i].node
           notAt == IF Burned(d, n) THEN {n} ELSE {}
           waiting == Sitting(d, i) \ {u}
           t == [Idle EXCEPT !.kind = "report", !.by = u, !.not = {i},
                             !.notAt = notAt, !.waiting = waiting]
<1>1. /\ tx.pc = "idle" /\ db.seat[u] # None /\ Placing(t, u, d)
      /\ v.row[i].count >= FailThreshold /\ db' = db /\ runs' = runs
  BY DEF ReportLast
<1>2. i \in Inbound /\ db.row[i] \in Row /\ db \in Tables /\ SeatsExist(db)
  BY <1>1, BaseFacts, TableFields DEF SeatsExist
<1>3. b \in Row
  BY <1>2, BumpedEffect
<1>4. Edited(v, db, i, b)
  <2> HIDE DEF i, b
  <2>1. QED
    BY <1>2, <1>3, RowEdit DEF Edited
<1> HIDE DEF v
<1>5. Killed(b) \in Row
  BY <1>3, KilledEffect
<1>6. Edited(d, db, i, Killed(b))
  <2>1. v \in Tables /\ SeatsExist(v) /\ d = [v EXCEPT !.row[i] = Killed(b)]
    BY <1>4 DEF Edited
  <2> HIDE DEF i, b, d
  <2>2. Edited(d, v, i, Killed(b))
    BY <1>2, <1>5, <2>1, RowEdit DEF Edited
  <2>3. QED
    BY <1>4, <2>2 DEF Edited
<1>7. d \in Tables /\ d.row[i] = Killed(b) /\ d.seat = db.seat
  BY <1>6 DEF Edited
<1>8. n \in Node
  BY <1>3, <1>7, <1>5 DEF Row
<1>9. waiting = Sitting(db, i) \ {u}
  BY <1>7 DEF Sitting
<1> HIDE DEF d, n
<1>10. notAt \in SUBSET Node /\ waiting \in SUBSET User /\ {i} \in SUBSET Inbound
  BY <1>2, <1>8 DEF Sitting
<1> HIDE DEF notAt, waiting
<1>11. /\ t \in Tx /\ t.by = u /\ t.waiting = waiting
       /\ t.told = {} /\ t.broken = {} /\ t.unseen = {}
  BY <1>2, <1>10 DEF Idle, Tx
<1>12. b.count >= FailThreshold
  BY <1>1, <1>4 DEF Edited
<1> HIDE DEF t
<1>13. Started(u) /\ tx'.view = d /\ tx'.waiting = waiting
  BY <1>1, <1>7, <1>11, PlacingEffect DEF Started
<1>14. QED
  BY <1>2, <1>6, <1>9, <1>12, <1>13 DEF Reporting

LEMMA UnseenTypes ==
    ASSUME Base, tx.pc # "idle", NEW v
    PROVE  Unseen(v) \in SUBSET User
  BY BaseFacts DEF Base, Unseen, Tx

LEMMA HeldTypes ==
    ASSUME Base, NEW v, NEW n, NEW held \in Held(v, n)
    PROVE  held \in SUBSET Inbound
<1>1. tx.held \in SUBSET Inbound
  BY BaseFacts DEF Tx
<1>2. held = tx.held \/ held = tx.held \cup {i \in RowsOf(v, n) : v.row[i].state # "dead"}
  BY DEF Held
<1>3. QED
  BY <1>1, <1>2 DEF RowsOf, Rows

LEMMA AcceptStep ==
    ASSUME Base, NEW n \in Node, Accept(n)
    PROVE  \E j \in Inbound, v \in Tables : Accepted(n, v, j)
<1>1. tx.pc = "choose" /\ db' = db
  BY DEF Accept, Turn
<1>2. PICK v \in Attempts(tx.view, n) :
        /\ runs' = [runs EXCEPT ![n] = Image(v, n, Unseen(v))]
        /\ \E held \in IF n \in Home THEN Held(v, n) ELSE {tx.held} :
             tx' = [tx EXCEPT !.pc = "placed", !.view = v, !.held = held, !.unseen = Unseen(v)]
  BY DEF Accept
<1>3. PICK held \in IF n \in Home THEN Held(v, n) ELSE {tx.held} :
        tx' = [tx EXCEPT !.pc = "placed", !.view = v, !.held = held, !.unseen = Unseen(v)]
  BY <1>2
<1>4. PICK j \in Inbound : Seated(v, n, j)
  BY <1>1, AttemptEffect
<1>5. held \in SUBSET Inbound
  BY HeldTypes, BaseFacts DEF Tx
<1>6. v \in Tables /\ Unseen(v) \in SUBSET User
  BY <1>1, <1>4, UnseenTypes DEF Seated
<1>7. /\ tx' \in Tx /\ tx'.pc = "placed" /\ tx'.view = v /\ SameRequest
      /\ tx'.broken = tx.broken /\ tx'.unseen = Unseen(v)
  <2> DEFINE unseen == Unseen(v)
  <2>1. unseen \in SUBSET User /\ tx' = [tx EXCEPT !.pc = "placed", !.view = v, !.held = held, !.unseen = unseen]
    BY <1>3, <1>6
  <2> HIDE DEF unseen
  <2>2. /\ tx' \in Tx /\ tx'.pc = "placed" /\ tx'.view = v /\ SameRequest
        /\ tx'.broken = tx.broken /\ tx'.unseen = unseen
    BY <1>5, <1>6, <2>1, BaseFacts DEF Tx, SameRequest
  <2>3. QED
    BY <2>2 DEF unseen
<1>8. QED
  BY <1>1, <1>2, <1>4, <1>6, <1>7 DEF Accepted

LEMMA RefuseStep ==
    ASSUME Base, NEW n \in Node, Refuse(n)
    PROVE  \E j \in Inbound, v \in Tables : Refused(n, v, j)
<1>1. tx.pc = "choose" /\ db' = db
  BY DEF Refuse, Turn
<1>2. PICK v \in Attempts(tx.view, n) :
        /\ \/ UNCHANGED runs
           \/ runs' = [runs EXCEPT ![n] = Image(v, n, Unseen(v))]
        /\ \E held \in Held(tx.view, n) :
             tx' = [tx EXCEPT !.todo = @ \ {n}, !.view = Undone(v, tx), !.held = held]
  BY DEF Refuse
<1>3. PICK held \in Held(tx.view, n) :
        tx' = [tx EXCEPT !.todo = tx.todo \ {n}, !.view = Undone(v, tx), !.held = held]
  BY <1>2
<1>4. PICK j \in Inbound : Seated(v, n, j)
  BY <1>1, AttemptEffect
<1>5. held \in SUBSET Inbound /\ Undone(v, tx) = tx.view /\ v \in Tables
  BY <1>1, <1>4, HeldTypes, UndoneEffect DEF Seated
<1>6. /\ tx' \in Tx /\ tx'.pc = "choose" /\ tx'.view = tx.view /\ SameRequest
      /\ tx'.broken = tx.broken /\ tx'.unseen = tx.unseen
  BY <1>1, <1>3, <1>5, BaseFacts DEF Tx, SameRequest
<1>7. QED
  BY <1>1, <1>2, <1>4, <1>5, <1>6 DEF Refused

LEMMA RollBackStep ==
    ASSUME Base, RollBack
    PROVE  Over /\ db' = db
<1>1. db' = db /\ tx' = Idle /\ runs' = NoPushes
  BY DEF RollBack
<1>2. db \in Tables
  BY BaseFacts
<1>3. QED
  BY <1>1, <1>2 DEF Over, Idle, Tx

LEMMA PassOverStep ==
    ASSUME Base, tx.pc = "choose", tx.who # tx.by, NEW v \in Tables,
           NEW broken \in SUBSET User, PassOver(v, broken)
    PROVE  Skipping /\ tx'.view = v /\ tx'.broken = tx.broken \cup broken
<1>1. /\ tx' = [tx EXCEPT !.pc = "skipped", !.view = v, !.broken = tx.broken \cup broken]
      /\ db' = db /\ runs' = runs
  BY DEF PassOver
<1>2. tx.broken \cup broken \in SUBSET User
  BY BaseFacts DEF Tx
<1>3. QED
  BY <1>1, <1>2, BaseFacts DEF Tx, SameRequest, Skipping

LEMMA FailStep ==
    ASSUME Base, NoCapacity \/ \E n \in Node : NoPort(n) \/ Break(n)
    PROVE  \/ Over /\ db' = db
           \/ SkippedWhole
           \/ \E n \in Node, j \in Inbound, v \in Tables : SkippedBroken(n, v, j)
<1>1. tx.pc = "choose" /\ tx.who \in User /\ tx.view \in Tables
  BY BaseFacts DEF NoCapacity, NoPort, Break, Turn, Base
<1>2. CASE RollBack
  BY <1>2, RollBackStep
<1>3. CASE tx.who # tx.by /\ PassOver(tx.view, {})
  <2>1. Skipping /\ tx'.view = tx.view /\ tx'.broken = tx.broken \cup {}
    BY <1>1, <1>3, PassOverStep
  <2>2. QED
    BY <2>1 DEF SkippedWhole
<1>4. CASE tx.who # tx.by /\ \E n \in Node : \E v \in Attempts(tx.view, n) : PassOver(v, {tx.who})
  <2>0. PICK n \in Node : \E v \in Attempts(tx.view, n) : PassOver(v, {tx.who})
    BY <1>4
  <2>1. PICK v \in Attempts(tx.view, n) : PassOver(v, {tx.who})
    BY <2>0
  <2>2. PICK j \in Inbound : Seated(v, n, j)
    BY <1>1, AttemptEffect
  <2>3. v \in Tables
    BY <2>2 DEF Seated
  <2>4. Skipping /\ tx'.view = v /\ tx'.broken = tx.broken \cup {tx.who}
    BY <1>1, <1>4, <2>1, <2>3, PassOverStep
  <2>5. SkippedBroken(n, v, j)
    BY <2>2, <2>4 DEF SkippedBroken
  <2>6. QED
    BY <2>3, <2>5
<1>5. QED
  BY <1>2, <1>3, <1>4, Zenon DEF NoCapacity, NoPort, Break

LEMMA MoveNextStep ==
    ASSUME Base, NEW u \in User, MoveNext(u)
    PROVE  Continued(u)
<1> DEFINE s == Settled(tx)
           t == [s EXCEPT !.waiting = s.waiting \ {u}]
           told == IF tx.pc = "placed" /\ tx.who # tx.by THEN tx.told \cup {tx.who} ELSE tx.told
<1>1. /\ tx.pc \in {"placed", "skipped"} /\ u \in tx.waiting /\ Placing(t, u, tx.view)
      /\ db' = db /\ runs' = runs
  BY DEF MoveNext
<1>2. told \in SUBSET User
  BY <1>1, BaseFacts DEF Base, Tx
<1>3. s = [tx EXCEPT !.told = told]
  BY BaseFacts DEF Settled, Tx
<1> HIDE DEF told, s
<1>4. /\ s \in Tx /\ s.by = tx.by /\ s.told = told /\ s.waiting = tx.waiting
      /\ s.broken = tx.broken /\ s.unseen = tx.unseen
  BY <1>2, <1>3, BaseFacts DEF Tx
<1>5. /\ t \in Tx /\ t.by = tx.by /\ t.told = told /\ t.waiting = tx.waiting \ {u}
      /\ t.broken = tx.broken /\ t.unseen = tx.unseen
  BY <1>4 DEF Tx
<1> HIDE DEF t
<1>6. /\ tx' \in Tx /\ tx'.pc = "choose" /\ tx'.who = u /\ tx'.by = tx.by
      /\ tx'.view = tx.view /\ tx'.waiting = tx.waiting \ {u}
      /\ tx'.told = told /\ tx'.broken = tx.broken /\ tx'.unseen = tx.unseen
  BY <1>1, <1>5, BaseFacts, PlacingEffect
<1>7. QED
  BY <1>1, <1>6 DEF Continued, told

LEMMA WritesStep ==
    ASSUME NEW v \in Tables, SeatsExist(v), Writes(v)
    PROVE  Written(v)
<1> DEFINE f == Forgotten(v)
<1>1. f \in Tables
  BY ForgottenEffect
<1>2. db' = f /\ tx' = [Idle EXCEPT !.view = f]
  BY DEF Writes
<1>3. tx' \in Tx /\ tx'.pc = "idle" /\ tx'.view = f
  <2> HIDE DEF f
  <2>1. tx' = [pc |-> "idle", kind |-> "connect", by |-> None, who |-> None,
               todo |-> {}, not |-> {}, notAt |-> {}, waiting |-> {}, told |-> {},
               broken |-> {}, held |-> {}, unseen |-> {}, view |-> f]
    BY <1>2 DEF Idle
  <2>2. QED
    BY <1>1, <2>1 DEF Tx
<1>4. QED
  BY <1>2, <1>3 DEF Written

LEMMA WindowStep ==
    ASSUME Base, NEW i \in Inbound, WindowCloses(i)
    PROVE  /\ tx.pc = "idle" /\ runs' = runs /\ db.row[i] \in Row
           /\ \E r, v : Aging(i, r) /\ Edited(v, db, i, r) /\ Written(v)
<1>1. tx.pc = "idle" /\ runs' = runs /\ db.row[i] \in Row /\ db \in Tables /\ SeatsExist(db)
  BY BaseFacts, TableFields DEF WindowCloses
<1> DEFINE no == FALSE
           q == db.row[i]
<1>2. no \in BOOLEAN /\ ~no
  OBVIOUS
<1>3. CASE Writes([db EXCEPT !.row[i].open = FALSE, !.row[i].by = {}])
  <2> DEFINE r == [q EXCEPT !.open = no, !.by = {}]
             v == [db EXCEPT !.row[i] = r]
  <2>1. v = [db EXCEPT !.row[i].open = FALSE, !.row[i].by = {}]
    BY <1>1 DEF Tables, Row
  <2>2. Writes(v)
    BY <1>3, <2>1
  <2>3. /\ r \in Row /\ r.node = q.node /\ r.port = q.port /\ r.state = q.state
        /\ r.count = q.count /\ r.by = {}
    <3> HIDE DEF no, q
    <3>1. q \in Row
      BY <1>1 DEF q
    <3>2. QED
      BY <1>2, <3>1 DEF Row
  <2>4. r.open = no
    BY <1>1, Zenon DEF Row
  <2>5. ~r.open
    BY <1>2, <2>4, Zenon
  <2>6. Aging(i, r)
    BY <2>3, <2>5 DEF Aging
  <2> HIDE DEF r
  <2>7. Edited(v, db, i, r)
    BY <1>1, <2>3, RowEdit DEF Edited
  <2>8. Written(v)
    BY <2>2, <2>7, WritesStep DEF Edited
  <2>9. QED
    BY <1>1, <2>6, <2>7, <2>8
<1>4. CASE Writes([db EXCEPT !.row[i].fresh = FALSE])
  <2> DEFINE r == [q EXCEPT !.fresh = no]
             v == [db EXCEPT !.row[i] = r]
  <2>1. v = [db EXCEPT !.row[i].fresh = FALSE]
    BY <1>1 DEF Tables, Row
  <2>2. Writes(v)
    BY <1>4, <2>1
  <2>3. /\ r \in Row /\ r.node = q.node /\ r.port = q.port /\ r.state = q.state
        /\ r.count = q.count /\ r.by = q.by
    <3> HIDE DEF no, q
    <3>1. q \in Row
      BY <1>1 DEF q
    <3>2. QED
      BY <1>2, <3>1 DEF Row
  <2>4. r.open = q.open
    BY <1>1, Zenon DEF Row
  <2>6. Aging(i, r)
    BY <2>3, <2>4 DEF Aging
  <2> HIDE DEF r
  <2>7. Edited(v, db, i, r)
    BY <1>1, <2>3, RowEdit DEF Edited
  <2>8. Written(v)
    BY <2>2, <2>7, WritesStep DEF Edited
  <2>9. QED
    BY <1>1, <2>6, <2>7, <2>8
<1>5. QED
  BY <1>3, <1>4 DEF WindowCloses

\* A seat is given up.
Emptied(v, u) ==
    /\ v \in Tables /\ SeatsExist(v) /\ v.row = db.row
    /\ v.seat = [db.seat EXCEPT ![u] = None]

LEMMA SweptStep ==
    ASSUME Base, NEW u \in User, SweptAway(u)
    PROVE  tx.pc = "idle" /\ runs' = runs /\ \E v : Emptied(v, u) /\ Written(v)
<1> DEFINE seats == [db.seat EXCEPT ![u] = None]
           v == [row |-> db.row, seat |-> seats]
<1>1. /\ tx.pc = "idle" /\ runs' = runs /\ Writes([db EXCEPT !.seat[u] = None])
      /\ db \in Tables /\ SeatsExist(db)
  BY BaseFacts DEF SweptAway
<1>2. [db EXCEPT !.seat[u] = None] = v
  BY <1>1 DEF Tables
<1>3. seats \in [User -> Inbound \cup {None}] /\ db.row \in [Inbound -> Row \cup {None}]
  BY <1>1, TableFields
<1>4. \A x \in User : seats[x] # None => db.row[seats[x]] # None
  BY <1>1, TableFields DEF SeatsExist
<1>5. Writes(v)
  BY <1>1, <1>2
<1>6. Emptied(v, u)
  <2>1. seats = [db.seat EXCEPT ![u] = None]
    OBVIOUS
  <2> HIDE DEF seats
  <2>2. v \in Tables /\ v.row = db.row /\ v.seat = seats
    BY <1>3 DEF Tables
  <2> HIDE DEF v
  <2>3. SeatsExist(v)
    BY <1>4, <2>2 DEF SeatsExist
  <2>4. QED
    BY <2>1, <2>2, <2>3 DEF Emptied
<1> HIDE DEF v
<1>7. QED
  BY <1>1, <1>5, <1>6, WritesStep DEF Emptied

LEMMA CommitStep ==
    ASSUME Base, Commit
    PROVE  tx.pc \in {"placed", "skipped"} /\ Written(tx.view) /\ runs' = NoPushes
  BY BaseFacts, WritesStep DEF Commit

Committed ==
    tx.pc \in {"placed", "skipped"} /\ Written(tx.view) /\ runs' = NoPushes
RolledBack == Over /\ db' = db
Aged(i, r, v) ==
    /\ tx.pc = "idle" /\ runs' = runs /\ db.row[i] \in Row
    /\ Aging(i, r) /\ Edited(v, db, i, r) /\ Written(v)
Swept(u, v) == tx.pc = "idle" /\ runs' = runs /\ Emptied(v, u) /\ Written(v)

\* Every step of a request is one of these.
LEMMA StepEffect ==
    ASSUME Base, Request
    PROVE  \/ \E u \in User : Connecting(u) \/ Reporting(u) \/ Continued(u)
           \/ \E n \in Node, j \in Inbound, v \in Tables :
                 Accepted(n, v, j) \/ Refused(n, v, j) \/ SkippedBroken(n, v, j)
           \/ SkippedWhole \/ RolledBack \/ Committed
           \/ \E i \in Inbound : \E r, v : Aged(i, r, v)
           \/ \E u \in User : \E v : Swept(u, v)
<1>1. ASSUME NEW u \in User, Connect(u) PROVE Connecting(u)
  BY <1>1, ConnectStep
<1>2. ASSUME NEW u \in User, ReportFew(u) \/ ReportLast(u) PROVE Reporting(u)
  BY <1>2, ReportFewStep, ReportLastStep
<1>3. ASSUME NEW u \in User, MoveNext(u) PROVE Continued(u)
  BY <1>3, MoveNextStep
<1>4. ASSUME NEW u \in User, SweptAway(u) PROVE \E v : Swept(u, v)
  BY <1>4, SweptStep DEF Swept
<1>5. ASSUME NEW n \in Node, Accept(n)
      PROVE  \E j \in Inbound, v \in Tables : Accepted(n, v, j)
  BY <1>5, AcceptStep
<1>6. ASSUME NEW n \in Node, Refuse(n)
      PROVE  \E j \in Inbound, v \in Tables : Refused(n, v, j)
  BY <1>6, RefuseStep
<1>7. ASSUME NoCapacity \/ \E n \in Node : NoPort(n) \/ Break(n)
      PROVE  \/ RolledBack \/ SkippedWhole
             \/ \E n \in Node, j \in Inbound, v \in Tables : SkippedBroken(n, v, j)
  BY <1>7, FailStep DEF RolledBack
<1>8. Commit => Committed
  BY CommitStep DEF Committed
<1>9. Crash => RolledBack
  BY RollBackStep DEF Crash, RolledBack
<1>10. ASSUME NEW i \in Inbound, WindowCloses(i) PROVE \E r, v : Aged(i, r, v)
  BY <1>10, WindowStep DEF Aged
<1>11. CASE Serve
  <2>1. \/ \E n \in Node : Accept(n) \/ Refuse(n)
        \/ NoCapacity \/ \E n \in Node : NoPort(n) \/ Break(n)
        \/ \E u \in User : MoveNext(u)
        \/ Commit
    BY <1>11, Zenon DEF Serve
  <2>2. QED
    BY <2>1, <1>3, <1>5, <1>6, <1>7, <1>8
<1>12. QED
  BY <1>1, <1>2, <1>4, <1>9, <1>10, <1>11, Zenon DEF Request

-----------------------------------------------------------------------------
(* Type correctness.                                                          *)

LEMMA SeatedTypes ==
    ASSUME Base, NEW n \in Node, NEW j \in Inbound, NEW v, Seated(v, n, j),
           NEW unseen
    PROVE  /\ v \in Tables /\ SeatsExist(v)
           /\ [runs EXCEPT ![n] = Image(v, n, unseen)] \in [Node -> SUBSET Listener]
<1>1. v \in Tables /\ SeatsExist(v)
  BY DEF Seated
<1>2. Image(v, n, unseen) \in SUBSET Listener
  BY <1>1, ImageTypes, BaseFacts
<1>3. runs \in [Node -> SUBSET Listener]
  BY DEF Base, TypeOK
<1>4. QED
  BY <1>1, <1>2, <1>3

\* The request under way always has somebody to place, and what it has seated
\* is a foreign key that can be committed.
LEMMA BaseInit == Init => Base
<1> SUFFICES ASSUME Init PROVE Base
  OBVIOUS
<1> DEFINE d == [row |-> [i \in Inbound |-> None], seat |-> [u \in User |-> None]]
<1>1. db = d /\ runs = NoPushes /\ tx = Idle
  BY DEF Init
<1>2. d \in Tables /\ SeatsExist(d)
  BY DEF Tables, SeatsExist
<1> HIDE DEF d
<1>3. tx \in Tx /\ tx.view = d /\ tx.pc = "idle"
  BY <1>1, <1>2, IdleFields
<1>4. runs \in [Node -> SUBSET Listener]
  BY <1>1 DEF NoPushes
<1>5. /\ control \in [Node -> SUBSET Port] /\ occupied \in [Node -> SUBSET Port]
      /\ overrun \in [Node -> SUBSET Port] /\ passes \in [Node -> Nat]
  BY PortAssumption DEF Init
<1>6. QED
  BY <1>1, <1>2, <1>3, <1>4, <1>5 DEF Base, TypeOK

\* A repeated pass of provisioning changes nothing but the ports of its node.
LEMMA ReprovisionStep ==
    ASSUME Base, NEW n \in Node, Reprovision(n)
    PROVE  /\ tx.pc = "idle" /\ db' = db /\ runs' = runs /\ tx' = tx
           /\ \E listening, added \in SUBSET Port :
                /\ occupied' = [occupied EXCEPT ![n] = listening]
                /\ control' = [control EXCEPT ![n] = control[n] \cup added]
                /\ overrun' = [overrun EXCEPT ![n] = overrun[n] \cup
                                 ((listening \cup added) \cap CustomerPorts(db, n))]
           /\ passes' = [passes EXCEPT ![n] = passes[n] + 1]
<1>1. PICK listening \in {Foreign[n], Foreign[n] \cup control[n] \cup CustomerPorts(db, n)} :
        \E added \in {{}} \cup {{p} : p \in IF Preferred \ listening # {}
                                         THEN Preferred \ listening ELSE Preferred} :
          /\ occupied' = [occupied EXCEPT ![n] = listening]
          /\ control' = [control EXCEPT ![n] = control[n] \cup added]
          /\ overrun' = [overrun EXCEPT ![n] = overrun[n] \cup
                           ((listening \cup added) \cap CustomerPorts(db, n))]
  BY DEF Reprovision
<1>2. PICK added \in {{}} \cup {{p} : p \in IF Preferred \ listening # {}
                                            THEN Preferred \ listening ELSE Preferred} :
          /\ occupied' = [occupied EXCEPT ![n] = listening]
          /\ control' = [control EXCEPT ![n] = control[n] \cup added]
          /\ overrun' = [overrun EXCEPT ![n] = overrun[n] \cup
                           ((listening \cup added) \cap CustomerPorts(db, n))]
  BY <1>1
<1>3. CustomerPorts(db, n) \subseteq Port
  <2>1. \A i \in Inbound : db.row[i] # None => db.row[i].port \in Port
    BY BaseFacts, TableFields DEF Row
  <2>2. QED
    BY <2>1 DEF CustomerPorts, RowsOf, Rows
<1>4. listening \in SUBSET Port
  BY <1>1, <1>3, PortAssumption, BaseFacts
<1>5. added \in SUBSET Port
  BY <1>2 DEF Port
<1>6. QED
  BY <1>2, <1>4, <1>5 DEF Reprovision

LEMMA BaseStep ==
    ASSUME Base, Request, UNCHANGED site
    PROVE  Base'
<1> DEFINE Goal == /\ db' \in Tables /\ SeatsExist(db') /\ SeatsExist(tx'.view)
                   /\ runs' \in [Node -> SUBSET Listener] /\ tx' \in Tx
                   /\ tx'.pc # "idle" => tx'.who \in User /\ tx'.by \in User
                   /\ tx'.pc = "idle" => tx'.view = db' /\ runs' = NoPushes
<1>1. /\ db \in Tables /\ SeatsExist(db) /\ SeatsExist(tx.view) /\ tx.view \in Tables
      /\ runs \in [Node -> SUBSET Listener] /\ tx \in Tx
      /\ tx.pc # "idle" => tx.who \in User /\ tx.by \in User
      /\ tx.pc = "idle" => runs = NoPushes
  BY BaseFacts DEF Base, TypeOK
<1>2. NoPushes \in [Node -> SUBSET Listener]
  BY DEF NoPushes
<1>3. ASSUME NEW v \in Tables, SeatsExist(v), Written(v)
      PROVE  /\ db' \in Tables /\ SeatsExist(db') /\ SeatsExist(tx'.view) /\ tx' \in Tx
             /\ tx'.pc = "idle" /\ tx'.view = db'
  BY <1>3, ForgottenEffect DEF Written
<1>4. ASSUME NEW u \in User, Connecting(u) PROVE Goal
  BY <1>1, <1>4 DEF Connecting, Started
<1>5. ASSUME NEW u \in User, Reporting(u) PROVE Goal
  BY <1>1, <1>5 DEF Reporting, Started, Edited
<1>6. ASSUME NEW u \in User, Continued(u) PROVE Goal
  BY <1>1, <1>6 DEF Continued
<1>7. ASSUME NEW n \in Node, NEW j \in Inbound, NEW v \in Tables,
             Accepted(n, v, j) \/ Refused(n, v, j) \/ SkippedBroken(n, v, j)
      PROVE  Goal
  <2>1. Seated(v, n, j) /\ tx.pc = "choose"
    BY <1>7 DEF Accepted, Refused, SkippedBroken, Skipping
  <2>2. /\ SeatsExist(v)
        /\ [runs EXCEPT ![n] = Image(v, n, Unseen(v))] \in [Node -> SUBSET Listener]
    BY <2>1, SeatedTypes
  <2>3. runs' \in [Node -> SUBSET Listener] /\ db' = db
    BY <1>1, <1>7, <2>2 DEF Accepted, Refused, SkippedBroken, Skipping
  <2>4. tx' \in Tx /\ tx'.pc # "idle" /\ tx'.who = tx.who /\ tx'.by = tx.by
    BY <1>7 DEF Accepted, Refused, SkippedBroken, Skipping, SameRequest
  <2>5. SeatsExist(tx'.view)
    BY <1>1, <1>7, <2>2 DEF Accepted, Refused, SkippedBroken
  <2>6. QED
    BY <1>1, <2>1, <2>3, <2>4, <2>5
<1>8. ASSUME SkippedWhole PROVE Goal
  BY <1>1, <1>8 DEF SkippedWhole, Skipping, SameRequest
<1>9. ASSUME RolledBack PROVE Goal
  BY <1>1, <1>2, <1>9 DEF RolledBack, Over
<1>10. ASSUME Committed PROVE Goal
  <2>1. Written(tx.view) /\ runs' = NoPushes
    BY <1>10 DEF Committed
  <2>2. QED
    BY <1>1, <1>2, <1>3, <2>1
<1>11. ASSUME NEW i \in Inbound, NEW r, NEW v, Aged(i, r, v) PROVE Goal
  <2>1. Written(v) /\ v \in Tables /\ SeatsExist(v) /\ runs' = runs /\ tx.pc = "idle"
    BY <1>11 DEF Aged, Edited
  <2>2. QED
    BY <1>1, <1>3, <2>1
<1>12. ASSUME NEW u \in User, NEW v, Swept(u, v) PROVE Goal
  <2>1. Written(v) /\ v \in Tables /\ SeatsExist(v) /\ runs' = runs /\ tx.pc = "idle"
    BY <1>12 DEF Swept, Emptied
  <2>2. QED
    BY <1>1, <1>3, <2>1
<1>13. Goal
  <2> HIDE DEF Goal
  <2>1. QED
    BY StepEffect, <1>4, <1>5, <1>6, <1>7, <1>8, <1>9, <1>10, <1>11, <1>12
<1>14. /\ control' \in [Node -> SUBSET Port] /\ occupied' \in [Node -> SUBSET Port]
       /\ overrun' \in [Node -> SUBSET Port] /\ passes' \in [Node -> Nat]
  BY DEF Base, TypeOK, site
<1>15. QED
  BY <1>13, <1>14 DEF Base, TypeOK

LEMMA BaseNext ==
    ASSUME Base, [Next]_vars
    PROVE  Base'
<1>1. CASE Request /\ UNCHANGED site
  BY <1>1, BaseStep
<1>2. ASSUME NEW n \in Node, Reprovision(n) PROVE Base'
  <2>1. /\ control \in [Node -> SUBSET Port] /\ occupied \in [Node -> SUBSET Port]
        /\ overrun \in [Node -> SUBSET Port] /\ passes \in [Node -> Nat]
    BY DEF Base, TypeOK
  <2>2. PICK listening \in SUBSET Port, added \in SUBSET Port :
          /\ occupied' = [occupied EXCEPT ![n] = listening]
          /\ control' = [control EXCEPT ![n] = control[n] \cup added]
          /\ overrun' = [overrun EXCEPT ![n] = overrun[n] \cup
                           ((listening \cup added) \cap CustomerPorts(db, n))]
    BY <1>2, ReprovisionStep
  <2>3. /\ control' \in [Node -> SUBSET Port] /\ occupied' \in [Node -> SUBSET Port]
        /\ overrun' \in [Node -> SUBSET Port]
    BY <2>1, <2>2
  <2>4. passes' \in [Node -> Nat]
    BY <1>2, <2>1, ReprovisionStep
  <2>5. db' = db /\ runs' = runs /\ tx' = tx
    BY <1>2, ReprovisionStep
  <2>6. QED
    BY <2>3, <2>4, <2>5 DEF Base, TypeOK, SeatsExist, NoPushes
<1>3. CASE UNCHANGED vars
  BY <1>3 DEF vars, site, Base, TypeOK, SeatsExist, NoPushes
<1>4. QED
  BY <1>1, <1>2, <1>3 DEF Next

LEMMA BaseHolds == Spec => []Base
<1>1. Init => Base
  BY BaseInit
<1>2. Base /\ [Next]_vars => Base'
  BY BaseNext
<1>3. QED
  BY <1>1, <1>2, PTL DEF Spec

\* Nothing is ever seated on a row that is not there, in the tables or in a
\* request that may still be committed; nodes get configs of known inbounds.
THEOREM TypeCorrect == Spec => []TypeOK
<1>1. Base => TypeOK
  BY DEF Base
<1>2. QED
  BY <1>1, BaseHolds, PTL

-----------------------------------------------------------------------------
(* Ports.                                                                     *)

Alive(v, i) == v.row[i] # None /\ v.row[i].state # "dead"

\* What else the node listens on is elsewhere, unless a pass has laid it there.
Beside(q, n) == q \in occupied[n] \cup control[n] => q \in overrun[n]

\* The inbounds of a node that are not dead are apart from each other and from
\* what else runs there.
Apart(v) ==
    /\ \A i \in Inbound : Alive(v, i) => Beside(v.row[i].port, v.row[i].node)
    /\ \A i, j \in Inbound :
         Alive(v, i) /\ Alive(v, j) /\ v.row[i].node = v.row[j].node
           /\ v.row[i].port = v.row[j].port => i = j

\* A config can only be bound if the tables it is rendered from are apart, and a
\* new port is only free if the tables it is chosen from know every inbound
\* there is: those of a request never know fewer than the committed ones.
PortInv ==
    /\ Base
    /\ Apart(db) /\ Apart(tx.view)
    /\ \A i \in Inbound : db.row[i] # None => tx.view.row[i] # None
    /\ PortsBindable

LEMMA SameRowsApart ==
    ASSUME NEW v, NEW w, Apart(w),
           \A i \in Inbound : Alive(v, i) =>
             Alive(w, i) /\ v.row[i].node = w.row[i].node /\ v.row[i].port = w.row[i].port
    PROVE  Apart(v)
<1>1. \A i \in Inbound : Alive(v, i) => Beside(v.row[i].port, v.row[i].node)
  BY DEF Apart
<1>2. ASSUME NEW i \in Inbound, NEW j \in Inbound, Alive(v, i), Alive(v, j),
             v.row[i].node = v.row[j].node, v.row[i].port = v.row[j].port
      PROVE  i = j
  BY <1>2 DEF Apart
<1>3. QED
  BY <1>1, <1>2 DEF Apart

LEMMA SeatedApart ==
    ASSUME Base, Apart(tx.view), NEW n \in Node, NEW j \in Inbound, NEW v, Seated(v, n, j)
    PROVE  Apart(v)
<1> DEFINE w == tx.view
<1>1. \A i \in Inbound \ {j} : v.row[i] = w.row[i]
  BY DEF Seated
<1>2. CASE v.row[j] = w.row[j]
  BY <1>1, <1>2, SameRowsApart DEF Alive
<1>3. CASE v.row[j] # w.row[j]
  <2>1. PICK p \in PortChoices(w, n) : v.row[j] = NewRow(n, p)
    BY <1>3 DEF Seated
  <2>2. p \in Port /\ p \notin LivePorts(w, n)
    BY <2>1, PortChoicesFree
  <2>3. v.row[j].node = n /\ v.row[j].port = p
    BY <2>1, <2>2, NewRowFields
  <2>4. Beside(p, n) /\ \A i \in Inbound : Alive(w, i) /\ w.row[i].node = n => w.row[i].port # p
    BY <2>2, LivePortsAre DEF Alive, Beside
  <2>5. \A i \in Inbound \ {j} : Alive(v, i) => Alive(w, i)
    BY <1>1 DEF Alive
  <2>6. \A i \in Inbound : Alive(v, i) => Beside(v.row[i].port, v.row[i].node)
    BY <1>1, <2>3, <2>4, <2>5 DEF Apart
  <2>7. ASSUME NEW i \in Inbound, NEW k \in Inbound, Alive(v, i), Alive(v, k),
               v.row[i].node = v.row[k].node, v.row[i].port = v.row[k].port
        PROVE  i = k
    <3> HIDE DEF w
    <3>1. CASE i # j /\ k # j
      BY <1>1, <2>5, <2>7, <3>1 DEF Apart, w
    <3>2. CASE i = j /\ k # j
      BY <1>1, <2>3, <2>4, <2>5, <2>7, <3>2
    <3>3. CASE i # j /\ k = j
      BY <1>1, <2>3, <2>4, <2>5, <2>7, <3>3
    <3>4. QED
      BY <3>1, <3>2, <3>3
  <2>8. QED
    BY <2>6, <2>7 DEF Apart
<1>4. QED
  BY <1>2, <1>3

LEMMA ImageBindable ==
    ASSUME Base, NEW v \in Tables, Apart(v), NEW n \in Node, NEW unseen,
           NEW a \in Image(v, n, unseen), a.inbound # None
    PROVE  /\ a.port \in occupied[n] => a.port \in overrun[n]
           /\ \A b \in Image(v, n, unseen) :
                a.port = b.port => a = b \/ (b.inbound = None /\ a.port \in overrun[n])
<1>0. control \in [Node -> SUBSET Port]
  BY BaseFacts
<1>1. \A b \in Image(v, n, unseen) :
        b.inbound # None =>
          /\ b.inbound \in Inbound /\ Alive(v, b.inbound) /\ v.row[b.inbound].node = n
          /\ b.port = v.row[b.inbound].port
  BY <1>0, ImageTypes DEF Alive
<1>2. Beside(a.port, n)
  BY <1>1 DEF Apart
<1>3. ASSUME NEW b \in Image(v, n, unseen), a.port = b.port
      PROVE  a = b \/ (b.inbound = None /\ a.port \in overrun[n])
  <2>1. CASE b.inbound = None
    <3>1. b.port \in control[n]
      BY <1>0, <2>1, ImageTypes
    <3>2. QED
      BY <1>2, <1>3, <2>1, <3>1 DEF Beside
  <2>2. CASE b.inbound # None
    <3>1. a.inbound = b.inbound
      BY <1>1, <1>3, <2>2 DEF Apart
    <3>2. QED
      BY <1>0, <3>1, ImageTypes
  <2>3. QED
    BY <2>1, <2>2
<1>4. QED
  BY <1>2, <1>3 DEF Beside

LEMMA ForgottenApart ==
    ASSUME NEW v \in Tables, SeatsExist(v), Apart(v)
    PROVE  Apart(Forgotten(v))
  BY ForgottenEffect, SameRowsApart DEF Alive

\* A report changes neither port nor node, and revives nothing.
LEMMA ReportRows ==
    ASSUME Base, NEW u \in User, Reporting(u)
    PROVE  \A i \in Inbound :
             /\ db.row[i] # None <=> tx'.view.row[i] # None
             /\ Alive(tx'.view, i) =>
                  /\ Alive(db, i) /\ tx'.view.row[i].node = db.row[i].node
                  /\ tx'.view.row[i].port = db.row[i].port
<1> DEFINE i == db.seat[u]
           q == db.row[i]
           b == Bumped(q, u)
<1>1. i \in Inbound /\ q \in Row
  BY DEF Reporting
<1>2. /\ b \in Row /\ b.node = q.node /\ b.port = q.port
      /\ b.state # "dead" => q.state # "dead"
  BY <1>1, BumpedEffect
<1>3. Killed(b) \in Row /\ Killed(b).state = "dead"
  BY <1>2, KilledEffect
<1>4. PICK r : Edited(tx'.view, db, i, r) /\ (r = b \/ r = Killed(b))
  BY DEF Reporting
<1> HIDE DEF q, b
<1>5. r \in Row /\ (r.state # "dead" => r.node = q.node /\ r.port = q.port /\ q.state # "dead")
  BY <1>2, <1>3, <1>4
<1>6. r # None /\ q # None
  BY <1>1, <1>5, RowNoneAssumption
<1>7. ASSUME NEW k \in Inbound
      PROVE  /\ db.row[k] # None <=> tx'.view.row[k] # None
             /\ Alive(tx'.view, k) =>
                  /\ Alive(db, k) /\ tx'.view.row[k].node = db.row[k].node
                  /\ tx'.view.row[k].port = db.row[k].port
  <2>1. CASE k = i
    BY <1>4, <1>5, <1>6, <2>1 DEF Edited, Alive, q
  <2>2. CASE k # i
    <3>1. tx'.view.row[k] = db.row[k]
      BY <1>4, <2>2 DEF Edited
    <3>2. QED
      BY <3>1 DEF Alive
  <2>3. QED
    BY <2>1, <2>2
<1>8. QED
  BY <1>7

LEMMA AgedApart ==
    ASSUME Base, Apart(db), NEW i \in Inbound, NEW r, NEW v, Aged(i, r, v)
    PROVE  Apart(v)
<1>1. /\ db.row[i] \in Row /\ r \in Row /\ v.row[i] = r
      /\ \A j \in Inbound \ {i} : v.row[j] = db.row[j]
      /\ r.node = db.row[i].node /\ r.port = db.row[i].port /\ r.state = db.row[i].state
  BY DEF Aged, Aging, Edited
<1>2. db.row[i] # None
  BY <1>1, RowNoneAssumption
<1>3. QED
  BY <1>1, <1>2, SameRowsApart DEF Alive

\* A config a node has just been given.
LEMMA PushBindable ==
    ASSUME PortInv, NEW n \in Node, NEW v \in Tables, Apart(v), NEW unseen,
           runs' = [runs EXCEPT ![n] = Image(v, n, unseen)], UNCHANGED site
    PROVE  PortsBindable'
<1>1. runs \in [Node -> SUBSET Listener] /\ occupied' = occupied /\ overrun' = overrun
  BY DEF PortInv, Base, TypeOK, site
<1>2. ASSUME NEW m \in Node, NEW a \in runs'[m], a.inbound # None
      PROVE  /\ a.port \in occupied[m] => a.port \in overrun[m]
             /\ \A b \in runs'[m] :
                  a.port = b.port => a = b \/ (b.inbound = None /\ a.port \in overrun[m])
  <2>1. CASE m = n
    BY <1>1, <1>2, <2>1, ImageBindable DEF PortInv
  <2>2. CASE m # n
    BY <1>1, <1>2, <2>2 DEF PortInv, PortsBindable
  <2>3. QED
    BY <2>1, <2>2
<1>3. QED
  BY <1>1, <1>2 DEF PortsBindable

LEMMA PortStep ==
    ASSUME PortInv, Request, UNCHANGED site
    PROVE  PortInv'
<1> DEFINE Goal == /\ Apart(db') /\ Apart(tx'.view) /\ PortsBindable'
                   /\ \A i \in Inbound : db'.row[i] # None => tx'.view.row[i] # None
<1>0. Base /\ Base'
  BY BaseStep DEF PortInv
<1>1. /\ Apart(db) /\ Apart(tx.view) /\ PortsBindable
      /\ \A i \in Inbound : db.row[i] # None => tx.view.row[i] # None
      /\ tx.view \in Tables /\ SeatsExist(tx.view) /\ db \in Tables /\ SeatsExist(db)
  BY <1>0, BaseFacts DEF PortInv
<1>2. runs' = runs => PortsBindable'
  BY <1>1 DEF PortsBindable, site
<1>3. runs' = NoPushes => PortsBindable'
  BY DEF PortsBindable, NoPushes
<1>4. ASSUME NEW v \in Tables, SeatsExist(v), Apart(v), Written(v)
      PROVE  Apart(db') /\ Apart(tx'.view) /\ db' = tx'.view
  <2>1. db' = Forgotten(v) /\ tx'.view = db'
    BY <1>4 DEF Written
  <2>2. Apart(Forgotten(v))
    BY <1>4, ForgottenApart
  <2>3. QED
    BY <2>1, <2>2
<1>5. ASSUME NEW u \in User, Connecting(u) PROVE Goal
  BY <1>1, <1>2, <1>5 DEF Connecting, Started
<1>6. ASSUME NEW u \in User, Reporting(u) PROVE Goal
  <2>1. db' = db /\ runs' = runs
    BY <1>6 DEF Reporting, Started
  <2>2. Apart(tx'.view)
    BY <1>0, <1>1, <1>6, ReportRows, SameRowsApart
  <2>3. \A i \in Inbound : db.row[i] # None => tx'.view.row[i] # None
    BY <1>0, <1>6, ReportRows
  <2>4. QED
    BY <1>1, <1>2, <2>1, <2>2, <2>3
<1>7. ASSUME NEW u \in User, Continued(u) PROVE Goal
  BY <1>1, <1>2, <1>7 DEF Continued
<1>8. ASSUME NEW n \in Node, NEW j \in Inbound, NEW v \in Tables,
             Accepted(n, v, j) \/ Refused(n, v, j) \/ SkippedBroken(n, v, j)
      PROVE  Goal
  <2>1. Seated(v, n, j) /\ db' = db
    BY <1>8 DEF Accepted, Refused, SkippedBroken, Skipping
  <2>2. Apart(v)
    BY <1>0, <1>1, <2>1, SeatedApart
  <2>3. runs' = runs \/ runs' = [runs EXCEPT ![n] = Image(v, n, Unseen(v))]
    BY <1>8 DEF Accepted, Refused, SkippedBroken, Skipping
  <2>4. PortsBindable'
    BY <1>2, <2>2, <2>3, PushBindable
  <2>5. tx'.view = v \/ tx'.view = tx.view
    BY <1>8 DEF Accepted, Refused, SkippedBroken
  <2>6. \A i \in Inbound : db.row[i] # None => v.row[i] # None
    <3>1. v.row[j] # None /\ \A i \in Inbound \ {j} : v.row[i] = tx.view.row[i]
      BY <2>1, RowNoneAssumption DEF Seated
    <3>2. QED
      BY <1>1, <3>1
  <2>7. QED
    BY <1>1, <2>1, <2>2, <2>4, <2>5, <2>6
<1>9. ASSUME SkippedWhole PROVE Goal
  BY <1>1, <1>2, <1>9 DEF SkippedWhole, Skipping
<1>10. ASSUME RolledBack PROVE Goal
  BY <1>1, <1>3, <1>10 DEF RolledBack, Over
<1>11. ASSUME Committed PROVE Goal
  <2>1. Written(tx.view) /\ runs' = NoPushes
    BY <1>11 DEF Committed
  <2>2. QED
    BY <1>1, <1>3, <1>4, <2>1
<1>12. ASSUME NEW i \in Inbound, NEW r, NEW v, Aged(i, r, v) PROVE Goal
  <2>1. Written(v) /\ v \in Tables /\ SeatsExist(v) /\ runs' = runs
    BY <1>12 DEF Aged, Edited
  <2>2. Apart(v)
    BY <1>0, <1>1, <1>12, AgedApart
  <2>3. QED
    BY <1>2, <1>4, <2>1, <2>2
<1>13. ASSUME NEW u \in User, NEW v, Swept(u, v) PROVE Goal
  <2>1. Written(v) /\ v \in Tables /\ SeatsExist(v) /\ runs' = runs /\ v.row = db.row
    BY <1>13 DEF Swept, Emptied
  <2>2. Apart(v)
    BY <1>1, <2>1, SameRowsApart DEF Alive
  <2>3. QED
    BY <1>2, <1>4, <2>1, <2>2
<1>14. Goal
  <2> HIDE DEF Goal
  <2>1. QED
    BY <1>0, StepEffect, <1>5, <1>6, <1>7, <1>8, <1>9, <1>10, <1>11, <1>12, <1>13
<1>15. Apart(db)' /\ Apart(tx.view)'
  BY <1>14 DEF Apart, Alive, Beside, site
<1>16. QED
  BY <1>0, <1>14, <1>15 DEF PortInv

\* What a pass lays over a living inbound, it marks.
LEMMA ReprovisionApart ==
    ASSUME PortInv, NEW n \in Node, Reprovision(n)
    PROVE  PortInv'
<1>1. /\ tx.pc = "idle" /\ db' = db /\ runs' = runs /\ tx' = tx /\ tx.view = db
      /\ runs = NoPushes /\ db \in Tables
  BY ReprovisionStep, BaseFacts DEF PortInv, Base
<1>2. PICK listening \in SUBSET Port, added \in SUBSET Port :
        /\ occupied' = [occupied EXCEPT ![n] = listening]
        /\ control' = [control EXCEPT ![n] = control[n] \cup added]
        /\ overrun' = [overrun EXCEPT ![n] = overrun[n] \cup
                         ((listening \cup added) \cap CustomerPorts(db, n))]
  BY ReprovisionStep DEF PortInv
<1>3. /\ control \in [Node -> SUBSET Port] /\ occupied \in [Node -> SUBSET Port]
      /\ overrun \in [Node -> SUBSET Port]
  BY DEF PortInv, Base, TypeOK
<1>4. ASSUME NEW i \in Inbound, Alive(db, i)
      PROVE  LET q == db.row[i].port
                 m == db.row[i].node
             IN q \in occupied'[m] \cup control'[m] => q \in overrun'[m]
  <2> DEFINE q == db.row[i].port
             m == db.row[i].node
  <2>1. db.row[i] \in Row /\ m \in Node
    BY <1>1, <1>4, TableFields DEF Alive, Row
  <2>2. Beside(q, m)
    BY <1>4 DEF PortInv, Apart
  <2>3. CASE m = n
    <3>1. q \in CustomerPorts(db, n)
      BY <1>4, <2>3 DEF CustomerPorts, RowsOf, Rows, Alive
    <3>2. /\ occupied'[n] = listening /\ control'[n] = control[n] \cup added
          /\ overrun'[n] = overrun[n] \cup ((listening \cup added) \cap CustomerPorts(db, n))
      BY <1>2, <1>3
    <3>3. q \in occupied[n] \cup control[n] => q \in overrun[n]
      BY <2>2, <2>3 DEF Beside
    <3>4. q \in occupied'[n] \cup control'[n] => q \in overrun'[n]
      <4> HIDE DEF q, m
      <4>1. QED
        BY <3>1, <3>2, <3>3
    <3>5. QED
      BY <2>3, <3>4
  <2>4. CASE m # n
    BY <1>2, <1>3, <2>1, <2>2, <2>4 DEF Beside
  <2>5. QED
    BY <2>3, <2>4
<1>5. Apart(db)'
  BY <1>1, <1>4 DEF PortInv, Apart, Alive, Beside
<1>6. Apart(tx.view)'
  BY <1>1, <1>5 DEF Apart, Alive
<1>7. PortsBindable'
  BY <1>1 DEF PortsBindable, NoPushes
<1>8. Base'
  BY BaseNext DEF PortInv, Next
<1>9. QED
  BY <1>1, <1>5, <1>6, <1>7, <1>8 DEF PortInv

LEMMA PortNext ==
    ASSUME PortInv, [Next]_vars
    PROVE  PortInv'
<1>1. CASE Request /\ UNCHANGED site
  BY <1>1, PortStep
<1>2. CASE \E n \in Node : Reprovision(n)
  BY <1>2, ReprovisionApart
<1>3. CASE UNCHANGED vars
  <2>1. Base'
    BY <1>3, BaseNext DEF PortInv
  <2>2. Apart(db)' /\ Apart(tx.view)' /\ PortsBindable'
    BY <1>3 DEF PortInv, vars, site, PortsBindable, Apart, Alive, Beside
  <2>3. \A i \in Inbound : db'.row[i] # None => tx'.view.row[i] # None
    BY <1>3 DEF PortInv, vars
  <2>4. QED
    BY <2>1, <2>2, <2>3 DEF PortInv
<1>4. QED
  BY <1>1, <1>2, <1>3 DEF Next

LEMMA PortHolds == Spec => []PortInv
<1>1. Init => PortInv
  <2> SUFFICES ASSUME Init PROVE PortInv
    OBVIOUS
  <2>1. Base
    BY BaseInit
  <2>2. \A i \in Inbound : db.row[i] = None
    BY DEF Init
  <2>3. runs = NoPushes /\ tx.view = db
    BY DEF Init, Idle
  <2>4. Apart(db) /\ PortsBindable
    BY <2>2, <2>3 DEF Apart, Alive, PortsBindable, NoPushes
  <2>5. QED
    BY <2>1, <2>2, <2>3, <2>4 DEF PortInv
<1>2. PortInv /\ [Next]_vars => PortInv'
  BY PortNext
<1>3. QED
  BY <1>1, <1>2, PTL DEF Spec

\* Whatever requests do before they commit, roll back or are refused, no config
\* pushed to a node binds a customer's inbound to a port that another inbound of
\* it, a control inbound or a service of the node has; but for the ports a
\* repeated pass of provisioning ran over.
THEOREM ConfigsCanBeBound == Spec => []PortsBindable
<1>1. PortInv => PortsBindable
  BY DEF PortInv
<1>2. QED
  BY <1>1, PortHolds, PTL

-----------------------------------------------------------------------------
(* Who kills an inbound.                                                      *)

\* The reports counted in an open window and the users who made them: at most one
\* of those reports is somebody's second, and none on an active inbound.
RowOK(r) ==
    /\ IsFiniteSet(r.by)
    /\ r.state = "active" => r.count <= 1
    /\ r.open /\ r.state # "dead" =>
         1 <= r.count /\ r.count <= Cardinality(r.by) + 1
    /\ r.open /\ r.state = "active" => \E x \in User : r.by = {x}
RowsOK(v) == \A i \in Inbound : v.row[i] # None => RowOK(v.row[i])

\* A user who could report a suspect inbound a second time.
Again(v, i, x) ==
    /\ v.row[i] # None /\ v.row[i].state = "suspect" /\ v.row[i].open
    /\ x \in v.row[i].by /\ v.seat[x] = i

\* There is one such user at most, and then nobody's second report is counted yet.
AgainOnce(v, i, x) ==
    Again(v, i, x) => /\ v.row[i].count <= Cardinality(v.row[i].by)
                      /\ \A y \in User : Again(v, i, y) => y = x

\* The author of the report being served, still seated where they were: they
\* will be moved before anything is committed.
Leaving(x) == tx.pc = "choose" /\ tx.who = x /\ tx.by = x
AgainHere(i, x) == Again(tx.view, i, x) /\ ~Leaving(x)
AgainHereOnce(i, x) ==
    AgainHere(i, x) => /\ tx.view.row[i].count <= Cardinality(tx.view.row[i].by)
                       /\ \A y \in User : AgainHere(i, y) => y = x

\* The second report in a window makes an inbound suspect and a suspect inbound
\* seats nobody, so only the author of the first one may still come to it, from
\* the time it was active.
KillInv ==
    /\ PortInv
    /\ RowsOK(db) /\ RowsOK(tx.view)
    /\ \A i \in Inbound, x \in User : AgainOnce(db, i, x) /\ AgainHereOnce(i, x)
    /\ \A i \in Inbound :
         Alive(db, i) /\ tx.view.row[i].state = "dead"
           => Cardinality(tx.view.row[i].by) >= FailThreshold - 1

LEMMA OneMore ==
    ASSUME NEW S, IsFiniteSet(S), NEW x
    PROVE  /\ IsFiniteSet(S \cup {x}) /\ Cardinality(S) \in Nat
           /\ x \notin S => Cardinality(S \cup {x}) = Cardinality(S) + 1
           /\ Cardinality(S \cup {x}) \in Nat /\ Cardinality(S) <= Cardinality(S \cup {x})
           /\ IsFiniteSet({x}) /\ Cardinality({x}) = 1
<1>1. /\ IsFiniteSet(S \cup {x}) /\ Cardinality(S) \in Nat
      /\ Cardinality(S \cup {x}) = Cardinality(S) \/ Cardinality(S \cup {x}) = Cardinality(S) + 1
      /\ x \notin S => Cardinality(S \cup {x}) = Cardinality(S) + 1
  BY FS_AddElement, FS_CardinalityType
<1>2. IsFiniteSet({x}) /\ Cardinality({x}) = 1
  BY FS_Singleton
<1>3. QED
  BY <1>1, <1>2

\* One report on a row: what it leaves fits, as long as an author who is heard
\* again is the first that is, and so does what it leaves to those who may still
\* come.
LEMMA BumpedOK ==
    ASSUME NEW r \in Row, RowOK(r), NEW u \in User,
           r.state = "suspect" /\ r.open /\ u \in r.by => r.count <= Cardinality(r.by)
    PROVE  LET b == Bumped(r, u) IN
           /\ RowOK(b) /\ RowOK(Killed(b))
           /\ b.state # "dead" => b.count <= Cardinality(b.by) + 1
           /\ \A y \in User :
                y # u /\ y \in b.by /\ b.state = "suspect" =>
                  /\ r.open /\ y \in r.by
                  /\ r.state = "active" => /\ b.count <= Cardinality(b.by)
                                           /\ \A x \in b.by : x = u \/ x = y
                  /\ r.state = "suspect" =>
                       (u \notin r.by /\ r.count <= Cardinality(r.by)
                          => b.count <= Cardinality(b.by))
<1> DEFINE b == Bumped(r, u)
<1>1. /\ b \in Row
      /\ b.open /\ b.by = IF r.open THEN r.by \cup {u} ELSE {u}
      /\ b.count = IF r.open THEN IF r.count < FailThreshold THEN r.count + 1 ELSE r.count
                   ELSE 1
      /\ b.state = IF b.count > 1 /\ r.state = "active" THEN "suspect" ELSE r.state
  BY BumpedEffect
<1>2. /\ b.count \in Nat /\ r.count \in Nat /\ FailThreshold \in Nat /\ FailThreshold > 1
      /\ r.state \in {"active", "suspect", "dead"}
  BY <1>1, ThresholdAssumption DEF Row
<1>3. Killed(b).state = "dead" /\ Killed(b).by = b.by
  BY <1>1, KilledEffect
<1>4. /\ IsFiniteSet(r.by)
      /\ r.state = "active" => r.count <= 1
      /\ r.open /\ r.state # "dead" => 1 <= r.count /\ r.count <= Cardinality(r.by) + 1
      /\ r.open /\ r.state = "active" => \E x \in User : r.by = {x}
  BY DEF RowOK
<1> DEFINE c == Cardinality(r.by)
           d == Cardinality(r.by \cup {u})
<1>5. /\ IsFiniteSet(r.by \cup {u}) /\ c \in Nat /\ d \in Nat /\ c <= d
      /\ u \notin r.by => d = c + 1
      /\ IsFiniteSet({u}) /\ Cardinality({u}) = 1
  BY <1>4, OneMore
<1> HIDE DEF b, c, d
<1>6. IsFiniteSet(b.by)
  BY <1>1, <1>5
<1>7. CASE ~r.open
  <2>1. b.count = 1 /\ b.by = {u} /\ Cardinality(b.by) = 1
    BY <1>1, <1>5, <1>7
  <2>2. RowOK(b) /\ RowOK(Killed(b))
    BY <1>3, <1>5, <1>6, <2>1 DEF RowOK
  <2>3. QED
    BY <2>1, <2>2 DEF b
<1>8. CASE r.open /\ r.state = "dead"
  <2>1. b.state = "dead"
    BY <1>1, <1>8
  <2>2. RowOK(b) /\ RowOK(Killed(b))
    BY <1>3, <1>6, <2>1 DEF RowOK
  <2>3. QED
    BY <2>1, <2>2 DEF b
<1>9. CASE r.open /\ r.state = "active"
  <2>1. PICK x \in User : r.by = {x}
    BY <1>4, <1>9
  <2>2. b.count = 2 /\ b.state = "suspect" /\ b.by = r.by \cup {u} /\ Cardinality(b.by) = d
    BY <1>1, <1>2, <1>4, <1>9 DEF d
  <2>3. c = 1
    BY <2>1, FS_Singleton DEF c
  <2>4. RowOK(b) /\ RowOK(Killed(b)) /\ b.count <= Cardinality(b.by) + 1
    BY <1>2, <1>3, <1>5, <1>6, <2>2, <2>3 DEF RowOK
  <2>5. ASSUME NEW y \in User, y # u, y \in b.by
        PROVE  /\ y \in r.by /\ b.count <= Cardinality(b.by)
               /\ \A z \in b.by : z = u \/ z = y
    <3>1. y = x /\ y \in r.by
      BY <2>1, <2>2, <2>5
    <3>2. u \notin r.by
      BY <2>1, <2>5, <3>1
    <3>3. d = 2
      BY <1>5, <2>3, <3>2
    <3>4. QED
      BY <2>1, <2>2, <3>1, <3>3
  <2>6. QED
    BY <1>9, <2>4, <2>5 DEF b
<1>10. CASE r.open /\ r.state = "suspect"
  <2>1. /\ b.state = "suspect" /\ b.by = r.by \cup {u} /\ Cardinality(b.by) = d
        /\ b.count <= r.count + 1 /\ 1 <= b.count
    BY <1>1, <1>2, <1>4, <1>10 DEF d
  <2>2. b.count <= d + 1
    <3>1. CASE u \in r.by
      BY <1>2, <1>5, <1>10, <2>1, <3>1 DEF c
    <3>2. CASE u \notin r.by
      BY <1>2, <1>4, <1>5, <1>10, <2>1, <3>2 DEF c
    <3>3. QED
      BY <3>1, <3>2
  <2>3. RowOK(b) /\ RowOK(Killed(b)) /\ b.count <= Cardinality(b.by) + 1
    BY <1>3, <1>6, <2>1, <2>2 DEF RowOK
  <2>4. u \notin r.by /\ r.count <= Cardinality(r.by) => b.count <= Cardinality(b.by)
    BY <1>2, <1>5, <2>1 DEF c
  <2>5. \A y \in User : y # u /\ y \in b.by => y \in r.by
    BY <2>1
  <2>6. QED
    BY <1>10, <2>3, <2>4, <2>5 DEF b
<1>11. QED
  BY <1>2, <1>7, <1>8, <1>9, <1>10

LEMMA NewRowOK ==
    ASSUME NEW n \in Node, NEW p \in Port
    PROVE  RowOK(NewRow(n, p))
<1>1. NewRow(n, p).count = 0 /\ NewRow(n, p).by = {}
  BY NewRowFields
<1>2. ~NewRow(n, p).open
  BY Zenon DEF NewRow
<1>3. IsFiniteSet({})
  BY FS_EmptySet
<1>4. QED
  BY <1>1, <1>2, <1>3 DEF RowOK

LEMMA SeatedKill ==
    ASSUME KillInv, tx.pc = "choose", NEW n \in Node, NEW j \in Inbound,
           NEW v \in Tables, Seated(v, n, j)
    PROVE  /\ RowsOK(v)
           /\ \A i \in Inbound, x \in User :
                Again(v, i, x) => /\ AgainHere(i, x)
                                  /\ v.row[i] = tx.view.row[i]
           /\ \A i \in Inbound, x \in User : AgainOnce(v, i, x)
           /\ \A i \in Inbound : Alive(db, i) /\ v.row[i].state = "dead"
                                   => Cardinality(v.row[i].by) >= FailThreshold - 1
<1> DEFINE w == tx.view
<1>1. /\ RowsOK(w) /\ tx.who \in User /\ w.seat \in [User -> Inbound \cup {None}]
      /\ \A i \in Inbound : db.row[i] # None => w.row[i] # None
  BY BaseFacts, TableFields DEF KillInv, PortInv, Base
<1>2. /\ v.row[j].state = "active" /\ \A i \in Inbound \ {j} : v.row[i] = w.row[i]
      /\ v.seat = [w.seat EXCEPT ![tx.who] = j]
  BY DEF Seated
<1>3. RowOK(v.row[j])
  <2>1. CASE v.row[j] = w.row[j]
    BY <1>1, <2>1, RowNoneAssumption DEF Seated, RowsOK
  <2>2. CASE v.row[j] # w.row[j]
    <3>1. PICK p \in PortChoices(w, n) : v.row[j] = NewRow(n, p)
      BY <2>2 DEF Seated
    <3>2. p \in Port
      BY <3>1, PortChoicesFree
    <3>3. QED
      BY <3>1, <3>2, NewRowOK
  <2>3. QED
    BY <2>1, <2>2
<1>4. RowsOK(v)
  BY <1>1, <1>2, <1>3 DEF RowsOK
<1>5. ASSUME NEW i \in Inbound, NEW x \in User, Again(v, i, x)
      PROVE  AgainHere(i, x) /\ v.row[i] = w.row[i]
  <2>1. i # j
    BY <1>2, <1>5 DEF Again
  <2>2. x # tx.who
    BY <1>1, <1>2, <1>5, <2>1 DEF Again
  <2>3. QED
    BY <1>1, <1>2, <1>5, <2>1, <2>2 DEF Again, AgainHere, Leaving
<1>6. ASSUME NEW i \in Inbound, Alive(db, i), v.row[i].state = "dead"
      PROVE  Cardinality(v.row[i].by) >= FailThreshold - 1
  <2>1. i # j
    BY <1>2, <1>6
  <2>2. QED
    BY <1>2, <1>6, <2>1 DEF KillInv, Alive
<1>7. ASSUME NEW i \in Inbound, NEW x \in User, Again(v, i, x)
      PROVE  /\ v.row[i].count <= Cardinality(v.row[i].by)
             /\ \A y \in User : Again(v, i, y) => y = x
  <2>1. AgainHereOnce(i, x)
    BY DEF KillInv
  <2>2. QED
    BY <1>5, <1>7, <2>1 DEF AgainHereOnce
<1>8. QED
  BY <1>4, <1>5, <1>6, <1>7 DEF AgainOnce

LEMMA ReportKill ==
    ASSUME KillInv, NEW u \in User, Reporting(u)
    PROVE  LET v == tx'.view IN
           /\ RowsOK(v)
           /\ \A i \in Inbound, x \in User :
                x # u /\ Again(v, i, x) =>
                  /\ v.row[i].count <= Cardinality(v.row[i].by)
                  /\ \A y \in User : y # u /\ Again(v, i, y) => y = x
           /\ \A i \in Inbound : Alive(db, i) /\ v.row[i].state = "dead"
                                   => Cardinality(v.row[i].by) >= FailThreshold - 1
<1> DEFINE i == db.seat[u]
           r == db.row[i]
           b == Bumped(r, u)
           v == tx'.view
<1>1. i \in Inbound /\ r \in Row /\ r # None /\ RowsOK(db)
  BY RowNoneAssumption DEF Reporting, KillInv
<1>2. RowOK(r) /\ IsFiniteSet(r.by)
  BY <1>1 DEF RowsOK, RowOK
<1>3. \A x \in User : AgainOnce(db, i, x)
  BY <1>1 DEF KillInv
<1>4. r.state = "suspect" /\ r.open /\ u \in r.by =>
        /\ r.count <= Cardinality(r.by)
        /\ \A y \in User : Again(db, i, y) => y = u
  BY <1>1, <1>3 DEF AgainOnce, Again
<1>5. /\ b \in Row /\ b.open /\ b.by = IF r.open THEN r.by \cup {u} ELSE {u}
      /\ b.state = IF b.count > 1 /\ r.state = "active" THEN "suspect" ELSE r.state
      /\ b.count \in Nat /\ FailThreshold \in Nat
  <2>1. /\ b \in Row /\ b.open /\ b.by = IF r.open THEN r.by \cup {u} ELSE {u}
        /\ b.state = IF b.count > 1 /\ r.state = "active" THEN "suspect" ELSE r.state
    BY <1>1, BumpedEffect
  <2>2. b.count \in Nat /\ FailThreshold \in Nat
    BY <2>1, ThresholdAssumption DEF Row
  <2>3. QED
    BY <2>1, <2>2
<1>6. Killed(b).state = "dead" /\ Killed(b).by = b.by
  BY <1>5, KilledEffect
<1>7. /\ RowOK(b) /\ RowOK(Killed(b))
      /\ b.state # "dead" => b.count <= Cardinality(b.by) + 1
      /\ \A y \in User :
           y # u /\ y \in b.by /\ b.state = "suspect" =>
             /\ r.open /\ y \in r.by
             /\ r.state = "active" => /\ b.count <= Cardinality(b.by)
                                      /\ \A x \in b.by : x = u \/ x = y
             /\ r.state = "suspect" =>
                  (u \notin r.by /\ r.count <= Cardinality(r.by)
                     => b.count <= Cardinality(b.by))
  BY <1>1, <1>2, <1>4, BumpedOK
<1>8. IsFiniteSet(b.by) /\ Cardinality(b.by) \in Nat
  BY <1>7, FS_CardinalityType DEF RowOK
<1>9. /\ v.seat = db.seat /\ \A k \in Inbound \ {i} : v.row[k] = db.row[k]
      /\ v.row[i] = b \/ (v.row[i] = Killed(b) /\ b.count >= FailThreshold)
  <2>1. Edited(v, db, i, b) \/ (Edited(v, db, i, Killed(b)) /\ b.count >= FailThreshold)
    BY DEF Reporting
  <2> HIDE DEF v, b
  <2>2. QED
    BY <2>1 DEF Edited
<1>10. r.state = "active" \/ r.state = "suspect" \/ r.state = "dead"
  BY <1>1 DEF Row
<1>11. db.seat[u] = i /\ db.row[i] = r
  OBVIOUS
<1> HIDE DEF v, b, r, i
<1>12. RowsOK(v)
  BY <1>1, <1>7, <1>9 DEF RowsOK
<1>13. ASSUME NEW k \in Inbound, NEW x \in User, x # u, Again(v, k, x)
       PROVE  /\ v.row[k].count <= Cardinality(v.row[k].by)
              /\ \A y \in User : y # u /\ Again(v, k, y) => y = x
  <2>1. CASE k # i
    <3>1. \A y \in User : Again(v, k, y) <=> Again(db, k, y)
      BY <1>9, <2>1 DEF Again
    <3>2. AgainOnce(db, k, x)
      BY DEF KillInv
    <3>3. QED
      BY <1>9, <1>13, <2>1, <3>1, <3>2 DEF AgainOnce
  <2>2. CASE k = i
    <3>1. v.row[k] = b
      BY <1>6, <1>9, <1>13, <2>2 DEF Again
    <3>2. x \in b.by /\ b.state = "suspect" /\ db.seat[x] = i
      BY <1>9, <1>13, <2>2, <3>1 DEF Again
    <3>3. r.open /\ x \in r.by
      BY <1>7, <1>13, <3>2
    <3>4. \A y \in User : y # u /\ Again(v, k, y) => y \in b.by /\ y \in r.by /\ db.seat[y] = i
      BY <1>7, <1>9, <2>2, <3>1, <3>2 DEF Again
    <3>5. CASE r.state = "active"
      BY <1>7, <1>13, <3>1, <3>2, <3>4, <3>5
    <3>6. CASE r.state = "suspect"
      <4>1. Again(db, i, x)
        BY <1>1, <1>11, <3>2, <3>3, <3>6 DEF Again
      <4>2. r.count <= Cardinality(r.by) /\ \A y \in User : Again(db, i, y) => y = x
        BY <1>3, <1>11, <4>1 DEF AgainOnce
      <4>3. u \notin r.by
        BY <1>4, <1>13, <3>3, <3>6, <4>1
      <4>4. b.count <= Cardinality(b.by)
        BY <1>7, <1>13, <3>2, <3>6, <4>2, <4>3
      <4>5. \A y \in User : y # u /\ Again(v, k, y) => Again(db, i, y)
        BY <1>1, <1>11, <3>3, <3>4, <3>6 DEF Again
      <4>6. QED
        BY <3>1, <4>2, <4>4, <4>5
    <3>7. CASE r.state = "dead"
      BY <1>5, <3>2, <3>7
    <3>8. QED
      BY <1>10, <3>5, <3>6, <3>7
  <2>3. QED
    BY <2>1, <2>2
<1>14. ASSUME NEW k \in Inbound, Alive(db, k), v.row[k].state = "dead"
       PROVE  Cardinality(v.row[k].by) >= FailThreshold - 1
  <2>1. CASE k = i
    <3>1. r.state # "dead"
      BY <1>11, <1>14, <2>1 DEF Alive
    <3>2. b.state # "dead"
      BY <1>5, <3>1
    <3>3. v.row[k] = Killed(b) /\ b.count >= FailThreshold
      BY <1>9, <1>14, <2>1, <3>2
    <3>4. QED
      BY <1>5, <1>6, <1>7, <1>8, <3>2, <3>3
  <2>2. CASE k # i
    <3>1. db.row[k] = v.row[k]
      BY <1>9, <2>2
    <3>2. QED
      BY <1>14, <3>1 DEF Alive
  <2>3. QED
    BY <2>1, <2>2
<1>15. QED
  BY <1>12, <1>13, <1>14 DEF v

LEMMA WrittenKill ==
    ASSUME NEW v \in Tables, SeatsExist(v), RowsOK(v),
           \A i \in Inbound, x \in User : AgainOnce(v, i, x), Written(v)
    PROVE  /\ db' = tx'.view /\ RowsOK(tx'.view)
           /\ \A i \in Inbound, x \in User : AgainOnce(tx'.view, i, x)
<1>1. db' = Forgotten(v) /\ tx'.view = Forgotten(v)
  BY DEF Written
<1>2. /\ Forgotten(v).seat = v.seat
      /\ \A i \in Inbound : Forgotten(v).row[i] # None => Forgotten(v).row[i] = v.row[i]
  BY ForgottenEffect
<1>3. RowsOK(Forgotten(v))
  BY <1>2 DEF RowsOK
<1>4. \A i \in Inbound, x \in User :
        Again(Forgotten(v), i, x) => Again(v, i, x) /\ Forgotten(v).row[i] = v.row[i]
  BY <1>2 DEF Again
<1>5. \A i \in Inbound, x \in User : AgainOnce(Forgotten(v), i, x)
  BY <1>4 DEF AgainOnce
<1>6. QED
  BY <1>1, <1>3, <1>5

LEMMA AgedKill ==
    ASSUME KillInv, NEW i \in Inbound, NEW r, NEW v, Aged(i, r, v)
    PROVE  RowsOK(v) /\ \A k \in Inbound, x \in User : AgainOnce(v, k, x)
<1>1. /\ db.row[i] \in Row /\ r \in Row /\ v.row[i] = r /\ v.seat = db.seat
      /\ \A k \in Inbound \ {i} : v.row[k] = db.row[k]
      /\ r.state = db.row[i].state /\ r.count = db.row[i].count
      /\ r.by \subseteq db.row[i].by
      /\ ~r.open \/ (r.open = db.row[i].open /\ r.by = db.row[i].by)
  BY DEF Aged, Aging, Edited
<1>2. db.row[i] # None /\ RowOK(db.row[i])
  BY <1>1, RowNoneAssumption DEF KillInv, RowsOK
<1>3. IsFiniteSet(r.by)
  BY <1>1, <1>2, FS_Subset DEF RowOK
<1>4. RowOK(r)
  BY <1>1, <1>2, <1>3 DEF RowOK
<1>5. RowsOK(v)
  BY <1>1, <1>4 DEF RowsOK, KillInv
<1>6. \A k \in Inbound, x \in User :
        Again(v, k, x) => /\ Again(db, k, x) /\ v.row[k].count = db.row[k].count
                          /\ v.row[k].by = db.row[k].by
  BY <1>1, <1>2 DEF Again
<1>7. \A k \in Inbound, x \in User : AgainOnce(v, k, x)
  BY <1>6 DEF AgainOnce, KillInv
<1>8. QED
  BY <1>5, <1>7

LEMMA SweptKill ==
    ASSUME KillInv, NEW u \in User, NEW v, Swept(u, v)
    PROVE  RowsOK(v) /\ \A k \in Inbound, x \in User : AgainOnce(v, k, x)
<1>1. v.row = db.row /\ v.seat = [db.seat EXCEPT ![u] = None] /\ RowsOK(db)
      /\ db.seat \in [User -> Inbound \cup {None}]
  BY BaseFacts, TableFields DEF Swept, Emptied, KillInv, PortInv
<1>2. RowsOK(v)
  BY <1>1 DEF RowsOK
<1>3. ASSUME NEW k \in Inbound, NEW x \in User, Again(v, k, x)
      PROVE  Again(db, k, x) /\ v.row[k] = db.row[k]
  <2>1. CASE x = u
    BY <1>1, <1>3, <2>1, BlockingNoneAssumption DEF Again
  <2>2. CASE x # u
    BY <1>1, <1>3, <2>2 DEF Again
  <2>3. QED
    BY <2>1, <2>2
<1>4. \A k \in Inbound, x \in User : AgainOnce(v, k, x)
  BY <1>3 DEF AgainOnce, KillInv
<1>5. QED
  BY <1>2, <1>4

LEMMA KillStep ==
    ASSUME KillInv, Request, UNCHANGED site
    PROVE  KillInv'
<1> DEFINE Once(i, x) ==
             Again(tx'.view, i, x) /\ ~(tx'.pc = "choose" /\ tx'.who = x /\ tx'.by = x) =>
               /\ tx'.view.row[i].count <= Cardinality(tx'.view.row[i].by)
               /\ \A y \in User :
                    Again(tx'.view, i, y)
                      /\ ~(tx'.pc = "choose" /\ tx'.who = y /\ tx'.by = y) => y = x
           Goal ==
      /\ RowsOK(db') /\ RowsOK(tx'.view)
      /\ \A i \in Inbound, x \in User : AgainOnce(db', i, x) /\ Once(i, x)
      /\ \A i \in Inbound :
           Alive(db', i) /\ tx'.view.row[i].state = "dead"
             => Cardinality(tx'.view.row[i].by) >= FailThreshold - 1
<1>0. PortInv /\ PortInv' /\ Base
  BY PortStep DEF KillInv, PortInv
<1>1. /\ RowsOK(db) /\ RowsOK(tx.view)
      /\ tx.view \in Tables /\ SeatsExist(tx.view) /\ db \in Tables
      /\ \A i \in Inbound, x \in User : AgainOnce(db, i, x) /\ AgainHereOnce(i, x)
      /\ \A i \in Inbound :
           Alive(db, i) /\ tx.view.row[i].state = "dead"
             => Cardinality(tx.view.row[i].by) >= FailThreshold - 1
  BY <1>0, BaseFacts DEF KillInv
<1>2. ASSUME \A i \in Inbound, x \in User : AgainOnce(tx'.view, i, x)
      PROVE  \A i \in Inbound, x \in User : Once(i, x)
  BY <1>2 DEF AgainOnce
\* Nobody is on their way out before or after: what was true here stays true.
<1>3. ASSUME tx'.view = tx.view, \A x \in User : Leaving(x) => tx'.pc = "choose" /\ tx'.who = x /\ tx'.by = x
      PROVE  \A i \in Inbound, x \in User : Once(i, x)
  <2>1. ASSUME NEW i \in Inbound, NEW x \in User, Again(tx'.view, i, x),
               ~(tx'.pc = "choose" /\ tx'.who = x /\ tx'.by = x)
        PROVE  AgainHere(i, x)
    BY <1>3, <2>1 DEF AgainHere
  <2>2. ASSUME NEW i \in Inbound, NEW x \in User, AgainHere(i, x)
        PROVE  /\ tx.view.row[i].count <= Cardinality(tx.view.row[i].by)
               /\ \A y \in User : AgainHere(i, y) => y = x
    BY <1>1, <2>2 DEF AgainHereOnce
  <2>3. QED
    BY <1>3, <2>1, <2>2
<1>4. ASSUME NEW v \in Tables, SeatsExist(v), RowsOK(v), Written(v),
             \A i \in Inbound, x \in User : AgainOnce(v, i, x)
      PROVE  Goal
  <2>1. /\ db' = tx'.view /\ RowsOK(tx'.view)
        /\ \A i \in Inbound, x \in User : AgainOnce(tx'.view, i, x)
    BY <1>4, WrittenKill
  <2>2. \A i \in Inbound, x \in User : Once(i, x)
    BY <1>2, <2>1
  <2> HIDE DEF Once
  <2>3. QED
    BY <2>1, <2>2 DEF Alive
<1>5. ASSUME NEW u \in User, Connecting(u) PROVE Goal
  <2>1. db' = db /\ tx'.view = db
    BY <1>5 DEF Connecting, Started
  <2>2. \A i \in Inbound, x \in User : Once(i, x)
    BY <1>1, <1>2, <2>1
  <2> HIDE DEF Once
  <2>3. QED
    BY <1>1, <2>1, <2>2 DEF Alive
<1>6. ASSUME NEW u \in User, Reporting(u) PROVE Goal
  <2>1. db' = db /\ tx'.pc = "choose" /\ tx'.who = u /\ tx'.by = u
    BY <1>6 DEF Reporting, Started
  <2>2. /\ RowsOK(tx'.view)
        /\ \A i \in Inbound : Alive(db, i) /\ tx'.view.row[i].state = "dead"
                                => Cardinality(tx'.view.row[i].by) >= FailThreshold - 1
    BY <1>6, ReportKill
  <2>3. \A i \in Inbound, x \in User :
          x # u /\ Again(tx'.view, i, x) =>
            /\ tx'.view.row[i].count <= Cardinality(tx'.view.row[i].by)
            /\ \A y \in User : y # u /\ Again(tx'.view, i, y) => y = x
    BY <1>6, ReportKill
  <2>4. \A i \in Inbound, x \in User : Once(i, x)
    BY <2>1, <2>3
  <2> HIDE DEF Once
  <2>5. QED
    BY <1>1, <2>1, <2>2, <2>4
<1>7. ASSUME NEW u \in User, Continued(u) PROVE Goal
  <2>1. db' = db /\ tx'.view = tx.view /\ tx.pc \in {"placed", "skipped"}
    BY <1>7 DEF Continued
  <2>2. \A i \in Inbound, x \in User : Once(i, x)
    BY <1>3, <2>1 DEF Leaving
  <2> HIDE DEF Once
  <2>3. QED
    BY <1>1, <2>1, <2>2
<1>8. ASSUME NEW n \in Node, NEW j \in Inbound, NEW v \in Tables,
             Accepted(n, v, j) \/ Refused(n, v, j) \/ SkippedBroken(n, v, j)
      PROVE  Goal
  <2>1. Seated(v, n, j) /\ db' = db /\ tx.pc = "choose"
    BY <1>8 DEF Accepted, Refused, SkippedBroken, Skipping
  <2>2. /\ RowsOK(v)
        /\ \A i \in Inbound, x \in User : AgainOnce(v, i, x)
        /\ \A i \in Inbound : Alive(db, i) /\ v.row[i].state = "dead"
                                => Cardinality(v.row[i].by) >= FailThreshold - 1
    BY <2>1, SeatedKill
  <2>3. \/ tx'.view = v
        \/ tx'.view = tx.view /\ tx'.pc = tx.pc /\ tx'.who = tx.who /\ tx'.by = tx.by
    BY <1>8 DEF Accepted, Refused, SkippedBroken, SameRequest
  <2>4. \A i \in Inbound, x \in User : Once(i, x)
    BY <1>2, <1>3, <2>2, <2>3 DEF Leaving
  <2> HIDE DEF Once
  <2>5. QED
    BY <1>1, <2>1, <2>2, <2>3, <2>4
<1>9. ASSUME SkippedWhole PROVE Goal
  <2>1. db' = db /\ tx'.view = tx.view /\ tx.who # tx.by
    BY <1>9 DEF SkippedWhole, Skipping
  <2>2. \A i \in Inbound, x \in User : Once(i, x)
    BY <1>3, <2>1 DEF Leaving
  <2> HIDE DEF Once
  <2>3. QED
    BY <1>1, <2>1, <2>2
<1>10. ASSUME RolledBack PROVE Goal
  <2>1. db' = db /\ tx'.view = db
    BY <1>10 DEF RolledBack, Over
  <2>2. \A i \in Inbound, x \in User : Once(i, x)
    BY <1>1, <1>2, <2>1
  <2> HIDE DEF Once
  <2>3. QED
    BY <1>1, <2>1, <2>2 DEF Alive
<1>11. ASSUME Committed PROVE Goal
  <2>1. tx.pc # "choose" /\ Written(tx.view)
    BY <1>11 DEF Committed
  <2>2. \A i \in Inbound, x \in User : AgainOnce(tx.view, i, x)
    BY <1>1, <2>1 DEF AgainOnce, AgainHereOnce, AgainHere, Leaving
  <2> HIDE DEF Goal
  <2>3. QED
    BY <1>1, <1>4, <2>1, <2>2
<1>12. ASSUME NEW i \in Inbound, NEW r, NEW v, Aged(i, r, v) PROVE Goal
  <2>1. Written(v) /\ v \in Tables /\ SeatsExist(v)
    BY <1>12 DEF Aged, Edited
  <2> HIDE DEF Goal
  <2>2. QED
    BY <1>4, <1>12, <2>1, AgedKill
<1>13. ASSUME NEW u \in User, NEW v, Swept(u, v) PROVE Goal
  <2>1. Written(v) /\ v \in Tables /\ SeatsExist(v)
    BY <1>13 DEF Swept, Emptied
  <2> HIDE DEF Goal
  <2>2. QED
    BY <1>4, <1>13, <2>1, SweptKill
<1>14. Goal
  <2> HIDE DEF Goal
  <2>1. QED
    BY <1>0, StepEffect, <1>5, <1>6, <1>7, <1>8, <1>9, <1>10, <1>11, <1>12, <1>13
<1>15. QED
  BY <1>0, <1>14 DEF KillInv, RowsOK, AgainOnce, AgainHereOnce, AgainHere, Again, Leaving, Alive

LEMMA KillNext ==
    ASSUME KillInv, [Next]_vars
    PROVE  KillInv'
<1>1. CASE Request /\ UNCHANGED site
  BY <1>1, KillStep
<1>2. CASE (\E n \in Node : Reprovision(n)) \/ UNCHANGED vars
  <2>1. db' = db /\ tx' = tx
    BY <1>2, ReprovisionStep DEF vars, KillInv, PortInv
  <2>2. PortInv'
    BY PortNext DEF KillInv
  <2>3. QED
    BY <2>1, <2>2 DEF KillInv, RowsOK, AgainOnce, AgainHereOnce, AgainHere, Again, Leaving, Alive
<1>3. QED
  BY <1>1, <1>2 DEF Next

LEMMA KillHolds == Spec => []KillInv
<1>1. Init => KillInv
  <2> SUFFICES ASSUME Init PROVE KillInv
    OBVIOUS
  <2>1. \A i \in Inbound : db.row[i] = None
    BY DEF Init
  <2>2. runs = NoPushes /\ tx.view = db
    BY DEF Init, Idle
  <2>3. PortInv
    <3>1. Base
      BY BaseInit
    <3>2. QED
      BY <2>1, <2>2, <3>1 DEF PortInv, Apart, Alive, PortsBindable, NoPushes
  <2>4. QED
    BY <2>1, <2>2, <2>3 DEF KillInv, RowsOK, AgainOnce, AgainHereOnce, AgainHere, Again, Alive
<1>2. KillInv /\ [Next]_vars => KillInv'
  BY KillNext
<1>3. QED
  BY <1>1, <1>2, PTL DEF Spec

\* However accounts report, reconnect and wait, an inbound is only ever declared
\* dead on the word of as many of them as reports are needed, less one.
THEOREM KillersAreMany == Spec => KillersAreDistinct
<1> DEFINE Body ==
      \A i \in Inbound :
         db.row[i] # None /\ db.row[i].state # "dead"
           /\ db'.row[i] # None /\ db'.row[i].state = "dead"
         => Cardinality(db'.row[i].by) >= FailThreshold - 1
<1>1. KillInv /\ [Next]_vars => [Body]_vars
  <2> SUFFICES ASSUME KillInv, Next, NEW i \in Inbound,
                      db.row[i] # None, db.row[i].state # "dead",
                      db'.row[i] # None, db'.row[i].state = "dead"
               PROVE  Cardinality(db'.row[i].by) >= FailThreshold - 1
    OBVIOUS
  <2>0. Base /\ db \in Tables /\ SeatsExist(db) /\ tx.view \in Tables /\ SeatsExist(tx.view)
    BY BaseFacts DEF KillInv, PortInv
  <2>1. db' # db
    OBVIOUS
  <2>11. Request
    BY <2>0, <2>1, ReprovisionStep DEF Next
  <2>2. ASSUME NEW v \in Tables, SeatsExist(v), Written(v) PROVE db'.row[i] = v.row[i]
    <3>1. db' = Forgotten(v)
      BY <2>2 DEF Written
    <3>2. QED
      BY <2>2, <3>1, ForgottenEffect
  <2>3. ~\E u \in User : Connecting(u) \/ Reporting(u) \/ Continued(u)
    BY <2>1 DEF Connecting, Reporting, Continued, Started
  <2>4. ~\E n \in Node, j \in Inbound, v \in Tables :
            Accepted(n, v, j) \/ Refused(n, v, j) \/ SkippedBroken(n, v, j)
    BY <2>1 DEF Accepted, Refused, SkippedBroken, Skipping
  <2>5. ~SkippedWhole /\ ~RolledBack
    BY <2>1 DEF SkippedWhole, Skipping, RolledBack
  <2>6. ASSUME NEW k \in Inbound, NEW r, NEW v, Aged(k, r, v) PROVE FALSE
    <3>1. db'.row[i] = v.row[i]
      BY <2>2, <2>6 DEF Aged, Edited
    <3>2. v.row[i].state = db.row[i].state
      <4>1. CASE i = k
        BY <2>6, <4>1 DEF Aged, Aging, Edited
      <4>2. CASE i # k
        BY <2>6, <4>2 DEF Aged, Edited
      <4>3. QED
        BY <4>1, <4>2
    <3>3. QED
      BY <3>1, <3>2
  <2>7. ASSUME NEW u \in User, NEW v, Swept(u, v) PROVE FALSE
    BY <2>2, <2>7 DEF Swept, Emptied
  <2>8. Committed
    BY <2>0, <2>11, StepEffect, <2>3, <2>4, <2>5, <2>6, <2>7
  <2>9. db'.row[i] = tx.view.row[i]
    BY <2>0, <2>2, <2>8 DEF Committed
  <2>10. QED
    BY <2>9 DEF KillInv, Alive
<1>2. QED
  BY <1>1, KillHolds, PTL DEF Spec, KillersAreDistinct

-----------------------------------------------------------------------------
(* Moving those who are stranded.                                             *)

Unmoved(u) == tx.view.seat[u] = db.seat[u]

\* Whom a request has moved without being asked, and what it owes them.
Moved(u) == u # tx.by /\ u \notin tx.broken /\ ~Unmoved(u)
Whole(u) ==
    LET i == tx.view.seat[u]
    IN /\ i \in Inbound /\ Alive(tx.view, i)
       /\ u \notin tx.unseen =>
            \E a \in runs[tx.view.row[i].node] : a.inbound = i /\ u \in a.clients
       /\ u \in tx.told \/ (tx.pc = "placed" /\ tx.who = u)

\* Whoever waits, and the one being placed for the first time, still sits where
\* they sat; whoever does not is whole at every moment of the request, and not
\* only when it commits: a later push to the same node lists them again.
MoveInv ==
    /\ Base
    /\ tx.pc # "idle" =>
         /\ \A u \in tx.waiting : u # tx.by /\ Unmoved(u)
         /\ tx.pc = "choose" =>
              /\ tx.who # tx.by => Unmoved(tx.who)
              /\ tx.who \notin tx.waiting
         /\ \A u \in User : Moved(u) => Whole(u)

\* The others on their way through somebody's attempt.
LEMMA OthersKeep ==
    ASSUME Base, tx.pc = "choose", NEW n \in Node, NEW j \in Inbound, NEW v \in Tables,
           Seated(v, n, j), NEW u \in User, u # tx.who, Whole(u),
           \/ runs' = runs
           \/ runs' = [runs EXCEPT ![n] = Image(v, n, Unseen(v))]
    PROVE  LET i == tx.view.seat[u]
           IN /\ v.seat[u] = i /\ i \in Inbound /\ v.row[i] = tx.view.row[i]
              /\ Alive(v, i) /\ u \in tx.told
              /\ u \notin tx.unseen =>
                   \E a \in runs'[v.row[i].node] : a.inbound = i /\ u \in a.clients
<1> DEFINE w == tx.view
           i == w.seat[u]
<1>1. /\ w \in Tables /\ w.seat \in [User -> Inbound \cup {None}] /\ tx.who \in User
      /\ runs \in [Node -> SUBSET Listener]
  BY BaseFacts, TableFields DEF Base, TypeOK
<1>2. /\ i \in Inbound /\ w.row[i] # None /\ w.row[i].state # "dead" /\ u \in tx.told
      /\ u \notin tx.unseen =>
           \E a \in runs[w.row[i].node] : a.inbound = i /\ u \in a.clients
  BY DEF Whole, Alive
<1>3. v.seat[u] = i
  BY <1>1 DEF Seated
<1>4. v.row[i] = w.row[i]
  BY <1>2 DEF Seated
<1>5. Alive(v, i)
  BY <1>2, <1>4 DEF Alive
<1>6. ASSUME u \notin tx.unseen
      PROVE  \E a \in runs'[v.row[i].node] : a.inbound = i /\ u \in a.clients
  <2>1. CASE runs' = runs
    BY <1>2, <1>4, <1>6, <2>1
  <2>2. CASE runs' = [runs EXCEPT ![n] = Image(v, n, Unseen(v))] /\ v.row[i].node # n
    <3>1. v.row[i].node \in Node
      <4>1. w.row[i] \in Row
        BY <1>1, <1>2, TableFields
      <4>2. QED
        BY <1>4, <4>1 DEF Row
    <3>2. runs'[v.row[i].node] = runs[v.row[i].node]
      BY <1>1, <2>2, <3>1
    <3>3. QED
      BY <1>2, <1>4, <1>6, <3>2
  <2>3. CASE runs' = [runs EXCEPT ![n] = Image(v, n, Unseen(v))] /\ v.row[i].node = n
    <3>1. runs'[n] = Image(v, n, Unseen(v))
      BY <1>1, <2>3
    <3>2. PICK a \in Image(v, n, Unseen(v)) :
            a.inbound = i /\ a.clients = Sitting(v, i) \ Unseen(v)
      BY <1>2, <1>5, <2>3, ImageTypes, BaseFacts DEF Alive
    <3>3. u \in Sitting(v, i) \ Unseen(v)
      BY <1>3, <1>6 DEF Sitting, Unseen
    <3>4. QED
      BY <2>3, <3>1, <3>2, <3>3
  <2>4. QED
    BY <2>1, <2>2, <2>3
<1>7. QED
  BY <1>2, <1>3, <1>4, <1>5, <1>6

\* The one who has just been placed.
LEMMA PlacedWhole ==
    ASSUME Base, NEW n \in Node, NEW j \in Inbound, NEW v \in Tables, Accepted(n, v, j),
           NEW u \in User, u = tx.who
    PROVE  Whole(u)'
<1>1. /\ tx'.view = v /\ tx'.unseen = Unseen(v) /\ tx'.pc = "placed" /\ tx'.who = u
      /\ runs' = [runs EXCEPT ![n] = Image(v, n, Unseen(v))]
  BY DEF Accepted, SameRequest
<1>2. /\ v.seat = [tx.view.seat EXCEPT ![u] = j] /\ v.row[j] \in Row
      /\ v.row[j].node = n /\ v.row[j].state = "active"
  BY DEF Accepted, Seated
<1>3. /\ runs \in [Node -> SUBSET Listener] /\ tx.view.seat \in [User -> Inbound \cup {None}]
  BY BaseFacts, TableFields DEF Base, TypeOK
<1>4. v.seat[u] = j /\ v.row[j] # None
  BY <1>2, <1>3, RowNoneAssumption
<1>5. runs'[n] = Image(v, n, Unseen(v))
  BY <1>1, <1>3
<1>6. PICK a \in Image(v, n, Unseen(v)) : a.inbound = j /\ a.clients = Sitting(v, j) \ Unseen(v)
  BY <1>2, <1>4, ImageTypes, BaseFacts
<1>7. u \notin Unseen(v) => u \in a.clients
  BY <1>4, <1>6 DEF Sitting
<1>8. Alive(tx'.view, j)
  BY <1>1, <1>2, <1>4 DEF Alive
<1>9. u \notin tx'.unseen =>
        \E b \in runs'[tx'.view.row[j].node] : b.inbound = j /\ u \in b.clients
  BY <1>1, <1>2, <1>5, <1>6, <1>7
<1>10. tx'.view.seat[u] = j
  BY <1>1, <1>4
<1>11. QED
  BY <1>1, <1>8, <1>9, <1>10 DEF Whole, Alive

\* One attempt to place somebody, however it ends short of the request.
LEMMA AttemptMoves ==
    ASSUME MoveInv, NEW n \in Node, NEW j \in Inbound, NEW v \in Tables,
           Accepted(n, v, j) \/ Refused(n, v, j) \/ SkippedBroken(n, v, j)
    PROVE  /\ \A u \in tx'.waiting : u # tx'.by /\ Unmoved(u)'
           /\ tx'.who \notin tx'.waiting
           /\ \A u \in User : Moved(u)' => Whole(u)'
<1>1. /\ tx.pc = "choose" /\ Seated(v, n, j) /\ db' = db
      /\ tx'.by = tx.by /\ tx'.waiting = tx.waiting /\ tx'.told = tx.told /\ tx'.who = tx.who
      /\ runs' = runs \/ runs' = [runs EXCEPT ![n] = Image(v, n, Unseen(v))]
      /\ tx'.view = v \/ tx'.view = tx.view
      /\ tx.broken \subseteq tx'.broken
      /\ tx.unseen \subseteq tx'.unseen
  BY DEF Accepted, Refused, SkippedBroken, Skipping, SameRequest, Unseen
<1>2. /\ Base /\ tx.who \in User /\ tx.waiting \in SUBSET User
      /\ tx.who \notin tx.waiting /\ (tx.who # tx.by => Unmoved(tx.who))
      /\ \A u \in tx.waiting : u # tx.by /\ Unmoved(u)
      /\ \A u \in User : Moved(u) => Whole(u)
      /\ tx.view.seat \in [User -> Inbound \cup {None}]
  BY <1>1, BaseFacts, TableFields DEF MoveInv, Base, Tx
<1>3. \A u \in User : u # tx.who => tx'.view.seat[u] = tx.view.seat[u]
  BY <1>1, <1>2 DEF Seated
<1>4. \A u \in tx'.waiting : u # tx'.by /\ Unmoved(u)'
  BY <1>1, <1>2, <1>3 DEF Unmoved
<1>5. tx'.who \notin tx'.waiting
  BY <1>1, <1>2
<1>6. ASSUME NEW u \in User, Moved(u)' PROVE Whole(u)'
  <2>1. u # tx.by /\ u \notin tx.broken
    BY <1>1, <1>6 DEF Moved
  <2>2. CASE u # tx.who
    <3>1. Whole(u)
      BY <1>1, <1>2, <1>3, <1>6, <2>1, <2>2 DEF Moved, Unmoved
    <3> DEFINE i == tx.view.seat[u]
    <3>2. /\ v.seat[u] = i /\ i \in Inbound /\ v.row[i] = tx.view.row[i]
          /\ Alive(v, i) /\ u \in tx.told
          /\ u \notin tx.unseen =>
               \E a \in runs'[v.row[i].node] : a.inbound = i /\ u \in a.clients
      BY <1>1, <1>2, <2>2, <3>1, OthersKeep
    <3>3. tx'.view.seat[u] = i /\ tx'.view.row[i] = v.row[i]
      BY <1>1, <3>2
    <3>4. /\ Alive(tx'.view, i) /\ u \in tx'.told
          /\ u \notin tx'.unseen =>
               \E a \in runs'[tx'.view.row[i].node] : a.inbound = i /\ u \in a.clients
      BY <1>1, <3>2, <3>3 DEF Alive
    <3>5. QED
      BY <3>2, <3>3, <3>4 DEF Whole, Alive
  <2>3. CASE u = tx.who
    <3>1. CASE Accepted(n, v, j)
      BY <1>2, <2>3, <3>1, PlacedWhole
    <3>2. CASE Refused(n, v, j)
      BY <1>1, <1>2, <1>6, <2>1, <2>3, <3>2 DEF Refused, Moved, Unmoved
    <3>3. CASE SkippedBroken(n, v, j)
      BY <1>6, <2>3, <3>3 DEF SkippedBroken, Moved
    <3>4. QED
      BY <3>1, <3>2, <3>3
  <2>4. QED
    BY <2>2, <2>3
<1>7. QED
  BY <1>4, <1>5, <1>6

LEMMA ContinuedMoves ==
    ASSUME MoveInv, NEW x \in User, Continued(x)
    PROVE  /\ \A u \in tx'.waiting : u # tx'.by /\ Unmoved(u)'
           /\ Unmoved(x)' /\ tx'.who \notin tx'.waiting
           /\ \A u \in User : Moved(u)' => Whole(u)'
<1>1. /\ tx.pc \in {"placed", "skipped"} /\ x \in tx.waiting /\ db' = db /\ runs' = runs
      /\ tx'.who = x /\ tx'.by = tx.by /\ tx'.view = tx.view /\ tx'.waiting = tx.waiting \ {x}
      /\ tx'.told = IF tx.pc = "placed" /\ tx.who # tx.by THEN tx.told \cup {tx.who} ELSE tx.told
      /\ tx'.broken = tx.broken /\ tx'.unseen = tx.unseen
  BY DEF Continued
<1>2. /\ \A u \in tx.waiting : u # tx.by /\ Unmoved(u)
      /\ \A u \in User : Moved(u) => Whole(u)
  BY <1>1 DEF MoveInv
<1>3. \A u \in User : Unmoved(u)' <=> Unmoved(u)
  BY <1>1 DEF Unmoved
<1>4. tx.waiting \in SUBSET User
  BY BaseFacts DEF MoveInv, Tx
<1>5. ASSUME NEW u \in User, Moved(u)' PROVE Whole(u)'
  <2>1. Moved(u) /\ u # tx.by
    BY <1>1, <1>3, <1>5 DEF Moved
  <2>2. Whole(u)
    BY <1>2, <2>1
  <2>3. u \in tx'.told
    BY <1>1, <2>1, <2>2 DEF Whole
  <2>4. QED
    BY <1>1, <2>2, <2>3 DEF Whole, Alive
<1>6. \A u \in tx'.waiting : u # tx'.by /\ Unmoved(u)'
  BY <1>1, <1>2, <1>3, <1>4
<1>7. QED
  BY <1>1, <1>2, <1>3, <1>5, <1>6

LEMMA MoveStep ==
    ASSUME MoveInv, Request, UNCHANGED site
    PROVE  MoveInv'
<1> DEFINE Goal ==
      tx'.pc # "idle" =>
         /\ \A u \in tx'.waiting : u # tx'.by /\ Unmoved(u)'
         /\ tx'.pc = "choose" =>
              /\ tx'.who # tx'.by => tx'.view.seat[tx'.who] = db'.seat[tx'.who]
              /\ tx'.who \notin tx'.waiting
         /\ \A u \in User : Moved(u)' => Whole(u)'
<1>0. Base /\ Base'
  BY BaseStep DEF MoveInv
<1>1. ASSUME NEW x \in User, Connecting(x) \/ Reporting(x) PROVE Goal
  <2>1. /\ db' = db /\ tx'.who = x /\ tx'.by = x
        /\ tx'.view.seat = db.seat /\ x \notin tx'.waiting
    BY <1>1 DEF Connecting, Reporting, Started, Edited
  <2>2. \A u \in User : Unmoved(u)'
    BY <2>1 DEF Unmoved
  <2>3. tx'.waiting \in SUBSET User
    BY <1>1 DEF Connecting, Reporting, Started, Tx
  <2>4. \A u \in User : ~Moved(u)'
    BY <2>2 DEF Moved
  <2>5. QED
    BY <2>1, <2>2, <2>3, <2>4
<1>2. ASSUME NEW x \in User, Continued(x) PROVE Goal
  <2>1. tx'.who = x /\ tx'.view.seat[x] = db'.seat[x]
    <3>1. Unmoved(x)' /\ tx'.who = x
      BY <1>2, ContinuedMoves DEF Continued
    <3>2. QED
      BY <3>1 DEF Unmoved
  <2>2. QED
    BY <1>2, <2>1, ContinuedMoves
<1>3. ASSUME NEW n \in Node, NEW j \in Inbound, NEW v \in Tables,
             Accepted(n, v, j) \/ Refused(n, v, j) \/ SkippedBroken(n, v, j)
      PROVE  Goal
  <2>1. /\ \A u \in tx'.waiting : u # tx'.by /\ Unmoved(u)'
        /\ \A u \in User : Moved(u)' => Whole(u)'
    BY <1>3, AttemptMoves
  <2>2. tx'.who \notin tx'.waiting
    BY <1>3, AttemptMoves
  <2>3. ASSUME tx'.pc = "choose", tx'.who # tx'.by
        PROVE  tx'.view.seat[tx'.who] = db'.seat[tx'.who]
    <3>1. Refused(n, v, j)
      BY <1>3, <2>3 DEF Accepted, SkippedBroken, Skipping
    <3>2. tx'.view = tx.view /\ db' = db /\ tx'.who = tx.who /\ tx'.by = tx.by /\ tx.pc = "choose"
      BY <3>1 DEF Refused, SameRequest
    <3>3. Unmoved(tx.who)
      BY <2>3, <3>2 DEF MoveInv
    <3>4. QED
      BY <3>2, <3>3 DEF Unmoved
  <2>4. QED
    BY <2>1, <2>2, <2>3
<1>4. ASSUME SkippedWhole PROVE Goal
  <2>1. /\ tx.pc = "choose" /\ db' = db /\ runs' = runs /\ tx'.view = tx.view /\ tx'.pc = "skipped"
        /\ tx'.by = tx.by /\ tx'.waiting = tx.waiting /\ tx'.told = tx.told /\ tx'.who = tx.who
        /\ tx'.broken = tx.broken /\ tx'.unseen = tx.unseen
    BY <1>4 DEF SkippedWhole, Skipping, SameRequest
  <2>2. \A u \in User : (Unmoved(u)' <=> Unmoved(u)) /\ (Moved(u)' <=> Moved(u))
    BY <2>1 DEF Moved, Unmoved
  <2>3. ASSUME NEW u \in User, Moved(u)' PROVE Whole(u)'
    <3>1. Whole(u)
      BY <2>1, <2>2, <2>3 DEF MoveInv
    <3>2. QED
      BY <2>1, <3>1 DEF Whole, Alive
  <2>4. \A u \in tx'.waiting : u # tx'.by /\ Unmoved(u)'
    <3>1. tx.waiting \in SUBSET User
      BY <1>0, BaseFacts DEF Tx
    <3>2. QED
      BY <2>1, <2>2, <3>1 DEF MoveInv
  <2>5. QED
    BY <2>1, <2>3, <2>4
<1>5. ASSUME RolledBack \/ Committed PROVE tx'.pc = "idle"
  BY <1>5 DEF RolledBack, Over, Committed, Written
<1>6. ASSUME NEW i \in Inbound, NEW r, NEW v, Aged(i, r, v) PROVE tx'.pc = "idle"
  BY <1>6 DEF Aged, Written
<1>7. ASSUME NEW u \in User, NEW v, Swept(u, v) PROVE tx'.pc = "idle"
  BY <1>7 DEF Swept, Written
<1>8. Goal
  <2>1. CASE tx'.pc = "idle"
    BY <2>1
  <2>2. CASE tx'.pc # "idle"
    <3> HIDE DEF Goal
    <3>1. QED
      BY <1>0, <2>2, StepEffect, <1>1, <1>2, <1>3, <1>4, <1>5, <1>6, <1>7
  <2>3. QED
    BY <2>1, <2>2
<1>9. QED
  BY <1>0, <1>8 DEF MoveInv, Unmoved

LEMMA MoveHolds == Spec => []MoveInv
<1>1. Init => MoveInv
  BY BaseInit DEF Init, Idle, MoveInv
<1>2. MoveInv /\ [Next]_vars => MoveInv'
  <2>1. CASE Request /\ UNCHANGED site
    BY <2>1, MoveStep
  <2>2. ASSUME MoveInv, (\E n \in Node : Reprovision(n)) \/ UNCHANGED vars PROVE MoveInv'
    <3>1. db' = db /\ tx' = tx /\ runs' = runs
      BY <2>2, ReprovisionStep DEF vars, MoveInv
    <3>2. Base'
      BY <2>2, BaseNext DEF MoveInv, Next
    <3>3. QED
      BY <2>2, <3>1, <3>2 DEF MoveInv, Unmoved, Moved, Whole, Alive
  <2>3. QED
    BY <2>1, <2>2 DEF Next
<1>3. QED
  BY <1>1, <1>2, PTL DEF Spec

\* Whoever a report moves without being asked is, once the move is committed, on
\* a living inbound, served there (unless the session rendered a list from
\* before they came) and told.
THEOREM MovesAreWhole == Spec => StrandedMoveIsWhole
<1> DEFINE Body ==
      \A u \in User :
         StrandedMoved(u)
         => /\ db'.row[db'.seat[u]].state # "dead"
            /\ u \notin tx.unseen => ServedAt(u, db'.seat[u])
            /\ u \in Settled(tx).told
<1>1. MoveInv /\ [Next]_vars => [Body]_vars
  <2> SUFFICES ASSUME MoveInv, Next, NEW u \in User, StrandedMoved(u)
               PROVE  /\ db'.row[db'.seat[u]].state # "dead"
                      /\ u \notin tx.unseen => ServedAt(u, db'.seat[u])
                      /\ u \in Settled(tx).told
    BY Zenon
  <2>0. /\ Base /\ tx.view \in Tables /\ SeatsExist(tx.view) /\ tx \in Tx
        /\ tx.pc # "idle" /\ u # tx.by /\ u \notin tx.broken /\ db'.seat[u] # db.seat[u]
    BY BaseFacts DEF MoveInv, StrandedMoved
  <2>1. db' # db
    BY <2>0
  <2>2. ~\E x \in User : Connecting(x) \/ Reporting(x) \/ Continued(x)
    BY <2>1 DEF Connecting, Reporting, Continued, Started
  <2>3. ~\E n \in Node, j \in Inbound, v \in Tables :
            Accepted(n, v, j) \/ Refused(n, v, j) \/ SkippedBroken(n, v, j)
    BY <2>1 DEF Accepted, Refused, SkippedBroken, Skipping
  <2>4. ~SkippedWhole /\ ~RolledBack
    BY <2>1 DEF SkippedWhole, Skipping, RolledBack
  <2>5. /\ ~\E i \in Inbound : \E r, v : Aged(i, r, v)
        /\ ~\E x \in User : \E v : Swept(x, v)
    BY <2>0 DEF Aged, Swept
  <2>10. Request
    BY <2>0, ReprovisionStep DEF Next
  <2>6. Committed
    BY <2>0, <2>10, StepEffect, <2>2, <2>3, <2>4, <2>5
  <2> DEFINE f == Forgotten(tx.view)
             i == tx.view.seat[u]
  <2>7. db' = f
    BY <2>6 DEF Committed, Written
  <2>8. /\ f.seat = tx.view.seat
        /\ \A k \in Inbound : Alive(tx.view, k) => f.row[k] = tx.view.row[k]
    BY <2>0, ForgottenEffect DEF Alive
  <2>9. Whole(u)
    BY <2>0, <2>7, <2>8 DEF MoveInv, Moved, Unmoved
  <2> HIDE DEF f
  <2>11. db'.seat[u] = i /\ db'.row[i] = tx.view.row[i]
    BY <2>7, <2>8, <2>9 DEF Whole
  <2>12. db'.row[db'.seat[u]].state # "dead"
    BY <2>9, <2>11 DEF Whole, Alive
  <2>13. u \notin tx.unseen => ServedAt(u, db'.seat[u])
    <3>1. u \notin tx.unseen =>
            \E a \in runs[db'.row[db'.seat[u]].node] : a.inbound = db'.seat[u] /\ u \in a.clients
      BY <2>9, <2>11 DEF Whole
    <3>2. QED
      BY <3>1 DEF ServedAt
  <2>14. u \in Settled(tx).told
    <3>1. CASE u \in tx.told
      BY <2>0, <3>1 DEF Settled, Tx
    <3>2. CASE tx.pc = "placed" /\ tx.who = u
      BY <2>0, <3>2 DEF Settled, Tx
    <3>3. QED
      BY <2>9, <3>1, <3>2 DEF Whole
  <2>15. QED
    BY <2>12, <2>13, <2>14
<1>2. QED
  BY <1>1, MoveHolds, PTL DEF Spec, StrandedMoveIsWhole
=============================================================================
