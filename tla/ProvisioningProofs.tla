-------------------------- MODULE ProvisioningProofs --------------------------
(***************************************************************************)
(* What Provisioning guarantees for every number of passes, rotations and   *)
(* resets, every number of rows, and every set of ports.                    *)
(***************************************************************************)
EXTENDS Provisioning, TLAPS, WellFoundedInduction

-----------------------------------------------------------------------------
(* The ports.                                                              *)

\* A set of port numbers has a smallest one.
LEMMA SmallestPort ==
    ASSUME NEW T \in SUBSET Nat, T # {}
    PROVE  \E p \in T : \A q \in T : p <= q
<1> DEFINE R == OpToRel(<, Nat)
<1>1. IsWellFoundedOn(R, Nat)
  BY NatLessThanWellFounded
<1> HIDE DEF R
<1>2. \E x \in T : \A y \in T : ~ (<<y, x>> \in R)
  BY <1>1, WFMin
<1>3. \A x, y \in Nat : y < x => <<y, x>> \in R
  BY DEF R, OpToRel
<1>4. \A x, y \in T : <<y, x>> \notin R => x <= y
  BY <1>3
<1>5. QED
  BY <1>2, <1>4

\* _free_port answers with one of the candidates, and with one that is taken
\* only if all of them are.
LEMMA FreePortIsCandidate ==
    ASSUME NEW occupied, NEW candidates \in SUBSET Nat, 1 \in candidates
    PROVE  /\ FreePort(occupied, candidates) \in candidates
           /\ FreePort(occupied, candidates) \in occupied
                => candidates \subseteq occupied
<1> DEFINE free == candidates \ occupied
<1>1. CASE 1 \in free \/ free = {}
  BY <1>1 DEF FreePort
<1>2. CASE ~(1 \in free \/ free = {})
  <2>1. \E p \in free : \A q \in free : p <= q
    BY <1>2, SmallestPort
  <2>2. (CHOOSE p \in free : \A q \in free : p <= q) \in free
    BY <2>1
  <2>3. FreePort(occupied, candidates) = CHOOSE p \in free : \A q \in free : p <= q
    BY <1>2 DEF FreePort
  <2>4. QED
    BY <2>2, <2>3
<1>3. QED
  BY <1>1, <1>2

-----------------------------------------------------------------------------
(* Type correctness.  The count of control inbounds stays within its type   *)
(* because each pass adds one and has a number of its own, and a password   *)
(* waits to be stored only where there is a row.                            *)

Fresh == {"begun", "keyed", "planned", "booted"}

RowsOK(rows, n) ==
    /\ rows \in [RowId -> Row \cup {None}]
    /\ \A q \in RowId : rows[q] # None =>
          \A p \in Reality : rows[q].controls[p] <= n

CountsOK ==
    /\ RowsOK(row, gen)
    /\ pass # None =>
         /\ pass.id \in 1..gen
         /\ \A p \in Reality :
              IF pass.step \in Fresh THEN pass.row.controls[p] < pass.id
                                     ELSE pass.row.controls[p] <= pass.id

RotOK == \A q \in RowId : rot[q] # None => row[q] # None

\* What Apply pins is there.
RunOK == pass # None /\ pass.step \in {"booted", "applied", "rotated"}
            => srv.run # None

TypeInv == TypeOK /\ CountsOK /\ RotOK /\ RunOK

LEMMA TypeInit == Init => TypeInv
<1> SUFFICES ASSUME Init PROVE TypeInv
  OBVIOUS
<1>1. 0 \in Draw
  BY ProvisioningAssumption DEF Draw
<1>2. srv \in Server
  BY <1>1 DEF Init, Server
<1>3. QED
  BY <1>1, <1>2 DEF Init, TypeInv, TypeOK, CountsOK, RowsOK, RotOK, RunOK, Secret

\* Replacing one row keeps the rows what they are, and so does a later draw.
LEMMA RowsReplaced ==
    ASSUME NEW n \in Nat, RowsOK(row, n), NEW r \in RowId, NEW v,
           \/ v = None
           \/ v \in Row /\ \A p \in Reality : v.controls[p] <= n
    PROVE  RowsOK([row EXCEPT ![r] = v], n)
<1> DEFINE rows == [row EXCEPT ![r] = v]
<1>1. /\ rows \in [RowId -> Row \cup {None}]
      /\ \A q \in RowId : rows[q] = IF q = r THEN v ELSE row[q]
  BY DEF RowsOK
<1> HIDE DEF rows
<1>2. \A q \in RowId : rows[q] # None => \A p \in Reality : rows[q].controls[p] <= n
  BY <1>1 DEF RowsOK
<1>3. QED
  BY <1>1, <1>2 DEF RowsOK, rows

LEMMA RowsLater ==
    ASSUME NEW n \in Nat, NEW rows, RowsOK(rows, n)
    PROVE  RowsOK(rows, n + 1)
<1> SUFFICES ASSUME NEW q \in RowId, rows[q] # None, NEW p \in Reality
             PROVE  rows[q].controls[p] <= n + 1
  BY DEF RowsOK
<1>1. rows[q].controls[p] \in Nat /\ rows[q].controls[p] <= n
  BY DEF RowsOK, Row
<1>2. QED
  BY <1>1

\* What a row may be replaced by without its inbounds being touched.
Sibling(r) == {s \in Row : s.controls = r.controls /\ s.host = r.host}

LEMMA RowTypes ==
    ASSUME NEW r \in Row
    PROVE  /\ r \in Sibling(r)
           /\ \A k \in Secret : /\ [r EXCEPT !.key = k] \in Sibling(r)
                                /\ [r EXCEPT !.password = k] \in Sibling(r)
                                /\ [r EXCEPT !.cert = k] \in Sibling(r)
           /\ \A s \in {"active", "draining"} : [r EXCEPT !.status = s] \in Sibling(r)
           /\ \A s \in {"active", "draining"}, k \in Secret :
                [r EXCEPT !.password = k, !.status = s] \in Sibling(r)
           /\ \A o \in SUBSET Reality : [r EXCEPT !.occupied = o] \in Sibling(r)
           /\ \A p \in Control : \A s \in {"active", "draining"} :
                [r EXCEPT !.port = p, !.status = s] \in Sibling(r)
           /\ \A o \in SUBSET Reality : \A p \in Control :
                [r EXCEPT !.occupied = o, !.port = p] \in Sibling(r)
  BY DEF Row, Sibling

LEMMA NewRowTypes == \A h \in Host : NewRow(h) \in Row
  BY ProvisioningAssumption DEF NewRow, Row, Secret, Draw

\* What the server may turn into.
LEMMA ServerTypes ==
    ASSUME NEW s \in Server
    PROVE  /\ \A n \in Draw : [s EXCEPT !.password = n] \in Server
           /\ \A n \in Draw : [s EXCEPT !.keys = @ \cup {n}] \in Server
           /\ \A l \in SUBSET Reality : [s EXCEPT !.listens = l] \in Server
           /\ [s EXCEPT !.run = None, !.listens = {}] \in Server
           /\ \A n \in Draw, p \in Control :
                [[s EXCEPT !.run = None, !.listens = {}]
                   EXCEPT !.run = [cert |-> n, port |-> p]] \in Server
  BY DEF Server, Container

LEMMA StartedTypes ==
    ASSUME srv \in Server
    PROVE  /\ Cleared \in Server
           /\ \A n \in Draw, p \in Control : Started(n, p) \in Server
  BY ServerTypes DEF Cleared, Started

\* A step of a pass changes its step and its copy of the row.
LEMMA PassTypes ==
    ASSUME pass \in Pass, NEW s \in Step, NEW r \in Row, Continues(s, r)
    PROVE  /\ pass' \in Pass
           /\ pass'.id = pass.id /\ pass'.typed = pass.typed /\ pass'.of = pass.of
           /\ pass'.step = s /\ pass'.row = r
  BY DEF Pass, Continues

\* The ports a pass chooses are ports.
LEMMA FreePortTypes ==
    ASSUME NEW occupied
    PROVE  /\ FreePort(occupied, Control) \in Control
           /\ FreePort(occupied, Reality) \in Reality
  BY FreePortIsCandidate, ProvisioningAssumption

\* What the types say of the state, in the form the steps need it.
LEMMA TypeFacts ==
    ASSUME TypeInv
    PROVE  /\ gen \in Draw /\ MaxGen \in Nat /\ Draw \subseteq Nat /\ gen \in Nat
           /\ srv \in Server
           /\ \A q \in RowId : row[q] # None => row[q] \in Row
           /\ pass # None => pass \in Pass
           /\ gen < MaxGen => gen + 1 \in Draw /\ gen + 1 \in Nat
           /\ pass # None =>
                /\ pass.id \in Draw /\ pass.id \in 1..gen /\ pass.row \in Row
                /\ pass.step \in Step /\ pass.real \in Reality /\ pass.of \in RowId
                /\ pass.row.port \in Control
                /\ \A p \in Reality : /\ pass.row.controls[p] \in 0..MaxGen
                                       /\ pass.row.controls[p] <= pass.id
           /\ \A q \in RowId : row[q] # None =>
                /\ row[q].controls \in [Reality -> 0..MaxGen]
                /\ row[q].status \in {"active", "draining"}
                /\ \A p \in Reality : row[q].controls[p] <= gen
<1> USE ProvisioningNoneAssumption
<1>n. /\ gen \in Draw /\ MaxGen \in Nat /\ Draw \subseteq Nat /\ gen \in Nat
      /\ srv \in Server
      /\ \A q \in RowId : row[q] # None => row[q] \in Row
      /\ pass # None => pass \in Pass
  BY ProvisioningAssumption DEF TypeInv, TypeOK, Draw
<1>m. gen < MaxGen => gen + 1 \in Draw /\ gen + 1 \in Nat
  BY <1>n DEF Draw
<1>p. pass # None => /\ pass.id \in Draw /\ pass.id \in 1..gen /\ pass.row \in Row
                     /\ pass.step \in Step /\ pass.real \in Reality
                     /\ pass.of \in RowId /\ pass.row.port \in Control
                     /\ \A p \in Reality : pass.row.controls[p] \in 0..MaxGen
  BY <1>n DEF Pass, Row, TypeInv, CountsOK
<1>r. \A q \in RowId : row[q] # None =>
          /\ row[q].controls \in [Reality -> 0..MaxGen]
          /\ row[q].status \in {"active", "draining"}
          /\ \A p \in Reality : row[q].controls[p] <= gen
  BY <1>n DEF Row, TypeInv, CountsOK, RowsOK
<1>c. pass # None => \A p \in Reality : pass.row.controls[p] <= pass.id
  <2> SUFFICES ASSUME pass # None, NEW p \in Reality
               PROVE  pass.row.controls[p] <= pass.id
    OBVIOUS
  <2>1. pass.row.controls[p] \in Nat /\ pass.id \in Nat
    BY <1>p, <1>n DEF Draw
  <2>2. QED
    BY <2>1 DEF TypeInv, CountsOK
<1>q. QED
  BY <1>n, <1>m, <1>p, <1>r, <1>c

\* What each step makes of the pass's copy of the row.
LEMMA LogInPass ==
    ASSUME TypeInv, LogIn
    PROVE  /\ pass # None /\ pass.step = "begun"
           /\ pass' \in Pass /\ pass'.id = pass.id /\ pass'.of = pass.of
           /\ pass'.row \in Sibling(pass.row)
           /\ \/ pass'.step = "keyed" /\ pass'.row = [pass.row EXCEPT !.key = pass.id]
              \/ pass'.step = "failed" /\ pass'.row = pass.row
<1> USE ProvisioningNoneAssumption
<1>e. pass # None
  BY DEF LogIn
<1>f. /\ srv \in Server /\ pass \in Pass /\ pass.row \in Row
      /\ pass.id \in Secret /\ pass.id \in Nat /\ pass.id <= MaxGen /\ MaxGen \in Nat
      /\ pass.real \in Reality
  BY <1>e, TypeFacts DEF Secret, Draw
<1>1. \/ Continues("keyed", [pass.row EXCEPT !.key = pass.id])
      \/ Continues("failed", pass.row)
  BY DEF LogIn, Stops
<1>2. /\ [pass.row EXCEPT !.key = pass.id] \in Sibling(pass.row)
      /\ pass.row \in Sibling(pass.row)
  BY <1>f, RowTypes
<1>3. "keyed" \in Step /\ "failed" \in Step
  BY DEF Step
<1>4. QED
  BY <1>f, <1>1, <1>2, <1>3, PassTypes DEF LogIn, Sibling

LEMMA SurveyPass ==
    ASSUME TypeInv, Survey
    PROVE  /\ pass # None /\ pass.step = "keyed"
           /\ pass' \in Pass /\ pass'.id = pass.id /\ pass'.of = pass.of
           /\ pass'.row \in Sibling(pass.row) /\ pass'.row.key = pass.row.key
           /\ pass'.step \in {"planned", "failed"}
<1> USE ProvisioningNoneAssumption
<1>e. pass # None
  BY DEF Survey
<1>f. /\ srv \in Server /\ pass \in Pass /\ pass.row \in Row
      /\ pass.id \in Secret /\ pass.id \in Nat /\ pass.id <= MaxGen /\ MaxGen \in Nat
      /\ pass.real \in Reality
  BY <1>e, TypeFacts DEF Secret, Draw
<1>1. CASE Stops
  <2>1. "failed" \in Step /\ pass.row \in Sibling(pass.row)
    BY <1>f, RowTypes DEF Step
  <2>2. QED
    BY <1>f, <1>1, <2>1, PassTypes DEF Survey, Stops
<1>2. CASE ~Stops
  <2>0. PICK taken \in SUBSET Reality :
          \E busy : pass' = [pass EXCEPT !.step = "planned",
                      !.real = FreePort(taken, Reality),
                      !.row.occupied = taken, !.row.port = FreePort(busy, Control)]
    <3>1. RealitySeen \in SUBSET Reality
      BY <1>f DEF RealitySeen, Server
    <3>2. QED
      BY <1>2, <3>1 DEF Survey
  <2>1. PICK busy :
          pass' = [pass EXCEPT !.step = "planned", !.real = FreePort(taken, Reality),
                      !.row.occupied = taken, !.row.port = FreePort(busy, Control)]
    BY <2>0
  <2> DEFINE r == [pass.row EXCEPT !.occupied = taken, !.port = FreePort(busy, Control)]
  <2>2. r \in Sibling(pass.row)
    BY <1>f, RowTypes, FreePortTypes
  <2>3. pass' = [pass EXCEPT !.step = "planned", !.real = FreePort(taken, Reality), !.row = r]
    BY <1>f, <2>1 DEF Pass, Row
  <2>4. r.key = pass.row.key
    OBVIOUS
  <2> HIDE DEF r
  <2>5. FreePort(taken, Reality) \in Reality /\ r \in Row
    BY <2>2, FreePortTypes DEF Sibling
  <2>6. QED
    BY <1>f, <2>2, <2>3, <2>4, <2>5 DEF Survey, Pass, Step
<1>3. QED
  BY <1>1, <1>2

LEMMA BootstrapPass ==
    ASSUME TypeInv, Bootstrap
    PROVE  /\ pass # None /\ pass.step = "planned"
           /\ pass' \in Pass /\ pass'.id = pass.id /\ pass'.of = pass.of
           /\ pass'.row = pass.row
           /\ \/ pass'.step = "failed" /\ srv' \in {srv, Cleared, Started(pass.id, pass.row.port)}
              \/ pass'.step = "booted" /\ srv' = Started(pass.id, pass.row.port)
<1> USE ProvisioningNoneAssumption
<1>e. pass # None
  BY DEF Bootstrap
<1>f. /\ srv \in Server /\ pass \in Pass /\ pass.row \in Row
      /\ pass.id \in Secret /\ pass.id \in Nat /\ pass.id <= MaxGen /\ MaxGen \in Nat
      /\ pass.real \in Reality
  BY <1>e, TypeFacts DEF Secret, Draw
<1>1. "failed" \in Step /\ "booted" \in Step
  BY DEF Step
<1>2. QED
  BY <1>f, <1>1, PassTypes DEF Bootstrap, Stops

LEMMA ApplyPass ==
    ASSUME TypeInv, Apply
    PROVE  /\ pass # None /\ pass.step = "booted"
           /\ pass' \in Pass /\ pass'.id = pass.id /\ pass'.of = pass.of
           /\ pass'.step = "applied"
           /\ \A p \in Reality : pass'.row.controls[p] <= pass.id
           /\ pass'.row.key = pass.row.key /\ pass'.row.port = pass.row.port
           /\ pass'.row.cert = srv.run.cert
<1> USE ProvisioningNoneAssumption
<1>e. pass # None
  BY DEF Apply
<1>f. /\ srv \in Server /\ pass \in Pass /\ pass.row \in Row
      /\ pass.id \in Secret /\ pass.id \in Nat /\ pass.id <= MaxGen /\ MaxGen \in Nat
      /\ pass.real \in Reality
  BY <1>e, TypeFacts DEF Secret, Draw
<1>0. pass # None /\ pass.step = "booted"
  BY DEF Apply
<1> DEFINE q == Pinned(pass.row)
<1>h. PICK h \in {Reported, pass.row.host} :
        Continues("applied", [q EXCEPT !.controls[pass.real] = @ + 1, !.host = h])
  BY DEF Apply
<1> DEFINE r == [q EXCEPT !.controls[pass.real] = @ + 1, !.host = h]
<1>1. \A p \in Reality : pass.row.controls[p] \in Nat /\ pass.row.controls[p] < pass.id
  BY <1>0, TypeFacts DEF TypeInv, CountsOK, Fresh
<1>2. srv.run.cert \in Secret
  BY <1>f, <1>0 DEF Server, Container, Secret, TypeInv, RunOK
<1>3. /\ q \in Row /\ q.controls = pass.row.controls
      /\ q.key = pass.row.key /\ q.port = pass.row.port /\ q.cert = srv.run.cert
  <2>1. q \in Sibling(pass.row)
    BY <1>f, <1>2, RowTypes DEF Pinned
  <2>2. QED
    BY <1>f, <2>1 DEF Pinned, Sibling, Row
<1> HIDE DEF q
<1>4. /\ r = [q EXCEPT !.controls = [q.controls EXCEPT ![pass.real] = q.controls[pass.real] + 1],
                       !.host = h]
      /\ r.controls = [q.controls EXCEPT ![pass.real] = q.controls[pass.real] + 1]
      /\ r.key = q.key /\ r.port = q.port /\ r.cert = q.cert
  BY <1>3 DEF Row
<1>5. pass.row.controls[pass.real] + 1 \in 0..MaxGen
  <2>1. pass.row.controls[pass.real] \in Nat /\ pass.row.controls[pass.real] < pass.id
    BY <1>f, <1>1
  <2>2. QED
    BY <2>1, <1>f
<1>6. r \in Row
  <2>1. r.controls \in [Reality -> 0..MaxGen]
    BY <1>f, <1>3, <1>4, <1>5 DEF Row
  <2>2. h \in Host
    BY <1>f, <1>h, ProvisioningAssumption DEF Row
  <2>3. QED
    BY <1>3, <1>4, <2>1, <2>2 DEF Row
<1>7. ASSUME NEW p \in Reality PROVE r.controls[p] <= pass.id
  <2>1. /\ pass.row.controls[p] \in Nat /\ pass.row.controls[p] < pass.id
        /\ pass.row.controls[pass.real] \in Nat
        /\ pass.row.controls[pass.real] < pass.id
    BY <1>f, <1>1
  <2>2. r.controls[p] = IF p = pass.real THEN q.controls[pass.real] + 1 ELSE q.controls[p]
    BY <1>3, <1>4 DEF Row
  <2>3. CASE p = pass.real
    <3>1. r.controls[p] = pass.row.controls[pass.real] + 1
      BY <1>3, <2>2, <2>3
    <3>2. QED
      BY <1>f, <2>1, <3>1
  <2>4. CASE p # pass.real
    <3>1. r.controls[p] = pass.row.controls[p]
      BY <1>3, <2>2, <2>4
    <3>2. QED
      BY <1>f, <2>1, <3>1
  <2>5. QED
    BY <2>3, <2>4
<1>8. Continues("applied", r)
  BY <1>h
<1> HIDE DEF r
<1>9. "applied" \in Step
  BY DEF Step
<1>10. QED
  BY <1>f, <1>0, <1>3, <1>4, <1>6, <1>7, <1>8, <1>9, PassTypes

LEMMA RotatePass ==
    ASSUME TypeInv, Rotate
    PROVE  /\ pass # None /\ pass.step = "applied"
           /\ pass' \in Pass /\ pass'.id = pass.id /\ pass'.of = pass.of
           /\ pass'.row \in Sibling(pass.row)
           /\ pass'.row.key = pass.row.key /\ pass'.row.port = pass.row.port
           /\ pass'.row.cert = pass.row.cert
           /\ pass'.step \in {"rotated", "failed"}
           /\ srv' \in Server /\ srv'.run = srv.run /\ srv'.keys = srv.keys
<1> USE ProvisioningNoneAssumption
<1>e. pass # None
  BY DEF Rotate
<1>f. /\ srv \in Server /\ pass \in Pass /\ pass.row \in Row
      /\ pass.id \in Secret /\ pass.id \in Nat /\ pass.id <= MaxGen /\ MaxGen \in Nat
      /\ pass.real \in Reality
  BY <1>e, TypeFacts DEF Secret, Draw
<1> DEFINE r == [pass.row EXCEPT !.password = pass.id, !.status = "active"]
<1>1. r \in Sibling(pass.row) /\ pass.row \in Sibling(pass.row)
  BY <1>f, RowTypes
<1>2. r.key = pass.row.key /\ r.port = pass.row.port /\ r.cert = pass.row.cert
  OBVIOUS
<1>3. Continues("failed", pass.row) \/ Continues("rotated", r)
  BY DEF Rotate, Stops
<1> HIDE DEF r
<1>4. "failed" \in Step /\ "rotated" \in Step
  BY DEF Step
<1>5. srv' \in Server /\ srv'.run = srv.run /\ srv'.keys = srv.keys
  <2>1. srv' = srv \/ srv' = [srv EXCEPT !.password = pass.id]
    BY DEF Rotate
  <2>2. [srv EXCEPT !.password = pass.id] \in Server
    BY <1>f, TypeFacts, ServerTypes DEF Rotate
  <2>3. /\ [srv EXCEPT !.password = pass.id].run = srv.run
        /\ [srv EXCEPT !.password = pass.id].keys = srv.keys
    BY <1>f DEF Server
  <2>4. QED
    BY <1>f, <2>1, <2>2, <2>3
<1>6. QED
  BY <1>f, <1>1, <1>2, <1>3, <1>4, <1>5, PassTypes DEF Rotate, Sibling

LEMMA TypeStep == TypeInv /\ [Next]_vars => TypeInv'
<1> SUFFICES ASSUME TypeInv, [Next]_vars PROVE TypeInv'
  OBVIOUS
<1> USE ProvisioningNoneAssumption
<1>n. /\ gen \in Draw /\ MaxGen \in Nat /\ Draw \subseteq Nat /\ gen \in Nat
      /\ srv \in Server
      /\ \A q \in RowId : row[q] # None => row[q] \in Row
      /\ pass # None => pass \in Pass
  BY TypeFacts
<1>m. gen < MaxGen => gen + 1 \in Draw /\ gen + 1 \in Nat
  BY TypeFacts
<1>p. pass # None => /\ pass.id \in Draw /\ pass.id \in 1..gen /\ pass.row \in Row
                     /\ pass.of \in RowId /\ pass.row.port \in Control
                     /\ \A p \in Reality : pass.row.controls[p] <= pass.id
  BY TypeFacts
<1>r. \A q \in RowId : row[q] # None =>
        \A p \in Reality : row[q].controls[p] \in Nat /\ row[q].controls[p] <= gen
  BY TypeFacts
<1>o. RowsOK(row, gen) /\ RowsOK(row, gen + 1)
  BY <1>n, RowsLater DEF TypeInv, CountsOK
<1>c. pass # None => \A p \in Reality : pass.row.controls[p] <= gen
  <2> SUFFICES ASSUME pass # None, NEW p \in Reality
               PROVE  pass.row.controls[p] <= gen
    OBVIOUS
  <2>1. /\ pass.row.controls[p] \in Nat /\ pass.row.controls[p] <= pass.id
        /\ pass.id \in Nat /\ pass.id <= gen
    BY TypeFacts
  <2>2. QED
    BY <2>1, <1>n
<1>1. ASSUME NEW h \in Host, NEW r \in RowId, Begin(h, r)
      PROVE  TypeInv'
  <2>1. /\ pass' \in Pass /\ pass'.id = gen + 1 /\ pass'.step = "begun"
        /\ \A p \in Reality : pass'.row.controls[p] < gen + 1
    <3>1. CASE row[r] = None
      <4>2. NewRow(h) \in Row /\ \A p \in Reality : NewRow(h).controls[p] = 0
        BY NewRowTypes DEF NewRow
      <4>4. pass' = [step |-> "begun", of |-> r, id |-> gen + 1, typed |-> issued,
                     real |-> 1, row |-> NewRow(h)]
        BY <1>1, <3>1 DEF Begin
      <4>3. pass' \in Pass
        BY <1>1, <1>m, <4>2, <4>4, ProvisioningAssumption
           DEF Begin, Pass, Step, TypeInv, TypeOK
      <4>5. QED
        BY <1>n, <4>2, <4>3, <4>4
    <3>2. CASE row[r] # None
      <4> DEFINE q == [row[r] EXCEPT !.port = 1, !.status = "draining"]
      <4>1. q \in Row
        BY <1>n, <3>2, RowTypes, ProvisioningAssumption DEF Sibling
      <4>2. q.controls = row[r].controls
        OBVIOUS
      <4> HIDE DEF q
      <4>3. pass' = [step |-> "begun", of |-> r, id |-> gen + 1, typed |-> issued,
                     real |-> 1, row |-> q]
        BY <1>1, <3>2 DEF Begin, q
      <4>4. pass' \in Pass
        BY <1>1, <1>m, <4>1, <4>3, ProvisioningAssumption
           DEF Begin, Pass, Step, TypeInv, TypeOK
      <4>5. \A p \in Reality : row[r].controls[p] <= gen /\ row[r].controls[p] \in Nat
        BY <1>r, <3>2
      <4>6. QED
        BY <1>n, <4>2, <4>3, <4>4, <4>5
    <3>3. QED
      BY <3>1, <3>2
  <2>2. gen' = gen + 1 /\ gen' \in Draw /\ gen + 1 \in 1..(gen + 1)
    BY <1>1, <1>n, <1>m DEF Begin
  <2>3. TypeOK' /\ RotOK' /\ RunOK'
    BY <1>1, <2>1, <2>2 DEF Begin, TypeInv, TypeOK, RotOK, RunOK
  <2>4. RowsOK(row, gen)'
    BY <1>1, <1>o, <2>2 DEF Begin
  <2>5. CountsOK'
    BY <1>1, <2>1, <2>2, <2>4 DEF Begin, CountsOK, Fresh
  <2>6. QED
    BY <2>3, <2>5 DEF TypeInv
<1>2. CASE LogIn
  <2>1. /\ pass # None /\ pass.step = "begun" /\ pass' \in Pass /\ pass'.id = pass.id
        /\ pass'.step \in {"keyed", "failed"} /\ pass'.row.controls = pass.row.controls
    BY <1>2, LogInPass DEF Sibling
  <2>2. srv' \in Server
    BY <1>2, <1>n, <1>p, <2>1, ServerTypes DEF LogIn, Authorized
  <2>3. orphaned' \in BOOLEAN
    BY <1>2, Zenon DEF LogIn, TypeInv, TypeOK
  <2>4. TypeOK' /\ RotOK' /\ RunOK'
    BY <1>2, <2>1, <2>2, <2>3 DEF LogIn, TypeInv, TypeOK, RotOK, RunOK
  <2>5. \A p \in Reality : pass.row.controls[p] < pass.id
    BY <2>1 DEF TypeInv, CountsOK, Fresh
  <2>6. CountsOK'
    BY <1>2, <1>p, <2>1, <2>5 DEF LogIn, TypeInv, CountsOK, RowsOK, Fresh
  <2>7. QED
    BY <2>4, <2>6 DEF TypeInv
<1>3. CASE Survey
  <2>1. /\ pass # None /\ pass.step = "keyed" /\ pass' \in Pass /\ pass'.id = pass.id
        /\ pass'.step \in {"planned", "failed"} /\ pass'.row.controls = pass.row.controls
    BY <1>3, SurveyPass DEF Sibling
  <2>2. TypeOK' /\ RotOK' /\ RunOK'
    BY <1>3, <2>1 DEF Survey, TypeInv, TypeOK, RotOK, RunOK
  <2>3. \A p \in Reality : pass.row.controls[p] < pass.id
    BY <2>1 DEF TypeInv, CountsOK, Fresh
  <2>4. CountsOK'
    BY <1>3, <1>p, <2>1, <2>3 DEF Survey, TypeInv, CountsOK, RowsOK, Fresh
  <2>5. QED
    BY <2>2, <2>4 DEF TypeInv
<1>4. CASE Bootstrap
  <2>1. /\ pass # None /\ pass.step = "planned" /\ pass' \in Pass /\ pass'.id = pass.id
        /\ pass'.step \in {"booted", "failed"} /\ pass'.row = pass.row
    BY <1>4, BootstrapPass
  <2>2. srv' \in Server
    BY <1>4, <1>n, <1>p, <2>1, StartedTypes, BootstrapPass
  <2>3. pass'.step = "booted" => srv'.run # None
    <3>1. Started(pass.id, pass.row.port).run = [cert |-> pass.id, port |-> pass.row.port]
      BY <1>n, StartedTypes DEF Started, Server
    <3>2. [cert |-> pass.id, port |-> pass.row.port] \in Container
      BY <1>p, <2>1 DEF Container
    <3>3. QED
      BY <1>4, <3>1, <3>2, BootstrapPass
  <2>v. vouched' \in [RowId -> BOOLEAN]
    BY <1>4, Zenon DEF Bootstrap, TypeInv, TypeOK
  <2>4. TypeOK' /\ RotOK' /\ RunOK'
    BY <1>4, <2>1, <2>2, <2>3, <2>v DEF Bootstrap, TypeInv, TypeOK, RotOK, RunOK
  <2>5. \A p \in Reality : pass.row.controls[p] < pass.id
    BY <2>1 DEF TypeInv, CountsOK, Fresh
  <2>6. CountsOK'
    BY <1>4, <1>p, <2>1, <2>5 DEF Bootstrap, TypeInv, CountsOK, RowsOK, Fresh
  <2>7. QED
    BY <2>4, <2>6 DEF TypeInv
<1>5. CASE Apply
  <2>1. /\ pass # None /\ pass.step = "booted" /\ pass' \in Pass /\ pass'.id = pass.id
        /\ pass'.step = "applied" /\ \A p \in Reality : pass'.row.controls[p] <= pass.id
    BY <1>5, ApplyPass
  <2>2. TypeOK' /\ RotOK' /\ RunOK'
    BY <1>5, <2>1 DEF Apply, TypeInv, TypeOK, RotOK, RunOK
  <2>3. CountsOK'
    BY <1>5, <2>1 DEF Apply, TypeInv, CountsOK, RowsOK, Fresh
  <2>4. QED
    BY <2>2, <2>3 DEF TypeInv
<1>6. CASE Rotate
  <2>1. /\ pass # None /\ pass.step = "applied" /\ pass' \in Pass /\ pass'.id = pass.id
        /\ pass'.step \in {"rotated", "failed"} /\ pass'.row.controls = pass.row.controls
        /\ srv' \in Server /\ srv'.run = srv.run
    BY <1>6, RotatePass DEF Sibling
  <2>2. TypeOK' /\ RotOK' /\ RunOK'
    BY <1>6, <2>1 DEF Rotate, TypeInv, TypeOK, RotOK, RunOK
  <2>3. CountsOK'
    BY <1>6, <1>p, <2>1 DEF Rotate, TypeInv, CountsOK, RowsOK, Fresh
  <2>4. QED
    BY <2>2, <2>3 DEF TypeInv
<1>7. CASE Finish
  <2>1. /\ pass # None /\ row' = [row EXCEPT ![pass.of] = pass.row] /\ pass' = None
        /\ gen' = gen /\ srv' = srv /\ rot' = rot /\ issued' = issued
    BY <1>7 DEF Finish
  <2>2. RowsOK(row', gen)
    BY <1>c, <1>n, <1>o, <1>p, <2>1, RowsReplaced
  <2>3. CountsOK'
    BY <2>1, <2>2 DEF CountsOK
  <2>4. RotOK'
    BY <1>p, <2>1 DEF TypeInv, TypeOK, RotOK
  <2>5. TypeOK' /\ RunOK'
    BY <1>7, <2>1, <2>2 DEF Finish, TypeInv, TypeOK, RowsOK, RunOK
  <2>6. QED
    BY <2>3, <2>4, <2>5 DEF TypeInv
<1>8. CASE GiveUp
  <2> DEFINE kept == Kept(pass.row)
  <2>1. /\ pass # None /\ pass' = None /\ gen' = gen /\ srv' = srv /\ issued' = issued
        /\ row' = [row EXCEPT ![pass.of] = kept]
        /\ rot' = [rot EXCEPT ![pass.of] = IF kept = None THEN None ELSE rot[pass.of]]
        /\ vouched' = [vouched EXCEPT ![pass.of] = kept = None \/ vouched[pass.of]]
    BY <1>8 DEF GiveUp
  <2>2. \/ kept = None
        \/ kept \in Row /\ kept.controls = pass.row.controls
    <3>1. [pass.row EXCEPT !.status = "draining"] \in Sibling(pass.row)
      BY <1>p, <2>1, RowTypes
    <3>2. QED
      BY <2>1, <3>1 DEF Kept, Sibling
  <2>v. vouched' \in [RowId -> BOOLEAN]
    <3>1. (kept = None \/ vouched[pass.of]) \in BOOLEAN
      OBVIOUS
    <3>2. QED
      BY <2>1, <3>1 DEF TypeInv, TypeOK
  <2>5. orphaned' \in BOOLEAN
    BY <1>8, Zenon DEF GiveUp, TypeInv, TypeOK
  <2> HIDE DEF kept
  <2>3. RowsOK(row', gen)
    BY <1>c, <1>n, <1>o, <1>p, <2>1, <2>2, RowsReplaced
  <2>4. rot' \in [RowId -> Secret] /\ RotOK'
    BY <1>p, <2>1 DEF Secret, TypeInv, TypeOK, RotOK
  <2>6. CountsOK' /\ RunOK'
    BY <2>1, <2>3 DEF CountsOK, RunOK
  <2>7. TypeOK'
    BY <2>1, <2>3, <2>4, <2>5, <2>v DEF TypeInv, TypeOK, RowsOK
  <2>8. QED
    BY <2>4, <2>6, <2>7 DEF TypeInv
<1>9. CASE Break
  <2>1. pass # None /\ pass' = None
    BY <1>9 DEF Break
  <2>2. srv' \in Server
    <3>1. srv' \in Reached
      BY <1>9 DEF Break
    <3>2. {srv, [srv EXCEPT !.keys = Authorized(@, pass.id)], Cleared,
           Started(pass.id, pass.row.port), [srv EXCEPT !.password = pass.id]}
             \subseteq Server
      <4>1. [srv EXCEPT !.keys = @ \cup {pass.id}] \in Server
        BY <1>n, <1>p, <2>1, ServerTypes
      <4>2. [srv EXCEPT !.password = pass.id] \in Server
        BY <1>n, <1>p, <2>1, ServerTypes
      <4>3. Cleared \in Server /\ Started(pass.id, pass.row.port) \in Server
        BY <1>n, <1>p, <2>1, StartedTypes
      <4>4. QED
        BY <1>n, <4>1, <4>2, <4>3 DEF Authorized
    <3>3. QED
      BY <3>1, <3>2 DEF Reached
  <2>3. vouched' \in [RowId -> BOOLEAN] /\ orphaned' \in BOOLEAN
    BY <1>9, Zenon DEF Break, TypeInv, TypeOK
  <2>4. TypeOK' /\ RotOK' /\ RunOK'
    BY <1>9, <2>1, <2>2, <2>3 DEF Break, TypeInv, TypeOK, RotOK, RunOK
  <2>5. CountsOK'
    BY <1>9, <2>1 DEF Break, TypeInv, CountsOK, RowsOK
  <2>6. QED
    BY <2>4, <2>5 DEF TypeInv
<1>10. ASSUME NEW r \in RowId, RegisterByHand(r)
       PROVE  TypeInv'
  <2>1. /\ gen' = gen + 1 /\ gen' \in Draw /\ gen < MaxGen
        /\ srv' = Started(gen + 1, 1) /\ pass' = None /\ pass = None
        /\ rot' = rot /\ row[r] = None
    BY <1>10, <1>m DEF RegisterByHand, Installed
  <2>2. srv' \in Server
    BY <1>n, <1>m, <2>1, StartedTypes, ProvisioningAssumption
  <2> DEFINE v == [NewRow(Reported) EXCEPT !.cert = gen + 1, !.status = "active", !.controls[1] = 1]
  <2>3. v \in Row /\ \A p \in Reality : v.controls[p] <= gen + 1
    <3>0. NewRow(Reported) \in Row
      BY NewRowTypes, ProvisioningAssumption
    <3>2. 1 \in 0..MaxGen
      BY ProvisioningAssumption
    <3>3. \A p \in Reality : NewRow(Reported).controls[p] = 0
      BY DEF NewRow
    <3>4. v \in Row
      BY <1>m, <2>1, <3>0, <3>2 DEF Row, Secret
    <3>5. \A p \in Reality : v.controls[p] \in {0, 1}
      BY <3>0, <3>3 DEF Row
    <3> HIDE DEF v
    <3>6. \A p \in Reality : v.controls[p] <= gen + 1
      BY <3>5, <1>n
    <3>7. QED
      BY <3>4, <3>6
  <2>4. row' = row \/ row' = [row EXCEPT ![r] = v]
    BY <1>10 DEF RegisterByHand
  <2> HIDE DEF v
  <2>5. RowsOK(row', gen + 1)
    BY <1>n, <1>o, <2>3, <2>4, RowsReplaced
  <2>6. vouched' \in [RowId -> BOOLEAN]
    BY <1>10, Zenon DEF RegisterByHand
  <2>7. RotOK'
    BY <2>1, <2>3, <2>4 DEF TypeInv, TypeOK, RotOK
  <2>8. CountsOK' /\ RunOK'
    BY <2>1, <2>5 DEF CountsOK, RunOK
  <2>9. TypeOK'
    BY <1>10, <2>1, <2>2, <2>5, <2>6 DEF RegisterByHand, TypeInv, TypeOK, RowsOK
  <2>10. QED
    BY <2>7, <2>8, <2>9 DEF TypeInv
<1>11. ASSUME NEW r \in RowId, RotateByHand(r)
       PROVE  TypeInv'
  <2>1. /\ gen' = gen + 1 /\ gen' \in Draw /\ row[r] # None /\ row' = row /\ pass' = pass
    BY <1>11, <1>m DEF RotateByHand
  <2>2. srv' \in Server /\ srv'.run = srv.run
    BY <1>11, <1>n, <1>m, ServerTypes DEF RotateByHand, Server
  <2>3. rot' \in [RowId -> Secret] /\ RotOK'
    BY <1>11, <1>m, <2>1 DEF RotateByHand, Secret, TypeInv, TypeOK, RotOK
  <2>5. pass # None => pass.id \in 1..(gen + 1)
    BY <1>p, <1>n
  <2>6. CountsOK'
    BY <1>o, <2>1, <2>5 DEF TypeInv, CountsOK, Fresh
  <2>7. TypeOK' /\ RunOK'
    BY <1>11, <2>1, <2>2, <2>3 DEF RotateByHand, TypeInv, TypeOK, RunOK
  <2>8. QED
    BY <2>3, <2>6, <2>7 DEF TypeInv
<1>12. ASSUME NEW r \in RowId, StoreRotated(r)
       PROVE  TypeInv'
  <2> DEFINE v == [row[r] EXCEPT !.password = rot[r]]
  <2>1. row[r] # None /\ rot[r] \in Secret /\ rot[r] # None
    BY <1>12 DEF StoreRotated, Unlocked, TypeInv, TypeOK
  <2>2. v \in Row /\ v.controls = row[r].controls
    BY <1>n, <2>1, RowTypes DEF Sibling
  <2>3. row' = [row EXCEPT ![r] = v] /\ gen' = gen /\ pass' = pass /\ srv' = srv
    BY <1>12 DEF StoreRotated
  <2> HIDE DEF v
  <2>4. RowsOK(row', gen)
    BY <1>n, <1>o, <1>r, <2>1, <2>2, <2>3, RowsReplaced
  <2>5. CountsOK' /\ RunOK'
    BY <2>3, <2>4 DEF TypeInv, CountsOK, Fresh, RunOK
  <2>6. RotOK'
    BY <1>12, <2>2, <2>3 DEF StoreRotated, TypeInv, TypeOK, RotOK
  <2>7. TypeOK'
    BY <1>12, <2>3, <2>4 DEF StoreRotated, TypeInv, TypeOK, RowsOK, Secret
  <2>8. QED
    BY <2>5, <2>6, <2>7 DEF TypeInv
<1>13. ASSUME NEW r \in RowId, RescanPorts(r)
       PROVE  TypeInv'
  <2> DEFINE o == RealitySeen \ {p \in Reality : row[r].controls[p] > 0}
             v == [row[r] EXCEPT !.occupied = o]
  <2>1. o \in SUBSET Reality
    BY <1>n DEF RealitySeen, Server
  <2>2. /\ row[r] # None /\ gen' = gen /\ pass' = pass /\ srv' = srv
        /\ row' = [row EXCEPT ![r] = v]
    BY <1>13 DEF RescanPorts, Unlocked
  <2> HIDE DEF o
  <2>3. v \in Row /\ v.controls = row[r].controls
    BY <1>n, <2>1, <2>2, RowTypes DEF Sibling
  <2> HIDE DEF v
  <2>4. RowsOK(row', gen)
    BY <1>n, <1>o, <1>r, <2>2, <2>3, RowsReplaced
  <2>5. CountsOK' /\ RunOK'
    BY <2>2, <2>4 DEF TypeInv, CountsOK, Fresh, RunOK
  <2>6. RotOK'
    BY <1>13, <2>2, <2>3 DEF RescanPorts, TypeInv, TypeOK, RotOK
  <2>7. TypeOK'
    BY <1>13, <2>2, <2>4 DEF RescanPorts, TypeInv, TypeOK, RowsOK
  <2>8. QED
    BY <2>5, <2>6, <2>7 DEF TypeInv
<1>14. ASSUME NEW r \in RowId, Push(r)
       PROVE  TypeInv'
  <2>1. srv' \in Server /\ srv'.run = srv.run
    BY <1>14, <1>n DEF Push, Server
  <2>2. QED
    BY <1>14, <2>1 DEF Push, TypeInv, TypeOK, CountsOK, RowsOK, RotOK, RunOK
<1>15. ASSUME NEW r \in RowId, NEW status \in {"active", "draining"},
              SetStatus(r, status)
       PROVE  TypeInv'
  <2> DEFINE v == [row[r] EXCEPT !.status = status]
  <2>1. /\ row[r] # None /\ gen' = gen /\ pass' = pass /\ srv' = srv
        /\ row' = [row EXCEPT ![r] = v]
    BY <1>15 DEF SetStatus, Unlocked
  <2>2. v \in Row /\ v.controls = row[r].controls
    BY <1>n, <2>1, RowTypes DEF Sibling
  <2> HIDE DEF v
  <2>3. RowsOK(row', gen)
    BY <1>n, <1>o, <1>r, <2>1, <2>2, RowsReplaced
  <2>4. CountsOK' /\ RunOK'
    BY <2>1, <2>3 DEF TypeInv, CountsOK, Fresh, RunOK
  <2>5. RotOK'
    BY <1>15, <2>1, <2>2 DEF SetStatus, TypeInv, TypeOK, RotOK
  <2>6. vouched' \in [RowId -> BOOLEAN]
    <3>1. /\ vouched' = [vouched EXCEPT ![r] =
                           vouched[r] /\ (status = "draining" \/ Reaches(row[r]))]
          /\ (vouched[r] /\ (status = "draining" \/ Reaches(row[r]))) \in BOOLEAN
      BY <1>15 DEF SetStatus
    <3>2. QED
      BY <3>1 DEF TypeInv, TypeOK
  <2>7. TypeOK'
    BY <1>15, <2>1, <2>3, <2>6 DEF SetStatus, TypeInv, TypeOK, RowsOK
  <2>8. QED
    BY <2>4, <2>5, <2>7 DEF TypeInv
<1>16. ASSUME NEW r \in RowId, Delete(r)
       PROVE  TypeInv'
  <2>1. /\ row[r] # None /\ gen' = gen /\ pass' = pass /\ srv' = srv
        /\ row' = [row EXCEPT ![r] = None]
    BY <1>16 DEF Delete, Unlocked
  <2>2. RowsOK(row', gen)
    BY <1>n, <1>o, <2>1, RowsReplaced
  <2>3. CountsOK' /\ RunOK'
    BY <2>1, <2>2 DEF TypeInv, CountsOK, Fresh, RunOK
  <2>4. rot' \in [RowId -> Secret] /\ RotOK'
    BY <1>16, <2>1 DEF Delete, TypeInv, TypeOK, RotOK, Secret
  <2>5. orphaned' \in BOOLEAN
    BY <1>16, Zenon DEF Delete
  <2>6. TypeOK'
    BY <1>16, <2>1, <2>2, <2>4, <2>5 DEF Delete, TypeInv, TypeOK, RowsOK
  <2>7. QED
    BY <2>3, <2>4, <2>6 DEF TypeInv
<1>17. CASE ResetPassword
  <2>1. /\ gen' = gen + 1 /\ gen' \in Draw /\ row' = row /\ pass' = None /\ pass = None
    BY <1>17, <1>m DEF ResetPassword
  <2>2. srv' \in Server
    BY <1>17, <1>n, <1>m, ServerTypes DEF ResetPassword
  <2>3. CountsOK'
    BY <1>o, <2>1 DEF CountsOK
  <2>4. QED
    BY <1>17, <2>1, <2>2, <2>3
       DEF ResetPassword, TypeInv, TypeOK, RotOK, RunOK
<1>18. CASE UNCHANGED vars
  BY <1>18 DEF vars, TypeInv, TypeOK, CountsOK, RowsOK, RotOK, RunOK, Fresh
<1>19. QED
  BY <1>1, <1>2, <1>3, <1>4, <1>5, <1>6, <1>7, <1>8, <1>9, <1>10, <1>11, <1>12,
     <1>13, <1>14, <1>15, <1>16, <1>17, <1>18 DEF Next

\* The database's row, the server and the pass stay what they are declared to
\* be; what bounds the control inbounds is that every pass adds one.
THEOREM TypeCorrect == Spec => []TypeOK
<1>1. TypeInv => TypeOK
  BY DEF TypeInv
<1>2. QED
  BY <1>1, TypeInit, TypeStep, PTL DEF Spec

-----------------------------------------------------------------------------
(* A node in rotation can be called.  While a pass rebuilds the node its     *)
(* committed row is out of date, so the invariant follows the pass: what it   *)
(* will commit is what the container it started shows.                       *)

PassAnswers ==
    /\ pass # None /\ pass.step \in {"booted", "applied", "rotated"}
        => pass.row.port = srv.run.port
    /\ pass # None /\ pass.step \in {"applied", "rotated"}
        => pass.row.cert = srv.run.cert

AnswersInv == ActiveAnswers /\ PassAnswers

LEMMA AnswersInit == Init => AnswersInv
  BY DEF Init, AnswersInv, ActiveAnswers, PassAnswers

\* Where the server runs what it ran, a row that could be called still can be.
LEMMA StillReaches ==
    ASSUME srv'.run = srv.run, NEW r, Reaches(r)
    PROVE  Reaches(r)'
  BY DEF Reaches

LEMMA AnswersStep ==
    TypeInv /\ AnswersInv /\ [Next]_vars => AnswersInv'
<1> SUFFICES ASSUME TypeInv, AnswersInv, [Next]_vars PROVE AnswersInv'
  OBVIOUS
<1> USE ProvisioningNoneAssumption
<1>n. /\ srv \in Server
      /\ row \in [RowId -> Row \cup {None}]
      /\ vouched \in [RowId -> BOOLEAN]
      /\ pass # None => pass \in Pass /\ pass.row \in Row /\ pass.of \in RowId
  BY DEF TypeInv, TypeOK, Pass
<1>1. ASSUME NEW h \in Host, NEW r \in RowId, Begin(h, r)
      PROVE  AnswersInv'
  <2>1. pass'.step = "begun" /\ pass = None
    BY <1>1 DEF Begin
  <2>2. QED
    BY <1>1, <2>1 DEF Begin, AnswersInv, ActiveAnswers, PassAnswers, Reaches
<1>2. CASE LogIn
  <2>1. /\ pass # None /\ pass.step = "begun" /\ pass' \in Pass
        /\ pass'.step \in {"keyed", "failed"} /\ pass'.of = pass.of
    BY <1>2, LogInPass
  <2>2. srv'.run = srv.run
    BY <1>2, <1>n DEF LogIn, Server
  <2>3. QED
    BY <1>2, <2>1, <2>2 DEF LogIn, AnswersInv, ActiveAnswers, PassAnswers, Reaches
<1>3. CASE Survey
  BY <1>3, SurveyPass DEF Survey, AnswersInv, ActiveAnswers, PassAnswers, Reaches
<1>4. CASE Bootstrap
  <2>1. Started(pass.id, pass.row.port).run = [cert |-> pass.id, port |-> pass.row.port]
    BY <1>n, StartedTypes DEF Started, Server
  <2>2. /\ pass # None /\ pass.step = "planned" /\ pass' \in Pass /\ pass'.of = pass.of
        /\ pass'.step \in {"failed", "booted"} /\ row' = row
        /\ pass'.step = "booted" => pass'.row.port = srv'.run.port
    BY <1>4, <2>1, BootstrapPass DEF Bootstrap
  <2>3. ASSUME NEW q \in RowId, vouched'[q], q # pass.of
        PROVE  vouched[q] /\ srv'.run = srv.run
    BY <1>4, <2>3 DEF Bootstrap
  <2>4. ActiveAnswers'
    BY <2>2, <2>3, StillReaches DEF AnswersInv, ActiveAnswers, Reaches
  <2>5. QED
    BY <2>2, <2>4 DEF AnswersInv, PassAnswers
<1>5. CASE Apply
  <2>1. srv' = srv
    BY <1>5 DEF Apply
  <2>2. QED
    BY <1>5, <2>1, ApplyPass DEF Apply, AnswersInv, ActiveAnswers, PassAnswers, Reaches
<1>6. CASE Rotate
  BY <1>6, RotatePass DEF Rotate, AnswersInv, ActiveAnswers, PassAnswers, Reaches
<1>7. CASE Finish
  <2>1. /\ pass # None /\ pass.step = "rotated"
        /\ row' = [row EXCEPT ![pass.of] = pass.row]
        /\ vouched' = [vouched EXCEPT ![pass.of] = TRUE]
        /\ pass' = None /\ srv' = srv
    BY <1>7 DEF Finish
  <2>2. srv.run # None
    BY <2>1 DEF TypeInv, RunOK
  <2>3. Reaches(pass.row)
    BY <2>1, <2>2 DEF AnswersInv, PassAnswers, Reaches
  <2>4. ASSUME NEW q \in RowId, vouched'[q], row'[q] # None, row'[q].status = "active"
        PROVE  Reaches(row'[q])
    <3>1. CASE q = pass.of
      BY <1>n, <2>1, <2>3, <3>1
    <3>2. CASE q # pass.of
      BY <1>n, <2>1, <2>4, <3>2 DEF AnswersInv, ActiveAnswers
    <3>3. QED
      BY <3>1, <3>2
  <2>5. QED
    BY <2>1, <2>4 DEF AnswersInv, ActiveAnswers, PassAnswers, Reaches
<1>8. CASE GiveUp
  <2>1. /\ pass # None /\ row' = [row EXCEPT ![pass.of] = Kept(pass.row)]
        /\ pass' = None /\ srv' = srv
        /\ \A q \in RowId : q # pass.of => vouched'[q] = vouched[q]
    BY <1>8, <1>n DEF GiveUp
  <2>2. Kept(pass.row) = None \/ Kept(pass.row).status = "draining"
    BY <1>n, <2>1 DEF Kept, Row
  <2>3. ASSUME NEW q \in RowId, vouched'[q], row'[q] # None, row'[q].status = "active"
        PROVE  Reaches(row'[q])
    <3>1. q # pass.of
      BY <1>n, <2>1, <2>2, <2>3
    <3>2. QED
      BY <1>n, <2>1, <2>3, <3>1 DEF AnswersInv, ActiveAnswers
  <2>4. QED
    BY <2>1, <2>3 DEF AnswersInv, ActiveAnswers, PassAnswers, Reaches
<1>9. CASE Break
  <2>1. row' = row /\ pass' = None /\ pass # None
    BY <1>9 DEF Break
  <2>2. ASSUME NEW q \in RowId, vouched'[q], row[q] # None, row[q].status = "active"
        PROVE  Reaches(row[q])'
    <3>1. vouched[q] /\ srv'.run = srv.run /\ (q = pass.of => Reaches(row[q]))
      BY <1>9, <2>2 DEF Break
    <3>2. Reaches(row[q])
      BY <2>1, <2>2, <3>1 DEF AnswersInv, ActiveAnswers
    <3>3. QED
      BY <2>1, <3>1, <3>2 DEF Reaches
  <2>3. QED
    BY <2>1, <2>2 DEF AnswersInv, ActiveAnswers, PassAnswers
<1>10. ASSUME NEW r \in RowId, RegisterByHand(r)
       PROVE  AnswersInv'
  <2> DEFINE v == [NewRow(Reported) EXCEPT !.cert = gen + 1, !.status = "active", !.controls[1] = 1]
  <2>1. /\ pass' = None /\ row[r] = None /\ srv' = Started(gen + 1, 1)
        /\ row' = row \/ row' = [row EXCEPT ![r] = v]
    BY <1>10 DEF RegisterByHand, Installed
  <2>2. Cleared \in Server
    BY <1>n, StartedTypes
  <2>3. srv'.run = [cert |-> gen + 1, port |-> 1] /\ srv'.run # None
    <3>1. srv'.run = [cert |-> gen + 1, port |-> 1]
      BY <2>1, <2>2 DEF Started, Server
    <3>2. gen + 1 \in Draw
      BY <1>10, ProvisioningAssumption DEF RegisterByHand, TypeInv, TypeOK, Draw
    <3>3. [cert |-> gen + 1, port |-> 1] \in Container
      BY <3>2, ProvisioningAssumption DEF Container
    <3>4. QED
      BY <3>1, <3>3
  <2>4. v.cert = gen + 1 /\ v.port = 1
    BY DEF NewRow
  <2> HIDE DEF v
  <2>5. ASSUME NEW q \in RowId, vouched'[q], row'[q] # None
        PROVE  Reaches(row[q])'
    <3>1. row[q] = None
      BY <1>10, <2>5 DEF RegisterByHand
    <3>2. row'[q] = v
      BY <1>n, <2>1, <2>5, <3>1
    <3>3. QED
      BY <2>3, <2>4, <3>2 DEF Reaches
  <2>6. QED
    BY <2>1, <2>5 DEF AnswersInv, ActiveAnswers, PassAnswers
<1>11. ASSUME NEW r \in RowId, RotateByHand(r)
       PROVE  AnswersInv'
  <2>1. srv'.run = srv.run
    BY <1>11, <1>n DEF RotateByHand, Server
  <2>2. QED
    BY <1>11, <2>1 DEF RotateByHand, AnswersInv, ActiveAnswers, PassAnswers, Reaches
<1>12. ASSUME NEW r \in RowId, StoreRotated(r)
       PROVE  AnswersInv'
  <2> DEFINE v == [row[r] EXCEPT !.password = rot[r]]
  <2>1. row[r] # None /\ row' = [row EXCEPT ![r] = v]
    BY <1>12 DEF StoreRotated, Unlocked
  <2>2. /\ v.status = row[r].status /\ v.cert = row[r].cert /\ v.port = row[r].port
    BY <1>n, <2>1 DEF Row
  <2> HIDE DEF v
  <2>3. \A q \in RowId : row'[q] # None =>
          /\ row[q] # None /\ row'[q].status = row[q].status
          /\ row'[q].cert = row[q].cert /\ row'[q].port = row[q].port
    BY <1>n, <2>1, <2>2
  <2>4. QED
    BY <1>12, <2>3 DEF StoreRotated, AnswersInv, ActiveAnswers, PassAnswers, Reaches
<1>13. ASSUME NEW r \in RowId, RescanPorts(r)
       PROVE  AnswersInv'
  <2> DEFINE v == [row[r] EXCEPT !.occupied =
                     RealitySeen \ {p \in Reality : row[r].controls[p] > 0}]
  <2>1. row[r] # None /\ row' = [row EXCEPT ![r] = v]
    BY <1>13 DEF RescanPorts, Unlocked
  <2>2. /\ v.status = row[r].status /\ v.cert = row[r].cert /\ v.port = row[r].port
    BY <1>n, <2>1 DEF Row
  <2> HIDE DEF v
  <2>3. \A q \in RowId : row'[q] # None =>
          /\ row[q] # None /\ row'[q].status = row[q].status
          /\ row'[q].cert = row[q].cert /\ row'[q].port = row[q].port
    BY <1>n, <2>1, <2>2
  <2>4. QED
    BY <1>13, <2>3 DEF RescanPorts, AnswersInv, ActiveAnswers, PassAnswers, Reaches
<1>14. ASSUME NEW r \in RowId, Push(r)
       PROVE  AnswersInv'
  <2>1. srv'.run = srv.run
    BY <1>14, <1>n DEF Push, Server
  <2>2. QED
    BY <1>14, <2>1 DEF Push, AnswersInv, ActiveAnswers, PassAnswers, Reaches
<1>15. ASSUME NEW r \in RowId, NEW status \in {"active", "draining"},
              SetStatus(r, status)
       PROVE  AnswersInv'
  <2> DEFINE v == [row[r] EXCEPT !.status = status]
  <2>1. /\ row[r] # None /\ row' = [row EXCEPT ![r] = v]
        /\ srv' = srv /\ pass' = pass
    BY <1>15 DEF SetStatus, Unlocked
  <2>2. /\ v.status = status /\ v.cert = row[r].cert /\ v.port = row[r].port
    BY <1>n, <2>1 DEF Row
  <2> HIDE DEF v
  <2>3. ASSUME NEW q \in RowId, vouched'[q], row'[q] # None, row'[q].status = "active",
               pass = None \/ pass.of # q \/ pass.step \in {"begun", "keyed"}
        PROVE  Reaches(row'[q])
    <3>1. CASE q = r
      <4>1. row'[q] = v /\ status = "active"
        BY <1>n, <2>1, <2>2, <2>3, <3>1
      <4>2. Reaches(row[r])
        BY <1>15, <1>n, <2>3, <3>1, <4>1 DEF SetStatus
      <4>3. QED
        BY <2>2, <4>1, <4>2 DEF Reaches
    <3>2. CASE q # r
      <4>1. row'[q] = row[q] /\ vouched'[q] = vouched[q]
        BY <1>15, <1>n, <2>1, <3>2 DEF SetStatus
      <4>2. QED
        BY <2>3, <4>1 DEF AnswersInv, ActiveAnswers
    <3>3. QED
      BY <3>1, <3>2
  <2>4. ActiveAnswers'
    BY <2>1, <2>3 DEF ActiveAnswers, Reaches
  <2>5. QED
    BY <2>1, <2>4 DEF AnswersInv, PassAnswers
<1>16. ASSUME NEW r \in RowId, Delete(r)
       PROVE  AnswersInv'
  <2>1. /\ row' = [row EXCEPT ![r] = None] /\ srv' = srv /\ pass' = pass
        /\ vouched' = [vouched EXCEPT ![r] = TRUE]
    BY <1>16 DEF Delete
  <2>2. QED
    BY <1>n, <2>1 DEF AnswersInv, ActiveAnswers, PassAnswers, Reaches
<1>17. CASE ResetPassword
  <2>1. srv'.run = srv.run
    BY <1>17, <1>n DEF ResetPassword, Server
  <2>2. QED
    BY <1>17, <2>1 DEF ResetPassword, AnswersInv, ActiveAnswers, PassAnswers, Reaches
<1>18. CASE UNCHANGED vars
  BY <1>18 DEF vars, AnswersInv, ActiveAnswers, PassAnswers, Reaches
<1>19. QED
  BY <1>1, <1>2, <1>3, <1>4, <1>5, <1>6, <1>7, <1>8, <1>9, <1>10, <1>11, <1>12,
     <1>13, <1>14, <1>15, <1>16, <1>17, <1>18 DEF Next

\* A node that the head's own passes put into rotation, and whose server was
\* not installed for another row since, shows the certificate its row pins, on
\* the port its row records; however many rows the server has.
THEOREM NodeInRotationAnswers == Spec => []ActiveAnswers
<1>1. Init => TypeInv /\ AnswersInv
  BY TypeInit, AnswersInit
<1>2. TypeInv /\ AnswersInv /\ [Next]_vars => TypeInv' /\ AnswersInv'
  BY TypeStep, AnswersStep
<1>3. AnswersInv => ActiveAnswers
  BY DEF AnswersInv
<1>4. QED
  BY <1>1, <1>2, <1>3, PTL DEF Spec

-----------------------------------------------------------------------------
(* The head can always get in.  The key travels in the copy of the pass, so   *)
(* the invariant speaks of the copy while there is one.                      *)

KeyOpens ==
    /\ \A q \in RowId : row[q] # None /\ row[q].key # None => row[q].key \in srv.keys
    /\ pass # None /\ pass.row.key # None => pass.row.key \in srv.keys

Keyed == {"keyed", "planned", "booted", "applied", "rotated"}

KeyKnown ==
    /\ pass # None /\ pass.step \in Keyed => pass.row.key # None
    /\ pass # None /\ row[pass.of] # None /\ row[pass.of].key # None
         => pass.row.key # None
    /\ srv.keys # {} /\ ~orphaned
         => KeyKept \/ (pass # None /\ pass.row.key # None)

KeyInv == KeyOpens /\ KeyKnown

LEMMA KeyInit == Init => KeyInv
  BY DEF Init, KeyInv, KeyOpens, KeyKnown

\* A write that leaves the row's key alone leaves the head's knowledge alone.
LEMMA KeyColumnKept ==
    ASSUME TypeInv, KeyInv, NEW r \in RowId, NEW v \in Row, Unlocked(r),
           v.key = row[r].key, row' = [row EXCEPT ![r] = v],
           srv'.keys = srv.keys, pass' = pass, orphaned' = orphaned
    PROVE  KeyInv'
<1> USE ProvisioningNoneAssumption
<1>1. \A q \in RowId : (row'[q] # None <=> row[q] # None)
                        /\ (row[q] # None => row'[q].key = row[q].key)
  BY DEF TypeInv, TypeOK, Unlocked
<1>2. pass # None => pass.of \in RowId
  BY DEF TypeInv, TypeOK, Pass
<1>3. KeyKept' <=> KeyKept
  BY <1>1 DEF KeyKept
<1>4. KeyOpens'
  BY <1>1 DEF KeyInv, KeyOpens
<1>5. KeyKnown'
  BY <1>1, <1>2, <1>3 DEF KeyInv, KeyKnown
<1>6. QED
  BY <1>4, <1>5 DEF KeyInv

\* A step that leaves the rows and the pass alone and takes no key away keeps it.
LEMMA KeysOnServerKept ==
    ASSUME KeyInv, row' = row, pass' = pass, orphaned' = orphaned,
           srv'.keys = srv.keys
    PROVE  KeyInv'
  BY DEF KeyInv, KeyOpens, KeyKnown, KeyKept

LEMMA KeyStep == TypeInv /\ KeyInv /\ [Next]_vars => KeyInv'
<1> SUFFICES ASSUME TypeInv, KeyInv, [Next]_vars PROVE KeyInv'
  OBVIOUS
<1> USE ProvisioningNoneAssumption
<1>n. /\ srv \in Server
      /\ row \in [RowId -> Row \cup {None}]
      /\ pass # None => /\ pass \in Pass /\ pass.row \in Row /\ pass.id \in Nat
                        /\ pass.of \in RowId
  BY ProvisioningAssumption DEF TypeInv, TypeOK, Pass, Draw
<1>k. /\ Cleared.keys = srv.keys
      /\ \A n, p : Started(n, p).keys = srv.keys
      /\ \A n : [srv EXCEPT !.password = n].keys = srv.keys
      /\ \A n : [srv EXCEPT !.listens = n].keys = srv.keys
      /\ \A n : [srv EXCEPT !.keys = Authorized(@, n)].keys = srv.keys \cup {n}
  <2>1. Cleared \in Server /\ Cleared.keys = srv.keys
    BY <1>n, StartedTypes DEF Cleared, Server
  <2>2. \A n, p : Started(n, p).keys = srv.keys
    BY <2>1 DEF Started, Server
  <2>3. QED
    BY <1>n, <2>1, <2>2 DEF Server, Authorized
<1>1. ASSUME NEW h \in Host, NEW r \in RowId, Begin(h, r)
      PROVE  KeyInv'
  <2>1. /\ pass = None /\ row' = row /\ srv' = srv /\ orphaned' = orphaned
        /\ pass'.step = "begun" /\ pass'.of = r
        /\ pass'.row.key = IF row[r] = None THEN None ELSE row[r].key
    BY <1>1, <1>n DEF Begin, NewRow, Row
  <2>2. QED
    BY <2>1 DEF KeyInv, KeyOpens, KeyKnown, Keyed, KeyKept
<1>2. CASE LogIn
  <2>1. /\ pass # None /\ pass.step = "begun" /\ row' = row /\ pass' # None
        /\ pass'.of = pass.of
        /\ \/ pass'.step = "keyed" /\ pass'.row = [pass.row EXCEPT !.key = pass.id]
           \/ pass'.step = "failed" /\ pass'.row = pass.row
    BY <1>2, LogInPass DEF LogIn
  <2>2. [pass.row EXCEPT !.key = pass.id].key = pass.id /\ pass.id # None
    BY <1>n, <2>1 DEF Row
  <2>3. CASE srv' = [srv EXCEPT !.keys = Authorized(@, pass.id)] /\ pass'.step = "keyed"
    <3>1. srv'.keys = srv.keys \cup {pass.id}
      BY <1>k, <2>3
    <3>2. pass'.row.key = pass.id
      BY <2>1, <2>2, <2>3
    <3>3. KeyOpens'
      BY <2>1, <3>1, <3>2 DEF KeyInv, KeyOpens
    <3>4. KeyKnown'
      BY <2>1, <2>2, <3>2 DEF KeyKnown
    <3>5. QED
      BY <3>3, <3>4 DEF KeyInv
  <2>4. CASE /\ srv' = [srv EXCEPT !.keys = Authorized(@, pass.id)]
             /\ pass'.step = "failed"
             /\ orphaned' = (orphaned \/ pass.row.key = None)
    <3>1. srv'.keys = srv.keys \cup {pass.id} /\ pass'.row = pass.row
      BY <1>k, <2>1, <2>4
    <3>2. KeyOpens'
      BY <2>1, <3>1 DEF KeyInv, KeyOpens
    <3>3. KeyKnown'
      BY <2>1, <2>4, <3>1 DEF KeyInv, KeyKnown, Keyed
    <3>4. QED
      BY <3>2, <3>3 DEF KeyInv
  <2>5. CASE pass'.step = "failed" /\ UNCHANGED <<srv, orphaned>>
    BY <2>1, <2>5 DEF KeyInv, KeyOpens, KeyKnown, Keyed, KeyKept
  <2>6. QED
    <3>1. Continues("keyed", [pass.row EXCEPT !.key = pass.id]) => pass'.step = "keyed"
      BY <1>n, <2>1 DEF Continues, Pass
    <3>2. Stops => pass'.step = "failed"
      BY <1>n, <2>1 DEF Stops, Continues, Pass
    <3>3. QED
      BY <1>2, <2>3, <2>4, <2>5, <3>1, <3>2 DEF LogIn
<1>3. CASE Survey
  BY <1>3, SurveyPass DEF Survey, KeyInv, KeyOpens, KeyKnown, Keyed, KeyKept
<1>4. CASE Bootstrap
  BY <1>4, <1>k, BootstrapPass DEF Bootstrap, KeyInv, KeyOpens, KeyKnown, Keyed, KeyKept
<1>5. CASE Apply
  BY <1>5, ApplyPass DEF Apply, KeyInv, KeyOpens, KeyKnown, Keyed, KeyKept
<1>6. CASE Rotate
  BY <1>6, RotatePass DEF Rotate, KeyInv, KeyOpens, KeyKnown, Keyed, KeyKept
<1>7. CASE Finish
  <2>1. /\ pass # None /\ pass.step = "rotated" /\ pass' = None
        /\ row' = [row EXCEPT ![pass.of] = pass.row]
        /\ srv' = srv /\ pass.row # None
    BY <1>7, <1>n DEF Finish
  <2>2. pass.row.key # None /\ row'[pass.of] = pass.row
    BY <1>n, <2>1 DEF KeyInv, KeyKnown, Keyed
  <2>3. KeyOpens'
    BY <1>n, <2>1 DEF KeyInv, KeyOpens
  <2>4. KeyKept'
    BY <1>n, <2>1, <2>2 DEF KeyKept
  <2>5. QED
    BY <2>1, <2>3, <2>4 DEF KeyInv, KeyKnown
<1>8. CASE GiveUp
  <2> DEFINE kept == Kept(pass.row)
  <2>1. /\ pass # None /\ pass' = None /\ row' = [row EXCEPT ![pass.of] = kept]
        /\ srv' = srv /\ orphaned' = (orphaned /\ kept = None)
    BY <1>8 DEF GiveUp
  <2>2. IF pass.row.key # None THEN kept \in Row /\ kept.key = pass.row.key ELSE kept = None
    <3>1. [pass.row EXCEPT !.status = "draining"] \in Row
      BY <1>n, <2>1, RowTypes DEF Sibling
    <3>2. QED
      BY <2>1, <3>1 DEF Kept
  <2> HIDE DEF kept
  <2>3. KeyOpens'
    BY <1>n, <2>1, <2>2 DEF KeyInv, KeyOpens
  <2>4. srv.keys # {} /\ ~orphaned' => KeyKept'
    <3>1. CASE pass.row.key # None
      BY <1>n, <2>1, <2>2, <3>1 DEF KeyKept
    <3>2. CASE pass.row.key = None
      <4>1. ~(row[pass.of] # None /\ row[pass.of].key # None)
        BY <2>1, <3>2 DEF KeyInv, KeyKnown
      <4>2. KeyKept => KeyKept'
        BY <1>n, <2>1, <4>1 DEF KeyKept
      <4>3. ~orphaned' => ~orphaned
        BY <2>1, <2>2, <3>2
      <4>4. QED
        BY <2>1, <3>2, <4>2, <4>3 DEF KeyInv, KeyKnown
    <3>3. QED
      BY <3>1, <3>2
  <2>5. QED
    BY <2>1, <2>3, <2>4 DEF KeyInv, KeyKnown
<1>9. CASE Break
  <2>1. pass # None /\ pass' = None /\ row' = row
    BY <1>9 DEF Break
  <2>2. srv.keys \subseteq srv'.keys
    <3>1. srv' \in {srv, Cleared, Started(pass.id, pass.row.port),
                    [srv EXCEPT !.keys = Authorized(@, pass.id)],
                    [srv EXCEPT !.password = pass.id]}
      BY <1>9 DEF Break, Reached
    <3>2. CASE srv' = srv \/ srv' = Cleared
      BY <1>k, <3>2
    <3>3. CASE srv' = Started(pass.id, pass.row.port)
      BY <1>k, <3>3
    <3>4. CASE srv' = [srv EXCEPT !.keys = Authorized(@, pass.id)]
      BY <1>k, <3>4
    <3>5. CASE srv' = [srv EXCEPT !.password = pass.id]
      BY <1>k, <3>5
    <3>6. QED
      BY <3>1, <3>2, <3>3, <3>4, <3>5
  <2>3. QED
    BY <1>9, <2>1, <2>2 DEF Break, KeyInv, KeyOpens, KeyKnown, Keyed, KeyKept
<1>10. ASSUME NEW r \in RowId, RegisterByHand(r)
       PROVE  KeyInv'
  <2> DEFINE v == [NewRow(Reported) EXCEPT !.cert = gen + 1, !.status = "active", !.controls[1] = 1]
  <2>1. /\ pass = None /\ pass' = None /\ row[r] = None /\ srv'.keys = srv.keys
        /\ orphaned' = orphaned /\ v.key = None
        /\ row' = row \/ row' = [row EXCEPT ![r] = v]
    BY <1>10, <1>k DEF RegisterByHand, Installed, NewRow
  <2> HIDE DEF v
  <2>2. /\ \A q \in RowId : row[q] # None => row'[q] = row[q]
        /\ \A q \in RowId : row'[q] # None /\ row'[q].key # None => row'[q] = row[q]
    BY <1>n, <2>1
  <2>3. KeyKept => KeyKept'
    BY <2>2 DEF KeyKept
  <2>4. QED
    BY <2>1, <2>2, <2>3 DEF KeyInv, KeyOpens, KeyKnown
<1>11. ASSUME NEW r \in RowId, RotateByHand(r)
       PROVE  KeyInv'
  BY <1>11, <1>k, KeysOnServerKept DEF RotateByHand
<1>12. ASSUME NEW r \in RowId, StoreRotated(r)
       PROVE  KeyInv'
  <2> DEFINE v == [row[r] EXCEPT !.password = rot[r]]
  <2>1. row[r] \in Row /\ rot[r] \in Secret
    BY <1>12, <1>n DEF StoreRotated, Unlocked, TypeInv, TypeOK
  <2>2. v \in Row /\ v.key = row[r].key
    BY <2>1, RowTypes DEF Sibling, Row
  <2>3. row' = [row EXCEPT ![r] = v]
    BY <1>12 DEF StoreRotated
  <2> HIDE DEF v
  <2>4. QED
    BY <1>12, <2>2, <2>3, KeyColumnKept DEF StoreRotated
<1>13. ASSUME NEW r \in RowId, RescanPorts(r)
       PROVE  KeyInv'
  <2> DEFINE o == RealitySeen \ {p \in Reality : row[r].controls[p] > 0}
             v == [row[r] EXCEPT !.occupied = o]
  <2>1. row[r] \in Row /\ o \in SUBSET Reality /\ row' = [row EXCEPT ![r] = v]
    BY <1>13, <1>n DEF RescanPorts, Unlocked, RealitySeen, Server
  <2> HIDE DEF o
  <2>2. v \in Row /\ v.key = row[r].key
    BY <2>1, RowTypes DEF Sibling, Row
  <2> HIDE DEF v
  <2>3. QED
    BY <1>13, <2>1, <2>2, KeyColumnKept DEF RescanPorts
<1>14. ASSUME NEW r \in RowId, Push(r)
       PROVE  KeyInv'
  BY <1>14, <1>k, KeysOnServerKept DEF Push
<1>15. ASSUME NEW r \in RowId, NEW status \in {"active", "draining"},
              SetStatus(r, status)
       PROVE  KeyInv'
  <2> DEFINE v == [row[r] EXCEPT !.status = status]
  <2>1. row[r] \in Row /\ row' = [row EXCEPT ![r] = v]
    BY <1>15, <1>n DEF SetStatus, Unlocked
  <2>2. v \in Row /\ v.key = row[r].key
    BY <2>1, RowTypes DEF Sibling, Row
  <2> HIDE DEF v
  <2>3. QED
    BY <1>15, <2>1, <2>2, KeyColumnKept DEF SetStatus
<1>16. ASSUME NEW r \in RowId, Delete(r)
       PROVE  KeyInv'
  <2>1. /\ row[r] # None /\ (pass # None => pass.of # r)
        /\ row' = [row EXCEPT ![r] = None] /\ srv' = srv /\ pass' = pass
        /\ orphaned' = (orphaned \/ row[r].key # None)
    BY <1>16 DEF Delete, Unlocked
  <2>2. KeyOpens'
    BY <1>n, <2>1 DEF KeyInv, KeyOpens
  <2>3. ~orphaned' /\ KeyKept => KeyKept'
    BY <1>n, <2>1 DEF KeyKept
  <2>4. KeyKnown'
    BY <1>n, <2>1, <2>3 DEF KeyInv, KeyKnown
  <2>5. QED
    BY <2>2, <2>4 DEF KeyInv
<1>17. CASE ResetPassword
  BY <1>17, <1>k, KeysOnServerKept DEF ResetPassword
<1>18. CASE UNCHANGED vars
  BY <1>18 DEF vars, KeyInv, KeyOpens, KeyKnown, KeyKept
<1>19. QED
  BY <1>1, <1>2, <1>3, <1>4, <1>5, <1>6, <1>7, <1>8, <1>9, <1>10, <1>11, <1>12,
     <1>13, <1>14, <1>15, <1>16, <1>17, <1>18 DEF Next

\* The key a committed row stores opens the server, and a server that accepts
\* the head has a row that knows a key, unless a pass was cut around the first
\* key or a row with a key was deleted.
THEOREM HeadCanGetIn == Spec => []WayIn
<1>1. Init => TypeInv /\ KeyInv
  BY TypeInit, KeyInit
<1>2. TypeInv /\ KeyInv /\ [Next]_vars => TypeInv' /\ KeyInv'
  BY TypeStep, KeyStep
<1>3. KeyInv => WayIn
  BY DEF KeyInv, KeyOpens, KeyKnown, WayIn
<1>4. QED
  BY <1>1, <1>2, <1>3, PTL DEF Spec
=============================================================================
