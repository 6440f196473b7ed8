--------------------------- MODULE XrayUpdatesProofs ---------------------------
(***************************************************************************)
(* What XrayUpdates guarantees for every fleet, every number of rows and    *)
(* releases, and every number of passes cut short.                          *)
(***************************************************************************)
EXTENDS XrayUpdates, TLAPS

-----------------------------------------------------------------------------
(* The table.                                                              *)

\* A row that exists is a record, and a record is not None.
LEMMA RowExists ==
    ASSUME TypeOK, NEW i \in Id
    PROVE  row[i] # None <=> row[i] \in Row
  BY UpdateNoneAssumption DEF TypeOK

\* Members of With.
LEMMA WithMember ==
    ASSUME TypeOK, NEW s, NEW i \in With(s)
    PROVE  i \in Id /\ row[i] \in Row /\ row[i].status = s
  BY RowExists DEF With

\* The rows in S leave the queue: what remains is typed, keeps everything but
\* `after`, and nobody waits for S.
LEMMA WithoutRows ==
    ASSUME NEW t \in [Id -> Row \cup {None}], NEW S \in SUBSET Id
    PROVE  /\ Without(t, S) \in [Id -> Row \cup {None}]
           /\ \A i \in Id :
                IF t[i] = None THEN Without(t, S)[i] = None
                ELSE /\ Without(t, S)[i] \in Row
                     /\ Without(t, S)[i].after = t[i].after \ S
                     /\ Without(t, S)[i].status = t[i].status
                     /\ Without(t, S)[i].notified = t[i].notified
                     /\ Without(t, S)[i].fresh = t[i].fresh
<1>1. ASSUME NEW i \in Id, t[i] # None
      PROVE  /\ [t[i] EXCEPT !.after = @ \ S] \in Row
             /\ [t[i] EXCEPT !.after = @ \ S].after = t[i].after \ S
             /\ [t[i] EXCEPT !.after = @ \ S].status = t[i].status
             /\ [t[i] EXCEPT !.after = @ \ S].notified = t[i].notified
             /\ [t[i] EXCEPT !.after = @ \ S].fresh = t[i].fresh
  BY <1>1 DEF Row
<1>2. QED
  BY <1>1 DEF Without

\* Rows that leave take nothing of the others but their place in the queue.
LEMMA WithoutSame ==
    ASSUME NEW t \in [Id -> Row \cup {None}], NEW S \in SUBSET Id, NEW i \in Id,
           Without(t, S)[i] # None
    PROVE  /\ t[i] # None
           /\ Without(t, S)[i].node = t[i].node
           /\ Without(t, S)[i].target = t[i].target
           /\ Without(t, S)[i].fresh = t[i].fresh
<1>1. t[i] # None /\ Without(t, S)[i] = [t[i] EXCEPT !.after = @ \ S]
  BY DEF Without
<1>2. t[i] \in Row
  BY <1>1
<1>3. QED
  BY <1>1, <1>2 DEF Row

\* The queue part of the type invariant.
QueueOK ==
    /\ job.pc # "idle" => job.id \in With("approved")
    /\ \A i \in Id : row[i] # None => row[i].after \subseteq With("approved")

\* A step that leaves the job alone keeps the queue, if the rows that leave
\* `approved` are not the job's and nobody waits for them.
LEMMA QueueKept ==
    ASSUME TypeOK, UNCHANGED job,
           row' \in [Id -> Row \cup {None}],
           job.pc # "idle" => row'[job.id] # None /\ row'[job.id].status = "approved",
           \A i \in Id : row'[i] # None => row'[i].after \subseteq With("approved")'
    PROVE  QueueOK'
  BY DEF TypeOK, QueueOK, With

\* A step that changes neither the table nor the job keeps the queue.
LEMMA SameRows ==
    ASSUME TypeOK, UNCHANGED <<row, job>>
    PROVE  row' \in [Id -> Row \cup {None}] /\ QueueOK'
  BY DEF TypeOK, QueueOK, With

-----------------------------------------------------------------------------
(* Type correctness.                                                       *)

\* The result whose delivery is being acknowledged is gone, or a result still,
\* unless a decision that had read the row before moved it again: then its
\* cooldown has not run out.
ToldOK == bot.pc = "told" =>
            \A i \in bot.sent : row[i] = None \/ i \in Finished \/ row[i].fresh

\* A row somebody is deciding about has only just finished, if it has.
DeskOK == \A d \in Decider : \A i \in desk[d].rows : i \in Finished => row[i].fresh

TypeInv == TypeOK /\ ToldOK /\ DeskOK

LEMMA TypeInit == Init => TypeInv
  BY BoundAssumption
     DEF Init, TypeInv, TypeOK, ToldOK, DeskOK, Version, Quiet, Empty, Free, Asleep,
         With

\* Rows are dropped: CooldownEnds, TellAcked, NodeDeleted.
LEMMA DroppedTypes ==
    ASSUME TypeOK, NEW S \in SUBSET Id, Dropped(S), UNCHANGED job,
           job.pc # "idle" => job.id \notin S
    PROVE  /\ row' \in [Id -> Row \cup {None}]
           /\ restarts' \in [Id -> Nat] /\ cut' \in [Id -> 0..MaxCuts]
           /\ chat' \in [asked : SUBSET Id, button : SUBSET Version]
           /\ QueueOK'
           /\ \A i \in Id : IF i \in S \/ row[i] = None THEN row'[i] = None
                           ELSE /\ row'[i] # None /\ row'[i].status = row[i].status
                                /\ row'[i].notified = row[i].notified
                                /\ row'[i].fresh = row[i].fresh
<1> DEFINE t == [i \in Id |-> IF i \in S THEN None ELSE row[i]]
<1>1. t \in [Id -> Row \cup {None}]
  BY DEF TypeOK
<1>2. row' = Without(t, S)
  BY DEF Dropped
<1>3. row' \in [Id -> Row \cup {None}]
  BY <1>1, <1>2, WithoutRows
<1>4. restarts' \in [Id -> Nat] /\ cut' \in [Id -> 0..MaxCuts]
  BY BoundAssumption DEF Dropped, TypeOK
<1>5. chat' \in [asked : SUBSET Id, button : SUBSET Version]
  BY DEF Dropped, TypeOK
<1>6. \A i \in Id : i \notin S /\ row[i] # None
                    => /\ row'[i] # None /\ row'[i].status = row[i].status
                       /\ row'[i].after = row[i].after \ S
                       /\ row'[i].notified = row[i].notified
                       /\ row'[i].fresh = row[i].fresh
  BY <1>1, <1>2, WithoutRows, UpdateNoneAssumption
<1>7. \A i \in Id : row'[i] # None => i \notin S /\ row[i] # None
  BY <1>1, <1>2, WithoutRows
<1>8. With("approved") \ S \subseteq With("approved")'
  BY <1>6 DEF With
<1>9. \A i \in Id : row'[i] # None => row'[i].after \subseteq With("approved")'
  BY <1>6, <1>7, <1>8 DEF TypeOK
<1>10. job.pc # "idle" => row'[job.id] # None /\ row'[job.id].status = "approved"
  BY <1>6 DEF TypeOK, With
<1>11. QueueOK'
  BY <1>3, <1>9, <1>10, QueueKept
<1>12. QED
  BY <1>3, <1>4, <1>5, <1>6, <1>7, <1>11

\* A decision is written: its rows get the verdict and a place in the queue, the
\* others lose what was before them of its rows.
LEMMA DecidedTypes ==
    ASSUME TypeOK, NEW S \in SUBSET Id, NEW verdict \in {"approved", "declined"},
           NEW ahead \in Orders(S), \A i \in S : row[i] # None,
           row' = Decided(S, verdict, ahead), UNCHANGED job,
           job.pc # "idle" => job.id \notin S
    PROVE  /\ row' \in [Id -> Row \cup {None}]
           /\ QueueOK'
           /\ \A i \in Id :
                IF row[i] = None THEN row'[i] = None
                ELSE /\ row'[i] # None
                     /\ row'[i].status = IF i \in S THEN verdict ELSE row[i].status
                     /\ row'[i].notified = row[i].notified
                     /\ row'[i].fresh = row[i].fresh
                     /\ row'[i].node = row[i].node /\ row'[i].target = row[i].target
<1> DEFINE behind(i) == IF verdict = "approved" THEN (With("approved") \ S) \cup ahead[i]
                        ELSE {}
           new(i) == [row[i] EXCEPT !.status = verdict, !.after = behind(i)]
           old(i) == Without(row, S)[i]
<1>1. \A i \in Id : row'[i] = IF i \in S THEN new(i) ELSE old(i)
  BY DEF Decided
<1>2. ASSUME NEW i \in S
      PROVE  /\ new(i) \in Row /\ new(i).notified = row[i].notified
             /\ new(i).fresh = row[i].fresh
             /\ new(i).node = row[i].node /\ new(i).target = row[i].target
             /\ new(i).status = verdict /\ new(i).after = behind(i)
  <2>1. row[i] \in Row
    BY <1>2, RowExists
  <2>2. behind(i) \in SUBSET Id
    BY <1>2 DEF With, Orders
  <2> HIDE DEF behind
  <2>3. QED
    BY <2>1, <2>2 DEF Row
<1>3. row \in [Id -> Row \cup {None}]
  BY DEF TypeOK
<1>4. ASSUME NEW i \in Id \ S
      PROVE  IF row[i] = None THEN old(i) = None
             ELSE /\ old(i) \in Row /\ old(i).after = row[i].after \ S
                  /\ old(i).status = row[i].status /\ old(i).notified = row[i].notified
                  /\ old(i).fresh = row[i].fresh
                  /\ old(i).node = row[i].node /\ old(i).target = row[i].target
  <2>1. row[i] # None => old(i) # None
    BY <1>3, WithoutRows, UpdateNoneAssumption
  <2>2. QED
    BY <1>3, <2>1, WithoutRows, WithoutSame
<1> HIDE DEF new, old
<1>5. row' \in [Id -> Row \cup {None}]
  <2>1. ASSUME NEW i \in Id PROVE row'[i] \in Row \cup {None}
    <3>1. CASE i \in S
      BY <1>1, <1>2, <3>1
    <3>2. CASE i \notin S
      <4>1. row'[i] = old(i)
        BY <1>1, <3>2
      <4>2. row[i] = None => old(i) = None
        BY <1>4, <3>2
      <4>3. row[i] # None => old(i) \in Row
        BY <1>4, <3>2
      <4>4. QED
        BY <4>1, <4>2, <4>3
    <3>3. QED
      BY <3>1, <3>2
  <2>2. row' = [i \in Id |-> row'[i]]
    BY DEF Decided
  <2>3. QED
    BY <2>1, <2>2
<1>6. /\ With("approved") \ S \subseteq With("approved")'
      /\ verdict = "approved" => S \subseteq With("approved")'
  <2>1. \A i \in With("approved") \ S : row'[i] \in Row /\ row'[i].status = "approved"
    BY <1>1, <1>4 DEF With
  <2>2. verdict = "approved"
        => \A i \in S : row'[i] \in Row /\ row'[i].status = "approved"
    BY <1>1, <1>2
  <2>3. QED
    BY <2>1, <2>2, UpdateNoneAssumption DEF With
<1>7. ASSUME NEW i \in Id, row'[i] # None
      PROVE  row'[i].after \subseteq With("approved")'
  <2>1. CASE i \in S
    <3>1. row'[i].after = behind(i)
      BY <1>1, <1>2, <2>1
    <3>2. ahead[i] \subseteq S
      BY <2>1 DEF Orders
    <3>3. QED
      BY <3>1, <3>2, <1>6
  <2>2. CASE i \notin S
    <3>1. row[i] # None /\ row'[i].after = row[i].after \ S
      BY <1>1, <1>4, <1>7, <2>2
    <3>2. row[i].after \subseteq With("approved")
      BY <3>1 DEF TypeOK
    <3>3. QED
      BY <3>1, <3>2, <1>6
  <2>3. QED
    BY <2>1, <2>2
<1> HIDE DEF behind
<1>8. \A i \in Id :
        IF row[i] = None THEN row'[i] = None
        ELSE /\ row'[i] # None
             /\ row'[i].status = IF i \in S THEN verdict ELSE row[i].status
             /\ row'[i].notified = row[i].notified
             /\ row'[i].fresh = row[i].fresh
             /\ row'[i].node = row[i].node /\ row'[i].target = row[i].target
  BY <1>1, <1>2, <1>4, UpdateNoneAssumption
<1>9. job.pc # "idle" => row'[job.id] # None /\ row'[job.id].status = "approved"
  BY <1>8 DEF TypeOK, With
<1>10. QueueOK'
  BY <1>5, <1>7, <1>9, QueueKept
<1>11. QED
  BY <1>5, <1>8, <1>10

\* What DecisionWritten does to the table: nothing, or the decision.
LEMMA WrittenTypes ==
    ASSUME TypeOK, NEW d \in Decider, DecisionWritten(d)
    PROVE  /\ row' \in [Id -> Row \cup {None}]
           /\ QueueOK'
           /\ \/ UNCHANGED row
              \/ \A i \in Id :
                   IF row[i] = None THEN row'[i] = None /\ i \notin desk[d].rows
                   ELSE /\ row'[i] # None
                        /\ row'[i].status = IF i \in desk[d].rows THEN desk[d].verdict
                                            ELSE row[i].status
                        /\ row'[i].notified = row[i].notified
                        /\ row'[i].fresh = row[i].fresh
                        /\ row'[i].node = row[i].node /\ row'[i].target = row[i].target
<1> DEFINE S == desk[d].rows
           verdict == desk[d].verdict
<1>1. S \in SUBSET Id /\ verdict \in {"approved", "declined"}
  BY DEF TypeOK
<1>2. UNCHANGED job /\ job.id \notin S
  BY DEF DecisionWritten
<1>3. PICK ahead \in Orders(S) :
        row' = IF \E i \in S : row[i] = None THEN row ELSE Decided(S, verdict, ahead)
  BY DEF DecisionWritten
<1> HIDE DEF S, verdict
<1>4. CASE \E i \in S : row[i] = None
  BY <1>2, <1>3, <1>4, SameRows
<1>5. CASE \A i \in S : row[i] # None
  <2>1. row' = Decided(S, verdict, ahead)
    BY <1>3, <1>5
  <2>2. /\ row' \in [Id -> Row \cup {None}]
        /\ QueueOK'
        /\ \A i \in Id :
             IF row[i] = None THEN row'[i] = None
             ELSE /\ row'[i] # None
                  /\ row'[i].status = IF i \in S THEN verdict ELSE row[i].status
                  /\ row'[i].notified = row[i].notified
                  /\ row'[i].fresh = row[i].fresh
                  /\ row'[i].node = row[i].node /\ row'[i].target = row[i].target
    BY <1>1, <1>2, <1>5, <2>1, DecidedTypes
  <2>3. QED
    BY <1>5, <2>2 DEF S, verdict
<1>6. QED
  BY <1>4, <1>5

\* The rows the check pass inserts take the place of none.
LEMMA CommitTypes ==
    ASSUME TypeOK, NEW c \in Checker, CheckCommit(c)
    PROVE  /\ row' \in [Id -> Row \cup {None}]
           /\ QueueOK'
           /\ \A i \in Id : \/ row'[i] = row[i]
                           \/ /\ row[i] = None /\ i \notin bot.sent
                              /\ row'[i] # None /\ row'[i].status = "pending"
                              /\ row'[i].notified = FALSE
<1>1. CASE UNCHANGED row
  BY <1>1 DEF CheckCommit, TypeOK, QueueOK, With
<1>2. CASE \E id \in [check[c].raised -> Unused] :
             row' = [i \in Id |->
                       IF \E n \in check[c].raised : id[n] = i
                       THEN Proposed(CHOOSE n \in check[c].raised : id[n] = i,
                                     check[c].target)
                       ELSE row[i]]
  <2>1. PICK id \in [check[c].raised -> Unused] :
             row' = [i \in Id |->
                       IF \E n \in check[c].raised : id[n] = i
                       THEN Proposed(CHOOSE n \in check[c].raised : id[n] = i,
                                     check[c].target)
                       ELSE row[i]]
    BY <1>2
  <2>2. ASSUME NEW i \in Id
        PROVE  \/ row'[i] = row[i]
               \/ /\ i \in Unused
                  /\ \E n \in Node : row'[i] = Proposed(n, check[c].target)
    <3>1. CASE \E n \in check[c].raised : id[n] = i
      <4> DEFINE m == CHOOSE n \in check[c].raised : id[n] = i
      <4>1. m \in check[c].raised /\ id[m] = i
        BY <3>1
      <4>2. m \in Node /\ i \in Unused
        BY <4>1 DEF TypeOK
      <4>3. row'[i] = Proposed(m, check[c].target)
        BY <2>1, <3>1
      <4>4. QED
        BY <4>2, <4>3
    <3>2. CASE ~\E n \in check[c].raised : id[n] = i
      BY <2>1, <3>2
    <3>3. QED
      BY <3>1, <3>2
  <2>3. ASSUME NEW n \in Node
        PROVE  /\ Proposed(n, check[c].target) \in Row
               /\ Proposed(n, check[c].target).status = "pending"
               /\ Proposed(n, check[c].target).after = {}
               /\ Proposed(n, check[c].target).notified = FALSE
    BY DEF Proposed, Row, TypeOK
  <2>4. \A i \in Id :
          \/ row'[i] = row[i]
          \/ /\ row[i] = None /\ i \notin bot.sent
             /\ row'[i] \in Row /\ row'[i] # None
             /\ row'[i].status = "pending" /\ row'[i].after = {}
             /\ row'[i].notified = FALSE
    <3>1. TAKE i \in Id
    <3>2. CASE i \in Unused /\ \E n \in Node : row'[i] = Proposed(n, check[c].target)
      <4>1. row[i] = None /\ i \notin bot.sent
        BY <3>2 DEF Unused
      <4>2. PICK n \in Node : row'[i] = Proposed(n, check[c].target)
        BY <3>2
      <4>3. /\ row'[i] \in Row /\ row'[i].status = "pending"
            /\ row'[i].after = {} /\ row'[i].notified = FALSE
        BY <4>2, <2>3, Zenon
      <4>4. QED
        BY <4>1, <4>3, UpdateNoneAssumption
    <3>3. QED
      BY <3>2, <2>2
  <2>5. row' \in [Id -> Row \cup {None}]
    BY <2>1, <2>4 DEF TypeOK
  <2>6. With("approved") \subseteq With("approved")'
    BY <2>4 DEF With
  <2>7. \A i \in Id : row'[i] # None => row'[i].after \subseteq With("approved")'
    BY <2>4, <2>6 DEF TypeOK
  <2>8. job.pc # "idle" => row'[job.id] # None /\ row'[job.id].status = "approved"
    BY <2>4 DEF TypeOK, With
  <2>9. UNCHANGED job
    BY DEF CheckCommit
  <2>10. QueueOK'
    BY <2>5, <2>7, <2>8, <2>9, QueueKept
  <2>11. QED
    BY <2>4, <2>5, <2>10
<1>3. QED
  BY <1>1, <1>2 DEF CheckCommit

\* The end of an apply pass: its row is final, and nobody waits for it.
LEMMA EndTypes ==
    ASSUME TypeOK, NEW outcome \in {"applied", "failed"}, JobEnds(outcome)
    PROVE  /\ row' \in [Id -> Row \cup {None}]
           /\ QueueOK'
           /\ job.id \in With("approved")
           /\ row'[job.id] # None /\ row'[job.id].status = outcome
           /\ row'[job.id].notified = row[job.id].notified
           /\ row'[job.id].fresh
           /\ \A i \in Id \ {job.id} :
                IF row[i] = None THEN row'[i] = None
                ELSE /\ row'[i] # None /\ row'[i].status = row[i].status
                     /\ row'[i].notified = row[i].notified
                     /\ row'[i].fresh = row[i].fresh
<1> DEFINE j == job.id
           final == [[row[j] EXCEPT !.status = outcome] EXCEPT !.fresh = TRUE]
           t == [row EXCEPT ![j].status = outcome, ![j].fresh = TRUE]
<1>1. j \in With("approved") /\ j \in Id /\ row[j] \in Row
  BY WithMember DEF JobEnds, TypeOK
<1>2. /\ final \in Row /\ final.status = outcome /\ final.after = row[j].after
      /\ final.notified = row[j].notified /\ final.fresh
  BY <1>1 DEF Row
<1>3. t = [row EXCEPT ![j] = final]
  BY <1>1 DEF TypeOK
<1>4. row' = Without(t, {j})
  BY DEF JobEnds, Written
<1> HIDE DEF final, t
<1>5. t \in [Id -> Row \cup {None}] /\ t[j] = final
      /\ \A i \in Id \ {j} : t[i] = row[i]
  BY <1>1, <1>2, <1>3 DEF TypeOK
<1>6. /\ row' \in [Id -> Row \cup {None}]
      /\ \A i \in Id :
           IF t[i] = None THEN row'[i] = None
           ELSE /\ row'[i] \in Row
                /\ row'[i].after = t[i].after \ {j}
                /\ row'[i].status = t[i].status
                /\ row'[i].notified = t[i].notified
                /\ row'[i].fresh = t[i].fresh
  BY <1>1, <1>4, <1>5, WithoutRows
<1>7. /\ row'[j] # None /\ row'[j].status = outcome
      /\ row'[j].notified = row[j].notified /\ row'[j].fresh
      /\ row'[j].after = row[j].after \ {j}
  BY <1>1, <1>2, <1>5, <1>6, UpdateNoneAssumption
<1>8. \A i \in Id \ {j} :
        IF row[i] = None THEN row'[i] = None
        ELSE /\ row'[i] # None /\ row'[i].status = row[i].status
             /\ row'[i].notified = row[i].notified /\ row'[i].fresh = row[i].fresh
             /\ row'[i].after = row[i].after \ {j}
  BY <1>5, <1>6, UpdateNoneAssumption
<1>9. With("approved") \ {j} \subseteq With("approved")'
  BY <1>8 DEF With
<1>10. \A i \in Id : row'[i] # None => row'[i].after \subseteq With("approved")'
  <2>1. ASSUME NEW i \in Id, row'[i] # None
        PROVE  row[i] # None /\ row'[i].after = row[i].after \ {j}
    BY <1>1, <1>7, <1>8, <2>1, UpdateNoneAssumption
  <2>2. \A i \in Id : row[i] # None => row[i].after \subseteq With("approved")
    BY DEF TypeOK
  <2>3. QED
    BY <1>9, <2>1, <2>2
<1>11. QueueOK'
  BY <1>10 DEF QueueOK, JobEnds, Free
<1>12. QED
  BY <1>1, <1>6, <1>7, <1>8, <1>11

\* What a stamp leaves of a row.
LEMMA Stamps ==
    ASSUME NEW r \in Row
    PROVE  /\ /\ [r EXCEPT !.notified = TRUE] \in Row
              /\ [r EXCEPT !.notified = TRUE].status = r.status
              /\ [r EXCEPT !.notified = TRUE].after = r.after
              /\ [r EXCEPT !.notified = TRUE].fresh = r.fresh
           /\ /\ [r EXCEPT !.fresh = FALSE] \in Row
              /\ [r EXCEPT !.fresh = FALSE].status = r.status
              /\ [r EXCEPT !.fresh = FALSE].after = r.after
              /\ [r EXCEPT !.fresh = FALSE].notified = r.notified
           /\ /\ [r EXCEPT !.reported = TRUE] \in Row
              /\ [r EXCEPT !.reported = TRUE].status = r.status
              /\ [r EXCEPT !.reported = TRUE].after = r.after
              /\ [r EXCEPT !.reported = TRUE].fresh = r.fresh
              /\ [r EXCEPT !.reported = TRUE].notified = r.notified
<1>1. /\ [r EXCEPT !.notified = TRUE] \in Row
      /\ [r EXCEPT !.notified = TRUE].status = r.status
      /\ [r EXCEPT !.notified = TRUE].after = r.after
      /\ [r EXCEPT !.notified = TRUE].fresh = r.fresh
  BY DEF Row
<1>2. /\ [r EXCEPT !.fresh = FALSE] \in Row
      /\ [r EXCEPT !.fresh = FALSE].status = r.status
      /\ [r EXCEPT !.fresh = FALSE].after = r.after
      /\ [r EXCEPT !.fresh = FALSE].notified = r.notified
  BY DEF Row
<1>3. /\ [r EXCEPT !.reported = TRUE] \in Row
      /\ [r EXCEPT !.reported = TRUE].status = r.status
      /\ [r EXCEPT !.reported = TRUE].after = r.after
      /\ [r EXCEPT !.reported = TRUE].fresh = r.fresh
      /\ [r EXCEPT !.reported = TRUE].notified = r.notified
  BY DEF Row
<1>4. QED
  BY <1>1, <1>2, <1>3

\* The acknowledgement of a question stamps rows and nothing else.
LEMMA AckTypes ==
    ASSUME TypeOK, AskAcked
    PROVE  /\ row' \in [Id -> Row \cup {None}]
           /\ QueueOK'
           /\ \A i \in Id :
                IF row[i] = None THEN row'[i] = None
                ELSE /\ row'[i] # None /\ row'[i].status = row[i].status
                     /\ row'[i].fresh = row[i].fresh
                     /\ i \notin bot.sent => row'[i] = row[i]
<1>1. ASSUME NEW i \in Id, row[i] # None
      PROVE  /\ row'[i] \in Row /\ row'[i] # None
             /\ row'[i].status = row[i].status
             /\ row'[i].after = row[i].after /\ row'[i].fresh = row[i].fresh
             /\ i \notin bot.sent => row'[i] = row[i]
  <2>1. row[i] \in Row
    BY <1>1, RowExists
  <2>2. row'[i] = IF i \in bot.sent THEN [row[i] EXCEPT !.notified = TRUE]
                  ELSE row[i]
    BY <1>1 DEF AskAcked
  <2>3. CASE i \in bot.sent
    <3>1. row'[i] = [row[i] EXCEPT !.notified = TRUE]
      BY <2>2, <2>3
    <3>2. /\ row'[i] \in Row /\ row'[i].status = row[i].status
          /\ row'[i].after = row[i].after /\ row'[i].fresh = row[i].fresh
      BY <2>1, <3>1, Stamps, Zenon
    <3>3. QED
      BY <2>3, <3>2, UpdateNoneAssumption
  <2>4. CASE i \notin bot.sent
    BY <1>1, <2>1, <2>2, <2>4
  <2>5. QED
    BY <2>3, <2>4
<1>2. \A i \in Id : row[i] = None => row'[i] = None
  BY DEF AskAcked
<1>3. row' \in [Id -> Row \cup {None}]
  BY <1>1, <1>2 DEF AskAcked
<1>4. With("approved") \subseteq With("approved")'
  BY <1>1 DEF With
<1>5. \A i \in Id : row'[i] # None => row'[i].after \subseteq With("approved")'
  BY <1>1, <1>2, <1>4 DEF TypeOK
<1>6. job.pc # "idle" => row'[job.id] # None /\ row'[job.id].status = "approved"
  BY <1>1 DEF TypeOK, With
<1>7. QueueOK'
  BY <1>3, <1>5, <1>6, QueueKept DEF AskAcked
<1>8. QED
  BY <1>1, <1>2, <1>3, <1>7

\* One row is stamped: the end of a cooldown, the report of a result.
LEMMA StampTypes ==
    ASSUME TypeOK, NEW i \in Id, row[i] # None, UNCHANGED job,
           \/ row' = [row EXCEPT ![i].fresh = FALSE]
           \/ row' = [row EXCEPT ![i].reported = TRUE]
    PROVE  /\ row' \in [Id -> Row \cup {None}]
           /\ QueueOK'
           /\ row'[i] # None /\ row'[i].status = row[i].status
           /\ row'[i].notified = row[i].notified
           /\ row' = [row EXCEPT ![i].reported = TRUE] => row'[i].fresh = row[i].fresh
           /\ \A j \in Id \ {i} : row'[j] = row[j]
<1>1. row[i] \in Row
  BY RowExists
<1>2. /\ row'[i] \in Row /\ row'[i] # None
      /\ row'[i].status = row[i].status
      /\ row'[i].after = row[i].after
      /\ row'[i].notified = row[i].notified
      /\ \A j \in Id \ {i} : row'[j] = row[j]
  <2>1. CASE row' = [row EXCEPT ![i].fresh = FALSE]
    <3>1. row'[i] = [row[i] EXCEPT !.fresh = FALSE]
          /\ \A j \in Id \ {i} : row'[j] = row[j]
      BY <2>1 DEF TypeOK
    <3>2. QED
      BY <1>1, <3>1, Stamps, UpdateNoneAssumption
  <2>2. CASE row' = [row EXCEPT ![i].reported = TRUE]
    <3>1. row'[i] = [row[i] EXCEPT !.reported = TRUE]
          /\ \A j \in Id \ {i} : row'[j] = row[j]
      BY <2>2 DEF TypeOK
    <3>2. QED
      BY <1>1, <3>1, Stamps, UpdateNoneAssumption
  <2>3. QED
    BY <2>1, <2>2
<1>9. row' = [row EXCEPT ![i].reported = TRUE] => row'[i].fresh = row[i].fresh
  <2>1. row' = [row EXCEPT ![i].reported = TRUE]
        => row'[i] = [row[i] EXCEPT !.reported = TRUE]
    BY DEF TypeOK
  <2>2. QED
    BY <1>1, <2>1, Stamps
<1>3. row' \in [Id -> Row \cup {None}]
  <2>1. row' = [row EXCEPT ![i] = row'[i]]
    BY <1>2 DEF TypeOK
  <2>2. QED
    BY <1>2, <2>1 DEF TypeOK
<1>4. With("approved") \subseteq With("approved")'
  BY <1>2 DEF With
<1>5. \A j \in Id : row'[j] # None => row'[j].after \subseteq With("approved")'
  BY <1>2, <1>4 DEF TypeOK
<1>6. job.pc # "idle" => row'[job.id] # None /\ row'[job.id].status = "approved"
  BY <1>2 DEF TypeOK, With
<1>7. QueueOK'
  BY <1>3, <1>5, <1>6, QueueKept
<1>8. QED
  BY <1>2, <1>3, <1>7, <1>9

\* A tap and a click in the panel read rows, and no more.
LEMMA DecidersRead ==
    ASSUME NEW d \in Decider, NEW verdict \in {"approved", "declined"},
           \/ \E S \in SUBSET Id : PanelDecides(d, S, verdict)
           \/ \E v \in Version : Tap(d, v, verdict)
    PROVE  \E S \in SUBSET Id : Reads(d, S, verdict)
<1>1. CASE \E S \in SUBSET Id : PanelDecides(d, S, verdict)
  BY <1>1 DEF PanelDecides
<1>2. ASSUME NEW v \in Version, Tap(d, v, verdict)
      PROVE  \E S \in SUBSET Id : Reads(d, S, verdict)
  <2> DEFINE S == {i \in Id : row[i] # None /\ row[i].target = v}
  <2>1. S \in SUBSET Id /\ Reads(d, S, verdict)
    BY <1>2 DEF Tap
  <2> HIDE DEF S
  <2>2. QED
    BY <2>1
<1>3. QED
  BY <1>1, <1>2

LEMMA TypeStep == TypeInv /\ [Next]_vars => TypeOK'
<1> SUFFICES ASSUME TypeOK, ToldOK, DeskOK, [Next]_vars PROVE TypeOK'
  BY DEF TypeInv
<1> USE UpdateNoneAssumption, BoundAssumption
<1>1. CASE Released \/ ImageCatchesUp
  <2>1. UNCHANGED <<row, job>> /\ upstream' \in [release : Version, image : Version]
    BY <1>1 DEF Released, ImageCatchesUp, TypeOK, Version
  <2>2. QED
    BY <1>1, <2>1, SameRows DEF Released, ImageCatchesUp, TypeOK, QueueOK
<1>2. ASSUME NEW i \in Id, CooldownEnds(i) PROVE TypeOK'
  <2>1. i \in Id /\ row[i] # None /\ row[i].status # "approved"
    BY <1>2 DEF CooldownEnds, Finished, With
  <2>2. job.pc # "idle" => job.id # i
    BY <2>1 DEF TypeOK, With
  <2>3. CASE Dropped({i})
    BY <1>2, <2>2, <2>3, DroppedTypes DEF CooldownEnds, TypeOK, QueueOK
  <2>4. CASE row' = [row EXCEPT ![i].fresh = FALSE] /\ UNCHANGED <<restarts, cut, chat>>
    BY <1>2, <2>1, <2>4, StampTypes DEF CooldownEnds, TypeOK, QueueOK
  <2>5. QED
    BY <1>2, <2>3, <2>4 DEF CooldownEnds
<1>3. ASSUME NEW c \in Checker, CheckLooks(c) PROVE TypeOK'
  <2>1. UNCHANGED <<row, job>>
    BY <1>3 DEF CheckLooks
  <2>2. \A v \in 1..upstream.release : v \in Version
    BY DEF TypeOK, Version
  <2>3. check' \in [Checker -> [pc : {"idle", "asking"}, target : Version,
                                raised : SUBSET Node]]
    <3>1. PICK v \in 1..upstream.release :
                 \E S \in (SUBSET {n \in Node : Behind(n, v)}) \ {{}} :
                   check' = [check EXCEPT ![c] = [pc |-> "asking", target |-> v,
                                                  raised |-> S]]
      BY <1>3 DEF CheckLooks
    <3>2. PICK S \in SUBSET Node :
                 check' = [check EXCEPT ![c] = [pc |-> "asking", target |-> v,
                                                raised |-> S]]
      BY <3>1
    <3>3. QED
      BY <2>2, <3>2 DEF TypeOK
  <2>4. QED
    BY <1>3, <2>1, <2>3, SameRows DEF CheckLooks, TypeOK, QueueOK
<1>4. ASSUME NEW c \in Checker, CheckCommit(c) PROVE TypeOK'
  <2>1. check' \in [Checker -> [pc : {"idle", "asking"}, target : Version,
                                raised : SUBSET Node]]
    BY <1>4 DEF CheckCommit, Quiet, Version, TypeOK
  <2>2. QED
    BY <1>4, <2>1, CommitTypes DEF CheckCommit, TypeOK, QueueOK
<1>5. ASSUME NEW d \in Decider, NEW S \in SUBSET Id,
             NEW verdict \in {"approved", "declined"}, Reads(d, S, verdict)
      PROVE  TypeOK'
  <2>1. UNCHANGED <<row, job>>
    BY <1>5 DEF Reads
  <2>2. desk' \in [Decider -> [rows : SUBSET Id, verdict : {"approved", "declined"}]]
    <3>1. ReadPending(S) \in SUBSET Id
      BY DEF ReadPending
    <3>2. QED
      BY <1>5, <3>1 DEF Reads, TypeOK
  <2>3. QED
    BY <1>5, <2>1, <2>2, SameRows DEF Reads, TypeOK, QueueOK
<1>6. ASSUME NEW d \in Decider, DecisionWritten(d) PROVE TypeOK'
  <2>1. desk' \in [Decider -> [rows : SUBSET Id, verdict : {"approved", "declined"}]]
    BY <1>6 DEF DecisionWritten, Empty, TypeOK
  <2>2. row' \in [Id -> Row \cup {None}] /\ QueueOK'
    BY <1>6, WrittenTypes
  <2>3. QED
    BY <1>6, <2>1, <2>2 DEF DecisionWritten, TypeOK, QueueOK
<1>7. ASSUME NEW i \in Id, JobTakes(i) PROVE TypeOK'
  BY <1>7 DEF JobTakes, TypeOK, With
<1>8. CASE Restart
  <2>1. job.id \in Id /\ row[job.id] \in Row
    BY <1>8, WithMember DEF Restart, TypeOK
  <2>2. job' \in [pc : {"idle", "running", "restarted"}, id : Id \cup {None}]
        /\ job'.id = job.id
    BY <1>8 DEF Restart, TypeOK
  <2>3. core' \in [Node -> Version \cup {None}]
    BY <1>8, <2>1 DEF Restart, TypeOK, Row
  <2>4. restarts' \in [Id -> Nat]
    BY <1>8, <2>1 DEF Restart, TypeOK
  <2>5. QED
    BY <1>8, <2>2, <2>3, <2>4 DEF Restart, TypeOK, With
<1>9. ASSUME NEW outcome \in {"applied", "failed"}, JobEnds(outcome) PROVE TypeOK'
  <2>1. row' \in [Id -> Row \cup {None}] /\ QueueOK'
    BY <1>9, EndTypes
  <2>2. /\ job' \in [pc : {"idle", "running", "restarted"}, id : Id \cup {None}]
        /\ restarts' \in [Id -> Nat] /\ cut' \in [Id -> 0..MaxCuts]
    <3>1. job.id \in Id
      BY <1>9, WithMember DEF JobEnds, TypeOK
    <3>2. cut' \in [Id -> 0..MaxCuts]
      BY <1>9, <3>1 DEF JobEnds, TypeOK
    <3>3. restarts' \in [Id -> Nat]
      BY <1>9, <3>1 DEF JobEnds, TypeOK
    <3>4. QED
      BY <1>9, <3>2, <3>3 DEF JobEnds, Free
  <2>3. QED
    BY <1>9, <2>1, <2>2 DEF JobEnds, TypeOK, QueueOK
<1>10. CASE JobIsCut \/ SecretFails
  <2>1. cut' \in [Id -> 0..MaxCuts]
    BY <1>10 DEF JobIsCut, SecretFails, TypeOK, With
  <2>2. QED
    BY <1>10, <2>1 DEF JobIsCut, SecretFails, Free, TypeOK, With
<1>11. CASE Poll \/ AckLost
  <2>1. CASE BotAsks \/ BotTells \/ BotSleeps \/ AckLost
    <3>1. UNCHANGED <<row, job>>
      BY <2>1 DEF BotAsks, BotTells, BotSleeps, AckLost
    <3>2. bot' \in [pc : {"idle", "asking", "asked", "telling", "told"},
                    left : SUBSET Id, sent : SUBSET Id]
      <4>1. ToAsk \in SUBSET Id
        BY DEF ToAsk, With
      <4>2. CASE BotAsks
        BY <4>1, <4>2 DEF BotAsks, TypeOK
      <4>3. CASE BotTells \/ BotSleeps \/ AckLost
        BY <4>3 DEF BotTells, BotSleeps, AckLost, Asleep
      <4>4. QED
        BY <2>1, <4>2, <4>3
    <3>3. QED
      BY <2>1, <3>1, <3>2, SameRows
         DEF BotAsks, BotTells, BotSleeps, AckLost, TypeOK, QueueOK
  <2>2. CASE AskAcked
    <3>1. bot' \in [pc : {"idle", "asking", "asked", "telling", "told"},
                    left : SUBSET Id, sent : SUBSET Id]
      BY <2>2 DEF AskAcked, TypeOK
    <3>2. QED
      BY <2>2, <3>1, AckTypes DEF AskAcked, TypeOK, QueueOK
  <2>3. CASE TellAcked
    <3>1. bot' \in [pc : {"idle", "asking", "asked", "telling", "told"},
                    left : SUBSET Id, sent : SUBSET Id]
      BY <2>3 DEF TellAcked, TypeOK
    <3>2. PICK i \in bot.sent :
                 IF row[i] # None /\ row[i].fresh
                 THEN /\ row' = [row EXCEPT ![i].reported = TRUE]
                      /\ UNCHANGED <<restarts, cut, chat>>
                 ELSE Dropped({i})
      BY <2>3 DEF TellAcked
    <3>3. i \in Id
      BY <3>2 DEF TypeOK
    <3>4. CASE row[i] # None /\ row[i].fresh
      <4>1. row' \in [Id -> Row \cup {None}] /\ QueueOK'
        BY <2>3, <3>2, <3>3, <3>4, StampTypes DEF TellAcked
      <4>2. QED
        BY <2>3, <3>1, <3>2, <3>4, <4>1 DEF TellAcked, TypeOK, QueueOK
    <3>5. CASE ~(row[i] # None /\ row[i].fresh)
      <4>1. Dropped({i}) /\ UNCHANGED job
        BY <2>3, <3>2, <3>5 DEF TellAcked
      <4>2. row[i] = None \/ i \in Finished
        BY <2>3, <3>2, <3>5 DEF TellAcked, ToldOK
      <4>3. job.pc # "idle" => job.id # i
        BY <4>2 DEF TypeOK, Finished, With
      <4>4. QED
        BY <2>3, <3>1, <3>3, <4>1, <4>3, DroppedTypes DEF TellAcked, TypeOK, QueueOK
    <3>6. QED
      BY <3>4, <3>5
  <2>4. ASSUME NEW v \in Version, AskSent(v) \/ AskFails(v) PROVE TypeOK'
    <3>1. Message(v) \in SUBSET Id
      BY DEF Message, TypeOK
    <3>2. UNCHANGED <<row, job>>
      BY <2>4 DEF AskSent, AskFails
    <3>3. bot' \in [pc : {"idle", "asking", "asked", "telling", "told"},
                    left : SUBSET Id, sent : SUBSET Id]
      BY <2>4, <3>1 DEF AskSent, AskFails, PassedOver, TypeOK
    <3>4. chat' \in [asked : SUBSET Id, button : SUBSET Version]
      BY <2>4, <3>1 DEF AskSent, AskFails, TypeOK
    <3>5. QED
      BY <2>4, <3>2, <3>3, <3>4, SameRows DEF AskSent, AskFails, TypeOK, QueueOK
  <2>5. ASSUME NEW i \in Id, TellSent(i) PROVE TypeOK'
    <3>1. UNCHANGED <<row, job>>
      BY <2>5 DEF TellSent
    <3>2. bot' \in [pc : {"idle", "asking", "asked", "telling", "told"},
                    left : SUBSET Id, sent : SUBSET Id]
      BY <2>5 DEF TellSent, TypeOK
    <3>3. QED
      BY <2>5, <3>1, <3>2, SameRows DEF TellSent, TypeOK, QueueOK
  <2>6. QED
    BY <1>11, <2>1, <2>2, <2>3, <2>4, <2>5 DEF Poll
<1>12. ASSUME NEW n \in Node, NodeDeleted(n) PROVE TypeOK'
  <2> DEFINE S == {i \in Id : row[i] # None /\ row[i].node = n}
  <2>1. /\ S \in SUBSET Id /\ Dropped(S) /\ UNCHANGED job
        /\ job.pc # "idle" => job.id \notin S
    BY <1>12 DEF NodeDeleted
  <2> HIDE DEF S
  <2>2. core' \in [Node -> Version \cup {None}]
    BY <1>12 DEF NodeDeleted, TypeOK
  <2>3. QED
    BY <1>12, <2>1, <2>2, DroppedTypes DEF NodeDeleted, TypeOK, QueueOK
<1>13. CASE UNCHANGED vars
  BY <1>13, SameRows DEF vars, TypeOK, QueueOK
<1>14. QED
  BY <1>1, <1>2, <1>3, <1>4, <1>5, <1>6, <1>7, <1>8, <1>9, <1>10, <1>11, <1>12,
     <1>13, DecidersRead DEF Next, Work

\* What every step does to a row: it appears as a pending row, under an id no
\* message refers to; it goes; it keeps its status; a decision that has read it
\* is written; the approved one of the job ends.  A cooldown ends only for a
\* finished row that nobody is told about and nobody decides about.
Fate(i) ==
    \/ /\ row[i] = None /\ row'[i] = None
    \/ /\ row[i] = None /\ i \notin bot.sent
       /\ row'[i] # None /\ row'[i].status = "pending" /\ row'[i].notified = FALSE
    \/ /\ row[i] # None /\ row'[i] = None
    \/ /\ row[i] # None /\ row'[i] # None
       /\ \/ /\ row'[i].status = row[i].status
             /\ row'[i].fresh = row[i].fresh \/ i \notin bot.sent \cup OnDesk
          \/ /\ \E d \in Decider : i \in desk[d].rows /\ desk'[d] = Empty
             /\ row'[i].status \in {"approved", "declined"}
             /\ row'[i].fresh = row[i].fresh
          \/ /\ row[i].status = "approved" /\ row'[i].status \in {"applied", "failed"}
             /\ row'[i].fresh
       /\ \/ row'[i].notified = row[i].notified
          \/ bot.pc = "asked" /\ i \in bot.sent

LEMMA Fates == TypeInv /\ [Next]_vars => \A i \in Id : Fate(i)
<1> SUFFICES ASSUME TypeOK, ToldOK, [Next]_vars PROVE \A i \in Id : Fate(i)
  BY DEF TypeInv
<1>1. ASSUME UNCHANGED row PROVE \A i \in Id : Fate(i)
  BY <1>1 DEF Fate
<1>2. ASSUME NEW S \in SUBSET Id, Dropped(S), UNCHANGED job,
             job.pc # "idle" => job.id \notin S
      PROVE  \A i \in Id : Fate(i)
  BY <1>2, DroppedTypes DEF Fate
<1>3. ASSUME NEW d \in Decider, DecisionWritten(d)
      PROVE  \A i \in Id : Fate(i)
  <2>1. desk'[d] = Empty /\ desk[d].verdict \in {"approved", "declined"}
    BY <1>3 DEF DecisionWritten, TypeOK
  <2>2. QED
    BY <1>1, <1>3, <2>1, WrittenTypes DEF Fate
<1>4. ASSUME NEW i \in Id, CooldownEnds(i) PROVE \A j \in Id : Fate(j)
  <2>1. row[i] # None /\ row[i].status # "approved" /\ UNCHANGED job
        /\ i \notin bot.sent \cup OnDesk
    BY <1>4 DEF CooldownEnds, Finished, With
  <2>2. job.pc # "idle" => job.id # i
    BY <2>1 DEF TypeOK, With
  <2>3. CASE Dropped({i})
    BY <1>2, <2>1, <2>2, <2>3
  <2>4. CASE row' = [row EXCEPT ![i].fresh = FALSE]
    BY <2>1, <2>4, StampTypes DEF Fate
  <2>5. QED
    BY <1>4, <2>3, <2>4 DEF CooldownEnds
<1>5. ASSUME NEW c \in Checker, CheckCommit(c) PROVE \A i \in Id : Fate(i)
  BY <1>5, CommitTypes DEF Fate
<1>6. ASSUME NEW outcome \in {"applied", "failed"}, JobEnds(outcome)
      PROVE  \A i \in Id : Fate(i)
  <2>1. row[job.id] # None /\ row[job.id].status = "approved"
    BY <1>6 DEF JobEnds, TypeOK, With
  <2>2. QED
    BY <1>6, <2>1, EndTypes DEF Fate
<1>7. CASE AskAcked
  BY <1>7, AckTypes DEF Fate, AskAcked
<1>8. CASE TellAcked
  <2>1. PICK i \in bot.sent :
               IF row[i] # None /\ row[i].fresh
               THEN row' = [row EXCEPT ![i].reported = TRUE]
               ELSE Dropped({i})
    BY <1>8 DEF TellAcked
  <2>2. i \in Id /\ UNCHANGED job
    BY <1>8, <2>1 DEF TypeOK, TellAcked
  <2>3. CASE row[i] # None /\ row[i].fresh
    BY <2>1, <2>2, <2>3, StampTypes DEF Fate
  <2>4. CASE ~(row[i] # None /\ row[i].fresh)
    <3>1. row[i] = None \/ i \in Finished
      BY <1>8, <2>1, <2>4 DEF TellAcked, ToldOK
    <3>2. job.pc # "idle" => job.id # i
      BY <3>1 DEF TypeOK, Finished, With
    <3>3. QED
      BY <1>2, <2>1, <2>2, <2>4, <3>2
  <2>5. QED
    BY <2>3, <2>4
<1>9. ASSUME NEW n \in Node, NodeDeleted(n) PROVE \A i \in Id : Fate(i)
  <2> DEFINE S == {i \in Id : row[i] # None /\ row[i].node = n}
  <2>1. /\ S \in SUBSET Id /\ Dropped(S) /\ UNCHANGED job
        /\ job.pc # "idle" => job.id \notin S
    BY <1>9 DEF NodeDeleted
  <2> HIDE DEF S
  <2>2. QED
    BY <1>2, <2>1
<1>10. CASE Released \/ ImageCatchesUp \/ Restart \/ SecretFails \/ JobIsCut
            \/ AckLost \/ UNCHANGED vars
            \/ BotAsks \/ BotTells \/ BotSleeps
            \/ (\E c \in Checker : CheckLooks(c))
            \/ (\E i \in Id : JobTakes(i) \/ TellSent(i))
            \/ (\E v \in Version : AskSent(v) \/ AskFails(v))
            \/ (\E d \in Decider, S \in SUBSET Id, verdict \in {"approved", "declined"} :
                  Reads(d, S, verdict))
  BY <1>1, <1>10 DEF Released, ImageCatchesUp, CheckLooks, Restart, SecretFails,
     JobIsCut, AckLost, vars, BotAsks, BotTells, BotSleeps, JobTakes, TellSent,
     AskSent, AskFails, Reads
<1>11. QED
  BY <1>3, <1>4, <1>5, <1>6, <1>7, <1>8, <1>9, <1>10, DecidersRead DEF Next, Work, Poll

\* The bot's poll is where it was, or between two messages, or has just sent one.
LEMMA BotMoves ==
  ASSUME TypeInv, [Next]_vars
  PROVE  \/ UNCHANGED bot
         \/ bot'.pc \in {"idle", "asking", "telling"}
         \/ \E v \in Version : AskSent(v)
         \/ \E j \in Id : TellSent(j)
<1>1. bot = [pc |-> bot.pc, left |-> bot.left, sent |-> bot.sent]
  BY DEF TypeInv, TypeOK
<1>2. BotAsks => bot'.pc = "asking"
  <2>1. \A S : [bot EXCEPT !.pc = "asking", !.left = S].pc = "asking"
    BY <1>1
  <2>2. QED
    BY <2>1 DEF BotAsks
<1>3. BotTells => bot'.pc = "telling"
  BY DEF BotTells, Asleep
<1>4. BotSleeps \/ AckLost => bot'.pc = "idle"
  BY DEF BotSleeps, AckLost, Asleep
<1>5. AskAcked => bot'.pc = "asking"
  BY <1>1 DEF AskAcked
<1>6. TellAcked => bot'.pc = "telling"
  BY <1>1 DEF TellAcked
<1>7. \A v \in Version : AskFails(v) => bot'.pc = "asking"
  BY <1>1 DEF AskFails, PassedOver
<1>8. \/ UNCHANGED bot
      \/ BotAsks \/ BotTells \/ BotSleeps \/ AskAcked \/ TellAcked \/ AckLost
      \/ \E v \in Version : AskSent(v) \/ AskFails(v)
      \/ \E j \in Id : TellSent(j)
  BY DEF Next, Work, Poll, vars, Released, ImageCatchesUp, CooldownEnds,
     CheckLooks, CheckCommit, Reads, PanelDecides, Tap, DecisionWritten, JobTakes,
     Restart, JobEnds, SecretFails, JobIsCut, NodeDeleted
<1>9. QED
  BY <1>2, <1>3, <1>4, <1>5, <1>6, <1>7, <1>8

LEMMA ToldStep == TypeInv /\ [Next]_vars => ToldOK'
<1> SUFFICES ASSUME TypeInv, [Next]_vars, bot'.pc = "told", NEW i \in bot'.sent
             PROVE  row'[i] = None \/ i \in Finished' \/ row'[i].fresh
  BY DEF ToldOK
<1>1. CASE bot'.sent = bot.sent /\ bot.pc = "told"
  <2>1. /\ i \in Id /\ i \in bot.sent
        /\ row[i] = None \/ i \in Finished \/ row[i].fresh
    BY <1>1 DEF TypeInv, TypeOK, ToldOK
  <2>2. Fate(i)
    BY <2>1, Fates
  <2>3. i \in Finished /\ i \in OnDesk => row[i].fresh
    BY DEF TypeInv, DeskOK, OnDesk
  <2>4. CASE row[i] # None /\ row'[i] # None
    <3>1. CASE /\ row'[i].status = row[i].status
               /\ row'[i].fresh = row[i].fresh \/ i \notin bot.sent \cup OnDesk
      BY <2>1, <2>4, <3>1 DEF Finished, With
    <3>2. CASE /\ \E d \in Decider : i \in desk[d].rows /\ desk'[d] = Empty
               /\ row'[i].fresh = row[i].fresh
      <4>1. i \in OnDesk
        BY <3>2 DEF OnDesk
      <4>2. QED
        BY <2>1, <2>3, <2>4, <3>2, <4>1
    <3>3. CASE row'[i].fresh
      BY <3>3
    <3>4. QED
      BY <2>2, <2>4, <3>1, <3>2, <3>3 DEF Fate
  <2>5. QED
    BY <2>1, <2>2, <2>4 DEF Fate
<1>2. CASE ~(bot'.sent = bot.sent /\ bot.pc = "told")
  <2>1. PICK j \in Id : TellSent(j)
    <3>1. ~UNCHANGED bot
      BY <1>2
    <3>2. \A v \in Version : AskSent(v) => bot'.pc = "asked"
      BY DEF AskSent
    <3>3. QED
      BY <3>1, <3>2, BotMoves
  <2>2. i = j /\ j \in Finished /\ UNCHANGED row
    BY <2>1 DEF TellSent, ToTell, TypeInv, TypeOK
  <2>3. QED
    BY <2>2 DEF Finished, With
<1>3. QED
  BY <1>1, <1>2

\* The desks: what a decision is about was there already, or was pending a
\* moment ago.
LEMMA DeskMoves ==
    ASSUME TypeInv, [Next]_vars, NEW d \in Decider, NEW i \in desk'[d].rows
    PROVE  \/ i \in desk[d].rows
           \/ UNCHANGED row /\ i \in With("pending")
<1>1. CASE UNCHANGED desk
  BY <1>1
<1>2. ASSUME NEW e \in Decider, NEW S \in SUBSET Id,
             NEW verdict \in {"approved", "declined"}, Reads(e, S, verdict)
      PROVE  i \in desk[d].rows \/ (UNCHANGED row /\ i \in With("pending"))
  <2>1. UNCHANGED row
    BY <1>2 DEF Reads
  <2>2. CASE e = d
    <3>1. desk'[d].rows = ReadPending(S)
      BY <1>2, <2>2 DEF Reads, TypeInv, TypeOK
    <3>2. QED
      BY <2>1, <3>1 DEF ReadPending
  <2>3. CASE e # d
    BY <1>2, <2>3 DEF Reads, TypeInv, TypeOK
  <2>4. QED
    BY <2>2, <2>3
<1>3. ASSUME NEW e \in Decider, DecisionWritten(e)
      PROVE  i \in desk[d].rows
  BY <1>3 DEF DecisionWritten, Empty, TypeInv, TypeOK
<1>4. \/ UNCHANGED desk
      \/ \E e \in Decider, S \in SUBSET Id, verdict \in {"approved", "declined"} :
           Reads(e, S, verdict)
      \/ \E e \in Decider : DecisionWritten(e)
  BY DecidersRead DEF Next, Work, Poll, vars, Released, ImageCatchesUp, CooldownEnds,
     CheckLooks, CheckCommit, JobTakes, Restart, JobEnds, SecretFails, JobIsCut,
     BotAsks, BotTells, BotSleeps, AskSent, AskFails, AskAcked, TellAcked, AckLost,
     TellSent, NodeDeleted
<1>5. QED
  BY <1>1, <1>2, <1>3, <1>4

LEMMA DeskStep == TypeInv /\ [Next]_vars => DeskOK'
<1> SUFFICES ASSUME TypeInv, [Next]_vars, NEW d \in Decider, NEW i \in desk'[d].rows,
                    i \in Finished'
             PROVE  row'[i].fresh
  BY DEF DeskOK
<1>1. CASE UNCHANGED row /\ i \in With("pending")
  BY <1>1 DEF Finished, With
<1>2. CASE i \in desk[d].rows
  <2>1. i \in Id /\ row'[i] # None /\ row'[i].status \in {"applied", "failed"}
    BY DEF Finished, With
  <2>2. Fate(i)
    BY <2>1, Fates
  <2>3. i \in OnDesk /\ (i \in Finished => row[i].fresh)
    BY <1>2 DEF OnDesk, TypeInv, DeskOK
  <2>4. row[i] # None /\ row'[i].status = row[i].status => i \in Finished
    BY <2>1 DEF Finished, With
  <2>5. QED
    BY <2>1, <2>2, <2>3, <2>4 DEF Fate
<1>3. QED
  BY <1>1, <1>2, DeskMoves

LEMMA TypeInvariant == Spec => []TypeInv
<1>1. TypeInv /\ [Next]_vars => TypeInv'
  BY TypeStep, ToldStep, DeskStep DEF TypeInv
<1>2. QED
  BY <1>1, TypeInit, PTL DEF Spec

\* The table, the passes and the bot keep their types; the row of an apply pass
\* stays approved while it runs, and a row waits only for rows that wait.
THEOREM UpdatesTypeOK == Spec => []TypeOK
  BY TypeInvariant, PTL DEF TypeInv

-----------------------------------------------------------------------------
(* One restart for one approval.                                           *)

\* Each restart of a row beyond its cut passes belongs to the pass under way.
Paid(i) == restarts[i] <= cut[i] + (IF job.pc = "restarted" /\ job.id = i THEN 1 ELSE 0)

LEMMA PaidStep ==
    TypeInv /\ (\A i \in Id : Paid(i)) /\ [Next]_vars => (\A i \in Id : Paid(i))'
<1> SUFFICES ASSUME TypeOK, \A i \in Id : Paid(i), [Next]_vars
             PROVE  (\A i \in Id : Paid(i))'
  BY DEF TypeInv
<1>1. \A i \in Id : restarts[i] \in Nat /\ cut[i] \in Nat
  BY BoundAssumption DEF TypeOK
<1>2. ASSUME UNCHANGED <<job, restarts, cut>> PROVE (\A i \in Id : Paid(i))'
  BY <1>2 DEF Paid
<1>3. ASSUME NEW S \in SUBSET Id, Dropped(S), UNCHANGED job
      PROVE  (\A i \in Id : Paid(i))'
  BY <1>1, <1>3 DEF Dropped, Paid
<1>4. ASSUME NEW i \in Id, CooldownEnds(i) PROVE (\A j \in Id : Paid(j))'
  BY <1>2, <1>3, <1>4 DEF CooldownEnds
<1>5. ASSUME NEW i \in Id, JobTakes(i) PROVE (\A j \in Id : Paid(j))'
  BY <1>1, <1>5 DEF JobTakes, Paid
<1>6. CASE Restart
  <2>1. job.id \in Id
    BY <1>6, WithMember DEF Restart, TypeOK
  <2>2. job'.pc = "restarted" /\ job'.id = job.id /\ cut' = cut
        /\ restarts'[job.id] = restarts[job.id] + 1
        /\ \A i \in Id \ {job.id} : restarts'[i] = restarts[i]
    BY <1>6, <2>1 DEF Restart, TypeOK
  <2>3. job.pc = "running"
    BY <1>6 DEF Restart
  <2>4. QED
    BY <1>1, <2>1, <2>2, <2>3 DEF Paid
<1>7. ASSUME NEW outcome \in {"applied", "failed"}, JobEnds(outcome)
      PROVE  (\A i \in Id : Paid(i))'
  <2>1. job.id \in Id
    BY <1>7, WithMember DEF JobEnds, TypeOK
  <2>2. job'.pc = "idle" /\ restarts'[job.id] = 0 /\ cut'[job.id] = 0
        /\ \A i \in Id \ {job.id} : restarts'[i] = restarts[i] /\ cut'[i] = cut[i]
    BY <1>7, <2>1 DEF JobEnds, Free, TypeOK
  <2>3. QED
    BY <1>1, <2>1, <2>2 DEF Paid
<1>8. CASE JobIsCut
  <2>1. job.id \in Id
    BY <1>8, WithMember DEF JobIsCut, TypeOK
  <2>2. job'.pc = "idle" /\ restarts' = restarts /\ cut'[job.id] = cut[job.id] + 1
        /\ \A i \in Id \ {job.id} : cut'[i] = cut[i]
    BY <1>8, <2>1 DEF JobIsCut, Free, TypeOK
  <2>3. QED
    BY <1>1, <2>1, <2>2 DEF Paid
<1>9. CASE TellAcked
  <2>1. \E i \in Id : UNCHANGED <<restarts, cut>> \/ Dropped({i})
    BY <1>9 DEF TellAcked, TypeOK
  <2>2. QED
    BY <1>2, <1>3, <1>9, <2>1 DEF TellAcked
<1>10. ASSUME NEW n \in Node, NodeDeleted(n) PROVE (\A i \in Id : Paid(i))'
  <2> DEFINE S == {i \in Id : row[i] # None /\ row[i].node = n}
  <2>1. S \in SUBSET Id /\ Dropped(S) /\ UNCHANGED job
    BY <1>10 DEF NodeDeleted
  <2> HIDE DEF S
  <2>2. QED
    BY <1>3, <2>1
<1>11. CASE Released \/ ImageCatchesUp \/ AckLost
            \/ (\E c \in Checker : CheckLooks(c) \/ CheckCommit(c))
            \/ UNCHANGED vars \/ BotAsks \/ BotTells \/ BotSleeps \/ AskAcked
            \/ (\E i \in Id : TellSent(i))
            \/ (\E v \in Version : AskSent(v) \/ AskFails(v))
            \/ (\E d \in Decider, S \in SUBSET Id, verdict \in {"approved", "declined"} :
                  Reads(d, S, verdict))
            \/ (\E d \in Decider : DecisionWritten(d))
  BY <1>2, <1>11 DEF Released, ImageCatchesUp, CheckLooks, CheckCommit, AckLost,
     vars, BotAsks, BotTells, BotSleeps, AskAcked, TellSent, AskSent, AskFails,
     Reads, DecisionWritten
<1>13. CASE SecretFails
  BY <1>1, <1>13 DEF SecretFails, Free, Paid
<1>12. QED
  BY <1>4, <1>5, <1>6, <1>7, <1>8, <1>9, <1>10, <1>11, <1>13, DecidersRead
     DEF Next, Work, Poll

\* An approval pays for one restart: what the operator allowed once happens
\* again only for a pass that was cut short.
THEOREM ApprovalPaysOnce == Spec => []OneRestartEach
<1>1. Init => \A i \in Id : Paid(i)
  BY DEF Init, Paid, Free
<1>2. TypeInv /\ (\A i \in Id : Paid(i)) => OneRestartEach
  BY BoundAssumption DEF TypeInv, TypeOK, Paid, OneRestartEach
<1>3. QED
  BY <1>1, <1>2, PaidStep, TypeInvariant, PTL DEF Spec

-----------------------------------------------------------------------------
(* What was asked.                                                         *)

\* The message behind the acknowledgement under way was about these rows.
AskedInv ==
    /\ AskedIsTrue
    /\ bot.pc = "asked" => \A i \in bot.sent : row[i] # None => i \in chat.asked

LEMMA AskedStep == TypeInv /\ AskedInv /\ [Next]_vars => AskedInv'
<1> SUFFICES ASSUME TypeInv, AskedInv, [Next]_vars PROVE AskedInv'
  OBVIOUS
<1>1. \A i \in Id : Fate(i)
  BY Fates
<1>2. bot.sent \in SUBSET Id /\ bot.left \in SUBSET Id
  BY DEF TypeInv, TypeOK
\* An id that stays a row stays in the chat.
<1>3. \A i \in Id : row'[i] # None /\ i \in chat.asked => i \in chat'.asked
  <2>1. ASSUME NEW S \in SUBSET Id, Dropped(S)
        PROVE  \A i \in Id : row'[i] # None /\ i \in chat.asked => i \in chat'.asked
    <3>1. \A i \in S : row'[i] = None
      BY <2>1 DEF Dropped, Without
    <3>2. chat'.asked = chat.asked \ S
      BY <2>1 DEF Dropped, TypeInv, TypeOK
    <3>3. QED
      BY <3>1, <3>2
  <2>2. ASSUME NEW n \in Node, NodeDeleted(n)
        PROVE  \E S \in SUBSET Id : Dropped(S)
    <3>1. {i \in Id : row[i] # None /\ row[i].node = n} \in SUBSET Id
      OBVIOUS
    <3>2. QED
      BY <2>2, <3>1 DEF NodeDeleted
  <2>3. \/ UNCHANGED chat
        \/ \E S \in SUBSET Id : Dropped(S)
        \/ \E v \in Version : AskSent(v)
    BY <1>2, <2>2 DEF Next, Work, Poll, vars, Released, ImageCatchesUp, CooldownEnds,
       CheckLooks, CheckCommit, Reads, PanelDecides, Tap, DecisionWritten, JobTakes,
       Restart, JobEnds, SecretFails, JobIsCut, BotAsks, BotTells, BotSleeps,
       AskAcked, TellAcked, AskFails, AckLost, TellSent
  <2>4. \A v \in Version : AskSent(v) => chat.asked \subseteq chat'.asked
    BY DEF AskSent
  <2>5. QED
    BY <2>1, <2>3, <2>4
\* The message under way is the old one, or a new one about rows it names.
<1>4. bot'.pc = "asked" =>
        \/ bot.pc = "asked" /\ bot'.sent = bot.sent
        \/ /\ UNCHANGED row /\ \A i \in bot'.sent : i \in chat'.asked
           /\ bot'.sent \subseteq Id
  <2>1. \A j \in Id : TellSent(j) => bot'.pc = "told"
    BY DEF TellSent, TypeInv, TypeOK
  <2>2. \A v \in Version : AskSent(v) =>
          /\ UNCHANGED row /\ \A i \in bot'.sent : i \in chat'.asked
          /\ bot'.sent \subseteq Id
    BY <1>2 DEF AskSent, Message
  <2>3. QED
    BY <1>2, <2>1, <2>2, BotMoves
<1>5. bot'.pc = "asked" => \A i \in bot'.sent : row'[i] # None => i \in chat'.asked
  <2>1. CASE bot.pc = "asked" /\ bot'.sent = bot.sent
    <3>1. \A i \in bot.sent : row'[i] # None => row[i] # None
      BY <1>1, <1>2 DEF Fate
    <3>2. QED
      BY <1>2, <1>3, <2>1, <3>1 DEF AskedInv
  <2>2. QED
    BY <1>4, <2>1
<1>6. AskedIsTrue'
  <2>1. ASSUME NEW i \in Id, row'[i] # None, row'[i].notified
        PROVE  row[i] # None /\ i \in chat.asked
    BY <1>1, <2>1 DEF Fate, AskedInv, AskedIsTrue
  <2>2. QED
    BY <1>3, <2>1 DEF AskedIsTrue
<1>7. QED
  BY <1>5, <1>6 DEF AskedInv

\* What is marked as asked was asked: no proposal waits for an answer to a
\* question nobody got.
THEOREM MarkedMeansAsked == Spec => []AskedIsTrue
<1>1. Init => AskedInv
  BY DEF Init, AskedInv, AskedIsTrue, Asleep
<1>2. QED
  BY <1>1, AskedStep, TypeInvariant, PTL DEF Spec, AskedInv

-----------------------------------------------------------------------------
(* The rows keep the operator's consent: refinement of OperatorConsent.    *)

\* The stage of a row is a function of the row alone.
LEMMA Stages ==
    ASSUME TypeOK, NEW i \in Id
    PROVE  /\ row[i] = None <=> StageOf(i) = "none"
           /\ i \in With("pending") <=> StageOf(i) = "open"
           /\ i \in With("approved") <=> StageOf(i) = "yes"
           /\ i \in With("declined") <=> StageOf(i) = "no"
           /\ i \in Finished <=> StageOf(i) = "done"
  BY RowExists DEF StageOf, With, Finished, Row

\* A row that is there in both states, with the same status, keeps its stage.
LEMMA StageKept ==
    ASSUME NEW i \in Id,
           \/ row'[i] = row[i]
           \/ row[i] # None /\ row'[i] # None /\ row'[i].status = row[i].status
    PROVE  StageOf(i)' = StageOf(i)
  BY DEF StageOf

\* Rows that go are proposals dropped.
LEMMA DropRefines ==
    ASSUME TypeOK, NEW S \in SUBSET Id, Dropped(S), UNCHANGED job,
           job.pc # "idle" => job.id \notin S
    PROVE  Consent!Next
<1>1. \A i \in Id : StageOf(i)' = IF i \in S THEN "none" ELSE StageOf(i)
  BY DroppedTypes, StageKept DEF StageOf
<1>2. Consent!Drop(S)
  BY <1>1 DEF Dropped, Consent!Drop, Consent!Moved
<1>3. QED
  BY <1>2 DEF Consent!Next

\* Nobody else decides meanwhile, so what a decision has read is pending still.
DeskPending ==
    \A d \in Decider : \A i \in desk[d].rows : row[i] = None \/ i \in With("pending")

LEMMA DeskPendingStep ==
    OneDecider => (TypeInv /\ DeskPending /\ [Next]_vars => DeskPending')
<1> SUFFICES ASSUME OneDecider, TypeInv, DeskPending, [Next]_vars,
                    NEW d \in Decider, NEW i \in desk'[d].rows, row'[i] # None
             PROVE  i \in With("pending")'
  BY DEF DeskPending
<1>1. CASE UNCHANGED row /\ i \in With("pending")
  BY <1>1 DEF With
<1>2. CASE i \in desk[d].rows
  <2>1. i \in Id
    BY <1>2 DEF TypeInv, TypeOK
  <2>2. Fate(i) /\ (row[i] = None \/ row[i].status = "pending")
    BY <1>2, <2>1, Fates DEF DeskPending, With
  <2>3. ~\E e \in Decider : i \in desk[e].rows /\ desk'[e] = Empty
    BY DEF OneDecider, Empty
  <2>4. row'[i].status = "pending"
    BY <2>2, <2>3 DEF Fate
  <2>5. QED
    BY <2>1, <2>4 DEF With
<1>3. QED
  BY <1>1, <1>2, DeskMoves

\* A decision answers the open ones it is about, or fails.
LEMMA DecisionRefines ==
    ASSUME TypeOK, DeskPending, NEW d \in Decider, DecisionWritten(d)
    PROVE  [Consent!Next]_Consent!vars
<1> DEFINE T == desk[d].rows
           verdict == IF desk[d].verdict = "approved" THEN "yes" ELSE "no"
<1>1. T \in SUBSET Id /\ desk[d].verdict \in {"approved", "declined"}
  BY DEF TypeOK
<1>2. verdict \in {"yes", "no"} /\ UNCHANGED restarts
  BY DEF DecisionWritten
<1>3. CASE UNCHANGED row
  BY <1>2, <1>3 DEF Consent!vars, StageOf
<1>4. CASE ~UNCHANGED row
  <2>1. \A i \in Id :
           IF i \in T
           THEN row'[i] # None /\ row'[i].status = desk[d].verdict
                /\ i \in With("pending")
           ELSE \/ row[i] = None /\ row'[i] = None
                \/ row[i] # None /\ row'[i] # None /\ row'[i].status = row[i].status
    BY <1>1, <1>4, WrittenTypes DEF DeskPending
  <2>2. \A i \in T : StageOf(i) = "open"
    BY <1>1, <2>1, Stages
  <2>3. ASSUME NEW i \in Id
        PROVE  StageOf(i)' = IF i \in T THEN verdict ELSE StageOf(i)
    <3>1. CASE i \in T
      BY <1>1, <2>1, <3>1 DEF StageOf
    <3>2. CASE i \notin T
      BY <2>1, <3>2, StageKept
    <3>3. QED
      BY <3>1, <3>2
  <2> HIDE DEF T, verdict
  <2>4. Consent!Answer(T, verdict)
    BY <1>1, <1>2, <2>2, <2>3 DEF Consent!Answer, Consent!Moved
  <2>5. QED
    BY <1>1, <1>2, <2>4 DEF Consent!Next
<1>5. QED
  BY <1>3, <1>4

\* Every step keeps the consent or does not concern it.
LEMMA ConsentStep ==
    TypeInv /\ DeskPending /\ [Next]_vars => [Consent!Next]_Consent!vars
<1> SUFFICES ASSUME TypeOK, ToldOK, DeskPending, [Next]_vars
             PROVE [Consent!Next]_Consent!vars
  BY DEF TypeInv
\* Steps that change neither a stage nor a restart.
<1>1. ASSUME UNCHANGED restarts, \A i \in Id : StageOf(i)' = StageOf(i)
      PROVE  [Consent!Next]_Consent!vars
  BY <1>1 DEF Consent!vars
<1>2. ASSUME UNCHANGED <<row, restarts>> PROVE [Consent!Next]_Consent!vars
  BY <1>1, <1>2 DEF StageOf
<1>3. ASSUME NEW i \in Id, CooldownEnds(i) PROVE [Consent!Next]_Consent!vars
  <2>1. row[i] # None /\ UNCHANGED job /\ i \notin With("approved")
    BY <1>3 DEF CooldownEnds, Finished, With
  <2>2. CASE Dropped({i})
    BY <2>1, <2>2, DropRefines DEF TypeOK
  <2>3. CASE row' = [row EXCEPT ![i].fresh = FALSE] /\ UNCHANGED restarts
    BY <1>1, <2>1, <2>3, StampTypes, StageKept
  <2>4. QED
    BY <1>3, <2>2, <2>3 DEF CooldownEnds
<1>4. ASSUME NEW c \in Checker, CheckCommit(c) PROVE [Consent!Next]_Consent!vars
  <2> DEFINE S == {i \in Id : row[i] = None /\ row'[i] # None}
  <2>1. \A i \in Id : \/ row'[i] = row[i]
                      \/ row[i] = None /\ row'[i] # None /\ row'[i].status = "pending"
    BY <1>4, CommitTypes
  <2>2. \A i \in Id : StageOf(i)' = IF i \in S THEN "open" ELSE StageOf(i)
    BY <2>1, StageKept DEF StageOf
  <2>3. \A i \in S : StageOf(i) = "none"
    BY DEF StageOf
  <2>4. UNCHANGED restarts
    BY <1>4 DEF CheckCommit
  <2>5. Consent!Raise(S)
    BY <2>2, <2>3, <2>4 DEF Consent!Raise, Consent!Moved
  <2>6. S \in SUBSET Id
    OBVIOUS
  <2> HIDE DEF S
  <2>7. QED
    BY <2>5, <2>6 DEF Consent!Next
<1>5. ASSUME NEW d \in Decider, DecisionWritten(d)
      PROVE  [Consent!Next]_Consent!vars
  BY <1>5, DecisionRefines
<1>7. CASE Restart
  <2>1. job.id \in Id /\ StageOf(job.id) = "yes" /\ UNCHANGED row
    BY <1>7, Stages DEF Restart, TypeOK, With
  <2>2. Consent!Restart(job.id)
    BY <1>7, <2>1 DEF Restart, Consent!Restart, StageOf
  <2>3. QED
    BY <2>1, <2>2 DEF Consent!Next
<1>8. ASSUME NEW outcome \in {"applied", "failed"}, JobEnds(outcome)
      PROVE  [Consent!Next]_Consent!vars
  <2>1. job.id \in Id /\ StageOf(job.id) = "yes"
    BY <1>8, Stages, EndTypes DEF With
  <2>2. \A i \in Id : StageOf(i)' = IF i \in {job.id} THEN "done" ELSE StageOf(i)
    BY <1>8, EndTypes, StageKept DEF StageOf
  <2>3. Consent!End(job.id)
    BY <1>8, <2>1, <2>2 DEF JobEnds, Consent!End, Consent!Moved
  <2>4. QED
    BY <2>1, <2>3 DEF Consent!Next
<1>9. CASE AskAcked
  BY <1>1, <1>9, AckTypes, StageKept DEF AskAcked
<1>10. CASE TellAcked
  <2>1. PICK i \in bot.sent :
               IF row[i] # None /\ row[i].fresh
               THEN row' = [row EXCEPT ![i].reported = TRUE] /\ UNCHANGED restarts
               ELSE Dropped({i})
    BY <1>10 DEF TellAcked
  <2>2. i \in Id /\ UNCHANGED job
    BY <1>10, <2>1 DEF TypeOK, TellAcked
  <2>3. CASE row[i] # None /\ row[i].fresh
    BY <1>1, <2>1, <2>2, <2>3, StampTypes, StageKept
  <2>4. CASE ~(row[i] # None /\ row[i].fresh)
    <3>1. row[i] = None \/ i \in Finished
      BY <1>10, <2>1, <2>4 DEF TellAcked, ToldOK
    <3>2. job.pc # "idle" => job.id # i
      BY <3>1 DEF TypeOK, Finished, With
    <3>3. QED
      BY <2>1, <2>2, <2>4, <3>2, DropRefines
  <2>5. QED
    BY <2>3, <2>4
<1>11. ASSUME NEW n \in Node, NodeDeleted(n) PROVE [Consent!Next]_Consent!vars
  <2> DEFINE S == {i \in Id : row[i] # None /\ row[i].node = n}
  <2>1. /\ S \in SUBSET Id /\ Dropped(S) /\ UNCHANGED job
        /\ job.pc # "idle" => job.id \notin S
    BY <1>11 DEF NodeDeleted
  <2> HIDE DEF S
  <2>2. QED
    BY <2>1, DropRefines
<1>12. CASE Released \/ ImageCatchesUp \/ SecretFails \/ JobIsCut
            \/ AckLost
            \/ (\E c \in Checker : CheckLooks(c)) \/ UNCHANGED vars
            \/ BotAsks \/ BotTells \/ BotSleeps
            \/ (\E i \in Id : JobTakes(i) \/ TellSent(i))
            \/ (\E v \in Version : AskSent(v) \/ AskFails(v))
            \/ (\E d \in Decider, S \in SUBSET Id, verdict \in {"approved", "declined"} :
                  Reads(d, S, verdict))
  BY <1>2, <1>12 DEF Released, ImageCatchesUp, CheckLooks, SecretFails, JobIsCut,
     AckLost, vars, Reads, BotAsks, BotTells, BotSleeps, JobTakes, TellSent, AskSent, AskFails
<1>13. QED
  BY <1>3, <1>4, <1>5, <1>7, <1>8, <1>9, <1>10, <1>11, <1>12, DecidersRead
     DEF Next, Work, Poll

\* Nothing but a human's yes gets a node restarted, and an answer is final: the
\* machinery of services/xray_updates.py implements OperatorConsent, as long as
\* no two decisions overlap.
THEOREM ConsentRefined == OneDecider => (Spec => ConsentIsKept)
<1> SUFFICES ASSUME OneDecider PROVE Spec => ConsentIsKept
  OBVIOUS
<1>1. Init => Consent!Init
  BY DEF Init, Consent!Init, StageOf
<1>2. Init => DeskPending
  BY DEF Init, DeskPending, Empty
<1>3. TypeInv /\ DeskPending /\ [Next]_vars => DeskPending'
  BY DeskPendingStep
<1>4. QED
  BY <1>1, <1>2, <1>3, ConsentStep, TypeInvariant, PTL
     DEF Spec, ConsentIsKept, Consent!Spec

-----------------------------------------------------------------------------
(* Who is asked again.                                                     *)

\* Outside the commit of the check pass a row that is there was there before,
\* about the same update, and only the row of the job starts a cooldown.
SameUpdate(i) ==
    row'[i] # None =>
        /\ row[i] # None
        /\ row'[i].node = row[i].node /\ row'[i].target = row[i].target
        /\ i \in With("approved") \/ row'[i].fresh = row[i].fresh \/ ~row'[i].fresh

LEMMA DroppedSame ==
    ASSUME TypeOK, NEW S \in SUBSET Id, Dropped(S)
    PROVE  \A i \in Id : SameUpdate(i)
<1> DEFINE t == [i \in Id |-> IF i \in S THEN None ELSE row[i]]
<1>1. t \in [Id -> Row \cup {None}] /\ row' = Without(t, S)
  BY DEF TypeOK, Dropped
<1>2. \A i \in Id : t[i] # None => t[i] = row[i]
  OBVIOUS
<1> HIDE DEF t
<1>3. QED
  BY <1>1, <1>2, WithoutSame DEF SameUpdate

LEMMA WrittenSame ==
    ASSUME TypeOK, NEW d \in Decider, DecisionWritten(d)
    PROVE  \A i \in Id : SameUpdate(i)
<1>1. CASE UNCHANGED row
  BY <1>1 DEF SameUpdate
<1>2. CASE ~UNCHANGED row
  BY <1>2, WrittenTypes DEF SameUpdate
<1>3. QED
  BY <1>1, <1>2

LEMMA EndSame ==
    ASSUME TypeOK, NEW outcome \in {"applied", "failed"}, JobEnds(outcome)
    PROVE  \A i \in Id : SameUpdate(i)
<1> DEFINE j == job.id
           final == [[row[j] EXCEPT !.status = outcome] EXCEPT !.fresh = TRUE]
           t == [row EXCEPT ![j].status = outcome, ![j].fresh = TRUE]
<1>1. j \in With("approved") /\ j \in Id /\ row[j] \in Row /\ row[j] # None
  BY WithMember, UpdateNoneAssumption DEF JobEnds, TypeOK
<1>2. final \in Row /\ final.node = row[j].node /\ final.target = row[j].target
  BY <1>1 DEF Row
<1>3. t = [row EXCEPT ![j] = final]
  BY <1>1 DEF TypeOK
<1>4. row' = Without(t, {j})
  BY DEF JobEnds, Written
<1> HIDE DEF final, t
<1>5. t \in [Id -> Row \cup {None}] /\ t[j] = final
      /\ \A i \in Id \ {j} : t[i] = row[i]
  BY <1>1, <1>2, <1>3 DEF TypeOK
<1>6. \A i \in Id :
        row'[i] # None => /\ t[i] # None
                          /\ row'[i].node = t[i].node
                          /\ row'[i].target = t[i].target
                          /\ row'[i].fresh = t[i].fresh
  BY <1>1, <1>4, <1>5, WithoutSame
<1>7. QED
  BY <1>1, <1>2, <1>5, <1>6 DEF SameUpdate

\* Stamps: the question was asked, the cooldown is over, the result was told.
LEMMA StampSame ==
    ASSUME NEW r \in Row, NEW s,
           \/ s = [r EXCEPT !.notified = TRUE]
           \/ s = [r EXCEPT !.fresh = FALSE]
           \/ s = [r EXCEPT !.reported = TRUE]
    PROVE  s.node = r.node /\ s.target = r.target /\ (s.fresh = r.fresh \/ ~s.fresh)
<1>1. CASE s = [r EXCEPT !.notified = TRUE]
  BY <1>1 DEF Row
<1>2. CASE s = [r EXCEPT !.fresh = FALSE]
  BY <1>2 DEF Row
<1>3. CASE s = [r EXCEPT !.reported = TRUE]
  BY <1>3 DEF Row
<1>4. QED
  BY <1>1, <1>2, <1>3

LEMMA UpdatesSame ==
    TypeInv /\ [Next]_vars => (\E c \in Checker : CheckCommit(c)) \/ \A i \in Id : SameUpdate(i)
<1> SUFFICES ASSUME TypeOK, [Next]_vars,
                    ~\E c \in Checker : CheckCommit(c)
             PROVE  \A i \in Id : SameUpdate(i)
  BY DEF TypeInv
<1>1. ASSUME UNCHANGED row PROVE \A i \in Id : SameUpdate(i)
  BY <1>1 DEF SameUpdate
<1>2. ASSUME NEW i \in Id, row[i] # None,
             \/ row' = [row EXCEPT ![i].fresh = FALSE]
             \/ row' = [row EXCEPT ![i].reported = TRUE]
      PROVE  \A j \in Id : SameUpdate(j)
  <2>1. row[i] \in Row
    BY <1>2, RowExists
  <2>2. \A j \in Id \ {i} : row'[j] = row[j]
    BY <1>2 DEF TypeOK
  <2>3. \/ row'[i] = [row[i] EXCEPT !.fresh = FALSE]
        \/ row'[i] = [row[i] EXCEPT !.reported = TRUE]
    BY <1>2 DEF TypeOK
  <2>4. /\ row'[i].node = row[i].node /\ row'[i].target = row[i].target
        /\ row'[i].fresh = row[i].fresh \/ ~row'[i].fresh
    BY <2>1, <2>3, StampSame
  <2>5. QED
    BY <1>2, <2>2, <2>4 DEF SameUpdate
<1>3. ASSUME NEW i \in Id, CooldownEnds(i) PROVE \A j \in Id : SameUpdate(j)
  <2>1. row[i] # None
    BY <1>3 DEF CooldownEnds, Finished, With
  <2>2. Dropped({i}) \/ row' = [row EXCEPT ![i].fresh = FALSE]
    BY <1>3 DEF CooldownEnds
  <2>3. CASE Dropped({i})
    BY <2>3, DroppedSame
  <2>4. CASE row' = [row EXCEPT ![i].fresh = FALSE]
    BY <1>2, <2>1, <2>4
  <2>5. QED
    BY <2>2, <2>3, <2>4
<1>4. ASSUME NEW d \in Decider, DecisionWritten(d)
      PROVE  \A i \in Id : SameUpdate(i)
  BY <1>4, WrittenSame
<1>6. ASSUME NEW outcome \in {"applied", "failed"}, JobEnds(outcome)
      PROVE  \A i \in Id : SameUpdate(i)
  BY <1>6, EndSame
<1>7. CASE AskAcked
  <2>1. ASSUME NEW i \in Id, row'[i] # None PROVE SameUpdate(i)
    <3>1. row[i] # None /\ row[i] \in Row
      BY <1>7, <2>1, RowExists DEF AskAcked
    <3>2. row'[i] = row[i] \/ row'[i] = [row[i] EXCEPT !.notified = TRUE]
      BY <1>7, <3>1 DEF AskAcked
    <3>3. /\ row'[i].node = row[i].node /\ row'[i].target = row[i].target
          /\ row'[i].fresh = row[i].fresh \/ ~row'[i].fresh
      BY <3>1, <3>2, StampSame
    <3>4. QED
      BY <3>1, <3>3 DEF SameUpdate
  <2>2. QED
    BY <2>1 DEF SameUpdate
<1>8. CASE TellAcked
  <2>1. PICK i \in bot.sent :
               IF row[i] # None /\ row[i].fresh
               THEN row' = [row EXCEPT ![i].reported = TRUE]
               ELSE Dropped({i})
    BY <1>8 DEF TellAcked
  <2>2. i \in Id
    BY <2>1 DEF TypeOK
  <2>3. QED
    BY <1>2, <2>1, <2>2, DroppedSame
<1>9. ASSUME NEW n \in Node, NodeDeleted(n) PROVE \A i \in Id : SameUpdate(i)
  <2> DEFINE S == {i \in Id : row[i] # None /\ row[i].node = n}
  <2>1. S \in SUBSET Id /\ Dropped(S)
    BY <1>9 DEF NodeDeleted
  <2> HIDE DEF S
  <2>2. QED
    BY <2>1, DroppedSame
<1>10. CASE Released \/ ImageCatchesUp \/ Restart \/ SecretFails \/ JobIsCut
            \/ AckLost \/ UNCHANGED vars
            \/ (\E c \in Checker : CheckLooks(c))
            \/ BotAsks \/ BotTells \/ BotSleeps
            \/ (\E i \in Id : JobTakes(i) \/ TellSent(i))
            \/ (\E v \in Version : AskSent(v) \/ AskFails(v))
            \/ (\E d \in Decider, S \in SUBSET Id, verdict \in {"approved", "declined"} :
                  Reads(d, S, verdict))
  BY <1>1, <1>10 DEF Released, ImageCatchesUp, CheckLooks, Restart, SecretFails,
     JobIsCut, AckLost, vars, Reads, BotAsks, BotTells, BotSleeps, JobTakes, TellSent, AskSent, AskFails
<1>11. QED
  BY <1>3, <1>4, <1>6, <1>7, <1>8, <1>9, <1>10, DecidersRead DEF Next, Work, Poll

\* While a check pass asks nodes, what it looked for stays true: whatever the
\* table says of an update it is about to propose is over and forgotten.
LookedInv ==
    \A c \in Checker : check[c].pc = "asking" =>
        \A n \in check[c].raised, j \in Id :
            row[j] # None /\ row[j].node = n /\ row[j].target = check[c].target
            => j \in Finished /\ ~row[j].fresh

\* A check pass keeps what it found from its look to its commit.
LEMMA CheckMoves ==
    ASSUME TypeInv, [Next]_vars, NEW c \in Checker
    PROVE  /\ CheckLooks(c) \/ CheckCommit(c) \/ check'[c] = check[c]
           /\ CheckCommit(c) => check'[c].pc = "idle"
<1>1. ASSUME NEW d \in Checker, CheckLooks(d) \/ CheckCommit(d), d # c
      PROVE  check'[c] = check[c]
  BY <1>1 DEF CheckLooks, CheckCommit, TypeInv, TypeOK
<1>2. CheckCommit(c) => check'[c].pc = "idle"
  BY DEF CheckCommit, Quiet, TypeInv, TypeOK
<1>3. UNCHANGED check \/ \E d \in Checker : CheckLooks(d) \/ CheckCommit(d)
  BY DecidersRead DEF Next, Work, Poll, vars, Released, ImageCatchesUp, CooldownEnds,
     Reads, DecisionWritten, JobTakes, Restart, JobEnds, SecretFails, JobIsCut,
     BotAsks, BotTells, BotSleeps, AskSent, AskFails, AskAcked, TellAcked, AckLost,
     TellSent, NodeDeleted
<1>4. QED
  BY <1>1, <1>2, <1>3

\* What is over and forgotten stays so while nothing is inserted: a decision is
\* about no such row.
LEMMA OverStays ==
    ASSUME TypeInv, [Next]_vars, ~\E c \in Checker : CheckCommit(c), NEW j \in Id,
           row'[j] # None, row[j] # None => j \in Finished /\ ~row[j].fresh
    PROVE  j \in Finished' /\ ~row'[j].fresh
<1>1. SameUpdate(j) /\ Fate(j)
  BY UpdatesSame, Fates
<1>2. row[j] # None /\ row[j].status \in {"applied", "failed"} /\ ~row[j].fresh
  BY <1>1 DEF SameUpdate, Finished, With
<1>3. j \notin OnDesk
  BY <1>2 DEF TypeInv, DeskOK, OnDesk, Finished, With
<1>4. row'[j].status = row[j].status
  BY <1>1, <1>2, <1>3 DEF Fate, OnDesk
<1>5. j \notin With("approved")
  BY <1>2 DEF With
<1>6. ~row'[j].fresh
  BY <1>1, <1>2, <1>5 DEF SameUpdate
<1>7. QED
  BY <1>2, <1>4, <1>6 DEF Finished, With

LEMMA LookedStep ==
    OneChecker => (TypeInv /\ LookedInv /\ [Next]_vars => LookedInv')
<1> SUFFICES ASSUME OneChecker, TypeInv, LookedInv, [Next]_vars,
                    NEW c \in Checker, check'[c].pc = "asking",
                    NEW n \in check'[c].raised, NEW j \in Id,
                    row'[j] # None, row'[j].node = n,
                    row'[j].target = check'[c].target
             PROVE  j \in Finished' /\ ~row'[j].fresh
  BY DEF LookedInv
<1>1. CASE CheckLooks(c)
  <2>1. UNCHANGED row /\ row[j] \in Row
    BY <1>1, RowExists DEF CheckLooks, TypeInv
  <2>2. ~Suppressed(n, check'[c].target)
    <3>1. PICK v \in 1..upstream.release :
                 \E S \in (SUBSET {m \in Node : Behind(m, v)}) \ {{}} :
                   check' = [check EXCEPT ![c] = [pc |-> "asking", target |-> v,
                                                  raised |-> S]]
      BY <1>1 DEF CheckLooks
    <3>2. PICK S \in SUBSET {m \in Node : Behind(m, v)} :
                 check' = [check EXCEPT ![c] = [pc |-> "asking", target |-> v,
                                                raised |-> S]]
      BY <3>1
    <3>3. check'[c].raised = S /\ check'[c].target = v
      BY <3>2 DEF TypeInv, TypeOK
    <3>4. QED
      BY <3>3 DEF Behind
  <2>3. row[j].status \notin {"pending", "approved", "declined"}
        /\ ~(j \in Finished /\ row[j].fresh)
    BY <2>1, <2>2 DEF Suppressed
  <2>4. j \in Finished
    BY <2>1, <2>3 DEF Finished, With, Row
  <2>5. QED
    BY <2>1, <2>3, <2>4 DEF Finished, With
<1>2. CASE ~CheckLooks(c)
  <2>1. check'[c] = check[c] /\ ~\E d \in Checker : CheckCommit(d)
    BY <1>2, CheckMoves DEF OneChecker
  <2>2. SameUpdate(j)
    BY <2>1, UpdatesSame
  <2>3. row[j] # None => j \in Finished /\ ~row[j].fresh
    BY <2>1, <2>2 DEF SameUpdate, LookedInv
  <2>4. QED
    BY <2>1, <2>3, OverStays
<1>3. QED
  BY <1>1, <1>2

LEMMA LookedInvariant == OneChecker => (Spec => []LookedInv)
<1> SUFFICES ASSUME OneChecker PROVE Spec => []LookedInv
  OBVIOUS
<1>1. Init => LookedInv
  BY DEF Init, Quiet, LookedInv
<1>2. TypeInv /\ LookedInv /\ [Next]_vars => LookedInv'
  BY LookedStep
<1>3. QED
  BY <1>1, <1>2, TypeInvariant, PTL DEF Spec

\* What the commit inserts: proposals about the nodes that were found behind,
\* no two about one node.
LEMMA CommitInserts ==
    ASSUME TypeOK, NEW c \in Checker, CheckCommit(c)
    PROVE  /\ check[c].pc = "asking"
           /\ \A i \in Id : row[i] = None /\ row'[i] # None =>
                /\ row'[i].node \in check[c].raised
                /\ row'[i].target = check[c].target
                /\ \A j \in Id : row[j] = None /\ row'[j] # None
                                 /\ row'[j].node = row'[i].node => j = i
           /\ \A i \in Id : row[i] # None => row'[i] = row[i]
<1>1. check[c].pc = "asking"
  BY DEF CheckCommit
<1>2. CASE UNCHANGED row
  BY <1>1, <1>2
<1>3. CASE ~UNCHANGED row
  <2>1. PICK id \in [check[c].raised -> Unused] :
             row' = [i \in Id |->
                       IF \E n \in check[c].raised : id[n] = i
                       THEN Proposed(CHOOSE n \in check[c].raised : id[n] = i,
                                     check[c].target)
                       ELSE row[i]]
    BY <1>3 DEF CheckCommit
  <2>2. ASSUME NEW i \in Id, row'[i] # row[i]
        PROVE  /\ row[i] = None
               /\ row'[i].node \in check[c].raised /\ id[row'[i].node] = i
               /\ row'[i].target = check[c].target
    <3> DEFINE m == CHOOSE n \in check[c].raised : id[n] = i
    <3>1. \E n \in check[c].raised : id[n] = i
      BY <2>1, <2>2
    <3>2. m \in check[c].raised /\ id[m] = i
      BY <3>1
    <3>3. i \in Unused
      BY <3>2
    <3>4. row'[i] = Proposed(m, check[c].target)
      BY <2>1, <3>1
    <3> HIDE DEF m
    <3>5. row'[i].node = m /\ row'[i].target = check[c].target
      BY <3>4 DEF Proposed
    <3>6. QED
      BY <3>2, <3>3, <3>5 DEF Unused
  <2>3. \A i, j \in Id : row[i] = None /\ row'[i] # None
                         /\ row[j] = None /\ row'[j] # None
                         /\ row'[j].node = row'[i].node => j = i
    BY <2>2
  <2>4. QED
    BY <1>1, <2>2, <2>3
<1>4. QED
  BY <1>2, <1>3

\* Nobody is asked again about what is open, was declined or was tried a moment
\* ago: between the look of check_for_updates and its commit the table changes,
\* but no change makes the look untrue, unless another check pass commits.
THEOREM NobodyIsNagged == OneChecker => (Spec => NoNagging)
<1> SUFFICES ASSUME OneChecker PROVE Spec => NoNagging
  OBVIOUS
<1> DEFINE Body == \A i, j \in Id :
                     /\ row[i] = None /\ row'[i] # None
                     /\ row'[j] # None /\ i # j
                     /\ row'[j].node = row'[i].node /\ row'[j].target = row'[i].target
                     => j \in Finished /\ ~row[j].fresh
<1>1. TypeInv /\ LookedInv /\ [Next]_vars => Body
  <2> SUFFICES ASSUME TypeInv, LookedInv, [Next]_vars, NEW i \in Id, NEW j \in Id,
                      row[i] = None, row'[i] # None, row'[j] # None, i # j,
                      row'[j].node = row'[i].node, row'[j].target = row'[i].target
               PROVE  j \in Finished /\ ~row[j].fresh
    OBVIOUS
  <2>1. PICK c \in Checker : CheckCommit(c)
    BY UpdatesSame DEF SameUpdate
  <2>2. /\ check[c].pc = "asking"
        /\ row'[i].node \in check[c].raised /\ row'[i].target = check[c].target
    BY <2>1, CommitInserts DEF TypeInv
  <2>3. row[j] # None /\ row'[j] = row[j]
    BY <2>1, CommitInserts DEF TypeInv
  <2>4. QED
    BY <2>2, <2>3 DEF LookedInv
<1>2. TypeInv /\ LookedInv /\ [Next]_vars => [Body]_vars
  BY <1>1
<1>3. QED
  BY <1>2, TypeInvariant, LookedInvariant, PTL DEF Spec, NoNagging
=============================================================================
