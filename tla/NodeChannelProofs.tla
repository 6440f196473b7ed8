-------------------------- MODULE NodeChannelProofs --------------------------
(***************************************************************************)
(* What the channel ladder guarantees for every limit: its types for any    *)
(* number of overlapping calls, and that isolation is earned and an alert    *)
(* put out, for calls that run one at a time (OneWorker).  Overlapping calls lose     *)
(* each other's counters, and the second statement is false of them.         *)
(***************************************************************************)
EXTENDS NodeChannel, TLAPS

OneWorker == \A v, w \in Worker : v = w

-----------------------------------------------------------------------------
(* Type correctness.                                                        *)

\* A counter stops at its limit, and one that has reached it stays.
LEMMA BumpBounded ==
    ASSUME NEW limit \in Nat, NEW n \in 0..limit
    PROVE  /\ Bump(n, limit) \in 0..limit
           /\ n = limit => Bump(n, limit) = limit
  BY DEF Bump

LEMMA OrderTypes == ASSUME NEW s PROVE Order(s) \in Seq(Path)
<1>1. "direct" \in Path /\ "tunnel" \in Path
  BY DEF Path
<1>2. <<"direct", "tunnel">> \in Seq(Path) /\ <<"tunnel", "direct">> \in Seq(Path)
  BY <1>1
<1>3. QED
  BY <1>2 DEF Order

\* A path that is done with leaves paths.
LEMMA TailTypes ==
    ASSUME NEW q \in Seq(Path), q # <<>>
    PROVE  Tail(q) \in Seq(Path)
  OBVIOUS

\* What a step of a call makes of it.
LEMMA MovedTypes ==
    ASSUME NEW c \in Call, NEW s \in State
    PROVE  /\ Moved(c, s) \in Call
           /\ Moved(c, s).st = s
           /\ Moved(c, s).pc = c.pc /\ Moved(c, s).pf = c.pf /\ Moved(c, s).ff = c.ff
           /\ s # c.st => "st" \in Moved(c, s).dirty
           /\ c.dirty \subseteq Moved(c, s).dirty
<1>1. CASE c.st = s
  BY <1>1 DEF Moved, Call
<1>2. CASE c.st # s
  BY <1>2 DEF Moved, Call
<1>3. QED
  BY <1>1, <1>2

LEMMA SuccessTypes ==
    ASSUME NEW c \in Call, NEW path \in Path
    PROVE  /\ Success(c, path) \in Call
           /\ Success(c, path).pc = "ok"
           /\ Success(c, path).st = IF path = "direct" THEN "active" ELSE "degraded"
           /\ Success(c, path).st # c.st => "st" \in Success(c, path).dirty
           /\ Success(c, path).pf # c.pf => "pf" \in Success(c, path).dirty
           /\ Success(c, path).ff # c.ff => "ff" \in Success(c, path).dirty
           /\ c.dirty \subseteq Success(c, path).dirty
<1>1. 0 \in 0..PrimaryLimit /\ 0 \in 0..FallbackLimit
  BY LimitAssumption
<1>2. CASE path = "direct"
  <2> DEFINE d == [c EXCEPT !.pc = "ok", !.pf = 0,
                            !.dirty = IF c.pf = 0 THEN @ ELSE @ \cup {"pf"}]
  <2>1. /\ d \in Call /\ d.pc = "ok" /\ d.st = c.st /\ d.ff = c.ff
        /\ d.pf # c.pf => "pf" \in d.dirty
        /\ c.dirty \subseteq d.dirty
    BY <1>1 DEF Call
  <2> HIDE DEF d
  <2>2. Success(c, path) = Moved(d, "active")
    BY <1>2 DEF Success, d
  <2>3. QED
    BY <1>2, <2>1, <2>2, MovedTypes DEF State
<1>3. CASE path = "tunnel"
  <2> DEFINE d == [c EXCEPT !.pc = "ok", !.ff = 0,
                            !.dirty = IF c.ff = 0 THEN @ ELSE @ \cup {"ff"}]
  <2>1. /\ d \in Call /\ d.pc = "ok" /\ d.st = c.st /\ d.pf = c.pf
        /\ d.ff # c.ff => "ff" \in d.dirty
        /\ c.dirty \subseteq d.dirty
    BY <1>1 DEF Call
  <2> HIDE DEF d
  <2>2. Success(c, path) = Moved(d, "degraded")
    BY <1>3 DEF Success, d
  <2>3. QED
    BY <1>3, <2>1, <2>2, MovedTypes DEF State
<1>4. QED
  BY <1>2, <1>3 DEF Path

LEMMA FailureTypes ==
    ASSUME NEW c \in Call, NEW path \in Path, c.todo # <<>>
    PROVE  /\ Failure(c, path) \in Call
           /\ Failure(c, path).pc = c.pc /\ Failure(c, path).st = c.st
           /\ Failure(c, path).pf # c.pf => "pf" \in Failure(c, path).dirty
           /\ Failure(c, path).ff # c.ff => "ff" \in Failure(c, path).dirty
           /\ c.dirty \subseteq Failure(c, path).dirty
           /\ "st" \in Failure(c, path).dirty => "st" \in c.dirty
           /\ c.ff = FallbackLimit => Failure(c, path).ff = FallbackLimit
<1>1. Tail(c.todo) \in Seq(Path)
  BY TailTypes DEF Call
<1>2. /\ Bump(c.pf, PrimaryLimit) \in 0..PrimaryLimit
      /\ Bump(c.ff, FallbackLimit) \in 0..FallbackLimit
      /\ c.ff = FallbackLimit => Bump(c.ff, FallbackLimit) = FallbackLimit
  BY BumpBounded, LimitAssumption DEF Call
<1>3. QED
  BY <1>1, <1>2 DEF Failure, Call

LEMMA GivenUpTypes ==
    ASSUME NEW c \in Call
    PROVE  LET d == [Moved(c, Verdict(c)) EXCEPT !.pc = "failed"]
           IN  /\ d \in Call /\ d.pc = "failed" /\ d.st = Verdict(c)
               /\ d.pf = c.pf /\ d.ff = c.ff
               /\ d.st # c.st => "st" \in d.dirty
               /\ c.dirty \subseteq d.dirty
<1>1. Verdict(c) \in State
  BY DEF Verdict, State, Call
<1> DEFINE m == Moved(c, Verdict(c))
<1>2. /\ m \in Call /\ m.st = Verdict(c) /\ m.pf = c.pf /\ m.ff = c.ff
      /\ m.st # c.st => "st" \in m.dirty
      /\ c.dirty \subseteq m.dirty
  BY <1>1, MovedTypes
<1> HIDE DEF m
<1>3. QED
  BY <1>2 DEF m, Call

LEMMA TypeInit == Init => TypeOK
<1>1. NoCall \in Call
  BY LimitAssumption DEF NoCall, Call, Purpose, State
<1>2. 0 \in 0..PrimaryLimit /\ 0 \in 0..FallbackLimit /\ 0 \in 0..MaxCrashes
  BY LimitAssumption, CrashesAssumption
<1>3. QED
  BY <1>1, <1>2 DEF Init, TypeOK, State, Alert

LEMMA TypeStep == TypeOK /\ [Next]_vars => TypeOK'
<1> SUFFICES ASSUME TypeOK, [Next]_vars PROVE TypeOK'
  OBVIOUS
<1>n. NoCall \in Call
  BY LimitAssumption DEF NoCall, Call, Purpose, State
<1>c. \A w \in Worker : call[w] \in Call
  BY DEF TypeOK
<1>1. ASSUME NEW w \in Worker, NEW purpose \in Purpose, Begin(w, purpose)
      PROVE  TypeOK'
  <2> DEFINE c == [pc |-> "trying", purpose |-> purpose, todo |-> Order(state),
                   st |-> state, pf |-> pfails, ff |-> ffails, dirty |-> {}]
  <2>1. c \in Call
    BY OrderTypes DEF Call, TypeOK
  <2>2. call' = [call EXCEPT ![w] = c]
    BY <1>1 DEF Begin
  <2> HIDE DEF c
  <2>3. QED
    BY <1>1, <2>1, <2>2 DEF Begin, TypeOK, row
<1>2. ASSUME NEW w \in Worker, Skip(w) PROVE TypeOK'
  <2>1. [call[w] EXCEPT !.todo = Tail(@)] \in Call
    BY <1>2, <1>c, TailTypes DEF Skip, Trying, Call
  <2>2. call' = [call EXCEPT ![w] = [call[w] EXCEPT !.todo = Tail(@)]]
    BY <1>2, <1>c DEF Skip, TypeOK
  <2>3. QED
    BY <1>2, <2>1, <2>2 DEF Skip, TypeOK, row
<1>3. ASSUME NEW w \in Worker, Abort(w) PROVE TypeOK'
  <2>1. [call[w] EXCEPT !.pc = "failed"] \in Call
    BY <1>c DEF Call
  <2>2. call' = [call EXCEPT ![w] = [call[w] EXCEPT !.pc = "failed"]]
    BY <1>3, <1>c DEF Abort, TypeOK
  <2>3. QED
    BY <1>3, <2>1, <2>2 DEF Abort, TypeOK, row
<1>4. ASSUME NEW w \in Worker, NEW path \in Path, Answer(w, path) PROVE TypeOK'
  <2>1. Success(call[w], path) \in Call
    BY <1>c, SuccessTypes
  <2>2. call' = [call EXCEPT ![w] = Success(call[w], path)]
    BY <1>4 DEF Answer, TypeOK
  <2>3. QED
    BY <1>4, <2>1, <2>2 DEF Answer, TypeOK, row
<1>5. ASSUME NEW w \in Worker, NEW path \in Path, Fail(w, path) PROVE TypeOK'
  <2>1. Failure(call[w], path) \in Call
    BY <1>5, <1>c, FailureTypes DEF Fail, Trying
  <2>2. call' = [call EXCEPT ![w] = Failure(call[w], path)]
    BY <1>5 DEF Fail, TypeOK
  <2>3. QED
    BY <1>5, <2>1, <2>2 DEF Fail, TypeOK, row
<1>6. ASSUME NEW w \in Worker, GiveUp(w) PROVE TypeOK'
  <2> DEFINE d == [Moved(call[w], Verdict(call[w])) EXCEPT !.pc = "failed"]
  <2>1. d \in Call
    BY <1>c, GivenUpTypes
  <2>2. call' = [call EXCEPT ![w] = d]
    BY <1>6 DEF GiveUp
  <2> HIDE DEF d
  <2>3. alert' \in Alert
    BY <1>6 DEF GiveUp, TypeOK, Alert
  <2>4. QED
    BY <1>6, <2>1, <2>2, <2>3 DEF GiveUp, TypeOK, row
<1>7. ASSUME NEW w \in Worker, Commit(w) PROVE TypeOK'
  <2>1. state' \in State /\ pfails' \in 0..PrimaryLimit /\ ffails' \in 0..FallbackLimit
    BY <1>7, <1>c DEF Commit, TypeOK, Call
  <2>2. alert' \in Alert
    BY <1>7 DEF Commit, TypeOK, Alert
  <2>3. QED
    BY <1>7, <1>n, <2>1, <2>2 DEF Commit, TypeOK
<1>8. ASSUME NEW w \in Worker, Rollback(w) PROVE TypeOK'
  BY <1>8, <1>n DEF Rollback, TypeOK, row
<1>9. ASSUME NEW w \in Worker, Crash(w) PROVE TypeOK'
  BY <1>9, <1>n, CrashesAssumption DEF Crash, TypeOK, row
<1>10. CASE PathChanges
  BY <1>10 DEF PathChanges, TypeOK, row
<1>11. CASE TunnelChanges
  BY <1>11 DEF TunnelChanges, TypeOK, row, Tunnel
<1>12. CASE UNCHANGED vars
  BY <1>12 DEF vars, row, TypeOK
<1>13. QED
  BY <1>1, <1>2, <1>3, <1>4, <1>5, <1>6, <1>7, <1>8, <1>9, <1>10, <1>11, <1>12
     DEF Next, Work

\* The counters stay within their limits and a call's copy of the row is one,
\* however many calls overlap.
THEOREM TypeCorrect == Spec => []TypeOK
  BY TypeInit, TypeStep, PTL DEF Spec

-----------------------------------------------------------------------------
(* Isolation is earned and an alert put out.  A call works on its copy of the row,  *)
(* so the invariant says what the copy and its dirty columns have to do with *)
(* the row: what is not dirty is as it is stored, and a copy that stands at   *)
(* isolated has used its tunnel up, and an alert has been put out.           *)

CopyFaithful(c) ==
    /\ "st" \notin c.dirty => c.st = state
    /\ "pf" \notin c.dirty => c.pf = pfails
    /\ "ff" \notin c.dirty => c.ff = ffails

CopyEarned(c) ==
    /\ c.pc = "trying" => "st" \notin c.dirty
    /\ c.st = "isolated" => c.ff = FallbackLimit /\ alert # "none"

CallInv == \A w \in Worker :
              call[w].pc # "idle" => CopyFaithful(call[w]) /\ CopyEarned(call[w])

IInv == TypeOK /\ IsolatedForCause /\ CallInv

LEMMA IInvInit == Init => IInv
  BY TypeInit DEF Init, IInv, IsolatedForCause, CallInv, NoCall

LEMMA IInvStep == OneWorker /\ IInv /\ [Next]_vars => IInv'
<1> SUFFICES ASSUME OneWorker, IInv, [Next]_vars PROVE IInv'
  OBVIOUS
<1>t. TypeOK'
  BY TypeStep DEF IInv
<1>c. /\ \A w \in Worker : call[w] \in Call
      /\ DOMAIN call = Worker
      /\ \A v, w \in Worker : v = w
  BY DEF IInv, TypeOK, OneWorker
<1>1. ASSUME NEW w \in Worker, NEW purpose \in Purpose, Begin(w, purpose)
      PROVE  IInv'
  BY <1>1, <1>t, <1>c
     DEF Begin, row, IInv, IsolatedForCause, CallInv, CopyFaithful, CopyEarned
<1>2. ASSUME NEW w \in Worker, Skip(w) PROVE IInv'
  <2>1. /\ call'[w].pc = call[w].pc /\ call'[w].st = call[w].st
        /\ call'[w].pf = call[w].pf /\ call'[w].ff = call[w].ff
        /\ call'[w].dirty = call[w].dirty
    BY <1>2, <1>c DEF Skip, Call
  <2>2. QED
    BY <1>2, <1>t, <1>c, <2>1
       DEF Skip, row, IInv, IsolatedForCause, CallInv, CopyFaithful, CopyEarned
<1>3. ASSUME NEW w \in Worker, Abort(w) PROVE IInv'
  <2>1. /\ call[w].pc = "trying" /\ call'[w].pc = "failed" /\ call'[w].st = call[w].st
        /\ call'[w].pf = call[w].pf /\ call'[w].ff = call[w].ff
        /\ call'[w].dirty = call[w].dirty
    BY <1>3, <1>c DEF Abort, Trying, Call
  <2>2. QED
    BY <1>3, <1>t, <1>c, <2>1
       DEF Abort, row, IInv, IsolatedForCause, CallInv, CopyFaithful, CopyEarned
<1>4. ASSUME NEW w \in Worker, NEW path \in Path, Answer(w, path) PROVE IInv'
  <2>1. call[w].pc = "trying" /\ call'[w] = Success(call[w], path)
    BY <1>4, <1>c DEF Answer, Trying
  <2>2. /\ call'[w].pc = "ok" /\ call'[w].st # "isolated"
        /\ call'[w].st # call[w].st => "st" \in call'[w].dirty
        /\ call'[w].pf # call[w].pf => "pf" \in call'[w].dirty
        /\ call'[w].ff # call[w].ff => "ff" \in call'[w].dirty
        /\ call[w].dirty \subseteq call'[w].dirty
    BY <1>c, <2>1, SuccessTypes
  <2>3. CallInv'
    BY <1>4, <1>c, <2>1, <2>2
       DEF Answer, row, IInv, CallInv, CopyFaithful, CopyEarned
  <2>4. QED
    BY <1>4, <1>t, <2>3 DEF Answer, row, IInv, IsolatedForCause
<1>5. ASSUME NEW w \in Worker, NEW path \in Path, Fail(w, path) PROVE IInv'
  <2>1. /\ call[w].pc = "trying" /\ call[w].todo # <<>>
        /\ call'[w] = Failure(call[w], path)
    BY <1>5, <1>c DEF Fail, Trying
  <2>2. /\ call'[w].pc = "trying" /\ call'[w].st = call[w].st
        /\ call'[w].pf # call[w].pf => "pf" \in call'[w].dirty
        /\ call'[w].ff # call[w].ff => "ff" \in call'[w].dirty
        /\ call[w].dirty \subseteq call'[w].dirty
        /\ "st" \in call'[w].dirty => "st" \in call[w].dirty
        /\ call[w].ff = FallbackLimit => call'[w].ff = FallbackLimit
    BY <1>c, <2>1, FailureTypes
  <2>3. CallInv'
    BY <1>5, <1>c, <2>1, <2>2
       DEF Fail, row, IInv, CallInv, CopyFaithful, CopyEarned
  <2>4. QED
    BY <1>5, <1>t, <2>3 DEF Fail, row, IInv, IsolatedForCause
<1>6. ASSUME NEW w \in Worker, GiveUp(w) PROVE IInv'
  <2> DEFINE d == [Moved(call[w], Verdict(call[w])) EXCEPT !.pc = "failed"]
  <2>1. /\ d.pc = "failed" /\ d.st = Verdict(call[w])
        /\ d.pf = call[w].pf /\ d.ff = call[w].ff
        /\ d.st # call[w].st => "st" \in d.dirty
        /\ call[w].dirty \subseteq d.dirty
    BY <1>c, GivenUpTypes
  <2>2. call'[w] = d /\ call[w].pc = "trying"
    BY <1>6, <1>c DEF GiveUp
  <2> HIDE DEF d
  <2>3. CopyFaithful(call[w])' /\ CopyFaithful(call[w]) /\ CopyEarned(call[w])
    BY <1>6, <1>c, <2>1, <2>2 DEF GiveUp, row, IInv, CallInv, CopyFaithful
  <2>4. d.st = "isolated" => d.ff = FallbackLimit
    BY <1>c, <2>1, <2>3, LimitAssumption DEF CopyEarned, Verdict, Call
  <2>5. d.st = "isolated" => alert' # "none"
    BY <1>6, <2>1, <2>3 DEF GiveUp, Reported, CopyEarned
  <2>6. CallInv'
    BY <1>c, <2>1, <2>2, <2>3, <2>4, <2>5 DEF CallInv, CopyEarned
  <2>7. IsolatedForCause'
    BY <1>6 DEF GiveUp, row, IInv, IsolatedForCause
  <2>8. QED
    BY <1>t, <2>6, <2>7 DEF IInv
<1>7. ASSUME NEW w \in Worker, Commit(w) PROVE IInv'
  <2>1. call[w].pc # "idle" /\ call'[w].pc = "idle"
    BY <1>7, <1>c DEF Commit, NoCall
  <2>2. state' = call[w].st /\ ffails' = call[w].ff
    BY <1>7, <2>1 DEF Commit, IInv, CallInv, CopyFaithful
  <2>3. IsolatedForCause'
    BY <1>7, <2>1, <2>2 DEF Commit, IInv, CallInv, CopyEarned, IsolatedForCause
  <2>4. QED
    BY <1>t, <1>c, <2>1, <2>3 DEF IInv, CallInv
<1>8. ASSUME NEW w \in Worker, Rollback(w) PROVE IInv'
  BY <1>8, <1>t, <1>c DEF Rollback, row, NoCall, IInv, IsolatedForCause, CallInv
<1>9. ASSUME NEW w \in Worker, Crash(w) PROVE IInv'
  BY <1>9, <1>t, <1>c DEF Crash, row, NoCall, IInv, IsolatedForCause, CallInv
<1>10. CASE PathChanges
  BY <1>10, <1>t
     DEF PathChanges, row, IInv, IsolatedForCause, CallInv, CopyFaithful, CopyEarned
<1>11. CASE TunnelChanges
  BY <1>11, <1>t
     DEF TunnelChanges, row, IInv, IsolatedForCause, CallInv, CopyFaithful, CopyEarned
<1>12. CASE UNCHANGED vars
  BY <1>12, <1>t
     DEF vars, row, IInv, IsolatedForCause, CallInv, CopyFaithful, CopyEarned
<1>13. QED
  BY <1>1, <1>2, <1>3, <1>4, <1>5, <1>6, <1>7, <1>8, <1>9, <1>10, <1>11, <1>12
     DEF Next, Work

\* With calls that run one at a time a node is isolated only while its tunnel
\* has failed to the limit since it last worked, and an alert of it was put out:
\* notify_admin was called, which is all the code can say of it.
THEOREM IsolationIsEarned == OneWorker => (Spec => []IsolatedForCause)
<1> SUFFICES ASSUME OneWorker PROVE Spec => []IsolatedForCause
  OBVIOUS
<1>1. IInv /\ [Next]_vars => IInv'
  BY IInvStep
<1>2. IInv => IsolatedForCause
  BY DEF IInv
<1>3. QED
  BY IInvInit, <1>1, <1>2, PTL DEF Spec
=============================================================================
