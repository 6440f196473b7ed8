----------------------------- MODULE NodeChannel -----------------------------
(***************************************************************************)
(* The head's control channel to one node (node_manager/channel.py): two   *)
(* paths, direct and through a Reality tunnel, and the ladder              *)
(* active / degraded / isolated kept in the node's row together with a     *)
(* counter of failures in a row for each path.                             *)
(*                                                                         *)
(* call_node reads the row as its caller's transaction loaded it, tries    *)
(* the paths in turn, and writes back only the columns it changed; the     *)
(* caller decides whether any of that is committed.  A worker is a thread  *)
(* with such a transaction.  The paths come and go at any moment, and a    *)
(* node that answers may still refuse the config it is sent.  A node may   *)
(* have no control inbound to tunnel to until a provisioning gives it one, *)
(* and the head may at any moment be unable to start its tunnel client (no *)
(* binary, no disk, no process to be had) and able again: that ends a call *)
(* there and then, for the client is started outside the try of call_node. *)
(*                                                                         *)
(* An isolation is put before the admin by notify_admin, once and as a     *)
(* best effort: unconfigured, or on an error of the way to Telegram, it    *)
(* drops the message and returns, and nothing asks whether it arrived.     *)
(*                                                                         *)
(* Abstracted: a counter stops at its limit, above which the code makes no *)
(* difference; last_seen_at and the NodeChannelEvent rows, which nothing   *)
(* reads back.  The other nodes of a transaction show only in the caller's *)
(* choice between committing and rolling back, and in the row lock it      *)
(* holds until then.                                                       *)
(***************************************************************************)
EXTENDS Naturals, Sequences

CONSTANTS
    Worker,         \* threads that can have a call in progress
    PrimaryLimit,   \* node_channel_primary_fails_before_fallback
    FallbackLimit,  \* node_channel_fallback_fails_before_isolated
    MaxCrashes      \* bound on the calls that are cut short

ASSUME LimitAssumption ==
    PrimaryLimit \in Nat \ {0} /\ FallbackLimit \in Nat \ {0}
ASSUME CrashesAssumption == MaxCrashes \in Nat

VARIABLES
    state,      \* nodes.channel_state
    pfails,     \* nodes.consecutive_primary_fails
    ffails,     \* nodes.consecutive_fallback_fails
    tunnel,     \* what there is to tunnel with just now
    up,         \* the paths that work just now
    alert,      \* what became of the last alert of an isolation
    crashes,    \* how many calls were cut short
    call        \* the call of each worker

row  == <<state, pfails, ffails>>
vars == <<state, pfails, ffails, tunnel, up, alert, crashes, call>>

State == {"active", "degraded", "isolated"}
Path  == {"direct", "tunnel"}
Tunnel == {"none", "starts", "cannot_start"}
\* "none": no alert was put out since a commit last left the node unisolated.
Alert == {"none", "sent", "dropped"}

\* Why a call is made, which decides who is called and what happens to the
\* bookkeeping of a call that failed.
\*   place    assign_config: a request that may answer 503 without a commit
\*   sweep    sweep_expired, which commits whatever happened
\*   recover  run_node_recovery: a status call, committed whatever happened
\*   check    check_for_updates: a status call, committed whatever happened
Purpose == {"place", "sweep", "recover", "check"}

\* A call: the paths still to try, the row as the transaction sees it, and
\* which columns it will write.
Call == [pc : {"idle", "trying", "ok", "failed"}, purpose : Purpose,
         todo : Seq(Path), st : State,
         pf : 0..PrimaryLimit, ff : 0..FallbackLimit,
         dirty : SUBSET {"st", "pf", "ff"}]

NoCall == [pc |-> "idle", purpose |-> "sweep", todo |-> <<>>, st |-> "active",
           pf |-> 0, ff |-> 0, dirty |-> {}]

TypeOK ==
    /\ state \in State
    /\ pfails \in 0..PrimaryLimit
    /\ ffails \in 0..FallbackLimit
    /\ tunnel \in Tunnel
    /\ up \in SUBSET Path
    /\ alert \in Alert
    /\ crashes \in 0..MaxCrashes
    /\ call \in [Worker -> Call]

Init ==
    /\ state = "active" /\ pfails = 0 /\ ffails = 0
    /\ tunnel \in Tunnel
    /\ up = Path
    /\ alert = "none"
    /\ crashes = 0
    /\ call = [w \in Worker |-> NoCall]

-----------------------------------------------------------------------------

\* One more failure in a row, as far as the limits can tell.
BumpTwice(n, limit) == IF n < limit THEN n + 2 ELSE limit
Bump(n, limit) == IF n < limit THEN n + 1 ELSE limit

\* The path that worked last time goes first.
OrderStuck(s) == IF s = "active" THEN <<"direct", "tunnel">> ELSE <<"tunnel">>
Order(s) == IF s = "active" THEN <<"direct", "tunnel">>
                            ELSE <<"tunnel", "direct">>

\* The flush waits for a transaction that has written the row already.
RowFree(w) == \A v \in Worker \ {w} : call[v].pc \notin {"ok", "failed"}

\* Which nodes each purpose calls: selection leaves isolated nodes out, the
\* recovery loop takes every node that is not active.
WantsDegraded(purpose) ==
    /\ purpose = "place" => state # "isolated"
    /\ purpose = "recover" => state = "degraded"
Wants(purpose) ==
    /\ purpose = "place" => state # "isolated"
    /\ purpose = "recover" => state # "active"

Begin(w, purpose) ==
    /\ call[w].pc = "idle"
    /\ Wants(purpose)
    /\ purpose # "place" =>
         \A v \in Worker : call[v].pc # "idle" => call[v].purpose # purpose
    /\ call' = [call EXCEPT ![w] =
                  [pc |-> "trying", purpose |-> purpose, todo |-> Order(state),
                   st |-> state, pf |-> pfails, ff |-> ffails, dirty |-> {}]]
    /\ UNCHANGED <<row, tunnel, up, alert, crashes>>

\* _record_transition: the state is written when it differs from the one the
\* transaction knows, and an isolation is reported to the admin before the
\* flush.
Moved(c, s) ==
    [c EXCEPT !.st = s, !.dirty = IF c.st = s THEN @ ELSE @ \cup {"st"}]

\* A path answers and the node does what it is asked: its counter restarts,
\* and the state follows the path.
Success(c, path) ==
    IF path = "direct"
    THEN Moved([c EXCEPT !.pc = "ok", !.pf = 0,
                         !.dirty = IF c.pf = 0 THEN @ ELSE @ \cup {"pf"}],
               "active")
    ELSE Moved([c EXCEPT !.pc = "ok", !.ff = 0,
                         !.dirty = IF c.ff = 0 THEN @ ELSE @ \cup {"ff"}],
               "degraded")

\* A path does not answer, or the node refuses what it is sent.
Failure(c, path) ==
    IF path = "direct"
    THEN [c EXCEPT !.pf = Bump(@, PrimaryLimit), !.dirty = @ \cup {"pf"},
                   !.todo = Tail(@)]
    ELSE [c EXCEPT !.ff = Bump(@, FallbackLimit), !.dirty = @ \cup {"ff"},
                   !.todo = Tail(@)]

\* Every path is used up.
VerdictEager(c) ==
    IF c.ff > 0 THEN "isolated"
    ELSE IF c.pf >= PrimaryLimit THEN "degraded" ELSE c.st
Verdict(c) ==
    IF c.ff >= FallbackLimit THEN "isolated"
    ELSE IF c.pf >= PrimaryLimit THEN "degraded" ELSE c.st

Trying(w, path) ==
    call[w].pc = "trying" /\ call[w].todo # <<>> /\ Head(call[w].todo) = path

\* Without a control inbound there is nothing to tunnel to.
Skip(w) ==
    /\ Trying(w, "tunnel") /\ tunnel = "none"
    /\ call' = [call EXCEPT ![w].todo = Tail(@)]
    /\ UNCHANGED <<row, tunnel, up, alert, crashes>>

\* The error leaves call_node: no other path is tried, no verdict is reached,
\* and the caller sees a failure of a kind assign_config does not expect.
Abort(w) ==
    /\ Trying(w, "tunnel") /\ tunnel = "cannot_start"
    /\ RowFree(w)
    /\ call' = [call EXCEPT ![w].pc = "failed"]
    /\ UNCHANGED <<row, tunnel, up, alert, crashes>>

Usable(path) == path = "direct" \/ tunnel = "starts"

Answer(w, path) ==
    /\ Trying(w, path) /\ Usable(path) /\ path \in up
    /\ RowFree(w)
    /\ call' = [call EXCEPT ![w] = Success(@, path)]
    /\ UNCHANGED <<row, tunnel, up, alert, crashes>>

\* A status call fails with its path only; a push is also refused by a node
\* whose Xray does not start on it.
Fail(w, path) ==
    /\ Trying(w, path) /\ Usable(path)
    /\ path \in up => call[w].purpose \in {"place", "sweep"}
    /\ call' = [call EXCEPT ![w] = Failure(@, path)]
    /\ UNCHANGED <<row, tunnel, up, alert, crashes>>

\* An isolation that the transaction did not know of is reported at once, and
\* only that once: _record_transition returns early when nothing changes.
ReportedFromDegraded(c) == Verdict(c) = "isolated" /\ c.st = "degraded"
Reported(c) == Verdict(c) = "isolated" /\ c.st # "isolated"

GiveUp(w) ==
    LET c == call[w] IN
    /\ c.pc = "trying" /\ c.todo = <<>>
    /\ RowFree(w)
    /\ call' = [call EXCEPT ![w] =
                  [Moved(c, Verdict(c)) EXCEPT !.pc = "failed"]]
    /\ alert' \in IF Reported(c) THEN {"sent", "dropped"} ELSE {alert}
    /\ UNCHANGED <<row, tunnel, up, crashes>>

\* COMMIT writes the changed columns over whatever is there by now.
Commit(w) ==
    LET c == call[w] IN
    /\ c.pc \in {"ok", "failed"}
    /\ state'  = IF "st" \in c.dirty THEN c.st ELSE state
    /\ pfails' = IF "pf" \in c.dirty THEN c.pf ELSE pfails
    /\ ffails' = IF "ff" \in c.dirty THEN c.ff ELSE ffails
    /\ alert' = IF state' = "isolated" THEN alert ELSE "none"
    /\ call' = [call EXCEPT ![w] = NoCall]
    /\ UNCHANGED <<tunnel, up, crashes>>

\* connect and report answer 503 and reconciliation rolls back when no node
\* took the user.
Rollback(w) ==
    /\ call[w].pc = "failed" /\ call[w].purpose = "place"
    /\ call' = [call EXCEPT ![w] = NoCall]
    /\ UNCHANGED <<row, tunnel, up, alert, crashes>>

\* The process stops, or the database ends the transaction as the victim of a
\* deadlock over the rows of several nodes.
Crash(w) ==
    /\ call[w].pc # "idle"
    /\ crashes < MaxCrashes
    /\ crashes' = crashes + 1
    /\ call' = [call EXCEPT ![w] = NoCall]
    /\ UNCHANGED <<row, tunnel, up, alert>>

PathChanges ==
    /\ up' \in SUBSET Path /\ up' # up
    /\ UNCHANGED <<row, tunnel, alert, crashes, call>>

\* The tunnel client stops being startable or becomes so again; a node without
\* a control inbound is given one, which no code takes away.
TunnelChanges ==
    /\ tunnel' \in {"starts", "cannot_start"} /\ tunnel' # tunnel
    /\ UNCHANGED <<row, up, alert, crashes, call>>

Work(w) ==
    \/ Skip(w) \/ Abort(w)
    \/ \E path \in Path : Answer(w, path) \/ Fail(w, path)
    \/ GiveUp(w)

Next ==
    \/ \E w \in Worker : \/ \E purpose \in Purpose : Begin(w, purpose)
                         \/ Work(w) \/ Commit(w) \/ Rollback(w) \/ Crash(w)
    \/ PathChanges \/ TunnelChanges

Spec == Init /\ [][Next]_vars

\* Threads carry their calls to an end, and the recovery loop comes round
\* every two minutes for as long as the node is not active.
Fairness ==
    \A w \in Worker :
      /\ WF_vars(Work(w))
      /\ WF_vars(Commit(w) \/ Rollback(w))
      /\ SF_vars(Begin(w, "recover"))

FairSpec == Spec /\ Fairness

-----------------------------------------------------------------------------

\* Isolation is earned, and announced as far as the head can: a node is isolated
\* only while its tunnel has failed FallbackLimit times since it last worked,
\* and never without an alert having been put out, whichever calls are cut short
\* or undone between.  Whether the alert reached the admin is not claimed: one
\* that is dropped is not repeated (telegram_signal.py, _record_transition).
IsolatedForCause == state = "isolated" => ffails = FallbackLimit /\ alert # "none"

\* A node with a path that works again and stays so does not remain isolated:
\* users are sent to it again.  Selection never calls an isolated node, so this
\* is the recovery loop's doing.  A direct path is enough only on a head whose
\* tunnel client starts, or with no tunnel to try: the client is started first,
\* and its failure ends the call before the direct path is reached.
IsolationEnds ==
    (\/ <>[]("direct" \in up /\ tunnel # "cannot_start")
     \/ <>[]("tunnel" \in up /\ tunnel = "starts"))
      => []<>(state # "isolated")

\* With the tunnel gone and the direct path there for good, the channel comes
\* back to the direct path, on the same condition.
DirectReturns ==
    <>[](up = {"direct"} /\ tunnel # "cannot_start") => []<>(state = "active")

\* Every call that tried all its paths in vain is counted: the failures that
\* drive the ladder are committed, also when the attempt they belong to is
\* undone.
FailureIsCounted ==
    [][\A w \in Worker :
         call[w].pc = "failed" /\ call[w].todo = <<>> /\ call'[w].pc = "idle"
           => pfails' = call[w].pf /\ ffails' = call[w].ff]_vars
=============================================================================
