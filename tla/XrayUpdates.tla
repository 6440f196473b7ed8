------------------------------ MODULE XrayUpdates ------------------------------
(***************************************************************************)
(* Updates of Xray on the nodes: the pass that notices a release and raises *)
(* proposals, the operator who answers in Telegram or in the panel, the     *)
(* pass that applies what was approved over SSH, one node at a time, and    *)
(* the bot that asks and reports.  Everything but the node and the chat is  *)
(* a row of node_updates.                                                   *)
(*                                                                         *)
(* The check pass is called from the loop, the panel and the API, a decision *)
(* from the chat and from the panel, and nothing keeps two of them apart:    *)
(* Checker and Decider are as many as run at once.  A decision reads the     *)
(* pending rows and then writes them by their keys alone.                    *)
(*                                                                         *)
(* The apply pass is one transaction around a remote script of minutes.     *)
(* `applying` is only flushed: no other session ever reads it, and whatever *)
(* ends the pass early (a crash, an error that is neither SshError,         *)
(* XrayUpdateError nor OSError, a failed commit) puts the row back to       *)
(* approved.  One such error is there for good: the SSH secret of a node in *)
(* Unreadable was stored under another SECRETS_KEY.                          *)
(*                                                                         *)
(* Abstracted: who decided; which row of one decision comes first; how long *)
(* the cooldown after a finished attempt lasts.  A finished row past its    *)
(* cooldown that nobody will be told about is read by nothing, and its id   *)
(* stands for a new row afterwards.                                         *)
(***************************************************************************)
EXTENDS Naturals, FiniteSets

CONSTANTS
    Node,
    Id,             \* ids for the rows of `node_updates` that matter at once
    MaxVersion,     \* bound: releases during a run
    MaxCuts,        \* bound: apply passes that end without a commit
    Checker,        \* check passes that may run at once
    Decider,        \* decisions that may be under way at once
    Unreadable,     \* nodes whose SSH secret cannot be decrypted
    None

ASSUME BoundAssumption == MaxVersion \in Nat /\ MaxCuts \in Nat
ASSUME UnreadableAssumption == Unreadable \subseteq Node

Version == 0..MaxVersion

VARIABLES
    row,        \* the table node_updates
    core,       \* the Xray each node runs; None: the node was deleted
    upstream,   \* newest release and newest image
    check,      \* the passes that look for updates
    desk,       \* the decisions that are under way
    job,        \* the pass that applies one
    restarts,   \* how often a node was restarted for an approved row
    cut,        \* how many of its passes ended without a commit
    bot,        \* the bot's poll
    chat        \* rows the operator was asked about, versions with a button

vars == <<row, core, upstream, check, desk, job, restarts, cut, bot, chat>>

\* `after`: the approved rows decided earlier; `fresh`: it finished within the
\* cooldown.
Row == [node : Node, target : Version,
        status : {"pending", "approved", "declined", "applied", "failed"},
        after : SUBSET Id,
        notified : BOOLEAN, reported : BOOLEAN, fresh : BOOLEAN]

ASSUME UpdateNoneAssumption == None \notin Row /\ None \notin Id

\* The rows with a status.
With(status) == {i \in Id : row[i] # None /\ row[i].status = status}

\* A pass is cut short only with the row it works on still approved, and a row
\* waits only for rows that wait.
TypeOK ==
    /\ row \in [Id -> Row \cup {None}]
    /\ core \in [Node -> Version \cup {None}]
    /\ upstream \in [release : Version, image : Version]
    /\ check \in [Checker -> [pc : {"idle", "asking"}, target : Version,
                              raised : SUBSET Node]]
    /\ desk \in [Decider -> [rows : SUBSET Id, verdict : {"approved", "declined"}]]
    /\ job \in [pc : {"idle", "running", "restarted"}, id : Id \cup {None}]
    /\ restarts \in [Id -> Nat] /\ cut \in [Id -> 0..MaxCuts]
    /\ bot \in [pc : {"idle", "asking", "asked", "telling", "told"},
                left : SUBSET Id, sent : SUBSET Id]
    /\ chat \in [asked : SUBSET Id, button : SUBSET Version]
    /\ job.pc # "idle" => job.id \in With("approved")
    /\ \A i \in Id : row[i] # None => row[i].after \subseteq With("approved")

Quiet == [pc |-> "idle", target |-> 0, raised |-> {}]
Empty == [rows |-> {}, verdict |-> "declined"]
Free == [pc |-> "idle", id |-> None]
Asleep == [pc |-> "idle", left |-> {}, sent |-> {}]

Init ==
    /\ row = [i \in Id |-> None]
    /\ core = [n \in Node |-> 0]
    /\ upstream = [release |-> 0, image |-> 0]
    /\ check = [c \in Checker |-> Quiet] /\ desk = [d \in Decider |-> Empty]
    /\ job = Free /\ bot = Asleep
    /\ restarts = [i \in Id |-> 0] /\ cut = [i \in Id |-> 0]
    /\ chat = [asked |-> {}, button |-> {}]

-----------------------------------------------------------------------------
(* Reading the table.  A definition named after another one with a suffix   *)
(* is that code with a plausible slip.                                      *)

Finished == With("applied") \cup With("failed")
OnDesk == UNION {desk[d].rows : d \in Decider}
Unused == {i \in Id : row[i] = None} \ (bot.left \cup bot.sent \cup OnDesk)

\* _suppress_until: asked or queued already, declined, or tried lately.
SuppressedOpenOnly(n, target) ==
    \E i \in Id : /\ row[i] # None /\ row[i].node = n /\ row[i].target = target
                  /\ \/ row[i].status \in {"pending", "approved"}
                     \/ i \in Finished /\ row[i].fresh
Suppressed(n, target) ==
    \E i \in Id : /\ row[i] # None /\ row[i].node = n /\ row[i].target = target
                  /\ \/ row[i].status \in {"pending", "approved", "declined"}
                     \/ i \in Finished /\ row[i].fresh

\* Nobody waits behind rows in S any more.
WithoutKept(table, S) == table
Without(table, S) ==
    [i \in Id |-> IF table[i] = None THEN None
                  ELSE [table[i] EXCEPT !.after = @ \ S]]

\* The rows in S go, with their history.
Dropped(S) ==
    /\ row' = Without([i \in Id |-> IF i \in S THEN None ELSE row[i]], S)
    /\ restarts' = [i \in Id |-> IF i \in S THEN 0 ELSE restarts[i]]
    /\ cut' = [i \in Id |-> IF i \in S THEN 0 ELSE cut[i]]
    /\ chat' = [chat EXCEPT !.asked = @ \ S]

-----------------------------------------------------------------------------
(* The world.                                                               *)

Released ==
    /\ upstream.release < MaxVersion
    /\ upstream' = [upstream EXCEPT !.release = @ + 1]
    /\ UNCHANGED <<row, core, check, desk, job, restarts, cut, bot, chat>>

ImageCatchesUp ==
    /\ upstream.image < upstream.release
    /\ upstream' = [upstream EXCEPT !.image = upstream.release]
    /\ UNCHANGED <<row, core, check, desk, job, restarts, cut, bot, chat>>

\* The cooldown lasts longer than a poll of the bot and than a decision.
CooldownEnds(i) ==
    /\ i \in Finished \ (bot.left \cup bot.sent \cup OnDesk) /\ row[i].fresh
    /\ IF row[i].notified => row[i].reported
       THEN Dropped({i})
       ELSE /\ row' = [row EXCEPT ![i].fresh = FALSE]
            /\ UNCHANGED <<restarts, cut, chat>>
    /\ UNCHANGED <<core, upstream, check, desk, job, bot>>

-----------------------------------------------------------------------------
(* check_for_updates.                                                       *)

\* The look: the release is the newest one, or an earlier one that _cache still
\* holds (latest_release_version); a node that does not answer is passed over, and
\* a pass that finds nothing does nothing.  What is found of one node does not
\* depend on when the others are asked.
Behind(n, v) == core[n] # None /\ core[n] < v /\ ~Suppressed(n, v)
CheckLooks(c) ==
    /\ check[c].pc = "idle"
    /\ \E v \in 1..upstream.release :
         \E S \in (SUBSET {n \in Node : Behind(n, v)}) \ {{}} :
           check' = [check EXCEPT ![c] = [pc |-> "asking", target |-> v, raised |-> S]]
    /\ UNCHANGED <<row, core, upstream, desk, job, restarts, cut, bot, chat>>

Proposed(n, v) ==
    [node |-> n, target |-> v, status |-> "pending", after |-> {},
     notified |-> FALSE, reported |-> FALSE, fresh |-> FALSE]

\* The commit.  With a node deleted meanwhile the foreign key undoes the pass.
CheckCommit(c) ==
    /\ check[c].pc = "asking"
    /\ check' = [check EXCEPT ![c] = Quiet]
    /\ LET raised == check[c].raised
       IN IF \E n \in raised : core[n] = None
          THEN UNCHANGED row
          ELSE \E id \in [raised -> Unused] :
                 /\ \A m, n \in raised : id[m] = id[n] => m = n
                 /\ row' = [i \in Id |->
                              IF \E n \in raised : id[n] = i
                              THEN Proposed(CHOOSE n \in raised : id[n] = i,
                                            check[c].target)
                              ELSE row[i]]
    /\ UNCHANGED <<core, upstream, desk, job, restarts, cut, bot, chat>>

-----------------------------------------------------------------------------
(* Decisions.                                                               *)

\* The rows a decision is about: only pending ones are read.
ReadAny(S)     == {i \in S : row[i] # None}
ReadPending(S) == S \cap With("pending")

Reads(d, S, verdict) ==
    /\ desk[d] = Empty /\ ReadPending(S) # {}
    /\ desk' = [desk EXCEPT ![d] = [rows |-> ReadPending(S), verdict |-> verdict]]
    /\ UNCHANGED <<row, core, upstream, check, job, restarts, cut, bot, chat>>

\* The panel: one row, or every pending row of a version.
PanelDecides(d, S, verdict) ==
    /\ \/ Cardinality(S) = 1
       \/ /\ verdict = "approved"
          /\ \E v \in Version : S = {i \in With("pending") : row[i].target = v}
    /\ Reads(d, S, verdict)

\* A tap on a button that was sent some day: decide_version.
Tap(d, v, verdict) ==
    /\ v \in chat.button
    /\ Reads(d, {i \in Id : row[i] # None /\ row[i].target = v}, verdict)

\* The rows of one decision come after each other: who is ahead of whom.
Orders(S) ==
    {ahead \in [S -> SUBSET S] :
       /\ \A i, j \in S : i # j => (i \in ahead[j] <=> j \notin ahead[i])
       /\ \A j \in S : j \notin ahead[j] /\ \A i \in ahead[j] : ahead[i] \subseteq ahead[j]}

\* _apply_decision on the rows in S, whatever has become of them; what is
\* approved goes behind what was approved before.
Decided(S, verdict, ahead) ==
    LET behind(i) == IF verdict = "approved" THEN (With("approved") \ S) \cup ahead[i]
                     ELSE {}
    IN [i \in Id |-> IF i \in S
                     THEN [row[i] EXCEPT !.status = verdict, !.after = behind(i)]
                     ELSE Without(row, S)[i]]

\* The UPDATE waits for a row that is being applied; with one of the rows gone
\* it fails, and nothing of the decision is written.
DecisionWritten(d) ==
    /\ desk[d] # Empty /\ job.id \notin desk[d].rows
    /\ \E ahead \in Orders(desk[d].rows) :
         row' = IF \E i \in desk[d].rows : row[i] = None THEN row
                ELSE Decided(desk[d].rows, desk[d].verdict, ahead)
    /\ desk' = [desk EXCEPT ![d] = Empty]
    /\ UNCHANGED <<core, upstream, check, job, restarts, cut, bot, chat>>

-----------------------------------------------------------------------------
(* apply_approved: the row decided first.                                   *)

JobTakes(i) ==
    /\ job.pc = "idle" /\ i \in With("approved")
    /\ row[i].after \cap With("approved") = {}
    /\ job' = [pc |-> "running", id |-> i]
    /\ UNCHANGED <<row, core, upstream, check, desk, restarts, cut, bot, chat>>

\* The script recreates the container on the image of the day.
RestartRetried ==
    /\ job.pc # "idle" /\ row[job.id].node \notin Unreadable
    /\ job' = [job EXCEPT !.pc = "restarted"]
    /\ core' = [core EXCEPT ![row[job.id].node] = upstream.image]
    /\ restarts' = [restarts EXCEPT ![job.id] = @ + 1]
    /\ UNCHANGED <<row, upstream, check, desk, cut, bot, chat>>
Restart ==
    /\ job.pc = "running" /\ row[job.id].node \notin Unreadable
    /\ job' = [job EXCEPT !.pc = "restarted"]
    /\ core' = [core EXCEPT ![row[job.id].node] = upstream.image]
    /\ restarts' = [restarts EXCEPT ![job.id] = @ + 1]
    /\ UNCHANGED <<row, upstream, check, desk, cut, bot, chat>>

\* Which ends become a final row: an answer of the script, and the errors that
\* are expected.
WrittenIfOk(i, outcome) ==
    IF outcome = "applied"
    THEN Without([row EXCEPT ![i].status = outcome, ![i].fresh = TRUE], {i})
    ELSE row
Written(i, outcome) ==
    Without([row EXCEPT ![i].status = outcome, ![i].fresh = TRUE], {i})
JobEnds(outcome) ==
    /\ job.pc # "idle" /\ (outcome = "applied" => job.pc = "restarted")
    /\ row[job.id].node \notin Unreadable
    /\ row' = Written(job.id, outcome)
    /\ job' = Free
    /\ restarts' = [restarts EXCEPT ![job.id] = 0]
    /\ cut' = [cut EXCEPT ![job.id] = 0]
    /\ UNCHANGED <<core, upstream, check, desk, bot, chat>>

\* connect cannot decrypt the secret: an error that nobody expects, at every
\* pass again.
SecretFails ==
    /\ job.pc = "running" /\ row[job.id].node \in Unreadable
    /\ job' = Free
    /\ UNCHANGED <<row, core, upstream, check, desk, restarts, cut, bot, chat>>

\* Any other error, a crash, a commit that fails.
JobIsCut ==
    /\ job.pc # "idle" /\ cut[job.id] < MaxCuts
    /\ cut' = [cut EXCEPT ![job.id] = @ + 1]
    /\ job' = Free
    /\ UNCHANGED <<row, core, upstream, check, desk, restarts, bot, chat>>

-----------------------------------------------------------------------------
(* The bot: announce_pending, then report_results.                          *)

\* GET /notifications and GET /results.
ToAsk == {i \in With("pending") : ~row[i].notified}
ToTell == {i \in Finished : row[i].notified /\ ~row[i].reported}

BotAsks ==
    /\ bot.pc = "idle"
    /\ bot' = [bot EXCEPT !.pc = "asking", !.left = ToAsk]
    /\ UNCHANGED <<row, core, upstream, check, desk, job, restarts, cut, chat>>

\* The rows of one message: those of one version.
Message(v) == {i \in bot.left : row[i] # None /\ row[i].target = v}

\* The message is sent.
AskSent(v) ==
    /\ bot.pc = "asking" /\ Message(v) # {}
    /\ bot' = [pc |-> "asked", left |-> bot.left \ Message(v), sent |-> Message(v)]
    /\ chat' = [asked |-> chat.asked \cup Message(v), button |-> chat.button \cup {v}]
    /\ UNCHANGED <<row, core, upstream, check, desk, job, restarts, cut>>

\* Telegram refuses it: the next one, or at a flood limit none this time.
PassedOverAcked(v) ==
    [pc |-> "asked", left |-> bot.left \ Message(v), sent |-> Message(v)]
PassedOver(v) == [bot EXCEPT !.left = @ \ Message(v)]
AskFails(v) ==
    /\ bot.pc = "asking" /\ Message(v) # {}
    /\ bot' = PassedOver(v)
    /\ UNCHANGED <<row, core, upstream, check, desk, job, restarts, cut, chat>>

BotTells ==
    /\ bot.pc = "asking"
    /\ bot' = [Asleep EXCEPT !.pc = "telling"]
    /\ UNCHANGED <<row, core, upstream, check, desk, job, restarts, cut, chat>>

\* A result is sent, or cannot be: acknowledged either way.  Results are final,
\* so reading them one at a time is like reading the list at once.
TellSent(i) ==
    /\ bot.pc = "telling" /\ i \in ToTell
    /\ bot' = [bot EXCEPT !.pc = "told", !.sent = {i}]
    /\ UNCHANGED <<row, core, upstream, check, desk, job, restarts, cut, chat>>

BotSleeps ==
    /\ bot.pc = "telling"
    /\ bot' = Asleep
    /\ UNCHANGED <<row, core, upstream, check, desk, job, restarts, cut, chat>>

\* _stamp on the rows that still exist.  One that is being applied is locked.
AskAcked ==
    /\ bot.pc = "asked" /\ job.id \notin bot.sent
    /\ row' = [i \in Id |-> IF i \in bot.sent /\ row[i] # None
                            THEN [row[i] EXCEPT !.notified = TRUE] ELSE row[i]]
    /\ bot' = [bot EXCEPT !.pc = "asking", !.sent = {}]
    /\ UNCHANGED <<core, upstream, check, desk, job, restarts, cut, chat>>

TellAcked ==
    /\ bot.pc = "told"
    /\ \E i \in bot.sent :
         IF row[i] # None /\ row[i].fresh
         THEN /\ row' = [row EXCEPT ![i].reported = TRUE]
              /\ UNCHANGED <<restarts, cut, chat>>
         ELSE Dropped({i})
    /\ bot' = [bot EXCEPT !.pc = "telling", !.sent = {}]
    /\ UNCHANGED <<core, upstream, check, desk, job>>

\* The head does not answer, or the bot dies: this poll is over.
AckLost ==
    /\ bot.pc \in {"asked", "told"}
    /\ bot' = Asleep
    /\ UNCHANGED <<row, core, upstream, check, desk, job, restarts, cut, chat>>

-----------------------------------------------------------------------------
(* Rows that go.                                                            *)

\* The node is deleted, its rows with it.  A row that is being applied is
\* locked, and the delete waits.
NodeDeleted(n) ==
    /\ core[n] # None
    /\ job.pc # "idle" => row[job.id].node # n
    /\ core' = [core EXCEPT ![n] = None]
    /\ Dropped({i \in Id : row[i] # None /\ row[i].node = n})
    /\ UNCHANGED <<upstream, check, desk, job, bot>>

Work ==
    \/ \E i \in Id : JobTakes(i)
    \/ Restart \/ SecretFails
    \/ \E outcome \in {"applied", "failed"} : JobEnds(outcome)

Poll ==
    \/ BotAsks \/ BotTells \/ BotSleeps \/ AskAcked \/ TellAcked
    \/ \E v \in Version : AskSent(v) \/ AskFails(v)
    \/ \E i \in Id : TellSent(i)

Next ==
    \/ Released \/ ImageCatchesUp
    \/ \E i \in Id : CooldownEnds(i)
    \/ \E c \in Checker : CheckLooks(c) \/ CheckCommit(c)
    \/ \E d \in Decider :
         \/ \E verdict \in {"approved", "declined"} :
              \/ \E S \in SUBSET Id : PanelDecides(d, S, verdict)
              \/ \E v \in Version : Tap(d, v, verdict)
         \/ DecisionWritten(d)
    \/ Work \/ JobIsCut
    \/ Poll \/ AckLost
    \/ \E n \in Node : NodeDeleted(n)

\* The apply pass comes round every few minutes and the script ends.
Spec == Init /\ [][Next]_vars /\ WF_vars(Work)

-----------------------------------------------------------------------------
(* What should hold.                                                        *)

\* The code keeps neither apart: with two of either these are false.
OneChecker == \A c, d \in Checker : c = d
OneDecider == \A c, d \in Decider : c = d

\* What the operator is promised (OperatorConsent), with the rows for the
\* proposals: no restart without a yes, one answer per row, nothing after.
\* (With OneDecider.  Two decisions that overlap, a tap and a click in the panel,
\* have both read the row as pending, and the later one answers it again: see
\* the README on decide's "a no-op rather than a second restart".)
StageOf(i) ==
    IF row[i] = None THEN "none"
    ELSE CASE row[i].status = "pending"  -> "open"
           [] row[i].status = "approved" -> "yes"
           [] row[i].status = "declined" -> "no"
           [] OTHER -> "done"

Consent == INSTANCE OperatorConsent
             WITH Proposal <- Id, stage <- [i \in Id |-> StageOf(i)]

ConsentIsKept == Consent!Spec

\* An approval pays for one restart.  Only a pass that was cut short makes the
\* node be restarted again for the same row.
OneRestartEach == \A i \in Id : restarts[i] <= 1 + cut[i]

\* Nobody is asked again about what is open, was declined, or was tried a
\* moment ago, although the table changes between the look and the commit.
\* (With OneChecker: two passes that overlap, as a click on "check now" during
\* the scheduled one, both look before either commits.)
NoNagging ==
    [][\A i, j \in Id :
         /\ row[i] = None /\ row'[i] # None
         /\ row'[j] # None /\ i # j
         /\ row'[j].node = row'[i].node /\ row'[j].target = row'[i].target
         => j \in Finished /\ ~row[j].fresh]_vars

\* A question counts as asked only if the operator got a message about it: an
\* update nobody was asked about is asked about again (botapp/updates.py).
AskedIsTrue ==
    \A i \in Id : row[i] # None /\ row[i].notified => i \in chat.asked

\* An approved row is applied or fails in the end, whatever is before it and
\* although nodes do not answer, passes are cut short and rows go; unless its
\* own node, or that of a row approved before it, cannot be logged in to.  (The
\* exception is one the docstring of apply_update rules out.)
Stalled(i) == \E j \in {i} \cup row[i].after : row[j].node \in Unreadable
ApprovedEnds ==
    \A i \in Id : i \in With("approved")
                    ~> (i \in With("approved") => Stalled(i))
=============================================================================
