------------------------------ MODULE Delivery ------------------------------
(* How a changed configuration reaches whoever uses it.  The head moves       *)
(* accounts without being asked and queues a row for each (ConfigPush,        *)
(* src/head/app/db/models/outbox.py); the bot drains the rows to chats        *)
(* (src/bot/botapp/outbox.py over src/head/app/api/routers/pushes.py), while  *)
(* accounts come, link and fold underneath.                                   *)
(*                                                                            *)
(* A link is named by what matters: whether it is still the account's.  Which *)
(* node it is on, and how it is chosen, is Placement's and Blocking's.        *)
EXTENDS Accounts, Sequences, SequencesExt

CONSTANTS
    Push,           \* rows of config_pushes
    MaxFaults       \* bound on crashes, lost calls, flood control, bad sends

ASSUME DeliveryAssumption ==
    /\ None \notin Chat \cup Push
    /\ MaxFaults \in Nat

VARIABLES
    live,       \* accounts with a live assignment
    why,        \* history: who asked for it, and whether a push of it failed
    queue,      \* the pending pushes, oldest first
    of,         \* the account of each pending push
    knows,      \* the chats whose last link is the account's present one
    bot,        \* the batch the outbox worker is at, or None
    faults

vars == <<accountVars, live, why, queue, of, knows, bot, faults>>

\* One row of the answer of /pushes/pending: whose it is, the chat to send to,
\* and the link rendered at that moment, which a later change makes stale.
Item == [push : Push, user : Account, to : Chat \cup {None},
         link : {"none", "fresh", "stale"}]
\* What the worker still has to send, and the acknowledgement it is about to
\* make for the head of the batch.
Bot == [todo : Seq(Item), ack : {"none", "ok", "error"}]

ASSUME DeliveryNoneAssumption == None \notin Bot

TypeOK ==
    /\ AccountsOK
    /\ live \subseteq Account
    /\ why \in [Account -> {"asked", "moved", "missed"}]
    /\ queue \in Seq(Push) /\ IsInjective(queue)
    /\ of \in [Push -> Account \cup {None}]
    /\ \A p \in Push : of[p] # None <=> p \in Range(queue)
    /\ knows \subseteq Chat
    /\ bot \in Bot \cup {None}
    /\ bot # None => bot.todo # <<>>
    /\ faults \in 0..MaxFaults

Init ==
    /\ AccountsInit
    /\ live = {}
    /\ why = [a \in Account |-> "asked"]
    /\ queue = <<>>
    /\ of = [p \in Push |-> None]
    /\ knows = {}
    /\ bot = None
    /\ faults = 0

Fault == faults < MaxFaults /\ faults' = faults + 1

-----------------------------------------------------------------------------
(* A changed row, and what every holder of the old link is left with.         *)

Stale(link) == IF link = "fresh" THEN "stale" ELSE link

\* The batch after the accounts in A lost the link they had.
Aged(item, A) ==
    IF item.user \in A THEN [item EXCEPT !.link = Stale(@)] ELSE item
Outdated(A) ==
    IF bot = None THEN None
    ELSE [bot EXCEPT !.todo = [i \in DOMAIN @ |-> Aged(@[i], A)]]

\* Account a gets another link, or none.
Changes(a, alive, reason) ==
    /\ live' = IF alive THEN live \cup {a} ELSE live \ {a}
    /\ why' = [why EXCEPT ![a] = reason]
    /\ bot' = Outdated({a})

\* The elements of K in the order they have in s.  This is SelectSeq written
\* as a recursive function, which the prover can look into.
Kept(s, K) ==
    LET f[i \in 0..Len(s)] ==
          IF i = 0 THEN <<>>
          ELSE IF s[i] \in K THEN Append(f[i - 1], s[i]) ELSE f[i - 1]
    IN  f[Len(s)]

\* Rows go with the row they refer to.
Dropped(A) ==
    /\ queue' = Kept(queue, {p \in Push : of[p] \notin A})
    /\ of' = [p \in Push |-> IF of[p] \in A THEN None ELSE of[p]]

\* /connect and /report-failure of an account's own chat or device: the answer
\* is the new link, so nothing is queued.  A chat of the account that did not
\* ask is not told.
Connect(a, asker) ==
    /\ status[a] # "none"
    /\ asker \in Owned(identity, a) \cup Owned(session, a)
    /\ asker \in Device => Authenticates(asker)
    /\ Changes(a, TRUE, "asked")
    /\ knows' = (knows \ Owned(identity, a)) \cup ({asker} \cap Chat)
    /\ UNCHANGED <<accountVars, queue, of, faults>>

\* fail_handler or tiering moves an account with a live row and queues it.
Move(a, p) ==
    /\ a \in live
    /\ of[p] = None
    /\ bot # None => \A i \in DOMAIN bot.todo : bot.todo[i].push # p
    /\ Changes(a, TRUE, "moved")
    /\ queue' = Append(queue, p)
    /\ of' = [of EXCEPT ![p] = a]
    /\ knows' = knows \ Owned(identity, a)
    /\ UNCHANGED <<accountVars, faults>>

\* The sweep releases the row of an account without time, or a ban does.
Release(a) ==
    /\ a \in live
    /\ Changes(a, FALSE, why[a])
    /\ knows' = knows \ Owned(identity, a)
    /\ UNCHANGED <<accountVars, queue, of, faults>>

\* The node is deleted, and with it the assignment and the pushes of it.
NodeDeleted(a) ==
    /\ a \in live
    /\ Changes(a, FALSE, why[a])
    /\ Dropped({a})
    /\ knows' = knows \ Owned(identity, a)
    /\ UNCHANGED <<accountVars, faults>>

-----------------------------------------------------------------------------
(* Accounts move underneath.                                                  *)

Delivery == <<live, why, queue, of, knows, bot>>

\* What does not touch a link.
Enrol ==
    /\ \/ \E a \in Account : \/ \E d \in Device : Register(d, a)
                             \/ \E c \in Chat : Start(c, a)
                             \/ CodeExpires(a)
                             \/ Ban(a) \/ Unban(a)
       \/ \E d \in Device : StartLink(d)
    /\ UNCHANGED <<Delivery, faults>>

\* A chat attached to an account has seen none of its links.
Link(c, a) ==
    /\ Attach(c, a)
    /\ knows' = IF identity[c] = a THEN knows ELSE knows \ {c}
    /\ UNCHANGED <<live, why, queue, of, bot, faults>>

\* Folding deletes the absorbed account: its assignment and its pushes go.
\* Chats that come with it hold a link that is nobody's.
Folds(c, a) ==
    /\ Fold(c, a)
    /\ live' = live \ {a}
    /\ why' = [why EXCEPT ![a] = "asked"]
    /\ bot' = Outdated({a})
    /\ Dropped({a})
    /\ knows' = knows \ Owned(identity, a)
    /\ UNCHANGED faults

-----------------------------------------------------------------------------
(* The outbox worker.                                                         *)

\* pending: each row with any Telegram identity of its account and the link
\* that is live now.
Rendered(p, to) ==
    [push |-> p, user |-> of[p], to |-> to,
     link |-> IF of[p] \in live THEN "fresh" ELSE "none"]

FetchBatch ==
    /\ bot = None /\ queue # <<>>
    /\ \E to \in [Range(queue) -> Chat \cup {None}] :
          /\ \A p \in DOMAIN to :
                IF Owned(identity, of[p]) = {} THEN to[p] = None
                ELSE to[p] \in Owned(identity, of[p])
          /\ bot' = [todo |-> [i \in DOMAIN queue |-> Rendered(queue[i], to[queue[i]])],
                     ack |-> "none"]
    /\ UNCHANGED <<accountVars, live, why, queue, of, knows, faults>>

Turn == bot.todo[1]
Sending == bot # None /\ bot.ack = "none"

\* Telegram takes the message: the chat now holds this link, fresh or stale.
Told(c, link) == IF link = "fresh" THEN knows \cup {c} ELSE knows \ {c}

\* Not reachable over Telegram, or no active assignment: dropped.
Unreachable ==
    /\ Sending
    /\ Turn.to = None \/ Turn.link = "none"
    /\ bot' = [bot EXCEPT !.ack = "error"]
    /\ UNCHANGED <<accountVars, live, why, queue, of, knows, faults>>

\* Acknowledged whether or not it was sent.
SendAfterAck ==
    /\ Sending
    /\ Turn.to # None /\ Turn.link # "none"
    /\ bot' = [bot EXCEPT !.ack = "ok"]
    /\ \/ knows' = Told(Turn.to, Turn.link) /\ UNCHANGED faults
       \/ Fault /\ UNCHANGED knows
    /\ UNCHANGED <<accountVars, live, why, queue, of>>

Send ==
    /\ Sending
    /\ Turn.to # None /\ Turn.link # "none"
    /\ knows' = Told(Turn.to, Turn.link)
    /\ bot' = [bot EXCEPT !.ack = "ok"]
    /\ UNCHANGED <<accountVars, live, why, queue, of, faults>>

\* Flood control ends the batch; any other error, a user who blocked the bot
\* or a network that failed, ends this row.
SendFails ==
    /\ Sending
    /\ Turn.to # None /\ Turn.link # "none"
    /\ bot' \in {None, [bot EXCEPT !.ack = "error"]}
    /\ Fault
    /\ UNCHANGED <<accountVars, live, why, queue, of, knows>>

\* ack_push.  A row that is gone is a 404, which ends the batch.
RestToTheEnd == [todo |-> Tail(bot.todo), ack |-> "none"]
Rest == IF Len(bot.todo) = 1 THEN None
        ELSE [todo |-> Tail(bot.todo), ack |-> "none"]
ClosedUnlessFailed(p) ==
    IF bot.ack = "error" THEN UNCHANGED <<queue, of>>
    ELSE /\ queue' = Kept(queue, Push \ {p})
         /\ of' = [of EXCEPT ![p] = None]
Closed(p) ==
    /\ queue' = Kept(queue, Push \ {p})
    /\ of' = [of EXCEPT ![p] = None]

Ack ==
    /\ bot # None /\ bot.ack # "none"
    /\ IF of[Turn.push] = None
       THEN bot' = None /\ UNCHANGED <<queue, of, why>>
       ELSE /\ bot' = Rest
            /\ Closed(Turn.push)
            /\ why' = IF bot.ack = "error"
                      THEN [why EXCEPT ![of[Turn.push]] = "missed"] ELSE why
    /\ UNCHANGED <<accountVars, live, knows, faults>>

\* The bot dies or the head does not answer, at whatever point of a batch.
BotStops ==
    /\ bot # None
    /\ bot' = None
    /\ Fault
    /\ UNCHANGED <<accountVars, live, why, queue, of, knows>>

BotStep == FetchBatch \/ Unreachable \/ Send \/ Ack

-----------------------------------------------------------------------------
Next ==
    \/ Enrol
    \/ \E a \in Account : \/ \E x \in Chat \cup Device : Connect(a, x)
                          \/ \E c \in Chat : Link(c, a) \/ Folds(c, a)
                          \/ Release(a)
    \/ \E a \in Account : NodeDeleted(a) \/ \E p \in Push : Move(a, p)
    \/ BotStep \/ SendFails \/ BotStops

\* The worker is a loop with a sleep in it; nothing else has to happen.
Spec == Init /\ [][Next]_vars /\ WF_vars(BotStep)

-----------------------------------------------------------------------------
(* What it promises.                                                          *)

\* A user who was moved without asking hears of it: once nothing of the
\* account is queued, and unless one of its pushes could not be delivered,
\* some chat of it holds the link that is live, through crashes of the bot,
\* batches that were rendered before a later move, and folded accounts.
MovedIsTold ==
    \A a \in Account :
        a \in live /\ why[a] = "moved" /\ (\A p \in Push : of[p] # a)
            => knows \cap Owned(identity, a) # {}

\* No row wedges the queue: each is closed in the end, delivered or not.
QueueDrains ==
    \A p \in Push : of[p] # None ~> of[p] = None
=============================================================================
