# FreeSkyVPN: a formal model of the head

TLA+ models of the part of FreeSkyVPN that decides who is online: the head
(`src/head/app`), the nodes it configures, and the database between them.
Around it: the accounts people hold, the outbox and the bot that tells them of a
change, the machinery that takes servers in and updates them, and the proxy that
carries the head's own traffic. TLC checks the models on small instances; TLAPS
proves every safety invariant and action property of the passing runs for every
number of users, nodes, ports, tokens, pushes and rows. What is left to TLC alone
is liveness.

## The system

The head is a FastAPI process with PostgreSQL. Request handlers are plain
functions in a thread pool; six background loops (`services/scheduler.py`) run
in threads beside them. Each request or loop turn is one READ COMMITTED
transaction of a SQLAlchemy session without autoflush: rows are read once,
changed in memory, flushed as absolute values of the columns that changed, and
committed last. A session closed without a commit is rolled back. A node runs
Xray with one full configuration and knows nothing of the database.

| Component | State | Operations | Talks to |
|---|---|---|---|
| Placement: `config_selector`, `node_sync`, `tiering`, `enforcement`, `config_render` | `assignments`, `Node.load`; the config in each node | place on connect, move on a class change, sweep the lapsed | channel (push), access (entitlement), outbox (ConfigPush) |
| Control channel: `node_manager/channel.py` | `nodes.channel_state` and two counters; tunnel processes | call over direct or tunnel path, change of state, alert | node API, Telegram; called by placement, sweep, recovery, update check |
| Access: `services/access.py`, `routers/me.py` | `users.access_*`, `ad_nonces`, `ad_views` | prepare, view, verified view, grace, manual grant, revoke | placement, in the same transaction |
| Accounts: `user_auth.py` | `users`, identities, sessions, link codes | register, authenticate, link, merge | deletes rows of access and placement by cascade |
| Reactive blocking: `fail_handler`, `inbound_factory` | `inbounds` (state, counters, port, SNI), `fail_reports` | report, declare dead, burn, migrate, pick port and SNI | placement, several users in one transaction |
| Xray updates: `xray_updates` | `node_updates` | propose, decide, apply over SSH, notify | bot, channel |
| Loops: `scheduler.py` | none | sweep 60 s, recovery 120 s, tiers 30 min, updates, SNI | all of the above |
| Outbox and bot: `routers/pushes.py`, `bot/botapp` | `config_pushes` | fetch, send, acknowledge | head API, Telegram |
| Android app | cached link, token, tunnel, countdown | connect, watch ads, report, disconnect | head API, Xray, tun device |
| Provisioning, SNI discovery, egress | `nodes`, `sni_*`, a system account | SSH bootstrap, probing, self-healing proxy | nodes |
| Admin panel, CLI, installer, economics | audit log | forms over the above; tooling | head services |

What makes each of them correct:

* Placement: one live row per user; nobody over capacity; a link that was
  handed out works; a user cut off is cut off everywhere; an entitled user is
  never left without a place; whoever is moved unasked is told.
* Channel: the state says what the recent calls say; a node is isolated only
  after its tunnel failed often enough, an alert is put out, and the way back exists.
* Access: time is never taken by an ad, never banked above the cap, a token
  pays for its package and no more, the fallback is spaced, and the ledger
  explains what was served.
* Accounts: merging loses nothing and launders nothing.
* Reactive blocking: a threshold counts what it says; no stranded user; ports
  not shared.
* Updates: each approved update runs once and ends in a final state.
* Outbox: each push is delivered or dropped for a reason, with a live link.
* App: the tunnel and the screen agree; a dead link is replaced.

The hard behaviours are the node that answers late or not at all between a
flush and a commit, hand-written reversals inside a transaction, bookkeeping
that shares the fate of its caller's transaction, absolute writes by
overlapping requests, and processes that die in between. `PROJECT.json` lists
them with their lines under `hazards`.

## Modules

| Module | Models |
|---|---|
| `Placement` | assignments as three parties see them: table, open transactions, nodes |
| `PlacementProofs` | the theorems about `Placement` |
| `MCPlacement` | symmetry for its instances |
| `NodeChannel` | the ladder of one node's control channel, its callers and their transactions |
| `NodeChannelProofs` | the theorems about `NodeChannel` |
| `AccessLedger` | the entitlement of accounts, tokens, grants and merges |
| `AccessLedgerProofs` | the theorems about `AccessLedger` |
| `MCAccessLedger` | package sizes and symmetry for its instances |
| `Blocking` | failure reports: windows, dead inbounds, burned nodes, ports, the users moved with the reporter |
| `BlockingProofs` | the theorems about `Blocking` |
| `MCBlocking` | what the nodes occupy, their seats, the repeated provisioning, and symmetry |
| `OperatorConsent` | what the update machinery promises: no restart without a yes, an answer is final |
| `XrayUpdates` | checks, proposals, decisions, the apply pass, the bot that asks and reports; implements `OperatorConsent` |
| `XrayUpdatesProofs` | the theorems about `XrayUpdates`, the refinement among them |
| `Provisioning` | one server, the head's rows of it, and everything that can touch either |
| `MCProvisioning` | symmetry for its instance |
| `ProvisioningProofs` | the theorems about `Provisioning` |
| `Accounts` | accounts, Telegram identities, device tokens, link codes, folding, bans |
| `Delivery` | extends `Accounts`: links that change, the outbox, the bot's worker |
| `DeliveryProofs` | the theorems about `Accounts` and `Delivery` |
| `Egress` | the container that carries the head's own traffic |
| `EgressProofs` | its type invariant |

A definition named after another with a suffix (`CeilingOffByOne`,
`PinnedOnce`) is that code with a plausible slip, used to show that a property
can fail. Nothing else uses it. What two modules share they do not repeat: which
node and inbound a user gets is `Placement`'s and `Blocking`'s, so `Delivery` and
`Egress` know of a link only whether it is still good; what a merge does to time
is `AccessLedger`'s, so `Accounts` moves identities and sessions only.

### Placement

`live` is the committed rows with `released_at IS NULL`, `config` what each node
runs, `queued` the users with an undelivered ConfigPush, `tx` the open
transaction of each worker: the rows it inserted (`added`), released (`rel`) and
un-released (`unrel`), the candidates it still has (`todo`), the node it is
talking to (`at`), and the config it has rendered (`image`).

`Connect`, `Grant` and `Reconcile` are the three ways into `assign_config`;
`TryNode` is one turn of its loop up to the push, `PushOk` and `PushFail` the
push, `Undo` the except branch, `Finish` and `NoCapacity` its two ends with what
each caller commits. `SweepBegin`, `SweepRelease`, `SweepNext` and `SweepCommit`
are `sweep_expired`, one transaction over all nodes. `Abort` is a crash or a
failed commit. A failed push may have reached the node (`late`): the answer to a
restart can be lost. Row locks are guards (`RowsFree`, `NodesFree`).

Abstracted: an inbound is its node and class; time is a stretch that may lapse
at any moment; which nodes are isolated is an arbitrary choice at each
selection. Capacity is constant and no node is drained or deleted.

### NodeChannel

One node's row (`state`, `pfails`, `ffails`), the paths that work just now
(`up`), what there is to tunnel with just now (`tunnel`: no control inbound, a
client that starts, a client that does not), what became of the last alert
(`alert`), and the call of each worker. A call copies the row, tries the paths in
`Order`, and its `dirty` columns reach the row at `Commit`; `Rollback` is a caller
that answers 503 or gives up. `Abort` is the tunnel client failing to start, which
leaves `call_node` without a verdict because it happens outside its `try`;
`TunnelChanges` makes the client fail or start at any moment. `notify_admin` sends
the alert or drops it (unconfigured, or an error on the way to Telegram), and
nothing repeats it while the node stays isolated. Counters stop at their limits,
above which the code makes no difference.

### AccessLedger

`account` holds the three columns of the entitlement, `token` the rows of
`ad_nonces`, `unserved` what `ad_views` records for an account less the time it
has been online since, `tx` what a request read and decided. A request starts,
time may pass, and `Write` lays the columns it changed over the account as it is
by then. `Merge` is `merge_accounts`. The class change that follows a grant is
`Placement`'s `Grant`. The head's own egress account is outside the ledger: every look-up
gives it 3650 days (`services/egress.py:66`) and no `ad_views` row.

### Blocking

`db` is the committed tables: a row per inbound with its port, state, the counter
of its window, whether the window is open (`open`), the users whose reports fall
into it (`by`), whether it died within the window (`fresh`), and the seat of each user.
`tx` is the one request being served, `runs` the configs its pushes have left in
the nodes. `control` are the ports of each node's control inbounds, which
every config carries (`Image`), `occupied` the ports recorded as taken on the node.
`Reprovision` is what another pass of provisioning over a node in service does to
both: it records what listens at that moment, its own inbounds among it if Xray is
up, and adds one more control inbound on a port chosen from that record alone.
`overrun` remembers where that met a living inbound.

`Connect`, `ReportFew` and `ReportLast` are the requests up to the first placement
(`_check_cooldown`, `_bump_fail_count`, the threshold, `died_at`, the burned node).
`Placing` and `Turn` are `assign_config`'s choice of nodes, `Attempts` its choice of
an inbound (`live_inbound`, or `create_inbound` with `pick_port`), `Accept` and
`Refuse` the push and the reversal, `Break` and `NoPort` errors the reversal does
not catch, `NoCapacity` its end. `MoveNext` takes up the next stranded user,
whom an error leaves behind with a log line (`PassOver`); an error of the reporter's own
placement ends the request (`RollBack`). `Commit` and `Crash` end it too.

The session is part of the model where it shows: `inbound.assignments` is loaded
once per object, a row added by its foreign key does not enter it, and objects
live for as long as something refers to them. `held` are the inbounds whose loaded
collection survives, `unseen` the users seated on one since.

Abstracted: one service class; the SNI; the cooldown of a reporter, which may
lapse between any two requests; which of several equal ports, inbounds or users is
first.

### XrayUpdates and OperatorConsent

`row` is `node_updates`, `core` the Xray on each node, `upstream` the newest release
and the newest image, `check`, `desk`, `job` and `bot` what is under way, `chat`
what the operator has seen. `CheckLooks` and `CheckCommit` are `check_for_updates`
around its slow calls to the nodes, by each of `Checker`: the loop, the panel and
the API run it, and nothing keeps them apart. `PanelDecides` and `Tap` are the two
ways to answer (a button stays in the chat for ever, and a tap decides every
pending row of its version). They read the pending rows, and `DecisionWritten`
writes them by key, whatever has become of them, one decision for each of `Decider`.
`JobTakes`, `Restart`, `JobEnds` are `apply_approved` in one transaction,
`JobIsCut` whatever ends it without a commit, `SecretFails` the one error that
comes back at every pass: the secret of a node in `Unreadable` cannot be decrypted.
`BotAsks` to `AckLost` are one poll of the bot. `OperatorConsent` has only the stage
of each proposal and the number of restarts, and `XrayUpdates` maps `row` to a stage
(`StageOf`).

### Provisioning

`row` are the rows of one server, `srv` the server (root password, authorized keys,
container with certificate and port, what listens), `pass` the pass under way with
its own copy of a row, `rot` a password that was changed on the server and not
yet stored. A server has a name and an address, and the operator types either.
`Begin` looks the row up by what was typed or creates one; `Apply` replaces the host
by the address, where the node could find it out. `Begin` to `Rotate` are the steps
of `provision_node`, `Finish` and `GiveUp` its ends, `Break` an error outside its
list or the end of the process. Each remote step may fail after it has worked: a cut
connection reads as exit status -1. `RegisterByHand` is the older script, which
adds a row whatever rows there are; `RotateByHand`/`StoreRotated`, `RescanPorts`,
`SetStatus`, `Delete` are the panel and the command line, `Push` what any
placement does to the server, `ResetPassword` the hoster. A pass holds its
row's lock, so what writes that row waits for it (`Unlocked`); what only runs over SSH
does not. Assumed: one installation of a server at a time, which is the operator's
own discipline.

`vouched` and `orphaned` are history: whether the row became active by something
other than a pass that went through or an operator who knew, or its server was
installed for another row since; and whether a pass was cut where a key is on the
server that no row could record, or such a row was deleted.

### Accounts and Delivery

`identity` and `session` map chats and devices to accounts, `coded` are the accounts
with a usable link code, `barred` who was banned. `Register`, `Start`, `StartLink`,
`Attach`, `Fold`, `Ban`, `Unban` are the endpoints; `Merge` is `merge_accounts` for
what is not time.

`Delivery` adds for each account whether it has a live assignment and who asked for
it (`why`), the pending pushes in order, and for each chat whether the last link it
was shown is the account's present one (`knows`). `FetchBatch` renders the links of
a whole batch, and what changes afterwards makes them stale; `Unreachable`, `Send`,
`SendFails` and `Ack` are one row of the batch, `BotStops` a death at any point.
Deleting a node or folding an account takes assignments and pushes with it.

Operations on accounts are atomic, and a batch is the whole queue where the endpoint
stops at 50 rows. A ban that commits while a merge of the same account is under way
would be overwritten by it, and that order is not modelled. `MovedIsTold` excepts
whoever could not be reached; the bot acknowledges any failed send but a flood limit as such
(`outbox.py`), a transient one included.

### Egress

`row` is the inbound of the egress account, `link` what the container holds and
whether the node still serves it, `proxy` its xray, `failures` the failed probes in
a row. `Moved` and `PushedAgain` are what the head does to the account without
telling anyone; `Fetch`, `StartProxy`, `Notice`, `Probe`, `RestartPinned`, `Report`
the loop of `egress.py`; `FetchIsLost` and `ReportIsLost` a commit whose answer is
lost. A fetched link is one the node serves; one it did not would be found out at the
next report.

## Runs

| Run | Shows | Bounds |
|---|---|---|
| `placement_moves` | type, one live row per user, capacity, working links, sweep honesty, no lost place, queued moves | 2 users, 2 nodes, 2 ids, one request at a time, capacity 1, crashes and late pushes; about 1.1 million states |
| `placement_live` | a lapsed user is released | 1 user, 1 node, crashes and late pushes, fairness |
| `placement_race` | two placements on one node drop one of the two clients (counterexample) | 2 users, 1 node, 2 workers |
| `channel_ladder` | type, isolation earned and an alert put out, end of isolation, return to the direct path | 1 node, limits 3 and 3 as configured, 2 calls cut short, a tunnel client that fails and recovers at any moment; about 27,000 states |
| `channel_counted` | failures of a request that ends in 503 are not counted (counterexample) | 1 node, nothing cut short |
| `ledger_sequential` | type, cap, one live token, no extra view, ledger, time never taken, grace spaced | 2 accounts, 2 tokens, time 1 to 3, cap 2, package of two views; about 2 million states |
| `blocking` | type, ports a node can bind, whole moves of stranded users, inbounds killed by distinct users but for one | 3 users, 2 nodes (3 seats and 1), 3 inbounds, 1 preferred and 1 fallback port, thresholds 3 and 2, one repeated provisioning; about 2.1 million states |
| `blocking_unserved` | a user moved by a report is missing from the config that was pushed for the move (counterexample) | the same |
| `updates` | type, one restart for an approval, no false "asked", no nagging, `OperatorConsent` implemented, approved updates end | 3 nodes, one of them with an unreadable secret, 2 rows, 1 release, each row's pass cut once, one check pass and one decision at a time; about 770,000 states |
| `provisioning` | type, an active node can be called, the head can get in | 1 server with two names, 2 rows, 2 control and 2 tunnel ports, 4 draws of keys and passwords; about 2.3 million states |
| `delivery` | type, bans stick, moved users are told, nobody is signed out, the queue drains | 2 accounts, 1 chat, 1 device, 2 pushes, 1 fault; about 220,000 states |
| `egress` | type, the way out heals | 3 inbounds, 3 failed probes as configured, 4 faults; about 3,300 states |

Why the bounds are enough to be of interest. Two nodes of capacity 1 make every
placement meet a full node, a failing first choice and a second one; two users
compete for both. Two ids suffice because an id nobody refers to can be drawn
again. One sweep over two nodes reaches the case where one push works and the
other fails. In the channel the limits are the configured ones, so each counter
goes through all its values. In the ledger the cap is reached by one manual
grant and a view, the fallback interval passes within the horizon, and a token
outlives its time to live.

In `Blocking` three users are the fewest with which an inbound dies (two who
report, one of them twice) and somebody is stranded on it; three inbounds let two
of one node be dead, which burns it, and a third be made. One node keeps the
fallback port for itself and has one seat, so ports and seats both run out. The
threshold is 3 where the default is 5: the smallest at which a suspect inbound, closed
from the second report on, still needs another account. One pass of provisioning
over the node with the occupied port is enough to lay a control inbound over a
living one and to record the node's own ports as taken. In
`XrayUpdates` two rows are a second proposal for a node whose first was
answered as well as one for each of two nodes, and a row whose history no longer
matters is used again; three nodes let one of two rows wait behind the node that
cannot be logged in to. In `Provisioning` four draws are two passes with rotations
and resets between them, and two rows are a server known under both its names, or
registered by hand beside a pass. In `Delivery` a second account is what there is to fold, and a
second push is one rendered in the same batch and one queued meanwhile. In
`Egress` two faults set up a lost answer over a moved account and two more hit the
way back.

`updates` has one check pass and one decision at a time, and says so: `NoNagging`
and `ConsentIsKept` are false of overlapping ones, see Findings. Its other
properties hold with two of each as well (checked for two deciders, proved for any
number).

Runs with one worker, and `Blocking`, model requests one at a time. The properties
they check are not all true of overlapping requests: `placement_race` shows the
first to fail in `Placement`. In the ledger it is `TimeIsNeverTaken`, which
`MCAccessLedgerSequential.cfg` with `Worker = {w1, w2}` refutes: two overlapping
grants each write the expiry they computed from what they read, and the
later commit wins with an earlier one.

Two more behaviours of `Placement` that no property of the runs forbids.
A process that dies between push and commit of a move within one node leaves
the node without the client that the live row names, until something else pushes
that node (`node_sync.py` calls the gap harmless). A move pushes the new node only,
and the id it leaves behind on the old node works until that node is pushed for
another reason, beyond the end of the user's time as well.

### Fairness

`placement_live` assumes that a thread which started a request carries it on
(weak fairness of its steps), that the sweep comes round again (its loop sleeps
60 seconds and `run_access_expiry` catches every exception), that a node asked
again and again answers some day, and that crashes do not single out the sweeps
whose pushes worked: strong fairness of the push, of the step after a push that
worked and of a commit with something released. Without that last part every
successful sweep could die and every failing one commit. `channel_ladder` assumes that calls end and that the
recovery loop, every 120 seconds, gets its turn whenever the node is repeatedly
not active; calls cut short are bounded by `MaxCrashes`. Nothing is assumed of
the network or of the tunnel client: the two liveness properties say themselves
which path stays up, and that the client starts or there is nothing to tunnel to.

`updates` assumes weak fairness of the apply pass as a whole (`Work`, the pass that
cannot decrypt a secret included): its loop comes round every few minutes and
catches every exception, and the script has a timeout; crashes and passing errors
are bounded by `MaxCuts` for each row, the unreadable secret by nothing. Which of several rows is
taken is not left to fairness: the code takes the one decided first, which
`after` records. `delivery` assumes the bot's worker keeps going (`BotStep`: a loop
with a sleep, in a process that is restarted), and bounds its deaths and failed
sends by `MaxFaults`. `egress` assumes the same of the container's loop
(`EgressStep`), and of the world that it stops getting worse: moves, blocks, hung
processes and lost answers are bounded, and the censor blocks one inbound at a
time. `ApprovedEnds`, `QueueDrains` and `WayOutHeals` need no more than weak
fairness because nothing else disables the steps for good.

### Findings

* Two placements on one node: the second push, rendered without the first one's
  uncommitted row, invalidates a link already answered (`placement_race`).
* `assign_config` promises that the failure bookkeeping survives; `connect`
  answers 503 without a commit and loses it, so a lone failing node asked only by
  users stays at zero (`channel_counted`).
* A report that declares an inbound dead moves several users in one session. The
  renderer reads `inbound.assignments`, which is loaded once and not refreshed by
  rows added through their foreign key. On the node of the reported inbound the
  objects survive between two pushes, because `report_failure` holds the node and
  the channel loads `node.inbounds` when it looks for the tunnel, or because the
  exception of a refused push is kept. The user moved second is then missing from
  the config and is told of a link that does not work (`blocking_unserved`).

The code also does otherwise than a comment, docstring or test says at the places
below. Each was refuted by TLC with the change of a module or a cfg that the table
names; the property of the runs that comes closest excepts the case in so many
words.

| The repository says | Refuted | How |
|---|---|---|
| `inbound_fail_threshold`: "once this many distinct users report it" (`config.py:45`) | every inbound dies with `Cardinality(by) >= FailThreshold` | `MCBlocking.cfg` as it is: the author of the first report returns before the second, and is counted twice. `KillersAreDistinct` has the bound that holds |
| "Exactly one inbound per node is not a customer inbound" (`config_render.py:8`) | no two inbounds of a config on one port | `MCBlocking.cfg` as it is: a repeated pass adds a control inbound over a living one |
| occupied ports are asked "while nothing of ours is running yet" (`provisioning.py:153`) | a repeated pass records none of the node's own inbounds | `MCBlocking.cfg` as it is |
| "The one thing recycling must not do is hand back the port that was just blocked" (`inbound_factory.py:49`), "never the one that just got blocked" (`tests/test_port_reuse.py:1`) | no new inbound gets a port out of `BurnedPorts` | `MCBlocking.cfg` as it is: the fallback range is chosen without them |
| users whose migration fails "keep their (dead) assignment" (`fail_handler.py:168`) | the seat of a `broken` user does not change | `MCBlocking.cfg` as it is: what the broken placement had flushed is committed |
| isolated: "alert an admin over Telegram" (`channel.py:15`) | `state = "isolated" => alert = "sent"` | `MCNodeChannelLadder.cfg` as it is: the alert is dropped and not repeated |
| isolated: "keep retrying both on every subsequent call" (`channel.py:16`) | `IsolationEnds` and `DirectReturns` without their condition on `tunnel` | `MCNodeChannelLadder.cfg` as it is: the client that cannot start ends the call before the direct path |
| declined: "asking again is nagging" (`xray_updates.py:165`) | `NoNagging` | `MCXrayUpdates.cfg` with `Checker = {c1, c2}`: both passes look before either commits |
| "a second tap ... or an approval that races the admin panel — is a no-op rather than a second restart" (`xray_updates.py:237`) | `ConsentIsKept` | `MCXrayUpdates.cfg` with `Decider = {d1, d2}`: both read the row as pending, and the later answers a row that was applied meanwhile |
| "Never raises", lest it "stall every update behind it" (`xray_updates.py:313`) | every approved row ends | `MCXrayUpdates.cfg` as it is: the row whose secret cannot be decrypted is taken first at every pass |
| "a repeated attempt for the same address continues the former row, it does not start a second one" (`provisioning.py:118`) | at most one row, without `RegisterByHand` | `MCProvisioning.cfg`: the first pass replaced the typed name by the address, the retry looks for the name. `ActiveAnswers` of the first row fails with it when the bootstrap of the retry is not counted in `vouched` |

What the models do and no comment forbids is listed under `hazards` with an empty
list of properties, or with a note: the row of a node registered by hand, in
service and without a key, is deleted by a failed pass over the same host;
each retried pass adds a control inbound; an account folded into another
loses the configuration its device was using; an update answered before the bot's
question was acknowledged is never reported in the chat.

## Proofs

Every theorem holds for all values of the constants under the assumptions named
in the modules. Some carry a hypothesis of their own:

| Hypothesis | Means | Why |
|---|---|---|
| `OneWorker` | at most one request or loop turn has a transaction open | the property is false of overlapping ones (see Runs) |
| `OneDecider` | at most one decision about updates is under way | overlapping ones answer a row twice (see Findings) |
| `OneChecker` | at most one check for updates is under way | overlapping ones raise a proposal twice (see Findings) |
| `GraceLeavesRoom` | `GraceCapacity <= Capacity` | `free_admission_ratio` is 0.8 by default; nothing in the code keeps it at or below 1 |

The assumptions of the modules say that `None` is none of the values it stands
beside, that chats and devices are different things, that the preferred ports lie
outside the fallback ranges (`services/tiers.py`), that limits, packages and
durations are positive, and that `Placement`'s sets are finite.

### Placement (`PlacementProofs`)

| Theorem | Property | Hypothesis |
|---|---|---|
| `PlacementTypeOK` | `TypeOK` | |
| `OneActive` | `OneActivePerUser` | `OneWorker` |
| `CommittedLink` | `CommittedLinkWorks` | `OneWorker` |
| `SweepReleases` | `SweepReleasesOnlyRemoved` | `OneWorker` |
| `EntitledKeeps` | `EntitledKeepsPlace` | `OneWorker` |
| `UnaskedMoves` | `UnaskedMoveIsQueued` | `OneWorker` |
| `NodesHaveRoom` | `WithinCapacity` | `OneWorker`, `GraceLeavesRoom` |

None of them is inductive. `TypeInv` adds to `TypeOK`
that an open placement knows its user and class and that a push has a node; the
counts compared at admission are natural numbers because the table is finite
(`FiniteAssumption`). `IInv`
describes what an open transaction may look like at each point: a placement
holds as `prev` exactly the live rows of its user, releases them exactly while it
has a row of its own, and has nothing left after a reversal; a sweep releases
only doomed rows, and what it has released and not put back is gone from the
nodes it has finished with; the rendered image is the transaction's view of
one node. `CommitEffect` then says what a commit does to the live rows, and each
action property follows at `Finish`, `NoCapacity` and `SweepCommit`, the only
steps that change `live` (`LiveChangesAtCommit`). Capacity needs `RoomInv` besides:
what selection saw stays true until it is used, so every candidate still to be
tried, the one at hand included, has a seat left.

### NodeChannel (`NodeChannelProofs`)

`TypeCorrect` proves `TypeOK` for any number of overlapping calls.
`IsolationIsEarned` proves `IsolatedForCause` under `OneWorker`, for any limits. A
call works on a copy of the row and writes back the columns it touched, so
the invariant (`CallInv`) speaks of the copy: it agrees with the row wherever it is
not dirty, and a copy that says isolated has counted every failure and put out the
alert before the row says so. That the alert arrived is no part of it.

### AccessLedger (`AccessLedgerProofs`)

| Theorem | Property | Hypothesis |
|---|---|---|
| `TypeCorrect` | `TypeOK` | |
| `NobodyBanksMore` | `CappedAhead` | |
| `TokenEndsWithItsPackage` | `NoExtraView` | |
| `ServedIsExplained` | `ServedIsRecorded` | |
| `OneTokenEach` | `OneLiveToken` | `OneWorker` |
| `TimeIsKept` | `TimeIsNeverTaken` | `OneWorker` |
| `GraceKeepsItsInterval` | `GraceIsSpaced` | `OneWorker` |

The first four hold however requests overlap, which the run does not try. A
request writes what it computed from what it read, so their invariants speak of
what is held in a request as much as of the tables: the expiry it read is capped
(`CapInv`), the token it found has a view to go (`ViewInv`), the ledger covers
the time any request still believes in (`ServedInv`). The last three rest on
`FreshInv`, that what a request read is what is there now, which is what one
worker means.

### Blocking (`BlockingProofs`)

| Theorem | Property | Hypothesis |
|---|---|---|
| `TypeCorrect` | `TypeOK` | |
| `ConfigsCanBeBound` | `PortsBindable` | |
| `MovesAreWhole` | `StrandedMoveIsWhole` | |
| `KillersAreMany` | `KillersAreDistinct` | |

`StepEffect` reduces every step to one of a few effects on the tables, which the
invariants use instead of the actions. `PortInv`: the living inbounds of one node
have different ports in the committed tables and in the request's, each of them
apart from what else the node is known to run unless a pass of provisioning has met
it (`overrun`), and the request knows every committed inbound, so that a port it
finds free is free. `KillInv`: the reports of an open window are at most one more
than their authors. The first report leaves the inbound active, so its author may be
seated there again; the second makes it suspect, a suspect inbound seats nobody, and
so only that one author can still be counted twice (`AgainOnce`, and `AgainHereOnce`
for the report being served, whose author leaves before anything is
committed). `MoveInv`:
whoever still waits sits where they sat, and whoever was moved is whole at every
moment of the request and not only at its commit, because a later push to the same
node must list them again.

### XrayUpdates (`XrayUpdatesProofs`)

| Theorem | Property | Hypothesis |
|---|---|---|
| `UpdatesTypeOK` | `TypeOK` | |
| `ApprovalPaysOnce` | `OneRestartEach` | |
| `MarkedMeansAsked` | `AskedIsTrue` | |
| `NobodyIsNagged` | `NoNagging` | `OneChecker` |
| `ConsentRefined` | `ConsentIsKept`: `Spec` implements `OperatorConsent!Spec` | `OneDecider` |

In the refinement initial states map to initial states, and each action to `Raise`,
`Answer`, `Restart`, `End`, `Drop` or a stutter. `TypeOK` alone is not inductive: an
acknowledgement of a result may drop its row,
which needs `ToldOK`, that what the bot has just told of is finished or gone, and a
decision may write over a row that ended since it was read, which needs `DeskOK`,
that such a row is still a fresh one. With one decision at a time no such row is there:
what was read as pending still is, or is gone (`DeskPending`).
`Fates` says what a step can do to one row, which the other lemmas use instead of
the actions. `OneRestartEach` needs that a pass which has restarted the node counts
itself among the cut ones or still runs; `AskedIsTrue` that what the bot is about to
acknowledge was sent; `NoNagging` that what the check pass looked for stays true
while it asks nodes (`LookedInv`): with one pass at a time no row appears
meanwhile, an approved row
is never about an update the pass will propose, and only such a row
starts a cooldown.

### Provisioning (`ProvisioningProofs`)

`TypeCorrect`, `NodeInRotationAnswers` (`ActiveAnswers`) and `HeadCanGetIn`
(`WayIn`), for any rows, ports, draws and number of passes. `TypeInv` adds that no
row has more control inbounds on a port than there were passes (`CountsOK`), that a
changed password waits only where there is a row, and that a pass past the bootstrap
has a container. Several rows may speak of the server: `vouched` is kept for each,
because installing it for one takes the certificate from under the others. While a pass
rebuilds a node its committed row is out of date, so `PassAnswers` speaks of the row
the pass will commit. The key is known by some row or by the copy in the pass
(`KeyKnown`), and opens the server from any (`KeyOpens`).

### Accounts and Delivery (`DeliveryProofs`)

`TypeCorrect`, `BanCannotBeShaken` (`BanSticks`), `HoldersStaySignedIn`
(`NobodySignedOut`) and `MovesAreTold` (`MovedIsTold`). The account part is inductive
with `HoldersExist`: whatever a device or a chat leads to exists. For a
moved user `ToldInv` says where the news is at each moment: a push is open, or the
message under way to one of the account's chats carries the live link, or a chat
holds it and no stale message for that chat is still to be sent after it; no push
is twice in a batch. `Delivery` filters its queue with `Kept`, a recursive function
for `SelectSeq`, which is RECURSIVE and out of the prover's sight.

### Egress (`EgressProofs`)

`TypeCorrect` (`TypeOK`). Its other property is liveness.

### Model-checked only

`LapsedIsReleased`, `IsolationEnds`, `DirectReturns`, `ApprovedEnds`,
`QueueDrains` and `WayOutHeals` are liveness under fairness, out of the
prover's reach together with ENABLED. `FailureIsCounted` and `MovedIsServed` are
false of the code, and so is `CommittedLinkWorks` without `OneWorker`: a run shows
the counterexample of each.

## Not modelled

* The Android application: screens, link parsing and a service whose
  interleavings are the platform's callbacks. What it asks of the head are actions
  of `AccessLedger`, `Accounts` and `Delivery`.
* SNI discovery and the SNI of an inbound: probing over the network; no state of
  the models depends on the result.
* Keys, certificates, link formats, transports, routing policy: pure functions
  whose values the models treat as identities.
* The tunnel process and its cache, beyond whether it starts; the sessions of a
  node's API, of which a new caller evicts the previous one, beyond letting a push
  fail on a working path.
* The panel's login, listings and audit log; the bot's keyboards and texts.
* The bootstrap script beyond clearing, starting and failing at any point; the
  diagnosis of a node, which reads only.
* Migrations, installer, menu, smoke test, the economics model: tooling without
  state of the running system.

## Plan

Done: placement, channel, ledger, reactive blocking, updates with their abstract
specification, provisioning, accounts and delivery, egress, and the proofs of every
safety invariant and action property of the passing runs. What is left, in this
order:

1. `Seating`, an abstract promise of placement (seats given and taken atomically),
   with `Placement` under one worker implementing it, proved step by step.
2. What survives overlapping requests in `Placement` and `NodeChannel`: which part
   of `IInv` and of `CallInv` holds without `OneWorker`.
3. For the liveness properties, the invariants and single steps they rest on (a
   sweep that finds a lapsed row releases it or keeps it for a later one).
4. `SniPool` (candidates verified, burned and drawn) beneath `Blocking`.
