---------------------------- MODULE Provisioning ----------------------------
(* How a server becomes a node: src/head/app/services/provisioning.py over    *)
(* ssh_manager.py, driven by the panel's form and by `add-node`, and the      *)
(* older path by hand (src/provisioning/provision_node.py and POST            *)
(* /register).  One server, the head's rows of it, and everything that can    *)
(* touch either: passes, password rotations, pushes, the operator and the     *)
(* hoster.  Servers share nothing, so one is enough.                          *)
(*                                                                            *)
(* The server has a name and an address, and the operator types either: a row *)
(* is looked up by what was typed, and the bootstrap replaces it by the       *)
(* address.  Registering by hand looks nothing up.  So one server may have    *)
(* several rows.  One installation of a server at a time is assumed: it is    *)
(* the operator who starts them, and the row lock keeps apart only those of   *)
(* one row.                                                                   *)
(*                                                                            *)
(* A pass is one database transaction around minutes of SSH.  What it writes  *)
(* into its own copy of the row is seen by nobody before the commit; what it  *)
(* does to the server is seen at once and survives a rollback.                *)
EXTENDS Naturals, FiniteSets

CONSTANTS
    MaxGen,     \* bound: how many passes, rotations and resets may happen
    RowId,      \* bound: rows the server may have at once
    Host,       \* what the operator may type to mean the server
    Reported,   \* the one of them that bootstrap_node.sh reports
    Control,    \* control ports: CONTROL_PORT_RANGE, 1 is the preferred one
    Reality,    \* ports of the tunnel inbound, 1 is the preferred one
    None

ASSUME ProvisioningAssumption ==
    /\ MaxGen \in Nat \ {0}
    /\ Control \subseteq Nat /\ Reality \subseteq Nat
    /\ 1 \in Control /\ 1 \in Reality /\ Reported \in Host

VARIABLES
    row,        \* the committed rows of the server
    srv,        \* the server itself
    pass,       \* the pass under way, or None
    rot,        \* per row, a password set by "rotate" and not yet stored
    issued,     \* the last password the hoster gave the operator
    gen,        \* how many keys, certificates and passwords were generated
    vouched,    \* history: the head's passes made the row active, and nothing
                \* installed the server for another row since
    orphaned    \* history: a key was left behind in a way nobody can record

vars == <<row, srv, pass, rot, issued, gen, vouched, orphaned>>

\* Everything generated is fresh, so what the nth draw yields is called n; the
\* hoster's first password is 0.
Draw == 0..MaxGen
Secret == Draw \cup {None}

\* The columns of a Node row that provisioning writes, and how many control
\* inbounds it has on each port.
Row == [host: Host, key: Secret, password: Secret, cert: Secret, port: Control,
        status: {"active", "draining"}, occupied: SUBSET Reality,
        controls: [Reality -> 0..MaxGen]]

Container == [cert: Draw, port: Control]

\* The server: its root password, the head's keys it accepts, the
\* marzban-node container with its certificate and port, the ports its Xray
\* has bound, and ports somebody else holds.
Server == [password: Draw, keys: SUBSET Draw,
           run: Container \cup {None},
           listens: SUBSET Reality,
           foreign: [control: SUBSET Control, reality: SUBSET Reality]]

Step == {"begun", "keyed", "planned", "booted", "applied", "rotated", "failed"}
Pass == [step: Step, of: RowId, id: Draw, typed: Draw, real: Reality, row: Row]

ASSUME ProvisioningNoneAssumption ==
    /\ None \notin Nat /\ None \notin Row
    /\ None \notin Container /\ None \notin Pass

TypeOK ==
    /\ row \in [RowId -> Row \cup {None}]
    /\ srv \in Server
    /\ pass \in Pass \cup {None}
    /\ rot \in [RowId -> Secret]
    /\ issued \in Draw
    /\ gen \in Draw
    /\ vouched \in [RowId -> BOOLEAN]
    /\ orphaned \in BOOLEAN

NewRow(h) == [host |-> h, key |-> None, password |-> None, cert |-> None,
              port |-> 1, status |-> "draining", occupied |-> {},
              controls |-> [p \in Reality |-> 0]]

Init ==
    /\ row = [r \in RowId |-> None]
    /\ \E c \in SUBSET Control, r \in SUBSET Reality :
          srv = [password |-> 0, keys |-> {}, run |-> None, listens |-> {},
                 foreign |-> [control |-> c, reality |-> r]]
    /\ pass = None
    /\ rot = [r \in RowId |-> None]
    /\ issued = 0
    /\ gen = 0
    /\ vouched = [r \in RowId |-> TRUE]
    /\ orphaned = FALSE

-----------------------------------------------------------------------------
(* The ports.                                                                 *)

\* _free_port: the preferred one, else the first free candidate, else the
\* preferred one all the same.
FreePortOrNone(occupied, candidates) ==
    LET free == candidates \ occupied
    IN  IF 1 \in free THEN 1
        ELSE IF free = {} THEN 0 ELSE CHOOSE p \in free : \A q \in free : p <= q
FreePort(occupied, candidates) ==
    LET free == candidates \ occupied
    IN  IF 1 \in free \/ free = {} THEN 1
        ELSE CHOOSE p \in free : \A q \in free : p <= q

\* listening_ports: what `ss` shows, ours included, split by kind.
ControlSeen == srv.foreign.control \cup
               (IF srv.run = None THEN {} ELSE {srv.run.port})
RealitySeen == srv.foreign.reality \cup srv.listens

\* The head can call the node: the pinned certificate on the recorded port.
Reaches(r) == srv.run # None /\ r.cert = srv.run.cert /\ r.port = srv.run.port

\* ssh_manager.connect without a password: the stored key, and only where
\* there is none, the stored password.
OpensBy(r) == IF r.key # None THEN r.key \in srv.keys
              ELSE r.password # None /\ r.password = srv.password

-----------------------------------------------------------------------------
(* A pass: provision_node.                                                    *)

Continues(step, r) == pass' = [pass EXCEPT !.step = step, !.row = r]
Stops == Continues("failed", pass.row)

\* The row is found by its host (any of several) or created, marked draining
\* and flushed: the row lock is held from here on, and nothing is committed.
RowsOf(h) == {r \in RowId : row[r] # None /\ row[r].host = h}

Begin(h, r) ==
    /\ pass = None
    /\ IF RowsOf(h) = {} THEN row[r] = None ELSE r \in RowsOf(h)
    /\ gen < MaxGen
    /\ gen' = gen + 1
    /\ pass' = [step |-> "begun", of |-> r, id |-> gen + 1, typed |-> issued,
                real |-> 1,
                row |-> IF row[r] = None THEN NewRow(h)
                        ELSE [row[r] EXCEPT !.port = 1, !.status = "draining"]]
    /\ UNCHANGED <<row, srv, rot, issued, vouched, orphaned>>

\* install_key appends to authorized_keys.
AuthorizedOnly(keys, k) == {k}
Authorized(keys, k) == keys \cup {k}

\* check_connectivity and install_key, both with the operator's password: the
\* key is installed and stored; or the login is refused; or the connection
\* goes after the key was appended, which reads as exit status -1.
LogIn ==
    /\ pass # None /\ pass.step = "begun"
    /\ \/ /\ pass.typed = srv.password
          /\ srv' = [srv EXCEPT !.keys = Authorized(@, pass.id)]
          /\ Continues("keyed", [pass.row EXCEPT !.key = pass.id])
          /\ UNCHANGED orphaned
       \/ /\ pass.typed = srv.password
          /\ srv' = [srv EXCEPT !.keys = Authorized(@, pass.id)]
          /\ Stops
          /\ orphaned' = (orphaned \/ pass.row.key = None)
       \/ Stops /\ UNCHANGED <<srv, orphaned>>
    /\ UNCHANGED <<row, rot, issued, gen, vouched>>

\* Over the key: what is listening, and the ports chosen around it.
\* listening_ports fails open: it may have learnt nothing.
Survey ==
    /\ pass # None /\ pass.step = "keyed"
    /\ \/ \E blind \in BOOLEAN :
            LET busy == IF blind THEN {} ELSE ControlSeen
                taken == IF blind THEN {} ELSE RealitySeen
            IN  /\ OpensBy(pass.row)
                /\ pass' = [pass EXCEPT
                      !.step = "planned",
                      !.real = FreePort(taken, Reality),
                      !.row.occupied = taken,
                      !.row.port = FreePort(busy, Control)]
       \/ Stops
    /\ UNCHANGED <<row, srv, rot, issued, gen, vouched, orphaned>>

\* bootstrap_node.sh: it clears what an earlier install left, then starts the
\* container, which makes a certificate of its own; it may fail before,
\* between and after, or its output may be unreadable.
Cleared == [srv EXCEPT !.run = None, !.listens = {}]
Started(n, p) == [Cleared EXCEPT !.run = [cert |-> n, port |-> p]]

Bootstrap ==
    /\ pass # None /\ pass.step = "planned"
    /\ \/ Stops /\ srv' \in {srv, Cleared, Started(pass.id, pass.row.port)}
       \/ /\ srv' = Started(pass.id, pass.row.port)
          /\ Continues("booted", pass.row)
    /\ vouched' = [r \in RowId |-> vouched[r] /\ (r = pass.of \/ srv'.run = srv.run)]
    /\ UNCHANGED <<row, rot, issued, gen, orphaned>>

\* _apply_bootstrap_payload pins the certificate, takes over the address, where
\* the node could find it out, and adds a control inbound, whether or not the
\* row has one.
PinnedOnce(r) == IF r.cert = None THEN [r EXCEPT !.cert = srv.run.cert] ELSE r
Pinned(r) == [r EXCEPT !.cert = srv.run.cert]

Apply ==
    /\ pass # None /\ pass.step = "booted"
    /\ \E h \in {Reported, pass.row.host} :
         Continues("applied", [Pinned(pass.row) EXCEPT
                                 !.controls[pass.real] = @ + 1, !.host = h])
    /\ UNCHANGED <<row, srv, rot, issued, gen, vouched, orphaned>>

\* rotate_password over the stored key.  Where the command was refused the
\* pass stops.  It also stops where the second of the two commands was cut
\* after it had worked: that is exit status -1 as well.
Rotate ==
    /\ pass # None /\ pass.step = "applied"
    /\ \/ /\ OpensBy(pass.row)
          /\ srv' = [srv EXCEPT !.password = pass.id]
          /\ Continues("rotated", [pass.row EXCEPT !.password = pass.id,
                                                   !.status = "active"])
       \/ /\ Stops
          /\ srv' \in {srv, [srv EXCEPT !.password = pass.id]}
    /\ UNCHANGED <<row, rot, issued, gen, vouched, orphaned>>

\* The caller commits a pass that went through.
Finish ==
    /\ pass # None /\ pass.step = "rotated"
    /\ row' = [row EXCEPT ![pass.of] = pass.row]
    /\ pass' = None
    /\ vouched' = [vouched EXCEPT ![pass.of] = TRUE]
    /\ orphaned' = FALSE
    /\ UNCHANGED <<srv, rot, issued, gen>>

\* What is kept of a pass that failed: its row if our key is on the server,
\* else nothing, _forget_node.  The caller commits that too.
KeptAsFound(r) == IF r.key # None THEN (IF row[pass.of] = None THEN r ELSE
                    [r EXCEPT !.status = row[pass.of].status]) ELSE None
Kept(r) == IF r.key # None THEN [r EXCEPT !.status = "draining"] ELSE None

GiveUp ==
    /\ pass # None /\ pass.step = "failed"
    /\ LET kept == Kept(pass.row)
       IN  /\ row' = [row EXCEPT ![pass.of] = kept]
           /\ rot' = [rot EXCEPT ![pass.of] = IF kept = None THEN None ELSE @]
           /\ vouched' = [vouched EXCEPT ![pass.of] = kept = None \/ @]
           /\ orphaned' = (orphaned /\ kept = None)
    /\ pass' = None
    /\ UNCHANGED <<srv, issued, gen>>

\* The head dies, or an error that is not in the list of the handler (a
\* paramiko exception out of exec_command) ends the request: rollback.  The
\* command that was running may have done its work: the key appended, the
\* container cleared or started, the password set.
Reached ==
    {srv} \cup
    (CASE pass.step = "begun" -> IF pass.typed = srv.password
              THEN {[srv EXCEPT !.keys = Authorized(@, pass.id)]} ELSE {}
       [] pass.step = "planned" -> {Cleared, Started(pass.id, pass.row.port)}
       [] pass.step = "applied" -> {[srv EXCEPT !.password = pass.id]}
       [] OTHER -> {})

KeyKept == \E r \in RowId : row[r] # None /\ row[r].key # None

Break ==
    /\ pass # None
    /\ srv' \in Reached
    /\ pass' = None
    /\ vouched' = [r \in RowId |->
                     \/ row[r] = None
                     \/ /\ vouched[r] /\ srv'.run = srv.run
                        /\ r = pass.of => Reaches(row[r])]
    /\ orphaned' = (orphaned \/ (srv'.keys # {} /\ ~KeyKept))
    /\ UNCHANGED <<row, rot, issued, gen>>

-----------------------------------------------------------------------------
(* Everybody else.  What writes a row waits for the pass that holds it.       *)

Unlocked(r) == row[r] # None /\ (pass # None => pass.of # r)

\* run_bootstrap of provision_node.py: the same script, with the preferred ports.
Installed(n) == Started(n, 1)

\* provision_node.py by hand: the bootstrap with the preferred ports, and a new
\* row without any SSH credential, whatever rows there are; where the call to
\* the head fails the row is not made.
RegisterByHand(r) ==
    /\ pass = None /\ row[r] = None
    /\ issued = srv.password
    /\ gen < MaxGen
    /\ gen' = gen + 1
    /\ srv' = Installed(gen + 1)
    /\ row' \in {row, [row EXCEPT ![r] = [NewRow(Reported) EXCEPT
                         !.cert = gen + 1, !.status = "active", !.controls[1] = 1]]}
    /\ vouched' = [q \in RowId |-> row[q] = None]
    /\ UNCHANGED <<pass, rot, issued, orphaned>>

\* The panel's "change the password": over SSH at once, also while a pass runs.
\* A connection cut after the command loses the new password.
RotateByHand(r) ==
    /\ row[r] # None /\ rot[r] = None
    /\ OpensBy(row[r])
    /\ gen < MaxGen
    /\ gen' = gen + 1
    /\ srv' = [srv EXCEPT !.password = gen + 1]
    /\ rot' \in {rot, [rot EXCEPT ![r] = gen + 1]}
    /\ UNCHANGED <<row, pass, issued, vouched, orphaned>>

\* ... and its commit, which waits for the row.
StoreRotated(r) ==
    /\ Unlocked(r) /\ rot[r] # None
    /\ row' = [row EXCEPT ![r].password = rot[r]]
    /\ rot' = [rot EXCEPT ![r] = None]
    /\ UNCHANGED <<srv, pass, issued, gen, vouched, orphaned>>

\* rescan_ports: what is listening and is not known to be ours.
RescanPorts(r) ==
    /\ Unlocked(r)
    /\ OpensBy(row[r])
    /\ row' = [row EXCEPT ![r].occupied =
                  RealitySeen \ {p \in Reality : row[r].controls[p] > 0}]
    /\ UNCHANGED <<srv, pass, rot, issued, gen, vouched, orphaned>>

\* A push of the node's configuration (a placement, a sweep, or
\* `node-diagnose --push`) boots its Xray on the inbounds of the committed
\* row; two of them on one port, and Xray does not come up.
Push(r) ==
    /\ row[r] # None
    /\ Reaches(row[r])
    /\ srv' = [srv EXCEPT !.listens =
                  IF \E p \in Reality : row[r].controls[p] > 1 THEN {}
                  ELSE {p \in Reality : row[r].controls[p] = 1} \ srv.foreign.reality]
    /\ UNCHANGED <<row, pass, rot, issued, gen, vouched, orphaned>>

\* The status set by hand, from the panel or `node-status`.
SetStatus(r, status) ==
    /\ Unlocked(r)
    /\ row[r].status # status
    /\ row' = [row EXCEPT ![r].status = status]
    /\ vouched' = [vouched EXCEPT ![r] = @ /\ (status = "draining" \/ Reaches(row[r]))]
    /\ UNCHANGED <<srv, pass, rot, issued, gen, orphaned>>

\* The node deleted from the panel or by `node-delete`: the server is not told.
Delete(r) ==
    /\ Unlocked(r)
    /\ row' = [row EXCEPT ![r] = None]
    /\ rot' = [rot EXCEPT ![r] = None]
    /\ vouched' = [vouched EXCEPT ![r] = TRUE]
    /\ orphaned' = (orphaned \/ row[r].key # None)
    /\ UNCHANGED <<srv, pass, issued, gen>>

\* The operator has the hoster reset the root password.
ResetPassword ==
    /\ pass = None
    /\ gen < MaxGen
    /\ gen' = gen + 1
    /\ srv' = [srv EXCEPT !.password = gen + 1]
    /\ issued' = gen + 1
    /\ UNCHANGED <<row, pass, rot, vouched, orphaned>>

Next ==
    \/ \E h \in Host, r \in RowId : Begin(h, r)
    \/ LogIn \/ Survey \/ Bootstrap \/ Apply \/ Rotate
    \/ Finish \/ GiveUp \/ Break
    \/ \E r \in RowId :
         \/ RegisterByHand(r) \/ RotateByHand(r) \/ StoreRotated(r)
         \/ RescanPorts(r) \/ Push(r) \/ Delete(r)
         \/ \E status \in {"active", "draining"} : SetStatus(r, status)
    \/ ResetPassword

Spec == Init /\ [][Next]_vars

-----------------------------------------------------------------------------
(* What it promises.                                                          *)

\* A node in rotation can be called: its row pins the certificate the server
\* really shows, on the port it really listens on, however many passes failed
\* at whichever step before.  Between the bootstrap and the commit of a pass
\* this cannot be so, and a pass cut there, like a status forced by hand on a
\* node that does not answer, forfeits it until the next pass.  So does an
\* installation of the same server for another row: a retry under the other
\* name, or a registration by hand.  (The first one the code says cannot be: "a
\* repeated attempt for the same address continues the former row, it does not
\* start a second one", provisioning.py:118-122; see the README.)
ActiveAnswers ==
    \A r \in RowId :
        vouched[r] /\ row[r] # None /\ row[r].status = "active"
        /\ (pass = None \/ pass.of # r \/ pass.step \in {"begun", "keyed"})
            => Reaches(row[r])

\* The head can always get in.  The key a committed row stores opens the
\* server, whatever was retried, cut or rolled back; and as long as no pass
\* was cut around the installation of the first key and nobody deleted a row
\* with a key, a server that accepts the head has a row that knows a key.
WayIn ==
    /\ \A r \in RowId : row[r] # None /\ row[r].key # None => row[r].key \in srv.keys
    /\ pass = None /\ srv.keys # {} /\ ~orphaned => KeyKept
=============================================================================
