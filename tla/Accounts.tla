------------------------------ MODULE Accounts ------------------------------
(* Who a person is to the head: src/head/app/services/user_auth.py with the   *)
(* endpoints that call it (api/routers/users.py, the registration and linking *)
(* of api/routers/me.py, api/user_auth_dep.py) and the ban of the panel.      *)
(*                                                                            *)
(* A chat is a Telegram id, a device an installed application that keeps its  *)
(* token.  An account can have any number of both, and linking folds one      *)
(* account into another.  Each operation is one request; what access time     *)
(* does in a merge is AccessLedger's.                                         *)
EXTENDS Naturals, FiniteSets

CONSTANTS Account, Chat, Device, None

ASSUME AccountsAssumption == None \notin Account /\ Chat \cap Device = {}

VARIABLES
    status,     \* of each account: "none" where no row of users exists
    identity,   \* the account a Telegram identity belongs to, or None
    session,    \* the account a device's token belongs to, or None
    coded,      \* accounts with a link code that is neither used nor expired
    barred      \* history: people banned, by the chats and devices they had

accountVars == <<status, identity, session, coded, barred>>

AccountsOK ==
    /\ status \in [Account -> {"none", "active", "banned"}]
    /\ identity \in [Chat -> Account \cup {None}]
    /\ session \in [Device -> Account \cup {None}]
    /\ coded \subseteq Account
    /\ barred \subseteq Chat \cup Device

AccountsInit ==
    /\ status = [a \in Account |-> "none"]
    /\ identity = [c \in Chat |-> None]
    /\ session = [d \in Device |-> None]
    /\ coded = {}
    /\ barred = {}

Exists(a) == a # None /\ status[a] # "none"
Owned(holding, a) == {x \in DOMAIN holding : holding[x] = a}

\* authenticate: the token is known, its account is there and not banned.
Authenticates(d) == session[d] # None /\ status[session[d]] = "active"

\* register_device: an anonymous account and a token for it.
Register(d, a) ==
    /\ session[d] = None
    /\ status[a] = "none"
    /\ status' = [status EXCEPT ![a] = "active"]
    /\ session' = [session EXCEPT ![d] = a]
    /\ UNCHANGED <<identity, coded, barred>>

\* login_with_telegram: the first /start of a chat makes an account.
Start(c, a) ==
    /\ identity[c] = None
    /\ status[a] = "none"
    /\ status' = [status EXCEPT ![a] = "active"]
    /\ identity' = [identity EXCEPT ![c] = a]
    /\ UNCHANGED <<session, coded, barred>>

\* start_link: a code for the account; an earlier one expires with it.
StartLink(d) ==
    /\ Authenticates(d)
    /\ coded' = coded \cup {session[d]}
    /\ UNCHANGED <<status, identity, session, barred>>

\* link_code_ttl_minutes pass.
CodeExpires(a) ==
    /\ coded' = coded \ {a}
    /\ coded' # coded
    /\ UNCHANGED <<status, identity, session, barred>>

\* What becomes of the children of an absorbed account: moved through the
\* relationship they follow to the one that stays, moved by their key alone
\* they go with the row that is deleted.
MovedByKey(holding, absorb, keep) ==
    [x \in DOMAIN holding |-> IF holding[x] = absorb THEN None ELSE holding[x]]
Moved(holding, absorb, keep) ==
    [x \in DOMAIN holding |-> IF holding[x] = absorb THEN keep ELSE holding[x]]

\* The status of the account that stays: a ban of either is a ban of both.
StatusOfKept(absorb, keep) == status[keep]
StatusOfMerged(absorb, keep) ==
    IF status[absorb] = "banned" THEN "banned" ELSE status[keep]

Merge(absorb, keep) ==
    /\ identity' = Moved(identity, absorb, keep)
    /\ session' = Moved(session, absorb, keep)
    /\ status' = [status EXCEPT ![keep] = StatusOfMerged(absorb, keep),
                                ![absorb] = "none"]
    /\ coded' = coded \ {absorb}
    /\ UNCHANGED barred

\* redeem_link, for a code that is good; any other is an error and changes
\* nothing.  The chat is new and is attached, or belongs to the account
\* already, or the account of the code is folded into the chat's.
Attach(c, a) ==
    /\ a \in coded
    /\ identity[c] \in {None, a}
    /\ identity' = [identity EXCEPT ![c] = a]
    /\ coded' = coded \ {a}
    /\ UNCHANGED <<status, session, barred>>

Fold(c, a) ==
    /\ a \in coded
    /\ identity[c] \notin {None, a}
    /\ Merge(a, identity[c])

\* The panel bans an account, or lifts the ban.
Ban(a) ==
    /\ status[a] = "active"
    /\ status' = [status EXCEPT ![a] = "banned"]
    /\ barred' = barred \cup Owned(identity, a) \cup Owned(session, a)
    /\ UNCHANGED <<identity, session, coded>>

Unban(a) ==
    /\ status[a] = "banned"
    /\ status' = [status EXCEPT ![a] = "active"]
    /\ barred' = barred \ (Owned(identity, a) \cup Owned(session, a))
    /\ UNCHANGED <<identity, session, coded>>

-----------------------------------------------------------------------------
(* What it promises, checked in the composition Delivery.                     *)

\* Nobody is signed out by a convenience: whatever is registered, linked and
\* folded, a device's token and a chat's identity lead to an account that
\* exists, and never stop doing so.
NobodySignedOut ==
    [][/\ \A d \in Device : session[d] # None
             => session'[d] # None /\ status'[session'[d]] # "none"
       /\ \A c \in Chat : identity[c] # None
             => identity'[c] # None /\ status'[identity'[c]] # "none"]_accountVars

\* "A ban must not be shakeable by merging": as long as nobody lifts it, the
\* account a banned person's chats and devices lead to is banned, whatever
\* accounts are folded into it or it is folded into.
BanSticks ==
    /\ \A c \in Chat \cap barred : identity[c] # None /\ status[identity[c]] = "banned"
    /\ \A d \in Device \cap barred : session[d] # None /\ status[session[d]] = "banned"
=============================================================================
