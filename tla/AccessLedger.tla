---------------------------- MODULE AccessLedger ----------------------------
(***************************************************************************)
(* Time bought with advertisements (services/access.py and the endpoints   *)
(* under /me/ad, /ad/verify and /admin/*access): the stretch an account    *)
(* holds, the reward tokens, the cooldown of the fallback, and the ledger  *)
(* of what was granted (ad_views).                                         *)
(*                                                                         *)
(* A request reads its rows, decides, and writes them back in absolute     *)
(* terms when it flushes and commits; in between other requests commit and *)
(* time passes.  A worker is a thread with such a request.  Time is a      *)
(* natural number, in units of the smallest grant, up to Horizon.          *)
(*                                                                         *)
(* Abstracted: the move to another class that follows a grant in the same  *)
(* transaction is Placement's; a nonce string is the identity of its row.  *)
(***************************************************************************)
EXTENDS Integers, FiniteSets

CONSTANTS
    User, Token, Worker,
    Package,        \* access.PACKAGES
    MinutesPerView, \* of each package
    Views,          \* of each package
    MaxAhead,       \* access_max_hours
    Ttl,            \* ad_nonce_ttl_minutes
    GraceMinutes,   \* access_grace_minutes
    GraceInterval,  \* access_grace_interval_hours
    Manual,         \* amounts an operator or the bot may grant
    SsvRequired,    \* ad_ssv_required
    Horizon,        \* bound on time
    MaxUnserved,    \* bound on what is recorded for an account and not served
    None

ASSUME PackageAssumption ==
    /\ MinutesPerView \in [Package -> Nat \ {0}]
    /\ Views \in [Package -> Nat \ {0}]
ASSUME SettingsAssumption ==
    /\ {MaxAhead, Ttl, GraceInterval} \subseteq Nat \ {0}
    /\ GraceMinutes \in Nat /\ Manual \subseteq Nat \ {0}
    /\ SsvRequired \in BOOLEAN
    /\ Horizon \in Nat \ {0} /\ MaxUnserved \in Nat
ASSUME NoneAssumption == None \notin User \cup Token \cup Package \cup Nat

VARIABLES
    now,
    alive,      \* accounts that exist
    account,    \* access_expires_at (0: never), access_is_grace, grace_granted_at
    token,      \* rows of ad_nonces
    unserved,   \* sum of ad_views.reward_minutes of each account, less the
                \* time it has been entitled to be online since
    merged,     \* accounts that another one was folded into
    tx          \* the request of each worker

vars == <<now, alive, account, token, unserved, merged, tx>>

Time == 0 .. Horizon + MaxAhead
Account == [expiry : Time, grace : BOOLEAN, graceAt : Time \cup {None}]
NewAccount == [expiry |-> 0, grace |-> FALSE, graceAt |-> None]

TokenRow == [user : User, package : Package, done : Nat, spent : BOOLEAN,
             expires : Nat]

Op == {"prepare", "view", "verify", "grace", "manual", "revoke"}
\* What a request has read and decided, at the time it did.
Tx == [op : Op, user : User, at : Time, seen : Account,
       token : Token \cup {None}, row : TokenRow \cup {None},
       package : Package \cup {None}, minutes : Nat, stale : SUBSET Token]

TypeOK ==
    /\ now \in 1 .. Horizon
    /\ alive \in SUBSET User
    /\ account \in [User -> Account]
    /\ token \in [Token -> TokenRow \cup {None}]
    /\ unserved \in [User -> -Horizon .. MaxUnserved]
    /\ merged \in SUBSET User
    /\ tx \in [Worker -> Tx \cup {None}]

Init ==
    /\ now = 1
    /\ alive = User
    /\ account = [u \in User |-> NewAccount]
    /\ token = [k \in Token |-> None]
    /\ unserved = [u \in User |-> 0]
    /\ merged = {}
    /\ tx = [w \in Worker |-> None]

-----------------------------------------------------------------------------

Larger(a, b) == IF a >= b THEN a ELSE b
Smaller(a, b) == IF a <= b THEN a ELSE b

\* state_of: the account is entitled at time t.
Running(a, t) == a.expiry > t

\* _extend: stacks on a running stretch, up to MaxAhead from now, and never
\* below what was there.  Grace does not demote a stretch that was earned.
ExtendReplacing(a, t, minutes, isGrace) ==
    [a EXCEPT !.expiry = Smaller(t + minutes, t + MaxAhead),
              !.grace = isGrace]
ExtendUncapped(a, t, minutes, isGrace) ==
    [a EXCEPT !.expiry = (IF Running(a, t) THEN @ ELSE t) + minutes,
              !.grace = isGrace]
Extend(a, t, minutes, isGrace) ==
    LET base == IF Running(a, t) THEN a.expiry ELSE t
    IN [a EXCEPT
          !.expiry = Larger(Smaller(base + minutes, t + MaxAhead), base),
          !.grace = isGrace /\ ~(Running(a, t) /\ ~@)]

TokensOf(u) == {k \in Token : token[k] # None /\ token[k].user = u}
Unspent(k) == token[k] # None /\ ~token[k].spent

\* The tokens a new one supersedes.
StaleExpiredOnly(u) == {k \in TokensOf(u) : Unspent(k) /\ token[k].expires <= now}
Stale(u) == {k \in TokensOf(u) : Unspent(k)}

-----------------------------------------------------------------------------
(* Requests, up to the point where they have read what they decide on.     *)

Idle(w) == tx[w] = None

Start(w, op, u, k, p, minutes) ==
    /\ Idle(w) /\ u \in alive
    /\ tx' = [tx EXCEPT ![w] =
                [op |-> op, user |-> u, at |-> now, seen |-> account[u],
                 token |-> k, row |-> IF k = None THEN None ELSE token[k],
                 package |-> p, minutes |-> minutes,
                 stale |-> IF op = "prepare" THEN Stale(u) ELSE {}]]
    /\ UNCHANGED <<now, alive, account, token, unserved, merged>>

\* /me/ad/prepare
Prepare(w, u, p) ==
    \E k \in Token : /\ token[k] = None
                     /\ \A v \in Worker : tx[v] # None => tx[v].token # k
                     /\ Start(w, "prepare", u, k, p, 0)

\* /me/ad/complete
RedeemNonce(w, k) ==
    /\ ~SsvRequired
    /\ Unspent(k) /\ token[k].expires > now
    /\ Start(w, "view", token[k].user, k, None,
             MinutesPerView[token[k].package])

\* /ad/verify: a token that ran out is still good, the callback may be late.
RedeemVerified(w, k) ==
    /\ Unspent(k)
    /\ Start(w, "verify", token[k].user, k, None,
             MinutesPerView[token[k].package])

\* /me/ad/unavailable, at most once in GraceInterval.
CooledDownAlways(a) == TRUE
CooledDown(a) == a.graceAt # None => now - a.graceAt >= GraceInterval

GrantGrace(w, u) ==
    /\ GraceMinutes > 0
    /\ CooledDown(account[u])
    /\ Start(w, "grace", u, None, None, GraceMinutes)

\* /admin/grant-access and the admin panel
GrantManual(w, u) ==
    \E minutes \in Manual : Start(w, "manual", u, None, None, minutes)

Revoke(w, u) == Start(w, "revoke", u, None, None, 0)

-----------------------------------------------------------------------------
(* Flush and commit: only columns that changed are written, with the value *)
(* computed from what was read.                                            *)

\* The account as the request leaves it.
Decided(t) ==
    IF t.op = "prepare" THEN t.seen
    ELSE IF t.op = "revoke" THEN [t.seen EXCEPT !.expiry = 0, !.grace = FALSE]
    ELSE LET a == Extend(t.seen, t.at, t.minutes, t.op = "grace")
         IN IF t.op = "grace" THEN [a EXCEPT !.graceAt = t.at] ELSE a

\* Laid over the account as it is by now.
Written(t) ==
    LET new == Decided(t) IN
    [f \in {"expiry", "grace", "graceAt"} |->
       IF new[f] # t.seen[f] THEN new[f] ELSE account[t.user][f]]

\* _credit_view on the token.
OneMoreViewUnspent(r) == [r EXCEPT !.done = @ + 1]
OneMoreView(r) ==
    [r EXCEPT !.done = @ + 1, !.spent = r.done + 1 >= Views[r.package]]

\* The tokens after the commit: issue_nonce ends the ones it found and adds
\* its own.
TokensAfter(t) ==
    [k \in Token |->
       IF t.op = "prepare" /\ k = t.token
       THEN [user |-> t.user, package |-> t.package, done |-> 0,
             spent |-> FALSE, expires |-> t.at + Ttl]
       ELSE IF k \in t.stale /\ token[k] # None
            THEN [token[k] EXCEPT !.expires = t.at]
       ELSE IF t.op \in {"view", "verify"} /\ k = t.token
            THEN OneMoreView(t.row)
       ELSE token[k]]

\* _record_view: every grant leaves its minutes in ad_views.
RecordedAdsOnly(t) ==
    IF t.op \in {"view", "verify"} THEN t.minutes ELSE 0
Recorded(t) ==
    IF t.op \in {"view", "verify", "grace", "manual"} THEN t.minutes ELSE 0

Write(w) ==
    LET t == tx[w] IN
    /\ t # None
    /\ t.user \in alive
    /\ t.op \in {"view", "verify"} => token[t.token] # None
    /\ unserved[t.user] + Recorded(t) <= MaxUnserved
    /\ account' = [account EXCEPT ![t.user] = Written(t)]
    /\ token' = TokensAfter(t)
    /\ unserved' = [unserved EXCEPT ![t.user] = @ + Recorded(t)]
    /\ tx' = [tx EXCEPT ![w] = None]
    /\ UNCHANGED <<now, alive, merged>>

\* The rows are gone, or the process stops: nothing is written.
Drop(w) ==
    /\ tx[w] # None
    /\ tx' = [tx EXCEPT ![w] = None]
    /\ UNCHANGED <<now, alive, account, token, unserved, merged>>

-----------------------------------------------------------------------------

\* merge_accounts: the later expiry and the later cooldown survive, grace only
\* if both were; deleting the absorbed account takes its tokens and its
\* ad_views with it.  It is one step here: what a merge reads and what it writes
\* are not interleaved with other requests.
LaterGrace(a, b) ==
    IF a.graceAt = None THEN b.graceAt
    ELSE IF b.graceAt = None THEN a.graceAt
    ELSE Larger(a.graceAt, b.graceAt)

FoldedSum(a, b) ==
    [expiry |-> IF Running(a, now) /\ Running(b, now)
                THEN a.expiry + b.expiry - now ELSE Larger(a.expiry, b.expiry),
     grace |-> a.grace /\ b.grace, graceAt |-> LaterGrace(a, b)]
Folded(a, b) ==
    [expiry  |-> Larger(a.expiry, b.expiry),
     grace   |-> IF a.expiry = 0 /\ b.expiry = 0 THEN a.grace
                 ELSE a.grace /\ b.grace,
     graceAt |-> LaterGrace(a, b)]

Merge(w, keep, absorb) ==
    /\ Idle(w) /\ {keep, absorb} \subseteq alive /\ keep # absorb
    /\ alive' = alive \ {absorb}
    /\ account' = [account EXCEPT ![keep] = Folded(account[keep], account[absorb])]
    /\ token' = [k \in Token |-> IF k \in TokensOf(absorb) THEN None ELSE token[k]]
    /\ unserved' = [unserved EXCEPT ![absorb] = 0]
    /\ merged' = merged \cup {keep}
    /\ UNCHANGED <<now, tx>>

Tick ==
    /\ now < Horizon
    /\ now' = now + 1
    /\ unserved' = [u \in User |->
                      IF u \in alive /\ Running(account[u], now)
                      THEN unserved[u] - 1 ELSE unserved[u]]
    /\ UNCHANGED <<alive, account, token, merged, tx>>

Next ==
    \/ \E w \in Worker :
         \/ \E u \in User : \/ \E p \in Package : Prepare(w, u, p)
                            \/ GrantGrace(w, u)
                            \/ GrantManual(w, u)
                            \/ Revoke(w, u)
                            \/ \E v \in User : Merge(w, u, v)
         \/ \E k \in Token : RedeemNonce(w, k) \/ RedeemVerified(w, k)
         \/ Write(w) \/ Drop(w)
    \/ Tick

Spec == Init /\ [][Next]_vars

-----------------------------------------------------------------------------

\* Nobody banks more than MaxAhead, however grants, merges and passing time
\* follow one another.
CappedAhead == \A u \in User : account[u].expiry <= now + MaxAhead

\* A user has one token that the app can redeem: two could be banked and
\* redeemed in one go.
OneLiveToken ==
    \A j, k \in Token :
      /\ Unspent(j) /\ token[j].expires > now
      /\ Unspent(k) /\ token[k].expires > now
      /\ token[j].user = token[k].user
      => j = k

\* A token is credited as often as its package has ads, and then no more:
\* otherwise one run through a package is paid twice.
NoExtraView ==
    \A k \in Token :
      token[k] # None =>
        /\ token[k].done <= Views[token[k].package]
        /\ token[k].spent <=> token[k].done = Views[token[k].package]

\* Nothing but a revocation takes time away: watching an ad does not shorten
\* access, and linking accounts keeps the longer stretch of the two.
TimeIsNeverTaken ==
    [][\A u \in alive :
         \/ \E w \in Worker : tx[w] # None /\ tx[w].op = "revoke"
                                /\ tx[w].user = u /\ tx'[w] = None
         \/ \E v \in alive' : /\ u \in alive' => v = u
                              /\ account'[v].expiry >= account[u].expiry]_vars

\* The fallback is not handed out twice within its interval, and linking an
\* account does not hand back one that was just used.
GraceIsSpaced ==
    [][\A u \in alive :
         LET before == account[u].graceAt IN
         before # None =>
           \E v \in alive' :
             /\ u \in alive' => v = u
             /\ \/ account'[v].graceAt = before
                \/ alive' = alive /\ account'[v].graceAt - before >= GraceInterval
                \/ alive' # alive /\ account'[v].graceAt > before]_vars

\* The time an account was and will be online is in the ledger, for an
\* account that was never linked to another: the gap between ads watched and
\* hours served can be explained.
ServedIsRecorded ==
    \A u \in alive \ merged :
      Larger(account[u].expiry - now, 0) <= unserved[u]
=============================================================================
