------------------------- MODULE AccessLedgerProofs -------------------------
(* What AccessLedger guarantees for every number of accounts, tokens,         *)
(* packages and concurrent requests, and what it guarantees once requests     *)
(* come one at a time.                                                        *)
EXTENDS AccessLedger, TLAPS

\* The facts about the constants that the arithmetic needs.
LEMMA Settings ==
    /\ MaxAhead \in Nat /\ MaxAhead > 0 /\ Ttl \in Nat
    /\ GraceInterval \in Nat /\ GraceMinutes \in Nat
    /\ Horizon \in Nat /\ Horizon > 0 /\ MaxUnserved \in Nat
    /\ Manual \subseteq Nat /\ None \notin Nat
  BY SettingsAssumption, NoneAssumption

-----------------------------------------------------------------------------
(* What a request computes.                                                   *)

\* A grant adds at most its minutes, never passes the cap on its own, and
\* never shortens a stretch.
LEMMA ExtendEffect ==
    ASSUME NEW a \in Account, NEW t \in Nat, t <= Horizon, NEW minutes \in Nat,
           NEW isGrace \in BOOLEAN
    PROVE  LET e == Extend(a, t, minutes, isGrace) IN
           /\ e \in Account
           /\ e.graceAt = a.graceAt
           /\ e.expiry >= a.expiry
           /\ e.expiry <= t + MaxAhead \/ e.expiry = a.expiry
           /\ e.expiry <= Larger(a.expiry, t) + minutes
<1> DEFINE base == IF Running(a, t) THEN a.expiry ELSE t
           until == Larger(Smaller(base + minutes, t + MaxAhead), base)
           kept == isGrace /\ ~(Running(a, t) /\ ~a.grace)
<1>1. /\ a.expiry \in Nat /\ a.expiry <= Horizon + MaxAhead
      /\ a.grace \in BOOLEAN /\ a.graceAt \in Time \cup {None}
  BY Settings DEF Account, Time
<1>2. base \in Nat /\ base >= a.expiry /\ base = Larger(a.expiry, t)
      /\ (base <= t + MaxAhead \/ base = a.expiry)
  BY <1>1, Settings DEF Running, Larger
<1>3. /\ until \in Nat /\ until >= base /\ until <= base + minutes
      /\ (until <= t + MaxAhead \/ until = base)
  BY <1>2, Settings DEF Larger, Smaller
<1>4. until \in Time
  BY <1>1, <1>2, <1>3, Settings DEF Time
<1>5. Extend(a, t, minutes, isGrace) = [a EXCEPT !.expiry = until, !.grace = kept]
  BY DEF Extend
<1>6. kept \in BOOLEAN
  OBVIOUS
<1> HIDE DEF base, until, kept
<1>7. /\ Extend(a, t, minutes, isGrace) \in Account
      /\ Extend(a, t, minutes, isGrace).expiry = until
      /\ Extend(a, t, minutes, isGrace).graceAt = a.graceAt
  BY <1>4, <1>5, <1>6 DEF Account
<1>8. /\ until >= a.expiry
      /\ until <= t + MaxAhead \/ until = a.expiry
      /\ until <= Larger(a.expiry, t) + minutes
  BY <1>1, <1>2, <1>3, Settings
<1>9. QED
  BY <1>7, <1>8

\* The account a request leaves behind.
LEMMA DecidedEffect ==
    ASSUME NEW t \in Tx, t.at <= Horizon
    PROVE  /\ Decided(t) \in Account
           /\ t.op # "grace" => Decided(t).graceAt = t.seen.graceAt
           /\ t.op = "grace" => Decided(t).graceAt = t.at
           /\ t.op # "revoke" => Decided(t).expiry >= t.seen.expiry
           /\ Decided(t).expiry <= t.at + MaxAhead \/ Decided(t).expiry = t.seen.expiry
           /\ t.op \in {"prepare", "revoke"}
                => Decided(t).expiry \in {0, t.seen.expiry}
           /\ Decided(t).expiry <= Larger(t.seen.expiry, t.at) + t.minutes
<1>1. /\ t.seen \in Account /\ t.at \in Nat /\ t.at \in Time /\ t.minutes \in Nat
      /\ t.op \in Op /\ t.seen.expiry \in Nat
  BY Settings DEF Tx, Time, Account
<1>2. CASE t.op = "prepare"
  <2>1. Decided(t) = t.seen
    BY <1>2 DEF Decided
  <2>2. QED
    BY <1>1, <1>2, <2>1 DEF Larger
<1>3. CASE t.op = "revoke"
  <2>1. Decided(t) = [t.seen EXCEPT !.expiry = 0, !.grace = FALSE]
    BY <1>3 DEF Decided
  <2>2. /\ Decided(t) \in Account /\ Decided(t).expiry = 0
        /\ Decided(t).graceAt = t.seen.graceAt
    <3> DEFINE s == t.seen
               no == FALSE
    <3>1. s \in Account /\ no \in BOOLEAN /\ 0 \in Time
      BY <1>1, Settings DEF Time
    <3> HIDE DEF s, no
    <3>2. Decided(t) = [s EXCEPT !.expiry = 0, !.grace = no]
      BY <2>1 DEF s, no
    <3>3. Decided(t) \in Account /\ Decided(t).expiry = 0 /\ Decided(t).graceAt = s.graceAt
      BY <3>1, <3>2 DEF Account
    <3>4. QED
      BY <3>3 DEF s
  <2>3. QED
    BY <1>1, <1>3, <2>2, Settings DEF Larger
<1>4. CASE t.op \notin {"prepare", "revoke"}
  <2> DEFINE a == Extend(t.seen, t.at, t.minutes, t.op = "grace")
  <2>1. /\ a \in Account /\ a.graceAt = t.seen.graceAt
        /\ a.expiry >= t.seen.expiry
        /\ a.expiry <= t.at + MaxAhead \/ a.expiry = t.seen.expiry
        /\ a.expiry <= Larger(t.seen.expiry, t.at) + t.minutes
    <3> DEFINE g == t.op = "grace"
    <3>1. g \in BOOLEAN
      OBVIOUS
    <3> HIDE DEF g
    <3>2. LET e == Extend(t.seen, t.at, t.minutes, g) IN
           /\ e \in Account
           /\ e.graceAt = t.seen.graceAt
           /\ e.expiry >= t.seen.expiry
           /\ e.expiry <= t.at + MaxAhead \/ e.expiry = t.seen.expiry
           /\ e.expiry <= Larger(t.seen.expiry, t.at) + t.minutes
      BY <1>1, <3>1, ExtendEffect
    <3>3. QED
      BY <3>2 DEF g
  <2>2. Decided(t) = IF t.op = "grace" THEN [a EXCEPT !.graceAt = t.at] ELSE a
    BY <1>4 DEF Decided
  <2> HIDE DEF a
  <2>3. /\ Decided(t) \in Account /\ Decided(t).expiry = a.expiry
        /\ Decided(t).graceAt = IF t.op = "grace" THEN t.at ELSE a.graceAt
    BY <1>1, <2>1, <2>2 DEF Account
  <2>4. QED
    BY <1>4, <2>1, <2>3
<1>5. QED
  BY <1>2, <1>3, <1>4

\* Only what a request changed is written.
LEMMA WrittenEffect ==
    ASSUME NEW t \in Tx, t.at <= Horizon, account \in [User -> Account]
    PROVE  /\ Written(t) \in Account
           /\ Written(t).expiry = IF Decided(t).expiry # t.seen.expiry
                                  THEN Decided(t).expiry ELSE account[t.user].expiry
           /\ Written(t).graceAt = IF Decided(t).graceAt # t.seen.graceAt
                                   THEN Decided(t).graceAt ELSE account[t.user].graceAt
<1>1. /\ Decided(t) \in Account /\ t.seen \in Account /\ account[t.user] \in Account
  BY DecidedEffect DEF Tx
<1> DEFINE d == Decided(t)
           old == account[t.user]
           wr == [expiry |-> IF d.expiry # t.seen.expiry THEN d.expiry ELSE old.expiry,
                  grace |-> IF d.grace # t.seen.grace THEN d.grace ELSE old.grace,
                  graceAt |-> IF d.graceAt # t.seen.graceAt THEN d.graceAt ELSE old.graceAt]
<1>2. Written(t) = wr
  BY DEF Written
<1>3. d \in Account /\ old \in Account
  BY <1>1
<1> HIDE DEF d, old
<1>4. wr \in Account
  BY <1>3 DEF Account
<1>5. QED
  BY <1>2, <1>4 DEF d, old

-----------------------------------------------------------------------------
(* Type correctness.  A request that is under way read what existed then, and *)
(* not later than now.                                                        *)

\* A request for a token names a row and a package, one that redeems a token
\* holds the row it found.
RequestOK(t) ==
    /\ t.at <= now
    /\ t.op = "prepare" => t.token \in Token /\ t.package \in Package
    /\ t.op \in {"view", "verify"} => t.token \in Token /\ t.row \in TokenRow

TypeInv ==
    /\ TypeOK
    /\ \A u \in User : unserved[u] >= 1 - now
    /\ \A w \in Worker : tx[w] # None => RequestOK(tx[w])

\* What a request has read when it starts.
Reads(t) ==
    /\ t \in Tx /\ t.at = now /\ t.user \in alive /\ t.seen = account[t.user]
    /\ t.op = "prepare" => /\ t.token \in Token /\ t.package \in Package
                           /\ token[t.token] = None /\ t.stale = Stale(t.user)
    /\ t.op # "prepare" => t.stale = {}
    /\ t.op \in {"view", "verify"} => /\ t.token \in Token /\ t.row \in TokenRow
                                      /\ t.row = token[t.token] /\ t.row # None
                                      /\ ~t.row.spent
    /\ t.op = "grace" => CooledDown(account[t.user])

Begins(w, t) ==
    /\ Reads(t)
    /\ tx[w] = None /\ tx' = [tx EXCEPT ![w] = t]
    /\ UNCHANGED <<now, alive, account, token, unserved, merged>>

Starts(w) ==
    \/ \E u \in User : \/ \E p \in Package : Prepare(w, u, p)
                       \/ GrantGrace(w, u) \/ GrantManual(w, u) \/ Revoke(w, u)
    \/ \E k \in Token : RedeemNonce(w, k) \/ RedeemVerified(w, k)

\* A request of any kind, as it is recorded.
LEMMA StartReads ==
    ASSUME TypeInv, NEW w \in Worker, NEW op \in Op, NEW u \in User,
           NEW k \in Token \cup {None}, NEW p \in Package \cup {None},
           NEW minutes \in Nat, Start(w, op, u, k, p, minutes),
           op = "prepare" => k \in Token /\ p \in Package /\ token[k] = None,
           op \in {"view", "verify"} => k \in Token /\ Unspent(k),
           op = "grace" => CooledDown(account[u])
    PROVE  \E t : Begins(w, t)
<1> DEFINE row == IF k = None THEN None ELSE token[k]
           stale == IF op = "prepare" THEN Stale(u) ELSE {}
           t == [op |-> op, user |-> u, at |-> now, seen |-> account[u],
                 token |-> k, row |-> row, package |-> p, minutes |-> minutes,
                 stale |-> stale]
<1>1. /\ now \in Time /\ account[u] \in Account /\ row \in TokenRow \cup {None}
      /\ stale \in SUBSET Token
  BY Settings DEF TypeInv, TypeOK, Time, Stale, TokensOf
<1>2. op \in {"view", "verify"} => row \in TokenRow /\ row = token[k] /\ row # None /\ ~row.spent
  BY NoneAssumption DEF TypeInv, TypeOK, Unspent
<1>3. tx[w] = None /\ u \in alive /\ tx' = [tx EXCEPT ![w] = t]
      /\ UNCHANGED <<now, alive, account, token, unserved, merged>>
  BY DEF Start, Idle
<1>4. /\ stale = IF op = "prepare" THEN Stale(u) ELSE {}
      /\ t.op = op /\ t.user = u /\ t.at = now /\ t.seen = account[u] /\ t.token = k
      /\ t.row = row /\ t.package = p /\ t.stale = stale
  OBVIOUS
<1> HIDE DEF row, stale
<1>5. t \in Tx
  BY <1>1 DEF Tx
<1> HIDE DEF t
<1>6. Reads(t)
  BY <1>2, <1>3, <1>4, <1>5 DEF Reads
<1>7. QED
  BY <1>3, <1>6 DEF Begins

LEMMA StartsEffect ==
    ASSUME TypeInv, NEW w \in Worker, Starts(w)
    PROVE  \E t : Begins(w, t)
<1>1. ASSUME NEW u \in User, NEW p \in Package, Prepare(w, u, p) PROVE \E t : Begins(w, t)
  BY <1>1, StartReads DEF Prepare, Op
<1>2. ASSUME NEW u \in User, GrantGrace(w, u) PROVE \E t : Begins(w, t)
  BY <1>2, StartReads, Settings DEF GrantGrace, Op
<1>3. ASSUME NEW u \in User, GrantManual(w, u) PROVE \E t : Begins(w, t)
  BY <1>3, StartReads, Settings DEF GrantManual, Op
<1>4. ASSUME NEW u \in User, Revoke(w, u) PROVE \E t : Begins(w, t)
  BY <1>4, StartReads DEF Revoke, Op
<1>5. ASSUME NEW k \in Token, RedeemNonce(w, k) \/ RedeemVerified(w, k)
      PROVE  \E t : Begins(w, t)
  <2>1. Unspent(k) /\ token[k] \in TokenRow
    BY <1>5 DEF RedeemNonce, RedeemVerified, Unspent, TypeInv, TypeOK
  <2>2. token[k].user \in User /\ MinutesPerView[token[k].package] \in Nat
    BY <2>1, PackageAssumption DEF TokenRow
  <2>3. CASE RedeemNonce(w, k)
    BY <2>1, <2>2, <2>3, StartReads DEF RedeemNonce, Op
  <2>4. CASE RedeemVerified(w, k)
    BY <2>1, <2>2, <2>4, StartReads DEF RedeemVerified, Op
  <2>5. QED
    BY <1>5, <2>3, <2>4
<1>6. QED
  BY <1>1, <1>2, <1>3, <1>4, <1>5 DEF Starts

\* What becomes of each token when a request commits.
LEMMA TokensAfterEffect ==
    ASSUME TypeInv, NEW w \in Worker, Write(w), NEW k \in Token
    PROVE  LET t == tx[w] IN
           \/ token'[k] = token[k]
           \/ /\ t.op = "prepare" /\ k = t.token
              /\ token'[k] = [user |-> t.user, package |-> t.package, done |-> 0,
                             spent |-> FALSE, expires |-> t.at + Ttl]
           \/ /\ k \in t.stale /\ token[k] \in TokenRow /\ token[k] # None
              /\ token'[k] = [token[k] EXCEPT !.expires = t.at]
           \/ /\ t.op \in {"view", "verify"} /\ k = t.token
              /\ token'[k] = OneMoreView(t.row)
  BY DEF TypeInv, TypeOK, Write, TokensAfter

LEMMA OneMoreViewEffect ==
    ASSUME NEW r \in TokenRow
    PROVE  /\ OneMoreView(r) \in TokenRow
           /\ OneMoreView(r).done = r.done + 1
           /\ OneMoreView(r).spent <=> r.done + 1 >= Views[r.package]
           /\ OneMoreView(r).user = r.user /\ OneMoreView(r).package = r.package
           /\ OneMoreView(r).expires = r.expires
<1> DEFINE over == r.done + 1 >= Views[r.package]
           more == r.done + 1
<1>1. over \in BOOLEAN /\ more \in Nat
  BY DEF TokenRow
<1>2. OneMoreView(r) = [r EXCEPT !.done = more, !.spent = over]
  BY DEF OneMoreView, TokenRow
<1>3. (over <=> r.done + 1 >= Views[r.package]) /\ more = r.done + 1
  OBVIOUS
<1> HIDE DEF over, more
<1>4. OneMoreView(r) \in TokenRow
  BY <1>1, <1>2 DEF TokenRow
<1>5. /\ OneMoreView(r).done = more
      /\ OneMoreView(r).user = r.user /\ OneMoreView(r).package = r.package
      /\ OneMoreView(r).expires = r.expires
  BY <1>2 DEF TokenRow
<1>6. OneMoreView(r).spent = over
  BY <1>2, Zenon DEF TokenRow
<1>7. QED
  BY <1>3, <1>4, <1>5, <1>6

\* The steps there are.
LEMMA Steps ==
    ASSUME TypeInv, [Next]_vars
    PROVE  \/ \E w \in Worker : \/ \E t : Begins(w, t)
                                \/ Write(w) \/ Drop(w)
                                \/ \E u, v \in User : Merge(w, u, v)
           \/ Tick \/ UNCHANGED vars
<1>1. CASE \E w \in Worker : Starts(w)
  BY <1>1, StartsEffect
<1>2. CASE ~\E w \in Worker : Starts(w)
  BY <1>2 DEF Next, Starts
<1>3. QED
  BY <1>1, <1>2

\* A request that is under way was so before, or has just begun.
LEMMA Requests ==
    ASSUME TypeInv, [Next]_vars, NEW v \in Worker, tx'[v] # None
    PROVE  \/ Begins(v, tx'[v])
           \/ tx'[v] = tx[v]
<1>t. tx \in [Worker -> Tx \cup {None}]
  BY DEF TypeInv, TypeOK
<1>1. ASSUME NEW w \in Worker, NEW t, Begins(w, t)
      PROVE  Begins(v, tx'[v]) \/ tx'[v] = tx[v]
  <2>1. CASE v = w
    <3>1. tx'[v] = t
      BY <1>1, <1>t, <2>1 DEF Begins
    <3>2. QED
      BY <1>1, <2>1, <3>1
  <2>2. CASE v # w
    BY <1>1, <1>t, <2>2 DEF Begins
  <2>3. QED
    BY <2>1, <2>2
<1>2. ASSUME NEW w \in Worker, Write(w) \/ Drop(w) PROVE tx'[v] = tx[v]
  BY <1>2, <1>t DEF Write, Drop
<1>3. ASSUME NEW w \in Worker, NEW u \in User, NEW x \in User, Merge(w, u, x)
      PROVE  tx'[v] = tx[v]
  BY <1>3 DEF Merge
<1>4. Tick \/ UNCHANGED vars => tx'[v] = tx[v]
  BY DEF Tick, vars
<1>5. QED
  BY <1>1, <1>2, <1>3, <1>4, Steps

\* What a commit leaves of its account, and of the ledger.
LEMMA WriteEffect ==
    ASSUME TypeInv, NEW w \in Worker, Write(w)
    PROVE  LET t == tx[w] IN
           /\ t \in Tx /\ RequestOK(t) /\ t.at \in Nat /\ t.at <= Horizon
           /\ t.user \in User /\ t.user \in alive
           /\ account' \in [User -> Account]
           /\ account'[t.user].expiry = IF Decided(t).expiry # t.seen.expiry
                                        THEN Decided(t).expiry ELSE account[t.user].expiry
           /\ account'[t.user].graceAt = IF Decided(t).graceAt # t.seen.graceAt
                                         THEN Decided(t).graceAt ELSE account[t.user].graceAt
           /\ \A u \in User \ {t.user} : account'[u] = account[u] /\ unserved'[u] = unserved[u]
           /\ Recorded(t) \in Nat
           /\ t.op \in {"view", "verify", "grace", "manual"} => Recorded(t) = t.minutes
           /\ unserved'[t.user] = unserved[t.user] + Recorded(t)
           /\ unserved'[t.user] <= MaxUnserved
<1> DEFINE t == tx[w]
<1>1. /\ t \in Tx /\ RequestOK(t) /\ t.at \in Nat /\ t.at <= Horizon
      /\ t.user \in User /\ t.user \in alive /\ t.minutes \in Nat
  BY Settings DEF TypeInv, TypeOK, RequestOK, Write, Tx, Time
<1>2. /\ account' = [account EXCEPT ![t.user] = Written(t)]
      /\ unserved' = [unserved EXCEPT ![t.user] = unserved[t.user] + Recorded(t)]
      /\ unserved[t.user] + Recorded(t) <= MaxUnserved
  BY <1>1 DEF Write, TypeInv, TypeOK
<1>3. /\ Recorded(t) \in Nat
      /\ t.op \in {"view", "verify", "grace", "manual"} => Recorded(t) = t.minutes
  BY <1>1 DEF Recorded
<1> HIDE DEF t
<1>4. /\ account \in [User -> Account] /\ unserved \in [User -> Int]
  BY DEF TypeInv, TypeOK
<1>5. /\ Written(t) \in Account
      /\ Written(t).expiry = IF Decided(t).expiry # t.seen.expiry
                             THEN Decided(t).expiry ELSE account[t.user].expiry
      /\ Written(t).graceAt = IF Decided(t).graceAt # t.seen.graceAt
                              THEN Decided(t).graceAt ELSE account[t.user].graceAt
  BY <1>1, <1>4, WrittenEffect
<1>6. /\ account' \in [User -> Account] /\ account'[t.user] = Written(t)
      /\ \A u \in User \ {t.user} : account'[u] = account[u] /\ unserved'[u] = unserved[u]
      /\ unserved'[t.user] = unserved[t.user] + Recorded(t)
  BY <1>1, <1>2, <1>4, <1>5
<1>7. QED
  BY <1>1, <1>2, <1>3, <1>5, <1>6 DEF t

\* The account two were folded into.
LEMMA FoldedEffect ==
    ASSUME NEW a \in Account, NEW b \in Account
    PROVE  /\ Folded(a, b) \in Account
           /\ Folded(a, b).expiry = Larger(a.expiry, b.expiry)
           /\ Folded(a, b).graceAt = LaterGrace(a, b)
<1> DEFINE g == IF a.expiry = 0 /\ b.expiry = 0 THEN a.grace ELSE a.grace /\ b.grace
           e == Larger(a.expiry, b.expiry)
           l == LaterGrace(a, b)
<1>1. e \in Time /\ l \in Time \cup {None}
  BY DEF Account, Larger, LaterGrace
<1>2. g \in BOOLEAN
  BY DEF Account
<1>3. Folded(a, b) = [expiry |-> e, grace |-> g, graceAt |-> l]
  BY DEF Folded
<1> HIDE DEF e, g, l
<1>4. QED
  BY <1>1, <1>2, <1>3 DEF Account, e, l

LEMMA TypeInit == Init => TypeInv
<1> SUFFICES ASSUME Init PROVE TypeInv
  OBVIOUS
<1> DEFINE no == FALSE
<1>1. no \in BOOLEAN
  OBVIOUS
<1>2. NewAccount = [expiry |-> 0, grace |-> no, graceAt |-> None]
  BY DEF NewAccount
<1> HIDE DEF no
<1>3. NewAccount \in Account
  BY <1>1, <1>2, Settings DEF Account, Time
<1>4. QED
  BY <1>3, Settings DEF Init, TypeInv, TypeOK

LEMMA TypeStep == TypeInv /\ [Next]_vars => TypeInv'
<1> SUFFICES ASSUME TypeInv, [Next]_vars PROVE TypeInv'
  OBVIOUS
<1>t. /\ now \in 1 .. Horizon /\ alive \in SUBSET User /\ account \in [User -> Account]
      /\ token \in [Token -> TokenRow \cup {None}]
      /\ unserved \in [User -> -Horizon .. MaxUnserved]
      /\ merged \in SUBSET User /\ tx \in [Worker -> Tx \cup {None}]
      /\ \A u \in User : unserved[u] >= 1 - now
  BY DEF TypeInv, TypeOK
<1>n. now' \in 1..Horizon /\ now' >= now
  <2>1. Tick => now' \in 1..Horizon /\ now' >= now
    BY <1>t, Settings DEF Tick
  <2>2. ~Tick => now' = now
    BY Steps DEF Begins, Write, Drop, Merge, vars
  <2>3. QED
    BY <1>t, <2>1, <2>2
<1>1. ASSUME NEW v \in Worker, tx'[v] # None PROVE tx'[v] \in Tx /\ RequestOK(tx[v])'
  <2>1. CASE Begins(v, tx'[v])
    BY <1>n, <2>1, <1>t DEF Begins, Reads, RequestOK
  <2>2. CASE tx'[v] = tx[v]
    <3>1. tx[v] \in Tx /\ RequestOK(tx[v])
      BY <1>1, <1>t, <2>2 DEF TypeInv
    <3>2. tx[v].at \in Int
      BY <3>1, Settings DEF Tx, Time
    <3>3. QED
      BY <1>n, <1>t, <2>2, <3>1, <3>2 DEF RequestOK
  <2>3. QED
    BY <1>1, <2>1, <2>2, Requests
<1>2. tx' \in [Worker -> Tx \cup {None}]
  <2>1. tx' = [v \in Worker |-> tx'[v]]
    BY <1>t, Steps DEF Begins, Write, Drop, Merge, Tick, vars
  <2>2. QED
    BY <1>1, <2>1
<1> DEFINE Data ==
             /\ alive' \in SUBSET User /\ account' \in [User -> Account]
             /\ token' \in [Token -> TokenRow \cup {None}]
             /\ unserved' \in [User -> -Horizon .. MaxUnserved]
             /\ merged' \in SUBSET User
           Owed == \A u \in User : unserved'[u] >= 1 - now'
<1>3. ASSUME NEW w \in Worker, Write(w) PROVE Data /\ Owed
  <2> DEFINE t == tx[w]
  <2>1. /\ t \in Tx /\ RequestOK(t) /\ t.at \in Nat /\ t.user \in User
        /\ account' \in [User -> Account]
        /\ \A u \in User \ {t.user} : unserved'[u] = unserved[u]
        /\ Recorded(t) \in Nat
        /\ unserved'[t.user] = unserved[t.user] + Recorded(t)
        /\ unserved'[t.user] <= MaxUnserved
    BY <1>3, WriteEffect
  <2>2. unserved' = [u \in User |-> unserved'[u]] /\ token' = [k \in Token |-> token'[k]]
    BY <1>3, <1>t DEF Write, TokensAfter
  <2>3. ASSUME NEW u \in User
        PROVE  unserved'[u] \in -Horizon .. MaxUnserved /\ unserved'[u] >= 1 - now'
    <3>1. unserved[u] \in -Horizon .. MaxUnserved /\ unserved[u] >= 1 - now
      BY <1>t
    <3>2. CASE u = t.user
      BY <1>n, <1>t, <2>1, <3>1, <3>2, Settings
    <3>3. CASE u # t.user
      BY <1>n, <1>t, <2>1, <3>1, <3>3, Settings
    <3>4. QED
      BY <3>2, <3>3
  <2>4. ASSUME NEW k \in Token PROVE token'[k] \in TokenRow \cup {None}
    <3>1. CASE token'[k] = token[k]
      BY <1>t, <3>1
    <3>2. CASE /\ t.op = "prepare"
               /\ token'[k] = [user |-> t.user, package |-> t.package, done |-> 0,
                              spent |-> FALSE, expires |-> t.at + Ttl]
      <4> DEFINE no == FALSE
                 e == t.at + Ttl
      <4>1. no \in BOOLEAN /\ e \in Nat /\ t.package \in Package
        BY <2>1, <3>2, Settings DEF RequestOK
      <4>2. token'[k] = [user |-> t.user, package |-> t.package, done |-> 0,
                         spent |-> no, expires |-> e]
        BY <3>2
      <4> HIDE DEF no, e
      <4>3. QED
        BY <2>1, <4>1, <4>2 DEF TokenRow
    <3>3. CASE token[k] \in TokenRow /\ token'[k] = [token[k] EXCEPT !.expires = t.at]
      BY <2>1, <3>3 DEF TokenRow
    <3>4. CASE t.op \in {"view", "verify"} /\ token'[k] = OneMoreView(t.row)
      BY <2>1, <3>4, OneMoreViewEffect DEF RequestOK
    <3>5. QED
      BY <1>3, <3>1, <3>2, <3>3, <3>4, TokensAfterEffect
  <2>5. UNCHANGED <<alive, merged>>
    BY <1>3 DEF Write
  <2>6. QED
    BY <1>t, <2>1, <2>2, <2>3, <2>4, <2>5
<1>4. ASSUME NEW w \in Worker, NEW u \in User, NEW v \in User, Merge(w, u, v) PROVE Data /\ Owed
  <2>1. Folded(account[u], account[v]) \in Account
    BY <1>t, FoldedEffect
  <2>2. /\ alive' \in SUBSET User /\ merged' \in SUBSET User
        /\ account' \in [User -> Account]
        /\ token' \in [Token -> TokenRow \cup {None}]
    BY <1>4, <1>t, <2>1 DEF Merge
  <2>3. unserved' = [unserved EXCEPT ![v] = 0] /\ now' = now
    BY <1>4 DEF Merge
  <2>4. QED
    BY <1>t, <2>2, <2>3, Settings
<1>5. ASSUME Tick PROVE Data /\ Owed
  <2>1. /\ UNCHANGED <<alive, account, token, merged>> /\ now < Horizon /\ now' = now + 1
        /\ unserved' = [u \in User |-> IF u \in alive /\ Running(account[u], now)
                                        THEN unserved[u] - 1 ELSE unserved[u]]
    BY <1>5 DEF Tick
  <2>2. ASSUME NEW u \in User
        PROVE  unserved'[u] \in -Horizon .. MaxUnserved /\ unserved'[u] >= 1 - now'
    <3>1. unserved[u] \in -Horizon .. MaxUnserved /\ unserved[u] >= 1 - now
      BY <1>t
    <3>2. unserved'[u] = unserved[u] - 1 \/ unserved'[u] = unserved[u]
      BY <2>1
    <3>3. QED
      BY <1>t, <2>1, <3>1, <3>2, Settings
  <2>3. unserved' \in [User -> -Horizon .. MaxUnserved]
    <3>1. unserved' = [u \in User |-> unserved'[u]]
      BY <2>1
    <3>2. QED
      BY <2>2, <3>1
  <2>4. Data
    BY <1>t, <2>1, <2>3
  <2>5. Owed
    BY <2>2
  <2>6. QED
    BY <2>4, <2>5
<1>6. ASSUME UNCHANGED <<now, alive, account, token, unserved, merged>>
      PROVE  Data /\ Owed
  <2>1. Data
    BY <1>6, <1>t
  <2>2. Owed
    BY <1>6, <1>t, Zenon
  <2>3. QED
    BY <2>1, <2>2
<1>7. Data /\ Owed
  <2> HIDE DEF Data, Owed
  <2>1. QED
    BY <1>3, <1>4, <1>5, <1>6, Steps DEF Begins, Drop, vars
<1>8. QED
  BY <1>1, <1>2, <1>7, <1>n DEF TypeInv, TypeOK

\* The columns keep their types, the ledger never owes more than the time that
\* has passed, whatever requests overlap.
THEOREM TypeCorrect == Spec => []TypeOK
<1>1. TypeInv => TypeOK
  BY DEF TypeInv
<1>2. QED
  BY <1>1, TypeInit, TypeStep, PTL DEF Spec

-----------------------------------------------------------------------------
(* What holds whatever requests overlap.  A request writes what it computed   *)
(* from the account or token it read, so each invariant is about what is held *)
(* in a request as much as about what is in the tables.                       *)

CapInv ==
    /\ CappedAhead
    /\ \A w \in Worker : tx[w] # None => tx[w].seen.expiry <= tx[w].at + MaxAhead

LEMMA CapStep == TypeInv /\ CapInv /\ [Next]_vars => CapInv'
<1> SUFFICES ASSUME TypeInv, CapInv, [Next]_vars PROVE CapInv'
  OBVIOUS
<1>t. /\ now \in Nat /\ account \in [User -> Account] /\ alive \subseteq User
      /\ \A u \in User : account[u].expiry \in Nat /\ account[u].expiry <= now + MaxAhead
      /\ \A w \in Worker : tx[w] # None => tx[w] \in Tx /\ RequestOK(tx[w])
      /\ MaxAhead \in Nat
  BY Settings DEF TypeInv, TypeOK, Account, Time, CapInv, CappedAhead
<1>1. ASSUME NEW v \in Worker, tx'[v] # None PROVE tx'[v].seen.expiry <= tx'[v].at + MaxAhead
  <2>1. CASE Begins(v, tx'[v])
    BY <1>t, <2>1 DEF Begins, Reads
  <2>2. CASE tx'[v] = tx[v]
    BY <1>1, <2>2 DEF CapInv
  <2>3. QED
    BY <1>1, <2>1, <2>2, Requests
<1>2. ASSUME NEW w \in Worker, Write(w), NEW u \in User
      PROVE  account'[u].expiry <= now' + MaxAhead
  <2> DEFINE t == tx[w]
  <2>0. now' = now /\ t # None
    BY <1>2 DEF Write
  <2>1. CASE u # t.user
    BY <1>2, <1>t, <2>0, <2>1, WriteEffect
  <2>2. CASE u = t.user
    <3>1. /\ t \in Tx /\ RequestOK(t) /\ t.at \in Nat /\ t.at <= Horizon
          /\ account'[u].expiry = IF Decided(t).expiry # t.seen.expiry
                                  THEN Decided(t).expiry ELSE account[u].expiry
      BY <1>2, <2>2, WriteEffect
    <3> HIDE DEF t
    <3>2. Decided(t).expiry <= t.at + MaxAhead \/ Decided(t).expiry = t.seen.expiry
      BY <3>1, DecidedEffect
    <3>3. t.at <= now /\ Decided(t).expiry \in Nat
      BY <3>1, DecidedEffect DEF RequestOK, Account, Time
    <3>4. QED
      BY <1>t, <2>0, <3>1, <3>2, <3>3
  <2>3. QED
    BY <2>1, <2>2
<1>3. ASSUME NEW w \in Worker, NEW keep \in User, NEW absorb \in User,
             Merge(w, keep, absorb), NEW u \in User
      PROVE  account'[u].expiry <= now' + MaxAhead
  <2>1. /\ now' = now
        /\ account' = [account EXCEPT ![keep] = Folded(account[keep], account[absorb])]
    BY <1>3 DEF Merge
  <2>2. Folded(account[keep], account[absorb]).expiry
          = Larger(account[keep].expiry, account[absorb].expiry)
    BY <1>t, FoldedEffect
  <2>3. QED
    BY <1>t, <2>1, <2>2 DEF Larger
<1>4. ASSUME UNCHANGED account, now' \in {now, now + 1}, NEW u \in User
      PROVE  account'[u].expiry <= now' + MaxAhead
  BY <1>4, <1>t
<1>5. CappedAhead'
  BY <1>2, <1>3, <1>4, Steps DEF CappedAhead, Begins, Drop, Tick, vars
<1>6. QED
  BY <1>1, <1>5 DEF CapInv

\* Nobody banks more than MaxAhead, however many requests overlap.
THEOREM NobodyBanksMore == Spec => []CappedAhead
<1>1. Init => CapInv
  <2> SUFFICES ASSUME Init PROVE CapInv
    OBVIOUS
  <2>1. \A u \in User : account[u].expiry = 0
    BY DEF Init, NewAccount
  <2>2. QED
    BY <2>1, Settings DEF Init, CapInv, CappedAhead
<1>2. CapInv => CappedAhead
  BY DEF CapInv
<1>3. QED
  BY <1>1, <1>2, TypeInit, TypeStep, CapStep, PTL DEF Spec

\* A request that redeems a token holds a row that has an ad to go.
ViewInv ==
    /\ NoExtraView
    /\ \A w \in Worker : tx[w] # None /\ tx[w].op \in {"view", "verify"}
                           => tx[w].row.done < Views[tx[w].row.package]

RowCounts(r) ==
    /\ r.done <= Views[r.package]
    /\ r.spent <=> r.done = Views[r.package]

LEMMA ViewStep == TypeInv /\ ViewInv /\ [Next]_vars => ViewInv'
<1> SUFFICES ASSUME TypeInv, ViewInv, [Next]_vars PROVE ViewInv'
  OBVIOUS
<1>t. /\ \A k \in Token : token[k] \in TokenRow \cup {None}
      /\ \A k \in Token : token[k] # None => RowCounts(token[k])
      /\ \A r \in TokenRow : r.done \in Nat /\ Views[r.package] \in Nat
                                /\ Views[r.package] > 0
      /\ \A w \in Worker : tx[w] # None => tx[w] \in Tx /\ RequestOK(tx[w])
  BY PackageAssumption DEF TypeInv, TypeOK, TokenRow, ViewInv, NoExtraView, RowCounts
<1>1. ASSUME NEW v \in Worker, tx'[v] # None, tx'[v].op \in {"view", "verify"}
      PROVE  tx'[v].row.done < Views[tx'[v].row.package]
  <2>1. CASE Begins(v, tx'[v])
    <3> DEFINE r == tx'[v].row
    <3>1. r \in TokenRow /\ ~r.spent /\ tx'[v].token \in Token /\ r = token[tx'[v].token] /\ r # None
      BY <1>1, <2>1 DEF Begins, Reads
    <3> HIDE DEF r
    <3>2. RowCounts(r)
      BY <3>1, <1>t
    <3>3. QED
      BY <1>t, <3>1, <3>2 DEF r, RowCounts
  <2>2. CASE tx'[v] = tx[v]
    BY <1>1, <2>2 DEF ViewInv
  <2>3. QED
    BY <1>1, <2>1, <2>2, Requests
<1>2. ASSUME NEW w \in Worker, Write(w), NEW k \in Token, token'[k] # None
      PROVE  RowCounts(token'[k])
  <2> DEFINE t == tx[w]
  <2>0. t \in Tx /\ RequestOK(t)
    BY <1>2, WriteEffect
  <2>1. CASE token'[k] = token[k]
    BY <1>2, <1>t, <2>1
  <2>2. CASE /\ t.op = "prepare"
             /\ token'[k] = [user |-> t.user, package |-> t.package, done |-> 0,
                            spent |-> FALSE, expires |-> t.at + Ttl]
    <3>1. t.package \in Package
      BY <2>0, <2>2 DEF RequestOK
    <3>2. Views[t.package] \in Nat \ {0}
      BY <3>1, PackageAssumption
    <3>3. QED
      BY <2>2, <3>2 DEF RowCounts
  <2>3. CASE /\ token[k] \in TokenRow /\ token[k] # None
             /\ token'[k] = [token[k] EXCEPT !.expires = t.at]
    <3> DEFINE r == token[k]
               e == t.at
    <3>1. r \in TokenRow /\ token'[k] = [r EXCEPT !.expires = e]
      BY <2>3
    <3>2. RowCounts(r)
      BY <2>3, <1>t
    <3> HIDE DEF r, e
    <3>3. /\ token'[k].done = r.done /\ token'[k].package = r.package
          /\ token'[k].spent = r.spent
      BY <3>1 DEF TokenRow
    <3>4. QED
      BY <3>2, <3>3, Zenon DEF RowCounts
  <2>4. CASE t.op \in {"view", "verify"} /\ token'[k] = OneMoreView(t.row)
    <3> DEFINE r == t.row
    <3>1. r \in TokenRow /\ r.done < Views[r.package]
      BY <1>2, <2>0, <2>4 DEF RequestOK, ViewInv, Write
    <3> HIDE DEF r
    <3>2. /\ OneMoreView(r).done = r.done + 1
          /\ OneMoreView(r).spent <=> r.done + 1 >= Views[r.package]
          /\ OneMoreView(r).package = r.package
      BY <3>1, OneMoreViewEffect
    <3>3. r.done + 1 <= Views[r.package] /\ r.done \in Nat /\ Views[r.package] \in Nat
      BY <1>t, <3>1
    <3>4. RowCounts(OneMoreView(r))
      BY <3>2, <3>3 DEF RowCounts
    <3>5. QED
      BY <2>4, <3>4 DEF r
  <2>5. QED
    BY <1>2, <2>1, <2>2, <2>3, <2>4, TokensAfterEffect
<1>3. ASSUME NEW w \in Worker, NEW u \in User, NEW v \in User, Merge(w, u, v),
             NEW k \in Token, token'[k] # None
      PROVE  RowCounts(token'[k])
  <2>1. token'[k] = token[k]
    BY <1>3 DEF Merge
  <2>2. QED
    BY <1>3, <1>t, <2>1
<1>4. ASSUME UNCHANGED token, NEW k \in Token, token'[k] # None PROVE RowCounts(token'[k])
  BY <1>4, <1>t
<1>5. \A k \in Token : token'[k] # None => RowCounts(token'[k])
  BY <1>2, <1>3, <1>4, Steps DEF Begins, Drop, Tick, vars
<1>6. NoExtraView'
  BY <1>5 DEF NoExtraView, RowCounts
<1>7. QED
  BY <1>1, <1>6 DEF ViewInv

\* The views of a token stop at its package, whichever of two overlapping
\* callbacks writes last.
THEOREM TokenEndsWithItsPackage == Spec => []NoExtraView
<1>1. Init => ViewInv
  BY DEF Init, ViewInv, NoExtraView
<1>2. ViewInv => NoExtraView
  BY DEF ViewInv
<1>3. QED
  BY <1>1, <1>2, TypeInit, TypeStep, ViewStep, PTL DEF Spec

\* The ledger covers the time an account has, and the time any request under
\* way still believes it has.
Covers(u, expiry) == Larger(expiry - now, 0) <= unserved[u]

ServedInv ==
    /\ ServedIsRecorded
    /\ \A w \in Worker : tx[w] # None /\ tx[w].user \in alive \ merged
                           => Covers(tx[w].user, tx[w].seen.expiry)

LEMMA ServedStep == TypeInv /\ ServedInv /\ [Next]_vars => ServedInv'
<1> SUFFICES ASSUME TypeInv, ServedInv, [Next]_vars PROVE ServedInv'
  OBVIOUS
<1>t. /\ now \in Nat /\ alive \subseteq User
      /\ \A u \in User : account[u].expiry \in Nat /\ unserved[u] \in Int
                          /\ account[u] \in Account
      /\ \A w \in Worker : tx[w] # None => tx[w] \in Tx /\ RequestOK(tx[w])
      /\ \A u \in alive \ merged : Covers(u, account[u].expiry)
  BY Settings DEF TypeInv, TypeOK, Account, Time, ServedInv, ServedIsRecorded, Covers
<1>h. ASSUME NEW v \in Worker, tx[v] # None
      PROVE  /\ tx[v].user \in User /\ tx[v].seen.expiry \in Nat
             /\ tx[v].user \in alive \ merged => Covers(tx[v].user, tx[v].seen.expiry)
  BY <1>h, <1>t DEF Tx, Account, Time, ServedInv
<1>1. ASSUME NEW w \in Worker, Write(w) PROVE ServedInv'
  <2> DEFINE t == tx[w]
  <2>1. t # None /\ UNCHANGED <<now, alive, merged>>
    BY <1>1 DEF Write
  <2>2. /\ t \in Tx /\ RequestOK(t) /\ t.at \in Nat /\ t.at <= Horizon /\ t.user \in User
        /\ account'[t.user].expiry = IF Decided(t).expiry # t.seen.expiry
                                     THEN Decided(t).expiry ELSE account[t.user].expiry
        /\ \A u \in User \ {t.user} : account'[u] = account[u] /\ unserved'[u] = unserved[u]
        /\ Recorded(t) \in Nat
        /\ t.op \in {"view", "verify", "grace", "manual"} => Recorded(t) = t.minutes
        /\ unserved'[t.user] = unserved[t.user] + Recorded(t)
    BY <1>1, WriteEffect
  <2>3. t.user \in alive \ merged => Covers(t.user, t.seen.expiry)
    BY <1>h, <2>1
  <2> HIDE DEF t
  <2>4. /\ t.seen.expiry \in Nat /\ t.at <= now /\ t.minutes \in Nat /\ t.op \in Op
        /\ Decided(t).expiry \in Nat
        /\ t.op \in {"prepare", "revoke"} => Decided(t).expiry \in {0, t.seen.expiry}
        /\ Decided(t).expiry <= Larger(t.seen.expiry, t.at) + t.minutes
    BY <2>2, DecidedEffect DEF Tx, RequestOK, Account, Time
  <2>5. ASSUME NEW u \in alive \ merged, NEW e \in Nat, Covers(u, e) PROVE Covers(u, e)'
    <3>1. unserved'[u] >= unserved[u]
      BY <1>t, <2>2
    <3>2. unserved[u] \in Int /\ unserved'[u] \in Int
      BY <1>t, <2>2
    <3>3. Larger(e - now, 0) <= unserved[u]
      BY <2>5 DEF Covers
    <3>4. Larger(e - now, 0) \in Int
      BY <1>t DEF Larger
    <3>5. QED
      BY <2>1, <3>1, <3>2, <3>3, <3>4 DEF Covers
  <2>6. ASSUME NEW u \in alive \ merged PROVE Covers(u, account[u].expiry)'
    <3>0. Covers(u, account[u].expiry) /\ u \in User /\ account[u].expiry \in Nat
      BY <1>t
    <3>1. CASE account'[u].expiry = account[u].expiry
      <4>1. ASSUME NEW e, e = account[u].expiry PROVE Covers(u, e)'
        BY <2>5, <3>0, <4>1
      <4>2. QED
        BY <3>1, <4>1 DEF Covers
    <3>2. CASE u = t.user /\ account'[u].expiry = Decided(t).expiry
               /\ Decided(t).expiry # t.seen.expiry
      <4>1. Larger(t.seen.expiry - now, 0) <= unserved[u]
        BY <2>3, <3>2 DEF Covers
      <4>2. unserved[u] \in Int /\ unserved[u] >= 0
        BY <1>t, <2>4, <4>1 DEF Larger
      <4>3. CASE t.op \in {"prepare", "revoke"}
        <5>1. account'[u].expiry = 0
          BY <2>4, <3>2, <4>3
        <5>2. QED
          BY <1>t, <2>1, <2>2, <3>2, <4>2, <5>1 DEF Covers, Larger
      <4>4. CASE t.op \notin {"prepare", "revoke"}
        <5>1. unserved'[u] = unserved[u] + t.minutes
          BY <2>2, <2>4, <3>2, <4>4 DEF Op
        <5>2. account'[u].expiry <= Larger(t.seen.expiry, t.at) + t.minutes
          BY <2>4, <3>2
        <5>3. Larger(account'[u].expiry - now, 0) <= unserved[u] + t.minutes
          BY <1>t, <2>2, <2>4, <3>2, <4>1, <4>2, <5>2 DEF Larger
        <5>4. QED
          BY <2>1, <5>1, <5>3 DEF Covers
      <4>5. QED
        BY <4>3, <4>4
    <3>3. QED
      BY <2>2, <3>0, <3>1, <3>2
  <2>7. ASSUME NEW v \in Worker, tx'[v] # None, tx'[v].user \in alive \ merged
        PROVE  Covers(tx[v].user, tx[v].seen.expiry)'
    <3>1. tx'[v] = tx[v]
      <4>1. ~Begins(v, tx'[v])
        BY <1>1, <2>7 DEF Begins, Write, TypeInv, TypeOK
      <4>2. QED
        BY <2>7, <4>1, Requests
    <3>2. /\ tx[v].user \in alive \ merged /\ tx[v].seen.expiry \in Nat
          /\ Covers(tx[v].user, tx[v].seen.expiry)
      BY <1>h, <2>7, <3>1
    <3>3. ASSUME NEW u, NEW e, u = tx[v].user, e = tx[v].seen.expiry PROVE Covers(u, e)'
      BY <2>5, <3>2, <3>3
    <3>4. QED
      BY <3>1, <3>3 DEF Covers
  <2>8. QED
    BY <2>1, <2>6, <2>7 DEF ServedInv, ServedIsRecorded, Covers
<1>2. CASE Tick
  <2>1. /\ UNCHANGED <<alive, account, merged, tx>> /\ now' = now + 1
        /\ \A u \in User : unserved'[u] = IF u \in alive /\ Running(account[u], now)
                                          THEN unserved[u] - 1 ELSE unserved[u]
    BY <1>2 DEF Tick
  <2>2. ASSUME NEW u \in alive \ merged, NEW e \in Nat, Covers(u, e) PROVE Covers(u, e)'
    <3>1. u \in User /\ account[u].expiry \in Nat /\ unserved[u] \in Int
      BY <1>t
    <3>2. Larger(e - now, 0) <= unserved[u] /\ Larger(account[u].expiry - now, 0) <= unserved[u]
      BY <1>t, <2>2 DEF Covers
    <3>3. CASE Running(account[u], now)
      <4>1. unserved'[u] = unserved[u] - 1
        BY <2>1, <3>1, <3>3
      <4>2. QED
        BY <1>t, <2>1, <3>1, <3>2, <3>3, <4>1 DEF Covers, Running, Larger
    <3>4. CASE ~Running(account[u], now)
      <4>1. unserved'[u] = unserved[u]
        BY <2>1, <3>1, <3>4
      <4>2. QED
        BY <1>t, <2>1, <3>1, <3>2, <4>1 DEF Covers, Larger
    <3>5. QED
      BY <3>3, <3>4
  <2>3. ASSUME NEW u \in alive \ merged PROVE Covers(u, account[u].expiry)'
    <3>1. ASSUME NEW e, e = account[u].expiry PROVE Covers(u, e)'
      BY <1>t, <2>2, <3>1
    <3>2. QED
      BY <2>1, <3>1 DEF Covers
  <2>4. ASSUME NEW v \in Worker, tx[v] # None, tx[v].user \in alive \ merged
        PROVE  Covers(tx[v].user, tx[v].seen.expiry)'
    <3>1. ASSUME NEW u, NEW e, u = tx[v].user, e = tx[v].seen.expiry PROVE Covers(u, e)'
      BY <1>h, <2>2, <2>4, <3>1
    <3>2. QED
      BY <2>1, <3>1 DEF Covers
  <2>5. QED
    BY <2>1, <2>3, <2>4 DEF ServedInv, ServedIsRecorded, Covers
<1>3. ASSUME NEW w \in Worker, NEW keep \in User, NEW absorb \in User, Merge(w, keep, absorb)
      PROVE  ServedInv'
  <2>1. /\ UNCHANGED <<now, tx>> /\ alive' = alive \ {absorb} /\ merged' = merged \cup {keep}
        /\ \A u \in alive' \ merged' : u \in alive \ merged /\ account'[u] = account[u]
                                         /\ unserved'[u] = unserved[u]
    BY <1>3, <1>t DEF Merge, TypeInv, TypeOK
  <2>2. ServedIsRecorded'
    BY <1>t, <2>1 DEF ServedIsRecorded, Covers
  <2>3. QED
    BY <1>h, <2>1, <2>2 DEF ServedInv, Covers
<1>4. ASSUME UNCHANGED <<now, alive, account, unserved, merged>> PROVE ServedInv'
  <2>1. ServedIsRecorded'
    BY <1>4, <1>t DEF ServedIsRecorded, Covers
  <2>2. ASSUME NEW v \in Worker, tx'[v] # None, tx'[v].user \in alive \ merged
        PROVE  Larger(tx'[v].seen.expiry - now, 0) <= unserved[tx'[v].user]
    <3>1. CASE Begins(v, tx'[v])
      BY <1>t, <2>2, <3>1 DEF Begins, Reads, Covers
    <3>2. CASE tx'[v] = tx[v]
      BY <1>h, <2>2, <3>2 DEF Covers
    <3>3. QED
      BY <2>2, <3>1, <3>2, Requests
  <2>3. QED
    BY <1>4, <2>1, <2>2 DEF ServedInv, Covers
<1>5. QED
  BY <1>1, <1>2, <1>3, <1>4, Steps DEF Begins, Drop, vars

\* The time an account was and will be online is in the ledger: no grant goes
\* unrecorded, and none of two that overlap lets an account be served longer.
THEOREM ServedIsExplained == Spec => []ServedIsRecorded
<1>1. Init => ServedInv
  <2> SUFFICES ASSUME Init PROVE ServedInv
    OBVIOUS
  <2>1. \A u \in User : account[u].expiry = 0 /\ unserved[u] = 0
    BY DEF Init, NewAccount
  <2>2. QED
    BY <2>1 DEF Init, ServedInv, ServedIsRecorded, Larger
<1>2. ServedInv => ServedIsRecorded
  BY DEF ServedInv
<1>3. QED
  BY <1>1, <1>2, TypeInit, TypeStep, ServedStep, PTL DEF Spec

-----------------------------------------------------------------------------
(* What holds when requests come one at a time.  Of two that overlap, the one *)
(* that commits last writes over what the other one granted, adds its token   *)
(* to the other's, or hands out the fallback again; so the statements are     *)
(* false of more.  What makes them true of one is that what it read is still  *)
(* what is in the tables when it writes.                                      *)

OneWorker == \A v, w \in Worker : v = w

Fresh(t) ==
    /\ t.seen = account[t.user]
    /\ t.op = "prepare" => t.stale = Stale(t.user)
    /\ t.op # "prepare" => t.stale = {}
    /\ t.op \in {"view", "verify"} => /\ t.row = token[t.token]
                                      /\ t.row # None /\ ~t.row.spent
    /\ t.op = "grace" /\ t.seen.graceAt # None => t.at - t.seen.graceAt >= GraceInterval

FreshInv == \A w \in Worker : tx[w] # None => Fresh(tx[w])

LEMMA FreshStep == OneWorker /\ TypeInv /\ FreshInv /\ [Next]_vars => FreshInv'
<1> SUFFICES ASSUME OneWorker, TypeInv, FreshInv, [Next]_vars, NEW v \in Worker, tx'[v] # None
             PROVE  Fresh(tx[v])'
  BY DEF FreshInv
<1>t. tx \in [Worker -> Tx \cup {None}]
  BY DEF TypeInv, TypeOK
<1>1. CASE Begins(v, tx'[v])
  <2>1. Stale(tx[v].user)' = Stale(tx'[v].user)
    BY <1>1 DEF Begins, Stale, TokensOf, Unspent
  <2>2. QED
    BY <1>1, <2>1 DEF Begins, Reads, Fresh, CooledDown
<1>2. CASE tx'[v] = tx[v]
  <2>1. ASSUME NEW w \in Worker, Write(w) \/ Drop(w) PROVE FALSE
    <3>1. w = v
      BY DEF OneWorker
    <3>2. tx'[w] = None
      BY <1>t, <2>1 DEF Write, Drop
    <3>3. QED
      BY <3>1, <3>2
  <2>2. ASSUME NEW w \in Worker, NEW u \in User, NEW x \in User, Merge(w, u, x) PROVE FALSE
    <3>1. w = v
      BY DEF OneWorker
    <3>2. QED
      BY <1>2, <2>2, <3>1 DEF Merge, Idle
  <2>3. UNCHANGED <<account, token>>
    BY <2>1, <2>2, Steps DEF Begins, Tick, vars
  <2>4. Stale(tx[v].user)' = Stale(tx[v].user)
    BY <1>2, <2>3 DEF Stale, TokensOf, Unspent
  <2>5. QED
    BY <1>2, <2>3, <2>4 DEF FreshInv, Fresh
<1>3. QED
  BY <1>1, <1>2, Requests

LEMMA FreshInit == Init => FreshInv
  BY DEF Init, FreshInv

\* A token the app could redeem now.
Live(k) == Unspent(k) /\ token[k].expires > now

LEMMA OneLiveStep ==
    TypeInv /\ FreshInv /\ OneLiveToken /\ [Next]_vars => OneLiveToken'
<1> SUFFICES ASSUME TypeInv, FreshInv, OneLiveToken, [Next]_vars PROVE OneLiveToken'
  OBVIOUS
<1>t. /\ now \in Nat
      /\ \A k \in Token : token[k] \in TokenRow \cup {None}
      /\ \A r \in TokenRow : r.expires \in Nat
      /\ \A j, k \in Token : Live(j) /\ Live(k) /\ token[j].user = token[k].user => j = k
  BY DEF TypeInv, TypeOK, TokenRow, OneLiveToken, Live
<1>1. ASSUME NEW w \in Worker, Write(w),
             NEW j \in Token, NEW k \in Token, Live(j)', Live(k)', token'[j].user = token'[k].user
      PROVE  j = k
  <2> DEFINE t == tx[w]
  <2>0. /\ now' = now /\ Fresh(t) /\ t \in Tx /\ RequestOK(t) /\ t.at \in Nat
    BY <1>1, WriteEffect DEF Write, FreshInv
  <2>1. ASSUME NEW i \in Token, Live(i)'
        PROVE  \/ t.op = "prepare" /\ i = t.token /\ token'[i].user = t.user
               \/ /\ Live(i) /\ token'[i].user = token[i].user
                  /\ t.op = "prepare" => i \notin t.stale
    <3>1. CASE t.op = "prepare" /\ i = t.token
      <4>1. token'[i] = [user |-> t.user, package |-> t.package, done |-> 0,
                         spent |-> FALSE, expires |-> t.at + Ttl]
        BY <1>1, <3>1 DEF Write, TokensAfter
      <4>2. QED
        BY <3>1, <4>1
    <3>2. CASE ~(t.op = "prepare" /\ i = t.token) /\ i \in t.stale /\ token[i] # None
      <4>1. token'[i] = [token[i] EXCEPT !.expires = t.at] /\ token[i] \in TokenRow
        BY <1>1, <1>t, <3>2 DEF Write, TokensAfter
      <4>2. token'[i].expires = t.at
        BY <4>1 DEF TokenRow
      <4>3. t.at <= now
        BY <2>0 DEF RequestOK
      <4>4. QED
        BY <1>t, <2>0, <2>1, <4>2, <4>3 DEF Live
    <3>3. CASE /\ ~(t.op = "prepare" /\ i = t.token) /\ ~(i \in t.stale /\ token[i] # None)
               /\ t.op \in {"view", "verify"} /\ i = t.token
      <4>1. token'[i] = OneMoreView(t.row)
        BY <1>1, <3>3 DEF Write, TokensAfter
      <4>2. t.row = token[i] /\ t.row # None /\ ~t.row.spent /\ t.row \in TokenRow
        BY <2>0, <3>3 DEF Fresh, RequestOK
      <4>3. token'[i].user = t.row.user /\ token'[i].expires = t.row.expires
        BY <4>1, <4>2, OneMoreViewEffect
      <4>4. token[i].expires > now
        BY <2>0, <2>1, <4>2, <4>3 DEF Live
      <4>5. QED
        BY <3>3, <4>2, <4>3, <4>4 DEF Live, Unspent
    <3>4. CASE /\ ~(t.op = "prepare" /\ i = t.token) /\ ~(i \in t.stale /\ token[i] # None)
               /\ ~(t.op \in {"view", "verify"} /\ i = t.token)
      <4>1. token'[i] = token[i]
        BY <1>1, <3>4 DEF Write, TokensAfter
      <4>2. Live(i)
        BY <2>0, <2>1, <4>1 DEF Live, Unspent
      <4>3. QED
        BY <3>4, <4>1, <4>2 DEF Live, Unspent
    <3>5. QED
      BY <3>1, <3>2, <3>3, <3>4
  <2>2. ASSUME NEW i \in Token, t.op = "prepare", Live(i), token[i].user = t.user
        PROVE  i \in t.stale
    BY <2>0, <2>2 DEF Fresh, Stale, TokensOf, Live, Unspent
  <2> HIDE DEF t
  <2>3. QED
    BY <1>1, <1>t, <2>1, <2>2
<1>2. ASSUME NEW w \in Worker, NEW u \in User, NEW v \in User, Merge(w, u, v) PROVE OneLiveToken'
  <2>1. /\ now' = now
        /\ \A k \in Token : token'[k] # None => token'[k] = token[k]
    BY <1>2 DEF Merge
  <2>2. \A k \in Token : Live(k)' => Live(k) /\ token'[k] = token[k]
    BY <2>1 DEF Live, Unspent
  <2>3. QED
    BY <1>t, <2>2 DEF OneLiveToken, Live
<1>3. ASSUME UNCHANGED token, now' \in {now, now + 1} PROVE OneLiveToken'
  <2>1. \A k \in Token : Unspent(k)' => Unspent(k) /\ token[k] \in TokenRow
    BY <1>3, <1>t DEF Unspent
  <2>2. \A k \in Token : Live(k)' => Live(k) /\ token'[k] = token[k]
    BY <1>3, <1>t, <2>1 DEF Live
  <2>3. QED
    BY <1>t, <2>2 DEF OneLiveToken, Live
<1>4. (\E w \in Worker : Write(w)) => OneLiveToken'
  BY <1>1 DEF OneLiveToken, Live
<1>5. QED
  BY <1>2, <1>3, <1>4, Steps DEF Begins, Drop, Tick, vars

\* One request at a time, a user has one token that the app can redeem.
THEOREM OneTokenEach == OneWorker => (Spec => []OneLiveToken)
<1> SUFFICES ASSUME OneWorker PROVE Spec => []OneLiveToken
  OBVIOUS
<1>1. Init => OneLiveToken
  BY DEF Init, OneLiveToken, Unspent
<1>2. FreshInv /\ TypeInv /\ [Next]_vars => FreshInv'
  BY FreshStep
<1>3. QED
  BY <1>1, <1>2, TypeInit, TypeStep, FreshInit, OneLiveStep, PTL DEF Spec

\* One request at a time, only a revocation takes time away.
THEOREM TimeIsKept == OneWorker => (Spec => TimeIsNeverTaken)
<1> SUFFICES ASSUME OneWorker PROVE Spec => TimeIsNeverTaken
  OBVIOUS
<1> DEFINE Keeps ==
      \A u \in alive :
         \/ \E w \in Worker : tx[w] # None /\ tx[w].op = "revoke"
                                /\ tx[w].user = u /\ tx'[w] = None
         \/ \E v \in alive' : /\ u \in alive' => v = u
                              /\ account'[v].expiry >= account[u].expiry
<1>1. TypeInv /\ FreshInv /\ [Next]_vars => [Keeps]_vars
  <2> SUFFICES ASSUME TypeInv, FreshInv, [Next]_vars, ~UNCHANGED vars, NEW u \in alive
               PROVE  \/ \E w \in Worker : tx[w] # None /\ tx[w].op = "revoke"
                                            /\ tx[w].user = u /\ tx'[w] = None
                      \/ \E v \in alive' : /\ u \in alive' => v = u
                                           /\ account'[v].expiry >= account[u].expiry
    BY Zenon
  <2>t. /\ tx \in [Worker -> Tx \cup {None}] /\ alive \subseteq User
        /\ account \in [User -> Account]
        /\ \A x \in User : account[x].expiry \in Nat
    BY DEF TypeInv, TypeOK, Account, Time
  <2>1. ASSUME NEW w \in Worker, Write(w)
        PROVE  \/ tx[w] # None /\ tx[w].op = "revoke" /\ tx[w].user = u /\ tx'[w] = None
               \/ u \in alive' /\ account'[u].expiry >= account[u].expiry
    <3> DEFINE t == tx[w]
    <3>1. t # None /\ tx'[w] = None /\ u \in alive' /\ u \in User /\ t.seen = account[t.user]
      BY <2>1, <2>t DEF Write, FreshInv, Fresh
    <3>2. /\ t \in Tx /\ t.at <= Horizon
          /\ account'[t.user].expiry = IF Decided(t).expiry # t.seen.expiry
                                       THEN Decided(t).expiry ELSE account[t.user].expiry
          /\ \A x \in User \ {t.user} : account'[x] = account[x]
      BY <2>1, WriteEffect
    <3> HIDE DEF t
    <3>3. t.op # "revoke" => Decided(t).expiry >= t.seen.expiry
      BY <3>2, DecidedEffect
    <3>4. QED
      BY <2>t, <3>1, <3>2, <3>3 DEF t
  <2>2. ASSUME NEW w \in Worker, NEW keep \in User, NEW absorb \in User, Merge(w, keep, absorb)
        PROVE  \E v \in alive' : /\ u \in alive' => v = u
                                 /\ account'[v].expiry >= account[u].expiry
    <3>1. /\ alive' = alive \ {absorb} /\ {keep, absorb} \subseteq alive /\ keep # absorb
          /\ account' = [account EXCEPT ![keep] = Folded(account[keep], account[absorb])]
      BY <2>2 DEF Merge
    <3>2. account'[keep].expiry = Larger(account[keep].expiry, account[absorb].expiry)
      BY <2>t, <3>1, FoldedEffect
    <3>3. CASE u = absorb
      <4>1. account'[keep].expiry >= account[u].expiry
        BY <2>t, <3>2, <3>3 DEF Larger
      <4>2. QED
        BY <3>1, <3>3, <4>1
    <3>4. CASE u # absorb
      <4>1. account'[u].expiry >= account[u].expiry
        BY <2>t, <3>1, <3>2 DEF Larger
      <4>2. QED
        BY <3>1, <3>4, <4>1
    <3>5. QED
      BY <3>3, <3>4
  <2>3. ASSUME UNCHANGED <<alive, account>>
        PROVE  u \in alive' /\ account'[u].expiry >= account[u].expiry
    BY <2>3, <2>t
  <2>4. QED
    BY <2>1, <2>2, <2>3, Steps DEF Begins, Drop, Tick, vars
<1>2. FreshInv /\ TypeInv /\ [Next]_vars => FreshInv'
  BY FreshStep
<1>3. QED
  BY <1>1, <1>2, TypeInit, TypeStep, FreshInit, PTL DEF Spec, TimeIsNeverTaken

\* One request at a time, the fallback is not handed out twice within its
\* interval, and linking accounts does not hand it back.
THEOREM GraceKeepsItsInterval == OneWorker => (Spec => GraceIsSpaced)
<1> SUFFICES ASSUME OneWorker PROVE Spec => GraceIsSpaced
  OBVIOUS
<1> DEFINE Spaced ==
      \A u \in alive :
         LET before == account[u].graceAt IN
         before # None =>
           \E v \in alive' :
             /\ u \in alive' => v = u
             /\ \/ account'[v].graceAt = before
                \/ alive' = alive /\ account'[v].graceAt - before >= GraceInterval
                \/ alive' # alive /\ account'[v].graceAt > before
<1>1. TypeInv /\ FreshInv /\ [Next]_vars => [Spaced]_vars
  <2> SUFFICES ASSUME TypeInv, FreshInv, [Next]_vars, ~UNCHANGED vars, NEW u \in alive,
                      account[u].graceAt # None
               PROVE  \E v \in alive' :
                         /\ u \in alive' => v = u
                         /\ \/ account'[v].graceAt = account[u].graceAt
                            \/ /\ alive' = alive
                               /\ account'[v].graceAt - account[u].graceAt >= GraceInterval
                            \/ alive' # alive /\ account'[v].graceAt > account[u].graceAt
    BY Zenon
  <2>t. /\ tx \in [Worker -> Tx \cup {None}] /\ alive \subseteq User
        /\ account \in [User -> Account]
        /\ \A x \in User : account[x].graceAt \in Nat \cup {None}
        /\ None \notin Nat
    BY Settings DEF TypeInv, TypeOK, Account, Time
  <2>1. ASSUME NEW w \in Worker, Write(w)
        PROVE  /\ u \in alive' /\ alive' = alive
               /\ \/ account'[u].graceAt = account[u].graceAt
                  \/ account'[u].graceAt - account[u].graceAt >= GraceInterval
    <3> DEFINE t == tx[w]
    <3>1. u \in alive' /\ alive' = alive /\ u \in User /\ Fresh(t)
      BY <2>1, <2>t DEF Write, FreshInv
    <3>2. /\ t \in Tx /\ t.at <= Horizon
          /\ account'[t.user].graceAt = IF Decided(t).graceAt # t.seen.graceAt
                                        THEN Decided(t).graceAt ELSE account[t.user].graceAt
          /\ \A x \in User \ {t.user} : account'[x] = account[x]
      BY <2>1, WriteEffect
    <3> HIDE DEF t
    <3>3. /\ t.op # "grace" => Decided(t).graceAt = t.seen.graceAt
          /\ t.op = "grace" => Decided(t).graceAt = t.at
      BY <3>2, DecidedEffect
    <3>4. QED
      BY <3>1, <3>2, <3>3 DEF Fresh
  <2>2. ASSUME NEW w \in Worker, NEW keep \in User, NEW absorb \in User, Merge(w, keep, absorb)
        PROVE  \E v \in alive' : /\ u \in alive' => v = u
                                 /\ \/ account'[v].graceAt = account[u].graceAt
                                    \/ /\ alive' # alive
                                       /\ account'[v].graceAt > account[u].graceAt
    <3>1. /\ alive' = alive \ {absorb} /\ {keep, absorb} \subseteq alive /\ keep # absorb
          /\ account' = [account EXCEPT ![keep] = Folded(account[keep], account[absorb])]
      BY <2>2 DEF Merge
    <3>2. account'[keep].graceAt = LaterGrace(account[keep], account[absorb])
      BY <2>t, <3>1, FoldedEffect
    <3>3. alive' # alive /\ keep \in alive' /\ absorb \notin alive'
      BY <3>1
    <3>4. CASE u \in {keep, absorb}
      <4>1. \/ account'[keep].graceAt = account[u].graceAt
            \/ account'[keep].graceAt > account[u].graceAt
        BY <2>t, <3>1, <3>2, <3>4 DEF LaterGrace, Larger
      <4>2. QED
        BY <3>3, <3>4, <4>1
    <3>5. CASE u \notin {keep, absorb}
      BY <2>t, <3>1, <3>5
    <3>6. QED
      BY <3>4, <3>5
  <2>3. ASSUME UNCHANGED <<alive, account>>
        PROVE  u \in alive' /\ account'[u].graceAt = account[u].graceAt
    BY <2>3
  <2>4. QED
    BY <2>1, <2>2, <2>3, Steps DEF Begins, Drop, Tick, vars
<1>2. FreshInv /\ TypeInv /\ [Next]_vars => FreshInv'
  BY FreshStep
<1>3. QED
  BY <1>1, <1>2, TypeInit, TypeStep, FreshInit, PTL DEF Spec, GraceIsSpaced
=============================================================================
