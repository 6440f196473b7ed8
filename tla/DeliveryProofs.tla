---------------------------- MODULE DeliveryProofs ----------------------------
(* What Accounts and Delivery guarantee for every number of accounts, chats,  *)
(* devices and pushes: a ban that sticks, nobody signed out, and moves that   *)
(* their users hear of.                                                       *)
EXTENDS Delivery, TLAPS, WellFoundedInduction

-----------------------------------------------------------------------------
(* The accounts.  Every device and chat leads to an account that exists, and  *)
(* a code belongs to one: what keeps a new account from being given an id     *)
(* that somebody's token still names.                                         *)

HoldersExist ==
    /\ \A d \in Device : session[d] # None => status[session[d]] # "none"
    /\ \A c \in Chat : identity[c] # None => status[identity[c]] # "none"
    /\ \A a \in coded : status[a] # "none"

AccountsInv == AccountsOK /\ HoldersExist /\ BanSticks

LEMMA AccountsInvInit == Init => AccountsInv
  BY DEF Init, AccountsInit, AccountsInv, AccountsOK, HoldersExist, BanSticks

\* Owned lists holders.
LEMMA OwnedTypes ==
    ASSUME AccountsOK, NEW a \in Account
    PROVE  /\ Owned(identity, a) = {c \in Chat : identity[c] = a}
           /\ Owned(session, a) = {d \in Device : session[d] = a}
  BY DEF AccountsOK, Owned

LEMMA RegisterStep ==
    ASSUME AccountsInv, NEW d \in Device, NEW a \in Account, Register(d, a)
    PROVE  AccountsInv'
<1>1. AccountsOK'
  BY DEF AccountsInv, AccountsOK, Register
<1>2. HoldersExist'
  BY DEF AccountsInv, AccountsOK, HoldersExist, Register
<1>3. BanSticks'
  BY AccountsAssumption DEF AccountsInv, AccountsOK, BanSticks, Register
<1>4. QED
  BY <1>1, <1>2, <1>3 DEF AccountsInv

LEMMA StartStep ==
    ASSUME AccountsInv, NEW c \in Chat, NEW a \in Account, Start(c, a)
    PROVE  AccountsInv'
<1>1. AccountsOK'
  BY DEF AccountsInv, AccountsOK, Start
<1>2. HoldersExist'
  BY DEF AccountsInv, AccountsOK, HoldersExist, Start
<1>3. BanSticks'
  BY AccountsAssumption DEF AccountsInv, AccountsOK, BanSticks, Start
<1>4. QED
  BY <1>1, <1>2, <1>3 DEF AccountsInv

LEMMA CodeStep ==
    ASSUME AccountsInv,
           \/ \E d \in Device : StartLink(d)
           \/ \E a \in Account : CodeExpires(a)
    PROVE  AccountsInv'
<1>1. CASE \E a \in Account : CodeExpires(a)
  BY <1>1 DEF CodeExpires, AccountsInv, AccountsOK, HoldersExist, BanSticks
<1>2. CASE \E d \in Device : StartLink(d)
  BY <1>2 DEF StartLink, Authenticates, AccountsInv, AccountsOK, HoldersExist, BanSticks
<1>3. QED
  BY <1>1, <1>2

LEMMA BanStep ==
    ASSUME AccountsInv, NEW a \in Account, Ban(a) \/ Unban(a)
    PROVE  AccountsInv'
<1>o. /\ Owned(identity, a) = {c \in Chat : identity[c] = a}
      /\ Owned(session, a) = {d \in Device : session[d] = a}
  BY OwnedTypes DEF AccountsInv
<1>1. AccountsOK'
  BY <1>o DEF AccountsInv, AccountsOK, Ban, Unban
<1>2. HoldersExist'
  BY DEF AccountsInv, AccountsOK, HoldersExist, Ban, Unban
<1>3. CASE Ban(a)
  <2>1. BanSticks'
    BY <1>3, <1>o, AccountsAssumption DEF AccountsInv, AccountsOK, BanSticks, Ban
  <2>2. QED
    BY <1>1, <1>2, <2>1 DEF AccountsInv
<1>4. CASE Unban(a)
  <2>1. BanSticks'
    BY <1>4, <1>o, AccountsAssumption DEF AccountsInv, AccountsOK, BanSticks, Unban
  <2>2. QED
    BY <1>1, <1>2, <2>1 DEF AccountsInv
<1>5. QED
  BY <1>3, <1>4

LEMMA AttachStep ==
    ASSUME AccountsInv, NEW c \in Chat, NEW a \in Account, Attach(c, a)
    PROVE  AccountsInv'
<1>1. AccountsOK'
  BY DEF AccountsInv, AccountsOK, Attach
<1>2. HoldersExist'
  BY DEF AccountsInv, AccountsOK, HoldersExist, Attach
<1>3. BanSticks'
  BY DEF AccountsInv, AccountsOK, BanSticks, Attach
<1>4. QED
  BY <1>1, <1>2, <1>3 DEF AccountsInv

\* Folding hands every chat and device of the absorbed account to the one that
\* stays, and the ban with them.
LEMMA FoldEffect ==
    ASSUME AccountsInv, NEW c \in Chat, NEW a \in Account, Fold(c, a)
    PROVE  /\ identity[c] \in Account /\ identity[c] # a
           /\ identity' = [x \in Chat |-> IF identity[x] = a THEN identity[c] ELSE identity[x]]
           /\ session' = [x \in Device |-> IF session[x] = a THEN identity[c] ELSE session[x]]
           /\ status' \in [Account -> {"none", "active", "banned"}]
           /\ status'[a] = "none"
           /\ status'[identity[c]] # "none"
           /\ status[a] = "banned" \/ status[identity[c]] = "banned"
                => status'[identity[c]] = "banned"
           /\ \A b \in Account \ {a, identity[c]} : status'[b] = status[b]
           /\ coded' = coded \ {a} /\ barred' = barred
<1>1. identity[c] \in Account /\ identity[c] # a
  BY DEF AccountsInv, AccountsOK, Fold
<1>2. /\ status[identity[c]] \in {"active", "banned"}
      /\ status[a] \in {"active", "banned"}
  BY <1>1, AccountsAssumption DEF AccountsInv, AccountsOK, HoldersExist, Fold
<1>3. StatusOfMerged(a, identity[c]) \in {"active", "banned"}
  BY <1>2 DEF StatusOfMerged
<1>4. status' = [status EXCEPT ![identity[c]] = StatusOfMerged(a, identity[c]), ![a] = "none"]
  BY DEF Fold, Merge
<1>5. /\ status' \in [Account -> {"none", "active", "banned"}]
      /\ status'[a] = "none"
      /\ status'[identity[c]] = StatusOfMerged(a, identity[c])
      /\ \A b \in Account \ {a, identity[c]} : status'[b] = status[b]
  BY <1>1, <1>3, <1>4 DEF AccountsInv, AccountsOK
<1>6. QED
  BY <1>1, <1>2, <1>3, <1>5 DEF Fold, Merge, Moved, AccountsInv, AccountsOK, StatusOfMerged

LEMMA FoldStep ==
    ASSUME AccountsInv, NEW c \in Chat, NEW a \in Account, Fold(c, a)
    PROVE  AccountsInv'
<1>1. AccountsOK'
  BY FoldEffect DEF AccountsInv, AccountsOK
<1>2. HoldersExist'
  BY FoldEffect, AccountsAssumption DEF AccountsInv, AccountsOK, HoldersExist
<1>3. BanSticks'
  BY FoldEffect, AccountsAssumption DEF AccountsInv, AccountsOK, BanSticks
<1>4. QED
  BY <1>1, <1>2, <1>3 DEF AccountsInv

\* What a step does to the accounts.
LEMMA AccountSteps ==
    ASSUME [Next]_vars
    PROVE  \/ UNCHANGED accountVars
           \/ \E a \in Account : \/ \E d \in Device : Register(d, a)
                                 \/ \E c \in Chat : Start(c, a) \/ Attach(c, a) \/ Fold(c, a)
                                 \/ CodeExpires(a) \/ Ban(a) \/ Unban(a)
           \/ \E d \in Device : StartLink(d)
  BY DEF Next, vars, Enrol, Connect, Link, Folds, Release, NodeDeleted, Move,
         BotStep, FetchBatch, Unreachable, Send, Ack, SendFails, BotStops

LEMMA AccountsInvStep == AccountsInv /\ [Next]_vars => AccountsInv'
<1> SUFFICES ASSUME AccountsInv, [Next]_vars PROVE AccountsInv'
  OBVIOUS
<1>1. CASE UNCHANGED accountVars
  BY <1>1 DEF accountVars, AccountsInv, AccountsOK, HoldersExist, BanSticks
<1>2. CASE ~UNCHANGED accountVars
  BY <1>2, AccountSteps, RegisterStep, StartStep, CodeStep, BanStep, AttachStep, FoldStep
<1>3. QED
  BY <1>1, <1>2

\* A ban cannot be shaken by linking and merging.
THEOREM BanCannotBeShaken == Spec => []BanSticks
<1>1. AccountsInv => BanSticks
  BY DEF AccountsInv
<1>2. QED
  BY <1>1, AccountsInvInit, AccountsInvStep, PTL DEF Spec

\* A device's token and a chat's identity lead to an account that exists, and
\* never stop doing so.
THEOREM HoldersStaySignedIn == Spec => NobodySignedOut
<1>1. AccountsInv /\ AccountsInv' /\ [Next]_vars
        => [/\ \A d \in Device : session[d] # None
                 => session'[d] # None /\ status'[session'[d]] # "none"
            /\ \A c \in Chat : identity[c] # None
                 => identity'[c] # None /\ status'[identity'[c]] # "none"]_accountVars
  <2> SUFFICES ASSUME AccountsInv, AccountsInv', [Next]_vars, ~UNCHANGED accountVars
               PROVE  /\ \A d \in Device : session[d] # None => session'[d] # None
                      /\ \A c \in Chat : identity[c] # None => identity'[c] # None
    BY DEF AccountsInv, HoldersExist
  <2>1. ASSUME NEW a \in Account, NEW c \in Chat, Fold(c, a)
        PROVE  /\ \A d \in Device : session[d] # None => session'[d] # None
               /\ \A x \in Chat : identity[x] # None => identity'[x] # None
    BY <2>1, FoldEffect, AccountsAssumption
  <2>2. QED
    BY <2>1, AccountSteps, AccountsAssumption
       DEF Register, Start, Attach, CodeExpires, Ban, Unban, StartLink,
           AccountsInv, AccountsOK
<1>2. QED
  BY <1>1, AccountsInvInit, AccountsInvStep, PTL DEF Spec, NobodySignedOut

-----------------------------------------------------------------------------
(* What is left of a queue.  Kept is a recursive function, so that it exists  *)
(* has to be proved before what it computes; both by the least number for     *)
(* which they fail.                                                          *)

LEMMA LeastNumber ==
    ASSUME NEW T \in SUBSET Nat, T # {}
    PROVE  \E p \in T : \A q \in T : p <= q
<1> DEFINE R == OpToRel(<, Nat)
<1>1. IsWellFoundedOn(R, Nat)
  BY NatLessThanWellFounded
<1> HIDE DEF R
<1>2. \E x \in T : \A y \in T : ~ (<<y, x>> \in R)
  BY <1>1, WFMin
<1>3. \A x, y \in Nat : y < x => <<y, x>> \in R
  BY DEF R, OpToRel
<1>4. \A x, y \in T : <<y, x>> \notin R => x <= y
  BY <1>3
<1>5. QED
  BY <1>2, <1>4

\* The body of Kept's function, and a function that obeys it up to n.
KeptBody(s, K, f, i) ==
    IF i = 0 THEN <<>>
    ELSE IF s[i] \in K THEN Append(f[i - 1], s[i]) ELSE f[i - 1]
Keeper(s, K, n, f) == f = [i \in 0..n |-> KeptBody(s, K, f, i)]

LEMMA KeeperExists ==
    ASSUME NEW s, NEW K, NEW n \in Nat
    PROVE  \E f : Keeper(s, K, n, f)
<1> DEFINE Bad == {m \in Nat : ~ \E f : Keeper(s, K, m, f)}
<1>1. SUFFICES ASSUME Bad # {} PROVE FALSE
  OBVIOUS
<1>2. PICK m \in Bad : \A q \in Bad : m <= q
  BY <1>1, LeastNumber
<1>3. CASE m = 0
  <2> DEFINE h == [i \in 0..0 |-> <<>>]
  <2>1. h = [i \in 0..0 |-> KeptBody(s, K, h, i)]
    BY DEF KeptBody
  <2>2. QED
    BY <1>3, <2>1 DEF Keeper
<1>4. CASE m # 0
  <2>1. m - 1 \in Nat /\ m - 1 \notin Bad /\ m \in Nat
    BY <1>2, <1>4
  <2>2. PICK g : Keeper(s, K, m - 1, g)
    BY <2>1
  <2> DEFINE h == [i \in 0..m |-> IF i = m THEN KeptBody(s, K, g, m) ELSE g[i]]
  <2>3. ASSUME NEW i \in 0..m PROVE h[i] = KeptBody(s, K, h, i)
    <3>1. i # 0 => i - 1 \in 0..m /\ i - 1 # m
      BY <2>1
    <3>2. i # 0 => h[i - 1] = g[i - 1]
      BY <3>1
    <3>3. KeptBody(s, K, h, i) = KeptBody(s, K, g, i)
      BY <3>2 DEF KeptBody
    <3>4. i # m => g[i] = KeptBody(s, K, g, i)
      <4>1. i # m => i \in 0..(m - 1)
        BY <2>1
      <4>2. QED
        BY <2>2, <4>1 DEF Keeper
    <3>5. QED
      BY <3>3, <3>4
  <2>4. h = [i \in 0..m |-> KeptBody(s, K, h, i)]
    BY <2>3
  <2>5. QED
    BY <2>4, <1>2 DEF Keeper
<1>5. QED
  BY <1>3, <1>4

\* The kept elements, in a sequence without repetition if there was none.
LEMMA KeptTypes ==
    ASSUME NEW S, NEW s \in Seq(S), NEW K
    PROVE  /\ Kept(s, K) \in Seq(S)
           /\ Range(Kept(s, K)) = Range(s) \cap K
           /\ IsInjective(s) => IsInjective(Kept(s, K))
<1> DEFINE f == CHOOSE g : Keeper(s, K, Len(s), g)
<1>1. Keeper(s, K, Len(s), f)
  BY KeeperExists
<1>2. Kept(s, K) = f[Len(s)]
  BY DEF Kept, Keeper, KeptBody
<1> HIDE DEF f
<1>3. /\ f[0] = <<>>
      /\ \A i \in 1..Len(s) : f[i] = IF s[i] \in K THEN Append(f[i - 1], s[i]) ELSE f[i - 1]
  <2>1. \A i \in 0..Len(s) : f[i] = KeptBody(s, K, f, i)
    BY <1>1 DEF Keeper
  <2>2. QED
    BY <2>1 DEF KeptBody
<1> DEFINE Good(i) ==
             /\ f[i] \in Seq(S)
             /\ Range(f[i]) = {s[j] : j \in 1..i} \cap K
             /\ IsInjective(s) => IsInjective(f[i])
           Bad == {i \in 0..Len(s) : ~Good(i)}
<1>4. Bad = {}
  <2> SUFFICES ASSUME Bad # {} PROVE FALSE
    OBVIOUS
  <2>1. PICK m \in Bad : \A q \in Bad : m <= q
    <3>1. Bad \subseteq Nat
      OBVIOUS
    <3> HIDE DEF Bad
    <3>2. QED
      BY <3>1, LeastNumber
  <2>2. Good(0)
    <3>1. /\ <<>> \in Seq(S) /\ DOMAIN <<>> = {} /\ 1..0 = {}
      OBVIOUS
    <3>2. Range(<<>>) = {} /\ IsInjective(<<>>)
      BY <3>1 DEF Range, IsInjective
    <3>3. QED
      BY <1>3, <3>1, <3>2
  <2>3. m \in 0..Len(s) /\ ~Good(m) /\ \A q \in 0..Len(s) : ~Good(q) => m <= q
    BY <2>1
  <2> HIDE DEF Good
  <2>4. m \in 1..Len(s) /\ m - 1 \in 0..Len(s) /\ m - 1 < m /\ m \in Nat
    <3>1. Len(s) \in Nat /\ m # 0
      BY <2>2, <2>3
    <3>2. QED
      BY <2>3, <3>1
  <2>12. Good(m - 1)
    BY <2>3, <2>4
  <2> DEFINE g == f[m - 1]
  <2>5. /\ g \in Seq(S) /\ Range(g) = {s[j] : j \in 1..(m - 1)} \cap K
        /\ IsInjective(s) => IsInjective(g)
    BY <2>12 DEF Good
  <2>6. f[m] = IF s[m] \in K THEN Append(g, s[m]) ELSE g
    BY <1>3, <2>4
  <2>7. s[m] \in S /\ DOMAIN s = 1..Len(s) /\ 1..(m - 1) \subseteq DOMAIN s /\ m \in DOMAIN s
    BY <2>4
  <2>8. {s[j] : j \in 1..m} = {s[j] : j \in 1..(m - 1)} \cup {s[m]}
    <3>1. 1..m = 1..(m - 1) \cup {m}
      BY <2>4
    <3>2. QED
      BY <3>1
  <2> HIDE DEF g
  <2>9. CASE s[m] \notin K
    <3>1. f[m] = g
      BY <2>6, <2>9
    <3>2. Range(g) = {s[j] : j \in 1..m} \cap K
      <4> DEFINE A == {s[j] : j \in 1..(m - 1)}
      <4>1. Range(g) = A \cap K /\ {s[j] : j \in 1..m} = A \cup {s[m]}
        BY <2>5, <2>8
      <4> HIDE DEF A
      <4>2. QED
        BY <2>9, <4>1
    <3>4. Good(m)
      BY <2>5, <3>1, <3>2 DEF Good
    <3>3. QED
      BY <2>3, <3>4
  <2>10. CASE s[m] \in K
    <3> DEFINE h == Append(g, s[m])
    <3>1. /\ h \in Seq(S) /\ DOMAIN h = 1..(Len(g) + 1) /\ Len(g) \in Nat
          /\ DOMAIN g = 1..Len(g)
          /\ \A i \in 1..Len(g) : h[i] = g[i]
          /\ h[Len(g) + 1] = s[m]
      <4>1. g \in Seq(S) /\ s[m] \in S
        BY <2>5, <2>7
      <4>2. QED
        BY <4>1
    <3>2. f[m] = h
      BY <2>6, <2>10
    <3> HIDE DEF h
    <3>3. Range(h) = Range(g) \cup {s[m]}
      <4>1. DOMAIN h = DOMAIN g \cup {Len(g) + 1}
        BY <3>1
      <4>2. QED
        BY <3>1, <4>1 DEF Range
    <3>4. IsInjective(s) => IsInjective(h)
      <4> SUFFICES ASSUME IsInjective(s), NEW x \in DOMAIN h, NEW y \in DOMAIN h, h[x] = h[y]
                   PROVE  x = y
        BY DEF IsInjective
      <4>1. s[m] \notin Range(g)
        <5>1. \A j \in 1..(m - 1) : s[j] # s[m]
          BY <2>4, <2>7 DEF IsInjective
        <5>2. s[m] \notin {s[j] : j \in 1..(m - 1)}
          BY <5>1
        <5>3. QED
          BY <2>5, <5>2
      <4>2. \A i \in 1..Len(g) : g[i] # s[m]
        BY <3>1, <4>1 DEF Range
      <4>3. \A i, j \in 1..Len(g) : g[i] = g[j] => i = j
        <5>1. IsInjective(g) /\ DOMAIN g = 1..Len(g)
          BY <2>5, <3>1
        <5>2. QED
          BY <5>1 DEF IsInjective
      <4>4. QED
        BY <3>1, <4>2, <4>3
    <3>5. Good(m)
      <4>1. Range(h) = {s[j] : j \in 1..m} \cap K
        <5> DEFINE A == {s[j] : j \in 1..(m - 1)}
        <5>1. Range(g) = A \cap K /\ {s[j] : j \in 1..m} = A \cup {s[m]}
          BY <2>5, <2>8
        <5> HIDE DEF A
        <5>2. QED
          BY <2>10, <3>3, <5>1
      <4>2. QED
        BY <3>1, <3>2, <3>4, <4>1 DEF Good
    <3>6. QED
      BY <2>3, <3>5
  <2>11. QED
    BY <2>9, <2>10
<1>5. Good(Len(s))
  <2>1. Len(s) \in 0..Len(s)
    OBVIOUS
  <2> HIDE DEF Good
  <2>2. QED
    BY <1>4, <2>1
<1>6. Range(s) = {s[j] : j \in 1..Len(s)}
  BY DEF Range
<1>7. QED
  BY <1>2, <1>5, <1>6

-----------------------------------------------------------------------------
(* Type correctness of the queue and the batch.                               *)

QueueOK ==
    /\ queue \in Seq(Push) /\ IsInjective(queue)
    /\ of \in [Push -> Account \cup {None}]
    /\ \A p \in Push : of[p] # None <=> p \in Range(queue)

BotOK ==
    /\ bot \in Bot \cup {None}
    /\ bot # None => bot.todo # <<>>

DeliveryOK ==
    /\ QueueOK /\ BotOK
    /\ live \subseteq Account
    /\ why \in [Account -> {"asked", "moved", "missed"}]
    /\ knows \subseteq Chat
    /\ faults \in 0..MaxFaults

TypeInv == AccountsInv /\ DeliveryOK

LEMMA TypeParts == TypeOK <=> AccountsOK /\ DeliveryOK
  BY DEF TypeOK, DeliveryOK, QueueOK, BotOK

\* The queue after the rows of some pushes went.
LEMMA QueueShrinks ==
    ASSUME QueueOK, NEW K \in SUBSET Push, queue' = Kept(queue, K),
           of' = [p \in Push |-> IF p \in K THEN of[p] ELSE None]
    PROVE  QueueOK'
<1>1. /\ queue' \in Seq(Push) /\ Range(queue') = Range(queue) \cap K
      /\ IsInjective(queue')
  BY KeptTypes DEF QueueOK
<1>2. of' \in [Push -> Account \cup {None}]
  BY DEF QueueOK
<1>3. \A p \in Push : of'[p] # None <=> p \in Range(queue')
  BY <1>1 DEF QueueOK
<1>4. QED
  BY <1>1, <1>2, <1>3 DEF QueueOK

LEMMA DroppedTypes == ASSUME QueueOK, NEW A, Dropped(A) PROVE QueueOK'
<1> DEFINE K == {p \in Push : of[p] \notin A}
<1>1. of' = [p \in Push |-> IF p \in K THEN of[p] ELSE None]
  BY DEF Dropped
<1>2. QED
  BY <1>1, QueueShrinks DEF Dropped

LEMMA ClosedTypes == ASSUME QueueOK, NEW p \in Push, Closed(p) PROVE QueueOK'
<1>1. of' = [q \in Push |-> IF q \in Push \ {p} THEN of[q] ELSE None]
  BY DEF Closed, QueueOK
<1>2. QED
  BY <1>1, QueueShrinks DEF Closed

\* The queue after one more row, of a push that was not pending.
LEMMA QueueGrows ==
    ASSUME QueueOK, NEW p \in Push, NEW a \in Account, of[p] = None,
           queue' = Append(queue, p), of' = [of EXCEPT ![p] = a]
    PROVE  QueueOK'
<1>1. /\ queue \in Seq(Push) /\ p \notin Range(queue)
  BY DEF QueueOK
<1>2. /\ queue' \in Seq(Push) /\ Len(queue) \in Nat
      /\ DOMAIN queue = 1..Len(queue) /\ DOMAIN queue' = 1..(Len(queue) + 1)
      /\ \A i \in 1..Len(queue) : queue'[i] = queue[i]
      /\ queue'[Len(queue) + 1] = p
  BY <1>1
<1>3. Range(queue') = Range(queue) \cup {p}
  <2>1. DOMAIN queue' = DOMAIN queue \cup {Len(queue) + 1}
    BY <1>2
  <2>2. QED
    BY <1>2, <2>1 DEF Range
<1>4. IsInjective(queue')
  <2>1. \A i \in 1..Len(queue) : queue[i] # p
    BY <1>1, <1>2 DEF Range
  <2>2. \A i, j \in 1..Len(queue) : queue[i] = queue[j] => i = j
    BY <1>2 DEF QueueOK, IsInjective
  <2>3. QED
    BY <1>2, <2>1, <2>2 DEF IsInjective
<1>5. of' \in [Push -> Account \cup {None}]
  BY DEF QueueOK
<1>6. \A q \in Push : of'[q] # None <=> q \in Range(queue')
  BY <1>3, AccountsAssumption DEF QueueOK
<1>7. QED
  BY <1>2, <1>4, <1>5, <1>6 DEF QueueOK

\* What becomes of a batch whose links were outdated: the same items, in the
\* same place, some with a link that is stale.
LEMMA OutdatedEffect ==
    ASSUME BotOK, NEW A, bot' = Outdated(A)
    PROVE  /\ BotOK'
           /\ bot' = None <=> bot = None
           /\ bot # None =>
                /\ bot'.ack = bot.ack
                /\ Len(bot'.todo) = Len(bot.todo)
                /\ \A i \in 1..Len(bot.todo) :
                     bot'.todo[i] = Aged(bot.todo[i], A)
<1>1. CASE bot = None
  BY <1>1 DEF Outdated, BotOK
<1>2. CASE bot # None
  <2>1. bot \in Bot /\ bot.todo \in Seq(Item) /\ bot.todo # <<>>
    BY <1>2 DEF BotOK, Bot
  <2> DEFINE t == [i \in DOMAIN bot.todo |-> Aged(bot.todo[i], A)]
  <2>2. bot' = [bot EXCEPT !.todo = t]
    BY <1>2 DEF Outdated
  <2>3. \A i \in DOMAIN bot.todo : bot.todo[i] \in Item
    BY <2>1
  <2>4. \A i \in DOMAIN bot.todo : t[i] \in Item
    BY <2>3 DEF Item, Aged, Stale
  <2>5. DOMAIN t = 1..Len(bot.todo) /\ Len(bot.todo) \in Nat /\ Len(bot.todo) # 0
        /\ DOMAIN bot.todo = 1..Len(bot.todo)
    BY <2>1
  <2>6. t \in Seq(Item) /\ Len(t) = Len(bot.todo)
    <3>1. t = [i \in 1..Len(bot.todo) |-> t[i]]
      BY <2>5
    <3> HIDE DEF t
    <3>2. QED
      BY <2>4, <2>5, <3>1
  <2>7. \A i \in 1..Len(bot.todo) : t[i] = Aged(bot.todo[i], A)
    BY <2>5
  <2> HIDE DEF t
  <2>8. bot' \in Bot /\ bot'.todo = t /\ bot'.ack = bot.ack
    BY <2>1, <2>2, <2>6 DEF Bot
  <2>9. bot' # None /\ t # <<>>
    BY <2>5, <2>6, <2>8, DeliveryNoneAssumption
  <2>10. QED
    BY <1>2, <2>6, <2>7, <2>8, <2>9 DEF BotOK
<1>3. QED
  BY <1>1, <1>2

\* The batch while it is worked through: only the acknowledgement changes.
LEMMA AckTypes ==
    ASSUME BotOK, bot # None, NEW x \in {"ok", "error"}, bot' = [bot EXCEPT !.ack = x]
    PROVE  BotOK' /\ bot' # None /\ bot'.todo = bot.todo /\ bot'.ack = x
<1>1. bot \in Bot /\ bot' \in Bot /\ bot'.todo = bot.todo /\ bot'.ack = x
  BY DEF BotOK, Bot
<1>2. QED
  BY <1>1, DeliveryNoneAssumption DEF BotOK

\* ... and its head goes when it was acknowledged.
LEMMA RestEffect ==
    ASSUME BotOK, bot # None, bot' = Rest
    PROVE  /\ BotOK'
           /\ bot' # None =>
                /\ bot'.ack = "none"
                /\ Len(bot.todo) \in Nat /\ Len(bot.todo) > 1
                /\ Len(bot'.todo) = Len(bot.todo) - 1
                /\ \A i \in 1..Len(bot'.todo) : bot'.todo[i] = bot.todo[i + 1]
           /\ bot' = None => Len(bot.todo) = 1
<1>1. bot \in Bot /\ bot.todo \in Seq(Item) /\ bot.todo # <<>>
  BY DEF BotOK, Bot
<1>2. CASE Len(bot.todo) = 1
  BY <1>2 DEF Rest, BotOK
<1>3. CASE Len(bot.todo) # 1
  <2> DEFINE t == Tail(bot.todo)
  <2>1. /\ t \in Seq(Item) /\ Len(bot.todo) \in Nat /\ Len(bot.todo) > 1
        /\ Len(t) = Len(bot.todo) - 1
        /\ \A i \in 1..Len(t) : t[i] = bot.todo[i + 1]
    <3> DEFINE q == bot.todo
    <3>1. q \in Seq(Item) /\ q # <<>> /\ Len(q) # 1
      BY <1>1, <1>3
    <3> HIDE DEF q
    <3>2. /\ Tail(q) \in Seq(Item) /\ Len(q) \in Nat /\ Len(q) > 1
          /\ Len(Tail(q)) = Len(q) - 1
      BY <3>1
    <3>3. \A i \in 1..Len(Tail(q)) : Tail(q)[i] = q[i + 1]
      BY <3>1, <3>2
    <3>4. QED
      BY <3>2, <3>3 DEF q
  <2> HIDE DEF t
  <2>2. bot' = [todo |-> t, ack |-> "none"]
    BY <1>3 DEF Rest, t
  <2>3. bot' \in Bot /\ bot' # None /\ bot'.todo = t /\ t # <<>>
    BY <2>1, <2>2, DeliveryNoneAssumption DEF Bot
  <2>4. QED
    BY <2>1, <2>2, <2>3 DEF BotOK
<1>4. QED
  BY <1>2, <1>3

\* A batch shows each pending push once, with a chat of its account if it has
\* one and the link of the moment.
LEMMA FetchEffect ==
    ASSUME TypeInv, FetchBatch
    PROVE  /\ BotOK' /\ bot' # None /\ bot'.ack = "none"
           /\ Len(bot'.todo) = Len(queue) /\ Len(queue) \in Nat
           /\ \A i \in 1..Len(queue) :
                /\ queue[i] \in Push /\ of[queue[i]] \in Account
                /\ bot'.todo[i] \in Item
                /\ bot'.todo[i].push = queue[i]
                /\ bot'.todo[i].user = of[queue[i]]
                /\ bot'.todo[i].link = IF of[queue[i]] \in live THEN "fresh" ELSE "none"
                /\ IF Owned(identity, of[queue[i]]) = {} THEN bot'.todo[i].to = None
                    ELSE bot'.todo[i].to \in Owned(identity, of[queue[i]])
<1>1. QueueOK /\ AccountsOK
  BY DEF TypeInv, DeliveryOK, AccountsInv
<1>2. /\ queue \in Seq(Push) /\ DOMAIN queue = 1..Len(queue) /\ Len(queue) \in Nat
      /\ \A i \in 1..Len(queue) : queue[i] \in Push /\ queue[i] \in Range(queue)
  BY <1>1 DEF QueueOK, Range
<1>3. \A i \in 1..Len(queue) : of[queue[i]] \in Account
  BY <1>1, <1>2 DEF QueueOK
<1>4. PICK to \in [Range(queue) -> Chat \cup {None}] :
        /\ \A p \in Range(queue) :
              IF Owned(identity, of[p]) = {} THEN to[p] = None
              ELSE to[p] \in Owned(identity, of[p])
        /\ bot' = [todo |-> [i \in 1..Len(queue) |-> Rendered(queue[i], to[queue[i]])],
                   ack |-> "none"]
  BY <1>2 DEF FetchBatch
<1> DEFINE t == [i \in 1..Len(queue) |-> Rendered(queue[i], to[queue[i]])]
<1>5. \A i \in 1..Len(queue) : t[i] \in Item
  <2> SUFFICES ASSUME NEW i \in 1..Len(queue) PROVE Rendered(queue[i], to[queue[i]]) \in Item
    OBVIOUS
  <2>1. to[queue[i]] \in Chat \cup {None}
    BY <1>2, <1>4
  <2>2. QED
    BY <1>2, <1>3, <2>1 DEF Rendered, Item
<1>6. \A i \in 1..Len(queue) :
        /\ t[i].push = queue[i] /\ t[i].user = of[queue[i]]
        /\ t[i].link = IF of[queue[i]] \in live THEN "fresh" ELSE "none"
        /\ t[i].to = to[queue[i]]
  BY DEF Rendered
<1>7. t \in Seq(Item) /\ Len(t) = Len(queue)
  <2>1. t = [i \in 1..Len(queue) |-> t[i]]
    OBVIOUS
  <2> HIDE DEF t
  <2>2. QED
    BY <1>2, <1>5, <2>1
<1>8. Len(queue) # 0
  BY <1>2 DEF FetchBatch
<1> HIDE DEF t
<1>9. bot' = [todo |-> t, ack |-> "none"]
  BY <1>4 DEF t
<1>10. bot' \in Bot /\ bot' # None /\ bot'.todo = t /\ bot'.ack = "none" /\ t # <<>>
  BY <1>7, <1>8, <1>9, DeliveryNoneAssumption DEF Bot
<1>11. BotOK'
  BY <1>10 DEF BotOK
<1>12. ASSUME NEW i \in 1..Len(queue)
       PROVE  IF Owned(identity, of[queue[i]]) = {} THEN t[i].to = None
              ELSE t[i].to \in Owned(identity, of[queue[i]])
  BY <1>2, <1>4, <1>6
<1>13. QED
  BY <1>2, <1>3, <1>5, <1>6, <1>7, <1>10, <1>11, <1>12

\* The row the worker is at.
LEMMA TurnTypes ==
    ASSUME BotOK, bot # None
    PROVE  Turn \in Item /\ bot \in Bot /\ Len(bot.todo) \in Nat /\ Len(bot.todo) > 0
<1>1. bot \in Bot /\ bot.todo \in Seq(Item) /\ bot.todo # <<>>
  BY DEF BotOK, Bot
<1>2. QED
  BY <1>1 DEF Turn

LEMMA TypeInit == Init => TypeInv
<1> SUFFICES ASSUME Init PROVE TypeInv
  OBVIOUS
<1>1. AccountsInv
  BY AccountsInvInit
<1>2. QueueOK
  <2>1. <<>> \in Seq(Push) /\ DOMAIN <<>> = {}
    OBVIOUS
  <2>2. Range(<<>>) = {} /\ IsInjective(<<>>)
    BY <2>1 DEF Range, IsInjective
  <2>3. QED
    BY <2>1, <2>2 DEF Init, QueueOK
<1>3. BotOK
  BY DEF Init, BotOK
<1>4. DeliveryOK
  BY <1>2, <1>3, DeliveryAssumption DEF Init, DeliveryOK
<1>5. QED
  BY <1>1, <1>4 DEF TypeInv

LEMMA TypeStep == TypeInv /\ [Next]_vars => TypeInv'
<1> SUFFICES ASSUME TypeInv, [Next]_vars PROVE DeliveryOK'
  BY AccountsInvStep DEF TypeInv
<1>t. /\ AccountsOK /\ QueueOK /\ BotOK
      /\ live \subseteq Account
      /\ why \in [Account -> {"asked", "moved", "missed"}]
      /\ knows \subseteq Chat
      /\ faults \in 0..MaxFaults
  BY DEF TypeInv, AccountsInv, DeliveryOK
<1>f. Fault => faults' \in 0..MaxFaults
  BY <1>t, DeliveryAssumption DEF Fault
<1>q. UNCHANGED <<queue, of>> => QueueOK'
  BY <1>t DEF QueueOK
<1>b. UNCHANGED bot => BotOK'
  BY <1>t DEF BotOK
<1>c. ASSUME NEW a \in Account, NEW alive \in BOOLEAN,
             NEW reason \in {"asked", "moved", "missed"}, Changes(a, alive, reason)
      PROVE  /\ BotOK' /\ live' \subseteq Account
             /\ why' \in [Account -> {"asked", "moved", "missed"}]
  BY <1>c, <1>t, OutdatedEffect DEF Changes
<1>1. CASE Enrol
  BY <1>1, <1>t, <1>q, <1>b DEF Enrol, Delivery, DeliveryOK
<1>2. ASSUME NEW a \in Account, NEW x \in Chat \cup Device, Connect(a, x)
      PROVE  DeliveryOK'
  BY <1>2, <1>t, <1>q, <1>c DEF Connect, DeliveryOK
<1>3. ASSUME NEW a \in Account, NEW c \in Chat, Link(c, a) PROVE DeliveryOK'
  BY <1>3, <1>t, <1>q, <1>b DEF Link, DeliveryOK
<1>4. ASSUME NEW a \in Account, NEW c \in Chat, Folds(c, a) PROVE DeliveryOK'
  <2>1. QueueOK'
    BY <1>4, <1>t, DroppedTypes DEF Folds
  <2>2. BotOK'
    BY <1>4, <1>t, OutdatedEffect DEF Folds
  <2>3. QED
    BY <1>4, <1>t, <2>1, <2>2 DEF Folds, DeliveryOK
<1>5. ASSUME NEW a \in Account, Release(a) PROVE DeliveryOK'
  BY <1>5, <1>t, <1>q, <1>c DEF Release, DeliveryOK
<1>6. ASSUME NEW a \in Account, NodeDeleted(a) PROVE DeliveryOK'
  <2>1. QueueOK'
    BY <1>6, <1>t, DroppedTypes DEF NodeDeleted
  <2>2. QED
    BY <1>6, <1>t, <1>c, <2>1 DEF NodeDeleted, DeliveryOK
<1>7. ASSUME NEW a \in Account, NEW p \in Push, Move(a, p) PROVE DeliveryOK'
  <2>1. QueueOK'
    BY <1>7, <1>t, QueueGrows DEF Move
  <2>2. QED
    BY <1>7, <1>t, <1>c, <2>1 DEF Move, DeliveryOK
<1>8. CASE FetchBatch
  <2>1. BotOK'
    BY <1>8, FetchEffect
  <2>2. QED
    BY <1>8, <1>t, <1>q, <2>1 DEF FetchBatch, DeliveryOK
<1>9. CASE Unreachable
  BY <1>9, <1>t, <1>q, AckTypes DEF Unreachable, Sending, DeliveryOK
<1>10. CASE Send
  <2>1. Turn.to \in Chat
    BY <1>10, <1>t, TurnTypes DEF Send, Sending, Item
  <2>2. knows' \subseteq Chat
    BY <1>10, <1>t, <2>1 DEF Send, Told
  <2>3. BotOK'
    BY <1>10, <1>t, AckTypes DEF Send, Sending
  <2>4. QED
    BY <1>10, <1>t, <1>q, <2>2, <2>3 DEF Send, DeliveryOK
<1>11. CASE SendFails
  <2>1. BotOK'
    <3>1. CASE bot' = None
      BY <3>1 DEF BotOK
    <3>2. CASE bot' # None
      BY <1>11, <1>t, <3>2, AckTypes DEF SendFails, Sending
    <3>3. QED
      BY <3>1, <3>2
  <2>2. QED
    BY <1>11, <1>t, <1>q, <1>f, <2>1 DEF SendFails, DeliveryOK
<1>12. CASE Ack
  <2>1. bot # None /\ Turn.push \in Push
    BY <1>12, <1>t, TurnTypes DEF Ack, Item
  <2>2. CASE of[Turn.push] = None
    <3>1. BotOK'
      BY <1>12, <2>2 DEF Ack, BotOK
    <3>2. QED
      BY <1>12, <1>t, <1>q, <2>2, <3>1 DEF Ack, DeliveryOK
  <2>3. CASE of[Turn.push] # None
    <3>1. BotOK'
      BY <1>12, <1>t, <2>1, <2>3, RestEffect DEF Ack
    <3>2. QueueOK'
      BY <1>12, <1>t, <2>1, <2>3, ClosedTypes DEF Ack
    <3>3. why' \in [Account -> {"asked", "moved", "missed"}]
      BY <1>12, <1>t, <2>3 DEF Ack
    <3>4. QED
      BY <1>12, <1>t, <3>1, <3>2, <3>3 DEF Ack, DeliveryOK
  <2>4. QED
    BY <2>2, <2>3
<1>13. CASE BotStops
  <2>1. BotOK'
    BY <1>13 DEF BotStops, BotOK
  <2>2. QED
    BY <1>13, <1>t, <1>q, <1>f, <2>1 DEF BotStops, DeliveryOK
<1>14. CASE UNCHANGED vars
  BY <1>14, <1>t, <1>q, <1>b DEF vars, DeliveryOK
<1>15. QED
  BY <1>1, <1>2, <1>3, <1>4, <1>5, <1>6, <1>7, <1>8, <1>9, <1>10, <1>11, <1>12,
     <1>13, <1>14 DEF Next, BotStep

\* Every pending push is in the queue once and belongs to an account, and
\* whatever is deleted meanwhile the batch holds rows to send.
THEOREM TypeCorrect == Spec => []TypeOK
<1>1. TypeInv => TypeOK
  BY TypeParts DEF TypeInv, AccountsInv
<1>2. QED
  BY <1>1, TypeInit, TypeStep, PTL DEF Spec

-----------------------------------------------------------------------------
(* Who was moved hears of it.  For each account the invariant follows the      *)
(* news of its last move: it waits in the queue for the next batch, or comes   *)
(* in this one with a link that is still good, or a chat of the account holds  *)
(* it; and no stale link for that chat is still to be sent after it.           *)

Batch == IF bot = None THEN {} ELSE 1..Len(bot.todo)

ItemsOK == \A i \in Batch :
    /\ of[bot.todo[i].push] \in {None, bot.todo[i].user}
    /\ bot.todo[i].link = "fresh"
         => bot.todo[i].to = None \/ identity[bot.todo[i].to] = bot.todo[i].user

PushesOnce ==
    \A i, j \in Batch : bot.todo[i].push = bot.todo[j].push => i = j

AckOK ==
    bot # None /\ bot.ack = "ok"
      => /\ bot.todo[1].to # None
         /\ bot.todo[1].link = "fresh" => bot.todo[1].to \in knows

Safe(c) == \A i \in Batch : bot.todo[i].to = c => bot.todo[i].link # "stale"

Waiting(a) ==
    \E p \in Push : of[p] = a /\ \A i \in Batch : bot.todo[i].push # p
Coming(a) ==
    \E i \in Batch : /\ of[bot.todo[i].push] = a
                     /\ bot.todo[i].link = "fresh"
                     /\ bot.todo[i].to = None \/ Safe(bot.todo[i].to)
Holding(a) == \E c \in knows : identity[c] = a /\ Safe(c)

HearsOfIt(a) == Waiting(a) \/ Coming(a) \/ Holding(a)

ToldInv ==
    /\ ItemsOK /\ PushesOnce /\ AckOK
    /\ \A a \in live : why[a] = "moved" => HearsOfIt(a)


LEMMA ToldInit == Init => ToldInv
  BY DEF Init, ToldInv, ItemsOK, PushesOnce, AckOK, Batch

\* A batch shrinks to none, keeps its items, or has all of them aged.
LEMMA BatchAged ==
    ASSUME TypeInv, NEW A, bot' = Outdated(A)
    PROVE  /\ Batch' = Batch /\ (bot' = None <=> bot = None)
           /\ bot # None => bot'.ack = bot.ack /\ 1 \in Batch
           /\ \A i \in Batch :
                /\ bot.todo[i] \in Item
                /\ bot'.todo[i].push = bot.todo[i].push
                /\ bot'.todo[i].user = bot.todo[i].user
                /\ bot'.todo[i].to = bot.todo[i].to
                /\ bot'.todo[i].link = IF bot.todo[i].user \in A THEN Stale(bot.todo[i].link)
                                       ELSE bot.todo[i].link
<1>1. BotOK
  BY DEF TypeInv, DeliveryOK
<1>2. CASE bot = None
  BY <1>1, <1>2, OutdatedEffect DEF Batch
<1>3. CASE bot # None
  <2>1. bot.todo \in Seq(Item) /\ Len(bot.todo) \in Nat /\ Len(bot.todo) > 0
    BY <1>1, <1>3, TurnTypes DEF Bot
  <2>2. \A i \in 1..Len(bot.todo) : bot.todo[i] \in Item
    BY <2>1
  <2>3. \A i \in 1..Len(bot.todo) : bot'.todo[i] = Aged(bot.todo[i], A)
    BY <1>1, <1>3, OutdatedEffect
  <2>4. \A x \in Item : /\ Aged(x, A).push = x.push /\ Aged(x, A).user = x.user
                        /\ Aged(x, A).to = x.to
                        /\ Aged(x, A).link = IF x.user \in A THEN Stale(x.link) ELSE x.link
    BY DEF Aged, Item
  <2>5. /\ bot' # None /\ bot'.ack = bot.ack /\ Len(bot'.todo) = Len(bot.todo)
    BY <1>1, <1>3, OutdatedEffect
  <2>6. QED
    BY <1>3, <2>1, <2>2, <2>3, <2>4, <2>5 DEF Batch
<1>4. QED
  BY <1>2, <1>3

\* When account a's link changes, what is true of the batch stays true, and the
\* others still hear of what they have to hear.
LEMMA OthersHear ==
    ASSUME TypeInv, ToldInv, NEW a \in Account, bot' = Outdated({a}),
           \A p \in Push : \/ of'[p] \in {None, of[p]}
                          \/ \A i \in Batch : bot.todo[i].push # p,
           \A p \in Push : of[p] # None /\ of[p] # a => of'[p] = of[p],
           \A c \in Chat : identity[c] # None /\ identity[c] # a
                           => identity'[c] = identity[c] /\ (c \in knows => c \in knows')
    PROVE  /\ ItemsOK' /\ PushesOnce' /\ AckOK'
           /\ \A b \in Account : b # a /\ HearsOfIt(b) => HearsOfIt(b)'
<1>n. /\ None \notin Account /\ None \notin Chat
      /\ knows \subseteq Chat
      /\ \A i \in Batch : /\ bot.todo[i].push \in Push /\ bot.todo[i].user \in Account
                          /\ bot.todo[i].to \in Chat \cup {None}
  BY AccountsAssumption, DeliveryAssumption, BatchAged DEF TypeInv, DeliveryOK, Item
<1>b. /\ Batch' = Batch /\ (bot' = None <=> bot = None)
      /\ bot # None => bot'.ack = bot.ack /\ 1 \in Batch
  BY BatchAged
<1>i. ASSUME NEW i \in Batch
      PROVE  /\ bot'.todo[i].push = bot.todo[i].push
             /\ bot'.todo[i].user = bot.todo[i].user
             /\ bot'.todo[i].to = bot.todo[i].to
             /\ bot'.todo[i].link = "fresh"
                  => bot.todo[i].link = "fresh" /\ bot.todo[i].user # a
             /\ bot'.todo[i].link = "stale"
                  => \/ bot.todo[i].link = "stale"
                     \/ bot.todo[i].link = "fresh" /\ bot.todo[i].user = a
             /\ bot.todo[i].user # a => bot'.todo[i].link = bot.todo[i].link
  <2>1. /\ bot'.todo[i].push = bot.todo[i].push
        /\ bot'.todo[i].user = bot.todo[i].user
        /\ bot'.todo[i].to = bot.todo[i].to
        /\ bot'.todo[i].link = IF bot.todo[i].user \in {a} THEN Stale(bot.todo[i].link)
                               ELSE bot.todo[i].link
    BY BatchAged
  <2>2. Stale(bot.todo[i].link) = IF bot.todo[i].link = "fresh" THEN "stale" ELSE bot.todo[i].link
    BY DEF Stale
  <2>3. QED
    BY <2>1, <2>2
<1>k. ASSUME NEW i \in Batch
      PROVE  /\ of[bot.todo[i].push] \in {None, bot.todo[i].user}
             /\ of'[bot.todo[i].push] \in {None, of[bot.todo[i].push]}
             /\ bot.todo[i].link = "fresh" /\ bot.todo[i].to # None
                  => bot.todo[i].to \in Chat /\ identity[bot.todo[i].to] = bot.todo[i].user
  <2>1. bot.todo[i].push \in Push /\ bot.todo[i].to \in Chat \cup {None}
    BY <1>n
  <2>2. QED
    BY <2>1 DEF ToldInv, ItemsOK
<1>1. ItemsOK'
  <2> SUFFICES ASSUME NEW i \in Batch
               PROVE  /\ of'[bot'.todo[i].push] \in {None, bot'.todo[i].user}
                      /\ bot'.todo[i].link = "fresh"
                           => \/ bot'.todo[i].to = None
                              \/ identity'[bot'.todo[i].to] = bot'.todo[i].user
    BY <1>b DEF ItemsOK
  <2>1. bot.todo[i].user \in Account /\ bot.todo[i].user # None
    BY <1>n
  <2>2. of'[bot'.todo[i].push] \in {None, bot'.todo[i].user}
    BY <1>i, <1>k
  <2>3. ASSUME bot'.todo[i].link = "fresh", bot'.todo[i].to # None
        PROVE  identity'[bot'.todo[i].to] = bot'.todo[i].user
    <3>1. bot.todo[i].link = "fresh" /\ bot.todo[i].user # a /\ bot.todo[i].to # None
      BY <1>i, <2>3
    <3>2. bot.todo[i].to \in Chat /\ identity[bot.todo[i].to] = bot.todo[i].user
      BY <1>k, <3>1
    <3>3. identity'[bot.todo[i].to] = identity[bot.todo[i].to]
      BY <2>1, <3>1, <3>2
    <3>4. QED
      BY <1>i, <3>2, <3>3
  <2>4. QED
    BY <2>2, <2>3
<1>2. PushesOnce'
  <2> SUFFICES ASSUME NEW i \in Batch, NEW j \in Batch, bot'.todo[i].push = bot'.todo[j].push
               PROVE  i = j
    BY <1>b DEF PushesOnce
  <2>1. bot.todo[i].push = bot.todo[j].push
    BY <1>i
  <2>2. QED
    BY <2>1 DEF ToldInv, PushesOnce
<1>3. AckOK'
  <2> SUFFICES ASSUME bot # None, bot.ack = "ok"
               PROVE  /\ bot'.todo[1].to # None
                      /\ bot'.todo[1].link = "fresh" => bot'.todo[1].to \in knows'
    BY <1>b DEF AckOK
  <2>1. /\ 1 \in Batch /\ bot.todo[1].to # None
        /\ bot.todo[1].link = "fresh" => bot.todo[1].to \in knows
    BY <1>b DEF ToldInv, AckOK
  <2>2. bot.todo[1].user \in Account
    BY <1>n, <2>1
  <2>3. ASSUME bot'.todo[1].link = "fresh" PROVE bot'.todo[1].to \in knows'
    <3>1. bot.todo[1].link = "fresh" /\ bot.todo[1].user # a
      BY <1>i, <2>1, <2>3
    <3>2. bot.todo[1].to \in Chat /\ identity[bot.todo[1].to] = bot.todo[1].user
      BY <1>k, <2>1, <3>1
    <3>3. bot.todo[1].to \in knows'
      BY <1>n, <2>1, <2>2, <3>1, <3>2
    <3>4. QED
      BY <1>i, <2>1, <3>3
  <2>4. QED
    BY <1>i, <2>1, <2>3
<1>4. ASSUME NEW b \in Account, b # a, HearsOfIt(b) PROVE HearsOfIt(b)'
  <2>0. b # None
    BY <1>n
  <2>1. ASSUME NEW c \in Chat, identity[c] = b, Safe(c) PROVE Safe(c)'
    <3> SUFFICES ASSUME NEW i \in Batch, bot'.todo[i].to = c, bot'.todo[i].link = "stale"
                 PROVE  FALSE
      BY <1>b DEF Safe
    <3>1. bot.todo[i].to = c /\ bot.todo[i].link # "stale"
      BY <1>i, <2>1 DEF Safe
    <3>2. bot.todo[i].link = "fresh" /\ bot.todo[i].user = a
      BY <1>i, <3>1
    <3>3. QED
      BY <1>4, <1>k, <1>n, <2>1, <3>1, <3>2
  <2>2. ASSUME Waiting(b) PROVE Waiting(b)'
    <3>1. PICK p \in Push : of[p] = b /\ \A i \in Batch : bot.todo[i].push # p
      BY <2>2 DEF Waiting
    <3>2. of'[p] = b
      BY <1>4, <2>0, <3>1
    <3>3. \A i \in Batch : bot'.todo[i].push # p
      BY <1>i, <3>1
    <3>4. QED
      BY <1>b, <3>2, <3>3 DEF Waiting
  <2>3. ASSUME Coming(b) PROVE Coming(b)'
    <3>1. PICK i \in Batch : /\ of[bot.todo[i].push] = b /\ bot.todo[i].link = "fresh"
                             /\ bot.todo[i].to = None \/ Safe(bot.todo[i].to)
      BY <2>3 DEF Coming
    <3>2. bot.todo[i].user = b /\ bot.todo[i].push \in Push
      BY <1>k, <1>n, <2>0, <3>1
    <3>3. /\ bot'.todo[i].link = "fresh" /\ bot'.todo[i].to = bot.todo[i].to
          /\ of'[bot'.todo[i].push] = b
      BY <1>4, <1>i, <2>0, <3>1, <3>2
    <3>4. CASE bot.todo[i].to = None
      BY <1>b, <3>3, <3>4 DEF Coming
    <3>5. CASE bot.todo[i].to # None
      <4>1. bot.todo[i].to \in Chat /\ identity[bot.todo[i].to] = b
        BY <1>k, <3>1, <3>2, <3>5
      <4>2. ASSUME NEW c, c = bot.todo[i].to PROVE Safe(c)'
        BY <2>1, <3>1, <3>5, <4>1, <4>2
      <4>3. Safe(bot.todo[i].to)'
        <5> SUFFICES ASSUME NEW j \in Batch, bot'.todo[j].to = bot'.todo[i].to
                     PROVE  bot'.todo[j].link # "stale"
          BY <1>b DEF Safe
        <5>1. QED
          BY <1>b, <3>3, <4>2 DEF Safe
      <4>4. QED
        BY <1>b, <3>3, <4>3 DEF Coming
    <3>6. QED
      BY <3>4, <3>5
  <2>4. ASSUME Holding(b) PROVE Holding(b)'
    <3>1. PICK c \in knows : identity[c] = b /\ Safe(c)
      BY <2>4 DEF Holding
    <3>2. c \in Chat /\ c \in knows' /\ identity'[c] = b
      BY <1>4, <1>n, <2>0, <3>1
    <3>3. QED
      BY <2>1, <3>1, <3>2 DEF Holding
  <2>5. QED
    BY <1>4, <2>2, <2>3, <2>4 DEF HearsOfIt
<1>5. QED
  BY <1>1, <1>2, <1>3, <1>4

\* An account whose own link changes need not hear of it, unless it was moved.
LEMMA ChangeStep ==
    ASSUME TypeInv, ToldInv, NEW a \in Account, NEW alive \in BOOLEAN, NEW reason,
           Changes(a, alive, reason),
           ~alive \/ reason # "moved" \/ Waiting(a)',
           \A p \in Push : \/ of'[p] \in {None, of[p]}
                          \/ \A i \in Batch : bot.todo[i].push # p,
           \A p \in Push : of[p] # None /\ of[p] # a => of'[p] = of[p],
           \A c \in Chat : identity[c] # None /\ identity[c] # a
                           => identity'[c] = identity[c] /\ (c \in knows => c \in knows')
    PROVE  ToldInv'
<1>1. bot' = Outdated({a})
  BY DEF Changes
<1>2. /\ ItemsOK' /\ PushesOnce' /\ AckOK'
      /\ \A b \in Account : b # a /\ HearsOfIt(b) => HearsOfIt(b)'
  BY <1>1, OthersHear
<1>3. ASSUME NEW b \in live', why'[b] = "moved" PROVE HearsOfIt(b)'
  <2>1. CASE b = a
    <3>1. alive /\ why'[a] = reason
      BY <2>1, <1>3 DEF Changes, TypeInv, DeliveryOK
    <3>2. QED
      BY <1>3, <2>1, <3>1 DEF HearsOfIt
  <2>2. CASE b # a
    <3>1. b \in live /\ why[b] = "moved" /\ b \in Account
      BY <1>3, <2>2 DEF Changes, TypeInv, DeliveryOK
    <3>2. QED
      BY <1>2, <2>2, <3>1 DEF ToldInv
  <2>3. QED
    BY <2>1, <2>2
<1>4. QED
  BY <1>2, <1>3 DEF ToldInv

\* An account that is new, or gains a chat, changes no news.
LEMMA EnrolHears ==
    ASSUME TypeInv, ToldInv, UNCHANGED <<live, why, of, bot>>,
           \A c \in Chat : identity[c] # None
                           => identity'[c] = identity[c] /\ (c \in knows => c \in knows')
    PROVE  ToldInv'
<1>n. /\ None \notin Account /\ knows \subseteq Chat /\ live \subseteq Account
      /\ Batch' = Batch
  BY AccountsAssumption DEF TypeInv, DeliveryOK, Batch
<1>i. ASSUME NEW i \in Batch
      PROVE  bot.todo[i] \in Item
  <2>1. bot # None /\ bot \in Bot /\ i \in 1..Len(bot.todo)
    BY DEF Batch, TypeInv, DeliveryOK, BotOK
  <2>2. QED
    BY <2>1 DEF Bot
<1>k. ASSUME NEW i \in Batch, bot.todo[i].link = "fresh", bot.todo[i].to # None
      PROVE  /\ bot.todo[i].to \in Chat /\ identity[bot.todo[i].to] # None
             /\ identity[bot.todo[i].to] = bot.todo[i].user
             /\ identity'[bot.todo[i].to] = identity[bot.todo[i].to]
  <2>1. bot.todo[i].to \in Chat /\ bot.todo[i].user \in Account
    BY <1>i, <1>k DEF Item
  <2>2. identity[bot.todo[i].to] = bot.todo[i].user
    BY <1>k DEF ToldInv, ItemsOK
  <2>3. QED
    BY <1>n, <2>1, <2>2
<1>1. ItemsOK'
  BY <1>n, <1>k DEF ToldInv, ItemsOK
<1>2. PushesOnce'
  BY <1>n DEF ToldInv, PushesOnce
<1>3. AckOK'
  <2> SUFFICES ASSUME bot # None, bot.ack = "ok"
               PROVE  /\ bot.todo[1].to # None
                      /\ bot.todo[1].link = "fresh" => bot.todo[1].to \in knows'
    BY DEF AckOK
  <2>1. 1 \in Batch
    BY TurnTypes DEF Batch, TypeInv, DeliveryOK
  <2>2. QED
    BY <1>k, <1>n, <2>1 DEF ToldInv, AckOK
<1>4. \A c : Safe(c) => Safe(c)'
  BY <1>n DEF Safe
<1>5. ASSUME NEW b \in Account, HearsOfIt(b) PROVE HearsOfIt(b)'
  <2>1. Waiting(b) => Waiting(b)'
    BY <1>n DEF Waiting
  <2>2. Coming(b) => Coming(b)'
    BY <1>n DEF Coming, Safe
  <2>3. Holding(b) => Holding(b)'
    BY <1>n, <1>4 DEF Holding
  <2>4. QED
    BY <1>5, <2>1, <2>2, <2>3 DEF HearsOfIt
<1>6. QED
  BY <1>1, <1>2, <1>3, <1>5, <1>n DEF ToldInv

\* Rows that wait are all in the next batch.
LEMMA FetchHears == ASSUME TypeInv, ToldInv, FetchBatch PROVE ToldInv'
<1>f. /\ bot' # None /\ bot'.ack = "none"
      /\ Len(bot'.todo) = Len(queue) /\ Len(queue) \in Nat
  BY FetchEffect
<1>i. ASSUME NEW i \in 1..Len(queue)
      PROVE  /\ queue[i] \in Push /\ of[queue[i]] \in Account
             /\ bot'.todo[i].push = queue[i]
             /\ bot'.todo[i].user = of[queue[i]]
             /\ bot'.todo[i].link = IF of[queue[i]] \in live THEN "fresh" ELSE "none"
             /\ bot'.todo[i].to # None => /\ bot'.todo[i].to \in Chat
                                         /\ identity[bot'.todo[i].to] = of[queue[i]]
  <2>1. /\ queue[i] \in Push /\ of[queue[i]] \in Account
        /\ bot'.todo[i].push = queue[i]
        /\ bot'.todo[i].user = of[queue[i]]
        /\ bot'.todo[i].link = IF of[queue[i]] \in live THEN "fresh" ELSE "none"
        /\ IF Owned(identity, of[queue[i]]) = {} THEN bot'.todo[i].to = None
           ELSE bot'.todo[i].to \in Owned(identity, of[queue[i]])
    BY FetchEffect
  <2>2. Owned(identity, of[queue[i]]) = {c \in Chat : identity[c] = of[queue[i]]}
    BY <2>1, OwnedTypes DEF TypeInv, AccountsInv
  <2>3. QED
    BY <2>1, <2>2
<1>b. Batch' = 1..Len(queue) /\ Batch = {} /\ bot = None
  BY <1>f DEF FetchBatch, Batch
<1>u. UNCHANGED <<live, why, of, knows, identity>>
  BY DEF FetchBatch, accountVars
<1>1. ItemsOK'
  BY <1>i, <1>b, <1>u DEF ItemsOK
<1>2. PushesOnce'
  <2>1. \A i, j \in 1..Len(queue) : queue[i] = queue[j] => i = j
    BY DEF TypeInv, DeliveryOK, QueueOK, IsInjective
  <2>2. QED
    BY <1>i, <1>b, <2>1 DEF PushesOnce
<1>3. AckOK'
  BY <1>f DEF AckOK
<1>4. ASSUME NEW c PROVE Safe(c)'
  BY <1>i, <1>b DEF Safe
<1>5. ASSUME NEW a \in live, HearsOfIt(a) PROVE HearsOfIt(a)'
  <2>1. ASSUME Waiting(a) PROVE Coming(a)'
    <3>1. PICK p \in Push : of[p] = a
      BY <2>1 DEF Waiting
    <3>2. a \in Account /\ p \in Range(queue)
      BY <3>1, AccountsAssumption DEF TypeInv, DeliveryOK, QueueOK
    <3>3. PICK i \in 1..Len(queue) : queue[i] = p
      BY <3>2 DEF Range, TypeInv, DeliveryOK, QueueOK
    <3>4. /\ bot'.todo[i].push = p /\ bot'.todo[i].link = "fresh" /\ of'[p] = a
      BY <1>i, <1>u, <3>1, <3>3
    <3>5. Safe(bot.todo[i].to)'
      <4> SUFFICES ASSUME NEW j \in 1..Len(queue) PROVE bot'.todo[j].link # "stale"
        BY <1>b DEF Safe
      <4>1. QED
        BY <1>i
    <3>6. QED
      BY <1>b, <3>4, <3>5 DEF Coming
  <2>2. ~Coming(a)
    BY <1>b DEF Coming
  <2>3. Holding(a) => Holding(a)'
    BY <1>4, <1>u DEF Holding
  <2>4. QED
    BY <1>5, <2>1, <2>2, <2>3 DEF HearsOfIt
<1>6. QED
  BY <1>1, <1>2, <1>3, <1>5, <1>u DEF ToldInv

\* A batch that ends where it is leaves the rest of its rows to wait.
LEMMA BatchEnds ==
    ASSUME TypeInv, ToldInv, bot' = None, UNCHANGED <<live, why, of, knows, identity>>
    PROVE  ToldInv'
<1>1. Batch' = {}
  BY DEF Batch
<1>2. ItemsOK' /\ PushesOnce' /\ AckOK'
  BY <1>1 DEF ItemsOK, PushesOnce, AckOK
<1>3. ASSUME NEW a \in live, HearsOfIt(a) PROVE HearsOfIt(a)'
  <2>1. Waiting(a) => Waiting(a)'
    BY <1>1 DEF Waiting
  <2>2. Coming(a) => Waiting(a)'
    <3> SUFFICES ASSUME Coming(a) PROVE Waiting(a)'
      OBVIOUS
    <3>1. PICK i \in Batch : of[bot.todo[i].push] = a
      BY DEF Coming
    <3>2. bot.todo[i].push \in Push
      <4>1. bot # None /\ bot \in Bot /\ i \in 1..Len(bot.todo)
        BY <3>1 DEF Batch, TypeInv, DeliveryOK, BotOK
      <4>2. bot.todo[i] \in Item
        BY <4>1 DEF Bot
      <4>3. QED
        BY <4>2 DEF Item
    <3>3. QED
      BY <1>1, <3>1, <3>2 DEF Waiting
  <2>3. Holding(a) => Holding(a)'
    BY <1>1 DEF Holding, Safe
  <2>4. QED
    BY <1>3, <2>1, <2>2, <2>3 DEF HearsOfIt
<1>4. QED
  BY <1>2, <1>3 DEF ToldInv

\* While the head of the batch is sent, a chat that held a link that is good
\* holds a link that is good.
LEMMA AckingHears ==
    ASSUME TypeInv, ToldInv, bot # None, NEW x \in {"ok", "error"},
           bot' = [bot EXCEPT !.ack = x], UNCHANGED <<live, why, of, identity>>,
           \/ x = "error" /\ knows' = knows
           \/ /\ Turn.to # None /\ Turn.link # "none"
              /\ knows' = Told(Turn.to, Turn.link)
    PROVE  ToldInv'
<1>1. /\ bot' # None /\ bot'.todo = bot.todo /\ bot'.ack = x /\ Batch' = Batch
      /\ 1 \in Batch /\ Turn \in Item
  BY AckTypes, TurnTypes DEF TypeInv, DeliveryOK, Batch
<1>2. ItemsOK'
  BY <1>1 DEF ToldInv, ItemsOK
<1>3. PushesOnce'
  BY <1>1 DEF ToldInv, PushesOnce
<1>4. AckOK'
  BY <1>1 DEF AckOK, Told, Turn
<1>5. \A c : Safe(c) => Safe(c)'
  BY <1>1 DEF Safe
<1>6. ASSUME NEW c \in knows, Safe(c) PROVE c \in knows'
  <2>1. Turn.to = c => Turn.link # "stale"
    BY <1>1, <1>6 DEF Safe, Turn
  <2>2. Turn.link \in {"none", "fresh", "stale"}
    BY <1>1 DEF Item
  <2>3. QED
    BY <1>6, <2>1, <2>2 DEF Told
<1>7. ASSUME NEW b \in live, HearsOfIt(b) PROVE HearsOfIt(b)'
  <2>1. Waiting(b) => Waiting(b)'
    BY <1>1 DEF Waiting
  <2>2. Coming(b) => Coming(b)'
    BY <1>1 DEF Coming, Safe
  <2>3. Holding(b) => Holding(b)'
    BY <1>5, <1>6 DEF Holding
  <2>4. QED
    BY <1>7, <2>1, <2>2, <2>3 DEF HearsOfIt
<1>8. QED
  BY <1>2, <1>3, <1>4, <1>7 DEF ToldInv

\* A row that is closed was told, or its account is one that was missed.
LEMMA AckHears == ASSUME TypeInv, ToldInv, Ack PROVE ToldInv'
<1>u. bot # None /\ bot.ack # "none" /\ UNCHANGED <<live, knows, identity>>
  BY DEF Ack, accountVars
<1>t. /\ Turn \in Item /\ Len(bot.todo) \in Nat /\ 1 \in Batch
      /\ bot.ack \in {"ok", "error"} /\ of \in [Push -> Account \cup {None}]
      /\ why \in [Account -> {"asked", "moved", "missed"}]
  BY <1>u, TurnTypes DEF TypeInv, DeliveryOK, Batch, Bot, QueueOK
<1>1. CASE of[Turn.push] = None
  <2>1. bot' = None /\ UNCHANGED <<live, why, of, knows, identity>>
    BY <1>1, <1>u DEF Ack
  <2>2. QED
    BY <2>1, BatchEnds
<1>2. CASE of[Turn.push] # None
  <2> DEFINE p == Turn.push
  <2>1. /\ bot' = Rest /\ of' = [of EXCEPT ![p] = None]
        /\ why' = IF bot.ack = "error" THEN [why EXCEPT ![of[p]] = "missed"] ELSE why
    BY <1>2 DEF Ack, Closed
  <2>2. p \in Push /\ of[p] \in Account /\ p = bot.todo[1].push
    BY <1>2, <1>t DEF Item, Turn
  <2> HIDE DEF p
  <2>3. /\ bot' # None => bot'.ack = "none"
        /\ \A i \in Batch' : i + 1 \in Batch /\ i + 1 # 1
                             /\ bot'.todo[i] = bot.todo[i + 1]
        /\ \A j \in Batch : j # 1 => j - 1 \in Batch' /\ (j - 1) + 1 = j
    <3>1. /\ bot' # None =>
                /\ bot'.ack = "none"
                /\ Len(bot.todo) \in Nat /\ Len(bot.todo) > 1
                /\ Len(bot'.todo) = Len(bot.todo) - 1
                /\ \A i \in 1..Len(bot'.todo) : bot'.todo[i] = bot.todo[i + 1]
          /\ bot' = None => Len(bot.todo) = 1
      BY <1>u, <2>1, RestEffect DEF TypeInv, DeliveryOK
    <3>2. CASE bot' = None
      <4>1. Batch' = {}
        BY <3>2 DEF Batch
      <4>2. Batch = {1}
        <5>1. Batch = 1..Len(bot.todo) /\ Len(bot.todo) = 1 /\ 1..1 = {1}
          BY <1>u, <3>1, <3>2 DEF Batch
        <5>2. QED
          BY <5>1
      <4>3. QED
        BY <3>2, <4>1, <4>2
    <3>3. CASE bot' # None
      BY <1>u, <3>1, <3>3 DEF Batch
    <3>4. QED
      BY <3>2, <3>3
  <2>4. ASSUME NEW j \in Batch
        PROVE  bot.todo[j] \in Item /\ (bot.todo[j].push = p => j = 1)
    <3>1. bot.todo \in Seq(Item) /\ j \in 1..Len(bot.todo)
      BY <1>u, TurnTypes DEF TypeInv, DeliveryOK, Bot, Batch
    <3>2. QED
      BY <1>t, <2>2, <3>1 DEF ToldInv, PushesOnce
  <2>5. ItemsOK'
    <3> SUFFICES ASSUME NEW i \in Batch'
                 PROVE  /\ of'[bot'.todo[i].push] \in {None, bot'.todo[i].user}
                        /\ bot'.todo[i].link = "fresh"
                             => \/ bot'.todo[i].to = None
                                \/ identity[bot'.todo[i].to] = bot'.todo[i].user
      BY <1>u DEF ItemsOK
    <3>1. i + 1 \in Batch /\ bot'.todo[i] = bot.todo[i + 1]
      BY <2>3
    <3>2. bot'.todo[i] \in Item
      BY <2>4, <3>1
    <3>3. /\ of[bot'.todo[i].push] \in {None, bot'.todo[i].user}
          /\ bot'.todo[i].link = "fresh"
               => \/ bot'.todo[i].to = None
                  \/ identity[bot'.todo[i].to] = bot'.todo[i].user
      BY <3>1 DEF ToldInv, ItemsOK
    <3>4. of'[bot'.todo[i].push] \in {None, of[bot'.todo[i].push]}
      BY <1>t, <2>1, <2>2, <3>2 DEF Item
    <3>5. QED
      BY <3>3, <3>4
  <2>6. PushesOnce'
    <3> SUFFICES ASSUME NEW i \in Batch', NEW j \in Batch', bot'.todo[i].push = bot'.todo[j].push
                 PROVE  i = j
      BY DEF PushesOnce
    <3>1. /\ i + 1 \in Batch /\ j + 1 \in Batch
          /\ bot.todo[i + 1].push = bot.todo[j + 1].push
      BY <2>3
    <3>2. i + 1 = j + 1
      BY <3>1 DEF ToldInv, PushesOnce
    <3>3. i \in Int /\ j \in Int
      BY DEF Batch
    <3>4. QED
      BY <3>2, <3>3
  <2>7. AckOK'
    BY <2>3 DEF AckOK
  <2>8. ASSUME NEW c, Safe(c) PROVE Safe(c)'
    BY <2>3, <2>8 DEF Safe
  <2>9. ASSUME NEW a \in live, why'[a] = "moved" PROVE HearsOfIt(a)'
    <3>0. a \in Account /\ a # None
      BY AccountsAssumption DEF TypeInv, DeliveryOK
    <3>1. why[a] = "moved" /\ (bot.ack = "error" => of[p] # a)
      BY <1>t, <2>1, <2>2, <2>9, <3>0
    <3>2. ASSUME Waiting(a) PROVE Waiting(a)'
      <4>1. PICK q \in Push : of[q] = a /\ \A i \in Batch : bot.todo[i].push # q
        BY <3>2 DEF Waiting
      <4>2. q # p
        BY <1>t, <2>2, <4>1
      <4>3. of'[q] = a
        BY <1>t, <2>1, <4>1, <4>2
      <4>4. \A i \in Batch' : bot'.todo[i].push # q
        BY <2>3, <4>1
      <4>5. QED
        BY <4>3, <4>4 DEF Waiting
    <3>3. ASSUME Coming(a) PROVE Coming(a)' \/ Holding(a)'
      <4>1. PICK i \in Batch : /\ of[bot.todo[i].push] = a /\ bot.todo[i].link = "fresh"
                               /\ bot.todo[i].to = None \/ Safe(bot.todo[i].to)
        BY <3>3 DEF Coming
      <4>2. CASE i = 1
        <5>1. bot.ack = "ok"
          BY <1>t, <2>2, <3>1, <4>1, <4>2
        <5>2. bot.todo[1].to # None /\ bot.todo[1].to \in knows
          BY <1>u, <4>1, <4>2, <5>1 DEF ToldInv, AckOK
        <5>3. bot.todo[1].user = a /\ identity[bot.todo[1].to] = a
          BY <3>0, <4>1, <4>2, <5>2 DEF ToldInv, ItemsOK
        <5>4. Safe(bot.todo[1].to)
          BY <4>1, <4>2, <5>2
        <5>5. ASSUME NEW c, c = bot.todo[1].to PROVE Holding(a)'
          BY <1>u, <2>8, <5>2, <5>3, <5>4, <5>5 DEF Holding
        <5>6. QED
          BY <5>5
      <4>3. CASE i # 1
        <5>1. i - 1 \in Batch' /\ bot'.todo[i - 1] = bot.todo[i]
          BY <2>3, <4>3
        <5>2. bot.todo[i].push \in Push /\ bot.todo[i].push # p
          BY <2>4, <4>3 DEF Item
        <5>3. of'[bot.todo[i].push] = a
          BY <1>t, <2>1, <4>1, <5>2
        <5>4. ASSUME NEW c, c = bot.todo[i].to, c # None PROVE Safe(c)'
          BY <2>8, <4>1, <5>4
        <5>5. \E k \in Batch' : /\ of'[bot'.todo[k].push] = a
                                /\ bot'.todo[k].link = "fresh"
                                /\ bot'.todo[k].to = None \/ Safe(bot.todo[k].to)'
          <6>1. bot'.todo[i - 1].to = None \/ Safe(bot.todo[i - 1].to)'
            <7>1. bot'.todo[i - 1].to # None
                   => \A j \in Batch' : bot'.todo[j].to = bot'.todo[i - 1].to
                                        => bot'.todo[j].link # "stale"
              BY <5>1, <5>4 DEF Safe
            <7>2. QED
              BY <7>1 DEF Safe
          <6>2. QED
            BY <4>1, <5>1, <5>3, <6>1
        <5>6. QED
          BY <5>5 DEF Coming
      <4>4. QED
        BY <4>2, <4>3
    <3>4. ASSUME Holding(a) PROVE Holding(a)'
      BY <1>u, <2>8, <3>4 DEF Holding
    <3>5. HearsOfIt(a)
      BY <2>9, <3>1 DEF ToldInv
    <3>6. QED
      BY <3>2, <3>3, <3>4, <3>5 DEF HearsOfIt
  <2>10. QED
    BY <1>u, <2>5, <2>6, <2>7, <2>9 DEF ToldInv
<1>3. QED
  BY <1>1, <1>2

\* The steps that change what an account has, or who the accounts are.
LEMMA MoveHears ==
    ASSUME TypeInv, ToldInv, NEW a \in Account, NEW p \in Push, Move(a, p)
    PROVE  ToldInv'
<1>1. /\ Changes(a, TRUE, "moved") /\ of' = [of EXCEPT ![p] = a] /\ of[p] = None
      /\ bot' = Outdated({a}) /\ identity' = identity
      /\ \A i \in Batch : bot.todo[i].push # p
  <2>1. bot # None => DOMAIN bot.todo = 1..Len(bot.todo)
    BY TurnTypes DEF TypeInv, DeliveryOK, Bot
  <2>2. QED
    BY <2>1 DEF Move, Changes, Batch, accountVars
<1>2. \A q \in Push : of'[q] = IF q = p THEN a ELSE of[q]
  BY <1>1 DEF TypeInv, DeliveryOK, QueueOK
<1>3. Waiting(a)'
  <2>1. \A i \in Batch' : bot'.todo[i].push # p
    BY <1>1, BatchAged
  <2>2. QED
    BY <1>2, <2>1 DEF Waiting
<1>4. \A c \in Chat : identity[c] # None /\ identity[c] # a
                       => identity'[c] = identity[c] /\ (c \in knows => c \in knows')
  <2>1. Owned(identity, a) = {c \in Chat : identity[c] = a}
    BY OwnedTypes DEF TypeInv, AccountsInv
  <2>2. QED
    BY <1>1, <2>1 DEF Move
<1>5. \A q \in Push : \/ of'[q] \in {None, of[q]}
                       \/ \A i \in Batch : bot.todo[i].push # q
  BY <1>1, <1>2
<1>6. \A q \in Push : of[q] # None /\ of[q] # a => of'[q] = of[q]
  BY <1>1, <1>2
<1>7. QED
  BY <1>1, <1>3, <1>4, <1>5, <1>6, ChangeStep

LEMMA OwnChangeHears ==
    ASSUME TypeInv, ToldInv, NEW a \in Account,
           \/ \E x \in Chat \cup Device : Connect(a, x)
           \/ Release(a) \/ NodeDeleted(a)
    PROVE  ToldInv'
<1>1. /\ \/ Changes(a, TRUE, "asked") \/ Changes(a, FALSE, why[a])
      /\ identity' = identity /\ knows \ Owned(identity, a) \subseteq knows'
      /\ Dropped({a}) \/ of' = of
  BY DEF Connect, Release, NodeDeleted, accountVars
<1>2. \A c \in Chat : identity[c] # None /\ identity[c] # a
                       => identity'[c] = identity[c] /\ (c \in knows => c \in knows')
  <2>1. Owned(identity, a) = {c \in Chat : identity[c] = a}
    BY OwnedTypes DEF TypeInv, AccountsInv
  <2>2. QED
    BY <1>1, <2>1
<1>3. /\ \A q \in Push : of'[q] \in {None, of[q]}
      /\ \A q \in Push : of[q] # None /\ of[q] # a => of'[q] = of[q]
  BY <1>1 DEF Dropped
<1>4. QED
  BY <1>1, <1>2, <1>3, ChangeStep

\* The account that is folded is gone, and those whose chats it was given keep
\* theirs.
LEMMA FoldsHear ==
    ASSUME TypeInv, ToldInv, NEW a \in Account, NEW c \in Chat, Folds(c, a)
    PROVE  ToldInv'
<1>1. /\ live' = live \ {a} /\ why' = [why EXCEPT ![a] = "asked"]
      /\ bot' = Outdated({a}) /\ Dropped({a})
      /\ knows' = knows \ Owned(identity, a) /\ Fold(c, a)
  BY DEF Folds
<1>2. \A x \in Chat : identity[x] # None /\ identity[x] # a
                       => identity'[x] = identity[x] /\ (x \in knows => x \in knows')
  <2>1. Owned(identity, a) = {x \in Chat : identity[x] = a}
    BY OwnedTypes DEF TypeInv, AccountsInv
  <2>2. identity' = [x \in Chat |-> IF identity[x] = a THEN identity[c] ELSE identity[x]]
    BY <1>1, FoldEffect DEF TypeInv
  <2>3. QED
    BY <1>1, <2>1, <2>2
<1>3. /\ \A q \in Push : of'[q] \in {None, of[q]}
      /\ \A q \in Push : of[q] # None /\ of[q] # a => of'[q] = of[q]
  BY <1>1 DEF Dropped
<1>4. /\ ItemsOK' /\ PushesOnce' /\ AckOK'
      /\ \A b \in Account : b # a /\ HearsOfIt(b) => HearsOfIt(b)'
  BY <1>1, <1>2, <1>3, OthersHear
<1>5. ASSUME NEW b \in live', why'[b] = "moved" PROVE HearsOfIt(b)'
  <2>1. b \in live /\ b # a /\ b \in Account /\ why[b] = "moved"
    BY <1>1, <1>5 DEF TypeInv, DeliveryOK
  <2>2. QED
    BY <1>4, <2>1 DEF ToldInv
<1>6. QED
  BY <1>4, <1>5 DEF ToldInv

LEMMA AccountsHear ==
    ASSUME TypeInv, ToldInv,
           Enrol \/ \E a \in Account, c \in Chat : Link(c, a)
    PROVE  ToldInv'
<1>t. identity \in [Chat -> Account \cup {None}] /\ None \notin Account
  BY AccountsAssumption DEF TypeInv, AccountsInv, AccountsOK
<1>1. CASE Enrol
  <2>1. UNCHANGED <<live, why, of, bot, knows>>
    BY <1>1 DEF Enrol, Delivery
  <2>2. \A c \in Chat : identity[c] # None => identity'[c] = identity[c]
    BY <1>1, <1>t DEF Enrol, Register, Start, CodeExpires, Ban, Unban, StartLink
  <2>3. QED
    BY <2>1, <2>2, EnrolHears
<1>2. ASSUME NEW a \in Account, NEW c \in Chat, Link(c, a) PROVE ToldInv'
  <2>1. UNCHANGED <<live, why, of, bot>>
    BY <1>2 DEF Link
  <2>2. /\ identity[c] \in {None, a} /\ identity' = [identity EXCEPT ![c] = a]
        /\ knows' = IF identity[c] = a THEN knows ELSE knows \ {c}
    BY <1>2 DEF Link, Attach
  <2>3. \A x \in Chat : identity[x] # None
                         => identity'[x] = identity[x] /\ (x \in knows => x \in knows')
    BY <1>t, <2>2
  <2>4. QED
    BY <2>1, <2>3, EnrolHears
<1>3. QED
  BY <1>1, <1>2

LEMMA ToldStep == TypeInv /\ ToldInv /\ [Next]_vars => ToldInv'
<1> SUFFICES ASSUME TypeInv, ToldInv, [Next]_vars PROVE ToldInv'
  OBVIOUS
<1>1. CASE Enrol \/ \E a \in Account, c \in Chat : Link(c, a)
  BY <1>1, AccountsHear
<1>2. ASSUME NEW a \in Account,
             \/ \E x \in Chat \cup Device : Connect(a, x)
             \/ Release(a) \/ NodeDeleted(a)
      PROVE  ToldInv'
  BY <1>2, OwnChangeHears
<1>3. ASSUME NEW a \in Account, NEW p \in Push, Move(a, p) PROVE ToldInv'
  BY <1>3, MoveHears
<1>4. ASSUME NEW a \in Account, NEW c \in Chat, Folds(c, a) PROVE ToldInv'
  BY <1>4, FoldsHear
<1>5. CASE FetchBatch
  BY <1>5, FetchHears
<1>6. CASE Unreachable
  BY <1>6, AckingHears DEF Unreachable, Sending, accountVars
<1>7. CASE Send
  BY <1>7, AckingHears DEF Send, Sending, accountVars
<1>8. CASE SendFails
  <2>1. UNCHANGED <<live, why, of, knows, identity>> /\ bot # None
    BY <1>8 DEF SendFails, Sending, accountVars
  <2>2. CASE bot' = None
    BY <2>1, <2>2, BatchEnds
  <2>3. CASE bot' = [bot EXCEPT !.ack = "error"]
    BY <2>1, <2>3, AckingHears
  <2>4. QED
    BY <1>8, <2>2, <2>3 DEF SendFails
<1>9. CASE Ack
  BY <1>9, AckHears
<1>10. CASE BotStops
  BY <1>10, BatchEnds DEF BotStops, accountVars
<1>11. CASE UNCHANGED vars
  BY <1>11, EnrolHears DEF vars, accountVars
<1>12. QED
  BY <1>1, <1>2, <1>3, <1>4, <1>5, <1>6, <1>7, <1>8, <1>9, <1>10, <1>11
     DEF Next, BotStep

\* Once nothing of an account that was moved is queued, and unless a push of it
\* could not be delivered, a chat of it holds the link that is live.
THEOREM MovesAreTold == Spec => []MovedIsTold
<1>1. TypeInv /\ ToldInv => MovedIsTold
  <2> SUFFICES ASSUME TypeInv, ToldInv, NEW a \in Account, a \in live, why[a] = "moved",
                      \A p \in Push : of[p] # a
               PROVE  knows \cap Owned(identity, a) # {}
    BY DEF MovedIsTold
  <2>1. ~Waiting(a)
    BY DEF Waiting
  <2>2. ~Coming(a)
    <3> SUFFICES ASSUME NEW i \in Batch PROVE bot.todo[i].push \in Push
      BY DEF Coming
    <3>1. bot # None /\ bot.todo \in Seq(Item) /\ i \in 1..Len(bot.todo)
      BY TurnTypes DEF TypeInv, DeliveryOK, Bot, Batch
    <3>2. bot.todo[i] \in Item
      BY <3>1
    <3>3. QED
      BY <3>2 DEF Item
  <2>3. PICK c \in knows : identity[c] = a
    BY <2>1, <2>2 DEF ToldInv, HearsOfIt, Holding
  <2>4. c \in Owned(identity, a)
    BY <2>3, OwnedTypes DEF TypeInv, AccountsInv, DeliveryOK
  <2>5. QED
    BY <2>3, <2>4
<1>2. Init => TypeInv /\ ToldInv
  BY TypeInit, ToldInit
<1>3. TypeInv /\ ToldInv /\ [Next]_vars => TypeInv' /\ ToldInv'
  BY TypeStep, ToldStep
<1>4. QED
  BY <1>1, <1>2, <1>3, PTL DEF Spec
=============================================================================
