--------------------------- MODULE X402RailProofs ---------------------------
(***************************************************************************)
(* What holds of the x402 rail for every set of requests, instruments and   *)
(* Safes, every merchant, resolver and agent, every budget and every scale  *)
(* of the asset.                                                            *)
(***************************************************************************)
EXTENDS X402Rail, FiniteSetTheorems

----------------------------------------------------------------------------
(* The fetch.                                                               *)

\* The fields of the fetch policy that a fetch reads (resourceFetchPolicyFromEnv).
LEMMA PolicyFields ==
  /\ FetchPolicy.timeout \in Nat /\ FetchPolicy.maxRedirects \in Nat
  /\ FetchPolicy.schemes \subseteq Scheme
BY FetchPolicyAssumption DEF FetchPolicy, LOCAL_RESOURCE_FETCH_POLICY,
   PRODUCTION_RESOURCE_FETCH_POLICY, Scheme

\* Between validateTarget and the connection the pinned address is one that was
\* checked: what OnlyPermittedReached needs to be inductive.
PinnedIsChecked ==
  \A c \in Caller : fetch[c].stage = "request" =>
    fetch[c].scheme \in FetchPolicy.schemes /\ fetch[c].pinned \in FetchPolicy.classes

FetchInv == FetchTypeOK /\ PinnedIsChecked /\ OnlyPermittedReached

\* A fetch that is in order: what FetchInv says of each request's.
InOrder(f) ==
  /\ f \in FetchType
  /\ f.stage = "request" => f.scheme \in FetchPolicy.schemes /\ f.pinned \in FetchPolicy.classes
  /\ f.reached \subseteq FetchPolicy.schemes \X FetchPolicy.classes

LEMMA InOrderEach == FetchInv <=> fetch \in [Caller -> FetchType] /\ \A c \in Caller : InOrder(fetch[c])
BY DEF FetchInv, FetchTypeOK, PinnedIsChecked, OnlyPermittedReached, InOrder

\* A request that sets its fetch to one in order keeps the others'.
LEMMA SetKeeps ==
  ASSUME FetchInv, NEW c \in Caller, NEW f, InOrder(f), Set(c, f)
  PROVE  FetchInv'
<1>1. fetch \in [Caller -> FetchType] /\ \A d \in Caller : InOrder(fetch[d])
  BY InOrderEach
<1>2. f \in FetchType
  BY DEF InOrder
<1>3. fetch' \in [Caller -> FetchType]
  BY <1>1, <1>2 DEF Set
<1>4. ASSUME NEW d \in Caller PROVE InOrder(fetch'[d])
  BY <1>1 DEF Set
<1> QED BY <1>3, <1>4 DEF FetchInv, FetchTypeOK, PinnedIsChecked, OnlyPermittedReached, InOrder

\* What a fetch whose address was checked may have reached by now was permitted.
LEMMA ReachIsPermitted ==
  ASSUME NEW c \in Caller, InOrder(fetch[c]), NEW reached \in MayHaveReached(c)
  PROVE  /\ reached \subseteq FetchPolicy.schemes \X FetchPolicy.classes
         /\ reached \in SUBSET (Scheme \X Class)
<1>1. fetch[c] \in FetchType
  BY DEF InOrder
<1>2. fetch[c].reached \in SUBSET (Scheme \X Class)
  BY <1>1 DEF FetchType
<1>3. CASE reached = fetch[c].reached
  BY <1>2, <1>3 DEF InOrder
<1>4. CASE fetch[c].stage = "request" /\ reached = Reach(c, fetch[c].pinned)
  <2>1. fetch[c].scheme \in FetchPolicy.schemes /\ fetch[c].pinned \in FetchPolicy.classes
    BY <1>4 DEF InOrder
  <2>2. fetch[c].scheme \in Scheme
    BY <2>1, PolicyFields
  <2>3. fetch[c].pinned \in Class
    <3>1. fetch[c].pinned \in Class \cup {NoAddress}
      BY <1>1 DEF FetchType
    <3>2. fetch[c].pinned # NoAddress
      BY <2>1 DEF NoAddress, FetchPolicy, LOCAL_RESOURCE_FETCH_POLICY, PRODUCTION_RESOURCE_FETCH_POLICY
    <3> QED BY <3>1, <3>2
  <2>4. fetch[c].reached \subseteq FetchPolicy.schemes \X FetchPolicy.classes
    BY DEF InOrder
  <2> QED BY <1>2, <1>4, <2>1, <2>2, <2>3, <2>4 DEF Reach
<1>5. reached = fetch[c].reached \/ (fetch[c].stage = "request" /\ reached = Reach(c, fetch[c].pinned))
  BY DEF MayHaveReached, ConnectsTo
<1> QED BY <1>3, <1>4, <1>5

\* A fetch that begins, or that ends with what it may have reached, is in order.
LEMMA EndsInOrder ==
  ASSUME NEW stage \in {"idle", "resolve", "answered", "refused", "failed"},
         NEW reached \in SUBSET (Scheme \X Class),
         reached \subseteq FetchPolicy.schemes \X FetchPolicy.classes
  PROVE  InOrder([NoFetch EXCEPT !.stage = stage, !.reached = reached])
BY DEF InOrder, NoFetch, FetchType, NoAddress

LEMMA NoFetchInOrder == InOrder(NoFetch)
BY DEF InOrder, NoFetch, FetchType, NoAddress

LEMMA StartKeeps ==
  ASSUME FetchInv, NEW c \in Caller, StartFetch(c)
  PROVE  FetchInv'
<1> DEFINE f == [NoFetch EXCEPT !.stage = "resolve", !.due = FetchPolicy.timeout]
<1>1. InOrder(f)
  BY PolicyFields DEF InOrder, NoFetch, FetchType, NoAddress
<1> QED BY <1>1, SetKeeps DEF StartFetch

\* Every step of a fetch keeps it in order: a redirect goes back to validateTarget
\* with nothing pinned, and the socket is opened to the pinned address alone.
LEMMA FetchStepKeeps ==
  ASSUME FetchInv, NEW c \in Caller, FetchStep(c)
  PROVE  FetchInv'
<1> DEFINE f == fetch[c]
<1>1. f \in FetchType /\ InOrder(f)
  BY InOrderEach DEF InOrder
<1>2. f.reached \in SUBSET (Scheme \X Class) /\ f.reached \in MayHaveReached(c)
  BY <1>1 DEF FetchType, MayHaveReached
<1>3. ASSUME NEW stage \in {"answered", "refused", "failed"}, NEW reached \in MayHaveReached(c),
             End(c, stage, reached)
      PROVE  FetchInv'
  <2>1. InOrder([NoFetch EXCEPT !.stage = stage, !.reached = reached])
    BY <1>1, <1>3, ReachIsPermitted, EndsInOrder
  <2> QED BY <1>3, <2>1, SetKeeps DEF End
<1>4. CASE Validate(c)
  <2>1. PICK url \in Url : \E address \in url.addresses :
          /\ Permitted(url)
          /\ Set(c, [f EXCEPT !.stage = "request", !.scheme = url.scheme, !.pinned = address])
    BY <1>4 DEF Validate
  <2>2. PICK address \in url.addresses :
          /\ Permitted(url)
          /\ Set(c, [f EXCEPT !.stage = "request", !.scheme = url.scheme, !.pinned = address])
    BY <2>1
  <2>3. url.scheme \in FetchPolicy.schemes /\ address \in FetchPolicy.classes
    BY <2>2 DEF Permitted
  <2>4. url.scheme \in Scheme /\ address \in Class
    BY DEF Url
  <2>5. InOrder([f EXCEPT !.stage = "request", !.scheme = url.scheme, !.pinned = address])
    BY <1>1, <2>3, <2>4 DEF InOrder, FetchType
  <2> QED BY <2>2, <2>5, SetKeeps
<1>5. CASE RefuseUrl(c)
  BY <1>2, <1>3, <1>5 DEF RefuseUrl
<1>6. CASE Redirect(c)
  <2>1. Redirected(c, f.pinned) /\ f.stage = "request"
    BY <1>6 DEF Redirect, ConnectsTo
  <2> DEFINE r == Reach(c, f.pinned)
             g == [f EXCEPT !.stage = "resolve", !.scheme = "none", !.pinned = NoAddress,
                            !.hop = f.hop + 1, !.reached = r]
  <2>2. r \in MayHaveReached(c)
    BY <2>1 DEF MayHaveReached, ConnectsTo
  <2>3. r \subseteq FetchPolicy.schemes \X FetchPolicy.classes /\ r \in SUBSET (Scheme \X Class)
    BY <1>1, <2>2, ReachIsPermitted
  <2>4. Set(c, g)
    BY <2>1 DEF Redirected
  <2> HIDE DEF r
  <2>5. InOrder(g)
    <3>1. f.hop + 1 \in Nat /\ NoAddress \in Class \cup {NoAddress}
      BY <1>1 DEF FetchType
    <3>2. g \in FetchType /\ g.stage = "resolve" /\ g.reached = r
      <4> DEFINE n == f.hop + 1
      <4> HIDE DEF f, n
      <4> QED BY <1>1, <2>3, <3>1 DEF FetchType
    <3> HIDE DEF g
    <3> QED BY <2>3, <3>2 DEF InOrder
  <2> QED BY <2>4, <2>5, SetKeeps
<1>7. CASE RefuseAnswer(c)
  BY <1>3, <1>7 DEF RefuseAnswer, MayHaveReached
<1>8. CASE Answer(c)
  BY <1>3, <1>8 DEF Answer, MayHaveReached
<1>9. CASE Break(c)
  BY <1>3, <1>9 DEF Break
<1>10. CASE Linger(c)
  <2>1. InOrder([f EXCEPT !.age = f.age + 1])
    BY <1>1 DEF InOrder, FetchType
  <2> QED BY <1>10, <2>1, SetKeeps DEF Linger
<1>11. CASE TimeOut(c)
  BY <1>3, <1>11 DEF TimeOut
<1> QED BY <1>4, <1>5, <1>6, <1>7, <1>8, <1>9, <1>10, <1>11 DEF FetchStep

----------------------------------------------------------------------------
(* Requests and their rows.                                                 *)

InHand(c) == call[c].at \in {"sign", "settle"}

RowsTyped ==
  /\ row = [k \in Id |-> row[k]]
  /\ \A k \in Id : row[k].held \in Nat /\ row[k].atomic \in Nat

\* A hold in cents covers the atomic amount it stands for, and only an approval is
\* held for (Row).
HoldsCover ==
  \A k \in Id : IF row[k].decision = "ALLOW" THEN row[k].atomic <= Scale * row[k].held
                ELSE row[k].held = 0

\* A request that has still to settle is the only one that can settle its row, and
\* the row is approved.
OneSettler ==
  \A c \in Caller : InHand(c) =>
    /\ row[call[c].id].decision = "ALLOW"
    /\ \A t \in pool : t.id # call[c].id
    /\ \A d \in Caller : InHand(d) /\ call[d].id = call[c].id => d = c

\* A row is broadcast once, if it was approved.
OneTransfer ==
  /\ mined \subseteq pool
  /\ \A t \in pool : t.id \in Id /\ row[t.id].decision = "ALLOW"
  /\ \A t, u \in pool : t.id = u.id => t = u

WithinLimit == \A i \in Instrument : HeldBy(i) <= Limit

\* A budget is kept in holds; that the money in the pool is covered by holds, each
\* once, is what carries it to the money that moves.
LedgerInv ==
  /\ RowsTyped /\ call \in [Caller -> Call]
  /\ HoldsCover /\ OneSettler /\ OneTransfer /\ WithinLimit

\* assetAtomicToCents rounds up: what is held for an amount covers it (D-88).
LEMMA RoundedUp ==
  ASSUME NEW a \in Nat
  PROVE  AtomicToCents(a) \in Nat /\ a <= Scale * AtomicToCents(a)
<1> DEFINE n == a + Scale - 1
<1>1. Scale \in Nat \ {0} /\ n \in Nat
  BY RailNumbersAssumption
<1> HIDE DEF n
<1>2. n \div Scale \in Int /\ n % Scale \in 0..(Scale - 1)
      /\ n = Scale * (n \div Scale) + (n % Scale)
  BY <1>1, SMTT(30)
<1>3. n \div Scale >= 0
  BY <1>1, SMTT(30)
<1> QED BY <1>1, <1>2, <1>3 DEF n, AtomicToCents

\* What the requests in hand name is a row.
LEMMA InHandNamesRow ==
  ASSUME call \in [Caller -> Call], NEW c \in Caller, InHand(c)
  PROVE  call[c].id \in Id
<1>1. call[c] \in Call /\ call[c] # Idle /\ call[c].at # "fetch"
  BY DEF InHand, Idle
<1> QED BY <1>1 DEF Call

LEMMA HeldTyped ==
  ASSUME RowsTyped, NEW i
  PROVE  HeldBy(i) \in Int
<1>1. MaxRows \in Nat
  BY RailNumbersAssumption
<1>2. [k \in 1..MaxRows |-> IF row[k].instrument = i THEN row[k].held ELSE 0] \in [1..MaxRows -> Int]
  BY DEF RowsTyped, Id
<1> QED BY <1>1, <1>2, TotalInt DEF HeldBy, Id

\* A decision adds to what its own instrument holds, and to nothing else.
LEMMA HeldChange ==
  ASSUME RowsTyped, NEW k \in Id, NEW r, r.held \in Nat, row[k].held = 0,
         row' = [row EXCEPT ![k] = r], NEW i
  PROVE  HeldBy(i)' = HeldBy(i) + (IF r.instrument = i THEN r.held ELSE 0)
<1> DEFINE f == [j \in Id |-> IF row[j].instrument = i THEN row[j].held ELSE 0]
           g == [j \in Id |-> IF row'[j].instrument = i THEN row'[j].held ELSE 0]
<1>1. MaxRows \in Nat /\ Id = 1..MaxRows
  BY RailNumbersAssumption DEF Id
<1>2. \A j \in Id : row'[j] = IF j = k THEN r ELSE row[j]
  BY DEF RowsTyped
<1>3. f \in [1..MaxRows -> Int]
  BY <1>1 DEF RowsTyped
<1>4. g \in [1..MaxRows -> Int]
  BY <1>1, <1>2 DEF RowsTyped
<1>5. \A j \in 1..MaxRows : j # k => g[j] = f[j]
  BY <1>1, <1>2
<1>6. f[k] = 0 /\ g[k] = IF r.instrument = i THEN r.held ELSE 0
  BY <1>2
<1>7. k \in 1..MaxRows
  BY <1>1
<1>8. Total(f, MaxRows) = HeldBy(i) /\ Total(g, MaxRows) = HeldBy(i)'
  BY DEF HeldBy
<1> HIDE DEF f, g
<1>9. Total(g, MaxRows) = Total(f, MaxRows) + g[k] - f[k]
  BY <1>1, <1>3, <1>4, <1>5, <1>7, TotalChangeOne
<1>10. Total(f, MaxRows) \in Int /\ g[k] \in Int
  BY <1>1, <1>3, <1>4, <1>7, TotalInt
<1> QED BY <1>6, <1>8, <1>9, <1>10

\* What writes no row and broadcasts nothing keeps it all, as long as no request
\* takes another's row in hand.
LEMMA QuietKeeps ==
  ASSUME LedgerInv, UNCHANGED <<row, pool>>, mined' \subseteq pool, call' \in [Caller -> Call],
         \A c \in Caller : InHand(c)' => InHand(c) /\ call'[c].id = call[c].id
  PROVE  LedgerInv'
<1>1. RowsTyped' /\ HoldsCover'
  BY DEF LedgerInv, RowsTyped, HoldsCover
<1>2. OneSettler'
  BY DEF LedgerInv, OneSettler, InHand
<1>3. OneTransfer'
  BY DEF LedgerInv, OneTransfer
<1>4. WithinLimit'
  BY DEF LedgerInv, WithinLimit, HeldBy
<1> QED BY <1>1, <1>2, <1>3, <1>4 DEF LedgerInv

\* A request that goes on without its row in hand.
LEMMA LetGoIsQuiet ==
  ASSUME LedgerInv, NEW c \in Caller, NEW q \in Call, Becomes(c, q),
         q.at \notin {"sign", "settle"}
  PROVE  /\ call' \in [Caller -> Call]
         /\ \A d \in Caller : InHand(d)' => InHand(d) /\ call'[d].id = call[d].id
<1>1. call \in [Caller -> Call]
  BY DEF LedgerInv
<1>2. call' = [call EXCEPT ![c] = q]
  BY DEF Becomes
<1>3. call'[c] = q /\ \A d \in Caller : d # c => call'[d] = call[d]
  BY <1>1, <1>2
<1> QED BY <1>1, <1>2, <1>3 DEF InHand

\* A decision writes one unused row, and takes it in hand if it is an approval.
LEMMA DecidedKeeps ==
  ASSUME LedgerInv, NEW c \in Caller, NEW q, q.atomic \in Nat, NEW decision,
         Decided(c, q, decision),
         decision = "ALLOW" => HeldBy(call[c].instrument) + AtomicToCents(q.atomic) <= Limit
  PROVE  LedgerInv'
<1> DEFINE i == call[c].instrument
           r == Row(i, q, decision)
<1>1. PICK k \in Id :
        /\ NextId(k)
        /\ row' = [row EXCEPT ![k] = r]
        /\ IF decision = "ALLOW" THEN Becomes(c, [at |-> "sign", id |-> k]) ELSE Becomes(c, Idle)
        /\ UNCHANGED <<pool, mined>>
  BY DEF Decided
<1>2. row[k].decision = "NONE" /\ row[k].held = 0
  BY <1>1 DEF NextId, Used, LedgerInv, HoldsCover
<1>3. AtomicToCents(q.atomic) \in Nat /\ q.atomic <= Scale * AtomicToCents(q.atomic)
  BY RoundedUp
<1>4. /\ r.decision = decision /\ r.atomic = q.atomic /\ r.instrument = i
      /\ r.held = IF decision = "ALLOW" THEN AtomicToCents(q.atomic) ELSE 0
  BY DEF Row
<1> HIDE DEF r
<1>5. /\ row' = [j \in Id |-> row'[j]]
      /\ \A j \in Id : row'[j] = IF j = k THEN r ELSE row[j]
  BY <1>1 DEF LedgerInv, RowsTyped
<1>6. RowsTyped'
  BY <1>3, <1>4, <1>5 DEF LedgerInv, RowsTyped
<1>7. HoldsCover'
  BY <1>3, <1>4, <1>5 DEF LedgerInv, HoldsCover
<1>8. call' \in [Caller -> Call]
  <2>1. Idle \in Call /\ [at |-> "sign", id |-> k] \in Call
    BY DEF Call
  <2> QED BY <1>1, <2>1 DEF Becomes, LedgerInv
<1>9. /\ InHand(c)' => decision = "ALLOW" /\ call'[c].id = k
      /\ \A d \in Caller : d # c => call'[d] = call[d]
  BY <1>1 DEF Becomes, LedgerInv, InHand, Idle
<1>10. \A t \in pool : t.id # k
  BY <1>2 DEF LedgerInv, OneTransfer
<1>11. \A d \in Caller : InHand(d) => call[d].id # k /\ call[d].id \in Id
  BY <1>2, InHandNamesRow DEF LedgerInv, OneSettler
<1>12. OneSettler'
  <2> SUFFICES ASSUME NEW d \in Caller, InHand(d)'
               PROVE  /\ row'[call'[d].id].decision = "ALLOW"
                      /\ \A t \in pool' : t.id # call'[d].id
                      /\ \A e \in Caller : InHand(e)' /\ call'[e].id = call'[d].id => e = d
    BY DEF OneSettler
  <2>1. CASE d = c
    <3>1. call'[d].id = k /\ decision = "ALLOW"
      BY <1>9, <2>1
    <3>2. \A e \in Caller : InHand(e)' /\ e # d => call'[e].id # k
      BY <1>9, <1>11, <2>1 DEF InHand
    <3> QED BY <1>1, <1>4, <1>5, <1>10, <3>1, <3>2
  <2>2. CASE d # c
    <3>1. call'[d] = call[d] /\ InHand(d) /\ call[d].id # k /\ call[d].id \in Id
      BY <1>9, <1>11, <2>2 DEF InHand
    <3>2. row'[call[d].id] = row[call[d].id]
      BY <1>5, <3>1
    <3>3. \A e \in Caller : InHand(e)' /\ call'[e].id = call[d].id => InHand(e) /\ call[e].id = call[d].id
      BY <1>9, <3>1 DEF InHand
    <3> QED BY <1>1, <3>1, <3>2, <3>3 DEF LedgerInv, OneSettler
  <2> QED BY <2>1, <2>2
<1>13. OneTransfer'
  BY <1>1, <1>5, <1>10 DEF LedgerInv, OneTransfer
<1>14. WithinLimit'
  <2> SUFFICES ASSUME NEW j \in Instrument PROVE HeldBy(j)' <= Limit
    BY DEF WithinLimit
  <2>1. HeldBy(j)' = HeldBy(j) + (IF i = j THEN r.held ELSE 0)
    <3>1. r.held \in Nat /\ RowsTyped
      BY <1>3, <1>4 DEF LedgerInv
    <3> QED BY <1>1, <1>2, <1>4, <3>1, HeldChange, ZenonT(60)
  <2>2. HeldBy(j) <= Limit /\ HeldBy(j) \in Int
    BY HeldTyped DEF LedgerInv, WithinLimit
  <2> QED BY <1>3, <1>4, <2>1, <2>2
<1> QED BY <1>6, <1>7, <1>8, <1>12, <1>13, <1>14 DEF LedgerInv

\* The route decides under the lock: what it allows fits under the limit of a
\* mandate that is active at that instant (D-80).
LEMMA AllowedUnderLock ==
  ASSUME NEW i, NEW cents, NEW v, DecisionFor(i, cents, v) = "ALLOW", HeldBy(i) + cents \in Int
  PROVE  status[i] = "ACTIVE" /\ HeldBy(i) + cents <= Limit
BY RailNumbersAssumption DEF DecisionFor, GateOpen

LEMMA DecideAllows ==
  ASSUME LedgerInv, NEW c \in Caller, Decide(c)
  PROVE  \E q, decision :
           /\ q.atomic \in Nat /\ Decided(c, q, decision)
           /\ decision = "ALLOW" =>
                /\ status[call[c].instrument] = "ACTIVE"
                /\ HeldBy(call[c].instrument) + AtomicToCents(q.atomic) <= Limit
<1> DEFINE i == call[c].instrument
<1>1. PICK q \in Requirement, v \in Verdict :
        Decided(c, q, DecisionFor(i, AtomicToCents(q.atomic), v))
  BY DEF Decide
<1>2. q.atomic \in Nat
  <2>1. q.atomic \in Atomic \cup {0}
    BY DEF Requirement
  <2>2. Atomic \cup {0} \subseteq Nat
    BY RailAtomicAssumption
  <2> QED BY <2>1, <2>2
<1>3. HeldBy(i) \in Int /\ AtomicToCents(q.atomic) \in Int
  BY <1>2, HeldTyped, RoundedUp DEF LedgerInv
<1>4. DecisionFor(i, AtomicToCents(q.atomic), v) = "ALLOW" =>
        status[i] = "ACTIVE" /\ HeldBy(i) + AtomicToCents(q.atomic) <= Limit
  <2> DEFINE cents == AtomicToCents(q.atomic)
  <2> HIDE DEF cents, i
  <2>1. HeldBy(i) + cents \in Int
    BY <1>3 DEF cents, i
  <2> QED BY <2>1, AllowedUnderLock DEF cents, i
<1> QED BY <1>1, <1>2, <1>4

LEMMA DenyHoldsNothing ==
  ASSUME NEW c \in Caller, Deny(c)
  PROVE  Refusal.atomic \in Nat /\ Decided(c, Refusal, "DENY")
BY DEF Deny, Refusal

\* The settlement broadcasts what the request has in hand, and lets go of it.
LEMMA SettleKeeps ==
  ASSUME LedgerInv, NEW c \in Caller, Settle(c)
  PROVE  LedgerInv'
<1>1. PICK s \in Signature : pool' = pool \cup {TransferOf(c, s)}
  BY DEF Settle
<1> DEFINE u == TransferOf(c, s)
<1>2. UNCHANGED <<row, mined>> /\ Becomes(c, Idle) /\ InHand(c)
  BY DEF Settle, Leave, InHand
<1>3. u.id = call[c].id /\ call[c].id \in Id /\ row[call[c].id].decision = "ALLOW"
      /\ \A t \in pool : t.id # call[c].id
  BY <1>2, InHandNamesRow DEF TransferOf, LedgerInv, OneSettler
<1> HIDE DEF u
<1>4. Idle \in Call /\ Idle.at \notin {"sign", "settle"}
  BY DEF Call, Idle
<1>5. /\ call' \in [Caller -> Call]
      /\ \A d \in Caller : InHand(d)' => InHand(d) /\ call'[d].id = call[d].id
  BY <1>2, <1>4, LetGoIsQuiet
<1>6. ~InHand(c)'
  BY <1>2, <1>4 DEF Becomes, InHand, LedgerInv
<1>7. RowsTyped' /\ HoldsCover' /\ WithinLimit'
  BY <1>2 DEF LedgerInv, RowsTyped, HoldsCover, WithinLimit, HeldBy
<1>8. OneSettler'
  BY <1>1, <1>2, <1>3, <1>5, <1>6 DEF LedgerInv, OneSettler, u
<1>9. OneTransfer'
  BY <1>1, <1>2, <1>3 DEF LedgerInv, OneTransfer, u
<1> QED BY <1>5, <1>7, <1>8, <1>9 DEF LedgerInv

LEMMA LedgerInit == Init => LedgerInv
<1> SUFFICES ASSUME Init PROVE LedgerInv
  OBVIOUS
<1> DEFINE f(i) == [k \in 1..MaxRows |-> IF row[k].instrument = i THEN row[k].held ELSE 0]
<1>1. row = [k \in Id |-> NoRow] /\ call = [c \in Caller |-> Idle] /\ pool = {} /\ mined = {}
  BY DEF Init
<1>2. RowsTyped /\ HoldsCover
  BY <1>1 DEF RowsTyped, HoldsCover, NoRow
<1>3. call \in [Caller -> Call] /\ OneSettler /\ OneTransfer
  BY <1>1 DEF Call, OneSettler, OneTransfer, InHand, Idle
<1>4. ASSUME NEW i \in Instrument PROVE HeldBy(i) <= Limit
  <2>1. MaxRows \in Nat /\ Limit \in Nat
    BY RailNumbersAssumption
  <2>2. f(i) \in [1..MaxRows -> Int] /\ \A k \in 1..MaxRows : f(i)[k] = 0
    BY <1>1 DEF NoRow, Id
  <2>3. HeldBy(i) = Total(f(i), MaxRows)
    BY DEF HeldBy, Id
  <2> HIDE DEF f
  <2>4. Total(f(i), MaxRows) = 0
    BY <2>1, <2>2, TotalZero
  <2> QED BY <2>1, <2>3, <2>4
<1> QED BY <1>2, <1>3, <1>4 DEF LedgerInv, WithinLimit

LEMMA LedgerStep == LedgerInv /\ [Next]_vars => LedgerInv'
<1> SUFFICES ASSUME LedgerInv, [Next]_vars PROVE LedgerInv'
  OBVIOUS
<1>1. call \in [Caller -> Call] /\ mined \subseteq pool
  BY DEF LedgerInv, OneTransfer
<1>2. Idle \in Call /\ Idle.at \notin {"sign", "settle"}
  BY DEF Call, Idle
<1>3. ASSUME NEW c \in Caller, NEW q \in Call, Becomes(c, q), q.at \notin {"sign", "settle"},
             UNCHANGED <<row, pool, mined>>
      PROVE  LedgerInv'
  BY <1>1, <1>3, LetGoIsQuiet, QuietKeeps
<1>4. ASSUME UNCHANGED <<row, pool, call>>, mined' \subseteq pool PROVE LedgerInv'
  BY <1>1, <1>4, QuietKeeps DEF InHand
<1>5. ASSUME NEW c \in Caller, NEW i \in Instrument, Begin(c, i) PROVE LedgerInv'
  <2>1. [at |-> "fetch", instrument |-> i] \in Call
    BY DEF Call
  <2> QED BY <1>3, <1>5, <2>1 DEF Begin
<1>6. ASSUME NEW c \in Caller, Fetch(c) PROVE LedgerInv'
  BY <1>1, <1>4, <1>6 DEF Fetch, railVars
<1>7. ASSUME NEW c \in Caller, Decide(c) PROVE LedgerInv'
  BY <1>7, DecideAllows, DecidedKeeps
<1>8. ASSUME NEW c \in Caller, Deny(c) PROVE LedgerInv'
  <2>1. Refusal.atomic \in Nat /\ Decided(c, Refusal, "DENY")
    BY <1>8, DenyHoldsNothing
  <2> QED BY <2>1, DecidedKeeps
<1>9. ASSUME NEW c \in Caller, Abandon(c) PROVE LedgerInv'
  BY <1>2, <1>3, <1>9 DEF Abandon, Leave
<1>10. ASSUME NEW c \in Caller, CoSign(c) PROVE LedgerInv'
  <2>1. call[c].at = "sign" /\ call' = [call EXCEPT ![c] = [call[c] EXCEPT !.at = "settle"]]
        /\ UNCHANGED <<row, pool, mined>>
    BY <1>10 DEF CoSign, Becomes
  <2>2. call[c] \in Call /\ call[c] # Idle /\ call[c].at # "fetch"
    BY <1>1, <2>1 DEF Idle
  <2>3. PICK k \in Id, at \in {"sign", "settle"} : call[c] = [at |-> at, id |-> k]
    BY <2>2 DEF Call
  <2> DEFINE x == [call[c] EXCEPT !.at = "settle"]
             y == [at |-> "settle", id |-> k]
  <2>4. x = y
    BY <2>3
  <2>5. call' = [call EXCEPT ![c] = y]
    BY <2>1, <2>4
  <2>6. y \in Call /\ y.id = k
    BY DEF Call
  <2> HIDE DEF y
  <2>7. call' \in [Caller -> Call]
    BY <1>1, <2>5, <2>6
  <2>8. \A d \in Caller : InHand(d)' => InHand(d) /\ call'[d].id = call[d].id
    <3>1. call'[c] = y /\ \A d \in Caller : d # c => call'[d] = call[d]
      BY <1>1, <2>5
    <3> QED BY <2>1, <2>3, <2>6, <3>1 DEF InHand
  <2> QED BY <1>1, <2>1, <2>7, <2>8, QuietKeeps
<1>11. ASSUME NEW c \in Caller, SignFails(c) PROVE LedgerInv'
  BY <1>2, <1>3, <1>11 DEF SignFails, Leave
<1>12. ASSUME NEW c \in Caller, Settle(c) PROVE LedgerInv'
  BY <1>12, SettleKeeps
<1>13. ASSUME NEW c \in Caller, LeaveUnsettled(c) PROVE LedgerInv'
  BY <1>2, <1>3, <1>13 DEF LeaveUnsettled, Leave
<1>14. ASSUME NEW t \in pool, Mine(t) PROVE LedgerInv'
  BY <1>1, <1>4, <1>14 DEF Mine
<1>15. ASSUME NEW i \in Instrument, DeploySafe(i) \/ Provision(i) \/ Revoke(i) PROVE LedgerInv'
  BY <1>1, <1>4, <1>15 DEF DeploySafe, Provision, Revoke
<1>16. CASE Crash
  <2>1. call' = [c \in Caller |-> Idle] /\ UNCHANGED <<row, pool, mined>>
    BY <1>16 DEF Crash
  <2>2. call' \in [Caller -> Call] /\ \A c \in Caller : ~InHand(c)'
    BY <1>2, <2>1 DEF InHand
  <2> QED BY <1>1, <2>1, <2>2, QuietKeeps
<1>17. CASE UNCHANGED vars
  BY <1>1, <1>4, <1>17 DEF vars, railVars
<1> QED
  BY <1>5, <1>6, <1>7, <1>8, <1>9, <1>10, <1>11, <1>12, <1>13, <1>14, <1>15, <1>16, <1>17
  DEF Next

----------------------------------------------------------------------------
(* The theorems.                                                            *)

\* Whatever resolvers and servers answer, wherever they redirect and however often
\* a name changes its addresses, no socket is opened to what the policy of the
\* deployment does not allow (fetchResourceUnderPolicy, D-75).
THEOREM NothingElseIsReached == Spec => []OnlyPermittedReached
<1>1. Init => FetchInv
  <2> SUFFICES ASSUME Init PROVE FetchInv
    OBVIOUS
  <2>1. fetch = [c \in Caller |-> NoFetch] /\ NoFetch \in FetchType
    BY NoFetchInOrder DEF Init, InOrder
  <2> QED BY <2>1, NoFetchInOrder, InOrderEach
<1>2. FetchInv /\ [Next]_vars => FetchInv'
  <2> SUFFICES ASSUME FetchInv, [Next]_vars PROVE FetchInv'
    OBVIOUS
  <2>1. ASSUME NEW c \in Caller, fetch' = [fetch EXCEPT ![c] = NoFetch] PROVE FetchInv'
    BY <2>1, NoFetchInOrder, SetKeeps DEF Set
  <2>2. ASSUME UNCHANGED fetch PROVE FetchInv'
    BY <2>2 DEF FetchInv, FetchTypeOK, PinnedIsChecked, OnlyPermittedReached
  <2>3. ASSUME NEW c \in Caller, NEW i \in Instrument, Begin(c, i) PROVE FetchInv'
    BY <2>3, StartKeeps DEF Begin
  <2>4. ASSUME NEW c \in Caller, Fetch(c) PROVE FetchInv'
    BY <2>4, FetchStepKeeps DEF Fetch
  <2>5. ASSUME NEW c \in Caller, Decide(c) \/ Deny(c) PROVE FetchInv'
    BY <2>1, <2>5 DEF Decide, Deny, Decided
  <2>6. ASSUME NEW c \in Caller, Abandon(c) \/ SignFails(c) \/ Settle(c) \/ LeaveUnsettled(c)
        PROVE  FetchInv'
    BY <2>1, <2>6 DEF Abandon, SignFails, Settle, LeaveUnsettled, Leave
  <2>7. ASSUME NEW c \in Caller, CoSign(c) PROVE FetchInv'
    BY <2>2, <2>7 DEF CoSign
  <2>8. ASSUME NEW t \in pool, Mine(t) PROVE FetchInv'
    BY <2>2, <2>8 DEF Mine
  <2>9. ASSUME NEW i \in Instrument, DeploySafe(i) \/ Provision(i) \/ Revoke(i) PROVE FetchInv'
    BY <2>2, <2>9 DEF DeploySafe, Provision, Revoke
  <2>10. CASE Crash
    <3>1. fetch' = [c \in Caller |-> NoFetch]
      BY <2>10 DEF Crash
    <3>2. fetch' \in [Caller -> FetchType] /\ \A c \in Caller : InOrder(fetch'[c])
      BY <3>1, NoFetchInOrder DEF InOrder
    <3> QED BY <3>2 DEF FetchInv, FetchTypeOK, PinnedIsChecked, OnlyPermittedReached, InOrder
  <2>11. CASE UNCHANGED vars
    BY <2>2, <2>11 DEF vars
  <2> QED BY <2>3, <2>4, <2>5, <2>6, <2>7, <2>8, <2>9, <2>10, <2>11 DEF Next
<1>3. FetchInv => OnlyPermittedReached
  BY DEF FetchInv
<1> QED BY <1>1, <1>2, <1>3, PTL DEF Spec

LEMMA LedgerInvariance == Spec => []LedgerInv
<1>1. Init => LedgerInv
  BY LedgerInit
<1>2. LedgerInv /\ [Next]_vars => LedgerInv'
  BY LedgerStep
<1> QED BY <1>1, <1>2, PTL DEF Spec

\* The money that left for a mandate is what its holds cover.
LEMMA MovedIsCovered ==
  ASSUME LedgerInv, NEW i \in Instrument
  PROVE  MovedBy(i) <= Limit * Scale
<1> DEFINE ts(k) == {t \in mined : t.id = k}
           f == [k \in Id |-> IF row[k].instrument = i /\ \E t \in mined : t.id = k
                              THEN row[k].atomic * Cardinality(ts(k)) ELSE 0]
           g == [k \in Id |-> IF row[k].instrument = i THEN row[k].held ELSE 0]
<1>1. MaxRows \in Nat /\ Scale \in Nat /\ Limit \in Nat /\ Id = 1..MaxRows
  BY RailNumbersAssumption DEF Id
<1>2. ASSUME NEW k \in Id, \E t \in mined : t.id = k
      PROVE  Cardinality(ts(k)) = 1 /\ row[k].decision = "ALLOW"
  <2>1. PICK t \in mined : t.id = k
    BY <1>2
  <2>2. ts(k) = {t} /\ row[k].decision = "ALLOW"
    BY <2>1 DEF LedgerInv, OneTransfer
  <2> HIDE DEF ts
  <2> QED BY <2>2, FS_Singleton
<1> HIDE DEF ts
<1>3. \A k \in Id : row[k].atomic \in Nat /\ row[k].held \in Nat
  BY DEF LedgerInv, RowsTyped
<1>4. ASSUME NEW k \in Id
      PROVE  f[k] \in Int /\ g[k] \in Int /\ f[k] <= Scale * g[k]
  <2>1. g[k] \in Nat /\ Scale * g[k] \in Nat
    BY <1>1, <1>3
  <2>2. CASE row[k].instrument = i /\ \E t \in mined : t.id = k
    <3>1. f[k] = row[k].atomic * Cardinality(ts(k)) /\ g[k] = row[k].held
      BY <2>2
    <3>2. f[k] = row[k].atomic
      BY <1>2, <1>3, <2>2, <3>1
    <3>3. row[k].atomic <= Scale * row[k].held
      BY <1>2, <2>2 DEF LedgerInv, HoldsCover
    <3> QED BY <1>3, <3>1, <3>2, <3>3
  <2>3. CASE ~(row[k].instrument = i /\ \E t \in mined : t.id = k)
    <3>1. f[k] = 0
      BY <2>3
    <3> QED BY <2>1, <3>1
  <2> QED BY <2>2, <2>3
<1>5. f \in [1..MaxRows -> Int] /\ g \in [1..MaxRows -> Int]
  <2>1. f = [k \in Id |-> f[k]] /\ g = [k \in Id |-> g[k]]
    OBVIOUS
  <2> HIDE DEF f, g
  <2> QED BY <1>1, <1>4, <2>1
<1>6. MovedBy(i) = Total(f, MaxRows) /\ HeldBy(i) = Total(g, MaxRows)
  BY DEF MovedBy, HeldBy, ts
<1> HIDE DEF f, g
<1>7. Total(f, MaxRows) <= Scale * Total(g, MaxRows)
  BY <1>1, <1>4, <1>5, TotalScaled
<1>8. Total(f, MaxRows) \in Int /\ Total(g, MaxRows) \in Int /\ Total(g, MaxRows) <= Limit
  BY <1>1, <1>5, <1>6, TotalInt DEF LedgerInv, WithinLimit
<1>9. \A x \in Int : x <= Limit => Scale * x <= Limit * Scale
  BY <1>1
<1>10. Scale * Total(g, MaxRows) \in Int /\ Limit * Scale \in Int
  BY <1>1, <1>8
<1> QED BY <1>6, <1>7, <1>8, <1>9, <1>10

\* What leaves a Safe for a mandate stays within its budget at every scale of the
\* asset, for any number of requests, retries and crashes (D-4, D-68, D-88).
THEOREM MoneyStaysWithinBudget == Spec => []MovedWithinBudget
<1>1. LedgerInv => MovedWithinBudget
  BY MovedIsCovered DEF MovedWithinBudget
<1> QED BY <1>1, LedgerInvariance, PTL

LEMMA HeldIsKept ==
  ASSUME LedgerInv, NEW c \in Caller, NEW q, q.atomic \in Nat, NEW decision,
         Decided(c, q, decision), NEW i, decision = "ALLOW" => call[c].instrument # i
  PROVE  HeldBy(i)' = HeldBy(i)
<1> DEFINE r == Row(call[c].instrument, q, decision)
<1>1. PICK k \in Id : NextId(k) /\ row' = [row EXCEPT ![k] = r]
  BY DEF Decided
<1>2. row[k].held = 0 /\ RowsTyped
  BY <1>1 DEF NextId, Used, LedgerInv, HoldsCover
<1>3. /\ r.held \in Nat /\ r.instrument = call[c].instrument
      /\ decision # "ALLOW" => r.held = 0
  BY RoundedUp DEF Row
<1> HIDE DEF r
<1>4. HeldBy(i)' = HeldBy(i) + (IF r.instrument = i THEN r.held ELSE 0)
  BY <1>1, <1>2, <1>3, HeldChange
<1>5. HeldBy(i) \in Int
  BY <1>2, HeldTyped
<1> QED BY <1>3, <1>4, <1>5

\* A mandate that is revoked is decided against, though the request began before:
\* from that instant its holds do not change (D-80).
THEOREM NothingIsHeldAfterRevoke == Spec => NothingHeldAfterRevoke
<1> DEFINE A == \A i \in Instrument : status[i] = "REVOKED" => HeldBy(i)' = HeldBy(i)
<1>1. LedgerInv /\ [Next]_vars => A
  <2> SUFFICES ASSUME LedgerInv, [Next]_vars, NEW i \in Instrument, status[i] = "REVOKED"
               PROVE  HeldBy(i)' = HeldBy(i)
    OBVIOUS
  <2>1. CASE UNCHANGED row
    BY <2>1 DEF HeldBy
  <2>2. ASSUME NEW c \in Caller, Decide(c) PROVE HeldBy(i)' = HeldBy(i)
    BY <2>2, DecideAllows, HeldIsKept
  <2>3. ASSUME NEW c \in Caller, Deny(c) PROVE HeldBy(i)' = HeldBy(i)
    <3>1. Refusal.atomic \in Nat /\ Decided(c, Refusal, "DENY")
      BY <2>3, DenyHoldsNothing
    <3> QED BY <3>1, HeldIsKept
  <2>4. \/ UNCHANGED row
        \/ \E c \in Caller : Decide(c) \/ Deny(c)
    BY DEF Next, vars, railVars, Begin, Fetch, Abandon, CoSign, SignFails, Settle, LeaveUnsettled,
           Mine, DeploySafe, Provision, Revoke, Crash
  <2> QED BY <2>1, <2>2, <2>3, <2>4
<1>2. LedgerInv /\ [Next]_vars => [A]_vars
  BY <1>1
<1> QED BY <1>2, LedgerInvariance, PTL DEF Spec, NothingHeldAfterRevoke

=============================================================================
