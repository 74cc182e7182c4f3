--------------------------- MODULE CardRailProofs ---------------------------
(***************************************************************************)
(* What holds of the card rail for every policy, every set of payments and *)
(* concurrent deliveries, and every bound.                                 *)
(***************************************************************************)
EXTENDS CardRail, FiniteSetTheorems

\* The network waits for its answer, and an increment says what came before it.
OrderlyRail == ~GivesUp /\ ~ForgetsHistory

----------------------------------------------------------------------------
(* The shape of the state.                                                  *)

Typed ==
  /\ clock \in Time /\ asked \subseteq Request
  /\ row \in [Id -> CardRow]
  /\ call \in [Caller -> Call]
  /\ moved \in [Transaction -> [ref : Payment \cup {NoRef}, amount : Nat]]
  /\ rail \in [Payment -> RailState]

----------------------------------------------------------------------------
(* The requests of the network, whatever became of their decisions.         *)

Waits(q) == rail[q.payment].waiting = [waits |-> TRUE, request |-> q]

\* Requests of one payment are told apart by their history; the one that waits is
\* the last, for more than was approved, and the payment is open.  One that closed did
\* so for some money.
AskedInOrder ==
  /\ \A q \in asked : q.history < rail[q.payment].asks
  /\ \A q, r \in asked : q.payment = r.payment /\ q.history = r.history => q = r
  /\ \A p \in Payment : rail[p].waiting # NotWaiting =>
       LET q == rail[p].waiting.request IN
       /\ rail[p].state = "open" /\ q \in asked /\ q.payment = p
       /\ q.history + 1 = rail[p].asks /\ q.amount > rail[p].approved
  /\ \A p \in Payment : rail[p].state = "closed" => rail[p].settled > 0

\* A delivery is one of what was asked, and of something that has happened.
DeliveriesFit ==
  /\ \A c \in Caller : call[c].op = "decide" =>
       call[c].request \in asked /\ call[c].request.named /\ call[c].now <= clock
  /\ \A c \in Caller : call[c].op = "update" => rail[call[c].payment].state # "open"
  /\ \A i \in Used : row[i].at <= clock

----------------------------------------------------------------------------
(* A payment all of whose decisions were recorded.                          *)

Of(p) == {q \in asked : q.payment = p /\ q.named}

\* Its rows are what was decided of its requests, each once and in their order: a
\* request that carries the instrument waits exactly as long as it has no row.
Decides(p) ==
  /\ \A q \in Of(p) : Waits(q) <=> Recorded(q) = {}
  /\ \A i \in RowsOf(p) : \E q \in Of(p) : q.history = row[i].revision /\ q.amount = row[i].amount
  /\ \A i, j \in RowsOf(p) : row[i].revision = row[j].revision => i = j
  /\ \A i, j \in RowsOf(p) : row[i].revision <= row[j].revision => row[i].at <= row[j].at

\* What a delivery read before the lock is still so, but for money that has moved.
StillHolds(p, d) ==
  /\ d.revision = d.request.history
  /\ Recorded(d.request) = {} =>
       /\ \A i \in RowsOf(p) : row[i].at <= d.now
       /\ HoldOf(p) <= d.prior /\ d.prior <= rail[p].approved
       /\ MovedFor(p) = {} => HoldOf(p) = d.prior

ReadsHold(p) ==
  \A c \in Caller :
    call[c].op = "decide" /\ call[c].request.payment = p => StillHolds(p, call[c])

NothingOut(p) == \A i \in RowsOf(p) : Outstanding(row[i]) = 0

\* An approval holds what it added until it is released as a whole.
HoldsWhole(p) ==
  \A i \in RowsOf(p) :
    /\ row[i].decision = "ALLOW" => row[i].reserved > 0
    /\ row[i].released \in {0, row[i].reserved}

\* What is held was approved; a payment that is over, or was settled and not asked
\* about since, holds nothing.
HoldsApproved(p) ==
  /\ HoldOf(p) <= rail[p].approved
  /\ ~Closed(p) /\ MovedFor(p) = {} => HoldOf(p) = rail[p].approved
  /\ Closed(p) => rail[p].state # "open" /\ NothingOut(p)
  /\ RowsOf(p) # {} /\ row[Latest(p)].status = "EXECUTED" => NothingOut(p)
  /\ \A c \in Caller :
       call[c].op = "update" /\ call[c].payment = p /\ call[c].executed => NothingOut(p)

\* Money that was released was captured, in a row as late: what keeps the slot of a
\* payment whose later increments fall in another window.
ReleasedIsCaptured(p) ==
  /\ \A j \in RowsOf(p) : row[j].released > 0 /\ rail[p].state = "open" =>
       \E k \in RowsOf(p) : row[k].captured > 0 /\ row[j].at <= row[k].at
  /\ \A i, j \in RowsOf(p) : Outstanding(row[i]) > 0 /\ row[j].released > 0 =>
       \E k \in RowsOf(p) :
         row[k].captured > 0 /\ row[j].at <= row[k].at /\ row[k].at <= row[i].at
  /\ RowsOf(p) # {} /\ row[Latest(p)].decision = "ALLOW" /\ row[Latest(p)].released > 0 =>
       row[Latest(p)].captured > 0 \/ (rail[p].state = "unwound" /\ NothingOut(p))

Orderly(p) ==
  Decides(p) /\ ReadsHold(p) /\ HoldsWhole(p) /\ HoldsApproved(p) /\ ReleasedIsCaptured(p)

Inv ==
  /\ Typed /\ AskedInOrder /\ DeliveriesFit
  /\ \A p \in Payment \ failed : Orderly(p)

----------------------------------------------------------------------------
(* The rows.                                                                *)

\* A row that was written has its columns, and amounts that can be added.
LEMMA RowFields ==
  ASSUME NEW r \in CardRow
  PROVE  /\ r.revision \in Nat /\ r.amount \in Nat /\ r.at \in Nat
         /\ r.reserved \in Int /\ r.released \in Int /\ r.captured \in Nat
         /\ r.status = "NONE" <=> r = NoRow
         /\ r.status # "NONE" =>
              /\ r.ref \in Payment \cup Transaction /\ r.at \in Time
              /\ r.decision \in {"ALLOW", "DENY", "STEP_UP"}
              /\ r.decision # "ALLOW" => r.reserved = 0 /\ r.released = 0
<1>1. Time \subseteq Nat
  BY CardBoundsAssumption DEF Time
<1>2. CASE r = NoRow
  BY <1>2 DEF NoRow
<1>3. CASE r # NoRow
  <2>1. PICK decisions, statuses, amounts :
          /\ r \in [ref : Payment \cup Transaction, revision : Nat, decision : decisions,
                    status : statuses, amount : Nat, at : Time, reserved : amounts,
                    released : amounts, captured : Nat]
          /\ \/ decisions = {"ALLOW"} /\ statuses = {"AUTHORIZED", "EXECUTED", "EXPIRED"} /\ amounts = Int
             \/ decisions = {"DENY", "STEP_UP"} /\ statuses = {"DENIED", "EXECUTED"} /\ amounts = {0}
    BY <1>3 DEF CardRow
  <2>2. /\ r.ref \in Payment \cup Transaction /\ r.revision \in Nat /\ r.decision \in decisions
        /\ r.status \in statuses /\ r.amount \in Nat /\ r.at \in Time
        /\ r.reserved \in amounts /\ r.released \in amounts /\ r.captured \in Nat
    BY <2>1
  <2>3. CASE decisions = {"ALLOW"} /\ statuses = {"AUTHORIZED", "EXECUTED", "EXPIRED"} /\ amounts = Int
    BY <1>1, <1>3, <2>2, <2>3
  <2>4. CASE decisions = {"DENY", "STEP_UP"} /\ statuses = {"DENIED", "EXECUTED"} /\ amounts = {0}
    <3>1. /\ r.decision \in {"DENY", "STEP_UP"} /\ r.status \in {"DENIED", "EXECUTED"}
          /\ r.reserved = 0 /\ r.released = 0
      BY <2>2, <2>4
    <3>2. /\ r.revision \in Nat /\ r.amount \in Nat /\ r.at \in Time /\ r.captured \in Nat
          /\ r.ref \in Payment \cup Transaction
      BY <2>2
    <3>3. r.at \in Nat
      BY <1>1, <3>2
    <3>4. r.status # "NONE"
      BY <3>1
    <3> QED BY <1>3, <3>1, <3>2, <3>3, <3>4
  <2> QED BY <2>1, <2>3, <2>4
<1> QED BY <1>2, <1>3

\* A row is written with all its columns.
LEMMA RowMade ==
  ASSUME NEW ref \in Payment \cup Transaction, NEW revision \in Nat, NEW decision, NEW to,
         NEW amount \in Nat, NEW at \in Time, NEW reserved \in Int, NEW released \in Int,
         NEW captured \in Nat,
         \/ decision = "ALLOW" /\ to \in {"AUTHORIZED", "EXECUTED", "EXPIRED"}
         \/ /\ decision \in {"DENY", "STEP_UP"} /\ to \in {"DENIED", "EXECUTED"}
            /\ reserved = 0 /\ released = 0
  PROVE  [ref |-> ref, revision |-> revision, decision |-> decision, status |-> to,
          amount |-> amount, at |-> at, reserved |-> reserved, released |-> released,
          captured |-> captured] \in CardRow
BY DEF CardRow

\* The columns of a row, put together, are the row.
Columns(r) ==
  r = [ref |-> r.ref, revision |-> r.revision, decision |-> r.decision, status |-> r.status,
       amount |-> r.amount, at |-> r.at, reserved |-> r.reserved, released |-> r.released,
       captured |-> r.captured]

LEMMA RowColumns ==
  ASSUME NEW r \in CardRow
  PROVE  /\ Columns(r)
         /\ r.status # "NONE" =>
              \/ r.decision = "ALLOW" /\ r.status \in {"AUTHORIZED", "EXECUTED", "EXPIRED"}
              \/ r.decision \in {"DENY", "STEP_UP"} /\ r.status \in {"DENIED", "EXECUTED"}
<1>1. CASE r = NoRow
  BY <1>1 DEF NoRow, Columns
<1>2. CASE r # NoRow
  <2>1. PICK decisions, statuses, amounts :
          /\ r \in [ref : Payment \cup Transaction, revision : Nat, decision : decisions,
                    status : statuses, amount : Nat, at : Time, reserved : amounts,
                    released : amounts, captured : Nat]
          /\ \/ decisions = {"ALLOW"} /\ statuses = {"AUTHORIZED", "EXECUTED", "EXPIRED"}
             \/ decisions = {"DENY", "STEP_UP"} /\ statuses = {"DENIED", "EXECUTED"}
    BY <1>2 DEF CardRow
  <2> QED BY <2>1 DEF Columns
<1> QED BY <1>1, <1>2

\* What writing some columns of a row makes of it.
LEMMA RowSettles ==
  ASSUME NEW r, Columns(r), NEW released, NEW to, NEW captured, NEW x,
         x = [r EXCEPT !.released = released, !.status = to, !.captured = captured]
  PROVE  x = [ref |-> r.ref, revision |-> r.revision, decision |-> r.decision, status |-> to,
              amount |-> r.amount, at |-> r.at, reserved |-> r.reserved, released |-> released,
              captured |-> captured]
BY ZenonT(30) DEF Columns

LEMMA RowReleases ==
  ASSUME NEW r, Columns(r), NEW released, NEW to, NEW x,
         x = [r EXCEPT !.released = released, !.status = to]
  PROVE  x = [ref |-> r.ref, revision |-> r.revision, decision |-> r.decision, status |-> to,
              amount |-> r.amount, at |-> r.at, reserved |-> r.reserved, released |-> released,
              captured |-> r.captured]
BY ZenonT(30) DEF Columns

\* Of some of the rows, one has the highest of a number they have.
LEMMA Highest ==
  ASSUME NEW n \in Nat, NEW f, \A i \in 1..n : f[i] \in Nat, NEW T \in SUBSET (1..n), T # {}
  PROVE  \E i \in T : \A j \in T : f[j] <= f[i]
<1> DEFINE Has(U) == U # {} => \E i \in U : \A j \in U : f[j] <= f[i]
           S == {k \in Nat : k <= n => \A U \in SUBSET (1..k) : Has(U)}
<1>1. 0 \in S
  <2>1. \A U \in SUBSET (1..0) : U = {}
    OBVIOUS
  <2> QED BY <2>1
<1>2. ASSUME NEW k \in S PROVE k + 1 \in S
  <2> SUFFICES ASSUME k + 1 <= n, NEW U \in SUBSET (1..(k + 1)), U # {}
               PROVE  \E i \in U : \A j \in U : f[j] <= f[i]
    OBVIOUS
  <2> DEFINE V == U \ {k + 1}
  <2>1. V \in SUBSET (1..k) /\ Has(V)
    <3>1. V \in SUBSET (1..k) /\ k <= n
      OBVIOUS
    <3>2. \A W \in SUBSET (1..k) : Has(W)
      BY <3>1
    <3> HIDE DEF Has, V
    <3> QED BY <3>1, <3>2
  <2>2. \A i \in U : f[i] \in Nat
    OBVIOUS
  <2>3. CASE k + 1 \notin U
    BY <2>1, <2>3, SMTT(30)
  <2>4. CASE k + 1 \in U /\ V = {}
    BY <2>2, <2>4
  <2>5. CASE k + 1 \in U /\ V # {}
    <3>1. PICK i \in V : \A j \in V : f[j] <= f[i]
      BY <2>1, <2>5
    <3>2. CASE f[i] <= f[k + 1]
      BY <2>2, <2>5, <3>1, <3>2, SMTT(30)
    <3>3. CASE ~(f[i] <= f[k + 1])
      BY <2>2, <2>5, <3>1, <3>3, SMTT(30)
    <3> QED BY <3>2, <3>3
  <2> QED BY <2>3, <2>4, <2>5
<1> HIDE DEF S
<1>3. S = Nat
  <2>1. S \in SUBSET Nat
    BY DEF S
  <2> QED BY <1>1, <1>2, <2>1, NatSetInduction
<1>4. Has(T)
  <2> HIDE DEF Has
  <2>1. n \in S /\ n <= n
    BY <1>3
  <2> QED BY <2>1 DEF S
<1> QED BY <1>4

\* A payment with rows has a latest one.
LEMMA LatestIs ==
  ASSUME Typed, NEW p, RowsOf(p) # {}
  PROVE  /\ Latest(p) \in RowsOf(p)
         /\ \A j \in RowsOf(p) : row[j].revision <= row[Latest(p)].revision
<1> DEFINE f == [i \in Id |-> row[i].revision]
<1>1. RowsOf(p) \in SUBSET (1..MaxRows) /\ MaxRows \in Nat
  BY CardBoundsAssumption DEF RowsOf, Used, Id
<1>2. \A i \in 1..MaxRows : f[i] \in Nat
  BY RowFields DEF Typed, Id
<1>3. \E i \in RowsOf(p) : \A j \in RowsOf(p) : f[j] <= f[i]
  <2> HIDE DEF f
  <2> QED BY <1>1, <1>2, Highest
<1>4. \A i \in RowsOf(p) : f[i] = row[i].revision
  BY DEF RowsOf, Used
<1>5. \E i \in RowsOf(p) : \A j \in RowsOf(p) : row[j].revision <= row[i].revision
  BY <1>3, <1>4
<1> QED BY <1>5 DEF Latest

\* What settling a payment does to a row.
LEMMA SettledFields ==
  ASSUME Typed, NEW p, NEW s \in Nat
  PROVE  /\ Settled(p, s) \in [Id -> CardRow]
         /\ \A i \in Id :
              LET r == row[i]
                  x == Settled(p, s)[i]
              IN /\ x.ref = r.ref /\ x.revision = r.revision /\ x.decision = r.decision
                 /\ x.amount = r.amount /\ x.at = r.at /\ x.reserved = r.reserved
                 /\ x.status = "NONE" <=> r.status = "NONE"
                 /\ i \notin RowsOf(p) => x = r
                 /\ i \in RowsOf(p) =>
                      /\ x.released = r.reserved /\ x.status = "EXECUTED"
                      /\ x.captured = r.captured + (IF i = Latest(p) THEN s ELSE 0)
<1> DEFINE To(i) == [row[i] EXCEPT !.released = row[i].reserved, !.status = "EXECUTED",
                                   !.captured = @ + (IF i = Latest(p) THEN s ELSE 0)]
<1>1. ASSUME NEW i \in RowsOf(p)
      PROVE  /\ i \in Id /\ row[i].status # "NONE"
             /\ To(i) = [ref |-> row[i].ref, revision |-> row[i].revision,
                         decision |-> row[i].decision, status |-> "EXECUTED",
                         amount |-> row[i].amount, at |-> row[i].at,
                         reserved |-> row[i].reserved, released |-> row[i].reserved,
                         captured |-> row[i].captured + (IF i = Latest(p) THEN s ELSE 0)]
             /\ To(i) \in CardRow
  <2>1. i \in Id /\ row[i].status # "NONE" /\ row[i] \in CardRow
    BY DEF RowsOf, Used, Typed
  <2>2. Columns(row[i])
    BY <2>1, RowColumns
  <2>3. To(i) = [ref |-> row[i].ref, revision |-> row[i].revision,
                 decision |-> row[i].decision, status |-> "EXECUTED",
                 amount |-> row[i].amount, at |-> row[i].at,
                 reserved |-> row[i].reserved, released |-> row[i].reserved,
                 captured |-> row[i].captured + (IF i = Latest(p) THEN s ELSE 0)]
    <3>1. To(i) = [row[i] EXCEPT !.released = row[i].reserved, !.status = "EXECUTED",
                     !.captured = row[i].captured + (IF i = Latest(p) THEN s ELSE 0)]
      OBVIOUS
    <3> HIDE DEF To
    <3> QED BY <2>2, <3>1, RowSettles, ZenonT(60)
  <2>4. /\ row[i].ref \in Payment \cup Transaction /\ row[i].revision \in Nat
        /\ row[i].amount \in Nat /\ row[i].at \in Time /\ row[i].reserved \in Int
        /\ row[i].captured + (IF i = Latest(p) THEN s ELSE 0) \in Nat
        /\ \/ row[i].decision = "ALLOW"
           \/ row[i].decision \in {"DENY", "STEP_UP"} /\ row[i].reserved = 0
    BY <2>1, RowFields
  <2> DEFINE captured == row[i].captured + (IF i = Latest(p) THEN s ELSE 0)
  <2>5. To(i) \in CardRow
    <3>1. To(i) = [ref |-> row[i].ref, revision |-> row[i].revision,
                   decision |-> row[i].decision, status |-> "EXECUTED",
                   amount |-> row[i].amount, at |-> row[i].at,
                   reserved |-> row[i].reserved, released |-> row[i].reserved,
                   captured |-> captured]
      BY <2>3
    <3>2. captured \in Nat
      BY <2>4
    <3> HIDE DEF To, captured
    <3> QED BY <2>4, <3>1, <3>2, RowMade
  <2> QED BY <2>1, <2>3, <2>5
<1> HIDE DEF To
<1>2. /\ Settled(p, s) = [i \in Id |-> IF i \notin RowsOf(p) THEN row[i] ELSE To(i)]
      /\ \A i \in Id : row[i] \in CardRow
  BY DEF Settled, To, Typed
<1>3. \A i \in Id : Settled(p, s)[i] = IF i \notin RowsOf(p) THEN row[i] ELSE To(i)
  BY <1>2
<1>4. Settled(p, s) \in [Id -> CardRow]
  BY <1>1, <1>2
<1> QED BY <1>1, <1>3, <1>4

\* What releasing a payment does to a row.
LEMMA ReleasedFields ==
  ASSUME Typed, NEW p
  PROVE  /\ Released(p) \in [Id -> CardRow]
         /\ \A i \in Id :
              LET r == row[i]
                  x == Released(p)[i]
              IN /\ x.ref = r.ref /\ x.revision = r.revision /\ x.decision = r.decision
                 /\ x.amount = r.amount /\ x.at = r.at /\ x.reserved = r.reserved
                 /\ x.captured = r.captured
                 /\ x.status = "NONE" <=> r.status = "NONE"
                 /\ i \notin RowsOf(p) => x = r
                 /\ i \in RowsOf(p) => x.released = r.reserved
<1> DEFINE To(i) == [row[i] EXCEPT !.released = row[i].reserved,
                                   !.status = IF @ = "AUTHORIZED" THEN "EXPIRED" ELSE @]
<1>1. ASSUME NEW i \in RowsOf(p)
      PROVE  /\ i \in Id /\ row[i].status # "NONE"
             /\ To(i) = [ref |-> row[i].ref, revision |-> row[i].revision,
                         decision |-> row[i].decision,
                         status |-> IF row[i].status = "AUTHORIZED" THEN "EXPIRED" ELSE row[i].status,
                         amount |-> row[i].amount, at |-> row[i].at,
                         reserved |-> row[i].reserved, released |-> row[i].reserved,
                         captured |-> row[i].captured]
             /\ To(i) \in CardRow
  <2>1. i \in Id /\ row[i].status # "NONE" /\ row[i] \in CardRow
    BY DEF RowsOf, Used, Typed
  <2> DEFINE r == row[i]
             to == IF r.status = "AUTHORIZED" THEN "EXPIRED" ELSE r.status
  <2>2. Columns(r)
    BY <2>1, RowColumns
  <2>3. To(i) = [ref |-> r.ref, revision |-> r.revision, decision |-> r.decision, status |-> to,
                 amount |-> r.amount, at |-> r.at, reserved |-> r.reserved,
                 released |-> r.reserved, captured |-> r.captured]
    <3>1. To(i) = [r EXCEPT !.released = r.reserved, !.status = to]
      OBVIOUS
    <3> HIDE DEF To, r, to
    <3> QED BY <2>2, <3>1, RowReleases
  <2>4. /\ r.ref \in Payment \cup Transaction /\ r.revision \in Nat
        /\ r.amount \in Nat /\ r.at \in Time /\ r.reserved \in Int /\ r.captured \in Nat
        /\ \/ r.decision = "ALLOW" /\ to \in {"AUTHORIZED", "EXECUTED", "EXPIRED"}
           \/ /\ r.decision \in {"DENY", "STEP_UP"} /\ to \in {"DENIED", "EXECUTED"}
              /\ r.reserved = 0
    BY <2>1, RowFields, RowColumns
  <2> HIDE DEF r, to
  <2>5. To(i) \in CardRow
    BY <2>3, <2>4, RowMade
  <2> QED BY <2>1, <2>3, <2>5 DEF r, to
<1> HIDE DEF To
<1>2. /\ Released(p) = [i \in Id |-> IF i \notin RowsOf(p) THEN row[i] ELSE To(i)]
      /\ \A i \in Id : row[i] \in CardRow
  BY DEF Released, To, Typed
<1>3. \A i \in Id : Released(p)[i] = IF i \notin RowsOf(p) THEN row[i] ELSE To(i)
  BY <1>2
<1>4. Released(p) \in [Id -> CardRow]
  BY <1>1, <1>2
<1> QED BY <1>1, <1>3, <1>4

----------------------------------------------------------------------------
(* What the network knows of a payment.                                     *)

\* The columns of what the network knows, put together.
Known(r) ==
  r = [state |-> r.state, asks |-> r.asks, approved |-> r.approved, settled |-> r.settled,
       waiting |-> r.waiting]

LEMMA RailFields ==
  ASSUME NEW r \in RailState
  PROVE  /\ Known(r)
         /\ r.state \in {"open", "closed", "unwound"} /\ r.asks \in Nat /\ r.asks <= MaxAsks
         /\ r.approved \in Nat /\ r.settled \in Nat
         /\ r.waiting # NotWaiting => r.waiting \in [waits : {TRUE}, request : Request]
<1> DEFINE W == {NotWaiting} \cup [waits : {TRUE}, request : Request]
<1>1. r \in [state : {"open", "closed", "unwound"}, asks : 0..MaxAsks, approved : Nat,
             settled : Nat, waiting : W]
  BY DEF RailState
<1> HIDE DEF W
<1>2. Known(r)
  BY <1>1 DEF Known
<1>3. /\ r.state \in {"open", "closed", "unwound"} /\ r.asks \in 0..MaxAsks
      /\ r.approved \in Nat /\ r.settled \in Nat /\ r.waiting \in W
  BY <1>1
<1>4. r.asks \in Nat /\ r.asks <= MaxAsks
  BY <1>3, CardBoundsAssumption
<1>5. r.waiting # NotWaiting => r.waiting \in [waits : {TRUE}, request : Request]
  BY <1>3 DEF W
<1> QED BY <1>2, <1>3, <1>4, <1>5

LEMMA RailMade ==
  ASSUME NEW state \in {"open", "closed", "unwound"}, NEW asks \in Nat, asks <= MaxAsks,
         NEW approved \in Nat, NEW settled \in Nat, NEW waiting,
         waiting = NotWaiting \/ \E q \in Request : waiting = [waits |-> TRUE, request |-> q]
  PROVE  [state |-> state, asks |-> asks, approved |-> approved, settled |-> settled,
          waiting |-> waiting] \in RailState
<1> DEFINE W == {NotWaiting} \cup [waits : {TRUE}, request : Request]
<1>1. waiting \in W
  <2>1. ASSUME NEW q \in Request, waiting = [waits |-> TRUE, request |-> q]
        PROVE  waiting \in [waits : {TRUE}, request : Request]
    <3>1. [waits |-> TRUE, request |-> q] \in [waits : {TRUE}, request : Request]
      BY Zenon
    <3> QED BY <2>1, <3>1
  <2> QED BY <2>1
<1>2. asks \in 0..MaxAsks
  BY CardBoundsAssumption
<1>3. RailState = [state : {"open", "closed", "unwound"}, asks : 0..MaxAsks, approved : Nat,
                   settled : Nat, waiting : W]
  BY DEF RailState
<1> HIDE DEF W
<1> QED BY <1>1, <1>2, <1>3

\* What the network's steps, and an answer to it, make of what it knows.
LEMMA RailAnswered ==
  ASSUME rail \in [Payment -> RailState], NEW p \in Payment, NEW waiting, NEW approved,
         rail' = [rail EXCEPT ![p].waiting = waiting, ![p].approved = approved]
  PROVE  /\ rail'[p] = [state |-> rail[p].state, asks |-> rail[p].asks, approved |-> approved,
                    settled |-> rail[p].settled, waiting |-> waiting]
         /\ \A x \in Payment : x # p => rail'[x] = rail[x]
         /\ rail' = [x \in Payment |-> rail'[x]]
<1> DEFINE r == rail[p]
<1>1. Known(r)
  BY RailFields
<1>2. rail' = [rail EXCEPT ![p] = [r EXCEPT !.waiting = waiting, !.approved = approved]]
  OBVIOUS
<1> HIDE DEF r
<1>3. ASSUME NEW x, x = [r EXCEPT !.waiting = waiting, !.approved = approved]
      PROVE  x = [state |-> r.state, asks |-> r.asks, approved |-> approved,
                  settled |-> r.settled, waiting |-> waiting]
  BY <1>1, <1>3, ZenonT(30) DEF Known
<1>4. /\ rail'[p] = [r EXCEPT !.waiting = waiting, !.approved = approved]
      /\ \A x \in Payment : x # p => rail'[x] = rail[x]
      /\ rail' = [x \in Payment |-> rail'[x]]
  BY <1>2
<1> QED BY <1>3, <1>4 DEF r

LEMMA RailAsked ==
  ASSUME rail \in [Payment -> RailState], NEW p \in Payment, NEW waiting,
         rail' = [rail EXCEPT ![p].asks = @ + 1, ![p].waiting = waiting]
  PROVE  /\ rail'[p] = [state |-> rail[p].state, asks |-> rail[p].asks + 1,
                    approved |-> rail[p].approved, settled |-> rail[p].settled,
                    waiting |-> waiting]
         /\ \A x \in Payment : x # p => rail'[x] = rail[x]
         /\ rail' = [x \in Payment |-> rail'[x]]
<1> DEFINE r == rail[p]
           asks == r.asks + 1
<1>1. Known(r)
  BY RailFields
<1>2. rail' = [rail EXCEPT ![p] = [r EXCEPT !.asks = asks, !.waiting = waiting]]
  OBVIOUS
<1> HIDE DEF r, asks
<1>3. ASSUME NEW x, x = [r EXCEPT !.asks = asks, !.waiting = waiting]
      PROVE  x = [state |-> r.state, asks |-> asks, approved |-> r.approved,
                  settled |-> r.settled, waiting |-> waiting]
  BY <1>1, <1>3, ZenonT(30) DEF Known
<1>4. /\ rail'[p] = [r EXCEPT !.asks = asks, !.waiting = waiting]
      /\ \A x \in Payment : x # p => rail'[x] = rail[x]
      /\ rail' = [x \in Payment |-> rail'[x]]
  BY <1>2
<1> QED BY <1>3, <1>4 DEF r, asks

LEMMA RailEnded ==
  ASSUME rail \in [Payment -> RailState], NEW p \in Payment, NEW state, NEW s, Ends(p, state, s)
  PROVE  /\ rail'[p] = [state |-> state, asks |-> rail[p].asks, approved |-> rail[p].approved,
                    settled |-> s, waiting |-> NotWaiting]
         /\ \A x \in Payment : x # p => rail'[x] = rail[x]
         /\ rail' = [x \in Payment |-> rail'[x]]
<1> DEFINE r == rail[p]
<1>1. Known(r)
  BY RailFields
<1>2. rail' = [rail EXCEPT ![p] = [r EXCEPT !.state = state, !.settled = s, !.waiting = NotWaiting]]
  BY DEF Ends
<1> HIDE DEF r
<1>3. ASSUME NEW x, x = [r EXCEPT !.state = state, !.settled = s, !.waiting = NotWaiting]
      PROVE  x = [state |-> state, asks |-> r.asks, approved |-> r.approved,
                  settled |-> s, waiting |-> NotWaiting]
  BY <1>1, <1>3, ZenonT(30) DEF Known
<1>4. /\ rail'[p] = [r EXCEPT !.state = state, !.settled = s, !.waiting = NotWaiting]
      /\ \A x \in Payment : x # p => rail'[x] = rail[x]
      /\ rail' = [x \in Payment |-> rail'[x]]
  BY <1>2
<1> QED BY <1>3, <1>4 DEF r

\* An answer reaches the request that waits, and changes nothing otherwise.
LEMMA Replied ==
  ASSUME Typed, NEW q \in Request, NEW decision, Reply(q, decision)
  PROVE  /\ rail' \in [Payment -> RailState]
         /\ \A x \in Payment :
              /\ rail'[x].state = rail[x].state /\ rail'[x].asks = rail[x].asks
              /\ rail'[x].settled = rail[x].settled
              /\ ~Waits(q) \/ x # q.payment => rail'[x] = rail[x]
         /\ Waits(q) =>
              /\ rail'[q.payment].waiting = NotWaiting
              /\ rail'[q.payment].approved =
                   IF decision = "ALLOW" THEN q.amount ELSE rail[q.payment].approved
<1> DEFINE p == q.payment
           approved == IF decision = "ALLOW" THEN q.amount ELSE rail[p].approved
<1>1. rail \in [Payment -> RailState] /\ p \in Payment /\ q.amount \in Nat
  BY CardAmountAssumption DEF Typed, Request
<1>2. CASE ~Waits(q)
  BY <1>1, <1>2 DEF Reply, Waits
<1>3. CASE Waits(q)
  <2>1. rail' = [rail EXCEPT ![p].waiting = NotWaiting, ![p].approved = approved]
    BY <1>3 DEF Reply, Waits, toResponse
  <2>2. /\ rail'[p] = [state |-> rail[p].state, asks |-> rail[p].asks, approved |-> approved,
                       settled |-> rail[p].settled, waiting |-> NotWaiting]
        /\ \A x \in Payment : x # p => rail'[x] = rail[x]
        /\ rail' = [x \in Payment |-> rail'[x]]
    <3> HIDE DEF p, approved
    <3> QED BY <1>1, <2>1, RailAnswered
  <2>3. /\ rail[p].state \in {"open", "closed", "unwound"} /\ rail[p].asks \in Nat
        /\ rail[p].asks <= MaxAsks /\ approved \in Nat /\ rail[p].settled \in Nat
    BY <1>1, RailFields
  <2>4. rail'[p] \in RailState
    <3> HIDE DEF p, approved
    <3> QED BY <2>2, <2>3, RailMade
  <2>5. \A x \in Payment : rail'[x] \in RailState
    BY <1>1, <2>2, <2>4
  <2>6. /\ rail'[p].state = rail[p].state /\ rail'[p].asks = rail[p].asks
        /\ rail'[p].settled = rail[p].settled /\ rail'[p].approved = approved
        /\ rail'[p].waiting = NotWaiting
    BY <2>2
  <2>7. rail' \in [Payment -> RailState]
    BY <2>2, <2>5
  <2> QED BY <1>3, <2>2, <2>6, <2>7
<1> QED BY <1>2, <1>3

\* The network's own steps.
LEMMA RailStep ==
  ASSUME Typed, [Next]_vars
  PROVE  \/ UNCHANGED <<rail, asked>>
         \/ \E q \in Request : \E decision : Reply(q, decision) /\ UNCHANGED asked
         \/ \E p \in Payment, h \in 0..MaxAsks, a \in Amount : Ask(p, h, a)
         \/ \E p \in Payment, s \in Amount : Close(p, s)
         \/ \E p \in Payment : Unwind(p)
<1>1. \A c \in Caller : call[c].op = "decide" => call[c].request \in Request
  BY DEF Typed, Call, Idle
<1>2. ASSUME NEW c \in Caller, CommitDecide(c) \/ ReplayWinner(c) \/ FailDecide(c)
      PROVE  \E q \in Request : \E decision : Reply(q, decision) /\ UNCHANGED asked
  BY <1>1, <1>2 DEF CommitDecide, ReplayWinner, FailDecide
<1>3. ASSUME NEW q \in Request, Unattributed(q) \/ Replay(q)
      PROVE  \E decision : Reply(q, decision) /\ UNCHANGED asked
  BY <1>3 DEF Unattributed, Replay
<1> QED
  BY <1>2, <1>3, ZenonT(60)
     DEF Next, vars, activateMandate, ProvisionStep, CreateCard, createInstrument,
       NameInstrument, Provisioned, BeginDecide, BeginUpdate, CommitUpdate, TransactionEvent,
       Revoke, Tick

----------------------------------------------------------------------------
(* The state keeps its shape.                                               *)

LEMMA OutstandingInt ==
  ASSUME Typed, NEW i \in Id
  PROVE  row[i] \in CardRow /\ Outstanding(row[i]) \in Int /\ row[i].captured \in Nat
BY RowFields DEF Typed, Outstanding

LEMMA HoldInt ==
  ASSUME Typed, NEW p
  PROVE  HoldOf(p) \in Int
<1>1. [i \in Id |-> IF row[i].ref = p THEN Outstanding(row[i]) ELSE 0] \in [1..MaxRows -> Int]
  BY OutstandingInt DEF Id
<1> QED BY <1>1, TotalInt, CardBoundsAssumption DEF HoldOf

\* What a delivery being decided, and one being applied, have read.
LEMMA CallFields ==
  ASSUME Typed, NEW c \in Caller
  PROVE  /\ call[c] = Idle \/ call[c].op \in {"decide", "update"}
         /\ call[c].op = "decide" =>
              /\ call[c].request \in Request /\ call[c].revision \in Nat
              /\ call[c].prior \in Int /\ call[c].now \in Time
         /\ call[c].op = "update" => call[c].payment \in Payment /\ call[c].notice \in Notice
BY DEF Typed, Call, Idle

LEMMA CallMade ==
  /\ Idle \in Call
  /\ \A q \in Request, n \in Nat, b \in BOOLEAN, prior \in Int, now \in Time :
       [op |-> "decide", request |-> q, increment |-> b, now |-> now, revision |-> n,
        prior |-> prior] \in Call
  /\ \A p \in Payment, n \in Notice, b \in BOOLEAN :
       [op |-> "update", payment |-> p, notice |-> n, executed |-> b] \in Call
BY ZenonT(60) DEF Call

\* How the deliveries being handled change.
LEMMA CallStep ==
  ASSUME [Next]_vars
  PROVE  \/ UNCHANGED call
         \/ \E c \in Caller, q \in Request : BeginDecide(c, q)
         \/ \E c \in Caller, p \in Payment, n \in Notice : BeginUpdate(c, p, n)
         \/ \E c \in Caller : Becomes(c, Idle)
BY ZenonT(60)
   DEF Next, vars, activateMandate, ProvisionStep, CreateCard, createInstrument, NameInstrument,
       Provisioned, Unattributed, Replay, CommitDecide, ReplayWinner, FailDecide, CommitUpdate,
       TransactionEvent, Ask, Close, Unwind, Ends, Revoke, Tick

LEMMA TypedCall ==
  ASSUME Typed, [Next]_vars
  PROVE  call' \in [Caller -> Call]
<1>1. call \in [Caller -> Call] /\ clock \in Time
  BY DEF Typed
<1>2. ASSUME NEW c \in Caller, NEW q \in Request, BeginDecide(c, q)
      PROVE  call' \in [Caller -> Call]
  <2> DEFINE increment == RowsOf(q.payment) # {}
             revision == IF increment THEN Larger(q.history, row[Latest(q.payment)].revision + 1)
                         ELSE q.history
             prior == IF increment THEN HoldOf(q.payment) ELSE 0
  <2>1. q.history \in Nat
    BY CardBoundsAssumption DEF Request
  <2>2. increment => row[Latest(q.payment)].revision \in Nat
    <3>1. increment => Latest(q.payment) \in Id
      BY LatestIs DEF RowsOf, Used
    <3> QED BY <3>1, OutstandingInt, RowFields
  <2>3. increment \in BOOLEAN /\ revision \in Nat /\ prior \in Int
    BY <2>1, <2>2, HoldInt DEF Larger
  <2>4. Becomes(c, [op |-> "decide", request |-> q, increment |-> increment, now |-> clock,
                    revision |-> revision, prior |-> prior])
    BY <1>2 DEF BeginDecide
  <2> HIDE DEF increment, revision, prior
  <2>5. [op |-> "decide", request |-> q, increment |-> increment, now |-> clock,
         revision |-> revision, prior |-> prior] \in Call
    BY <1>1, <2>3, CallMade
  <2> QED BY <1>1, <2>4, <2>5 DEF Becomes
<1>3. ASSUME NEW c \in Caller, NEW p \in Payment, NEW n \in Notice, BeginUpdate(c, p, n)
      PROVE  call' \in [Caller -> Call]
  <2> DEFINE executed == row[Latest(p)].status = "EXECUTED"
  <2>1. Becomes(c, [op |-> "update", payment |-> p, notice |-> n, executed |-> executed])
    BY <1>3 DEF BeginUpdate
  <2>2. executed \in BOOLEAN
    OBVIOUS
  <2> HIDE DEF executed
  <2>3. [op |-> "update", payment |-> p, notice |-> n, executed |-> executed] \in Call
    BY <2>2, CallMade
  <2> QED BY <1>1, <2>1, <2>3 DEF Becomes
<1>4. ASSUME NEW c \in Caller, Becomes(c, Idle) PROVE call' \in [Caller -> Call]
  BY <1>1, <1>4, CallMade DEF Becomes
<1> QED BY <1>1, <1>2, <1>3, <1>4, CallStep

\* How rows are written.
LEMMA RowStep ==
  ASSUME [Next]_vars
  PROVE  \/ UNCHANGED row
         \/ \E c \in Caller : CommitDecide(c)
         \/ \E c \in Caller : CommitUpdate(c)
         \/ \E t \in Transaction, p \in Payment \cup {NoRef}, a \in Amount : TransactionEvent(t, p, a)
BY DEF Next, vars, activateMandate, ProvisionStep, CreateCard, createInstrument, NameInstrument,
       Provisioned, Unattributed, Replay, BeginDecide, ReplayWinner, FailDecide, BeginUpdate,
       Ask, Close, Unwind, Ends, Revoke, Tick

\* A decision says yes or no, and its row is one of a card's.
LEMMA DecidedRow ==
  ASSUME Typed, NEW c \in Caller, call[c].op = "decide", NEW v \in Policy.verdicts
  PROVE  LET d == call[c]
             decision == DecisionFor(d, v)
         IN decision \in Decision /\ Decided(d, decision) \in CardRow
<1> DEFINE d == call[c]
           decision == DecisionFor(d, v)
<1>1. v \in Decision
  BY CardPolicyAssumption DEF PolicyType
<1>2. decision \in Decision
  BY <1>1 DEF DecisionFor, Decision
<1>3. /\ d.request \in Request /\ d.revision \in Nat /\ d.prior \in Int /\ d.now \in Time
      /\ d.request.payment \in Payment \cup Transaction /\ d.request.amount \in Nat
  BY CallFields, CardAmountAssumption DEF Request
<1>4. /\ (IF decision = "ALLOW" THEN Delta(d) ELSE 0) \in Int /\ 0 \in Int /\ 0 \in Nat
      /\ \/ decision = "ALLOW" /\ (IF decision = "ALLOW" THEN "AUTHORIZED" ELSE "DENIED") = "AUTHORIZED"
         \/ /\ decision \in {"DENY", "STEP_UP"}
            /\ (IF decision = "ALLOW" THEN "AUTHORIZED" ELSE "DENIED") = "DENIED"
            /\ (IF decision = "ALLOW" THEN Delta(d) ELSE 0) = 0
  BY <1>2, <1>3 DEF Delta, Decision
<1> HIDE DEF decision, d
<1>5. Decided(d, decision) \in CardRow
  BY <1>3, <1>4, RowMade, ZenonT(60) DEF Decided
<1> QED BY <1>2, <1>5 DEF d, decision
\* No row is of no payment, and a used row is of some payment or transaction.
LEMMA NoRowsOfNobody ==
  ASSUME Typed
  PROVE  RowsOf(NoRef) = {} /\ \A i \in Id : row[i].status = "NONE" => row[i] = NoRow
BY RowFields, CardNamesAssumption DEF Typed, RowsOf, Used

\* What a transaction settles of a payment is part of what moved and of what is held.
LEMMA SettleableIs ==
  ASSUME Typed, NEW p \in Payment \cup {NoRef}, NEW a \in Amount
  PROVE  /\ a \in Nat /\ a > 0 /\ Settleable(p, a) \in Nat /\ Settleable(p, a) <= a
         /\ a - Settleable(p, a) \in Nat
         /\ Settleable(p, a) > 0 => RowsOf(p) # {} /\ p \in Payment /\ Settleable(p, a) <= HoldOf(p)
<1>1. HoldOf(p) \in Int /\ a \in Nat /\ a > 0
  BY HoldInt, CardAmountAssumption
<1>2. p = NoRef => RowsOf(p) = {}
  BY NoRowsOfNobody
<1> QED BY <1>1, <1>2 DEF Settleable, Smaller

\* The row of money that moved unasked is one of a card's.
LEMMA UnauthorizedRow ==
  ASSUME Typed, NEW t \in Transaction, NEW a \in Nat
  PROVE  Unauthorized(t, a) \in CardRow
<1>1. clock \in Time /\ t \in Payment \cup Transaction /\ 0 \in Int /\ 0 \in Nat
  BY DEF Typed
<1> QED BY <1>1, RowMade DEF Unauthorized

\* A transaction settles, and then writes a row if anything is left.
LEMMA TransactionRows ==
  ASSUME Typed, NEW t \in Transaction, NEW p \in Payment \cup {NoRef}, NEW a \in Amount,
         TransactionEvent(t, p, a)
  PROVE  LET s == Settleable(p, a)
             settled == IF s > 0 THEN Settled(p, s) ELSE row
         IN /\ settled \in [Id -> CardRow]
            /\ \/ s = a /\ row' = settled
               \/ /\ s # a
                  /\ \E i \in Id : NextId(i) /\ row' = [settled EXCEPT ![i] = Unauthorized(t, a - s)]
<1>1. Settleable(p, a) \in Nat /\ row \in [Id -> CardRow]
  BY SettleableIs DEF Typed
<1>2. Settleable(p, a) > 0 => Settled(p, Settleable(p, a)) \in [Id -> CardRow]
  BY <1>1, SettledFields
<1> QED BY <1>1, <1>2 DEF TransactionEvent

LEMMA TypedRow ==
  ASSUME Typed, [Next]_vars
  PROVE  row' \in [Id -> CardRow]
<1>1. row \in [Id -> CardRow]
  BY DEF Typed
<1>2. ASSUME NEW c \in Caller, CommitDecide(c) PROVE row' \in [Id -> CardRow]
  <2>1. PICK i \in Id, v \in Policy.verdicts :
          row' = [row EXCEPT ![i] = Decided(call[c], DecisionFor(call[c], v))]
    BY <1>2 DEF CommitDecide
  <2>2. Decided(call[c], DecisionFor(call[c], v)) \in CardRow
    BY <1>2, DecidedRow DEF CommitDecide
  <2> QED BY <1>1, <2>1, <2>2
<1>3. ASSUME NEW c \in Caller, CommitUpdate(c) PROVE row' \in [Id -> CardRow]
  <2> DEFINE p == call[c].payment
  <2>1. p \in Payment
    BY <1>3, CallFields DEF CommitUpdate
  <2>2. rail[p].settled \in Nat
    BY <2>1, RailFields DEF Typed
  <2>3. row' \in {row, Released(p), Settled(p, rail[p].settled)}
    BY <1>3 DEF CommitUpdate
  <2> HIDE DEF p
  <2> QED BY <1>1, <2>2, <2>3, SettledFields, ReleasedFields
<1>4. ASSUME NEW t \in Transaction, NEW p \in Payment \cup {NoRef}, NEW a \in Amount,
             TransactionEvent(t, p, a)
      PROVE  row' \in [Id -> CardRow]
  <2> DEFINE s == Settleable(p, a)
             settled == IF s > 0 THEN Settled(p, s) ELSE row
  <2>1. a - s \in Nat
    BY SettleableIs
  <2>2. Unauthorized(t, a - s) \in CardRow
    BY <2>1, UnauthorizedRow
  <2>3. /\ settled \in [Id -> CardRow]
        /\ row' = settled \/ \E i \in Id : row' = [settled EXCEPT ![i] = Unauthorized(t, a - s)]
    BY <1>4, TransactionRows
  <2> HIDE DEF s, settled
  <2> QED BY <2>2, <2>3
<1> QED BY <1>1, <1>2, <1>3, <1>4, RowStep
LEMMA TypedRail ==
  ASSUME Typed, [Next]_vars
  PROVE  rail' \in [Payment -> RailState] /\ asked' \subseteq Request
<1>1. rail \in [Payment -> RailState] /\ asked \subseteq Request
  BY DEF Typed
<1>2. ASSUME NEW q \in Request, NEW decision, Reply(q, decision)
      PROVE  rail' \in [Payment -> RailState]
  BY <1>2, Replied
<1>3. ASSUME NEW p \in Payment, NEW h \in 0..MaxAsks, NEW a \in Amount, Ask(p, h, a)
      PROVE  rail' \in [Payment -> RailState] /\ asked' \subseteq Request
  <2> DEFINE q == [payment |-> p, history |-> h, amount |-> a, named |-> card = "named"]
             w == [waits |-> TRUE, request |-> q]
  <2>1. q \in Request
    BY Zenon DEF Request
  <2>2. rail' = [rail EXCEPT ![p].asks = @ + 1, ![p].waiting = w] /\ asked' = asked \cup {q}
    BY <1>3 DEF Ask
  <2>3. /\ rail[p].state \in {"open", "closed", "unwound"} /\ rail[p].asks + 1 \in Nat
        /\ rail[p].asks + 1 <= MaxAsks /\ rail[p].approved \in Nat /\ rail[p].settled \in Nat
    <3>1. rail[p].asks < MaxAsks
      BY <1>3 DEF Ask
    <3>2. rail[p] \in RailState
      BY <1>1
    <3> HIDE DEF q, w
    <3>3. rail[p].asks \in Nat
      BY <3>2, RailFields
    <3>4. rail[p].asks + 1 \in Nat /\ rail[p].asks + 1 <= MaxAsks
      BY <3>1, <3>3, CardBoundsAssumption
    <3> QED BY <3>2, <3>4, RailFields
  <2>4. w = NotWaiting \/ \E r \in Request : w = [waits |-> TRUE, request |-> r]
    BY <2>1
  <2> HIDE DEF w, q
  <2>5. /\ rail'[p] = [state |-> rail[p].state, asks |-> rail[p].asks + 1,
                       approved |-> rail[p].approved, settled |-> rail[p].settled, waiting |-> w]
        /\ \A x \in Payment : x # p => rail'[x] = rail[x]
        /\ rail' = [x \in Payment |-> rail'[x]]
    BY <1>1, <2>2, RailAsked
  <2>6. rail'[p] \in RailState
    BY <2>3, <2>4, <2>5, RailMade
  <2> QED BY <1>1, <2>1, <2>2, <2>5, <2>6
<1>4. ASSUME NEW p \in Payment, NEW state \in {"closed", "unwound"}, NEW s \in Nat, Ends(p, state, s)
      PROVE  rail' \in [Payment -> RailState] /\ UNCHANGED asked
  <2>1. /\ rail'[p] = [state |-> state, asks |-> rail[p].asks, approved |-> rail[p].approved,
                       settled |-> s, waiting |-> NotWaiting]
        /\ \A x \in Payment : x # p => rail'[x] = rail[x]
        /\ rail' = [x \in Payment |-> rail'[x]]
    BY <1>1, <1>4, RailEnded
  <2>2. state \in {"open", "closed", "unwound"} /\ s \in Nat
    OBVIOUS
  <2>3. rail[p].asks \in Nat /\ rail[p].asks <= MaxAsks /\ rail[p].approved \in Nat
    BY <1>1, RailFields
  <2>4. rail'[p] \in RailState
    BY <2>1, <2>2, <2>3, RailMade
  <2> QED BY <1>1, <1>4, <2>1, <2>4 DEF Ends
<1>5. \A s \in Amount : s \in Nat
  BY CardAmountAssumption
<1>6. UNCHANGED asked \/ \E p \in Payment, h \in 0..MaxAsks, a \in Amount : Ask(p, h, a)
  BY DEF Next, vars, activateMandate, ProvisionStep, CreateCard, createInstrument, NameInstrument,
       Provisioned, Unattributed, Replay, BeginDecide, CommitDecide, ReplayWinner, FailDecide,
       BeginUpdate, CommitUpdate, TransactionEvent, Close, Unwind, Ends, Revoke, Tick
<1>7. asked' \subseteq Request
  BY <1>1, <1>3, <1>6
<1>8. rail' \in [Payment -> RailState]
  <2>1. ASSUME NEW p \in Payment, NEW s \in Amount, Close(p, s) PROVE rail' \in [Payment -> RailState]
    BY <1>4, <1>5, <2>1 DEF Close
  <2>2. ASSUME NEW p \in Payment, Unwind(p) PROVE rail' \in [Payment -> RailState]
    BY <1>4, <2>2 DEF Unwind
  <2> QED BY <1>1, <1>2, <1>3, <2>1, <2>2, RailStep
<1> QED BY <1>7, <1>8

LEMMA TypedInit == Init => Typed
<1> SUFFICES ASSUME Init PROVE Typed
  OBVIOUS
<1>1. 0 \in Time /\ 0 \in Nat /\ 0 <= MaxAsks
  BY CardBoundsAssumption DEF Time
<1>2. clock \in Time /\ asked \subseteq Request
  BY <1>1 DEF Init
<1>3. row \in [Id -> CardRow] /\ call \in [Caller -> Call]
  BY DEF Init, CardRow, Call
<1>4. moved \in [Transaction -> [ref : Payment \cup {NoRef}, amount : Nat]]
  BY DEF Init
<1>5. [state |-> "open", asks |-> 0, approved |-> 0, settled |-> 0, waiting |-> NotWaiting] \in RailState
  BY <1>1, RailMade
<1>6. rail \in [Payment -> RailState]
  BY <1>5 DEF Init
<1> QED BY <1>2, <1>3, <1>4, <1>6 DEF Typed

LEMMA TypedNext == Typed /\ [Next]_vars => Typed'
<1> SUFFICES ASSUME Typed, [Next]_vars PROVE Typed'
  OBVIOUS
<1>1. clock' \in Time
  <2>1. UNCHANGED clock \/ (clock < MaxTime /\ clock' = clock + 1)
    BY ZenonT(60)
       DEF Next, vars, activateMandate, ProvisionStep, CreateCard, createInstrument, NameInstrument,
       Provisioned, Unattributed, Replay, BeginDecide, CommitDecide, ReplayWinner, FailDecide,
       BeginUpdate, CommitUpdate, TransactionEvent, Ask, Close, Unwind, Ends, Revoke, Tick
  <2> QED BY <2>1, CardBoundsAssumption DEF Typed, Time
<1>2. moved' \in [Transaction -> [ref : Payment \cup {NoRef}, amount : Nat]]
  <2>1. UNCHANGED moved \/ \E t \in Transaction, p \in Payment \cup {NoRef}, a \in Amount :
          moved' = [moved EXCEPT ![t] = [ref |-> p, amount |-> a]]
    BY ZenonT(60)
       DEF Next, vars, activateMandate, ProvisionStep, CreateCard, createInstrument, NameInstrument,
       Provisioned, Unattributed, Replay, BeginDecide, CommitDecide, ReplayWinner, FailDecide,
       BeginUpdate, CommitUpdate, TransactionEvent, Ask, Close, Unwind, Ends, Revoke, Tick
  <2> QED BY <2>1, CardAmountAssumption DEF Typed
<1> QED BY <1>1, <1>2, TypedCall, TypedRow, TypedRail DEF Typed

\* The clock, the requests that were sent, the card's authorizations, what each delivery
\* remembers, the transactions and what the network knows of each payment have the types
\* the handlers of the card rail give them, whatever the network sends.
THEOREM TypeOK == Spec => []Typed
<1>1. Init => Typed
  BY TypedInit
<1>2. Typed /\ [Next]_vars => Typed'
  BY TypedNext
<1> QED BY <1>1, <1>2, PTL DEF Spec
----------------------------------------------------------------------------
(* What is written stays written.                                           *)

\* A decision writes one row that was not there.
LEMMA DecideWrites ==
  ASSUME Typed, NEW c \in Caller, CommitDecide(c)
  PROVE  \E i \in Id, v \in Policy.verdicts :
           /\ NextId(i) /\ i \notin Used /\ row[i] = NoRow
           /\ Reply(call[c].request, DecisionFor(call[c], v))
           /\ row'[i] = Decided(call[c], DecisionFor(call[c], v))
           /\ \A j \in Id : j # i => row'[j] = row[j]
<1>1. PICK i \in Id, v \in Policy.verdicts :
        /\ NextId(i) /\ row' = [row EXCEPT ![i] = Decided(call[c], DecisionFor(call[c], v))]
        /\ Reply(call[c].request, DecisionFor(call[c], v))
  BY DEF CommitDecide
<1>2. i \notin Used /\ row[i] = NoRow
  BY <1>1, NoRowsOfNobody DEF NextId, Used
<1>3. /\ row'[i] = Decided(call[c], DecisionFor(call[c], v))
      /\ \A j \in Id : j # i => row'[j] = row[j]
  <2> DEFINE x == Decided(call[c], DecisionFor(call[c], v))
  <2>1. row' = [row EXCEPT ![i] = x] /\ row \in [Id -> CardRow]
    BY <1>1 DEF Typed
  <2> HIDE DEF x
  <2>2. row'[i] = x /\ \A j \in Id : j # i => row'[j] = row[j]
    BY <2>1
  <2> QED BY <2>2 DEF x
<1> QED BY <1>1, <1>2, <1>3

\* What a step does to a row that was there.
Stays(i) ==
  /\ row'[i].ref = row[i].ref /\ row'[i].revision = row[i].revision
  /\ row'[i].decision = row[i].decision /\ row'[i].amount = row[i].amount
  /\ row'[i].at = row[i].at /\ row'[i].reserved = row[i].reserved
  /\ row'[i].captured >= row[i].captured /\ row'[i].status # "NONE"
  /\ \/ row'[i].released = row[i].released
     \/ row[i].ref \in Payment /\ row'[i].released = row[i].reserved

LEMMA RowsStay ==
  ASSUME Typed, [Next]_vars, NEW i \in Id, row[i].status # "NONE"
  PROVE  Stays(i)
<1>1. row[i] \in CardRow /\ row[i].captured \in Nat /\ i \in Used
  BY RowFields DEF Typed, Used
<1>2. CASE row'[i] = row[i]
  BY <1>1, <1>2 DEF Stays
<1>3. ASSUME NEW c \in Caller, CommitDecide(c) PROVE row'[i] = row[i]
  BY <1>1, <1>3, DecideWrites
<1>4. ASSUME NEW p \in Payment \cup {NoRef}, NEW s \in Nat, row'[i] = Settled(p, s)[i]
      PROVE  Stays(i)
  <2>1. CASE i \in RowsOf(p)
    <3>1. row[i].ref \in Payment
      BY <2>1, NoRowsOfNobody DEF RowsOf
    <3> QED BY <1>1, <1>4, <2>1, <3>1, SettledFields DEF Stays
  <2>2. CASE i \notin RowsOf(p)
    BY <1>2, <1>4, <2>2, SettledFields
  <2> QED BY <2>1, <2>2
<1>5. ASSUME NEW p \in Payment, row'[i] = Released(p)[i] PROVE Stays(i)
  <2>1. CASE i \in RowsOf(p)
    BY <1>1, <1>5, <2>1, ReleasedFields DEF Stays, RowsOf
  <2>2. CASE i \notin RowsOf(p)
    BY <1>2, <1>5, <2>2, ReleasedFields
  <2> QED BY <2>1, <2>2
<1>6. ASSUME NEW c \in Caller, CommitUpdate(c) PROVE Stays(i)
  <2> DEFINE p == call[c].payment
  <2>1. p \in Payment /\ rail[p].settled \in Nat
    BY <1>6, CallFields, RailFields DEF CommitUpdate, Typed
  <2>2. row' \in {row, Released(p), Settled(p, rail[p].settled)}
    BY <1>6 DEF CommitUpdate
  <2> HIDE DEF p
  <2> QED BY <1>2, <1>4, <1>5, <2>1, <2>2
<1>7. ASSUME NEW t \in Transaction, NEW p \in Payment \cup {NoRef}, NEW a \in Amount,
             TransactionEvent(t, p, a)
      PROVE  Stays(i)
  <2> DEFINE s == Settleable(p, a)
             settled == IF s > 0 THEN Settled(p, s) ELSE row
  <2>1. s \in Nat
    BY SettleableIs
  <2>2. /\ settled \in [Id -> CardRow]
        /\ row' = settled \/ \E k \in Id : NextId(k) /\ row' = [settled EXCEPT ![k] = Unauthorized(t, a - s)]
    BY <1>7, TransactionRows
  <2>3. row'[i] = settled[i]
    BY <1>1, <2>2 DEF NextId
  <2>4. row'[i] = row[i] \/ row'[i] = Settled(p, s)[i]
    BY <2>3
  <2> QED BY <1>2, <1>4, <2>1, <2>4
<1> QED BY <1>2, <1>3, <1>6, <1>7, RowStep

----------------------------------------------------------------------------
(* The money that moved.                                                    *)

CapturedRow(p, i) == IF row[i].ref \in {p} \cup MovedFor(p) THEN row[i].captured ELSE 0

LEMMA CapturedRowNat ==
  ASSUME Typed, NEW p
  PROVE  /\ \A i \in Id : CapturedRow(p, i) \in Nat
         /\ [i \in Id |-> CapturedRow(p, i)] \in [1..MaxRows -> Int]
         /\ CapturedFor(p) = Total([i \in Id |-> CapturedRow(p, i)], MaxRows)
         /\ CapturedFor(p) \in Int
<1>1. \A i \in Id : CapturedRow(p, i) \in Nat
  BY OutstandingInt DEF CapturedRow
<1>2. [i \in Id |-> CapturedRow(p, i)] \in [1..MaxRows -> Int]
  BY <1>1 DEF Id
<1>3. CapturedFor(p) = Total([i \in Id |-> CapturedRow(p, i)], MaxRows)
  BY DEF CapturedFor, CapturedRow
<1> QED BY <1>1, <1>2, <1>3, TotalInt, CardBoundsAssumption

LEMMA AmountMovedInt ==
  ASSUME Typed, NEW p
  PROVE  /\ [t \in Transaction |-> IF t \in MovedFor(p) THEN moved[t].amount ELSE 0]
              \in [1..MaxTransactions -> Int]
         /\ AmountMoved(p) \in Int
<1>1. [t \in Transaction |-> IF t \in MovedFor(p) THEN moved[t].amount ELSE 0]
        \in [1..MaxTransactions -> Int]
  BY DEF Typed, Transaction
<1> QED BY <1>1, TotalInt, CardBoundsAssumption DEF AmountMoved

\* What is in the ledger of a payment's money never becomes less.
LEMMA CapturedGrows ==
  ASSUME Typed, Typed', [Next]_vars, NEW p, MovedFor(p) \subseteq MovedFor(p)'
  PROVE  CapturedFor(p) <= CapturedFor(p)'
<1> DEFINE f == [i \in Id |-> CapturedRow(p, i)]
           g == [i \in Id |-> CapturedRow(p, i)']
<1>1. f \in [1..MaxRows -> Int] /\ CapturedFor(p) = Total(f, MaxRows) /\ CapturedFor(p) \in Int
  BY CapturedRowNat
<1>2. \A i \in Id : CapturedRow(p, i) \in Nat /\ CapturedRow(p, i)' \in Nat
  <2>1. \A i \in Id : row'[i] \in CardRow
    BY DEF Typed
  <2>2. \A i \in Id : row'[i].captured \in Nat
    BY <2>1, RowFields
  <2> QED BY <2>2, CapturedRowNat DEF CapturedRow
<1>3. g \in [1..MaxRows -> Int] /\ CapturedFor(p)' = Total(g, MaxRows) /\ CapturedFor(p)' \in Int
  <2>1. g \in [1..MaxRows -> Int]
    BY <1>2 DEF Id
  <2>2. CapturedFor(p)' = Total(g, MaxRows)
    BY DEF CapturedFor, CapturedRow
  <2> HIDE DEF g
  <2> QED BY <2>1, <2>2, TotalInt, CardBoundsAssumption
<1>4. ASSUME NEW i \in Id PROVE CapturedRow(p, i) <= CapturedRow(p, i)'
  <2>1. CASE row[i].status = "NONE"
    <3>1. CapturedRow(p, i) = 0
      BY <2>1, NoRowsOfNobody DEF CapturedRow, NoRow
    <3> QED BY <1>2, <3>1
  <2>2. CASE row[i].status # "NONE"
    <3>1. row'[i].ref = row[i].ref /\ row'[i].captured >= row[i].captured
      BY <2>2, RowsStay DEF Stays
    <3> QED BY <1>2, <3>1 DEF CapturedRow
  <2> QED BY <2>1, <2>2
<1>5. \A i \in 1..MaxRows : f[i] <= g[i]
  BY <1>4 DEF Id
<1> HIDE DEF f, g
<1> QED BY <1>1, <1>3, <1>5, TotalMonotone, CardBoundsAssumption
\* A transaction counts as moved for the payment it names, and for no other.
LEMMA MovedOnce ==
  ASSUME Typed, NEW t \in Transaction, NEW p \in Payment \cup {NoRef}, NEW a \in Amount,
         TransactionEvent(t, p, a)
  PROVE  /\ MovedFor(p)' = MovedFor(p) \cup {t} /\ t \notin MovedFor(p)
         /\ AmountMoved(p)' = AmountMoved(p) + a
         /\ \A x : x # p => MovedFor(x)' = MovedFor(x) /\ AmountMoved(x)' = AmountMoved(x)
<1>1. /\ moved' = [moved EXCEPT ![t] = [ref |-> p, amount |-> a]] /\ moved[t].amount = 0
      /\ moved \in [Transaction -> [ref : Payment \cup {NoRef}, amount : Nat]]
      /\ a \in Nat /\ a > 0
  BY SettleableIs DEF TransactionEvent, Typed
<1>2. /\ moved'[t].ref = p /\ moved'[t].amount = a
      /\ \A u \in Transaction : u # t => moved'[u] = moved[u]
  BY <1>1
<1>3. MovedFor(p)' = MovedFor(p) \cup {t} /\ t \notin MovedFor(p)
  BY <1>1, <1>2 DEF MovedFor
<1>4. \A x : x # p => MovedFor(x)' = MovedFor(x) /\ t \notin MovedFor(x)
  BY <1>1, <1>2 DEF MovedFor
<1>5. ASSUME NEW x, x # p PROVE AmountMoved(x)' = AmountMoved(x)
  <2>1. [u \in Transaction |-> IF u \in MovedFor(x)' THEN moved'[u].amount ELSE 0]
          = [u \in Transaction |-> IF u \in MovedFor(x) THEN moved[u].amount ELSE 0]
    BY <1>2, <1>4, <1>5
  <2> QED BY <2>1 DEF AmountMoved
<1>6. AmountMoved(p)' = AmountMoved(p) + a
  <2> DEFINE f == [u \in Transaction |-> IF u \in MovedFor(p) THEN moved[u].amount ELSE 0]
             g == [u \in Transaction |-> IF u \in MovedFor(p)' THEN moved'[u].amount ELSE 0]
  <2>1. f \in [1..MaxTransactions -> Int] /\ AmountMoved(p) \in Int
    BY AmountMovedInt
  <2>2. f[t] = 0 /\ g[t] = a
    BY <1>2, <1>3
  <2>3. \A u \in Transaction : u # t => g[u] = f[u]
    BY <1>2, <1>3
  <2>4. g \in [1..MaxTransactions -> Int]
    <3>1. \A u \in Transaction : g[u] \in Int
      <4>1. \A u \in Transaction : f[u] \in Int
        BY <2>1 DEF Transaction
      <4> QED BY <1>1, <2>2, <2>3, <4>1
    <3> QED BY <3>1 DEF Transaction
  <2>5. AmountMoved(p) = Total(f, MaxTransactions) /\ AmountMoved(p)' = Total(g, MaxTransactions)
    BY DEF AmountMoved
  <2> HIDE DEF f, g
  <2>6. Total(g, MaxTransactions) = Total(f, MaxTransactions) + g[t] - f[t]
    BY <2>1, <2>3, <2>4, TotalChangeOne, CardBoundsAssumption DEF Transaction
  <2> QED BY <1>1, <2>1, <2>2, <2>5, <2>6
<1> QED BY <1>3, <1>4, <1>5, <1>6

\* What is settled of a payment is captured on one of its rows.
LEMMA SettledIsCaptured ==
  ASSUME Typed, NEW p, RowsOf(p) # {}, NEW s \in Nat, NEW g \in [1..MaxRows -> Int],
         \A i \in Id : g[i] = IF row[i].ref \in {p} \cup MovedFor(p) THEN Settled(p, s)[i].captured ELSE 0
  PROVE  Total(g, MaxRows) = CapturedFor(p) + s
<1> DEFINE f == [i \in Id |-> CapturedRow(p, i)]
           k == Latest(p)
<1>1. k \in RowsOf(p) /\ k \in Id /\ row[k].ref = p
  BY LatestIs DEF RowsOf, Used
<1>2. f \in [1..MaxRows -> Int] /\ CapturedFor(p) = Total(f, MaxRows)
  BY CapturedRowNat
<1>3. /\ \A i \in Id : f[i] = CapturedRow(p, i)
      /\ \A i \in Id : row[i].captured \in Nat
  BY OutstandingInt
<1>4. g[k] = f[k] + s
  BY <1>1, <1>3, SettledFields DEF CapturedRow
<1>5. ASSUME NEW i \in Id, i # k PROVE g[i] = f[i]
  <2>1. Settled(p, s)[i].captured = row[i].captured
    BY <1>3, <1>5, SettledFields
  <2> QED BY <1>3, <2>1 DEF CapturedRow
<1> HIDE DEF f, k
<1>6. Total(g, MaxRows) = Total(f, MaxRows) + g[k] - f[k]
  <2>1. k \in 1..MaxRows /\ MaxRows \in Nat /\ \A i \in 1..MaxRows : i # k => g[i] = f[i]
    BY <1>1, <1>5, CardBoundsAssumption DEF Id
  <2>2. f \in [1..MaxRows -> Int] /\ g \in [1..MaxRows -> Int]
    BY <1>2
  <2> QED BY ONLY <2>1, <2>2, TotalChangeOne
<1>7. Total(f, MaxRows) \in Int /\ f[k] \in Int
  BY <1>1, <1>2, TotalInt, CardBoundsAssumption DEF Id
<1> QED BY <1>2, <1>4, <1>6, <1>7

\* The whole of what a transaction moved is in the ledger in the step that applies it.
LEMMA MovedIsBooked ==
  ASSUME Typed, Typed', NEW t \in Transaction, NEW p \in Payment \cup {NoRef}, NEW a \in Amount,
         TransactionEvent(t, p, a)
  PROVE  CapturedFor(p)' >= CapturedFor(p) + a
<1> DEFINE s == Settleable(p, a)
           settled == IF s > 0 THEN Settled(p, s) ELSE row
           f == [i \in Id |-> CapturedRow(p, i)]
           g == [i \in Id |-> IF row[i].ref \in {p} \cup MovedFor(p) THEN settled[i].captured ELSE 0]
           h == [i \in Id |-> CapturedRow(p, i)']
<1>1. s \in Nat /\ a \in Nat /\ a - s \in Nat /\ (s > 0 => RowsOf(p) # {})
  BY SettleableIs
<1>2. MovedFor(p)' = MovedFor(p) \cup {t}
  BY MovedOnce
<1>3. /\ settled \in [Id -> CardRow]
      /\ \/ s = a /\ row' = settled
         \/ /\ s # a
            /\ \E i \in Id : NextId(i) /\ row' = [settled EXCEPT ![i] = Unauthorized(t, a - s)]
  BY TransactionRows
<1>4. \A i \in Id : settled[i].ref = row[i].ref /\ settled[i].captured \in Nat
  <2>1. \A i \in Id : settled[i].captured \in Nat
    BY <1>3, RowFields
  <2>2. \A i \in Id : s > 0 => settled[i].ref = row[i].ref
    BY <1>1, SettledFields
  <2>3. \A i \in Id : ~(s > 0) => settled[i].ref = row[i].ref
    OBVIOUS
  <2> HIDE DEF s, settled
  <2> QED BY <2>1, <2>2, <2>3
<1>5. f \in [1..MaxRows -> Int] /\ CapturedFor(p) = Total(f, MaxRows) /\ CapturedFor(p) \in Int
  BY CapturedRowNat
<1>6. h \in [1..MaxRows -> Int] /\ CapturedFor(p)' = Total(h, MaxRows) /\ CapturedFor(p)' \in Int
  <2>1. \A i \in Id : row'[i].captured \in Nat
    BY RowFields DEF Typed
  <2>2. h \in [1..MaxRows -> Int]
    BY <2>1 DEF CapturedRow, Id
  <2>3. CapturedFor(p)' = Total(h, MaxRows)
    BY DEF CapturedFor, CapturedRow
  <2> HIDE DEF h
  <2> QED BY <2>2, <2>3, TotalInt, CardBoundsAssumption
<1>7. g \in [1..MaxRows -> Int]
  <2> HIDE DEF settled
  <2> QED BY <1>4 DEF Id
<1>8. Total(g, MaxRows) = CapturedFor(p) + s /\ Total(g, MaxRows) \in Int
  <2>1. CASE s > 0
    <3>1. \A i \in Id : g[i] = IF row[i].ref \in {p} \cup MovedFor(p) THEN Settled(p, s)[i].captured ELSE 0
      BY <2>1
    <3> HIDE DEF g, s
    <3>2. Total(g, MaxRows) = CapturedFor(p) + s
      BY <1>1, <1>7, <2>1, <3>1, SettledIsCaptured
    <3> QED BY <1>1, <1>5, <3>2
  <2>2. CASE s = 0
    <3>1. g = f
      BY <2>2 DEF CapturedRow
    <3> HIDE DEF f, g
    <3> QED BY <1>5, <2>2, <3>1
  <2> QED BY <1>1, <2>1, <2>2
<1>9. CASE row' = settled /\ s = a
  <2>1. \A i \in 1..MaxRows : g[i] <= h[i]
    <3>1. ASSUME NEW i \in Id PROVE g[i] <= h[i]
      <4>1. row'[i].ref = row[i].ref /\ row'[i].captured = settled[i].captured /\ row'[i].captured \in Nat
        BY <1>4, <1>9
      <4> HIDE DEF settled
      <4> QED BY <1>2, <4>1 DEF CapturedRow
    <3> QED BY <3>1 DEF Id
  <2> HIDE DEF g, h, s, settled
  <2> QED BY <1>1, <1>5, <1>6, <1>7, <1>8, <1>9, <2>1, TotalMonotone, CardBoundsAssumption
<1>10. ASSUME NEW k \in Id, NextId(k), row' = [settled EXCEPT ![k] = Unauthorized(t, a - s)]
       PROVE  CapturedFor(p)' >= CapturedFor(p) + a
  <2> DEFINE b == [g EXCEPT ![k] = a - s]
  <2>1. k \in Id /\ row[k] = NoRow
    BY <1>10, NoRowsOfNobody DEF NextId, Used
  <2>2. /\ row'[k].ref = t /\ row'[k].captured = a - s
        /\ \A i \in Id : i # k => row'[i] = settled[i]
    <3> DEFINE x == Unauthorized(t, a - s)
    <3>1. x.ref = t /\ x.captured = a - s
      BY DEF Unauthorized
    <3>2. row' = [settled EXCEPT ![k] = x]
      BY <1>10
    <3> HIDE DEF settled, x
    <3> QED BY <1>3, <2>1, <3>1, <3>2
  <2>3. g[k] = 0
    <3>1. row[k].captured = 0 /\ settled[k].captured = 0
      <4>1. k \notin RowsOf(p)
        BY <1>10 DEF NextId, RowsOf
      <4>2. row[k].captured = 0
        BY <2>1 DEF NoRow
      <4>3. s > 0 => settled[k] = row[k]
        BY <1>1, <2>1, <4>1, SettledFields
      <4>4. ~(s > 0) => settled[k] = row[k]
        OBVIOUS
      <4> HIDE DEF settled, s
      <4> QED BY <4>2, <4>3, <4>4
    <3> HIDE DEF settled
    <3> QED BY <2>1, <3>1
  <2>4. b \in [1..MaxRows -> Int] /\ b[k] = a - s /\ \A i \in Id : i # k => b[i] = g[i]
    <3> HIDE DEF g, s
    <3> QED BY <1>1, <1>7, <2>1 DEF Id
  <2>5. \A i \in 1..MaxRows : b[i] <= h[i]
    <3>1. CapturedRow(p, k)' = a - s
      BY <1>2, <2>2 DEF CapturedRow
    <3>2. ASSUME NEW i \in Id, i # k PROVE g[i] <= CapturedRow(p, i)'
      <4>1. row'[i].ref = row[i].ref /\ row'[i].captured = settled[i].captured /\ row'[i].captured \in Nat
        BY <1>4, <2>2, <3>2
      <4> HIDE DEF settled
      <4> QED BY <1>2, <3>2, <4>1 DEF CapturedRow
    <3>3. \A i \in Id : h[i] = CapturedRow(p, i)'
      OBVIOUS
    <3> HIDE DEF g, h, b, s
    <3>4. ASSUME NEW i \in Id PROVE b[i] <= h[i]
      <4>1. CASE i = k
        BY <1>1, <2>4, <3>1, <3>3, <4>1
      <4>2. CASE i # k
        BY <2>4, <3>2, <3>3, <4>2
      <4> QED BY <4>1, <4>2
    <3> QED BY <3>4 DEF Id
  <2>6. Total(b, MaxRows) = Total(g, MaxRows) + b[k] - g[k]
    <3> HIDE DEF b, g
    <3> QED BY <1>7, <2>1, <2>4, TotalChangeOne, CardBoundsAssumption DEF Id
  <2>7. Total(b, MaxRows) <= Total(h, MaxRows)
    <3> HIDE DEF b, h
    <3> QED BY <1>6, <2>4, <2>5, TotalMonotone, CardBoundsAssumption
  <2> HIDE DEF b, g, h, s
  <2> QED BY <1>1, <1>5, <1>6, <1>8, <2>3, <2>4, <2>6, <2>7
<1> HIDE DEF settled, s
<1> QED BY <1>3, <1>9, <1>10

LEMMA MovedInit == Init => MovedIsCaptured
<1> SUFFICES ASSUME Init, NEW p \in Payment \cup {NoRef} PROVE AmountMoved(p) <= CapturedFor(p)
  BY DEF MovedIsCaptured
<1>1. Typed
  BY TypedInit
<1>2. AmountMoved(p) = 0
  <2> DEFINE f == [t \in Transaction |-> IF t \in MovedFor(p) THEN moved[t].amount ELSE 0]
  <2>1. \A t \in Transaction : f[t] = 0
    BY DEF Init, MovedFor
  <2>2. f \in [1..MaxTransactions -> Int] /\ AmountMoved(p) = Total(f, MaxTransactions)
    BY <1>1, AmountMovedInt DEF AmountMoved
  <2> HIDE DEF f
  <2> QED BY <2>1, <2>2, TotalZero, CardBoundsAssumption DEF Transaction
<1>3. CapturedFor(p) >= 0
  <2> DEFINE f == [i \in Id |-> CapturedRow(p, i)]
  <2>1. /\ f \in [1..MaxRows -> Int] /\ CapturedFor(p) = Total(f, MaxRows)
        /\ \A i \in Id : f[i] \in Nat
    BY <1>1, CapturedRowNat
  <2> HIDE DEF f
  <2> QED BY <2>1, TotalNonNegative, CardBoundsAssumption DEF Id
<1> QED BY <1>2, <1>3

LEMMA MovedNext == Typed /\ Typed' /\ MovedIsCaptured /\ [Next]_vars => MovedIsCaptured'
<1> SUFFICES ASSUME Typed, Typed', MovedIsCaptured, [Next]_vars, NEW p \in Payment \cup {NoRef}
             PROVE  AmountMoved(p)' <= CapturedFor(p)'
  BY DEF MovedIsCaptured
<1>1. AmountMoved(p) <= CapturedFor(p) /\ AmountMoved(p) \in Int /\ CapturedFor(p) \in Int
  BY AmountMovedInt, CapturedRowNat DEF MovedIsCaptured
<1>2. CapturedFor(p)' \in Int
  <2>1. \A i \in Id : row'[i].captured \in Nat
    BY RowFields DEF Typed
  <2> DEFINE h == [i \in Id |-> CapturedRow(p, i)']
  <2>2. h \in [1..MaxRows -> Int] /\ CapturedFor(p)' = Total(h, MaxRows)
    BY <2>1 DEF CapturedFor, CapturedRow, Id
  <2> HIDE DEF h
  <2> QED BY <2>2, TotalInt, CardBoundsAssumption
<1>3. ASSUME NEW t \in Transaction, NEW q \in Payment \cup {NoRef}, NEW a \in Amount,
             TransactionEvent(t, q, a)
      PROVE  AmountMoved(p)' <= CapturedFor(p)'
  <2>1. CASE p = q
    <3>1. AmountMoved(p)' = AmountMoved(p) + a /\ CapturedFor(p)' >= CapturedFor(p) + a /\ a \in Nat
      BY <1>3, <2>1, MovedOnce, MovedIsBooked, SettleableIs
    <3> QED BY <1>1, <1>2, <3>1
  <2>2. CASE p # q
    <3>1. AmountMoved(p)' = AmountMoved(p) /\ MovedFor(p)' = MovedFor(p)
      BY <1>3, <2>2, MovedOnce
    <3>2. CapturedFor(p) <= CapturedFor(p)'
      BY <3>1, CapturedGrows
    <3> QED BY <1>1, <1>2, <3>1, <3>2
  <2> QED BY <2>1, <2>2
<1>4. CASE UNCHANGED moved
  <2>1. MovedFor(p)' = MovedFor(p) /\ AmountMoved(p)' = AmountMoved(p)
    BY <1>4 DEF MovedFor, AmountMoved
  <2>2. CapturedFor(p) <= CapturedFor(p)'
    BY <2>1, CapturedGrows
  <2> QED BY <1>1, <1>2, <2>1, <2>2
<1>5. UNCHANGED moved \/ \E t \in Transaction, q \in Payment \cup {NoRef}, a \in Amount :
        TransactionEvent(t, q, a)
  BY DEF Next, vars, activateMandate, ProvisionStep, CreateCard, createInstrument, NameInstrument,
     Provisioned, Unattributed, Replay, BeginDecide, CommitDecide, ReplayWinner, FailDecide,
     BeginUpdate, CommitUpdate, Ask, Close, Unwind, Ends, Revoke, Tick
<1> QED BY <1>3, <1>4, <1>5

\* D-84: whatever the network does, and whatever failed, the ledger has captured at
\* least what the transactions of a payment moved, and of no payment (settleExternal-
\* Authorization and recordUnauthorizedSettlement take each transaction whole).
THEOREM MoneyIsBooked == Spec => []MovedIsCaptured
<1>1. Init => MovedIsCaptured
  BY MovedInit
<1>2. Typed /\ Typed' /\ MovedIsCaptured /\ [Next]_vars => MovedIsCaptured'
  BY MovedNext
<1> QED BY <1>1, <1>2, TypeOK, PTL DEF Spec
----------------------------------------------------------------------------
(* The requests of an orderly network.                                      *)

LEMMA AskedInit == Init => AskedInOrder /\ DeliveriesFit
<1> SUFFICES ASSUME Init PROVE AskedInOrder /\ DeliveriesFit
  OBVIOUS
<1>1. asked = {} /\ \A p \in Payment : rail[p].waiting = NotWaiting /\ rail[p].state = "open"
  BY DEF Init
<1>2. \A c \in Caller : call[c].op = "idle"
  BY DEF Init, Idle
<1>3. Used = {}
  BY DEF Init, Used, NoRow
<1>4. AskedInOrder
  BY <1>1 DEF AskedInOrder
<1>5. DeliveriesFit
  BY <1>2, <1>3 DEF DeliveriesFit
<1> QED BY <1>4, <1>5

LEMMA AskedNext == OrderlyRail /\ Typed /\ AskedInOrder /\ [Next]_vars => AskedInOrder'
<1> SUFFICES ASSUME OrderlyRail, Typed, AskedInOrder, [Next]_vars PROVE AskedInOrder'
  OBVIOUS
<1>1. rail \in [Payment -> RailState] /\ asked \subseteq Request
  BY DEF Typed
<1>2. CASE UNCHANGED <<rail, asked>>
  BY <1>2 DEF AskedInOrder
<1>3. ASSUME NEW q \in Request, NEW decision, Reply(q, decision), UNCHANGED asked PROVE AskedInOrder'
  <2>1. /\ \A x \in Payment :
             /\ rail'[x].state = rail[x].state /\ rail'[x].asks = rail[x].asks
             /\ rail'[x].settled = rail[x].settled
             /\ rail'[x] = rail[x] \/ rail'[x].waiting = NotWaiting
    BY <1>3, Replied
  <2>2. \A r \in asked : r.payment \in Payment
    BY <1>1 DEF Request
  <2> QED BY <1>3, <2>1, <2>2 DEF AskedInOrder
<1>4. ASSUME NEW p \in Payment, NEW h \in 0..MaxAsks, NEW a \in Amount, Ask(p, h, a) PROVE AskedInOrder'
  <2> DEFINE q == [payment |-> p, history |-> h, amount |-> a, named |-> card = "named"]
             w == [waits |-> TRUE, request |-> q]
  <2>1. /\ rail[p].state = "open" /\ a > rail[p].approved /\ h = rail[p].asks
        /\ asked' = asked \cup {q}
    BY <1>4 DEF Ask, GoesOn, OrderlyRail
  <2>2. q.payment = p /\ q.history = h /\ q.amount = a /\ w.request = q
    OBVIOUS
  <2>3. rail[p].asks \in Nat /\ \A r \in asked : r.payment \in Payment
    BY <1>1, RailFields DEF Request
  <2> HIDE DEF w, q
  <2>4. /\ rail'[p].state = "open" /\ rail'[p].asks = rail[p].asks + 1
        /\ rail'[p].approved = rail[p].approved /\ rail'[p].waiting = w
        /\ \A x \in Payment : x # p => rail'[x] = rail[x]
    <3>1. /\ rail'[p] = [state |-> rail[p].state, asks |-> rail[p].asks + 1,
                         approved |-> rail[p].approved, settled |-> rail[p].settled,
                         waiting |-> w]
          /\ \A x \in Payment : x # p => rail'[x] = rail[x]
      <4>1. rail' = [rail EXCEPT ![p].asks = @ + 1, ![p].waiting = w]
        BY <1>4 DEF Ask, w, q
      <4> QED BY <1>1, <4>1, RailAsked
    <3> QED BY <2>1, <3>1
  <2>5. \A x \in Payment : rail[x].asks \in Nat /\ (x = p \/ x # p)
    BY <1>1, RailFields
  <2>6. \A r \in asked' : r.history < rail'[r.payment].asks
    <3>1. \A r \in asked : r.history < rail[r.payment].asks /\ r.history \in Nat
      BY <1>1, CardBoundsAssumption DEF AskedInOrder, Request
    <3>2. ASSUME NEW r \in asked PROVE r.history < rail'[r.payment].asks
      <4>1. r.payment \in Payment /\ r.history < rail[r.payment].asks /\ r.history \in Nat
        BY <2>3, <3>1
      <4>2. CASE r.payment = p
        BY <2>3, <2>4, <4>1, <4>2
      <4>3. CASE r.payment # p
        BY <2>4, <4>1, <4>3
      <4> QED BY <4>2, <4>3
    <3> QED BY <2>1, <2>2, <2>3, <2>4, <3>2
  <2>7. \A r, s \in asked' : r.payment = s.payment /\ r.history = s.history => r = s
    <3>1. \A r \in asked : r.history < rail[r.payment].asks
      BY DEF AskedInOrder
    <3>2. \A r \in asked : r.payment = p => r.history # h
      BY <2>1, <2>3, <3>1
    <3> QED BY <2>1, <2>2, <3>2 DEF AskedInOrder
  <2>8. ASSUME NEW x \in Payment, rail'[x].waiting # NotWaiting
        PROVE  LET r == rail'[x].waiting.request IN
               /\ rail'[x].state = "open" /\ r \in asked' /\ r.payment = x
               /\ r.history + 1 = rail'[x].asks /\ r.amount > rail'[x].approved
    <3>1. CASE x = p
      <4>1. rail'[x].waiting = w /\ w.request = q /\ q \in asked'
        BY <2>1, <2>2, <2>4, <3>1
      <4> QED BY <2>1, <2>2, <2>4, <3>1, <4>1
    <3>2. CASE x # p
      BY <2>1, <2>4, <2>8, <3>2 DEF AskedInOrder
    <3> QED BY <3>1, <3>2
  <2>9. \A x \in Payment : rail'[x].state = "closed" => rail'[x].settled > 0
    BY <2>4 DEF AskedInOrder
  <2> QED BY <2>6, <2>7, <2>8, <2>9 DEF AskedInOrder
<1>5. ASSUME NEW p \in Payment, NEW state \in {"closed", "unwound"}, NEW s \in Nat, Ends(p, state, s),
             state = "closed" => s > 0
      PROVE  AskedInOrder'
  <2>1. /\ rail'[p] = [state |-> state, asks |-> rail[p].asks, approved |-> rail[p].approved,
                       settled |-> s, waiting |-> NotWaiting]
        /\ \A x \in Payment : x # p => rail'[x] = rail[x]
    BY <1>1, <1>5, RailEnded
  <2>2. \A r \in asked : r.payment \in Payment
    BY <1>1 DEF Request
  <2>3. asked' = asked
    BY <1>5 DEF Ends
  <2>4. /\ rail'[p].asks = rail[p].asks /\ rail'[p].waiting = NotWaiting
        /\ rail'[p].state = state /\ rail'[p].settled = s
    BY <2>1
  <2>5. \A x \in Payment : rail'[x].asks = rail[x].asks
    BY <2>1, <2>4
  <2>6. \A x \in Payment : rail'[x].waiting # NotWaiting => rail'[x] = rail[x]
    BY <2>1, <2>4
  <2>7. \A x \in Payment : rail'[x].state = "closed" => rail'[x].settled > 0
    BY <1>5, <2>1, <2>4 DEF AskedInOrder
  <2> QED BY <2>2, <2>3, <2>5, <2>6, <2>7 DEF AskedInOrder
<1>6. ASSUME NEW p \in Payment, NEW s \in Amount, Close(p, s) PROVE AskedInOrder'
  <2>1. s \in Nat /\ s > 0
    BY CardAmountAssumption
  <2> QED BY <1>5, <1>6, <2>1 DEF Close
<1>7. ASSUME NEW p \in Payment, Unwind(p) PROVE AskedInOrder'
  BY <1>5, <1>7 DEF Unwind
<1> QED BY <1>2, <1>3, <1>4, <1>6, <1>7, RailStep
\* What was asked, applied or failed is never forgotten.
LEMMA Grows ==
  ASSUME Typed, [Next]_vars
  PROVE  asked \subseteq asked' /\ clock <= clock' /\ seen \subseteq seen' /\ failed \subseteq failed'
<1>1. seen \subseteq seen' /\ failed \subseteq failed' /\ asked \subseteq asked'
  BY ZenonT(60)
     DEF Next, vars, activateMandate, ProvisionStep, CreateCard, createInstrument, NameInstrument,
     Provisioned, Unattributed, Replay, BeginDecide, CommitDecide, ReplayWinner, FailDecide,
     BeginUpdate, CommitUpdate, TransactionEvent, Ask, Close, Unwind, Ends, Revoke, Tick
<1>2. clock <= clock'
  <2>1. UNCHANGED clock \/ clock' = clock + 1
    BY DEF Next, vars, activateMandate, ProvisionStep, CreateCard, createInstrument, NameInstrument,
       Provisioned, Unattributed, Replay, BeginDecide, CommitDecide, ReplayWinner, FailDecide,
       BeginUpdate, CommitUpdate, TransactionEvent, Ask, Close, Unwind, Ends, Revoke, Tick
  <2>2. clock \in Int
    BY CardBoundsAssumption DEF Typed, Time
  <2> QED BY <2>1, <2>2
<1> QED BY <1>1, <1>2

\* A payment that is over stays over, whoever answers or asks.
LEMMA StaysOver ==
  ASSUME Typed, [Next]_vars, NEW p \in Payment
  PROVE  rail[p].state # "open" => rail'[p].state = rail[p].state
<1>1. rail \in [Payment -> RailState]
  BY DEF Typed
<1>2. rail[p].state # "open" => rail'[p].state = rail[p].state
  <2>1. CASE UNCHANGED <<rail, asked>>
    BY <2>1
  <2>2. ASSUME NEW q \in Request, NEW decision, Reply(q, decision)
        PROVE  rail'[p].state = rail[p].state
    BY <2>2, Replied
  <2>3. ASSUME NEW x \in Payment, rail[x].state = "open", \A y \in Payment : y # x => rail'[y] = rail[y]
        PROVE  rail[p].state # "open" => rail'[p].state = rail[p].state
    BY <2>3
  <2>4. ASSUME NEW x \in Payment, NEW h \in 0..MaxAsks, NEW a \in Amount, Ask(x, h, a)
        PROVE  rail[x].state = "open" /\ \A y \in Payment : y # x => rail'[y] = rail[y]
    <3>1. PICK w : rail' = [rail EXCEPT ![x].asks = @ + 1, ![x].waiting = w]
      BY <2>4 DEF Ask
    <3>2. \A y \in Payment : y # x => rail'[y] = rail[y]
      BY <1>1, <3>1, RailAsked
    <3> QED BY <2>4, <3>2 DEF Ask, GoesOn
  <2>5. ASSUME NEW x \in Payment, NEW to, NEW s, GoesOn(x), Ends(x, to, s)
        PROVE  rail[x].state = "open" /\ \A y \in Payment : y # x => rail'[y] = rail[y]
    BY <1>1, <2>5, RailEnded DEF GoesOn
  <2>6. ASSUME NEW x \in Payment, NEW s \in Amount, Close(x, s)
        PROVE  rail[x].state = "open" /\ \A y \in Payment : y # x => rail'[y] = rail[y]
    BY <2>5, <2>6 DEF Close
  <2>7. ASSUME NEW x \in Payment, Unwind(x)
        PROVE  rail[x].state = "open" /\ \A y \in Payment : y # x => rail'[y] = rail[y]
    BY <2>5, <2>7 DEF Unwind
  <2> QED BY <2>1, <2>2, <2>3, <2>4, <2>6, <2>7, RailStep
<1> QED BY <1>2

\* Where a row comes from that was not there: a decision, or money that moved unasked.
LEMMA NewRow ==
  ASSUME Typed, [Next]_vars, NEW i \in Id, row[i].status = "NONE", row'[i].status # "NONE"
  PROVE  \/ \E c \in Caller, v \in Policy.verdicts :
              /\ CommitDecide(c) /\ call[c].op = "decide"
              /\ row'[i] = Decided(call[c], DecisionFor(call[c], v))
         \/ \E t \in Transaction, p \in Payment \cup {NoRef}, a \in Amount :
              /\ TransactionEvent(t, p, a) /\ row'[i] = Unauthorized(t, a - Settleable(p, a))
<1>1. CASE UNCHANGED row
  BY <1>1
<1>2. ASSUME NEW c \in Caller, CommitDecide(c)
      PROVE  \E v \in Policy.verdicts :
               /\ CommitDecide(c) /\ call[c].op = "decide"
               /\ row'[i] = Decided(call[c], DecisionFor(call[c], v))
  <2>1. PICK k \in Id, v \in Policy.verdicts :
          /\ row'[k] = Decided(call[c], DecisionFor(call[c], v))
          /\ \A j \in Id : j # k => row'[j] = row[j]
    BY <1>2, DecideWrites
  <2>2. call[c].op = "decide"
    BY <1>2 DEF CommitDecide
  <2>3. i = k
    BY <2>1
  <2> QED BY <1>2, <2>1, <2>2, <2>3
<1>3. ASSUME NEW c \in Caller, CommitUpdate(c) PROVE FALSE
  <2> DEFINE p == call[c].payment
  <2>1. rail[p].settled \in Nat
    BY <1>3, CallFields, RailFields DEF CommitUpdate, Typed
  <2>2. row' \in {row, Released(p), Settled(p, rail[p].settled)}
    BY <1>3 DEF CommitUpdate
  <2> HIDE DEF p
  <2> QED BY <2>1, <2>2, SettledFields, ReleasedFields
<1>4. ASSUME NEW t \in Transaction, NEW p \in Payment \cup {NoRef}, NEW a \in Amount,
             TransactionEvent(t, p, a)
      PROVE  row'[i] = Unauthorized(t, a - Settleable(p, a))
  <2> DEFINE s == Settleable(p, a)
             settled == IF s > 0 THEN Settled(p, s) ELSE row
             x == Unauthorized(t, a - s)
  <2>1. s \in Nat
    BY SettleableIs
  <2>2. /\ settled \in [Id -> CardRow]
        /\ row' = settled \/ \E k \in Id : row' = [settled EXCEPT ![k] = x]
    BY <1>4, TransactionRows
  <2>3. settled[i].status = "NONE"
    <3>1. s > 0 => Settled(p, s)[i].status = "NONE"
      BY <2>1, SettledFields
    <3> QED BY <3>1
  <2> HIDE DEF settled, x
  <2>4. row'[i] = x
    BY <2>2, <2>3
  <2> QED BY <2>4 DEF x
<1> QED BY <1>1, <1>2, <1>3, <1>4, RowStep

LEMMA DeliveriesNext ==
  Typed /\ DeliveriesFit /\ [Next]_vars => DeliveriesFit'
<1> SUFFICES ASSUME Typed, DeliveriesFit, [Next]_vars PROVE DeliveriesFit'
  OBVIOUS
<1>1. asked \subseteq asked' /\ clock <= clock'
  BY Grows
<1>2. clock \in Int /\ clock' \in Int /\ \A c \in Caller : call[c].op = "decide" => call[c].now \in Int
  <2>1. clock' \in Time
    BY TypedNext DEF Typed
  <2>2. \A n \in Time : n \in Int
    BY CardBoundsAssumption DEF Time
  <2> QED BY <2>1, <2>2, CallFields DEF Typed
<1>3. ASSUME NEW c \in Caller, call'[c].op = "decide"
      PROVE  call'[c].request \in asked' /\ call'[c].request.named /\ call'[c].now <= clock'
  <2>1. CASE call'[c] = call[c]
    BY <1>1, <1>2, <1>3, <2>1 DEF DeliveriesFit
  <2>2. ASSUME NEW q \in Request, BeginDecide(c, q)
        PROVE  call'[c].request \in asked' /\ call'[c].request.named /\ call'[c].now <= clock'
    <3>1. q \in asked /\ q.named /\ call'[c].request = q /\ call'[c].now = clock
      BY <2>2 DEF BeginDecide, Becomes, Typed
    <3> QED BY <1>1, <1>2, <3>1
  <2>3. \/ call'[c] = call[c] \/ call'[c] = Idle
        \/ \E q \in Request : BeginDecide(c, q)
        \/ \E p \in Payment, n \in Notice : BeginUpdate(c, p, n)
    BY CallStep DEF Typed, Becomes, BeginDecide, BeginUpdate
  <2>4. ASSUME NEW p \in Payment, NEW n \in Notice, BeginUpdate(c, p, n) PROVE call'[c].op = "update"
    BY <2>4 DEF BeginUpdate, Becomes, Typed
  <2> QED BY <1>3, <2>1, <2>2, <2>3, <2>4 DEF Idle
<1>4. ASSUME NEW c \in Caller, call'[c].op = "update"
      PROVE  rail'[call'[c].payment].state # "open"
  <2>1. CASE call'[c] = call[c]
    <3>1. call[c].payment \in Payment /\ rail[call[c].payment].state # "open"
      BY <1>4, <2>1, CallFields DEF DeliveriesFit
    <3> QED BY <2>1, <3>1, StaysOver
  <2>2. ASSUME NEW p \in Payment, NEW n \in Notice, BeginUpdate(c, p, n)
        PROVE  rail'[call'[c].payment].state # "open"
    <3>1. rail[p].state # "open" /\ rail' = rail /\ call'[c].payment = p
      BY <2>2 DEF BeginUpdate, Becomes, Typed
    <3> QED BY <3>1
  <2>3. \/ call'[c] = call[c] \/ call'[c] = Idle
        \/ \E q \in Request : BeginDecide(c, q)
        \/ \E p \in Payment, n \in Notice : BeginUpdate(c, p, n)
    BY CallStep DEF Typed, Becomes, BeginDecide, BeginUpdate
  <2>4. ASSUME NEW q \in Request, BeginDecide(c, q) PROVE call'[c].op = "decide"
    BY <2>4 DEF BeginDecide, Becomes, Typed
  <2> QED BY <1>4, <2>1, <2>2, <2>3, <2>4 DEF Idle
<1>5. ASSUME NEW i \in Id, row'[i].status # "NONE" PROVE row'[i].at <= clock'
  <2>1. CASE row[i].status # "NONE"
    <3>1. row'[i].at = row[i].at
      BY <2>1, RowsStay DEF Stays
    <3>2. row[i].at <= clock /\ row[i].at \in Int
      BY <2>1, RowFields DEF DeliveriesFit, Used, Typed
    <3> QED BY <1>1, <1>2, <3>1, <3>2
  <2>2. CASE row[i].status = "NONE"
    <3>1. ASSUME NEW c \in Caller, NEW v, call[c].op = "decide",
                 row'[i] = Decided(call[c], DecisionFor(call[c], v))
          PROVE  row'[i].at <= clock'
      <4>1. row'[i].at = call[c].now
        BY <3>1 DEF Decided
      <4>2. call[c].now <= clock
        BY <3>1 DEF DeliveriesFit
      <4> QED BY <1>1, <1>2, <3>1, <4>1, <4>2
    <3>2. ASSUME NEW t, NEW a, row'[i] = Unauthorized(t, a) PROVE row'[i].at <= clock'
      BY <1>1, <1>2, <3>2 DEF Unauthorized
    <3> QED BY <1>5, <2>2, <3>1, <3>2, NewRow
  <2> QED BY <2>1, <2>2
<1> QED BY <1>3, <1>4, <1>5 DEF DeliveriesFit, Used
----------------------------------------------------------------------------
(* What a step does to one payment.                                         *)

\* A payment's rows are those that name it.
LEMMA OwnRows ==
  ASSUME Typed, Typed', NEW p \in Payment
  PROVE  \A i \in Id : (i \in RowsOf(p) <=> row[i].ref = p) /\ (i \in RowsOf(p)' <=> row'[i].ref = p)
<1>1. p # NoRef /\ NoRow.ref = NoRef
  BY CardNamesAssumption DEF NoRow
<1>2. \A i \in Id : (row[i].status = "NONE" => row[i] = NoRow) /\ (row'[i].status = "NONE" => row'[i] = NoRow)
  BY RowFields DEF Typed
<1> QED BY <1>1, <1>2 DEF RowsOf, Used

\* The payment has the rows it had, and no other; they may have been settled.
SameRows(p) == RowsOf(p)' = RowsOf(p) /\ \A i \in RowsOf(p) : Stays(i)
\* Its rows are what they were.
Untouched(p) == RowsOf(p)' = RowsOf(p) /\ \A i \in RowsOf(p) : row'[i] = row[i]
\* All its rows are released at once.
AllReleased(p) ==
  /\ SameRows(p) /\ \A i \in RowsOf(p) : row'[i].released = row[i].reserved
  /\ Latest(p)' = Latest(p)
\* It has one row more.
OneMore(p, i, x) ==
  /\ i \in Id /\ i \notin Used /\ RowsOf(p)' = RowsOf(p) \cup {i} /\ row'[i] = x
  /\ \A j \in Id : j # i => row'[j] = row[j]
\* What deliveries are being handled for it began earlier.
Kept(p) ==
  \A c \in Caller :
    \/ call'[c].op = "decide" /\ call'[c].request.payment = p
    \/ call'[c].op = "update" /\ call'[c].payment = p
    => call'[c] = call[c]

LEMMA UntouchedIsSame ==
  ASSUME Typed, NEW p, Untouched(p)
  PROVE  SameRows(p) /\ Latest(p)' = Latest(p)
<1>1. ASSUME NEW i \in RowsOf(p) PROVE Stays(i)
  <2>1. row[i].captured \in Nat /\ row[i].status # "NONE"
    BY OutstandingInt DEF RowsOf, Used
  <2> QED BY <1>1, <2>1 DEF Stays, Untouched
<1>2. Latest(p)' = Latest(p)
  BY DEF Untouched, Latest
<1> QED BY <1>1, <1>2 DEF SameRows, Untouched

LEMMA HoldUntouched ==
  ASSUME Typed, Typed', NEW p \in Payment, Untouched(p)
  PROVE  HoldOf(p)' = HoldOf(p)
<1>1. [i \in Id |-> IF row'[i].ref = p THEN Outstanding(row'[i]) ELSE 0]
        = [i \in Id |-> IF row[i].ref = p THEN Outstanding(row[i]) ELSE 0]
  <2>1. ASSUME NEW i \in Id
        PROVE  (IF row'[i].ref = p THEN Outstanding(row'[i]) ELSE 0)
                 = (IF row[i].ref = p THEN Outstanding(row[i]) ELSE 0)
    BY OwnRows DEF Untouched
  <2> QED BY <2>1
<1> QED BY <1>1 DEF HoldOf

\* Nothing outstanding, nothing held.
LEMMA NothingHeld ==
  ASSUME Typed, NEW p \in Payment, NothingOut(p)
  PROVE  HoldOf(p) = 0
<1> DEFINE f == [i \in Id |-> IF row[i].ref = p THEN Outstanding(row[i]) ELSE 0]
<1>1. \A i \in Id : row[i].ref = p => i \in RowsOf(p)
  BY NoRowsOfNobody, CardNamesAssumption DEF RowsOf, Used, NoRow
<1>2. \A i \in Id : f[i] = 0
  BY <1>1 DEF NothingOut
<1>3. f \in [1..MaxRows -> Int] /\ HoldOf(p) = Total(f, MaxRows)
  BY <1>2 DEF HoldOf, Id
<1> HIDE DEF f
<1> QED BY <1>2, <1>3, TotalZero, CardBoundsAssumption DEF Id

\* What is held is never negative.
LEMMA HoldNonNegative ==
  ASSUME Typed, NEW p \in Payment, HoldsWhole(p)
  PROVE  /\ HoldOf(p) >= 0
         /\ \A i \in RowsOf(p) : Outstanding(row[i]) >= 0
<1> DEFINE f == [i \in Id |-> IF row[i].ref = p THEN Outstanding(row[i]) ELSE 0]
<1>1. \A i \in Id : row[i].ref = p => i \in RowsOf(p)
  BY NoRowsOfNobody, CardNamesAssumption DEF RowsOf, Used, NoRow
<1>2. ASSUME NEW i \in RowsOf(p) PROVE Outstanding(row[i]) >= 0
  <2>1. /\ row[i].reserved \in Int /\ row[i].released \in {0, row[i].reserved}
        /\ row[i].decision = "ALLOW" => row[i].reserved > 0
        /\ row[i].decision # "ALLOW" => row[i].reserved = 0
    BY <1>2, RowFields DEF Typed, HoldsWhole, RowsOf, Used
  <2> QED BY <2>1 DEF Outstanding
<1>3. \A i \in Id : f[i] >= 0 /\ f[i] \in Int
  BY <1>1, <1>2, OutstandingInt
<1>4. f \in [1..MaxRows -> Int] /\ HoldOf(p) = Total(f, MaxRows)
  BY <1>3 DEF HoldOf, Id
<1> HIDE DEF f
<1>5. HoldOf(p) >= 0
  BY <1>3, <1>4, TotalNonNegative, CardBoundsAssumption DEF Id
<1> QED BY <1>2, <1>5

LEMMA HoldOneMore ==
  ASSUME Typed, Typed', NEW p \in Payment, NEW i, NEW x, OneMore(p, i, x)
  PROVE  HoldOf(p)' = HoldOf(p) + Outstanding(x)
<1> DEFINE f == [j \in Id |-> IF row[j].ref = p THEN Outstanding(row[j]) ELSE 0]
           g == [j \in Id |-> IF row'[j].ref = p THEN Outstanding(row'[j]) ELSE 0]
<1>1. i \in Id /\ row'[i] = x /\ row[i].ref # p /\ row'[i].ref = p
  <2>1. i \in Id /\ i \notin RowsOf(p) /\ i \in RowsOf(p)' /\ row'[i] = x
    BY DEF OneMore, RowsOf
  <2> QED BY <2>1, OwnRows
<1>2. \A j \in Id : j # i => row'[j] = row[j]
  BY DEF OneMore
<1>3. f \in [1..MaxRows -> Int] /\ HoldOf(p) = Total(f, MaxRows)
  BY OutstandingInt DEF HoldOf, Id
<1>4. g \in [1..MaxRows -> Int] /\ HoldOf(p)' = Total(g, MaxRows)
  <2>1. \A j \in Id : Outstanding(row'[j]) \in Int
    BY RowFields DEF Typed, Outstanding
  <2> QED BY <2>1 DEF HoldOf, Id
<1>5. f[i] = 0 /\ g[i] = Outstanding(x) /\ g[i] \in Int /\ \A j \in Id : j # i => g[j] = f[j]
  <2>1. Outstanding(row'[i]) \in Int
    BY <1>1, RowFields DEF Typed, Outstanding
  <2> QED BY <1>1, <1>2, <2>1
<1> HIDE DEF f, g
<1>6. Total(g, MaxRows) = Total(f, MaxRows) + g[i] - f[i]
  BY <1>1, <1>3, <1>4, <1>5, TotalChangeOne, CardBoundsAssumption DEF Id
<1>7. Total(f, MaxRows) \in Int
  BY <1>3, TotalInt, CardBoundsAssumption
<1> QED BY <1>3, <1>4, <1>5, <1>6, <1>7
\* A step that writes rows of another payment leaves a payment's rows as they were.
LEMMA WritesElsewhere ==
  ASSUME Typed, Typed', NEW p \in Payment,
         \/ \E c \in Caller : CommitDecide(c) /\ call[c].request.payment # p
         \/ \E c \in Caller : CommitUpdate(c) /\ call[c].payment # p
         \/ \E t \in Transaction, q \in Payment \cup {NoRef}, a \in Amount :
              TransactionEvent(t, q, a) /\ q # p
  PROVE  Untouched(p)
<1>1. ASSUME \A i \in Id : row'[i] = row[i] \/ (row[i].ref # p /\ row'[i].ref # p)
      PROVE  Untouched(p)
  <2>1. \A i \in Id : row'[i].ref = p <=> row[i].ref = p
    BY <1>1
  <2>2. RowsOf(p) \subseteq Id /\ RowsOf(p)' \subseteq Id
    BY DEF RowsOf, Used
  <2>3. RowsOf(p)' = RowsOf(p)
    <3>1. \A i \in Id : (i \in RowsOf(p) <=> row[i].ref = p) /\ (i \in RowsOf(p)' <=> row'[i].ref = p)
      BY OwnRows
    <3>2. \A i \in Id : i \in RowsOf(p)' <=> i \in RowsOf(p)
      BY <2>1, <3>1
    <3> QED BY <2>2, <3>2
  <2>4. \A i \in RowsOf(p) : row'[i] = row[i]
    BY <1>1, <2>2, OwnRows
  <2> QED BY <2>3, <2>4 DEF Untouched
<1>2. ASSUME NEW c \in Caller, CommitDecide(c), call[c].request.payment # p PROVE Untouched(p)
  <2>1. PICK i \in Id, v \in Policy.verdicts :
          /\ row[i] = NoRow /\ row'[i] = Decided(call[c], DecisionFor(call[c], v))
          /\ \A j \in Id : j # i => row'[j] = row[j]
    BY <1>2, DecideWrites
  <2>2. row[i].ref # p /\ row'[i].ref # p
    BY <1>2, <2>1, CardNamesAssumption DEF NoRow, Decided
  <2> QED BY <1>1, <2>1, <2>2
<1>3. ASSUME NEW q \in Payment \cup {NoRef}, q # p, NEW f, NEW s \in Nat, NEW i \in Id,
             f = row \/ f = Released(q) \/ f = Settled(q, s)
      PROVE  f[i] = row[i] \/ (row[i].ref # p /\ f[i].ref # p)
  <2>1. i \in RowsOf(q) => row[i].ref # p
    BY <1>3 DEF RowsOf
  <2> QED BY <1>3, <2>1, SettledFields, ReleasedFields
<1>4. ASSUME NEW c \in Caller, CommitUpdate(c), call[c].payment # p PROVE Untouched(p)
  <2> DEFINE q == call[c].payment
  <2>1. q \in Payment /\ rail[q].settled \in Nat
    BY <1>4, CallFields, RailFields DEF CommitUpdate, Typed
  <2>2. row' = row \/ row' = Released(q) \/ row' = Settled(q, rail[q].settled)
    BY <1>4 DEF CommitUpdate
  <2>3. q # p
    BY <1>4
  <2> HIDE DEF q
  <2> QED BY <1>1, <1>3, <2>1, <2>2, <2>3
<1>5. ASSUME NEW t \in Transaction, NEW q \in Payment \cup {NoRef}, NEW a \in Amount,
             TransactionEvent(t, q, a), q # p
      PROVE  Untouched(p)
  <2> DEFINE s == Settleable(q, a)
             settled == IF s > 0 THEN Settled(q, s) ELSE row
             x == Unauthorized(t, a - s)
  <2>1. s \in Nat /\ x.ref = t /\ t # p
    BY SettleableIs, CardNamesAssumption DEF Unauthorized
  <2>2. /\ settled \in [Id -> CardRow]
        /\ row' = settled \/ \E k \in Id : NextId(k) /\ row' = [settled EXCEPT ![k] = x]
    BY <1>5, TransactionRows
  <2>3. settled = row \/ settled = Settled(q, s)
    OBVIOUS
  <2>4. \A i \in Id : row[i].status = "NONE" => row[i].ref # p
    BY NoRowsOfNobody, CardNamesAssumption DEF NoRow
  <2>5. \A i \in Id : NextId(i) => row[i].status = "NONE"
    BY DEF NextId, Used
  <2> HIDE DEF settled, x, s
  <2>6. \A i \in Id : settled[i] = row[i] \/ (row[i].ref # p /\ settled[i].ref # p)
    BY <1>3, <1>5, <2>1, <2>3
  <2>7. \A i \in Id : row'[i] = settled[i] \/ (NextId(i) /\ row'[i] = x)
    BY <2>2
  <2>8. \A i \in Id : row'[i] = row[i] \/ (row[i].ref # p /\ row'[i].ref # p)
    BY <2>1, <2>4, <2>5, <2>6, <2>7
  <2> QED BY <1>1, <2>8
<1> QED BY <1>2, <1>4, <1>5

\* Rows released or settled are all the rows there were, and release everything.
LEMMA AllRowsReleased ==
  ASSUME Typed, Typed', [Next]_vars, NEW p \in Payment,
         \A i \in Id : row'[i].ref = p => row[i].ref = p,
         \A i \in RowsOf(p) : row'[i].released = row[i].reserved
  PROVE  AllReleased(p) /\ NothingOut(p)'
<1>1. RowsOf(p) \subseteq Id /\ RowsOf(p)' \subseteq Id /\ \A i \in RowsOf(p) : row[i].status # "NONE"
  BY DEF RowsOf, Used
<1>2. \A i \in RowsOf(p) : Stays(i)
  BY <1>1, RowsStay
<1>3. RowsOf(p)' = RowsOf(p)
  <2>1. \A i \in RowsOf(p) : row'[i].ref = p
    BY <1>2 DEF Stays, RowsOf
  <2>2. \A i \in Id : (i \in RowsOf(p) <=> row[i].ref = p) /\ (i \in RowsOf(p)' <=> row'[i].ref = p)
    BY OwnRows
  <2> QED BY <1>1, <2>1, <2>2
<1>4. Latest(p)' = Latest(p)
  <2>1. \A i \in RowsOf(p) : row'[i].revision = row[i].revision
    BY <1>2 DEF Stays
  <2> QED BY <1>3, <2>1 DEF Latest
<1>5. \A i \in RowsOf(p) : Outstanding(row'[i]) = 0
  <2>1. \A i \in RowsOf(p) : row'[i].reserved = row[i].reserved /\ row[i].reserved \in Int
    BY <1>1, <1>2, RowFields DEF Stays, Typed
  <2> QED BY <2>1 DEF Outstanding
<1> QED BY <1>2, <1>3, <1>4, <1>5 DEF AllReleased, SameRows, NothingOut

\* What settles a payment, and what it takes from it.
LEMMA TransactionSettles ==
  ASSUME Typed, Typed', [Next]_vars, NEW t \in Transaction, NEW p \in Payment, NEW a \in Amount,
         TransactionEvent(t, p, a)
  PROVE  \/ Untouched(p)
         \/ /\ AllReleased(p) /\ NothingOut(p)' /\ RowsOf(p) # {}
            /\ row'[Latest(p)].captured > 0
<1> DEFINE s == Settleable(p, a)
           settled == IF s > 0 THEN Settled(p, s) ELSE row
           x == Unauthorized(t, a - s)
<1>1. s \in Nat /\ x.ref = t /\ t # p /\ (s > 0 => RowsOf(p) # {}) /\ p \in Payment \cup {NoRef}
  BY SettleableIs, CardNamesAssumption DEF Unauthorized
<1>2. /\ settled \in [Id -> CardRow]
      /\ row' = settled \/ \E k \in Id : NextId(k) /\ row' = [settled EXCEPT ![k] = x]
  BY TransactionRows, <1>1
<1>3. \A i \in Id : row'[i] = settled[i] \/ (i \notin Used /\ row'[i] = x)
  <2> HIDE DEF settled, x
  <2> QED BY <1>2 DEF NextId
<1>4. RowsOf(p) \subseteq Used /\ RowsOf(p) \subseteq Id /\ RowsOf(p)' \subseteq Id
  BY DEF RowsOf, Used
<1>5. CASE s = 0
  <2>1. settled = row
    BY <1>5
  <2>2. \A i \in RowsOf(p) : row'[i] = row[i]
    BY <1>3, <1>4, <2>1
  <2>3. \A i \in Id : row'[i].ref = p <=> row[i].ref = p
    <3> HIDE DEF settled, x
    <3>1. \A i \in Id : i \notin Used => row[i].ref # p
      BY OwnRows DEF RowsOf
    <3> QED BY <1>1, <1>3, <2>1, <3>1
  <2>4. RowsOf(p)' = RowsOf(p)
    BY <1>4, <2>3, OwnRows
  <2> QED BY <2>2, <2>4 DEF Untouched
<1>6. CASE s > 0
  <2>1. settled = Settled(p, s) /\ RowsOf(p) # {}
    BY <1>1, <1>6
  <2> HIDE DEF settled, x, s
  <2>2. \A i \in RowsOf(p) : row'[i] = Settled(p, s)[i]
    BY <1>3, <1>4, <2>1
  <2>3. \A i \in RowsOf(p) : row'[i].released = row[i].reserved
    BY <1>1, <1>4, <2>2, SettledFields
  <2>4. \A i \in Id : row'[i].ref = p => row[i].ref = p
    BY <1>1, <1>3, <2>1, SettledFields
  <2>5. Latest(p) \in RowsOf(p)
    BY <2>1, LatestIs
  <2>6. row'[Latest(p)].captured = row[Latest(p)].captured + s /\ row[Latest(p)].captured \in Nat
    BY <1>1, <1>4, <2>2, <2>5, SettledFields, OutstandingInt
  <2> QED BY <1>1, <1>6, <2>1, <2>3, <2>4, <2>6, AllRowsReleased
<1> QED BY <1>1, <1>5, <1>6

LEMMA UpdateSettles ==
  ASSUME Typed, Typed', [Next]_vars, NEW c \in Caller, CommitUpdate(c), NEW p, p = call[c].payment
  PROVE  \/ /\ UNCHANGED row
            /\ <<p, call[c].notice>> \in seen \/ call[c].executed
         \/ /\ AllReleased(p) /\ NothingOut(p)'
            /\ \/ rail[p].state = "unwound"
               \/ /\ rail[p].state # "unwound"
                  /\ RowsOf(p) # {} => row'[Latest(p)].captured >= rail[p].settled
<1>1. p \in Payment /\ rail[p].settled \in Nat
  BY CallFields, RailFields DEF CommitUpdate, Typed
<1>2. \/ UNCHANGED row /\ (<<p, call[c].notice>> \in seen \/ call[c].executed)
      \/ row' = Released(p) /\ rail[p].state = "unwound"
      \/ row' = Settled(p, rail[p].settled) /\ rail[p].state # "unwound"
  BY DEF CommitUpdate
<1>3. RowsOf(p) \subseteq Id
  BY DEF RowsOf, Used
<1>4. CASE row' = Released(p) /\ rail[p].state = "unwound"
  <2>1. /\ \A i \in RowsOf(p) : row'[i].released = row[i].reserved
        /\ \A i \in Id : row'[i].ref = row[i].ref
    BY <1>3, <1>4, ReleasedFields, SMTT(30)
  <2> QED BY <1>1, <1>4, <2>1, AllRowsReleased
<1>5. CASE row' = Settled(p, rail[p].settled) /\ rail[p].state # "unwound"
  <2>1. /\ \A i \in RowsOf(p) : row'[i].released = row[i].reserved
        /\ \A i \in Id : row'[i].ref = row[i].ref
    BY <1>1, <1>3, <1>5, SettledFields
  <2>2. RowsOf(p) # {} => row'[Latest(p)].captured >= rail[p].settled
    <3>1. ASSUME RowsOf(p) # {} PROVE row'[Latest(p)].captured >= rail[p].settled
      <4>1. Latest(p) \in RowsOf(p) /\ Latest(p) \in Id /\ row[Latest(p)].captured \in Nat
        BY <1>3, <3>1, LatestIs, OutstandingInt
      <4>2. row'[Latest(p)].captured = row[Latest(p)].captured + rail[p].settled
        BY <1>1, <1>5, <4>1, SettledFields
      <4> QED BY <1>1, <4>1, <4>2
    <3> QED BY <3>1
  <2> QED BY <1>1, <1>5, <2>1, <2>2, AllRowsReleased
<1> QED BY <1>2, <1>4, <1>5
----------------------------------------------------------------------------
(* What leaves a payment in order.                                          *)

LEMMA RecordedSame ==
  ASSUME Typed, NEW p \in Payment, SameRows(p), NEW q, q.payment = p
  PROVE  Recorded(q)' = Recorded(q)
BY DEF Recorded, SameRows, Stays

LEMMA DecidesFrame ==
  ASSUME Typed, NEW p \in Payment, Decides(p), SameRows(p), Of(p)' = Of(p),
         \A q \in Of(p) : Waits(q)' <=> Waits(q)
  PROVE  Decides(p)'
<1>1. \A q \in Of(p) : Recorded(q)' = Recorded(q)
  BY RecordedSame DEF Of
<1>2. /\ RowsOf(p)' = RowsOf(p)
      /\ \A i \in RowsOf(p) : /\ row'[i].revision = row[i].revision /\ row'[i].amount = row[i].amount
                              /\ row'[i].at = row[i].at
  BY DEF SameRows, Stays
<1> QED BY <1>1, <1>2 DEF Decides

\* What every delivery has read, put together.
LEMMA ReadsMade ==
  ASSUME NEW p,
         \A c \in Caller : \A d : d = call'[c] /\ d.op = "decide" /\ d.request.payment = p =>
           StillHolds(p, d)'
  PROVE  ReadsHold(p)'
BY DEF ReadsHold, StillHolds, Recorded

LEMMA ReadsFrame ==
  ASSUME Typed, Typed', NEW p \in Payment, ReadsHold(p), Untouched(p), Kept(p),
         rail'[p].approved = rail[p].approved, MovedFor(p) \subseteq MovedFor(p)'
  PROVE  ReadsHold(p)'
<1>1. SameRows(p) /\ HoldOf(p)' = HoldOf(p)
  BY UntouchedIsSame, HoldUntouched
<1>2. ASSUME NEW d, d.request.payment = p, StillHolds(p, d)
      PROVE  StillHolds(p, d)'
  <2>1. Recorded(d.request)' = Recorded(d.request)
    BY <1>1, <1>2, RecordedSame
  <2> QED BY <1>1, <1>2, <2>1 DEF StillHolds, Untouched
<1>3. ASSUME NEW c \in Caller, NEW d, d = call'[c], d.op = "decide", d.request.payment = p
      PROVE  StillHolds(p, d)'
  BY <1>2, <1>3 DEF ReadsHold, Kept
<1> QED BY <1>3, ReadsMade

LEMMA HoldsWholeFrame ==
  ASSUME Typed, NEW p \in Payment, HoldsWhole(p), Untouched(p)
  PROVE  HoldsWhole(p)'
BY DEF HoldsWhole, Untouched

LEMMA HoldsApprovedFrame ==
  ASSUME Typed, Typed', NEW p \in Payment, HoldsApproved(p), Untouched(p), Kept(p),
         rail'[p].approved = rail[p].approved, MovedFor(p) \subseteq MovedFor(p)',
         Closed(p)' <=> Closed(p), rail'[p].state = "open" => rail[p].state = "open"
  PROVE  HoldsApproved(p)'
<1>1. HoldOf(p)' = HoldOf(p) /\ Latest(p)' = Latest(p)
  BY UntouchedIsSame, HoldUntouched
<1>2. NothingOut(p)' <=> NothingOut(p)
  BY DEF NothingOut, Untouched
<1>3. RowsOf(p)' = RowsOf(p)
  BY DEF Untouched
<1>4. RowsOf(p) # {} => row'[Latest(p)] = row[Latest(p)]
  BY LatestIs DEF Untouched
<1>5. ASSUME NEW c \in Caller, call'[c].op = "update", call'[c].payment = p, call'[c].executed
      PROVE  NothingOut(p)'
  BY <1>2, <1>5 DEF Kept, HoldsApproved
<1> QED BY <1>1, <1>2, <1>3, <1>4, <1>5 DEF HoldsApproved

LEMMA ReleasedFrame ==
  ASSUME Typed, NEW p \in Payment, ReleasedIsCaptured(p), Untouched(p),
         rail'[p].state = "open" => rail[p].state = "open",
         rail[p].state = "unwound" => rail'[p].state = "unwound"
  PROVE  ReleasedIsCaptured(p)'
<1>1. RowsOf(p)' = RowsOf(p) /\ Latest(p)' = Latest(p) /\ \A i \in RowsOf(p) : row'[i] = row[i]
  BY UntouchedIsSame DEF Untouched
<1>2. NothingOut(p)' <=> NothingOut(p)
  BY <1>1 DEF NothingOut
<1>3. RowsOf(p) # {} => Latest(p) \in RowsOf(p)
  BY LatestIs
<1>4. \A j \in RowsOf(p)' : row'[j].released > 0 /\ rail'[p].state = "open" =>
       \E k \in RowsOf(p)' : row'[k].captured > 0 /\ row'[j].at <= row'[k].at
  BY <1>1 DEF ReleasedIsCaptured
<1>5. \A i, j \in RowsOf(p)' : Outstanding(row'[i]) > 0 /\ row'[j].released > 0 =>
       \E k \in RowsOf(p)' :
         row'[k].captured > 0 /\ row'[j].at <= row'[k].at /\ row'[k].at <= row'[i].at
  BY <1>1 DEF ReleasedIsCaptured
<1>6. RowsOf(p)' # {} /\ row'[Latest(p)'].decision = "ALLOW" /\ row'[Latest(p)'].released > 0 =>
       row'[Latest(p)'].captured > 0 \/ (rail'[p].state = "unwound" /\ NothingOut(p)')
  BY <1>1, <1>2, <1>3 DEF ReleasedIsCaptured
<1> QED BY <1>4, <1>5, <1>6 DEF ReleasedIsCaptured

\* A step that tells the payment nothing it is told apart by.
Undisturbed(p) ==
  /\ Untouched(p) /\ Kept(p) /\ Of(p)' = Of(p) /\ \A q \in Of(p) : Waits(q)' <=> Waits(q)
  /\ rail'[p].approved = rail[p].approved /\ MovedFor(p) \subseteq MovedFor(p)'
  /\ Closed(p)' <=> Closed(p)
  /\ rail'[p].state = "open" => rail[p].state = "open"
  /\ rail[p].state = "unwound" => rail'[p].state = "unwound"

LEMMA OrderlyFrame ==
  ASSUME Typed, Typed', NEW p \in Payment, Orderly(p), Undisturbed(p)
  PROVE  Orderly(p)'
<1>1. Decides(p)'
  BY UntouchedIsSame, DecidesFrame DEF Orderly, Undisturbed
<1>2. ReadsHold(p)'
  BY ReadsFrame DEF Orderly, Undisturbed
<1>3. HoldsWhole(p)'
  BY HoldsWholeFrame DEF Orderly, Undisturbed
<1>4. HoldsApproved(p)'
  BY HoldsApprovedFrame DEF Orderly, Undisturbed
<1>5. ReleasedIsCaptured(p)'
  BY ReleasedFrame DEF Orderly, Undisturbed
<1> QED BY <1>1, <1>2, <1>3, <1>4, <1>5 DEF Orderly
----------------------------------------------------------------------------
(* A payment's decisions.                                                   *)

LEMMA RequestFields ==
  ASSUME NEW q \in Request
  PROVE  q.payment \in Payment /\ q.amount \in Nat /\ q.history \in Nat /\ q.history <= MaxAsks
<1>1. q.payment \in Payment /\ q.amount \in Amount /\ q.history \in 0..MaxAsks
  BY DEF Request
<1>2. q.amount \in Nat
  BY <1>1, CardAmountAssumption
<1>3. q.history \in Nat /\ q.history <= MaxAsks
  BY <1>1, CardBoundsAssumption
<1> QED BY <1>1, <1>2, <1>3

\* A request without a decision is the one the network waits for, and the last.
LEMMA Undecided ==
  ASSUME Inv, NEW p \in Payment \ failed, NEW q \in Of(p), Recorded(q) = {}
  PROVE  /\ Waits(q) /\ rail[p].state = "open" /\ q.amount > rail[p].approved
         /\ q \in Request /\ q.payment = p
         /\ \A i \in RowsOf(p) : row[i].revision < q.history
         /\ \A r \in Of(p) : r # q => ~Waits(r)
<1>1. Typed /\ AskedInOrder /\ Decides(p) /\ q \in asked /\ q.payment = p /\ asked \subseteq Request
  BY DEF Inv, Orderly, Of, Typed
<1>2. Waits(q) /\ rail[p].waiting = [waits |-> TRUE, request |-> q]
  BY <1>1 DEF Decides, Waits
<1>3. rail[p].waiting # NotWaiting /\ rail[p].waiting.request = q
  BY <1>2 DEF NotWaiting
<1>4. rail[p].state = "open" /\ q.history + 1 = rail[p].asks /\ q.amount > rail[p].approved
  BY <1>1, <1>3 DEF AskedInOrder
<1>5. ASSUME NEW i \in RowsOf(p) PROVE row[i].revision < q.history
  <2>1. PICK r \in Of(p) : r.history = row[i].revision /\ r.amount = row[i].amount
    BY <1>1 DEF Decides
  <2>2. r \in asked /\ r.payment = p /\ r.history < rail[p].asks
    BY <1>1, <2>1 DEF Of, AskedInOrder
  <2>3. r.history \in Nat /\ q.history \in Nat
    BY <1>1, <2>2, CardBoundsAssumption DEF Request
  <2>4. r.history # q.history
    <3>1. r.history = q.history => r = q
      BY <1>1, <2>2 DEF AskedInOrder
    <3>2. r = q => i \in Recorded(q)
      BY <1>1, <2>1 DEF Recorded
    <3> QED BY <3>1, <3>2
  <2> QED BY <1>4, <2>1, <2>2, <2>3, <2>4
<1>6. \A r \in Of(p) : r # q => ~Waits(r)
  BY <1>3 DEF Waits, Of
<1> QED BY <1>1, <1>2, <1>4, <1>5, <1>6

\* The revision a delivery read is free exactly as long as its request is undecided.
LEMMA RevisionIsHistory ==
  ASSUME Inv, NEW p \in Payment \ failed, NEW c \in Caller, call[c].op = "decide",
         call[c].request.payment = p
  PROVE  /\ call[c].request \in Of(p) /\ call[c].revision = call[c].request.history
         /\ RevisionTaken(call[c]) <=> Recorded(call[c].request) # {}
<1> DEFINE d == call[c]
           q == d.request
<1>1. q \in Of(p) /\ d.revision = q.history /\ q.payment = p
  BY DEF Inv, Orderly, DeliveriesFit, Of, ReadsHold, StillHolds
<1>2. ASSUME NEW i \in RowsOf(p), row[i].revision = q.history PROVE i \in Recorded(q)
  <2>1. PICK r \in Of(p) : r.history = row[i].revision /\ r.amount = row[i].amount
    BY DEF Inv, Orderly, Decides
  <2>2. r = q
    BY <1>1, <1>2, <2>1 DEF Inv, AskedInOrder, Of
  <2> QED BY <1>1, <1>2, <2>1, <2>2 DEF Recorded
<1> HIDE DEF d, q
<1>3. RevisionTaken(d) <=> Recorded(q) # {}
  BY <1>1, <1>2 DEF RevisionTaken, Recorded, q
<1> QED BY <1>1, <1>3 DEF d, q

\* What the rail is told of a payment changes only by an answer it waits for.
LEMMA ReplyFor ==
  ASSUME Typed, NEW q \in Request, NEW decision, Reply(q, decision), NEW p \in Payment,
         q.payment # p \/ ~Waits(q)
  PROVE  rail'[p] = rail[p]
BY Replied

\* A decision that is recorded: the row of a request that waited.
LEMMA OrderlyDecides ==
  ASSUME Inv, Typed', [Next]_vars, NEW c \in Caller, CommitDecide(c),
         NEW p \in Payment \ failed, call[c].request.payment = p
  PROVE  Orderly(p)'
<1> DEFINE d == call[c]
           q == d.request
<1>1. Typed /\ Decides(p) /\ ReadsHold(p) /\ HoldsWhole(p) /\ HoldsApproved(p) /\ ReleasedIsCaptured(p)
  BY DEF Inv, Orderly
<1>2. d.op = "decide" /\ q \in Of(p) /\ d.revision = q.history /\ Recorded(q) = {} /\ q.payment = p
  BY RevisionIsHistory DEF CommitDecide
<1>3. /\ Waits(q) /\ rail[p].state = "open" /\ q.amount > rail[p].approved
      /\ q \in Request
      /\ \A j \in RowsOf(p) : row[j].revision < q.history
      /\ \A r \in Of(p) : r # q => ~Waits(r)
  <2> HIDE DEF q
  <2> QED BY <1>2, Undecided
<1>4. StillHolds(p, d)
  BY <1>1, <1>2 DEF ReadsHold
<1>5. /\ q.amount \in Nat /\ q.history \in Nat /\ d.prior \in Int /\ d.now \in Nat
      /\ HoldOf(p) \in Int /\ rail[p].approved \in Nat
  <2>1. d.prior \in Int /\ d.now \in Nat
    BY <1>1, <1>2, CallFields, CardBoundsAssumption DEF Time
  <2>2. HoldOf(p) \in Int /\ rail[p].approved \in Nat
    BY <1>1, HoldInt, RailFields DEF Typed
  <2> HIDE DEF q, d
  <2>3. q.amount \in Nat /\ q.history \in Nat
    BY <1>3, RequestFields
  <2> QED BY <2>1, <2>2, <2>3
<1>6. PICK i \in Id, v \in Policy.verdicts :
        /\ NextId(i) /\ i \notin Used /\ row[i] = NoRow
        /\ Reply(q, DecisionFor(d, v)) /\ row'[i] = Decided(d, DecisionFor(d, v))
        /\ \A j \in Id : j # i => row'[j] = row[j]
  BY <1>1, DecideWrites
<1> DEFINE decision == DecisionFor(d, v)
           x == Decided(d, decision)
<1>7. /\ x.ref = p /\ x.revision = q.history /\ x.decision = decision /\ x.amount = q.amount
      /\ x.status # "NONE" /\ x.status # "EXECUTED" /\ x.at = d.now /\ x.released = 0
      /\ x.captured = 0 /\ x.reserved = IF decision = "ALLOW" THEN q.amount - d.prior ELSE 0
  BY <1>2 DEF Decided, Delta
<1>8. OneMore(p, i, x)
  <2>1. RowsOf(p)' = RowsOf(p) \cup {i}
    <3>1. \A j \in Id : j \in RowsOf(p)' <=> row'[j].ref = p
      BY <1>1, OwnRows
    <3>2. \A j \in Id : j \in RowsOf(p) <=> row[j].ref = p
      BY <1>1, OwnRows
    <3>3. RowsOf(p) \subseteq Id /\ RowsOf(p)' \subseteq Id
      BY DEF RowsOf, Used
    <3>4. row'[i].ref = p
      BY <1>6, <1>7
    <3> HIDE DEF x, d, q
    <3> QED BY <1>6, <3>1, <3>2, <3>3, <3>4
  <2> QED BY <1>6, <2>1 DEF OneMore
<1>9. /\ rail'[p].state = "open" /\ rail'[p].waiting = NotWaiting
      /\ rail'[p].approved = IF decision = "ALLOW" THEN q.amount ELSE rail[p].approved
  <2> HIDE DEF q, d, decision
  <2>1. Reply(q, decision)
    BY <1>6 DEF decision
  <2> QED BY <1>1, <1>2, <1>3, <2>1, Replied
<1>10. UNCHANGED <<asked, moved, seen>> /\ \A b \in Caller : call'[b] = call[b] \/ call'[b] = Idle
  BY <1>1 DEF CommitDecide, Becomes, Typed
<1>11. /\ Of(p)' = Of(p) /\ MovedFor(p)' = MovedFor(p) /\ (Closed(p)' <=> Closed(p))
  BY <1>10 DEF Of, MovedFor, Closed
<1> HIDE DEF x, decision
<1>12. HoldOf(p)' = HoldOf(p) + x.reserved /\ x.reserved \in Int
  <2>1. HoldOf(p)' = HoldOf(p) + Outstanding(x)
    BY <1>1, <1>8, HoldOneMore
  <2>2. x.reserved \in Int
    BY <1>5, <1>7
  <2> QED BY <1>5, <1>7, <2>1, <2>2 DEF Outstanding
<1>13. /\ RowsOf(p)' = RowsOf(p) \cup {i} /\ row'[i] = x /\ i \notin RowsOf(p) /\ i \in Id
       /\ \A j \in RowsOf(p) : j # i /\ row'[j] = row[j]
       /\ RowsOf(p) \subseteq Id
  BY <1>8 DEF OneMore, RowsOf, Used
<1>14. /\ \A j \in RowsOf(p) : row[j].at <= d.now /\ row[j].at \in Nat /\ row[j].revision \in Nat
       /\ HoldOf(p) <= d.prior /\ d.prior <= rail[p].approved
       /\ MovedFor(p) = {} => HoldOf(p) = d.prior
  <2>1. \A j \in RowsOf(p) : row[j].at \in Nat /\ row[j].revision \in Nat
    BY <1>1, <1>13, RowFields DEF Typed
  <2> QED BY <1>2, <1>4, <2>1 DEF StillHolds
<1> HIDE DEF d, q
<1>15. \A r \in Of(p) : Recorded(r)' # {} /\ ~Waits(r)'
  <2>1. ASSUME NEW r \in Of(p) PROVE Recorded(r)' # {}
    <3>1. CASE r = q
      <4>1. i \in Recorded(r)'
        BY <1>2, <1>7, <1>13, <3>1 DEF Recorded
      <4> QED BY <4>1
    <3>2. CASE r # q
      <4>1. Recorded(r) # {}
        BY <1>1, <1>3, <3>2 DEF Decides
      <4>2. Recorded(r) \subseteq Recorded(r)'
        BY <1>13 DEF Recorded, Of
      <4> QED BY <4>1, <4>2
    <3> QED BY <3>1, <3>2
  <2>2. ASSUME NEW r \in Of(p) PROVE ~Waits(r)'
    BY <1>9 DEF Waits, Of, NotWaiting
  <2> QED BY <2>1, <2>2
<1>16. Decides(p)'
  <2>1. \A j \in RowsOf(p)' : \E r \in Of(p) : r.history = row'[j].revision /\ r.amount = row'[j].amount
    BY <1>1, <1>2, <1>7, <1>13 DEF Decides
  <2>2. \A j, k \in RowsOf(p)' : row'[j].revision = row'[k].revision => j = k
    BY <1>1, <1>3, <1>5, <1>7, <1>13, <1>14 DEF Decides
  <2>3. ASSUME NEW j \in RowsOf(p)', NEW k \in RowsOf(p)', row'[j].revision <= row'[k].revision
        PROVE  row'[j].at <= row'[k].at
    <3>1. CASE j = i /\ k = i
      BY <1>5, <1>7, <1>13, <3>1
    <3>2. CASE j # i /\ k = i
      BY <1>7, <1>13, <1>14, <3>2
    <3>3. CASE j = i /\ k # i
      BY <1>3, <1>5, <1>7, <1>13, <1>14, <2>3, <3>3
    <3>4. CASE j # i /\ k # i
      BY <1>1, <1>13, <2>3, <3>4 DEF Decides
    <3> QED BY <3>1, <3>2, <3>3, <3>4
  <2> QED BY <1>11, <1>15, <2>1, <2>2, <2>3 DEF Decides
<1>17. ReadsHold(p)'
  <2>1. ASSUME NEW b \in Caller, NEW e, e = call'[b], e.op = "decide", e.request.payment = p
        PROVE  StillHolds(p, e)'
    <3>1. e = call[b]
      BY <1>10, <2>1 DEF Idle
    <3>2. e.request \in Of(p) /\ e.revision = e.request.history
      BY <2>1, <3>1, RevisionIsHistory
    <3>3. Recorded(e.request)' # {}
      BY <1>15, <3>2
    <3> QED BY <3>2, <3>3 DEF StillHolds
  <2> QED BY <2>1, ReadsMade
<1>18. HoldsWhole(p)'
  <2>1. decision = "ALLOW" => x.reserved > 0
    BY <1>3, <1>5, <1>7, <1>14
  <2> QED BY <1>1, <1>7, <1>13, <2>1 DEF HoldsWhole
<1>19. HoldsApproved(p)'
  <2>1. HoldOf(p)' <= rail'[p].approved
    BY <1>5, <1>7, <1>9, <1>12, <1>14
  <2>2. ~Closed(p)
    BY <1>1, <1>3 DEF HoldsApproved
  <2>3. MovedFor(p) = {} => HoldOf(p)' = rail'[p].approved
    <3>1. MovedFor(p) = {} => HoldOf(p) = d.prior /\ HoldOf(p) = rail[p].approved
      BY <1>1, <1>14, <2>2 DEF HoldsApproved
    <3> QED BY <1>5, <1>7, <1>9, <1>12, <3>1
  <2>4. Latest(p)' = i
    <3>1. \A j \in RowsOf(p)' : row'[j].revision <= row'[i].revision
      BY <1>3, <1>5, <1>7, <1>13, <1>14
    <3>2. \A k \in RowsOf(p)' : (\A j \in RowsOf(p)' : row'[j].revision <= row'[k].revision) => k = i
      BY <1>3, <1>5, <1>7, <1>13, <1>14
    <3> QED BY <1>13, <3>1, <3>2 DEF Latest
  <2>5. row'[i].status # "EXECUTED"
    BY <1>7, <1>13
  <2>6. ASSUME NEW b \in Caller PROVE ~(call'[b].op = "update" /\ call'[b].payment = p)
    BY <1>3, <1>10 DEF Inv, DeliveriesFit, Idle
  <2> QED BY <1>11, <2>1, <2>2, <2>3, <2>4, <2>5, <2>6 DEF HoldsApproved
<1>20. ReleasedIsCaptured(p)'
  <2>1. \A j \in RowsOf(p)' : row'[j].released > 0 => j \in RowsOf(p)
    BY <1>7, <1>13
  <2>2. \A j \in RowsOf(p) : row[j].released > 0 =>
          \E k \in RowsOf(p) : row[k].captured > 0 /\ row[j].at <= row[k].at
    BY <1>1, <1>3 DEF ReleasedIsCaptured
  <2>3. \A j \in RowsOf(p)' : row'[j].released > 0 =>
          \E k \in RowsOf(p)' : row'[k].captured > 0 /\ row'[j].at <= row'[k].at
    BY <1>13, <2>1, <2>2
  <2>4. ASSUME NEW k \in RowsOf(p)', NEW j \in RowsOf(p)', Outstanding(row'[k]) > 0, row'[j].released > 0
        PROVE  \E m \in RowsOf(p)' :
                 row'[m].captured > 0 /\ row'[j].at <= row'[m].at /\ row'[m].at <= row'[k].at
    <3>1. j \in RowsOf(p) /\ row'[j] = row[j]
      BY <1>13, <2>1, <2>4
    <3>2. CASE k = i
      <4>1. PICK m \in RowsOf(p) : row[m].captured > 0 /\ row[j].at <= row[m].at
        BY <2>2, <2>4, <3>1
      <4>2. row'[m] = row[m] /\ m \in RowsOf(p)' /\ row[m].at <= d.now
        BY <1>13, <1>14
      <4> QED BY <1>7, <1>13, <3>1, <3>2, <4>1, <4>2
    <3>3. CASE k # i
      <4>1. k \in RowsOf(p) /\ row'[k] = row[k]
        BY <1>13, <3>3
      <4>2. PICK m \in RowsOf(p) :
              row[m].captured > 0 /\ row[j].at <= row[m].at /\ row[m].at <= row[k].at
        BY <1>1, <2>4, <3>1, <4>1 DEF ReleasedIsCaptured
      <4>3. row'[m] = row[m] /\ m \in RowsOf(p)'
        BY <1>13
      <4> QED BY <3>1, <4>1, <4>2, <4>3
    <3> QED BY <3>2, <3>3
  <2>5. Latest(p)' = i
    <3>1. \A j \in RowsOf(p)' : row'[j].revision <= row'[i].revision
      BY <1>3, <1>5, <1>7, <1>13, <1>14
    <3>2. \A k \in RowsOf(p)' : (\A j \in RowsOf(p)' : row'[j].revision <= row'[k].revision) => k = i
      BY <1>3, <1>5, <1>7, <1>13, <1>14
    <3> QED BY <1>13, <3>1, <3>2 DEF Latest
  <2>6. ~(row'[i].released > 0)
    BY <1>7, <1>13
  <2> QED BY <2>3, <2>4, <2>5, <2>6 DEF ReleasedIsCaptured
<1> QED BY <1>16, <1>17, <1>18, <1>19, <1>20 DEF Orderly
\* A settlement or a release: everything is let go of, and what was settled captured.
LEMMA OrderlyReleases ==
  ASSUME Inv, Typed', [Next]_vars, NEW p \in Payment \ failed, AllReleased(p), NothingOut(p)', Kept(p),
         rail'[p] = rail[p], Of(p)' = Of(p),
         Closed(p)' => rail[p].state # "open",
         Closed(p)' \/ MovedFor(p)' # {},
         rail[p].state = "open" => MovedFor(p)' # {},
         RowsOf(p) # {} => rail[p].state = "unwound" \/ row'[Latest(p)].captured > 0
  PROVE  Orderly(p)'
<1>1. Typed /\ Decides(p) /\ ReadsHold(p) /\ HoldsWhole(p) /\ HoldsApproved(p) /\ ReleasedIsCaptured(p)
  BY DEF Inv, Orderly
<1>2. /\ SameRows(p) /\ RowsOf(p)' = RowsOf(p) /\ Latest(p)' = Latest(p)
      /\ \A i \in RowsOf(p) : Stays(i) /\ row'[i].released = row[i].reserved
  BY DEF AllReleased, SameRows
<1>3. HoldOf(p)' = 0
  <2>1. \A i \in Id : row'[i].ref = p => i \in RowsOf(p)'
    BY <1>1, OwnRows
  <2> DEFINE g == [i \in Id |-> IF row'[i].ref = p THEN Outstanding(row'[i]) ELSE 0]
  <2>2. \A i \in Id : g[i] = 0
    BY <2>1 DEF NothingOut
  <2>3. g \in [1..MaxRows -> Int] /\ HoldOf(p)' = Total(g, MaxRows)
    BY <2>2 DEF HoldOf, Id
  <2> HIDE DEF g
  <2> QED BY <2>2, <2>3, TotalZero, CardBoundsAssumption DEF Id
<1>4. HoldOf(p) >= 0 /\ HoldOf(p) \in Int /\ rail[p].approved \in Nat
  BY <1>1, HoldNonNegative, HoldInt, RailFields DEF Typed
<1>5. \A q \in Of(p) : Waits(q)' <=> Waits(q)
  BY DEF Waits, Of
<1>6. Decides(p)'
  BY <1>1, <1>2, <1>5, DecidesFrame
<1>7. ReadsHold(p)'
  <2>1. ASSUME NEW b \in Caller, NEW e, e = call'[b], e.op = "decide", e.request.payment = p
        PROVE  StillHolds(p, e)'
    <3>1. e = call[b] /\ StillHolds(p, e)
      BY <1>1, <2>1 DEF Kept, ReadsHold
    <3>2. e.request \in Of(p) /\ Recorded(e.request)' = Recorded(e.request) /\ e.prior \in Int
      BY <1>1, <1>2, <2>1, <3>1, RevisionIsHistory, RecordedSame, CallFields
    <3>3. Recorded(e.request) = {} => rail[p].state = "open"
      BY <3>2, Undecided
    <3>4. Recorded(e.request) = {} =>
            /\ \A i \in RowsOf(p)' : row'[i].at <= e.now
            /\ HoldOf(p)' <= e.prior /\ e.prior <= rail'[p].approved
            /\ MovedFor(p)' # {}
      BY <1>2, <1>3, <1>4, <3>1, <3>2, <3>3 DEF StillHolds, Stays
    <3> QED BY <3>1, <3>2, <3>4 DEF StillHolds
  <2> QED BY <2>1, ReadsMade
<1>8. HoldsWhole(p)'
  BY <1>1, <1>2 DEF HoldsWhole, Stays
<1>9. HoldsApproved(p)'
  <2>1. HoldOf(p)' <= rail'[p].approved
    BY <1>3, <1>4
  <2>2. Closed(p)' => rail'[p].state # "open"
    OBVIOUS
  <2> QED BY <2>1, <2>2 DEF HoldsApproved
<1>10. ReleasedIsCaptured(p)'
  <2>1. RowsOf(p) # {} => /\ Latest(p) \in RowsOf(p)
                          /\ \A j \in RowsOf(p) : row[j].revision <= row[Latest(p)].revision
    BY <1>1, LatestIs
  <2>2. ASSUME NEW j \in RowsOf(p)', rail'[p].state = "open"
        PROVE  \E k \in RowsOf(p)' : row'[k].captured > 0 /\ row'[j].at <= row'[k].at
    <3>1. Latest(p) \in RowsOf(p)' /\ row[j].at <= row[Latest(p)].at
      BY <1>1, <1>2, <2>1, <2>2 DEF Decides
    <3>2. row'[j].at = row[j].at /\ row'[Latest(p)].at = row[Latest(p)].at
      BY <1>2, <2>1, <2>2 DEF Stays
    <3>3. row'[Latest(p)].captured > 0
      BY <1>2, <2>2
    <3> QED BY <3>1, <3>2, <3>3
  <2>3. \A i \in RowsOf(p)' : ~(Outstanding(row'[i]) > 0)
    BY DEF NothingOut
  <2>4. RowsOf(p)' # {} => row'[Latest(p)'].captured > 0 \/ (rail'[p].state = "unwound" /\ NothingOut(p)')
    BY <1>2
  <2> QED BY <2>2, <2>3, <2>4 DEF ReleasedIsCaptured
<1> QED BY <1>6, <1>7, <1>8, <1>9, <1>10 DEF Orderly

\* A closing event.
LEMMA OrderlyUpdates ==
  ASSUME Inv, Typed', [Next]_vars, NEW c \in Caller, CommitUpdate(c),
         NEW p \in Payment \ failed, call[c].payment = p
  PROVE  Orderly(p)'
<1>1. Typed /\ HoldsApproved(p) /\ ReleasedIsCaptured(p) /\ Orderly(p)
  BY DEF Inv, Orderly
<1>2. /\ call[c].op = "update" /\ call[c].notice \in Notice /\ rail[p].state # "open"
      /\ seen' = seen \cup {<<p, call[c].notice>>}
      /\ UNCHANGED <<clock, status, card, moved, rail, asked, failed>>
      /\ \A b \in Caller : call'[b] = call[b] \/ call'[b] = Idle
  BY <1>1, CallFields DEF CommitUpdate, Becomes, Inv, DeliveriesFit, Typed
<1>3. /\ Kept(p) /\ Of(p)' = Of(p) /\ MovedFor(p)' = MovedFor(p) /\ rail'[p] = rail[p]
      /\ \A q \in Of(p) : Waits(q)' <=> Waits(q)
  BY <1>2 DEF Kept, Of, MovedFor, Waits, Idle
<1>4. Closed(p)'
  BY <1>2 DEF Closed
<1>5. CASE UNCHANGED row /\ (<<p, call[c].notice>> \in seen \/ call[c].executed)
  <2>1. Untouched(p)
    BY <1>5 DEF Untouched, RowsOf, Used
  <2>2. NothingOut(p)
    BY <1>1, <1>2, <1>5 DEF HoldsApproved, Closed
  <2>3. NothingOut(p)'
    BY <2>1, <2>2 DEF NothingOut, Untouched
  <2>4. HoldsApproved(p)'
    <3>1. HoldOf(p)' <= rail'[p].approved
      BY <1>1, <1>3, <2>1, HoldUntouched DEF HoldsApproved
    <3> QED BY <1>2, <1>3, <1>4, <2>3, <3>1 DEF HoldsApproved
  <2>5. Decides(p)'
    BY <1>1, <1>3, <2>1, DecidesFrame, UntouchedIsSame DEF Orderly
  <2>6. ReadsHold(p)'
    BY <1>1, <1>3, <2>1, ReadsFrame DEF Orderly
  <2>7. HoldsWhole(p)'
    BY <1>1, <2>1, HoldsWholeFrame DEF Orderly
  <2>8. ReleasedIsCaptured(p)'
    BY <1>1, <1>3, <2>1, ReleasedFrame
  <2> QED BY <2>4, <2>5, <2>6, <2>7, <2>8 DEF Orderly
<1>6. CASE /\ AllReleased(p) /\ NothingOut(p)'
          /\ \/ rail[p].state = "unwound"
             \/ /\ rail[p].state # "unwound"
                /\ RowsOf(p) # {} => row'[Latest(p)].captured >= rail[p].settled
  <2>1. ASSUME rail[p].state # "unwound", RowsOf(p) # {} PROVE row'[Latest(p)].captured > 0
    <3>1. rail[p].state = "closed" /\ rail[p].settled \in Nat
      BY <1>1, <1>2, <2>1, RailFields DEF Typed
    <3>2. rail[p].settled > 0
      BY <3>1 DEF Inv, AskedInOrder
    <3>3. row'[Latest(p)].captured \in Nat
      <4>1. Latest(p) \in Id
        BY <1>1, <2>1, LatestIs DEF RowsOf, Used
      <4> QED BY <4>1, RowFields DEF Typed
    <3> QED BY <1>6, <2>1, <3>1, <3>2, <3>3
  <2> QED BY <1>2, <1>3, <1>4, <1>6, <2>1, OrderlyReleases
<1> QED BY <1>1, <1>5, <1>6, UpdateSettles
\* A transaction of the payment.
LEMMA OrderlyTransacts ==
  ASSUME Inv, Typed', [Next]_vars, NEW p \in Payment \ failed, NEW t \in Transaction, NEW a \in Amount,
         TransactionEvent(t, p, a)
  PROVE  Orderly(p)'
<1>1. Typed /\ HoldsApproved(p) /\ Orderly(p)
  BY DEF Inv, Orderly
<1>2. UNCHANGED <<clock, status, card, call, seen, rail, asked, failed>>
  BY DEF TransactionEvent
<1>3. MovedFor(p)' = MovedFor(p) \cup {t}
  BY <1>1, MovedOnce
<1>4. /\ Kept(p) /\ Of(p)' = Of(p) /\ rail'[p] = rail[p] /\ (Closed(p)' <=> Closed(p))
      /\ \A q \in Of(p) : Waits(q)' <=> Waits(q)
  BY <1>2 DEF Kept, Of, Closed, Waits
<1>5. CASE Untouched(p)
  BY <1>1, <1>3, <1>4, <1>5, OrderlyFrame DEF Undisturbed
<1>6. CASE AllReleased(p) /\ NothingOut(p)' /\ RowsOf(p) # {} /\ row'[Latest(p)].captured > 0
  BY <1>1, <1>3, <1>4, <1>6, OrderlyReleases DEF HoldsApproved
<1> QED BY <1>1, <1>5, <1>6, TransactionSettles

\* A delivery that begins has read what is so.
LEMMA OrderlyBegins ==
  ASSUME Inv, Typed', [Next]_vars, NEW p \in Payment \ failed, NEW c \in Caller, NEW q \in Request,
         BeginDecide(c, q), q.payment = p
  PROVE  Orderly(p)'
<1>1. Typed /\ Orderly(p) /\ HoldsApproved(p) /\ ReadsHold(p) /\ DeliveriesFit
  BY DEF Inv, Orderly
<1>2. /\ q \in Of(p) /\ Recorded(q) = {}
      /\ UNCHANGED <<clock, status, card, row, seen, moved, rail, asked, failed>>
      /\ \A b \in Caller : b # c => call'[b] = call[b]
  BY <1>1 DEF BeginDecide, Of, Becomes, Typed
<1>3. /\ Untouched(p) /\ Of(p)' = Of(p) /\ MovedFor(p)' = MovedFor(p) /\ rail'[p] = rail[p]
      /\ Closed(p)' <=> Closed(p)
      /\ \A r \in Of(p) : Waits(r)' <=> Waits(r)
  BY <1>2 DEF Untouched, RowsOf, Used, Of, MovedFor, Closed, Waits
<1>4. HoldOf(p)' = HoldOf(p) /\ SameRows(p) /\ Latest(p)' = Latest(p)
  BY <1>1, <1>3, HoldUntouched, UntouchedIsSame
<1>5. /\ \A i \in RowsOf(p) : row[i].revision < q.history /\ row[i].revision \in Nat
      /\ q.history \in Nat
  <2>1. \A i \in RowsOf(p) : row[i].revision \in Nat
    BY <1>1, RowFields DEF RowsOf, Used, Typed
  <2> QED BY <1>2, <2>1, Undecided, RequestFields
<1>6. HoldOf(p) \in Int /\ rail[p].approved \in Nat
  BY <1>1, HoldInt, RailFields DEF Typed
<1> DEFINE increment == RowsOf(p) # {}
           revision == IF increment THEN Larger(q.history, row[Latest(p)].revision + 1) ELSE q.history
           prior == IF increment THEN HoldOf(p) ELSE 0
<1>7. call'[c] = [op |-> "decide", request |-> q, increment |-> increment, now |-> clock,
                  revision |-> revision, prior |-> prior]
  BY <1>1 DEF BeginDecide, Becomes, Typed
<1>8. revision = q.history
  <2>1. increment => Latest(p) \in RowsOf(p)
    BY <1>1, LatestIs
  <2> QED BY <1>5, <2>1 DEF Larger
<1>9. prior = HoldOf(p)
  <2>1. ~increment => NothingOut(p)
    BY DEF NothingOut
  <2> QED BY <1>1, <2>1, NothingHeld
<1>10. \A i \in RowsOf(p) : row[i].at <= clock
  BY <1>1 DEF DeliveriesFit, RowsOf
<1> HIDE DEF increment, revision, prior
<1>11. ReadsHold(p)'
  <2>1. ASSUME NEW b \in Caller, NEW e, e = call'[b], e.op = "decide", e.request.payment = p
        PROVE  StillHolds(p, e)'
    <3>1. CASE b = c
      <4>1. e.revision = q.history /\ e.request = q /\ e.prior = HoldOf(p) /\ e.now = clock
        BY <1>7, <1>8, <1>9, <2>1, <3>1
      <4> QED BY <1>1, <1>3, <1>4, <1>6, <1>10, <4>1 DEF StillHolds, HoldsApproved, Untouched
    <3>2. CASE b # c
      <4>1. e = call[b] /\ StillHolds(p, e)
        BY <1>1, <1>2, <2>1, <3>2 DEF ReadsHold
      <4>2. Recorded(e.request)' = Recorded(e.request)
        BY <1>1, <1>4, <2>1, RecordedSame
      <4> QED BY <1>3, <1>4, <4>1, <4>2 DEF StillHolds, Untouched
    <3> QED BY <3>1, <3>2
  <2> QED BY <2>1, ReadsMade
<1>12. HoldsApproved(p)'
  <2>1. \A b \in Caller : call'[b].op = "update" => call'[b] = call[b]
    BY <1>2, <1>7
  <2>2. NothingOut(p)' <=> NothingOut(p)
    BY <1>3 DEF NothingOut, Untouched
  <2>3. RowsOf(p) # {} => row'[Latest(p)] = row[Latest(p)]
    BY <1>2
  <2> QED BY <1>1, <1>3, <1>4, <2>1, <2>2, <2>3 DEF HoldsApproved, Untouched
<1>13. Decides(p)' /\ HoldsWhole(p)' /\ ReleasedIsCaptured(p)'
  BY <1>1, <1>3, <1>4, DecidesFrame, HoldsWholeFrame, ReleasedFrame DEF Orderly
<1> QED BY <1>11, <1>12, <1>13 DEF Orderly

\* A closing event that is read.
LEMMA OrderlyReads ==
  ASSUME Inv, Typed', [Next]_vars, NEW p \in Payment \ failed, NEW c \in Caller, NEW n \in Notice,
         BeginUpdate(c, p, n)
  PROVE  Orderly(p)'
<1>1. Typed /\ Orderly(p) /\ HoldsApproved(p) /\ ReadsHold(p)
  BY DEF Inv, Orderly
<1>2. /\ UNCHANGED <<clock, status, card, row, seen, moved, rail, asked, failed>>
      /\ RowsOf(p) # {}
      /\ call'[c] = [op |-> "update", payment |-> p, notice |-> n,
                     executed |-> row[Latest(p)].status = "EXECUTED"]
      /\ \A b \in Caller : b # c => call'[b] = call[b]
  BY <1>1 DEF BeginUpdate, Becomes, Typed
<1>3. /\ Untouched(p) /\ Of(p)' = Of(p) /\ MovedFor(p)' = MovedFor(p) /\ rail'[p] = rail[p]
      /\ Closed(p)' <=> Closed(p)
      /\ \A r \in Of(p) : Waits(r)' <=> Waits(r)
  BY <1>2 DEF Untouched, RowsOf, Used, Of, MovedFor, Closed, Waits
<1>4. HoldOf(p)' = HoldOf(p) /\ SameRows(p) /\ Latest(p)' = Latest(p)
  BY <1>1, <1>3, HoldUntouched, UntouchedIsSame
<1>5. ReadsHold(p)'
  <2>1. ASSUME NEW b \in Caller, NEW e, e = call'[b], e.op = "decide", e.request.payment = p
        PROVE  StillHolds(p, e)'
    <3>1. e = call[b] /\ StillHolds(p, e)
      <4>1. b # c
        BY <1>2, <2>1
      <4> QED BY <1>1, <1>2, <2>1, <4>1 DEF ReadsHold
    <3>2. Recorded(e.request)' = Recorded(e.request)
      BY <1>1, <1>4, <2>1, RecordedSame
    <3> QED BY <1>3, <1>4, <3>1, <3>2 DEF StillHolds, Untouched
  <2> QED BY <2>1, ReadsMade
<1>6. HoldsApproved(p)'
  <2>1. NothingOut(p)' <=> NothingOut(p)
    BY <1>3 DEF NothingOut, Untouched
  <2>2. RowsOf(p) # {} => row'[Latest(p)] = row[Latest(p)]
    BY <1>2
  <2>3. ASSUME NEW b \in Caller, call'[b].op = "update", call'[b].payment = p, call'[b].executed
        PROVE  NothingOut(p)
    <3>1. CASE b = c
      <4>1. row[Latest(p)].status = "EXECUTED"
        <5> DEFINE executed == row[Latest(p)].status = "EXECUTED"
        <5>1. call'[c] = [op |-> "update", payment |-> p, notice |-> n, executed |-> executed]
          BY <1>2
        <5>2. call'[c].executed
          BY <2>3, <3>1
        <5> HIDE DEF executed
        <5>3. call'[c].executed = executed
          BY <5>1
        <5> QED BY <5>2, <5>3 DEF executed
      <4> QED BY <1>1, <1>2, <4>1 DEF HoldsApproved
    <3>2. CASE b # c
      BY <1>1, <1>2, <2>3, <3>2 DEF HoldsApproved
    <3> QED BY <3>1, <3>2
  <2> QED BY <1>1, <1>3, <1>4, <2>1, <2>2, <2>3 DEF HoldsApproved, Untouched
<1>7. Decides(p)' /\ HoldsWhole(p)' /\ ReleasedIsCaptured(p)'
  BY <1>1, <1>3, <1>4, DecidesFrame, HoldsWholeFrame, ReleasedFrame DEF Orderly
<1> QED BY <1>5, <1>6, <1>7 DEF Orderly
\* A step about something else.
LEMMA ElsewhereUndisturbed ==
  ASSUME NEW p, Untouched(p), Kept(p), rail'[p] = rail[p], Of(p)' = Of(p),
         MovedFor(p)' = MovedFor(p), Closed(p)' <=> Closed(p)
  PROVE  Undisturbed(p)
BY DEF Undisturbed, Waits, Of

\* A request that names no instrument is refused, and leaves what is known in order.
LEMMA OrderlyRefuses ==
  ASSUME Inv, Typed', [Next]_vars, NEW p \in Payment \ failed, NEW q \in Request, Unattributed(q)
  PROVE  Orderly(p)'
<1>1. Typed /\ Orderly(p) /\ Reply(q, "DENY") /\ ~q.named
      /\ UNCHANGED <<clock, status, card, row, call, seen, asked, moved, failed>>
  BY DEF Inv, Unattributed
<1>2. /\ Untouched(p) /\ Kept(p) /\ Of(p)' = Of(p) /\ MovedFor(p)' = MovedFor(p)
      /\ Closed(p)' <=> Closed(p)
  BY <1>1 DEF Untouched, RowsOf, Used, Kept, Of, MovedFor, Closed
<1>3. CASE rail'[p] = rail[p]
  BY <1>1, <1>2, <1>3, ElsewhereUndisturbed, OrderlyFrame
<1>4. CASE Waits(q) /\ q.payment = p
  <2>1. /\ rail'[p].state = rail[p].state /\ rail'[p].waiting = NotWaiting
        /\ rail'[p].approved = rail[p].approved
    BY <1>1, <1>4, Replied
  <2>2. ASSUME NEW r \in Of(p) PROVE Waits(r)' <=> Waits(r)
    <3>1. ~Waits(r)'
      BY <2>1 DEF Waits, Of, NotWaiting
    <3>2. ~Waits(r)
      BY <1>1, <1>4 DEF Waits, Of
    <3> QED BY <3>1, <3>2
  <2> QED BY <1>1, <1>2, <2>1, <2>2, OrderlyFrame DEF Undisturbed
<1> QED BY <1>1, <1>3, <1>4, ReplyFor

\* The recorded decision again reaches nobody: the request it answers is decided, and
\* what is decided does not wait.
LEMMA OrderlyReplays ==
  ASSUME Inv, Typed', [Next]_vars, NEW p \in Payment \ failed,
         \/ \E q \in Request : Replay(q)
         \/ \E c \in Caller : ReplayWinner(c)
  PROVE  Orderly(p)'
<1>1. Typed /\ Orderly(p) /\ Decides(p)
  BY DEF Inv, Orderly
<1>2. PICK q \in Request : \E decision :
        /\ Reply(q, decision) /\ (q.payment = p => q \in Of(p) /\ Recorded(q) # {})
        /\ UNCHANGED <<clock, status, card, row, seen, asked, moved, failed>>
        /\ \A b \in Caller : call'[b] = call[b] \/ call'[b] = Idle
  <2>1. ASSUME NEW q \in Request, Replay(q)
        PROVE  \E decision :
                 /\ Reply(q, decision) /\ (q.payment = p => q \in Of(p) /\ Recorded(q) # {})
                 /\ UNCHANGED <<clock, status, card, row, seen, asked, moved, failed>>
                 /\ \A b \in Caller : call'[b] = call[b] \/ call'[b] = Idle
    BY <2>1 DEF Replay, Of
  <2>2. ASSUME NEW c \in Caller, ReplayWinner(c)
        PROVE  \E q \in Request : \E decision :
                 /\ Reply(q, decision) /\ (q.payment = p => q \in Of(p) /\ Recorded(q) # {})
                 /\ UNCHANGED <<clock, status, card, row, seen, asked, moved, failed>>
                 /\ \A b \in Caller : call'[b] = call[b] \/ call'[b] = Idle
    <3> DEFINE q == call[c].request
               decision == row[Latest(q.payment)].decision
    <3>1. /\ call[c].op = "decide" /\ RevisionTaken(call[c]) /\ Reply(q, decision)
          /\ UNCHANGED <<clock, status, card, row, seen, asked, moved, failed>>
      BY <2>2 DEF ReplayWinner
    <3>2. q \in Request /\ (q.payment = p => q \in Of(p) /\ Recorded(q) # {})
      BY <1>1, <3>1, CallFields, RevisionIsHistory
    <3>3. \A b \in Caller : call'[b] = call[b] \/ call'[b] = Idle
      BY <1>1, <2>2 DEF ReplayWinner, Becomes, Typed
    <3> HIDE DEF q, decision
    <3> QED BY <3>1, <3>2, <3>3
  <2> QED BY <2>1, <2>2
<1>3. PICK decision :
        /\ Reply(q, decision) /\ (q.payment = p => q \in Of(p) /\ Recorded(q) # {})
        /\ UNCHANGED <<clock, status, card, row, seen, asked, moved, failed>>
        /\ \A b \in Caller : call'[b] = call[b] \/ call'[b] = Idle
  BY <1>2
<1>4. q.payment # p \/ ~Waits(q)
  BY <1>1, <1>3 DEF Decides
<1>5. rail'[p] = rail[p]
  BY <1>1, <1>3, <1>4, ReplyFor
<1>6. /\ Untouched(p) /\ Kept(p) /\ Of(p)' = Of(p) /\ MovedFor(p)' = MovedFor(p)
      /\ Closed(p)' <=> Closed(p)
  BY <1>3 DEF Untouched, RowsOf, Used, Kept, Of, MovedFor, Closed, Idle
<1> QED BY <1>1, <1>5, <1>6, ElsewhereUndisturbed, OrderlyFrame

\* A new request is undecided and waits; those before it are decided and do not.
LEMMA OrderlyAsks ==
  ASSUME OrderlyRail, Inv, Typed', [Next]_vars, NEW p \in Payment \ failed,
         NEW h \in 0..MaxAsks, NEW a \in Amount, Ask(p, h, a)
  PROVE  Orderly(p)'
<1> DEFINE q == [payment |-> p, history |-> h, amount |-> a, named |-> card = "named"]
           w == [waits |-> TRUE, request |-> q]
<1>1. Typed /\ Orderly(p) /\ Decides(p) /\ AskedInOrder /\ rail \in [Payment -> RailState]
  BY DEF Inv, Orderly, Typed
<1>2. /\ rail[p].state = "open" /\ rail[p].waiting = NotWaiting /\ h = rail[p].asks
      /\ asked' = asked \cup {q}
      /\ UNCHANGED <<clock, status, card, row, call, seen, moved, failed>>
  BY DEF Ask, GoesOn, OrderlyRail
<1>3. q.payment = p /\ q.history = h /\ w.request = q /\ w.waits
  OBVIOUS
<1>4. rail' = [rail EXCEPT ![p].asks = @ + 1, ![p].waiting = w]
  BY DEF Ask
<1> HIDE DEF w
<1>5. /\ rail'[p].state = rail[p].state /\ rail'[p].approved = rail[p].approved
      /\ rail'[p].waiting = w
  <2>1. rail'[p] = [state |-> rail[p].state, asks |-> rail[p].asks + 1,
                    approved |-> rail[p].approved, settled |-> rail[p].settled, waiting |-> w]
    BY <1>1, <1>4, RailAsked
  <2> QED BY <2>1
<1>6. /\ Untouched(p) /\ Kept(p) /\ MovedFor(p)' = MovedFor(p)
      /\ Closed(p)' <=> Closed(p)
  BY <1>2 DEF Untouched, RowsOf, Used, Kept, MovedFor, Closed
<1>7. SameRows(p) /\ RowsOf(p)' = RowsOf(p) /\ \A i \in RowsOf(p) : row'[i] = row[i]
  BY <1>1, <1>6, UntouchedIsSame DEF Untouched
<1> HIDE DEF q
<1>8. Of(p) \subseteq Of(p)' /\ Of(p)' \subseteq Of(p) \cup {q}
  BY <1>2 DEF Of
<1>9. ASSUME NEW r, r.payment = p PROVE Recorded(r)' = Recorded(r)
  BY <1>1, <1>7, <1>9, RecordedSame
<1>10. ASSUME NEW r \in Of(p) PROVE r.history < h /\ ~Waits(r) /\ Recorded(r) # {} /\ r.payment = p
  <2>1. r \in asked /\ r.payment = p /\ r.history < rail[p].asks
    BY <1>1, <1>10 DEF Of, AskedInOrder
  <2>2. ~Waits(r)
    BY <1>2, <2>1 DEF Waits, NotWaiting
  <2> QED BY <1>1, <1>2, <2>1, <2>2 DEF Decides
<1>11. h \in Nat /\ \A r \in Of(p) : r.history \in Nat
  <2>1. \A r \in Of(p) : r \in Request
    BY <1>1 DEF Of, Typed
  <2> QED BY <2>1, RequestFields, CardBoundsAssumption
<1>12. q \notin Of(p)
  BY <1>3, <1>10, <1>11
<1>13. Recorded(q) = {}
  <2>1. ASSUME NEW i \in RowsOf(p) PROVE row[i].revision # h
    <3>1. PICK r \in Of(p) : r.history = row[i].revision
      BY <1>1 DEF Decides
    <3> QED BY <1>10, <1>11, <3>1
  <2> QED BY <1>3, <2>1 DEF Recorded
<1>14. Decides(p)'
  <2>1. ASSUME NEW r \in Of(p)' PROVE Waits(r)' <=> Recorded(r)' = {}
    <3>1. CASE r \in Of(p)
      <4>1. Recorded(r)' # {}
        BY <1>9, <1>10, <3>1
      <4>2. r # q /\ r.payment = p
        BY <1>10, <1>12, <3>1
      <4>3. ~Waits(r)'
        BY <1>3, <1>5, <4>2 DEF Waits
      <4> QED BY <4>1, <4>3
    <3>2. CASE r \notin Of(p)
      <4>1. r = q /\ r.payment = p /\ Recorded(r) = {}
        BY <1>3, <1>8, <1>13, <3>2
      <4>2. Recorded(r)' = {}
        BY <1>9, <4>1
      <4>3. Waits(r)'
        BY <1>5, <4>1 DEF Waits, w
      <4> QED BY <4>2, <4>3
    <3> QED BY <3>1, <3>2
  <2> QED BY <1>1, <1>7, <1>8, <2>1 DEF Decides
<1>15. ReadsHold(p)' /\ HoldsWhole(p)' /\ HoldsApproved(p)' /\ ReleasedIsCaptured(p)'
  BY <1>1, <1>2, <1>5, <1>6, ReadsFrame, HoldsWholeFrame, HoldsApprovedFrame, ReleasedFrame DEF Orderly
<1> QED BY <1>14, <1>15 DEF Orderly

\* The payment ends, and nothing of it waits.
LEMMA OrderlyEnds ==
  ASSUME OrderlyRail, Inv, Typed', [Next]_vars, NEW p \in Payment \ failed, GoesOn(p),
         NEW state \in {"closed", "unwound"}, NEW s, Ends(p, state, s)
  PROVE  Orderly(p)'
<1>1. Typed /\ Orderly(p) /\ rail \in [Payment -> RailState]
  BY DEF Inv, Typed
<1>2. rail[p].state = "open" /\ rail[p].waiting = NotWaiting
  BY DEF GoesOn, OrderlyRail
<1>3. UNCHANGED <<clock, status, card, row, call, seen, moved, asked, failed>>
  BY DEF Ends
<1>4. /\ rail'[p].state = state /\ rail'[p].approved = rail[p].approved
      /\ rail'[p].waiting = NotWaiting
  <2>1. rail'[p] = [state |-> state, asks |-> rail[p].asks, approved |-> rail[p].approved,
                    settled |-> s, waiting |-> NotWaiting]
    BY <1>1, RailEnded
  <2> QED BY <2>1
<1>5. /\ Untouched(p) /\ Kept(p) /\ Of(p)' = Of(p) /\ MovedFor(p)' = MovedFor(p)
      /\ Closed(p)' <=> Closed(p)
  BY <1>3 DEF Untouched, RowsOf, Used, Kept, Of, MovedFor, Closed
<1>6. \A r \in Of(p) : Waits(r)' <=> Waits(r)
  BY <1>2, <1>4 DEF Waits, Of
<1> QED BY <1>1, <1>2, <1>4, <1>5, <1>6, OrderlyFrame DEF Undisturbed
----------------------------------------------------------------------------
(* Every payment whose decisions were recorded stays in order.              *)

LEMMA OrderlyInit == Init => \A p \in Payment : Orderly(p)
<1> SUFFICES ASSUME Init, NEW p \in Payment PROVE Orderly(p)
  OBVIOUS
<1>1. /\ Typed /\ RowsOf(p) = {} /\ Of(p) = {} /\ ~Closed(p) /\ rail[p].approved = 0
      /\ rail[p].state = "open" /\ \A c \in Caller : call[c].op = "idle"
  <2>1. RowsOf(p) = {}
    BY DEF Init, RowsOf, Used, NoRow
  <2>2. \A c \in Caller : call[c].op = "idle"
    BY DEF Init, Idle
  <2>3. rail[p].approved = 0 /\ rail[p].state = "open"
    BY DEF Init
  <2>4. Of(p) = {} /\ ~Closed(p)
    BY DEF Init, Of, Closed
  <2> QED BY <2>1, <2>2, <2>3, <2>4, TypedInit
<1>2. HoldOf(p) = 0
  BY <1>1, NothingHeld DEF NothingOut
<1>3. Decides(p)
  BY <1>1 DEF Decides
<1>4. ReadsHold(p)
  BY <1>1 DEF ReadsHold
<1>5. HoldsWhole(p)
  BY <1>1 DEF HoldsWhole
<1>6. HoldsApproved(p)
  BY <1>1, <1>2 DEF HoldsApproved
<1>7. ReleasedIsCaptured(p)
  BY <1>1 DEF ReleasedIsCaptured
<1> QED BY <1>3, <1>4, <1>5, <1>6, <1>7 DEF Orderly

\* A step that is none of the payment's.
Elsewhere(p) ==
  /\ Untouched(p) /\ Kept(p) /\ rail'[p] = rail[p] /\ Of(p)' = Of(p)
  /\ MovedFor(p)' = MovedFor(p) /\ (Closed(p)' <=> Closed(p))

LEMMA OrderlyElsewhere ==
  ASSUME Inv, Typed', NEW p \in Payment \ failed, Elsewhere(p)
  PROVE  Orderly(p)'
<1>1. Undisturbed(p)
  BY ElsewhereUndisturbed DEF Elsewhere
<1> QED BY <1>1, OrderlyFrame DEF Inv

\* What happens to a payment whose decisions are recorded, whatever the network does.
LEMMA PaymentStep ==
  ASSUME Typed, Typed', [Next]_vars, NEW p \in Payment \ failed'
  PROVE  \/ Elsewhere(p)
         \/ \E q \in Request : Unattributed(q) \/ Replay(q)
         \/ \E c \in Caller : ReplayWinner(c)
         \/ \E c \in Caller, q \in Request : BeginDecide(c, q) /\ q.payment = p
         \/ \E c \in Caller : CommitDecide(c) /\ call[c].request.payment = p
         \/ \E c \in Caller, n \in Notice : BeginUpdate(c, p, n)
         \/ \E c \in Caller : CommitUpdate(c) /\ call[c].payment = p
         \/ \E t \in Transaction, a \in Amount : TransactionEvent(t, p, a)
         \/ \E h \in 0..MaxAsks, a \in Amount : Ask(p, h, a)
         \/ \E s \in Amount : Close(p, s)
         \/ Unwind(p)
<1>1. Typed /\ p \in Payment \ failed /\ rail \in [Payment -> RailState] /\ call \in [Caller -> Call]
  BY Grows DEF Typed
<1>2. CASE UNCHANGED <<row, call, seen, moved, rail, asked>>
  <2>1. /\ Untouched(p) /\ Kept(p) /\ rail'[p] = rail[p] /\ Of(p)' = Of(p)
        /\ MovedFor(p)' = MovedFor(p) /\ (Closed(p)' <=> Closed(p))
    BY <1>2 DEF Untouched, RowsOf, Used, Kept, Of, MovedFor, Closed
  <2> QED BY <1>1, <2>1 DEF Elsewhere
<1>3. ASSUME NEW c \in Caller, NEW q \in Request, BeginDecide(c, q), q.payment # p PROVE Elsewhere(p)
  <2>1. /\ UNCHANGED <<row, seen, moved, rail, asked>> /\ call'[c].op = "decide" /\ call'[c].request = q
        /\ \A b \in Caller : b # c => call'[b] = call[b]
    BY <1>1, <1>3 DEF BeginDecide, Becomes
  <2>2. Kept(p)
    BY <1>3, <2>1 DEF Kept
  <2>3. /\ Untouched(p) /\ rail'[p] = rail[p] /\ Of(p)' = Of(p)
        /\ MovedFor(p)' = MovedFor(p) /\ (Closed(p)' <=> Closed(p))
    BY <2>1 DEF Untouched, RowsOf, Used, Of, MovedFor, Closed
  <2> QED BY <1>1, <2>2, <2>3 DEF Elsewhere
<1>4. ASSUME NEW c \in Caller, NEW x \in Payment, NEW n \in Notice, BeginUpdate(c, x, n), x # p
      PROVE  Elsewhere(p)
  <2>1. /\ UNCHANGED <<row, seen, moved, rail, asked>> /\ call'[c].op = "update" /\ call'[c].payment = x
        /\ \A b \in Caller : b # c => call'[b] = call[b]
    BY <1>1, <1>4 DEF BeginUpdate, Becomes
  <2>2. Kept(p)
    BY <1>4, <2>1 DEF Kept
  <2>3. /\ Untouched(p) /\ rail'[p] = rail[p] /\ Of(p)' = Of(p)
        /\ MovedFor(p)' = MovedFor(p) /\ (Closed(p)' <=> Closed(p))
    BY <2>1 DEF Untouched, RowsOf, Used, Of, MovedFor, Closed
  <2> QED BY <1>1, <2>2, <2>3 DEF Elsewhere
<1>5. ASSUME NEW c \in Caller, Becomes(c, Idle) PROVE Kept(p)
  BY <1>1, <1>5 DEF Becomes, Kept, Idle
<1>6. ASSUME NEW c \in Caller, CommitDecide(c), call[c].request.payment # p PROVE Elsewhere(p)
  <2>1. Untouched(p)
    BY <1>1, <1>6, WritesElsewhere
  <2>2. rail'[p] = rail[p]
    <3>1. call[c].request \in Request /\ \E decision : Reply(call[c].request, decision)
      BY <1>1, <1>6, CallFields DEF CommitDecide
    <3> QED BY <1>1, <1>6, <3>1, ReplyFor
  <2>3. Kept(p) /\ Of(p)' = Of(p) /\ MovedFor(p)' = MovedFor(p) /\ (Closed(p)' <=> Closed(p))
    BY <1>5, <1>6 DEF CommitDecide, Of, MovedFor, Closed
  <2> QED BY <1>1, <2>1, <2>2, <2>3 DEF Elsewhere
<1>7. ASSUME NEW c \in Caller, FailDecide(c) PROVE Elsewhere(p)
  <2>1. call[c].request \in Request /\ Reply(call[c].request, "DENY") /\ call[c].request.payment # p
    BY <1>1, <1>7, CallFields DEF FailDecide
  <2>2. rail'[p] = rail[p]
    BY <1>1, <2>1, ReplyFor
  <2>3. Kept(p) /\ UNCHANGED <<row, seen, asked, moved>>
    BY <1>5, <1>7 DEF FailDecide
  <2>4. /\ Untouched(p) /\ Of(p)' = Of(p)
        /\ MovedFor(p)' = MovedFor(p) /\ (Closed(p)' <=> Closed(p))
    BY <2>3 DEF Untouched, RowsOf, Used, Of, MovedFor, Closed
  <2> QED BY <1>1, <2>2, <2>3, <2>4 DEF Elsewhere
<1>8. ASSUME NEW c \in Caller, CommitUpdate(c), call[c].payment # p PROVE Elsewhere(p)
  <2>1. Untouched(p)
    BY <1>1, <1>8, WritesElsewhere
  <2>2. /\ seen' = seen \cup {<<call[c].payment, call[c].notice>>} /\ UNCHANGED <<moved, rail, asked>>
    BY <1>8 DEF CommitUpdate
  <2>3. /\ rail'[p] = rail[p] /\ Of(p)' = Of(p) /\ MovedFor(p)' = MovedFor(p)
        /\ Closed(p)' <=> Closed(p)
    BY <1>8, <2>2 DEF Of, MovedFor, Closed
  <2>4. Kept(p)
    BY <1>5, <1>8 DEF CommitUpdate
  <2> QED BY <1>1, <2>1, <2>3, <2>4 DEF Elsewhere
<1>9. ASSUME NEW t \in Transaction, NEW x \in Payment \cup {NoRef}, NEW a \in Amount,
             TransactionEvent(t, x, a), x # p
      PROVE  Elsewhere(p)
  <2>1. Untouched(p)
    BY <1>1, <1>9, WritesElsewhere
  <2>2. MovedFor(p)' = MovedFor(p)
    BY <1>1, <1>9, MovedOnce
  <2>3. UNCHANGED <<clock, status, card, call, seen, rail, asked, failed>>
    BY <1>9 DEF TransactionEvent
  <2>4. Kept(p) /\ rail'[p] = rail[p] /\ Of(p)' = Of(p) /\ (Closed(p)' <=> Closed(p))
    BY <2>3 DEF Kept, Of, Closed
  <2> QED BY <1>1, <2>1, <2>2, <2>4 DEF Elsewhere
<1>10. ASSUME UNCHANGED <<row, call, seen, moved>>, rail'[p] = rail[p], Of(p)' = Of(p) PROVE Elsewhere(p)
  <2>1. /\ Untouched(p) /\ Kept(p) /\ MovedFor(p)' = MovedFor(p) /\ (Closed(p)' <=> Closed(p))
    BY <1>10 DEF Untouched, RowsOf, Used, Kept, MovedFor, Closed
  <2> QED BY <1>1, <1>10, <2>1 DEF Elsewhere
<1>11. ASSUME NEW x \in Payment, NEW h \in 0..MaxAsks, NEW a \in Amount, Ask(x, h, a), x # p
       PROVE  Elsewhere(p)
  <2>1. PICK q : q.payment = x /\ asked' = asked \cup {q}
    <3> DEFINE r == [payment |-> x, history |-> h, amount |-> a, named |-> card = "named"]
    <3>1. asked' = asked \cup {r} /\ r.payment = x
      BY <1>11 DEF Ask
    <3> HIDE DEF r
    <3> QED BY <3>1
  <2>2. Of(p)' = Of(p)
    BY <1>11, <2>1 DEF Of
  <2>3. PICK w : rail' = [rail EXCEPT ![x].asks = @ + 1, ![x].waiting = w]
    BY <1>11 DEF Ask
  <2>4. rail'[p] = rail[p]
    BY <1>1, <1>11, <2>3, RailAsked
  <2>5. UNCHANGED <<row, call, seen, moved>>
    BY <1>11 DEF Ask
  <2> QED BY <1>10, <2>2, <2>4, <2>5
<1>12. ASSUME NEW x \in Payment, NEW state, NEW s, Ends(x, state, s), x # p PROVE Elsewhere(p)
  <2>1. rail'[p] = rail[p]
    BY <1>1, <1>12, RailEnded
  <2>2. UNCHANGED <<row, call, seen, moved>> /\ Of(p)' = Of(p)
    BY <1>12 DEF Ends, Of
  <2> QED BY <1>10, <2>1, <2>2
<1>13. ASSUME NEW x \in Payment, NEW s \in Amount, Close(x, s), x # p PROVE Elsewhere(p)
  BY <1>12, <1>13 DEF Close
<1>14. ASSUME NEW x \in Payment, Unwind(x), x # p PROVE Elsewhere(p)
  BY <1>12, <1>14 DEF Unwind
<1>15. \/ UNCHANGED <<row, call, seen, moved, rail, asked>>
       \/ \E q \in Request : Unattributed(q) \/ Replay(q)
       \/ \E c \in Caller, q \in Request : BeginDecide(c, q)
       \/ \E c \in Caller : CommitDecide(c) \/ ReplayWinner(c) \/ FailDecide(c) \/ CommitUpdate(c)
       \/ \E c \in Caller, x \in Payment, n \in Notice : BeginUpdate(c, x, n)
       \/ \E t \in Transaction, x \in Payment \cup {NoRef}, a \in Amount : TransactionEvent(t, x, a)
       \/ \E x \in Payment, h \in 0..MaxAsks, a \in Amount : Ask(x, h, a)
       \/ \E x \in Payment, s \in Amount : Close(x, s)
       \/ \E x \in Payment : Unwind(x)
  BY DEF Next, vars, activateMandate, ProvisionStep, CreateCard, createInstrument, NameInstrument,
     Provisioned, Revoke, Tick
<1> QED BY <1>2, <1>3, <1>4, <1>6, <1>7, <1>8, <1>9, <1>11, <1>13, <1>14, <1>15

LEMMA OrderlyNext ==
  ASSUME OrderlyRail, Inv, Typed', [Next]_vars, NEW p \in Payment \ failed'
  PROVE  Orderly(p)'
<1>1. Typed /\ p \in Payment \ failed
  BY Grows DEF Inv
<1>2. CASE Elsewhere(p)
  BY <1>1, <1>2, OrderlyElsewhere
<1>3. CASE \E s \in Amount : Close(p, s)
  BY <1>1, <1>3, OrderlyEnds DEF Close
<1>4. CASE Unwind(p)
  BY <1>1, <1>4, OrderlyEnds DEF Unwind
<1>5. CASE \E h \in 0..MaxAsks, a \in Amount : Ask(p, h, a)
  BY <1>1, <1>5, OrderlyAsks
<1>6. CASE \E c \in Caller : CommitDecide(c) /\ call[c].request.payment = p
  BY <1>1, <1>6, OrderlyDecides
<1>7. CASE \E c \in Caller : CommitUpdate(c) /\ call[c].payment = p
  BY <1>1, <1>7, OrderlyUpdates
<1>8. CASE \E t \in Transaction, a \in Amount : TransactionEvent(t, p, a)
  BY <1>1, <1>8, OrderlyTransacts
<1>9. CASE \E c \in Caller, q \in Request : BeginDecide(c, q) /\ q.payment = p
  BY <1>1, <1>9, OrderlyBegins
<1>10. CASE \E c \in Caller, n \in Notice : BeginUpdate(c, p, n)
  BY <1>1, <1>10, OrderlyReads
<1>11. CASE \E q \in Request : Unattributed(q) \/ Replay(q)
  BY <1>1, <1>11, OrderlyRefuses, OrderlyReplays
<1>12. CASE \E c \in Caller : ReplayWinner(c)
  BY <1>1, <1>12, OrderlyReplays
<1> QED BY <1>1, <1>2, <1>3, <1>4, <1>5, <1>6, <1>7, <1>8, <1>9, <1>10, <1>11, <1>12, PaymentStep

LEMMA InvInit == Init => Inv
BY TypedInit, AskedInit, OrderlyInit DEF Inv

LEMMA InvNext == OrderlyRail /\ Inv /\ [Next]_vars => Inv'
<1> SUFFICES ASSUME OrderlyRail, Inv, [Next]_vars PROVE Inv'
  OBVIOUS
<1>1. Typed' /\ AskedInOrder' /\ DeliveriesFit'
  BY TypedNext, AskedNext, DeliveriesNext DEF Inv
<1>2. ASSUME NEW p \in Payment \ failed' PROVE Orderly(p)'
  BY <1>1, <1>2, OrderlyNext
<1> QED BY <1>1, <1>2 DEF Inv
\* With a network that waits for its answers and sends its history, every payment whose
\* decisions were all recorded is in order, whatever deliveries race.
THEOREM Orderliness ==
  ASSUME OrderlyRail
  PROVE  Spec => []Inv
<1>1. Init => Inv
  BY InvInit
<1>2. Inv /\ [Next]_vars => Inv'
  BY InvNext
<1> QED BY <1>1, <1>2, PTL DEF Spec

----------------------------------------------------------------------------
(* One increment, on a network whose increments may carry no history.       *)

\* The network waits for its answer, and asks for one payment twice at most.
OneIncrement == ~GivesUp /\ MaxAsks <= 2

\* What waits was asked, for more than was approved; the first request of a payment is
\* the only one until its increment, and has no history.
AskedTwice(p) ==
  /\ rail[p].waiting # NotWaiting =>
       LET q == rail[p].waiting.request IN
       q \in asked /\ q.payment = p /\ q.amount > rail[p].approved
  /\ rail[p].asks = 0 => \A q \in asked : q.payment # p
  /\ rail[p].asks <= 1 =>
       \A q, r \in asked : q.payment = p /\ r.payment = p => q = r /\ q.history = 0

\* No delivery of the request came too late to be decided.
InTime(q) ==
  \A c \in Caller : call[c].op = "decide" /\ call[c].request = q => ~RevisionTaken(call[c])

\* One request at most is not told from a new one by its history and amount: the increment,
\* which is recorded under a revision of the service's.  Who waits for an answer will get
\* the decision of this request, or no approval.
OneUndecided(p) ==
  /\ \A q, r \in Of(p) : Recorded(q) = {} /\ Recorded(r) = {} => q = r
  /\ \A q \in Of(p) : Recorded(q) = {} => rail[p].approved <= q.amount
  /\ \A q \in Of(p) : Waits(q) =>
       \/ Recorded(q) = {} /\ InTime(q)
       \/ /\ \A i \in RowsOf(p) : row[i].decision # "ALLOW"
          /\ \A r \in Of(p) : Recorded(r) # {}

\* Until the increment, the row of the first request is its decision.
FirstDecided(p) ==
  rail[p].asks <= 1 =>
    /\ \A q \in Of(p) : Waits(q) \/ Recorded(q) # {}
    /\ \A i \in RowsOf(p) :
         /\ row[i].revision = 0 /\ \E q \in Of(p) : q.amount = row[i].amount
         /\ row[i].decision = "ALLOW" => row[i].amount <= rail[p].approved

NextRevision(h, p) == IF RowsOf(p) = {} THEN h ELSE Larger(h, row[Latest(p)].revision + 1)

\* A delivery whose revision is still free has read what is so.
ReadsLatest(p, d) ==
  \/ RevisionTaken(d)
  \/ /\ Recorded(d.request) = {}
     /\ d.revision = NextRevision(d.request.history, p)
     /\ ~Closed(p) /\ MovedFor(p) = {} => HoldOf(p) = d.prior

HoldsEnough(p) == ~Closed(p) /\ MovedFor(p) = {} => rail[p].approved <= HoldOf(p)

Increased(p) ==
  /\ OneUndecided(p) /\ FirstDecided(p) /\ HoldsEnough(p)
  /\ \A c \in Caller :
       call[c].op = "decide" /\ call[c].request.payment = p => ReadsLatest(p, call[c])

IncreasedInv ==
  /\ Typed /\ DeliveriesFit /\ \A p \in Payment : AskedTwice(p)
  /\ \A p \in Payment \ failed : Increased(p)

\* What every delivery has read, put together.
LEMMA ReadsLatestMade ==
  ASSUME NEW p, OneUndecided(p)', FirstDecided(p)', HoldsEnough(p)',
         \A c \in Caller : \A d : d = call'[c] /\ d.op = "decide" /\ d.request.payment = p =>
           ReadsLatest(p, d)'
  PROVE  Increased(p)'
BY DEF Increased, ReadsLatest, Recorded, RevisionTaken, NextRevision, Larger

LEMMA AskedTwiceNext ==
  ASSUME OneIncrement, Typed, Typed', [Next]_vars, NEW p \in Payment, AskedTwice(p)
  PROVE  AskedTwice(p)'
<1>1. rail \in [Payment -> RailState] /\ asked \subseteq Request /\ rail[p].asks \in Nat
  BY RailFields DEF Typed
<1>2. CASE rail'[p] = rail[p] /\ UNCHANGED asked
  BY <1>2 DEF AskedTwice
<1>3. ASSUME NEW q \in Request, NEW decision, Reply(q, decision), UNCHANGED asked PROVE AskedTwice(p)'
  <2>1. rail'[p].asks = rail[p].asks /\ (rail'[p] = rail[p] \/ rail'[p].waiting = NotWaiting)
    BY <1>3, Replied
  <2> QED BY <1>3, <2>1 DEF AskedTwice
<1>4. ASSUME NEW x \in Payment, NEW h \in 0..MaxAsks, NEW a \in Amount, Ask(x, h, a) PROVE AskedTwice(p)'
  <2> DEFINE q == [payment |-> x, history |-> h, amount |-> a, named |-> card = "named"]
             w == [waits |-> TRUE, request |-> q]
  <2>1. /\ a > rail[x].approved /\ h \in {rail[x].asks, 0} /\ asked' = asked \cup {q}
        /\ rail' = [rail EXCEPT ![x].asks = @ + 1, ![x].waiting = w]
    BY <1>4 DEF Ask
  <2>2. q.payment = x /\ q.history = h /\ q.amount = a /\ w.request = q
    OBVIOUS
  <2> HIDE DEF w, q
  <2>3. CASE x # p
    <3>1. rail'[p] = rail[p]
      BY <1>1, <2>1, <2>3, RailAsked
    <3> QED BY <2>1, <2>2, <2>3, <3>1 DEF AskedTwice
  <2>4. CASE x = p
    <3>1. /\ rail'[p].asks = rail[p].asks + 1 /\ rail'[p].approved = rail[p].approved
          /\ rail'[p].waiting = w
      <4>1. rail'[p] = [state |-> rail[p].state, asks |-> rail[p].asks + 1,
                        approved |-> rail[p].approved, settled |-> rail[p].settled, waiting |-> w]
        BY <1>1, <2>1, <2>4, RailAsked
      <4> QED BY <4>1
    <3>2. rail'[p].asks # 0
      BY <1>1, <3>1
    <3>3. ASSUME rail'[p].asks <= 1
          PROVE  \A r, s \in asked' : r.payment = p /\ s.payment = p => r = s /\ r.history = 0
      <4>1. rail[p].asks = 0 /\ h = 0
        BY <1>1, <2>1, <2>4, <3>1, <3>3
      <4> QED BY <2>1, <2>2, <4>1 DEF AskedTwice
    <3> QED BY <2>1, <2>2, <2>4, <3>1, <3>2, <3>3 DEF AskedTwice
  <2> QED BY <2>3, <2>4
<1>5. ASSUME NEW x \in Payment, NEW to, NEW s, Ends(x, to, s) PROVE AskedTwice(p)'
  <2>1. UNCHANGED asked
    BY <1>5 DEF Ends
  <2>2. \/ rail'[p] = rail[p]
        \/ rail'[p] = [state |-> to, asks |-> rail[p].asks, approved |-> rail[p].approved,
                       settled |-> s, waiting |-> NotWaiting]
    BY <1>1, <1>5, RailEnded
  <2>3. rail'[p].asks = rail[p].asks /\ (rail'[p] = rail[p] \/ rail'[p].waiting = NotWaiting)
    BY <2>2
  <2> QED BY <2>1, <2>3 DEF AskedTwice
<1>6. CASE \E x \in Payment, s \in Amount : Close(x, s)
  BY <1>5, <1>6 DEF Close
<1>7. CASE \E x \in Payment : Unwind(x)
  BY <1>5, <1>7 DEF Unwind
<1> QED BY <1>2, <1>3, <1>4, <1>6, <1>7, RailStep

\* A step that decides nothing of the payment and asks nothing, whatever it settles.
LEMMA IncreasedFrame ==
  ASSUME Typed, Typed', NEW p \in Payment, Increased(p),
         SameRows(p), Latest(p)' = Latest(p), Of(p)' = Of(p),
         \A c \in Caller : call'[c].op = "decide" /\ call'[c].request.payment = p => call'[c] = call[c],
         rail'[p].approved = rail[p].approved, rail'[p].asks = rail[p].asks,
         \A q \in Of(p) : Waits(q)' => Waits(q),
         \A q \in Of(p) : Waits(q) /\ Recorded(q) = {} => Waits(q)',
         ~Closed(p)' /\ MovedFor(p)' = {} =>
           ~Closed(p) /\ MovedFor(p) = {} /\ HoldOf(p)' = HoldOf(p)
  PROVE  Increased(p)'
<1>1. /\ RowsOf(p)' = RowsOf(p)
      /\ \A i \in RowsOf(p) : /\ row'[i].revision = row[i].revision /\ row'[i].amount = row[i].amount
                              /\ row'[i].decision = row[i].decision
  BY DEF SameRows, Stays
<1>2. ASSUME NEW q, q.payment = p PROVE Recorded(q)' = Recorded(q)
  BY <1>2, RecordedSame
<1>3. ASSUME NEW d, d.request.payment = p PROVE RevisionTaken(d)' <=> RevisionTaken(d)
  BY <1>1, <1>3 DEF RevisionTaken
<1>4. \A q \in Of(p) : q.payment = p
  BY DEF Of
<1>5. ASSUME NEW q \in Of(p), InTime(q) PROVE InTime(q)'
  <2>1. ASSUME NEW c \in Caller, NEW d, d = call'[c], d.op = "decide", d.request = q
        PROVE  ~RevisionTaken(d)'
    BY <1>3, <1>4, <1>5, <2>1 DEF InTime
  <2> QED BY <2>1 DEF InTime, RevisionTaken
<1>6. OneUndecided(p)'
  BY <1>1, <1>2, <1>4, <1>5 DEF OneUndecided, Increased
<1>7. FirstDecided(p)'
  BY <1>1, <1>2, <1>4 DEF FirstDecided, Increased
<1>8. HoldsEnough(p)'
  BY DEF HoldsEnough, Increased
<1>9. ASSUME NEW c \in Caller, NEW d, d = call'[c], d.op = "decide", d.request.payment = p
      PROVE  ReadsLatest(p, d)'
  <2>1. ReadsLatest(p, d)
    BY <1>9 DEF Increased
  <2>2. NextRevision(d.request.history, p)' = NextRevision(d.request.history, p)
    <3>1. RowsOf(p) # {} => row'[Latest(p)].revision = row[Latest(p)].revision
      BY <1>1, LatestIs
    <3> QED BY <1>1, <3>1 DEF NextRevision, Larger
  <2> QED BY <1>2, <1>3, <1>9, <2>1, <2>2 DEF ReadsLatest
<1> QED BY <1>6, <1>7, <1>8, <1>9, ReadsLatestMade

\* A request that is refused or replayed: no answer to it is a yes it was not given.
LEMMA IncreasedReplies ==
  ASSUME IncreasedInv, Typed', [Next]_vars, NEW p \in Payment \ failed,
         \/ \E q \in Request : Unattributed(q) \/ Replay(q)
         \/ \E c \in Caller : ReplayWinner(c)
  PROVE  Increased(p)'
<1>1. Typed /\ Increased(p) /\ OneUndecided(p)
  BY DEF IncreasedInv, Increased
<1> DEFINE Answered(q, decision) ==
             /\ Reply(q, decision)
             /\ q.payment = p /\ Waits(q) =>
                  /\ decision # "ALLOW"
                  /\ ~q.named \/ \A r \in Of(p) : Recorded(r) # {}
             /\ UNCHANGED <<row, seen, asked, moved>>
             /\ \A b \in Caller : call'[b] = call[b] \/ call'[b] = Idle
<1>2. ASSUME NEW q \in Request, Unattributed(q) PROVE Answered(q, "DENY")
  BY <1>2 DEF Unattributed
<1>3. ASSUME NEW q \in Request, Replay(q) PROVE \E decision : Answered(q, decision)
  <2>1. PICK i \in Recorded(q) : Reply(q, row[i].decision)
    BY <1>3 DEF Replay
  <2>2. q.payment = p => q \in Of(p) /\ i \in RowsOf(p)
    BY <1>3, <2>1 DEF Replay, Of, Recorded
  <2>3. Answered(q, row[i].decision)
    BY <1>1, <1>3, <2>1, <2>2 DEF OneUndecided, Replay
  <2> QED BY <2>3
<1>4. ASSUME NEW c \in Caller, ReplayWinner(c) PROVE \E q \in Request : \E decision : Answered(q, decision)
  <2> DEFINE d == call[c]
             q == d.request
             decision == row[Latest(q.payment)].decision
  <2>1. /\ d.op = "decide" /\ RevisionTaken(d) /\ Reply(q, decision)
        /\ UNCHANGED <<row, seen, asked, moved>>
    BY <1>4 DEF ReplayWinner
  <2>2. q \in Request /\ q \in asked /\ q.named
    BY <1>1, <2>1, CallFields DEF IncreasedInv, DeliveriesFit
  <2>3. \A b \in Caller : call'[b] = call[b] \/ call'[b] = Idle
    BY <1>1, <1>4 DEF ReplayWinner, Becomes, Typed
  <2>4. ASSUME q.payment = p, Waits(q) PROVE decision # "ALLOW" /\ \A r \in Of(p) : Recorded(r) # {}
    <3>1. q \in Of(p) /\ ~InTime(q)
      BY <2>1, <2>2, <2>4 DEF Of, InTime
    <3>2. (\A i \in RowsOf(p) : row[i].decision # "ALLOW") /\ \A r \in Of(p) : Recorded(r) # {}
      <4> HIDE DEF q
      <4> QED BY <1>1, <2>4, <3>1 DEF OneUndecided
    <3>3. Latest(p) \in RowsOf(p)
      <4>1. RowsOf(p) # {}
        BY <2>1, <2>4 DEF RevisionTaken
      <4> QED BY <1>1, <4>1, LatestIs
    <3> QED BY <2>4, <3>2, <3>3
  <2> HIDE DEF q, decision
  <2>5. Answered(q, decision)
    BY <2>1, <2>3, <2>4
  <2> QED BY <2>2, <2>5
<1>5. PICK q \in Request : \E decision : Answered(q, decision)
  <2> HIDE DEF Answered
  <2> QED BY <1>2, <1>3, <1>4
<1>6. PICK decision : Answered(q, decision)
  BY <1>5
<1>7. /\ Untouched(p) /\ Kept(p) /\ Of(p)' = Of(p) /\ MovedFor(p)' = MovedFor(p)
      /\ Closed(p)' <=> Closed(p)
  BY <1>6 DEF Untouched, RowsOf, Used, Kept, Of, MovedFor, Closed, Idle
<1>8. SameRows(p) /\ Latest(p)' = Latest(p) /\ HoldOf(p)' = HoldOf(p)
  BY <1>1, <1>7, UntouchedIsSame, HoldUntouched
<1>9. /\ rail'[p].approved = rail[p].approved /\ rail'[p].asks = rail[p].asks
      /\ \A r \in Of(p) : Waits(r)' => Waits(r)
      /\ \A r \in Of(p) : Waits(r) /\ Recorded(r) = {} => Waits(r)'
  <2>1. CASE rail'[p] = rail[p]
    BY <2>1 DEF Waits, Of
  <2>2. CASE q.payment = p /\ Waits(q)
    <3>1. /\ rail'[p].approved = rail[p].approved /\ rail'[p].asks = rail[p].asks
          /\ rail'[p].waiting = NotWaiting
      BY <1>1, <1>6, <2>2, Replied
    <3>2. \A r \in Of(p) : ~Waits(r)'
      BY <3>1 DEF Waits, Of, NotWaiting
    <3>3. \A r \in Of(p) : Waits(r) => r = q /\ q.named
      BY <2>2 DEF Waits, Of
    <3> QED BY <1>6, <2>2, <3>1, <3>2, <3>3
  <2> QED BY <1>1, <1>6, <2>1, <2>2, ReplyFor
<1> HIDE DEF Answered
<1> QED BY <1>1, <1>7, <1>8, <1>9, IncreasedFrame DEF Kept

\* A delivery that begins has read what is so, and is in time.
LEMMA IncreasedBegins ==
  ASSUME IncreasedInv, Typed', [Next]_vars, NEW p \in Payment \ failed, NEW c \in Caller, NEW q \in Request,
         BeginDecide(c, q), q.payment = p
  PROVE  Increased(p)'
<1>1. Typed /\ Increased(p)
  BY DEF IncreasedInv
<1>2. /\ q \in Of(p) /\ Recorded(q) = {}
      /\ UNCHANGED <<clock, status, card, row, seen, moved, rail, asked, failed>>
      /\ \A b \in Caller : b # c => call'[b] = call[b]
  BY <1>1 DEF BeginDecide, Of, Becomes, Typed
<1>3. /\ Untouched(p) /\ Of(p)' = Of(p) /\ MovedFor(p)' = MovedFor(p) /\ rail'[p] = rail[p]
      /\ Closed(p)' <=> Closed(p)
      /\ \A r \in Of(p) : Waits(r)' <=> Waits(r)
      /\ \A r : Recorded(r)' = Recorded(r)
      /\ \A e : RevisionTaken(e)' <=> RevisionTaken(e)
  BY <1>2 DEF Untouched, RowsOf, Used, Of, MovedFor, Closed, Waits, Recorded, RevisionTaken
<1>4. HoldOf(p)' = HoldOf(p) /\ Latest(p)' = Latest(p) /\ RowsOf(p)' = RowsOf(p)
  BY <1>1, <1>3, HoldUntouched, UntouchedIsSame DEF Untouched
<1> DEFINE increment == RowsOf(p) # {}
           revision == IF increment THEN Larger(q.history, row[Latest(p)].revision + 1) ELSE q.history
           prior == IF increment THEN HoldOf(p) ELSE 0
           e == [op |-> "decide", request |-> q, increment |-> increment, now |-> clock,
                 revision |-> revision, prior |-> prior]
<1>5. call'[c] = e
  BY <1>1 DEF BeginDecide, Becomes, Typed
<1>6. revision = NextRevision(q.history, p)
  BY DEF NextRevision
<1>7. prior = HoldOf(p)
  <2>1. ~increment => NothingOut(p)
    BY DEF NothingOut
  <2> QED BY <1>1, <2>1, NothingHeld
<1>8. e.op = "decide" /\ e.request = q /\ e.revision = revision /\ e.prior = prior
  OBVIOUS
<1> HIDE DEF increment, prior, e
<1>9. ~RevisionTaken(e)
  <2>1. ASSUME NEW i \in RowsOf(p) PROVE row[i].revision # revision
    <3>1. /\ Latest(p) \in RowsOf(p) /\ row[i].revision <= row[Latest(p)].revision
      BY <1>1, LatestIs
    <3>2. row[i].revision \in Nat /\ row[Latest(p)].revision \in Nat /\ q.history \in Nat
      BY <1>1, <3>1, RowFields, RequestFields DEF RowsOf, Used, Typed
    <3> QED BY <3>1, <3>2 DEF increment, Larger
  <2> QED BY <1>8, <2>1 DEF RevisionTaken
<1> HIDE DEF revision
<1>10. ASSUME NEW r \in Of(p), InTime(r) PROVE InTime(r)'
  <2>1. ASSUME NEW b \in Caller, NEW f, f = call'[b], f.op = "decide", f.request = r
        PROVE  ~RevisionTaken(f)'
    <3>1. CASE b = c
      BY <1>3, <1>5, <1>9, <2>1, <3>1
    <3>2. CASE b # c
      BY <1>2, <1>3, <1>10, <2>1, <3>2 DEF InTime
    <3> QED BY <3>1, <3>2
  <2> QED BY <2>1 DEF InTime, RevisionTaken
<1>11. OneUndecided(p)'
  BY <1>1, <1>2, <1>3, <1>4, <1>10 DEF OneUndecided, Increased
<1>12. FirstDecided(p)' /\ HoldsEnough(p)'
  BY <1>1, <1>2, <1>3, <1>4 DEF FirstDecided, HoldsEnough, Increased
<1>13. ASSUME NEW b \in Caller, NEW f, f = call'[b], f.op = "decide", f.request.payment = p
       PROVE  ReadsLatest(p, f)'
  <2>1. \A h : NextRevision(h, p)' = NextRevision(h, p)
    BY <1>2, <1>4 DEF NextRevision, Larger
  <2>2. ReadsLatest(p, f)
    <3>1. CASE b = c
      <4>1. f.revision = revision /\ f.request = q /\ f.prior = prior
        BY <1>5, <1>8, <1>13, <3>1
      <4> QED BY <1>2, <1>6, <1>7, <4>1 DEF ReadsLatest
    <3>2. CASE b # c
      BY <1>1, <1>2, <1>13, <3>2 DEF Increased
    <3> QED BY <3>1, <3>2
  <2> QED BY <1>3, <1>4, <2>1, <2>2 DEF ReadsLatest
<1> QED BY <1>11, <1>12, <1>13, ReadsLatestMade

\* A decision of the one request that had none: whoever waited is told what it holds, and
\* every other delivery of it has come too late.
LEMMA IncreasedDecides ==
  ASSUME IncreasedInv, Typed', [Next]_vars, NEW c \in Caller, CommitDecide(c),
         NEW p \in Payment \ failed, call[c].request.payment = p
  PROVE  Increased(p)'
<1> DEFINE d == call[c]
           q == d.request
<1>1. Typed /\ Increased(p) /\ OneUndecided(p) /\ FirstDecided(p) /\ AskedTwice(p) /\ DeliveriesFit
  BY DEF IncreasedInv, Increased
<1>2. /\ d.op = "decide" /\ q \in Of(p) /\ q \in Request /\ q.payment = p
      /\ Recorded(q) = {} /\ d.revision = NextRevision(q.history, p)
      /\ ~Closed(p) /\ MovedFor(p) = {} => HoldOf(p) = d.prior
  <2>1. d.op = "decide" /\ ~RevisionTaken(d) /\ q \in asked /\ q.named
    BY <1>1 DEF CommitDecide, DeliveriesFit
  <2>2. ReadsLatest(p, d)
    BY <1>1, <2>1 DEF Increased
  <2> QED BY <1>1, <2>1, <2>2 DEF ReadsLatest, Of, Typed
<1>3. /\ q.amount \in Nat /\ q.history \in Nat /\ d.prior \in Int
      /\ HoldOf(p) \in Int /\ rail[p].approved \in Nat
  <2>1. d.prior \in Int
    BY <1>1, <1>2, CallFields
  <2>2. HoldOf(p) \in Int /\ rail[p].approved \in Nat
    BY <1>1, HoldInt, RailFields DEF Typed
  <2> HIDE DEF q, d
  <2> QED BY <1>2, <2>1, <2>2, RequestFields
<1>4. PICK i \in Id, v \in Policy.verdicts :
        /\ NextId(i) /\ i \notin Used /\ row[i] = NoRow
        /\ Reply(q, DecisionFor(d, v)) /\ row'[i] = Decided(d, DecisionFor(d, v))
        /\ \A j \in Id : j # i => row'[j] = row[j]
  BY <1>1, DecideWrites
<1> DEFINE decision == DecisionFor(d, v)
           x == Decided(d, decision)
<1>5. /\ x.ref = p /\ x.revision = d.revision /\ x.decision = decision /\ x.amount = q.amount
      /\ x.released = 0 /\ x.reserved = IF decision = "ALLOW" THEN q.amount - d.prior ELSE 0
  BY <1>2 DEF Decided, Delta
<1>6. OneMore(p, i, x)
  <2>1. \A j \in Id : (j \in RowsOf(p)' <=> row'[j].ref = p) /\ (j \in RowsOf(p) <=> row[j].ref = p)
    BY <1>1, OwnRows
  <2>2. RowsOf(p) \subseteq Id /\ RowsOf(p)' \subseteq Id
    BY DEF RowsOf, Used
  <2>3. row'[i].ref = p /\ row'[i] = x
    BY <1>4, <1>5
  <2> HIDE DEF x, d, q
  <2>4. RowsOf(p)' = RowsOf(p) \cup {i}
    BY <1>4, <2>1, <2>2, <2>3
  <2> QED BY <1>4, <2>3, <2>4 DEF OneMore
<1>7. UNCHANGED <<asked, moved, seen>> /\ \A b \in Caller : call'[b] = call[b] \/ call'[b] = Idle
  BY <1>1 DEF CommitDecide, Becomes, Typed
<1>8. /\ Of(p)' = Of(p) /\ MovedFor(p)' = MovedFor(p) /\ (Closed(p)' <=> Closed(p))
  BY <1>7 DEF Of, MovedFor, Closed
<1> HIDE DEF x, decision
<1>9. HoldOf(p)' = HoldOf(p) + x.reserved /\ x.reserved \in Int
  <2>1. HoldOf(p)' = HoldOf(p) + Outstanding(x)
    BY <1>1, <1>6, HoldOneMore
  <2>2. x.reserved \in Int
    BY <1>3, <1>5
  <2> QED BY <1>3, <1>5, <2>1, <2>2 DEF Outstanding
<1>10. /\ RowsOf(p)' = RowsOf(p) \cup {i} /\ row'[i] = x /\ i \notin RowsOf(p) /\ i \in Id
       /\ \A j \in RowsOf(p) : row'[j] = row[j]
  BY <1>6 DEF OneMore, RowsOf, Used
<1>11. Reply(q, decision)
  BY <1>4 DEF decision
<1> HIDE DEF q
<1>12. /\ rail'[p].asks = rail[p].asks
       /\ ~Waits(q) => rail'[p] = rail[p]
       /\ Waits(q) => /\ rail'[p].waiting = NotWaiting
                      /\ rail'[p].approved = IF decision = "ALLOW" THEN q.amount ELSE rail[p].approved
  BY <1>1, <1>2, <1>11, Replied
\* It was the only one undecided, so nothing waits any more.
<1>13. \A r \in Of(p) : Recorded(r) = {} => r = q
  BY <1>1, <1>2 DEF OneUndecided
<1>14. ASSUME NEW r \in Of(p) PROVE Recorded(r) \subseteq Recorded(r)'
  BY <1>10, <1>14 DEF Recorded, Of
<1>15. ASSUME NEW r \in Of(p) PROVE ~Waits(r)'
  <2>1. r.payment = p
    BY DEF Of
  <2>2. CASE Waits(q)
    BY <1>12, <2>1, <2>2 DEF Waits, NotWaiting
  <2>3. CASE ~Waits(q)
    <3>1. Waits(r)' <=> Waits(r)
      BY <1>12, <2>1, <2>3 DEF Waits
    <3>2. Waits(r) => r = q
      BY <1>1, <1>2, <1>13 DEF OneUndecided
    <3> QED BY <2>3, <3>1, <3>2
  <2> QED BY <2>2, <2>3
<1>16. rail[p].approved <= q.amount /\ rail'[p].approved <= q.amount
  <2>1. rail[p].approved <= q.amount
    BY <1>1, <1>2 DEF OneUndecided
  <2> QED BY <1>3, <1>12, <2>1
<1>17. OneUndecided(p)'
  BY <1>8, <1>13, <1>14, <1>15, <1>16 DEF OneUndecided
<1>18. FirstDecided(p)'
  <2> SUFFICES ASSUME rail[p].asks <= 1
               PROVE  /\ \A r \in Of(p) : Recorded(r)' # {}
                      /\ \A j \in RowsOf(p)' :
                           /\ row'[j].revision = 0 /\ \E r \in Of(p) : r.amount = row'[j].amount
                           /\ row'[j].decision = "ALLOW" => row'[j].amount <= rail'[p].approved
    BY <1>8, <1>12 DEF FirstDecided
  <2>1. \A r \in Of(p) : r = q /\ r.history = 0
    BY <1>1, <1>2 DEF AskedTwice, Of
  <2>2. RowsOf(p) = {}
    <3>1. ASSUME NEW j \in RowsOf(p) PROVE FALSE
      <4>1. row[j].revision = 0 /\ row[j].amount = q.amount /\ q.history = 0
        BY <1>1, <1>2, <2>1 DEF FirstDecided
      <4> QED BY <1>2, <4>1 DEF Recorded
    <3> QED BY <3>1
  <2>3. x.revision = 0 /\ q.history = 0
    BY <1>2, <1>5, <2>1, <2>2 DEF NextRevision
  <2>4. \A r \in Of(p) : i \in Recorded(r)'
    BY <1>2, <1>5, <1>10, <2>1, <2>3 DEF Recorded
  <2>5. Waits(q)
    BY <1>1, <1>2 DEF FirstDecided
  <2>6. x.decision = "ALLOW" => x.amount <= rail'[p].approved
    BY <1>3, <1>5, <1>12, <2>5
  <2>7. ASSUME NEW j \in RowsOf(p)' PROVE row'[j] = x
    BY <1>10, <2>2, <2>7
  <2> QED BY <1>2, <1>5, <2>3, <2>4, <2>6, <2>7
<1>19. HoldsEnough(p)'
  <2> SUFFICES ASSUME ~Closed(p), MovedFor(p) = {} PROVE rail'[p].approved <= HoldOf(p)'
    BY <1>8 DEF HoldsEnough
  <2>1. HoldOf(p) = d.prior /\ rail[p].approved <= HoldOf(p)
    BY <1>1, <1>2 DEF HoldsEnough, Increased
  <2>2. CASE decision = "ALLOW"
    BY <1>3, <1>5, <1>9, <1>16, <2>1, <2>2
  <2>3. CASE decision # "ALLOW"
    <3>1. rail'[p].approved = rail[p].approved
      BY <1>12, <2>3
    <3> QED BY <1>3, <1>5, <1>9, <2>1, <2>3, <3>1
  <2> QED BY <2>2, <2>3
<1>20. ASSUME NEW b \in Caller, NEW e, e = call'[b], e.op = "decide", e.request.payment = p
       PROVE  ReadsLatest(p, e)'
  <2>1. e = call[b]
    BY <1>7, <1>20 DEF Idle
  <2>2. RevisionTaken(e)'
    <3>1. CASE RevisionTaken(e)
      BY <1>10, <1>20, <3>1 DEF RevisionTaken
    <3>2. CASE ~RevisionTaken(e)
      <4>1. Recorded(e.request) = {} /\ e.revision = NextRevision(e.request.history, p)
        BY <1>1, <1>20, <2>1, <3>2 DEF Increased, ReadsLatest
      <4>2. e.request \in Of(p)
        BY <1>1, <1>20, <2>1 DEF DeliveriesFit, Of
      <4>3. e.revision = d.revision
        BY <1>2, <1>13, <4>1, <4>2
      <4> QED BY <1>5, <1>10, <1>20, <4>3 DEF RevisionTaken
    <3> QED BY <3>1, <3>2
  <2> QED BY <2>2 DEF ReadsLatest
<1> HIDE DEF d
<1> QED BY <1>17, <1>18, <1>19, <1>20, ReadsLatestMade

\* Money that moved and closing events leave the decisions as they are.
LEMMA IncreasedSettles ==
  ASSUME IncreasedInv, Typed', [Next]_vars, NEW p \in Payment \ failed,
         \/ \E c \in Caller : CommitUpdate(c) /\ call[c].payment = p
         \/ \E t \in Transaction, a \in Amount : TransactionEvent(t, p, a)
  PROVE  Increased(p)'
<1>1. Typed /\ Increased(p)
  BY DEF IncreasedInv
<1>2. ASSUME NEW c \in Caller, CommitUpdate(c), call[c].payment = p
      PROVE  /\ UNCHANGED <<moved, rail, asked>> /\ Closed(p)'
             /\ \A b \in Caller : call'[b] = call[b] \/ call'[b] = Idle
             /\ Untouched(p) \/ AllReleased(p)
  <2>1. /\ UNCHANGED <<moved, rail, asked>> /\ <<p, call[c].notice>> \in seen'
        /\ \A b \in Caller : call'[b] = call[b] \/ call'[b] = Idle
    BY <1>1, <1>2 DEF CommitUpdate, Becomes, Typed
  <2>2. call[c].notice \in Notice
    BY <1>1, <1>2, CallFields DEF CommitUpdate
  <2>3. UNCHANGED row => Untouched(p)
    BY DEF Untouched, RowsOf, Used
  <2> QED BY <1>1, <1>2, <2>1, <2>2, <2>3, UpdateSettles DEF Closed
<1>3. ASSUME NEW t \in Transaction, NEW a \in Amount, TransactionEvent(t, p, a)
      PROVE  /\ UNCHANGED <<call, rail, asked>> /\ MovedFor(p)' # {}
             /\ Untouched(p) \/ AllReleased(p)
  <2>1. UNCHANGED <<clock, status, card, call, seen, rail, asked, failed>>
    BY <1>3 DEF TransactionEvent
  <2>2. MovedFor(p)' = MovedFor(p) \cup {t}
    BY <1>1, <1>3, MovedOnce
  <2> QED BY <1>1, <1>3, <2>1, <2>2, TransactionSettles
<1>4. /\ UNCHANGED <<rail, asked>> /\ (Closed(p)' \/ MovedFor(p)' # {})
      /\ \A b \in Caller : call'[b] = call[b] \/ call'[b] = Idle
      /\ Untouched(p) \/ AllReleased(p)
  BY <1>2, <1>3
<1>5. SameRows(p) /\ Latest(p)' = Latest(p)
  BY <1>1, <1>4, UntouchedIsSame DEF AllReleased
<1>6. Of(p)' = Of(p) /\ \A q \in Of(p) : Waits(q)' <=> Waits(q)
  BY <1>4 DEF Of, Waits
<1> QED BY <1>1, <1>4, <1>5, <1>6, IncreasedFrame DEF Idle

\* The payment ends, and nothing of it waits.
LEMMA IncreasedEnds ==
  ASSUME OneIncrement, IncreasedInv, Typed', [Next]_vars, NEW p \in Payment \ failed, GoesOn(p),
         NEW to, NEW s, Ends(p, to, s)
  PROVE  Increased(p)'
<1>1. Typed /\ Increased(p) /\ rail \in [Payment -> RailState]
  BY DEF IncreasedInv, Typed
<1>2. rail[p].waiting = NotWaiting
  BY DEF GoesOn, OneIncrement
<1>3. rail'[p].approved = rail[p].approved /\ rail'[p].asks = rail[p].asks /\ rail'[p].waiting = NotWaiting
  <2>1. rail'[p] = [state |-> to, asks |-> rail[p].asks, approved |-> rail[p].approved,
                    settled |-> s, waiting |-> NotWaiting]
    BY <1>1, RailEnded
  <2> QED BY <2>1
<1>4. /\ Untouched(p) /\ UNCHANGED call /\ Of(p)' = Of(p) /\ MovedFor(p)' = MovedFor(p)
      /\ Closed(p)' <=> Closed(p)
  BY DEF Ends, Untouched, RowsOf, Used, Of, MovedFor, Closed
<1>5. SameRows(p) /\ Latest(p)' = Latest(p) /\ HoldOf(p)' = HoldOf(p)
  BY <1>1, <1>4, UntouchedIsSame, HoldUntouched
<1>6. \A q \in Of(p) : Waits(q)' <=> Waits(q)
  BY <1>2, <1>3 DEF Waits, Of
<1> QED BY <1>1, <1>3, <1>4, <1>5, <1>6, IncreasedFrame

\* An increment is new, and what came before it is decided.
LEMMA IncreasedAsks ==
  ASSUME OneIncrement, IncreasedInv, Typed', [Next]_vars, NEW p \in Payment \ failed,
         NEW h \in 0..MaxAsks, NEW a \in Amount, Ask(p, h, a)
  PROVE  Increased(p)'
<1> DEFINE q == [payment |-> p, history |-> h, amount |-> a, named |-> card = "named"]
           w == [waits |-> TRUE, request |-> q]
<1>1. /\ Typed /\ Increased(p) /\ FirstDecided(p) /\ AskedTwice(p) /\ DeliveriesFit
      /\ rail \in [Payment -> RailState] /\ rail[p].asks \in Nat /\ rail[p].approved \in Nat
  BY RailFields DEF IncreasedInv, Increased, Typed
<1>2. /\ rail[p].waiting = NotWaiting /\ rail[p].asks <= 1 /\ a > rail[p].approved /\ a \in Nat
      /\ asked' = asked \cup {q}
      /\ UNCHANGED <<clock, status, card, row, call, seen, moved, failed>>
  BY <1>1, CardAmountAssumption, CardBoundsAssumption DEF Ask, GoesOn, OneIncrement
<1>3. q.payment = p /\ q.history = h /\ q.amount = a /\ w.request = q /\ w.waits
  OBVIOUS
<1>4. rail' = [rail EXCEPT ![p].asks = @ + 1, ![p].waiting = w]
  BY DEF Ask
<1> HIDE DEF w
<1>5. /\ rail'[p].asks = rail[p].asks + 1 /\ rail'[p].approved = rail[p].approved
      /\ rail'[p].waiting = w
  <2>1. rail'[p] = [state |-> rail[p].state, asks |-> rail[p].asks + 1,
                    approved |-> rail[p].approved, settled |-> rail[p].settled, waiting |-> w]
    BY <1>1, <1>4, RailAsked
  <2> QED BY <2>1
<1>6. /\ Untouched(p) /\ MovedFor(p)' = MovedFor(p) /\ (Closed(p)' <=> Closed(p))
      /\ \A r : Recorded(r)' = Recorded(r)
      /\ \A e : RevisionTaken(e)' <=> RevisionTaken(e)
      /\ \A k : NextRevision(k, p)' = NextRevision(k, p)
  BY <1>2 DEF Untouched, RowsOf, Used, MovedFor, Closed, Recorded, RevisionTaken, NextRevision, Latest, Larger
<1>7. RowsOf(p)' = RowsOf(p) /\ HoldOf(p)' = HoldOf(p) /\ \A i \in RowsOf(p) : row'[i] = row[i]
  BY <1>1, <1>6, HoldUntouched DEF Untouched
<1>8. w = [waits |-> TRUE, request |-> q]
  BY DEF w
<1> HIDE DEF q
<1>9. /\ Of(p) \subseteq Of(p)' /\ Of(p)' \subseteq Of(p) \cup {q}
      /\ \A r \in Of(p)' : r.payment = p
  BY <1>2 DEF Of
<1>10. ASSUME NEW r \in Of(p) PROVE Recorded(r) # {}
  <2>1. r.payment = p
    BY <1>10 DEF Of
  <2>2. ~Waits(r)
    BY <1>2, <2>1 DEF Waits, NotWaiting
  <2> QED BY <1>1, <1>2, <1>10, <2>2 DEF FirstDecided
<1>11. ASSUME NEW r \in Of(p)', Recorded(r) = {} PROVE r = q
  BY <1>9, <1>10, <1>11
<1>12. ASSUME NEW r \in Of(p)', Waits(r)' PROVE r = q
  <2>1. rail'[p].waiting = [waits |-> TRUE, request |-> r]
    BY <1>9, <1>12 DEF Waits
  <2> QED BY <1>5, <1>8, <2>1
<1>13. ASSUME NEW r \in Of(p)', Recorded(r) = {} PROVE InTime(r)'
  <2>1. r \notin Of(p) /\ r.payment = p
    BY <1>9, <1>10, <1>13
  <2>2. ASSUME NEW b \in Caller, call[b].op = "decide" PROVE call[b].request # r
    <3>1. call[b].request \in asked /\ call[b].request.named
      BY <1>1, <2>2 DEF DeliveriesFit
    <3> QED BY <2>1, <3>1 DEF Of
  <2> QED BY <1>2, <2>2 DEF InTime
\* The increment of a request that was approved asks for more than any row of it.
<1>14. ASSUME Recorded(q) # {}, NEW i \in RowsOf(p) PROVE row[i].decision # "ALLOW"
  <2>1. PICK j \in RowsOf(p) : row[j].amount = a
    BY <1>3, <1>14 DEF Recorded
  <2>2. PICK r \in Of(p) : r.amount = row[i].amount
    BY <1>1, <1>2 DEF FirstDecided
  <2>3. PICK s \in Of(p) : s.amount = a
    BY <1>1, <1>2, <2>1 DEF FirstDecided
  <2>4. r = s
    BY <1>1, <1>2 DEF AskedTwice, Of
  <2> QED BY <1>1, <1>2, <2>2, <2>3, <2>4 DEF FirstDecided
<1>15. OneUndecided(p)'
  <2>1. \A r \in Of(p)' : Recorded(r)' = {} => rail'[p].approved <= r.amount
    BY <1>1, <1>2, <1>3, <1>5, <1>6, <1>11
  <2>2. ASSUME NEW r \in Of(p)', Waits(r)'
        PROVE  \/ Recorded(r)' = {} /\ InTime(r)'
               \/ /\ \A i \in RowsOf(p)' : row'[i].decision # "ALLOW"
                  /\ \A s \in Of(p)' : Recorded(s)' # {}
    <3>1. CASE Recorded(r) = {}
      BY <1>6, <1>13, <2>2, <3>1
    <3>2. CASE Recorded(r) # {}
      <4>1. Recorded(q) # {}
        BY <1>12, <2>2, <3>2
      <4>2. \A s \in Of(p)' : Recorded(s)' # {}
        BY <1>6, <1>11, <4>1
      <4> QED BY <1>7, <1>14, <4>1, <4>2
    <3> QED BY <3>1, <3>2
  <2> QED BY <1>6, <1>11, <2>1, <2>2 DEF OneUndecided
<1>16. FirstDecided(p)'
  <2> SUFFICES ASSUME rail[p].asks = 0
               PROVE  (\A r \in Of(p)' : Waits(r)') /\ RowsOf(p) = {}
    BY <1>1, <1>5, <1>7 DEF FirstDecided
  <2>1. Of(p) = {}
    BY <1>1 DEF AskedTwice, Of
  <2>2. RowsOf(p) = {}
    BY <1>1, <2>1 DEF FirstDecided
  <2>3. \A r \in Of(p)' : r = q /\ r.payment = p
    BY <1>9, <2>1
  <2>4. \A r \in Of(p)' : Waits(r)'
    BY <1>5, <1>8, <2>3 DEF Waits
  <2> QED BY <2>2, <2>4
<1>17. HoldsEnough(p)'
  BY <1>1, <1>5, <1>6, <1>7 DEF HoldsEnough, Increased
<1>18. ASSUME NEW b \in Caller, NEW e, e = call'[b], e.op = "decide", e.request.payment = p
       PROVE  ReadsLatest(p, e)'
  <2>1. ReadsLatest(p, e)
    BY <1>1, <1>2, <1>18 DEF Increased
  <2> QED BY <1>6, <1>7, <2>1 DEF ReadsLatest
<1> QED BY <1>15, <1>16, <1>17, <1>18, ReadsLatestMade

LEMMA IncreasedNext == OneIncrement /\ IncreasedInv /\ [Next]_vars => IncreasedInv'
<1> SUFFICES ASSUME OneIncrement, IncreasedInv, [Next]_vars PROVE IncreasedInv'
  OBVIOUS
<1>1. Typed' /\ DeliveriesFit' /\ \A p \in Payment : AskedTwice(p)'
  BY TypedNext, DeliveriesNext, AskedTwiceNext DEF IncreasedInv
<1>2. ASSUME NEW p \in Payment \ failed' PROVE Increased(p)'
  <2>1. Typed /\ p \in Payment \ failed /\ Increased(p)
    BY <1>2, Grows DEF IncreasedInv
  <2>2. CASE Elsewhere(p)
    <3>1. SameRows(p) /\ Latest(p)' = Latest(p) /\ HoldOf(p)' = HoldOf(p)
      BY <1>1, <2>1, <2>2, UntouchedIsSame, HoldUntouched DEF Elsewhere
    <3>2. \A q \in Of(p) : Waits(q)' <=> Waits(q)
      BY <2>2 DEF Elsewhere, Waits, Of
    <3> QED BY <1>1, <2>1, <2>2, <3>1, <3>2, IncreasedFrame DEF Elsewhere, Kept
  <2>3. CASE \E s \in Amount : Close(p, s)
    BY <1>1, <2>1, <2>3, IncreasedEnds DEF Close
  <2>4. CASE Unwind(p)
    BY <1>1, <2>1, <2>4, IncreasedEnds DEF Unwind
  <2>5. CASE \E h \in 0..MaxAsks, a \in Amount : Ask(p, h, a)
    BY <1>1, <2>1, <2>5, IncreasedAsks
  <2>6. CASE \E c \in Caller : CommitDecide(c) /\ call[c].request.payment = p
    BY <1>1, <2>1, <2>6, IncreasedDecides
  <2>7. CASE \/ \E c \in Caller : CommitUpdate(c) /\ call[c].payment = p
             \/ \E t \in Transaction, a \in Amount : TransactionEvent(t, p, a)
    BY <1>1, <2>1, <2>7, IncreasedSettles
  <2>8. CASE \E c \in Caller, q \in Request : BeginDecide(c, q) /\ q.payment = p
    BY <1>1, <2>1, <2>8, IncreasedBegins
  <2>9. CASE \/ \E q \in Request : Unattributed(q) \/ Replay(q)
             \/ \E c \in Caller : ReplayWinner(c)
    BY <1>1, <2>1, <2>9, IncreasedReplies
  <2>10. CASE \E c \in Caller, n \in Notice : BeginUpdate(c, p, n)
    <3>1. PICK c \in Caller, n \in Notice : BeginUpdate(c, p, n)
      BY <2>10
    <3>2. /\ UNCHANGED <<row, seen, moved, rail, asked>> /\ call'[c].op = "update"
          /\ \A b \in Caller : b # c => call'[b] = call[b]
      BY <2>1, <3>1 DEF BeginUpdate, Becomes, Typed
    <3>3. /\ Untouched(p) /\ rail'[p] = rail[p] /\ Of(p)' = Of(p) /\ MovedFor(p)' = MovedFor(p)
          /\ Closed(p)' <=> Closed(p)
          /\ \A q \in Of(p) : Waits(q)' <=> Waits(q)
      BY <3>2 DEF Untouched, RowsOf, Used, Of, MovedFor, Closed, Waits
    <3>4. SameRows(p) /\ Latest(p)' = Latest(p) /\ HoldOf(p)' = HoldOf(p)
      BY <1>1, <2>1, <3>3, UntouchedIsSame, HoldUntouched
    <3>5. \A b \in Caller : call'[b].op = "decide" => call'[b] = call[b]
      BY <3>2
    <3> QED BY <1>1, <2>1, <3>3, <3>4, <3>5, IncreasedFrame
  <2> QED BY <1>1, <1>2, <2>1, <2>2, <2>3, <2>4, <2>5, <2>6, <2>7, <2>8, <2>9, <2>10, PaymentStep
<1> QED BY <1>1, <1>2 DEF IncreasedInv

LEMMA IncreasedInit == Init => IncreasedInv
<1> SUFFICES ASSUME Init PROVE IncreasedInv
  OBVIOUS
<1>1. Typed /\ DeliveriesFit
  BY TypedInit, AskedInit
<1>2. /\ asked = {} /\ \A c \in Caller : call[c].op = "idle"
      /\ \A p \in Payment : rail[p].waiting = NotWaiting /\ rail[p].approved = 0
  BY DEF Init, Idle
<1>3. \A p \in Payment : AskedTwice(p)
  BY <1>2 DEF AskedTwice
<1>4. ASSUME NEW p \in Payment PROVE Increased(p)
  <2>1. Of(p) = {} /\ RowsOf(p) = {}
    BY <1>2 DEF Of, Init, RowsOf, Used, NoRow
  <2>2. HoldOf(p) = 0
    BY <1>1, <2>1, NothingHeld DEF NothingOut
  <2>3. OneUndecided(p) /\ FirstDecided(p) /\ HoldsEnough(p)
    BY <1>2, <2>1, <2>2 DEF OneUndecided, FirstDecided, HoldsEnough
  <2> QED BY <1>2, <2>3 DEF Increased
<1> QED BY <1>1, <1>3, <1>4 DEF IncreasedInv


\* D-79: the network is never told yes to more than the ledger holds for the payment (the
\* request handler of the card rail, its replays and its losing races), of two networks
\* that wait for their answers: one that says with every increment what came before it,
\* and one that need not, and increases a payment once.  On a network that gives up
\* waiting, or that increases a payment twice without its history, it is not so.
THEOREM ApprovalsAreHeld ==
  ASSUME OrderlyRail \/ OneIncrement
  PROVE  Spec => []ApprovedIsHeld
<1>1. ASSUME OrderlyRail PROVE Spec => []ApprovedIsHeld
  <2>1. Inv => ApprovedIsHeld
    <3> SUFFICES ASSUME Inv, NEW p \in Payment \ failed, ~Closed(p), MovedFor(p) = {}
                 PROVE  rail[p].approved <= HoldOf(p)
      BY DEF ApprovedIsHeld
    <3>1. HoldOf(p) = rail[p].approved /\ rail[p].approved \in Nat
      BY RailFields DEF Inv, Orderly, HoldsApproved, Typed
    <3> QED BY <3>1
  <2>2. Spec => []Inv
    BY <1>1, Orderliness
  <2> QED BY <2>1, <2>2, PTL
<1>2. ASSUME OneIncrement PROVE Spec => []ApprovedIsHeld
  <2>1. IncreasedInv => ApprovedIsHeld
    BY DEF ApprovedIsHeld, IncreasedInv, Increased, HoldsEnough
  <2>2. IncreasedInv /\ [Next]_vars => IncreasedInv'
    BY <1>2, IncreasedNext
  <2> QED BY <2>1, <2>2, IncreasedInit, PTL DEF Spec
<1> QED BY <1>1, <1>2

\* D-83: when a closing event was applied nothing is held of the payment any more, over
\* all its revisions (settleExternalAuthorization, releaseExternalAuthorization), if the
\* network waits for its answers and sends the history of its increments.
THEOREM NothingStaysHeld ==
  ASSUME OrderlyRail
  PROVE  Spec => []NothingHeldAfterClose
<1>1. Inv => NothingHeldAfterClose
  BY NothingHeld DEF NothingHeldAfterClose, Inv, Orderly, HoldsApproved
<1> QED BY <1>1, Orderliness, PTL
----------------------------------------------------------------------------
(* The limits of the policy.                                                *)

LEMMA LimitFields ==
  ASSUME NEW l \in Policy.limits
  PROVE  l.max_amount \in Nat /\ l.max_count \in Nat /\ l.window \in Nat \ {0}
BY CardPolicyAssumption DEF PolicyType, Limit

\* What a row holds in a window.
HeldRow(l, t, i) == IF i \in InWindow(l, t) THEN Outstanding(row[i]) ELSE 0

LEMMA HeldTotal ==
  ASSUME Typed, NEW l, NEW t
  PROVE  /\ [i \in Id |-> HeldRow(l, t, i)] \in [1..MaxRows -> Int]
         /\ HeldIn(l, t) = Total([i \in Id |-> HeldRow(l, t, i)], MaxRows)
         /\ HeldIn(l, t) \in Int /\ HeldIn(l, t) <= SpentIn(l, t) /\ SpentIn(l, t) \in Int
<1> DEFINE f == [i \in Id |-> HeldRow(l, t, i)]
           g == [i \in Id |-> IF i \in InWindow(l, t) THEN row[i].captured ELSE 0]
<1>1. f \in [1..MaxRows -> Int]
  BY OutstandingInt DEF HeldRow, Id
<1>2. HeldIn(l, t) = Total(f, MaxRows)
  BY DEF HeldIn, HeldRow
<1>3. g \in [1..MaxRows -> Int] /\ \A i \in 1..MaxRows : g[i] >= 0
  BY OutstandingInt DEF Id
<1>4. SpentIn(l, t) = HeldIn(l, t) + Total(g, MaxRows)
  BY DEF SpentIn
<1> HIDE DEF f, g
<1>5. Total(f, MaxRows) \in Int /\ Total(g, MaxRows) \in Int /\ Total(g, MaxRows) >= 0
  BY <1>1, <1>3, TotalInt, TotalNonNegative, CardBoundsAssumption
<1> QED BY <1>1, <1>2, <1>4, <1>5 DEF f

\* A row stays in the window it was decided in.
LEMMA WindowStays ==
  ASSUME Typed, [Next]_vars, NEW l, NEW t, NEW i \in Used
  PROVE  i \in InWindow(l, t)' <=> i \in InWindow(l, t)
<1>1. i \in Id /\ Stays(i)
  BY RowsStay DEF Used
<1>2. i \in Used' /\ row'[i].at = row[i].at
  BY <1>1 DEF Used, Stays
<1> QED BY <1>2 DEF InWindow

\* No step but a decision makes a row hold more.
LEMMA OnlyDecisionsHold ==
  ASSUME Typed, Typed', [Next]_vars, \A p \in Payment : HoldsWhole(p),
         \A c \in Caller : ~CommitDecide(c), NEW i \in Id
  PROVE  /\ i \in Used => Outstanding(row'[i]) <= Outstanding(row[i])
         /\ i \notin Used => Outstanding(row'[i]) = 0
<1>1. CASE i \in Used
  <2>1. Stays(i) /\ row[i].reserved \in Int /\ row[i].released \in Int
    BY <1>1, RowsStay, RowFields DEF Used, Typed
  <2>2. CASE row'[i].released = row[i].released
    <3>1. row'[i].reserved = row[i].reserved
      BY <2>1 DEF Stays
    <3>2. Outstanding(row'[i]) = Outstanding(row[i]) /\ Outstanding(row[i]) \in Int
      BY <2>2, <3>1, OutstandingInt DEF Outstanding
    <3> QED BY <1>1, <3>2
  <2>3. CASE row[i].ref \in Payment /\ row'[i].released = row[i].reserved
    <3>1. Outstanding(row[i]) >= 0
      BY <1>1, <2>3, HoldNonNegative DEF RowsOf
    <3> QED BY <2>1, <2>3, <3>1 DEF Stays, Outstanding
  <2> QED BY <1>1, <2>1, <2>2, <2>3 DEF Stays
<1>2. CASE i \notin Used
  <2>1. row[i].status = "NONE"
    BY <1>2 DEF Used
  <2>2. CASE row'[i].status = "NONE"
    <3>1. row'[i] = NoRow
      BY <2>2, RowFields DEF Typed
    <3> QED BY <1>2, <3>1 DEF Outstanding, NoRow
  <2>3. ASSUME NEW t, NEW a, row'[i] = Unauthorized(t, a) PROVE Outstanding(row'[i]) = 0
    BY <2>3 DEF Outstanding, Unauthorized
  <2> QED BY <1>2, <2>1, <2>2, <2>3, NewRow
<1> QED BY <1>1, <1>2

LEMMA HeldOnlyShrinks ==
  ASSUME Typed, Typed', [Next]_vars, \A p \in Payment : HoldsWhole(p),
         \A c \in Caller : ~CommitDecide(c), NEW l, NEW t
  PROVE  HeldIn(l, t)' <= HeldIn(l, t)
<1> DEFINE f == [i \in Id |-> HeldRow(l, t, i)]
           g == [i \in Id |-> HeldRow(l, t, i)']
<1>1. f \in [1..MaxRows -> Int] /\ HeldIn(l, t) = Total(f, MaxRows)
  BY HeldTotal
<1>2. \A i \in Id : Outstanding(row'[i]) \in Int
  BY RowFields DEF Typed, Outstanding
<1>3. g \in [1..MaxRows -> Int] /\ HeldIn(l, t)' = Total(g, MaxRows)
  BY <1>2 DEF HeldIn, HeldRow, Id
<1>4. ASSUME NEW i \in Id PROVE HeldRow(l, t, i)' <= HeldRow(l, t, i)
  <2>1. CASE i \in Used
    <3>1. i \in InWindow(l, t)' <=> i \in InWindow(l, t)
      BY <2>1, WindowStays
    <3>2. Outstanding(row'[i]) <= Outstanding(row[i])
      BY <2>1, OnlyDecisionsHold
    <3> QED BY <3>1, <3>2 DEF HeldRow
  <2>2. CASE i \notin Used
    <3>1. i \notin InWindow(l, t) /\ Outstanding(row'[i]) = 0
      BY <2>2, OnlyDecisionsHold DEF InWindow
    <3> QED BY <3>1 DEF HeldRow
  <2> QED BY <2>1, <2>2
<1>5. \A i \in 1..MaxRows : g[i] <= f[i]
  BY <1>4 DEF Id
<1> HIDE DEF f, g
<1> QED BY <1>1, <1>3, <1>5, TotalMonotone, CardBoundsAssumption

\* A decision holds what it decided on, in the windows of its instant.
LEMMA DecisionHolds ==
  ASSUME Typed, Typed', [Next]_vars, NEW c \in Caller, CommitDecide(c), NEW i \in Id, i \notin Used,
         NEW x, row'[i] = x, \A j \in Id : j # i => row'[j] = row[j], NEW l, NEW t
  PROVE  HeldIn(l, t)' =
           HeldIn(l, t) + (IF x.status # "NONE" /\ x.at \div l.window = t \div l.window
                           THEN Outstanding(x) ELSE 0)
<1> DEFINE f == [j \in Id |-> HeldRow(l, t, j)]
           g == [j \in Id |-> HeldRow(l, t, j)']
           more == IF x.status # "NONE" /\ x.at \div l.window = t \div l.window
                   THEN Outstanding(x) ELSE 0
<1>1. f \in [1..MaxRows -> Int] /\ HeldIn(l, t) = Total(f, MaxRows)
  BY HeldTotal
<1>2. \A j \in Id : Outstanding(row'[j]) \in Int
  BY RowFields DEF Typed, Outstanding
<1>3. g \in [1..MaxRows -> Int] /\ HeldIn(l, t)' = Total(g, MaxRows)
  BY <1>2 DEF HeldIn, HeldRow, Id
<1>4. f[i] = 0 /\ g[i] = more /\ more \in Int
  <2>1. i \notin InWindow(l, t)
    BY DEF InWindow
  <2>2. i \in InWindow(l, t)' <=> (x.status # "NONE" /\ x.at \div l.window = t \div l.window)
    BY DEF InWindow, Used
  <2>3. Outstanding(x) \in Int
    BY <1>2
  <2> QED BY <2>1, <2>2, <2>3 DEF HeldRow
<1>5. \A j \in Id : j # i => g[j] = f[j]
  <2>1. \A j \in Id : j # i => (j \in InWindow(l, t)' <=> j \in InWindow(l, t))
    BY DEF InWindow, Used
  <2> QED BY <2>1 DEF HeldRow
<1> HIDE DEF f, g, more
<1>6. Total(g, MaxRows) = Total(f, MaxRows) + g[i] - f[i]
  BY <1>1, <1>3, <1>5, TotalChangeOne, CardBoundsAssumption DEF Id
<1>7. Total(f, MaxRows) \in Int
  BY <1>1, TotalInt, CardBoundsAssumption
<1> QED BY <1>1, <1>3, <1>4, <1>6, <1>7 DEF more
\* A decision says yes only if what it adds fits every limit as the ledger then stands.
LEMMA YesFits ==
  ASSUME NEW d, NEW v, DecisionFor(d, v) = "ALLOW", NEW l \in Policy.limits
  PROVE  ~OverLimit(l, d)
BY DEF DecisionFor

LEMMA CapNext == Inv /\ Typed' /\ HoldsWithinCap /\ [Next]_vars => HoldsWithinCap'
<1> SUFFICES ASSUME Inv, Typed', HoldsWithinCap, [Next]_vars, failed' = {},
                    NEW l \in Policy.limits, NEW t \in Time
             PROVE  HeldIn(l, t)' <= l.max_amount
  BY DEF HoldsWithinCap
<1>1. Typed /\ failed = {} /\ \A p \in Payment : HoldsWhole(p)
  BY Grows DEF Inv, Orderly
<1>2. HeldIn(l, t) <= l.max_amount /\ HeldIn(l, t) \in Int /\ l.max_amount \in Nat
  BY <1>1, HeldTotal, LimitFields DEF HoldsWithinCap
<1>3. HeldIn(l, t)' \in Int
  <2> DEFINE g == [i \in Id |-> HeldRow(l, t, i)']
  <2>1. \A i \in Id : Outstanding(row'[i]) \in Int
    BY RowFields DEF Typed, Outstanding
  <2>2. g \in [1..MaxRows -> Int] /\ HeldIn(l, t)' = Total(g, MaxRows)
    BY <2>1 DEF HeldIn, HeldRow, Id
  <2> HIDE DEF g
  <2> QED BY <2>2, TotalInt, CardBoundsAssumption
<1>4. CASE \A c \in Caller : ~CommitDecide(c)
  <2>1. HeldIn(l, t)' <= HeldIn(l, t)
    BY <1>1, <1>4, HeldOnlyShrinks
  <2> QED BY <1>2, <1>3, <2>1
<1>5. ASSUME NEW c \in Caller, CommitDecide(c) PROVE HeldIn(l, t)' <= l.max_amount
  <2> DEFINE d == call[c]
  <2>1. PICK i \in Id, v \in Policy.verdicts :
          /\ i \notin Used /\ row'[i] = Decided(d, DecisionFor(d, v))
          /\ \A j \in Id : j # i => row'[j] = row[j]
    BY <1>1, <1>5, DecideWrites
  <2> DEFINE x == Decided(d, DecisionFor(d, v))
  <2>2. /\ HeldIn(l, t)' =
             HeldIn(l, t) + (IF x.status # "NONE" /\ x.at \div l.window = t \div l.window
                             THEN Outstanding(x) ELSE 0)
    <3> HIDE DEF x, d
    <3>1. row'[i] = x
      BY <2>1 DEF x
    <3> QED BY <1>1, <1>5, <2>1, <3>1, DecisionHolds
  <2>3. d.prior \in Int /\ d.request.amount \in Nat
    <3>1. d.request \in Request /\ d.prior \in Int
      BY <1>1, <1>5, CallFields DEF CommitDecide
    <3> HIDE DEF d
    <3> QED BY <3>1, RequestFields
  <2>4. /\ x.at = d.now
        /\ Outstanding(x) = IF DecisionFor(d, v) = "ALLOW" THEN d.request.amount - d.prior ELSE 0
    BY <2>3 DEF Decided, Outstanding, Delta
  <2>5. CASE DecisionFor(d, v) = "ALLOW" /\ d.now \div l.window = t \div l.window
    <3>1. ~OverLimit(l, d)
      BY <2>5, YesFits
    <3>2. InWindow(l, d.now) = InWindow(l, t)
      BY <2>5 DEF InWindow
    <3>3. HeldIn(l, d.now) = HeldIn(l, t)
      BY <3>2 DEF HeldIn
    <3> HIDE DEF x, d
    <3>4. HeldIn(l, d.now) \in Int /\ HeldIn(l, d.now) <= SpentIn(l, d.now) /\ SpentIn(l, d.now) \in Int
      BY <1>1, HeldTotal
    <3>5. ~(SpentIn(l, d.now) + (d.request.amount - d.prior) > l.max_amount)
      BY <3>1 DEF OverLimit
    <3>6. HeldIn(l, t) + (d.request.amount - d.prior) <= l.max_amount
      BY <1>2, <2>3, <3>3, <3>4, <3>5
    <3> QED BY <1>2, <2>2, <2>3, <2>4, <2>5, <3>6
  <2>6. CASE ~(DecisionFor(d, v) = "ALLOW" /\ d.now \div l.window = t \div l.window)
    <3> HIDE DEF x, d
    <3>1. HeldIn(l, t)' = HeldIn(l, t)
      BY <1>2, <2>2, <2>4, <2>6
    <3> QED BY <1>2, <3>1
  <2> QED BY <2>5, <2>6
<1> QED BY <1>4, <1>5

\* D-4, D-79: in no window of no limit do the holds of card payments exceed it: though
\* an increment was sized before the lock, it is decided against the ledger under it.
\* Of a network that waits for its answers and sends the history of its increments.
THEOREM HoldsStayWithinCap ==
  ASSUME OrderlyRail
  PROVE  Spec => []HoldsWithinCap
<1>1. Init => HoldsWithinCap
  <2> SUFFICES ASSUME Init, NEW l \in Policy.limits, NEW t PROVE HeldIn(l, t) <= l.max_amount
    BY DEF HoldsWithinCap
  <2> DEFINE f == [i \in Id |-> HeldRow(l, t, i)]
  <2>1. Used = {}
    BY DEF Init, Used, NoRow
  <2>2. f \in [1..MaxRows -> Int] /\ HeldIn(l, t) = Total(f, MaxRows) /\ \A i \in Id : f[i] = 0
    BY <2>1, TypedInit, HeldTotal DEF HeldRow, InWindow
  <2> HIDE DEF f
  <2>3. HeldIn(l, t) = 0
    BY <2>2, TotalZero, CardBoundsAssumption DEF Id
  <2> QED BY <2>3, LimitFields
<1>2. Inv /\ Inv' /\ HoldsWithinCap /\ [Next]_vars => HoldsWithinCap'
  BY CapNext DEF Inv
<1> QED BY <1>1, <1>2, Orderliness, PTL DEF Spec
----------------------------------------------------------------------------
(* The count of a limit.                                                    *)

Counts(i) == row[i].decision = "ALLOW" /\ (Outstanding(row[i]) > 0 \/ row[i].captured > 0)

\* The payments that hold a slot of a window, and those a decision counts in it.
SlotsOf(l, t) == {p \in Payment : \E i \in RowsOf(p) \cap InWindow(l, t) : Counts(i)}
CountedIn(l, t, excluded) ==
  {x \in (Payment \cup Transaction) \ {excluded} :
     LET mine == RowsOf(x) \cap InWindow(l, t)
     IN \/ \E i \in mine : row[i].captured > 0
        \/ /\ \E i \in mine : row[i].decision = "ALLOW"
           /\ \A i \in mine : row[i].released = 0}

LEMMA SlotsDef ==
  /\ ApprovedWithinCount <=>
       (failed = {} => \A l \in Policy.limits, t \in Time : Cardinality(SlotsOf(l, t)) <= l.max_count)
  /\ \A l, t, excluded : CountIn(l, t, excluded) = Cardinality(CountedIn(l, t, excluded))
BY DEF ApprovedWithinCount, SlotsOf, Counts, CountIn, CountedIn

\* Both are finite: they have rows, and there are finitely many.
LEMMA SlotsFinite ==
  ASSUME NEW S, \A x \in S : RowsOf(x) # {}
  PROVE  IsFiniteSet(S)
<1> DEFINE U == {i \in Id : row[i].ref \in S}
           f == [i \in U |-> row[i].ref]
<1>1. IsFiniteSet(Id)
  BY FS_Interval, CardBoundsAssumption DEF Id
<1>2. IsFiniteSet(U)
  BY <1>1, FS_Subset
<1>3. f \in Surjection(U, S)
  <2>1. \A x \in S : \E i \in U : f[i] = x
    BY DEF RowsOf, Used
  <2> QED BY <2>1 DEF Surjection
<1> HIDE DEF f, U
<1> QED BY <1>2, <1>3, FS_Surjection

\* A later instant is in no earlier window.
LEMMA WindowsInOrder ==
  ASSUME NEW a \in Nat, NEW b \in Nat, NEW w \in Nat \ {0}
  PROVE  a \div w \in Nat /\ (a <= b => a \div w <= b \div w)
<1>1. a \div w \in Nat
  OBVIOUS
<1>2. a <= b => a \div w <= b \div w
  OBVIOUS
<1> QED BY <1>1, <1>2

\* A payment that holds a slot is counted, unless it is the one being decided: if some
\* revision of it in the window was let go of, a later one there was captured.
LEMMA SlotsAreCounted ==
  ASSUME Inv, NEW p \in Payment \ failed, NEW l \in Policy.limits, NEW t \in Time, NEW excluded,
         p \in SlotsOf(l, t), p # excluded
  PROVE  p \in CountedIn(l, t, excluded)
<1> DEFINE mine == RowsOf(p) \cap InWindow(l, t)
<1>1. Typed /\ HoldsWhole(p) /\ ReleasedIsCaptured(p) /\ l.window \in Nat \ {0}
  BY LimitFields DEF Inv, Orderly
<1>2. PICK i \in mine : Counts(i)
  BY DEF SlotsOf
<1>3. \A k \in mine : row[k].captured \in Nat /\ row[k].released \in Int /\ row[k].reserved \in Int
                      /\ (row[k].decision # "ALLOW" => row[k].reserved = 0) /\ row[k].at \in Nat
  BY <1>1, RowFields DEF RowsOf, Used, Typed
<1>4. CASE \E k \in mine : row[k].captured > 0
  BY <1>4 DEF CountedIn
<1>5. CASE ~\E k \in mine : row[k].captured > 0
  <2>1. row[i].decision = "ALLOW" /\ Outstanding(row[i]) > 0
    BY <1>2, <1>5 DEF Counts
  <2>2. ASSUME NEW j \in mine, row[j].released # 0 PROVE FALSE
    <3>1. row[j].released > 0
      BY <1>1, <1>3, <2>2 DEF HoldsWhole
    <3>2. PICK k \in RowsOf(p) : row[k].captured > 0 /\ row[j].at <= row[k].at /\ row[k].at <= row[i].at
      BY <1>1, <2>1, <3>1 DEF ReleasedIsCaptured
    <3>3. row[k].at \in Nat /\ k \in Used
      BY <1>1, RowFields DEF RowsOf, Used, Typed
    <3>4. row[j].at \div l.window = t \div l.window /\ row[i].at \div l.window = t \div l.window
      BY DEF InWindow
    <3>5. row[k].at \div l.window = t \div l.window
      <4>1. /\ row[j].at \div l.window <= row[k].at \div l.window
            /\ row[k].at \div l.window <= row[i].at \div l.window
        BY <1>1, <1>3, <3>2, <3>3, WindowsInOrder
      <4>2. row[k].at \div l.window \in Int /\ t \div l.window \in Int
        BY <1>1, <3>3, <3>4, WindowsInOrder, CardBoundsAssumption DEF Time
      <4> QED BY <3>4, <4>1, <4>2
    <3>6. k \in mine
      BY <3>3, <3>5 DEF InWindow
    <3> QED BY <1>5, <3>2, <3>6
  <2> QED BY <1>2, <2>1, <2>2 DEF CountedIn
<1> QED BY <1>4, <1>5
\* Only a settlement captures, on the latest row, and never of a payment that was
\* unwound and holds nothing.
LEMMA CapturedOnLatest ==
  ASSUME Typed, Typed', [Next]_vars, NEW i \in Used, NEW p \in Payment, i \in RowsOf(p), HoldsWhole(p),
         row'[i].captured # row[i].captured
  PROVE  i = Latest(p) /\ ~(rail[p].state = "unwound" /\ NothingOut(p))
<1>1. i \in Id /\ row[i].ref = p /\ row[i].captured \in Nat /\ row[i].status # "NONE"
  BY RowFields DEF Typed, Used, RowsOf
<1>2. ASSUME NEW q \in Payment \cup {NoRef}, NEW s \in Nat, row'[i] = Settled(q, s)[i]
      PROVE  q = p /\ i = Latest(p)
  <2>1. i \in RowsOf(q)
    BY <1>1, <1>2, SettledFields
  <2>2. q = p
    BY <1>1, <2>1 DEF RowsOf
  <2>3. i # Latest(p) => row'[i].captured = row[i].captured
    BY <1>1, <1>2, <2>1, <2>2, SettledFields
  <2> QED BY <2>2, <2>3
<1>3. ASSUME NEW q \in Payment, row'[i] = Released(q)[i] PROVE FALSE
  BY <1>1, <1>3, ReleasedFields
<1>4. ASSUME NEW c \in Caller, CommitDecide(c) PROVE FALSE
  BY <1>1, <1>4, DecideWrites
<1>5. ASSUME NEW c \in Caller, CommitUpdate(c)
      PROVE  i = Latest(p) /\ ~(rail[p].state = "unwound" /\ NothingOut(p))
  <2> DEFINE q == call[c].payment
  <2>1. q \in Payment /\ rail[q].settled \in Nat
    BY <1>5, CallFields, RailFields DEF CommitUpdate, Typed
  <2>2. \/ row' = row \/ row' = Released(q)
        \/ row' = Settled(q, rail[q].settled) /\ rail[q].state # "unwound"
    BY <1>5 DEF CommitUpdate
  <2> HIDE DEF q
  <2> QED BY <1>2, <1>3, <2>1, <2>2
<1>6. ASSUME NEW t \in Transaction, NEW q \in Payment \cup {NoRef}, NEW a \in Amount,
             TransactionEvent(t, q, a)
      PROVE  i = Latest(p) /\ ~(rail[p].state = "unwound" /\ NothingOut(p))
  <2> DEFINE s == Settleable(q, a)
             settled == IF s > 0 THEN Settled(q, s) ELSE row
             x == Unauthorized(t, a - s)
  <2>1. s \in Nat /\ (s > 0 => q \in Payment /\ s <= HoldOf(q))
    BY SettleableIs
  <2>2. /\ settled \in [Id -> CardRow]
        /\ row' = settled \/ \E k \in Id : NextId(k) /\ row' = [settled EXCEPT ![k] = x]
    BY <1>6, TransactionRows
  <2>3. settled = row \/ (s > 0 /\ settled = Settled(q, s))
    OBVIOUS
  <2> HIDE DEF settled, x, s
  <2>4. row'[i] = settled[i]
    BY <1>1, <2>2 DEF NextId
  <2>5. s > 0 /\ q = p /\ i = Latest(p)
    BY <1>2, <2>1, <2>3, <2>4
  <2>6. HoldOf(p) > 0
    BY <2>1, <2>5, HoldInt
  <2>7. ~NothingOut(p)
    BY <2>6, NothingHeld
  <2> QED BY <2>5, <2>7
<1> QED BY <1>4, <1>5, <1>6, RowStep

\* No step but a decision takes a slot.
LEMMA SlotsOnlyStay ==
  ASSUME Inv, Typed', [Next]_vars, \A c \in Caller : ~CommitDecide(c), failed = {},
         NEW l, NEW t, NEW p \in SlotsOf(l, t)'
  PROVE  p \in SlotsOf(l, t)
<1>1. /\ Typed /\ p \in Payment /\ HoldsWhole(p) /\ ReleasedIsCaptured(p)
      /\ \A x \in Payment : HoldsWhole(x)
  BY DEF Inv, Orderly, SlotsOf
<1>2. PICK i \in RowsOf(p)' \cap InWindow(l, t)' : Counts(i)'
  BY DEF SlotsOf
<1>3. i \in Id /\ row'[i].status # "NONE" /\ row'[i].ref = p
  BY DEF RowsOf, Used
<1>4. row[i].status # "NONE"
  <2>1. ASSUME NEW a \in Transaction, NEW b, row'[i] = Unauthorized(a, b) PROVE FALSE
    BY <1>1, <1>3, <2>1, CardNamesAssumption DEF Unauthorized
  <2> QED BY <1>1, <1>3, <2>1, NewRow
<1>5. i \in Used /\ i \in RowsOf(p) /\ Stays(i)
  BY <1>1, <1>3, <1>4, RowsStay DEF Stays, RowsOf, Used
<1>6. i \in InWindow(l, t)
  BY <1>1, <1>5, WindowStays
<1>7. row[i].decision = "ALLOW" /\ (Outstanding(row'[i]) > 0 \/ row'[i].captured > 0)
  BY <1>2, <1>5 DEF Counts, Stays
<1>8. /\ row[i].captured \in Nat /\ row[i].reserved \in Int /\ row[i].released \in Int
      /\ Outstanding(row[i]) \in Int /\ Outstanding(row'[i]) <= Outstanding(row[i])
      /\ Outstanding(row[i]) >= 0 /\ Outstanding(row'[i]) \in Int
  <2>1. Outstanding(row'[i]) <= Outstanding(row[i])
    BY <1>1, <1>3, <1>5, OnlyDecisionsHold
  <2>2. Outstanding(row'[i]) \in Int
    BY <1>3, RowFields DEF Typed, Outstanding
  <2> QED BY <1>1, <1>3, <1>5, <2>1, <2>2, RowFields, OutstandingInt, HoldNonNegative DEF Typed
<1>9. Outstanding(row[i]) > 0 \/ row[i].captured > 0
  <2> SUFFICES ASSUME Outstanding(row[i]) = 0, row[i].captured = 0 PROVE FALSE
    BY <1>8
  <2>1. row'[i].captured # row[i].captured
    BY <1>7, <1>8
  <2>2. i = Latest(p) /\ ~(rail[p].state = "unwound" /\ NothingOut(p))
    BY <1>1, <1>5, <2>1, CapturedOnLatest
  <2>3. row[i].released > 0
    <3>1. row[i].reserved > 0
      BY <1>1, <1>5, <1>7 DEF HoldsWhole
    <3> QED BY <1>8, <3>1 DEF Outstanding
  <2> QED BY <1>1, <1>5, <1>7, <2>2, <2>3 DEF ReleasedIsCaptured
<1> QED BY <1>1, <1>5, <1>6, <1>7, <1>9 DEF SlotsOf, Counts

LEMMA CountNext == Inv /\ Typed' /\ ApprovedWithinCount /\ [Next]_vars => ApprovedWithinCount'
<1> SUFFICES ASSUME Inv, Typed', ApprovedWithinCount, [Next]_vars, failed' = {},
                    NEW l \in Policy.limits, NEW t \in Time
             PROVE  Cardinality(SlotsOf(l, t)') <= l.max_count
  BY DEF ApprovedWithinCount, SlotsOf, Counts
<1>1. Typed /\ failed = {}
  BY Grows DEF Inv
<1>2. /\ IsFiniteSet(SlotsOf(l, t)) /\ Cardinality(SlotsOf(l, t)) \in Nat
      /\ Cardinality(SlotsOf(l, t)) <= l.max_count /\ l.max_count \in Nat
  <2>1. IsFiniteSet(SlotsOf(l, t))
    BY SlotsFinite DEF SlotsOf
  <2> QED BY <1>1, <2>1, FS_CardinalityType, SlotsDef, LimitFields
<1>3. ASSUME SlotsOf(l, t)' \subseteq SlotsOf(l, t) PROVE Cardinality(SlotsOf(l, t)') <= l.max_count
  <2>1. IsFiniteSet(SlotsOf(l, t)') /\ Cardinality(SlotsOf(l, t)') <= Cardinality(SlotsOf(l, t))
    BY <1>2, <1>3, FS_Subset
  <2>2. Cardinality(SlotsOf(l, t)') \in Nat
    BY <2>1, FS_CardinalityType
  <2> QED BY <1>2, <2>1, <2>2
<1>4. CASE \A c \in Caller : ~CommitDecide(c)
  BY <1>1, <1>3, <1>4, SlotsOnlyStay
<1>5. ASSUME NEW c \in Caller, CommitDecide(c) PROVE Cardinality(SlotsOf(l, t)') <= l.max_count
  <2> DEFINE d == call[c]
             p == d.request.payment
             excluded == IF d.increment THEN p ELSE NoRef
  <2>1. PICK i \in Id, v \in Policy.verdicts :
          /\ i \notin Used /\ row'[i] = Decided(d, DecisionFor(d, v))
          /\ \A j \in Id : j # i => row'[j] = row[j]
    BY <1>1, <1>5, DecideWrites
  <2>2. p \in Payment
    <3>1. d.request \in Request
      BY <1>1, <1>5, CallFields DEF CommitDecide
    <3> QED BY <3>1, RequestFields
  <2>3. /\ row'[i].ref = p /\ row'[i].decision = DecisionFor(d, v) /\ row'[i].at = d.now
    BY <2>1 DEF Decided
  <2> DEFINE allowed == DecisionFor(d, v) = "ALLOW" /\ d.now \div l.window = t \div l.window
  <2>4. ASSUME NEW y \in SlotsOf(l, t)' PROVE y \in SlotsOf(l, t) \/ (y = p /\ allowed)
    <3>1. PICK k \in RowsOf(y)' \cap InWindow(l, t)' : Counts(k)'
      BY DEF SlotsOf
    <3>2. k \in Id /\ y \in Payment /\ row'[k].ref = y
      BY DEF SlotsOf, RowsOf, Used
    <3>3. CASE k = i
      BY <2>3, <3>1, <3>2, <3>3 DEF Counts, InWindow
    <3>4. CASE k # i
      <4>1. row'[k] = row[k]
        BY <2>1, <3>2, <3>4
      <4>2. k \in RowsOf(y) \cap InWindow(l, t) /\ Counts(k)
        BY <3>1, <4>1 DEF RowsOf, InWindow, Used, Counts
      <4> QED BY <3>2, <4>2 DEF SlotsOf
    <3> QED BY <3>3, <3>4
  <2>5. CASE ~allowed
    BY <1>3, <2>4, <2>5
  <2>6. CASE allowed
    <3> DEFINE S == SlotsOf(l, t) \ {p}
               C == CountedIn(l, d.now, excluded)
    <3>1. CountIn(l, d.now, excluded) = Cardinality(C)
      BY SlotsDef
    <3>2. ~(CountIn(l, d.now, excluded) + 1 > l.max_count)
      BY <2>6, YesFits DEF OverLimit
    <3>3. S \subseteq C
      <4>1. InWindow(l, d.now) = InWindow(l, t)
        BY <2>6 DEF InWindow
      <4>2. C = CountedIn(l, t, excluded)
        BY <4>1 DEF CountedIn
      <4>3. ASSUME NEW y \in S PROVE y \in CountedIn(l, t, excluded)
        <5>1. y \in Payment \ failed /\ y # excluded /\ y \in SlotsOf(l, t)
          BY <1>1, <4>3, CardNamesAssumption DEF SlotsOf
        <5> HIDE DEF excluded, S
        <5> QED BY <5>1, SlotsAreCounted
      <4> QED BY <4>2, <4>3
    <3>4. IsFiniteSet(C)
      BY SlotsFinite DEF CountedIn
    <3>5. SlotsOf(l, t)' \subseteq S \cup {p}
      BY <2>4
    <3> HIDE DEF S, C, excluded, p, d
    <3>6. IsFiniteSet(S) /\ Cardinality(S) <= Cardinality(C) /\ Cardinality(S) \in Nat /\ Cardinality(C) \in Nat
      BY <3>3, <3>4, FS_Subset, FS_CardinalityType
    <3>7. IsFiniteSet(S \cup {p}) /\ Cardinality(S \cup {p}) <= Cardinality(S) + 1
      <4>1. IsFiniteSet(S)
        BY <3>6
      <4>2. /\ IsFiniteSet(S \cup {p})
            /\ Cardinality(S \cup {p}) = IF p \in S THEN Cardinality(S) ELSE Cardinality(S) + 1
        BY <4>1, FS_AddElement, Zenon
      <4> QED BY <3>6, <4>2
    <3>8. IsFiniteSet(SlotsOf(l, t)') /\ Cardinality(SlotsOf(l, t)') <= Cardinality(S \cup {p})
      BY <3>5, <3>7, FS_Subset
    <3>9. Cardinality(SlotsOf(l, t)') \in Nat /\ Cardinality(S \cup {p}) \in Nat
      BY <3>7, <3>8, FS_CardinalityType
    <3> QED BY <1>2, <3>1, <3>2, <3>6, <3>7, <3>8, <3>9
  <2> QED BY <2>5, <2>6
<1> QED BY <1>4, <1>5

\* D-87: in no window have more payments than max_count been approved and still hold, or
\* have taken, money: CountIn counts every such payment but the one being decided.
\* Of a network that waits for its answers and sends the history of its increments.
THEOREM ApprovalsStayWithinCount ==
  ASSUME OrderlyRail
  PROVE  Spec => []ApprovedWithinCount
<1>1. Init => ApprovedWithinCount
  <2> SUFFICES ASSUME Init, NEW l \in Policy.limits, NEW t \in Time
               PROVE  Cardinality(SlotsOf(l, t)) <= l.max_count
    BY SlotsDef
  <2>1. SlotsOf(l, t) = {}
    BY DEF Init, SlotsOf, RowsOf, Used, NoRow
  <2>2. Cardinality(SlotsOf(l, t)) = 0
    BY <2>1, FS_EmptySet
  <2> QED BY <2>2, LimitFields
<1>2. Inv /\ Inv' /\ ApprovedWithinCount /\ [Next]_vars => ApprovedWithinCount'
  BY CountNext DEF Inv
<1> QED BY <1>1, <1>2, Orderliness, PTL DEF Spec


=============================================================================
