------------------------------ MODULE CardRail ------------------------------
(***************************************************************************)
(* The card rail of one mandate: the card's provisioning, after which and   *)
(* during which it may be used, the issuing_authorization.request webhook   *)
(* that decides a card payment and its increments while the network waits, *)
(* and the issuing_authorization.updated and issuing_transaction.created   *)
(* events that release or settle it.  The rail itself is external: it asks, *)
(* redelivers, settles, reverses, and moves money it never asked about.    *)
(***************************************************************************)
EXTENDS FiniteSets, LedgerSum

CONSTANTS
  Payment,      \* the rail's authorization ids
  Notice,       \* the terminal issuing_authorization.updated events of one payment
  NoRef,        \* no id
  Caller,       \* webhook deliveries being handled at once
  Amount,       \* amounts the rail may ask for, settle or move, in minor units
  Policy,       \* the mandate's policy
  GivesUp,      \* whether the rail may stop waiting for an answer and go on
  ForgetsHistory, \* whether a new request may carry the history of the first
  MaxRows,      \* bound: Authorization rows ever written
  MaxAsks,      \* bound: requests for one payment
  MaxTransactions, \* bound: transactions of the rail
  MaxTime,      \* bound: the last instant of the clock
  MaxFailures   \* bound: decisions that could not be recorded

Id == 1..MaxRows
Transaction == 1..MaxTransactions  \* the rail's transaction ids
Time == 0..MaxTime
Decision == {"ALLOW", "STEP_UP", "DENY"}

\* `verdicts`: what the rules that do not read the ledger may say of a card
\* payment.  `window` is the length of a limit's calendar window.
Limit == [max_amount : Nat, max_count : Nat, window : Nat \ {0}]
PolicyType ==
  [limits : SUBSET Limit, per_transaction_max : Nat, expires_at : Nat,
   verdicts : (SUBSET Decision) \ {{}}]

ASSUME CardBoundsAssumption ==
  /\ MaxRows \in Nat /\ MaxAsks \in Nat /\ MaxTransactions \in Nat
  /\ MaxTime \in Nat /\ MaxFailures \in Nat
ASSUME CardAmountAssumption == Amount \subseteq Nat \ {0}
ASSUME CardPolicyAssumption == Policy \in PolicyType
ASSUME CardRailAssumption == GivesUp \in BOOLEAN /\ ForgetsHistory \in BOOLEAN
ASSUME CardNamesAssumption ==
  NoRef \notin Payment \cup Transaction /\ Payment \cap Transaction = {}

VARIABLES
  clock,   \* wall-clock time
  status,  \* mandates.status
  card,    \* how far the card that is being provisioned has come
  row,     \* the card's authorizations, each with the sums of its ledger entries
  call,    \* the local state of each delivery being handled
  seen,    \* provider_events: the notices of each payment that were applied
  moved,   \* provider_events: the transactions that were applied
  rail,    \* external: what the network knows of each payment
  asked,   \* external: the requests the network has sent, and may send again
  failed   \* the payments one of whose decisions could not be recorded

vars == <<clock, status, card, row, call, seen, moved, rail, asked, failed>>

----------------------------------------------------------------------------
(* Rows, and the ledger sums over them.                                     *)

NoRow ==
  [ref |-> NoRef, revision |-> 0, decision |-> "NONE", status |-> "NONE", amount |-> 0, at |-> 0,
   reserved |-> 0, released |-> 0, captured |-> 0]

\* Only an approval is held for: a STEP_UP, which nobody can answer while the
\* network waits, fails closed (D-33), and what settles unasked is a DENY.
CardRow ==
  LET Row(decisions, statuses, amounts) ==
    [ref : Payment \cup Transaction, revision : Nat, decision : decisions, status : statuses,
     amount : Nat, at : Time, reserved : amounts, released : amounts, captured : Nat]
  IN {NoRow}
     \cup Row({"ALLOW"}, {"AUTHORIZED", "EXECUTED", "EXPIRED"}, Int)
     \cup Row({"DENY", "STEP_UP"}, {"DENIED", "EXECUTED"}, {0})

Used == {i \in Id : row[i].status # "NONE"}
NextId(i) == i \in Id \ Used /\ 1..(i - 1) \subseteq Used

\* listByExternalRef, and the last of its rows.
RowsOf(p) == {i \in Used : row[i].ref = p}
Latest(p) == CHOOSE i \in RowsOf(p) : \A j \in RowsOf(p) : row[j].revision <= row[i].revision

Outstanding(r) == r.reserved - r.released

\* getExternalRefHold.
HoldOf(p) == Total([i \in Id |-> IF row[i].ref = p THEN Outstanding(row[i]) ELSE 0], MaxRows)

\* The rows whose entries fall in the window of limit l at time t: every entry
\* of a row belongs to the window the row was decided in (D-72).
InWindow(l, t) == {i \in Used : row[i].at \div l.window = t \div l.window}

HeldIn(l, t) ==
  Total([i \in Id |-> IF i \in InWindow(l, t) THEN Outstanding(row[i]) ELSE 0], MaxRows)
SpentIn(l, t) ==
  HeldIn(l, t) + Total([i \in Id |-> IF i \in InWindow(l, t) THEN row[i].captured ELSE 0], MaxRows)

\* Mutant: a settled payment gives its slot back (before D-87).
CountHolding(l, t, excluded) ==
  Cardinality({x \in Payment \ {excluded} :
    \E i \in RowsOf(x) \cap InWindow(l, t) : Outstanding(row[i]) > 0})

\* A payment is counted once, whatever its revisions, and while it is excluded
\* by the increment being decided (D-87) not at all.
CountIn(l, t, excluded) ==
  Cardinality({x \in (Payment \cup Transaction) \ {excluded} :
    LET mine == RowsOf(x) \cap InWindow(l, t)
    IN \/ \E i \in mine : row[i].captured > 0
       \/ /\ \E i \in mine : row[i].decision = "ALLOW"
          /\ \A i \in mine : row[i].released = 0})

----------------------------------------------------------------------------
(* Deliveries and the rail.                                                 *)

\* An event is a copy of what the card was when it was sent: `named` says whether
\* the card's metadata carried its instrument's id by then.
Request == [payment : Payment, history : 0..MaxAsks, amount : Amount, named : BOOLEAN]

Idle == [op |-> "idle"]

Call ==
  {Idle}
  \cup [op : {"decide"}, request : Request, revision : Nat, increment : BOOLEAN, prior : Int,
        now : Time]
  \cup [op : {"update"}, payment : Payment, notice : Notice, executed : BOOLEAN]

Becomes(c, q) == call' = [call EXCEPT ![c] = q]

NotWaiting == [waits |-> FALSE]
RailState ==
  [state : {"open", "closed", "unwound"}, asks : 0..MaxAsks, approved : Nat, settled : Nat,
   waiting : {NotWaiting} \cup [waits : {TRUE}, request : Request]]

Init ==
  /\ clock = 0 /\ status = "PENDING_AUTHENTICATION" /\ card = "none"
  /\ row = [i \in Id |-> NoRow]
  /\ call = [c \in Caller |-> Idle]
  /\ seen = {} /\ asked = {} /\ failed = {}
  /\ rail = [p \in Payment |->
       [state |-> "open", asks |-> 0, approved |-> 0, settled |-> 0, waiting |-> NotWaiting]]
  /\ moved = [t \in Transaction |-> [ref |-> NoRef, amount |-> 0]]

\* Approved or not: nobody can be asked while the network waits, so a STEP_UP is
\* a no (D-33).
toResponse(decision) == decision = "ALLOW"

\* The answer the rail acts on is the first one to the request it waits for.
Reply(q, decision) ==
  rail' = IF rail[q.payment].waiting = [waits |-> TRUE, request |-> q]
          THEN [rail EXCEPT ![q.payment].waiting = NotWaiting,
                            ![q.payment].approved = IF toResponse(decision) THEN q.amount ELSE @]
          ELSE rail

----------------------------------------------------------------------------
(* provisionCardForMandate.  A process that dies leaves the card as it is:   *)
(* running it again makes another card, with payments of its own.           *)

\* The principal authenticates the mandate.
activateMandate ==
  /\ status = "PENDING_AUTHENTICATION" /\ status' = "ACTIVE"
  /\ UNCHANGED <<clock, card, row, call, seen, moved, rail, asked, failed>>

Provisioned(from, to) ==
  /\ card = from /\ card' = to
  /\ UNCHANGED <<clock, status, row, call, seen, moved, rail, asked, failed>>

\* D-38: the card network's terms are accepted by whoever authenticated the
\* mandate, and by nobody else; that the mandate still is active is not asked.
requireCardIssuingTermsAcceptance == status # "PENDING_AUTHENTICATION"

CreateCard == requireCardIssuingTermsAcceptance /\ Provisioned("none", "live")

\* The Instrument row, which names the card; then the card, which names the row.
createInstrument == Provisioned("live", "registered")
NameInstrument == Provisioned("registered", "named")

ProvisionStep == CreateCard \/ createInstrument \/ NameInstrument

----------------------------------------------------------------------------
(* issuing_authorization.request.                                           *)

\* parseRequest finds no instrument: a no that nothing records.
Unattributed(q) ==
  /\ q \in asked /\ ~q.named
  /\ Reply(q, "DENY")
  /\ UNCHANGED <<clock, status, card, row, call, seen, asked, moved, failed>>

\* Mutant: a redelivery is the same payment, whatever it asks for (before D-79).
RecordedByRef(q) == RowsOf(q.payment)
Recorded(q) ==
  {i \in RowsOf(q.payment) : row[i].revision = q.history /\ row[i].amount = q.amount}

\* A redelivery of what is decided: the recorded decision again.
Replay(q) ==
  /\ q \in asked /\ q.named
  /\ \E i \in Recorded(q) : Reply(q, row[i].decision)
  /\ UNCHANGED <<clock, status, card, row, call, seen, asked, moved, failed>>

Larger(a, b) == IF a >= b THEN a ELSE b

\* The next free revision, and the hold the increment adds to, before the lock.
BeginDecide(c, q) ==
  LET increment == RowsOf(q.payment) # {} IN
  /\ call[c] = Idle /\ q \in asked /\ q.named /\ Recorded(q) = {}
  /\ Becomes(c, [op |-> "decide", request |-> q, increment |-> increment, now |-> clock,
                 revision |-> IF increment THEN Larger(q.history, row[Latest(q.payment)].revision + 1)
                                           ELSE q.history,
                 prior |-> IF increment THEN HoldOf(q.payment) ELSE 0])
  /\ UNCHANGED <<clock, status, card, row, seen, moved, rail, asked, failed>>

\* Mutant: an increment holds its new total on top of what is held.
DeltaAggregate(d) == d.request.amount
Delta(d) == d.request.amount - d.prior

\* The engine decides the difference, the per-transaction ceiling the total.
OverLimit(l, d) ==
  \/ SpentIn(l, d.now) + (d.request.amount - d.prior) > l.max_amount
  \/ CountIn(l, d.now, IF d.increment THEN d.request.payment ELSE NoRef) + 1 > l.max_count

DecisionFor(d, v) ==
  IF \/ status # "ACTIVE" \/ Policy.expires_at <= d.now
     \/ d.request.amount > Policy.per_transaction_max
     \/ \E l \in Policy.limits : OverLimit(l, d)
  THEN "DENY" ELSE v

\* The row a decision saves, with its hold.
Decided(d, decision) ==
  [ref |-> d.request.payment, revision |-> d.revision, decision |-> decision,
   status |-> IF decision = "ALLOW" THEN "AUTHORIZED" ELSE "DENIED",
   amount |-> d.request.amount, at |-> d.now,
   reserved |-> IF decision = "ALLOW" THEN Delta(d) ELSE 0, released |-> 0, captured |-> 0]

RevisionTaken(d) == \E i \in RowsOf(d.request.payment) : row[i].revision = d.revision

\* Decision, hold and evidence under the mandate lock, and then the answer.
CommitDecide(c) ==
  LET d == call[c] IN
  /\ d.op = "decide" /\ ~RevisionTaken(d)
  /\ \E i \in Id, v \in Policy.verdicts :
       /\ NextId(i)
       /\ row' = [row EXCEPT ![i] = Decided(d, DecisionFor(d, v))]
       /\ Reply(d.request, DecisionFor(d, v))
  /\ Becomes(c, Idle)
  /\ UNCHANGED <<clock, status, card, seen, asked, moved, failed>>

\* The unique index rejects a second row of one revision: the transaction rolls
\* back and the payment's latest decision is the answer.
ReplayWinner(c) ==
  LET d == call[c] IN
  /\ d.op = "decide" /\ RevisionTaken(d)
  /\ Reply(d.request, row[Latest(d.request.payment)].decision)
  /\ Becomes(c, Idle)
  /\ UNCHANGED <<clock, status, card, row, seen, asked, moved, failed>>

\* Anything else that fails rolls everything back, the evidence included, and
\* declines.
FailDecide(c) ==
  LET d == call[c] IN
  /\ d.op = "decide" /\ Cardinality(failed \cup {d.request.payment}) <= MaxFailures
  /\ failed' = failed \cup {d.request.payment}
  /\ Reply(d.request, "DENY")
  /\ Becomes(c, Idle)
  /\ UNCHANGED <<clock, status, card, row, seen, asked, moved>>

----------------------------------------------------------------------------
(* Settlement and release.                                                  *)

\* Mutant: only the latest revision's hold is released (before D-83).
SettledLatestOnly(p, s) ==
  [row EXCEPT ![Latest(p)].released = row[Latest(p)].reserved, ![Latest(p)].status = "EXECUTED",
              ![Latest(p)].captured = @ + s]

\* settleExternalAuthorization: every revision's hold is released, in its own
\* window, and what moved is captured once, on the latest.
Settled(p, s) ==
  [i \in Id |->
     IF i \notin RowsOf(p) THEN row[i]
     ELSE [row[i] EXCEPT !.released = row[i].reserved, !.status = "EXECUTED",
                         !.captured = @ + (IF i = Latest(p) THEN s ELSE 0)]]

\* releaseExternalAuthorization.
Released(p) ==
  [i \in Id |->
     IF i \notin RowsOf(p) THEN row[i]
     ELSE [row[i] EXCEPT !.released = row[i].reserved,
                         !.status = IF @ = "AUTHORIZED" THEN "EXPIRED" ELSE @]]

\* issuing_authorization.updated, terminal: the row is read before the lock.  A
\* payment without one is left for a retry.
BeginUpdate(c, p, n) ==
  /\ call[c] = Idle /\ rail[p].state # "open" /\ RowsOf(p) # {}
  /\ Becomes(c, [op |-> "update", payment |-> p, notice |-> n,
                 executed |-> row[Latest(p)].status = "EXECUTED"])
  /\ UNCHANGED <<clock, status, card, row, seen, moved, rail, asked, failed>>

\* Under the lock: once per event; reversed, expired and declined payments are
\* released, a settled one is captured unless it was settled when it was read.
CommitUpdate(c) ==
  LET p == call[c].payment
      event == <<p, call[c].notice>>
  IN
  /\ call[c].op = "update"
  /\ Becomes(c, Idle)
  /\ seen' = seen \cup {event}
  /\ row' = IF event \in seen THEN row
            ELSE IF rail[p].state = "unwound" THEN Released(p)
            ELSE IF call[c].executed THEN row
            ELSE Settled(p, rail[p].settled)
  /\ UNCHANGED <<clock, status, card, moved, rail, asked, failed>>

\* Mutant: the row is written and its ledger entry is not.
UnauthorizedUnbooked(t, a) ==
  [ref |-> t, revision |-> 0, decision |-> "DENY", status |-> "EXECUTED", amount |-> a,
   at |-> clock, reserved |-> 0, released |-> 0, captured |-> 0]

\* recordUnauthorizedSettlement: a DENY whose money moved all the same.
Unauthorized(t, a) ==
  [ref |-> t, revision |-> 0, decision |-> "DENY", status |-> "EXECUTED", amount |-> a,
   at |-> clock, reserved |-> 0, released |-> 0, captured |-> a]

Smaller(a, b) == IF a <= b THEN a ELSE b

Settleable(p, a) == IF RowsOf(p) # {} /\ HoldOf(p) > 0 THEN Smaller(a, HoldOf(p)) ELSE 0

MovedFor(p) == {t \in Transaction : moved[t].amount > 0 /\ moved[t].ref = p}
AmountMoved(p) ==
  Total([t \in Transaction |-> IF t \in MovedFor(p) THEN moved[t].amount ELSE 0], MaxTransactions)

\* External: a capture of what was approved or of what a closed payment settled
\* for, or money that moved unasked: a force capture, a late presentment.
MayMove(p, a) ==
  \/ p = NoRef
  \/ p \in Payment /\ rail[p].state = "unwound"
  \/ p \in Payment /\ rail[p].state = "closed" /\ AmountMoved(p) + a <= rail[p].settled
  \/ p \in Payment /\ rail[p].state = "open" /\ AmountMoved(p) + a <= rail[p].approved

\* issuing_transaction.created: what the payment holds settles it, and what was
\* never approved gets a row of its own.  A transaction whose card names no
\* instrument is left for a retry.
TransactionEvent(t, p, a) ==
  LET s == Settleable(p, a)
      settled == IF s > 0 THEN Settled(p, s) ELSE row
  IN
  /\ card = "named" /\ moved[t].amount = 0 /\ MayMove(p, a)
  /\ moved' = [moved EXCEPT ![t] = [ref |-> p, amount |-> a]]
  /\ IF s = a THEN row' = settled
     ELSE \E i \in Id : NextId(i) /\ row' = [settled EXCEPT ![i] = Unauthorized(t, a - s)]
  /\ UNCHANGED <<clock, status, card, call, seen, rail, asked, failed>>

----------------------------------------------------------------------------
(* The rail, the mandate and time.                                          *)

\* An orderly rail waits for its answer before it goes on.
GoesOn(p) == rail[p].state = "open" /\ (rail[p].waiting = NotWaiting \/ GivesUp)

\* A first request or an increment, sent with the length of its history, as soon
\* as there is a card.
Ask(p, h, a) ==
  /\ GoesOn(p) /\ rail[p].asks < MaxAsks /\ a > rail[p].approved
  /\ h = rail[p].asks \/ (ForgetsHistory /\ h = 0)
  /\ card # "none"
  /\ LET q == [payment |-> p, history |-> h, amount |-> a, named |-> card = "named"] IN
       /\ asked' = asked \cup {q}
       /\ rail' = [rail EXCEPT ![p].asks = @ + 1, ![p].waiting = [waits |-> TRUE, request |-> q]]
  /\ UNCHANGED <<clock, status, card, row, call, seen, moved, failed>>

Ends(p, state, s) ==
  /\ rail' = [rail EXCEPT ![p].state = state, ![p].settled = s, ![p].waiting = NotWaiting]
  /\ UNCHANGED <<clock, status, card, row, call, seen, moved, asked, failed>>

\* The payment closes with the amount that moved, or is to move.
Close(p, s) == GoesOn(p) /\ rail[p].approved > 0 /\ s >= AmountMoved(p) /\ Ends(p, "closed", s)

\* Reversed, expired, or declined.
Unwind(p) == GoesOn(p) /\ rail[p].asks > 0 /\ AmountMoved(p) = 0 /\ Ends(p, "unwound", 0)

\* External: an operator's update of mandates.status.
Revoke ==
  /\ status = "ACTIVE" /\ status' = "REVOKED"
  /\ UNCHANGED <<clock, card, row, call, seen, moved, rail, asked, failed>>

Tick ==
  /\ clock < MaxTime /\ clock' = clock + 1
  /\ UNCHANGED <<status, card, row, call, seen, moved, rail, asked, failed>>

Next ==
  \/ activateMandate
  \/ ProvisionStep
  \/ \E q \in Request : Unattributed(q)
  \/ \E q \in Request : Replay(q)
  \/ \E c \in Caller, q \in Request : BeginDecide(c, q)
  \/ \E c \in Caller : CommitDecide(c)
  \/ \E c \in Caller : ReplayWinner(c)
  \/ \E c \in Caller : FailDecide(c)
  \/ \E c \in Caller, p \in Payment, n \in Notice : BeginUpdate(c, p, n)
  \/ \E c \in Caller : CommitUpdate(c)
  \/ \E t \in Transaction, p \in Payment \cup {NoRef}, a \in Amount : TransactionEvent(t, p, a)
  \/ \E p \in Payment, h \in 0..MaxAsks, a \in Amount : Ask(p, h, a)
  \/ \E p \in Payment, s \in Amount : Close(p, s)
  \/ \E p \in Payment : Unwind(p)
  \/ Revoke
  \/ Tick

Spec == Init /\ [][Next]_vars

----------------------------------------------------------------------------
(* Properties.                                                              *)

Closed(p) == \E n \in Notice : <<p, n>> \in seen

\* D-79: the card network is never told yes to more than the ledger holds for
\* that payment until it settles, however an increment that may carry no history,
\* redeliveries, racing deliveries and windows fall: unless a decision that failed
\* to be recorded is asked for again.  It is broken when the network gives up
\* waiting (GivesUp), and by a second increment without history (ForgetsHistory).
ApprovedIsHeld ==
  \A p \in Payment \ failed :
    ~Closed(p) /\ MovedFor(p) = {} => rail[p].approved <= HoldOf(p)

\* D-4, D-79: in no window do the holds of card payments exceed the limit, though
\* each increment was sized against a hold read before the lock.
HoldsWithinCap ==
  failed = {} => \A l \in Policy.limits, t \in Time : HeldIn(l, t) <= l.max_amount

\* D-87: in no window have more payments than max_count been approved and still
\* hold, or have taken, money: a settled payment keeps its slot.
ApprovedWithinCount ==
  failed = {} =>
    \A l \in Policy.limits, t \in Time :
      Cardinality({p \in Payment : \E i \in RowsOf(p) \cap InWindow(l, t) :
          row[i].decision = "ALLOW" /\ (Outstanding(row[i]) > 0 \/ row[i].captured > 0)})
        <= l.max_count

\* Each request for the payment says what came before it (request_history).
Told(p) ==
  \A q, r \in {x \in asked : x.payment = p} : q.history = r.history => q = r

\* D-83: once a payment's closing event is applied nothing of it is held any
\* more, over all its revisions, whatever is redelivered after it: of a payment
\* whose increments carry their history (Told), since one that does not is
\* decided anew.
NothingHeldAfterClose == \A p \in Payment \ failed : Closed(p) /\ Told(p) => HoldOf(p) = 0

CapturedFor(p) ==
  Total([i \in Id |-> IF row[i].ref \in {p} \cup MovedFor(p) THEN row[i].captured ELSE 0], MaxRows)

\* D-84: money the network says it moved is in the ledger, for that payment,
\* whether it was asked about or not, in whatever order its events arrive and
\* whatever failed before.
MovedIsCaptured ==
  \A p \in Payment \cup {NoRef} : AmountMoved(p) <= CapturedFor(p)

=============================================================================
