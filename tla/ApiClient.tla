----------------------------- MODULE ApiClient -----------------------------
(***************************************************************************)
(* SDK calls over a network that loses requests and answers, the handlers  *)
(* of the API that serve them, and the in-memory store below.  A caller    *)
(* that saw its connection break knows nothing of the handler at the other *)
(* end, which goes on: the attempts of one call may all be handled, at     *)
(* once.  The card network's events reach the same store.                  *)
(*                                                                         *)
(* A handler's steps are what it does between two awaits; its section      *)
(* under a mandate's mutex is one step.                                    *)
(***************************************************************************)
EXTENDS MemoryStore, FiniteSets

CONSTANTS
  Calls,              \* how many calls SDK clients make; each names the key it generates
  MandateOf,          \* the mandate whose instrument makes each card payment
  Makes,              \* bound: the operations each call may be
  Carries,            \* bound: the keys a call may carry: the one it generates, or another
  Askers,             \* bound: the agent and mandate an authorize() may name
  attempts,           \* how often requestWithRetry tries
  Amount,             \* amounts a request may ask for
  Verdicts,           \* what the rules that read no ledger may say, for each mandate
  Approvers,          \* escalation.approvers of each mandate
  HoldsWhilePending,  \* mandates with reserve_on_step_up
  Ttl,                \* step_up.ttl_seconds
  MaxRows,            \* bound: authorizations ever saved
  MaxTime,            \* bound: the last instant of the clock
  Unstable,           \* bound: agents whose API key may be revoked
  MaxOpen             \* bound: calls that wait for an answer at once

Call == 1..Calls

ASSUME ClientAssumption ==
  /\ Call \subseteq Key /\ Carries \in [Call -> SUBSET Key] /\ Askers \in [Call -> SUBSET (Agent \X Mandate)]
  /\ attempts \in Nat \ {0} /\ Amount \subseteq Nat \ {0}
  /\ Verdicts \in [Mandate -> (SUBSET {"ALLOW", "STEP_UP", "DENY"}) \ {{}}]
  /\ Approvers \in [Mandate -> SUBSET Mandate] /\ HoldsWhilePending \subseteq Mandate
  /\ MandateOf \in [Card -> Mandate] /\ Ttl \in Nat /\ MaxTime \in Nat

VARIABLES
  clock,
  revoked,   \* agents whose API key is revoked
  sdk,       \* the state of each call at its caller
  conn,      \* each attempt of each call, and the handler that serves it
  charged    \* external: authorizations whose money moved at the provider

vars == <<clock, revoked, sdk, conn, charged, store>>

Attempt == 1..attempts
EXECUTABLE_STATUSES == {"AUTHORIZED", "STEP_UP_APPROVED"}
REPLAYABLE_STEP_UP_STATUSES == {"STEP_UP_APPROVED", "STEP_UP_DECLINED", "EXPIRED"}

Request == [op : {"authorize", "execute", "resolveStepUp", "verify"}, agent : Agent,
            mandate : Mandate, amount : Amount \cup {0}, key : Key \cup {NoKey}, id : Nat]

\* What an answer says: a receipt, or an error by the name mapError knows it by.
Receipt(i) == [is |-> "receipt", id |-> i, status |-> authorizations[i].status]
Error(name) == [is |-> name]

Init ==
  /\ StoreInit
  /\ clock = 0 /\ revoked = {} /\ charged = {}
  /\ sdk = [c \in Call |-> [at |-> "new"]]
  /\ conn = [c \in Call |-> [k \in Attempt |-> [at |-> "none"]]]

----------------------------------------------------------------------------
(* The client.                                                              *)

Goes(c, k, h) == conn' = [conn EXCEPT ![c][k] = h]

\* Calls are numbered in the order they are made.
MayStart(c, op) ==
  /\ op \in Makes[c] /\ sdk[c].at = "new" /\ \A d \in 1..(c - 1) : sdk[d].at # "new"
  /\ Cardinality({d \in Call : sdk[d].at \in {"waiting", "backoff"}}) < MaxOpen

Start(c, r) ==
  /\ sdk' = [sdk EXCEPT ![c] = [at |-> "waiting", request |-> r, attempt |-> 1]]
  /\ Goes(c, 1, [at |-> "wire"])
  /\ UNCHANGED <<clock, revoked, charged, store>>

\* authorize() generates a key unless its caller brought one.
authorize(c) ==
  \E q \in Askers[c], n \in Amount, k \in Carries[c] :
    /\ MayStart(c, "authorize")
    /\ Start(c, [op |-> "authorize", agent |-> q[1], mandate |-> q[2], amount |-> n, key |-> k, id |-> 0])

\* The decisions clients of this organization were given.
Given(i) == {c \in Call : sdk[c].at = "done" /\ sdk[c].answer.is = "receipt" /\ sdk[c].answer.id = i}

\* execute() takes only what asExecutable returned.
execute(c) ==
  \E a \in Agent, i \in Ids :
    /\ MayStart(c, "execute")
    /\ \E d \in Given(i) : sdk[d].answer.status \in EXECUTABLE_STATUSES
    /\ Start(c, [op |-> "execute", agent |-> a, mandate |-> authorizations[i].mandate,
                 amount |-> 0, key |-> NoKey, id |-> i])

resolveStepUp(c) ==
  \E m \in Mandate, i \in Ids :
    /\ MayStart(c, "resolveStepUp")
    /\ \E d \in Given(i) : sdk[d].answer.status = "PENDING_STEP_UP"
    /\ Start(c, [op |-> "resolveStepUp", agent |-> AgentOf[m], mandate |-> m,
                 amount |-> 0, key |-> NoKey, id |-> i])

verify(c) ==
  \E a \in Agent, i \in Ids :
    /\ MayStart(c, "verify") /\ Given(i) # {}
    /\ Start(c, [op |-> "verify", agent |-> a, mandate |-> authorizations[i].mandate,
                 amount |-> 0, key |-> NoKey, id |-> i])

\* Which error a call throws makes no difference to what follows.
Thrown == Error("thrown")

\* mapError throws what was no receipt.
mapError(answer) == IF answer.is = "receipt" THEN answer ELSE Thrown
Answered(c, answer) ==
  sdk' = [sdk EXCEPT ![c] = [at |-> "done", request |-> @.request, answer |-> mapError(answer)]]

\* An HTTP answer, of any status, ends the call.
Receive(c) ==
  /\ sdk[c].at = "waiting" /\ conn[c][sdk[c].attempt].at = "answered"
  /\ Answered(c, conn[c][sdk[c].attempt].answer)
  /\ conn' = [conn EXCEPT ![c][sdk[c].attempt] = [at |-> "closed"]]
  /\ UNCHANGED <<clock, revoked, charged, store>>

\* requestWithRetry: only authorize(), and only so often.
Retries(c) == sdk[c].request.op = "authorize" /\ sdk[c].attempt < attempts

\* fetch() throws.  The request may still arrive, or never; a handler that has
\* it goes on, and its answer has nowhere to go.
Break(c) ==
  LET k == sdk[c].attempt IN
  /\ sdk[c].at = "waiting"
  /\ \/ conn[c][k].at \in {"wire", "answered"} /\ Goes(c, k, [at |-> "closed"])
     \/ conn[c][k].at # "answered" /\ UNCHANGED conn
  /\ IF Retries(c) THEN sdk' = [sdk EXCEPT ![c] = [at |-> "backoff", request |-> @.request, attempt |-> k]]
     ELSE Answered(c, Thrown)
  /\ UNCHANGED <<clock, revoked, charged, store>>

\* The body of the answer is cut: json() yields undefined and toDecision throws a TypeError.
CutBody(c) ==
  /\ sdk[c].at = "waiting" /\ conn[c][sdk[c].attempt].at = "answered"
  /\ conn[c][sdk[c].attempt].answer.is = "receipt"
  /\ Answered(c, Thrown)
  /\ conn' = [conn EXCEPT ![c][sdk[c].attempt] = [at |-> "closed"]]
  /\ UNCHANGED <<clock, revoked, charged, store>>

Retry(c) ==
  LET k == sdk[c].attempt + 1 IN
  /\ sdk[c].at = "backoff"
  /\ sdk' = [sdk EXCEPT ![c] = [at |-> "waiting", request |-> @.request, attempt |-> k]]
  /\ Goes(c, k, [at |-> "wire"])
  /\ UNCHANGED <<clock, revoked, charged, store>>

----------------------------------------------------------------------------
(* The server.  h = <<c, k>> names the handler of attempt k of call c.      *)

At(c, k, at) == conn[c][k].at = at
\* An answer nobody waits for any more is gone.
Listening(c, k) == sdk[c].at = "waiting" /\ sdk[c].attempt = k
Answers(c, k, answer) ==
  Goes(c, k, IF Listening(c, k) THEN [at |-> "answered", answer |-> answer] ELSE [at |-> "closed"])
Req(c) == sdk[c].request

\* preHandler: the presented key must be known and unrevoked.
Authenticate(c, k) ==
  /\ At(c, k, "wire")
  /\ IF Req(c).agent \in revoked THEN Answers(c, k, Error("unauthorized"))
     ELSE Goes(c, k, [at |-> "authenticated"])
  /\ UNCHANGED <<clock, revoked, sdk, charged, store>>

\* hashAuthorizationRequest is injective on what the request says.
SameRequest(i, r) ==
  authorizations[i].agent = r.agent /\ authorizations[i].mandate = r.mandate
  /\ authorizations[i].amount = r.amount

Replay(i, r) == IF SameRequest(i, r) THEN Receipt(i) ELSE Error("idempotency_conflict")

\* POST /v1/authorizations before the lock: the key, the mandate gate, the
\* credential (verifyAgentKey looks at it again).
AuthorizeGate(c, k) ==
  LET r == Req(c)  o == OrgOf[r.agent] IN
  /\ At(c, k, "authenticated") /\ r.op = "authorize"
  /\ IF Claimed(o, r.key) # {}
     THEN \E i \in Claimed(o, r.key) : Answers(c, k, Replay(i, r))
     ELSE IF OrgOf[AgentOf[r.mandate]] # o THEN Answers(c, k, Error("no_active_mandate"))
     ELSE Goes(c, k, [at |-> "gated", now |-> clock,
                      admitted |-> AgentOf[r.mandate] = r.agent /\ r.agent \notin revoked])
  /\ UNCHANGED <<clock, revoked, sdk, charged, store>>

OverLimit(m, amount, now) == SpentIn(m, Window(now)) + amount > Limit[m]
Evaluate(m, amount, now, v) == IF OverLimit(m, amount, now) THEN "DENY" ELSE v

StatusOf(d) ==
  IF d = "ALLOW" THEN "AUTHORIZED" ELSE IF d = "DENY" THEN "DENIED" ELSE "PENDING_STEP_UP"

Row(r, d, now) ==
  [org |-> OrgOf[r.agent], agent |-> r.agent, mandate |-> r.mandate, amount |-> r.amount,
   key |-> r.key, status |-> StatusOf(d), at |-> now, expires |-> now + Ttl,
   card |-> NoCard, revision |-> 0]

ReservationOf(r, d, now) ==
  IF d = "ALLOW" \/ (d = "STEP_UP" /\ r.mandate \in HoldsWhilePending)
  THEN <<Entry(r.mandate, RESERVATION, r.amount, Window(now))>> ELSE <<>>

NewReceipt(status) ==
  [is |-> "receipt", id |-> Len(authorizations) + 1, status |-> status]

\* ... and under it.  A refused request does not look for its key again: if
\* another attempt took it meanwhile, saveAuthorization throws, a 500.
AuthorizeDecide(c, k) ==
  LET r == Req(c)  h == conn[c][k]  taken == Claimed(OrgOf[r.agent], r.key) IN
  /\ At(c, k, "gated")
  /\ IF taken # {}
     THEN /\ IF h.admitted THEN \E i \in taken : Answers(c, k, Replay(i, r))
             ELSE Answers(c, k, Error("internal_error"))
          /\ UNCHANGED store
     ELSE \E v \in Verdicts[r.mandate] :
            LET d == IF h.admitted THEN Evaluate(r.mandate, r.amount, h.now, v) ELSE "DENY" IN
            /\ Len(authorizations) < MaxRows
            /\ saveAuthorization(Row(r, d, h.now), ReservationOf(r, d, h.now))
            /\ Answers(c, k, NewReceipt(StatusOf(d)))
  /\ UNCHANGED <<clock, revoked, sdk, charged>>

SameOrg(i, a) == authorizations[i].org = OrgOf[a]
\* Mutant: any agent of the organization (before D-78).
agentMayActOnAny(i, a) == SameOrg(i, a)
agentMayActOn(i, a) == SameOrg(i, a) /\ authorizations[i].agent = a

LapsedAt(i, now) == authorizations[i].status = "PENDING_STEP_UP" /\ authorizations[i].expires <= now

\* What a handler that found row i current goes on to.
ExecuteOn(c, k, i) ==
  IF authorizations[i].status \in EXECUTABLE_STATUSES THEN Goes(c, k, [at |-> "executable"])
  ELSE Answers(c, k, Error("not_executable"))

Approves(i, a, m) ==
  /\ a \notin revoked /\ AgentOf[m] = a
  /\ m # authorizations[i].mandate /\ m \in Approvers[authorizations[i].mandate]

ResolveOn(c, k, i) ==
  IF authorizations[i].status = "PENDING_STEP_UP"
  THEN IF Approves(i, Req(c).agent, Req(c).mandate)
       THEN Goes(c, k, [at |-> "resolving", now |-> clock])
       ELSE Answers(c, k, Error("step_up_resolution_rejected"))
  ELSE Answers(c, k, IF authorizations[i].status \in REPLAYABLE_STEP_UP_STATUSES
                     THEN Receipt(i) ELSE Error("not_pending_step_up"))

\* GET, step-up and execute read the row, look at whose it is, and set out to
\* expire it if it lapsed.  A step-up is resolved by another agent than its own.
ReadRow(c, k) ==
  LET r == Req(c)  i == r.id IN
  /\ At(c, k, "authenticated") /\ r.op # "authorize"
  /\ IF ~SameOrg(i, r.agent) \/ (r.op # "resolveStepUp" /\ ~agentMayActOn(i, r.agent))
     THEN Answers(c, k, Error("not_found"))
     ELSE IF LapsedAt(i, clock) THEN Goes(c, k, [at |-> "lapsing"])
     ELSE \/ r.op = "execute" /\ ExecuteOn(c, k, i)
          \/ r.op = "resolveStepUp" /\ ResolveOn(c, k, i)
          \/ r.op = "verify" /\ Answers(c, k, Receipt(i))
  /\ UNCHANGED <<clock, revoked, sdk, charged, store>>

\* expireIfNeeded's lock: whoever comes second throws.
Expire(c, k) ==
  LET i == Req(c).id IN
  /\ At(c, k, "lapsing")
  /\ IF Pending(i)
     THEN /\ resolveStepUpAgainst(i, "EXPIRED", clock)
          /\ Answers(c, k, IF Req(c).op = "execute" THEN Error("not_executable")
                           ELSE [is |-> "receipt", id |-> i, status |-> "EXPIRED"])
     ELSE Answers(c, k, Error("internal_error")) /\ UNCHANGED store
  /\ UNCHANGED <<clock, revoked, sdk, charged>>

\* D-85: what the approval would newly hold fits under the spender's limit.
HoldFits(i, now) ==
  LET m == authorizations[i].mandate
      increment == authorizations[i].amount - getAuthorizationHold(m, i)
  IN increment > 0 => ~OverLimit(m, increment, now)

\* The section under both mandates' locks; the first to come decides.
Resolve(c, k) ==
  LET r == Req(c)  i == r.id  now == conn[c][k].now
      Outcome(status) ==
        Answers(c, k, [is |-> "receipt", id |-> i, status |-> status])
  IN
  /\ At(c, k, "resolving")
  /\ IF ~Pending(i) THEN Answers(c, k, Receipt(i)) /\ UNCHANGED store
     ELSE \E v \in Verdicts[r.mandate] :
       IF authorizations[i].expires <= now
       THEN resolveStepUpAgainst(i, "EXPIRED", now) /\ Outcome("EXPIRED")
       ELSE IF HoldFits(i, now) /\ Evaluate(r.mandate, authorizations[i].amount, now, v) = "ALLOW"
       THEN resolveStepUpFor(i, r.mandate, now) /\ Outcome("STEP_UP_APPROVED")
       ELSE resolveStepUpAgainst(i, "STEP_UP_DECLINED", now) /\ Outcome("STEP_UP_DECLINED")
  /\ UNCHANGED <<clock, revoked, sdk, charged>>

\* The provider answers; its idempotency key execute:<id> makes a repeat a no-op.
Charge(c, k) ==
  /\ At(c, k, "executable")
  /\ \/ charged' = charged \cup {Req(c).id} /\ Goes(c, k, [at |-> "charged"])
     \/ Req(c).id \notin charged /\ Answers(c, k, Error("execution_rejected")) /\ UNCHANGED charged
  /\ UNCHANGED <<clock, revoked, sdk, store>>

Capture(c, k) ==
  LET i == Req(c).id IN
  /\ At(c, k, "charged")
  /\ recordExecution(i, clock)
  /\ Answers(c, k, [is |-> "receipt", id |-> i, status |-> "EXECUTED"])
  /\ UNCHANGED <<clock, revoked, sdk, charged>>

----------------------------------------------------------------------------
(* What the card rail and its webhooks ask of the store, under the lock.    *)

CardRow(m, card, status, amount, revision) ==
  [org |-> OrgOf[AgentOf[m]], agent |-> NoAgent, mandate |-> m, amount |-> amount,
   key |-> NoKey, status |-> status, at |-> clock, expires |-> 0, card |-> card,
   revision |-> revision]

\* A request, or an increment: a revision of its own that holds the difference.
CardAsk(m, card) ==
  \E n \in Amount, v \in Verdicts[m] :
    LET yes == Evaluate(m, n, clock, v) = "ALLOW"
        asked == Cardinality(listByExternalRef(m, card))
    IN /\ Len(authorizations) < MaxRows
       /\ \A i \in listByExternalRef(m, card) : authorizations[i].status \in {"AUTHORIZED", "DENIED"}
       /\ saveAuthorization(CardRow(m, card, IF yes THEN "AUTHORIZED" ELSE "DENIED", n, asked),
                            IF yes THEN <<Entry(m, RESERVATION, n, Window(clock))>> ELSE <<>>)

CardSettle(m, card) ==
  /\ \E i \in listByExternalRef(m, card) : authorizations[i].status # "EXECUTED"
  /\ \E n \in Amount \cup {0} : settleExternalAuthorization(m, card, n, clock)

CardRelease(m, card) ==
  /\ \E i \in listByExternalRef(m, card) : authorizations[i].status = "AUTHORIZED"
  /\ releaseExternalAuthorization(m, card, clock)

\* D-84, recordUnauthorizedSettlement: money moved that nobody asked about.
CardUnasked(m, card) ==
  /\ listByExternalRef(m, card) = {} /\ Len(authorizations) < MaxRows
  /\ \E n \in Amount :
       saveAuthorization(CardRow(m, card, "EXECUTED", n, -1), <<Entry(m, CAPTURE, n, Window(clock))>>)

Refund(i) ==
  /\ authorizations[i].status = "EXECUTED"
  /\ \E total \in Amount : recordRefund(i, total, clock)

CardEvent ==
  /\ \/ \E card \in Card : LET m == MandateOf[card] IN
          CardAsk(m, card) \/ CardSettle(m, card) \/ CardRelease(m, card) \/ CardUnasked(m, card)
     \/ \E i \in Ids : Refund(i)
  /\ UNCHANGED <<clock, revoked, sdk, conn, charged>>

----------------------------------------------------------------------------
\* DELETE /v1/agents/:id/keys/:keyId.
RevokeKey(a) ==
  /\ a \in Unstable \ revoked
  /\ revoked' = revoked \cup {a}
  /\ UNCHANGED <<clock, sdk, conn, charged, store>>

\* Bound: time starts with the first row.
Tick ==
  /\ clock < MaxTime /\ Ids # {}
  /\ clock' = clock + 1
  /\ UNCHANGED <<revoked, sdk, conn, charged, store>>

ClientStep(c) == Receive(c) \/ Break(c) \/ CutBody(c) \/ Retry(c)

Handle(c, k) ==
  \/ Authenticate(c, k) \/ AuthorizeGate(c, k) \/ AuthorizeDecide(c, k)
  \/ ReadRow(c, k) \/ Expire(c, k) \/ Resolve(c, k) \/ Charge(c, k) \/ Capture(c, k)

Next ==
  \/ \E c \in Call :
       \/ authorize(c) \/ execute(c) \/ resolveStepUp(c) \/ verify(c)
       \/ ClientStep(c)
       \/ \E k \in Attempt : Handle(c, k)
  \/ CardEvent
  \/ \E a \in Agent : RevokeKey(a)
  \/ Tick

Spec == Init /\ [][Next]_vars

----------------------------------------------------------------------------
(* Properties.                                                              *)

\* However often the SDK sends a request, and whatever of it arrives, one call
\* leaves one row, and the decision its caller is given is the row of its own
\* request: neither that of another attempt, nor of another caller who brought
\* the same key (requestWithRetry, findByIdempotencyKey, request_hash).
OneDecisionPerCall ==
  \A c \in Call :
    sdk[c].at # "new" /\ sdk[c].request.op = "authorize" =>
      LET r == sdk[c].request
          rows == {i \in Ids : authorizations[i].key = r.key /\ SameOrg(i, r.agent)}
      IN /\ Cardinality(rows) <= 1
         /\ sdk[c].at = "done" /\ sdk[c].answer.is = "receipt" =>
              \E i \in rows : sdk[c].answer.id = i /\ SameRequest(i, r)

\* What a client was told stands: a yes is never withdrawn, and after a no the
\* money never moves (asExecutable, first writer wins, recordExecution).
AnswersStand ==
  \A i \in Ids : \A c \in Given(i) :
    /\ sdk[c].answer.status \in EXECUTABLE_STATUSES =>
         authorizations[i].status \in EXECUTABLE_STATUSES \cup {"EXECUTED"}
    /\ sdk[c].answer.status \in {"DENIED", "STEP_UP_DECLINED", "EXPIRED"} => i \notin charged
    /\ sdk[c].answer.status = "EXECUTED" => i \in charged

\* The ledger says of each authorization what its status says, in the window it
\* was decided in and in no other: a row that may still be spent holds its
\* amount, any other holds nothing, an executed payment is captured once, and
\* no more is credited than was captured (D-71, D-72, D-82, D-83).
LedgerMatchesStatus ==
  \A i \in Ids :
    LET r == authorizations[i]
        held == CASE r.status \in EXECUTABLE_STATUSES -> r.amount
                  [] r.status = "PENDING_STEP_UP" /\ r.mandate \in HoldsWhilePending -> r.amount
                  [] OTHER -> 0
    IN /\ \A n \in DOMAIN ledger[i] :
            ledger[i][n].mandate = r.mandate => ledger[i][n].window = Window(r.at)
       /\ getAuthorizationHold(r.mandate, i) = held
       /\ Credited(i) <= Captured(i)
       /\ r.card = NoCard => Captured(i) = IF r.status = "EXECUTED" THEN r.amount ELSE 0

\* Money moves only at the request of the agent it was decided for (D-78).
ChargedByItsAgent ==
  [][\A i \in charged' \ charged :
       \E c \in Call, k \in Attempt :
         /\ conn[c][k].at = "executable" /\ sdk[c].request.id = i
         /\ sdk[c].request.agent = authorizations[i].agent]_vars
=============================================================================
