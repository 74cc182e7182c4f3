---------------------------- MODULE MemoryStore ----------------------------
(***************************************************************************)
(* InMemoryAuthorizationRepository: the store buildServer uses when it is  *)
(* given no other.  It keeps an append-only ledger for each mandate and a  *)
(* row for each authorization, and has no transaction: what a method wrote *)
(* before it threw stays written.  Every method runs to its end without    *)
(* yielding, so each is one operator here; callers compose them under the  *)
(* mandate's mutex, which is FIFO and re-entrant (D-85).                   *)
(***************************************************************************)
EXTENDS Naturals, Integers, Sequences, LedgerSum

CONSTANTS
  Org,           \* organizations
  Agent,         \* agents, each also the one principal it acts for
  Mandate,       \* mandate ids
  Card, NoCard,  \* external references of card payments, and a row that has none
  Key, NoKey,    \* idempotency keys, and a row written without one
  OrgOf,         \* the organization of each agent
  AgentOf,       \* the agent bound to each mandate
  Limit,         \* max_amount of each mandate's window
  Window(_)      \* the calendar window an instant falls in

NoAgent == "rail"   \* the actor of a card payment: an instrument, not an agent

ASSUME StoreAssumption ==
  /\ OrgOf \in [Agent -> Org] /\ AgentOf \in [Mandate -> Agent]
  /\ Limit \in [Mandate -> Nat]
  /\ NoKey \notin Key /\ NoCard \notin Card /\ NoAgent \notin Agent

VARIABLES
  authorizations,   \* rows, in the order they were saved; an id is a position
  ledger,           \* the ledger rows written under each authorization id
  idempotencyIndex  \* the id that claimed each <<organization, key>>

store == <<authorizations, ledger, idempotencyIndex>>

Ids == DOMAIN authorizations

RESERVATION == "RESERVATION"  RELEASE == "RELEASE"
CAPTURE == "CAPTURE"          CREDIT == "CREDIT"

Entry(m, type, amount, w) == [mandate |-> m, type |-> type, amount |-> amount, window |-> w]

StoreInit ==
  /\ authorizations = <<>> /\ ledger = <<>>
  /\ idempotencyIndex = [claim \in Org \X Key |-> 0]

----------------------------------------------------------------------------
(* Reading.                                                                 *)

\* The sum of the ledger rows q at the positions S.
SumOf(q, S) == Total([n \in DOMAIN q |-> IF n \in S THEN q[n].amount ELSE 0], Len(q))

HoldIn(q, m) ==
  SumOf(q, {n \in DOMAIN q : q[n].mandate = m /\ q[n].type \in {RESERVATION, RELEASE}})
CapturedIn(q) == SumOf(q, {n \in DOMAIN q : q[n].type = CAPTURE})
CreditedIn(q) == -SumOf(q, {n \in DOMAIN q : q[n].type = CREDIT})

\* What an authorization still holds on a mandate.
getAuthorizationHold(m, i) == HoldIn(ledger[i], m)

Captured(i) == CapturedIn(ledger[i])
Credited(i) == CreditedIn(ledger[i])

\* One window of getSpendSnapshot: every row counts, a credit among them.
SpentIn(m, w) ==
  Total([i \in Ids |-> SumOf(ledger[i], {n \in DOMAIN ledger[i] :
                                         ledger[i][n].mandate = m /\ ledger[i][n].window = w})],
        Len(authorizations))

\* Mutant: a row saved by the first attempt is not looked for.
ClaimedNever(o, k) == {}
\* findByIdempotencyKey, and the check saveAuthorization makes again.
Claimed(o, k) == IF k = NoKey THEN {} ELSE {idempotencyIndex[<<o, k>>]} \ {0}

listByExternalRef(m, card) ==
  {i \in Ids : authorizations[i].mandate = m /\ authorizations[i].card = card}

RefTaken(r) ==
  r.card # NoCard
  /\ \E i \in listByExternalRef(r.mandate, r.card) : authorizations[i].revision = r.revision

----------------------------------------------------------------------------
(* Writing.                                                                 *)

\* The key is claimed before the external reference is looked at.
saveAuthorization(r, entries) ==
  /\ Claimed(r.org, r.key) = {} /\ ~RefTaken(r)
  /\ authorizations' = Append(authorizations, r)
  /\ ledger' = Append(ledger, entries)
  /\ idempotencyIndex' =
       IF r.key = NoKey THEN idempotencyIndex
       ELSE [idempotencyIndex EXCEPT ![<<r.org, r.key>>] = Len(authorizations) + 1]

\* Mutant: the window of a later row is the one it is written in (before D-72).
KeysOfNow(i, now) == Window(now)
\* D-72: a row belongs to the window its authorization was decided in.
windowKeysFor(i, now) == Window(authorizations[i].at)

SetStatus(S, status) ==
  authorizations' = [i \in Ids |-> IF i \in S THEN [authorizations[i] EXCEPT !.status = status]
                                   ELSE authorizations[i]]

\* The row that gives back whatever authorization i still holds, if anything.
Released(i, now) ==
  LET m == authorizations[i].mandate  hold == getAuthorizationHold(m, i)
  IN IF hold = 0 THEN <<>> ELSE <<Entry(m, RELEASE, -hold, windowKeysFor(i, now))>>

CaptureOf(i, amount, now) ==
  <<Entry(authorizations[i].mandate, CAPTURE, amount, windowKeysFor(i, now))>>

\* Mutant: only a row that was declined or expired is no longer pending.
PendingOrApproved(i) == authorizations[i].status \in {"PENDING_STEP_UP", "STEP_UP_APPROVED"}
\* resolveStepUp throws unless the row is still pending.
Pending(i) == authorizations[i].status = "PENDING_STEP_UP"

\* An answered "no", or no answer in time; only a pending step-up has either.
resolveStepUpAgainst(i, outcome, now) ==
  /\ Pending(i)
  /\ SetStatus({i}, outcome)
  /\ ledger' = [ledger EXCEPT ![i] = @ \o Released(i, now)]
  /\ UNCHANGED idempotencyIndex

\* recordStepUpApprovalHold: nothing if raising the step-up already took one.
ApprovalHold(i, now) ==
  LET r == authorizations[i] IN
  IF \E n \in DOMAIN ledger[i] : ledger[i][n].type = RESERVATION /\ ledger[i][n].mandate = r.mandate
  THEN <<>> ELSE <<Entry(r.mandate, RESERVATION, r.amount, windowKeysFor(i, now))>>

\* A "yes": the approver's own row, the spender's hold, then the status.
resolveStepUpFor(i, approver, now) ==
  /\ Pending(i)
  /\ SetStatus({i}, "STEP_UP_APPROVED")
  /\ ledger' = [ledger EXCEPT ![i] =
       @ \o <<Entry(approver, RESERVATION, authorizations[i].amount, Window(now))>>
         \o ApprovalHold(i, now)]
  /\ UNCHANGED idempotencyIndex

\* D-71: executable once; a replay returns the recorded outcome.
recordExecution(i, now) ==
  \/ authorizations[i].status = "EXECUTED" /\ UNCHANGED store
  \/ /\ authorizations[i].status \in {"AUTHORIZED", "STEP_UP_APPROVED"}
     /\ SetStatus({i}, "EXECUTED")
     /\ ledger' = [ledger EXCEPT ![i] =
          @ \o Released(i, now) \o CaptureOf(i, authorizations[i].amount, now)]
     /\ UNCHANGED idempotencyIndex

LatestRevision(S) ==
  CHOOSE i \in S : \A j \in S : authorizations[j].revision <= authorizations[i].revision

\* The network's final figure: every revision's hold goes, one capture comes.
settleExternalAuthorization(m, card, settled, now) ==
  LET rows == listByExternalRef(m, card) IN
  /\ rows # {}
  /\ ledger' = [i \in Ids |->
       ledger[i] \o (IF i \in rows THEN Released(i, now) ELSE <<>>)
                 \o (IF settled > 0 /\ i \in rows /\ i = LatestRevision(rows)
                     THEN CaptureOf(i, settled, now) ELSE <<>>)]
  /\ SetStatus(rows, "EXECUTED")
  /\ UNCHANGED idempotencyIndex

\* A reversal, an expiry or a decline at the network: the holds go.
releaseExternalAuthorization(m, card, now) ==
  LET rows == listByExternalRef(m, card) IN
  /\ rows # {}
  /\ ledger' = [i \in Ids |-> ledger[i] \o (IF i \in rows THEN Released(i, now) ELSE <<>>)]
  /\ SetStatus({i \in rows : authorizations[i].status \in {"AUTHORIZED", "STEP_UP_APPROVED"}},
               "EXPIRED")
  /\ UNCHANGED idempotencyIndex

\* D-82: the part of a cumulative refund not credited yet, of what was captured.
CreditOf(i, total) ==
  LET bound == IF total < Captured(i) THEN total ELSE Captured(i)
  IN IF bound > Credited(i) THEN bound - Credited(i) ELSE 0

recordRefund(i, total, now) ==
  /\ CreditOf(i, total) > 0
  /\ ledger' = [ledger EXCEPT ![i] =
       Append(@, Entry(authorizations[i].mandate, CREDIT, -CreditOf(i, total), windowKeysFor(i, now)))]
  /\ UNCHANGED <<authorizations, idempotencyIndex>>
=============================================================================
