----------------------------- MODULE AgentPath -----------------------------
(***************************************************************************)
(* The agent path: POST /v1/authorizations, the approver's step-up         *)
(* resolution, lazy expiry and the expiry worker, execution on a payment   *)
(* rail, and the refund webhook, over one Postgres database.               *)
(*                                                                         *)
(* A request is a sequence of steps of a caller: what it reads before the  *)
(* mandate row lock (Begin...), and the section under the lock, which is   *)
(* one transaction and therefore one action (Commit...).  Whatever it      *)
(* remembers across the gap, including its own `now`, is in call[c].       *)
(***************************************************************************)
EXTENDS FiniteSets, LedgerSum

CONSTANTS
  Mandate,      \* mandate ids; each stands for one (mandate, agent, principal)
  Caller,       \* concurrent HTTP requests being served
  Key, NoKey,   \* idempotency keys, and a request that carries none
  Nobody,       \* no approver
  Amount,       \* amounts a request may ask for, in minor units
  RefundTotal,  \* cumulative amount_refunded values a charge event may carry
  MaxAuths,     \* bound: Authorization rows ever written
  MaxTime,      \* bound: the last instant of the clock
  MaxCrashes,   \* bound: requests and worker passes lost half way
  Unstable,     \* bound: mandates whose status and agent key change in a run
  Policy        \* the immutable policy of each mandate's current version

Id == 1..MaxAuths
Time == 0..MaxTime
Decision == {"ALLOW", "STEP_UP", "DENY"}

\* What the engine reads of a Policy.  `verdicts` gathers every rule that does
\* not read the ledger (currency, time window, merchant, category, constraints,
\* per-transaction maximum, above_amount): the outcomes those rules may have
\* for an action of that amount.  `window` is the length of a calendar window.
PolicyType ==
  [max_amount : Nat, max_count : Nat, above_cumulative : Nat,
   verdicts : [Amount -> (SUBSET Decision) \ {{}}],
   expires_at : Nat, ttl : Nat \ {0}, window : Nat \ {0},
   reserve_on_step_up : BOOLEAN, refunds_credit_budget : BOOLEAN,
   approvers : SUBSET Mandate]

ASSUME BoundsAssumption ==
  MaxAuths \in Nat /\ MaxTime \in Nat /\ MaxCrashes \in Nat
ASSUME AmountAssumption ==
  Amount \subseteq Nat \ {0} /\ RefundTotal \subseteq Nat
ASSUME NamesAssumption == NoKey \notin Key /\ Nobody \notin Mandate /\ Unstable \subseteq Mandate
ASSUME PolicyAssumption == Policy \in [Mandate -> PolicyType]

VARIABLES
  clock,       \* wall-clock time
  status,      \* mandates.status
  credential,  \* the agent's API key is unrevoked and its row is ACTIVE
  auth,        \* the authorizations table, each row with its ledger entries
  call,        \* the local state of each request
  charged,     \* external: authorizations whose money moved at the provider
  seen,        \* provider_events: refund events already applied
  sweep,       \* what the worker's current pass still has to expire
  evidence,    \* signed events appended after a commit: <<id, type>>
  crashes      \* requests and passes lost so far

vars == <<clock, status, credential, auth, call, charged, seen, sweep,
          evidence, crashes>>

----------------------------------------------------------------------------
(* Rows.  The ledger is append-only; a row carries the sum of its own       *)
(* RESERVATION, RELEASE, CAPTURE and CREDIT entries, all of which belong to *)
(* the window of `at` (D-72), and the RESERVATION an approval wrote on the  *)
(* approver's mandate in the window of `approvedAt`.                        *)

Status == {"NONE", "DENIED", "PENDING_STEP_UP", "AUTHORIZED", "STEP_UP_APPROVED",
           "STEP_UP_DECLINED", "EXPIRED", "EXECUTED"}

Row == [mandate : Mandate \cup {Nobody}, amount : Nat, key : Key \cup {NoKey},
        status : Status, at : Time, expires : Nat,
        reserved : Nat, released : Nat, captured : Nat, credited : Nat,
        approver : Mandate \cup {Nobody}, approvedAt : Time]

\* Mutant: asExecutable forgets that a pending step-up is not a yes.
ExecutableOrPending == {"AUTHORIZED", "STEP_UP_APPROVED", "PENDING_STEP_UP"}
EXECUTABLE_STATUSES == {"AUTHORIZED", "STEP_UP_APPROVED"}

Used == {i \in Id : auth[i].status # "NONE"}
NextId(i) == i \in Id \ Used /\ 1..(i - 1) \subseteq Used
\* Mutant: no idempotency lookup and no unique index.
ClaimedNever(k) == {}
Claimed(k) == {i \in Used : k # NoKey /\ auth[i].key = k}

----------------------------------------------------------------------------
(* Spend: the window roll-up of a mandate's ledger.                         *)

Window(m, t) == t \div Policy[m].window

OwnEntries(r, m, w) == r.mandate = m /\ Window(m, r.at) = w
ApprovalEntry(r, m, w) == r.approver = m /\ Window(m, r.approvedAt) = w

Contribution(r, m, w) ==
  (IF OwnEntries(r, m, w)
   THEN r.reserved - r.released + r.captured
        - (IF Policy[m].refunds_credit_budget THEN r.credited ELSE 0)
   ELSE 0)
  + (IF ApprovalEntry(r, m, w) THEN r.amount ELSE 0)

SpentIn(m, w) == Total([i \in Id |-> Contribution(auth[i], m, w)], MaxAuths)

\* Mutant: a settled payment returns its slot (reservations - releases).
CountedHolding(r, m, w) ==
  (OwnEntries(r, m, w) /\ r.reserved > 0 /\ r.released = 0) \/ ApprovalEntry(r, m, w)

\* A transaction counts once money moved, or while it holds a reservation.
Counted(r, m, w) ==
  \/ OwnEntries(r, m, w) /\ (r.captured > 0 \/ (r.reserved > 0 /\ r.released = 0))
  \/ ApprovalEntry(r, m, w)

CountIn(m, w) == Cardinality({i \in Id : Counted(auth[i], m, w)})

----------------------------------------------------------------------------
(* The decision engine, as far as the ledger and the clock decide it.       *)

Lapsed(m, now) == Policy[m].expires_at <= now
\* Mutant: only the policy's clock is re-read under the lock, not the status.
LiveByClock(m, now) == ~Lapsed(m, now)
Live(m, now) == status[m] = "ACTIVE" /\ ~Lapsed(m, now)

OverAmount(m, a, now) == SpentIn(m, Window(m, now)) + a > Policy[m].max_amount
OverCount(m, now) == CountIn(m, Window(m, now)) + 1 > Policy[m].max_count
Escalates(m, a, now) ==
  SpentIn(m, Window(m, now)) + a >= Policy[m].above_cumulative

\* v is what the rules that do not read the ledger said of the action.
Evaluate(m, a, now, v) ==
  IF v = "DENY" \/ Lapsed(m, now) \/ OverAmount(m, a, now) \/ OverCount(m, now)
  THEN "DENY"
  ELSE IF v = "STEP_UP" \/ Escalates(m, a, now) THEN "STEP_UP" ELSE "ALLOW"

statusForDecision(d) ==
  IF d = "ALLOW" THEN "AUTHORIZED" ELSE IF d = "DENY" THEN "DENIED" ELSE "PENDING_STEP_UP"

shouldReserve(d, m) ==
  d = "ALLOW" \/ (d = "STEP_UP" /\ Policy[m].reserve_on_step_up)

----------------------------------------------------------------------------
(* Requests.                                                                *)

Idle == [op |-> "idle"]
\* The request ended in an unhandled exception: a 500.
Threw(op) == [op |-> "threw", at |-> op]

Call ==
  {Idle}
  \cup [op : {"threw"}, at : {"authorize", "expire", "capture"}]
  \cup [op : {"authorize"}, mandate : Mandate, amount : Amount,
        key : Key \cup {NoKey}, now : Time, admitted : BOOLEAN]
  \cup [op : {"approve"}, id : Id, approver : Mandate, now : Time]
  \cup [op : {"expire", "execute", "capture"}, id : Id]
  \cup [op : {"receipt"}, id : Id,
        type : {"step_up.approved", "step_up.declined", "execution.completed"}]

Free(c) == call[c].op \in {"idle", "threw"}
Becomes(c, q) == call' = [call EXCEPT ![c] = q]

\* Bound: a request is let in only if a row is left for it.
Room ==
  Cardinality(Id \ Used) > Cardinality({c \in Caller : call[c].op = "authorize"})

----------------------------------------------------------------------------
NoRow == [mandate |-> Nobody, amount |-> 0,
          key |-> NoKey, status |-> "NONE", at |-> 0, expires |-> 0,
          reserved |-> 0, released |-> 0, captured |-> 0, credited |-> 0,
          approver |-> Nobody, approvedAt |-> 0]

Init ==
  /\ clock = 0
  /\ status = [m \in Mandate |-> IF m \in Unstable THEN "PENDING_AUTHENTICATION" ELSE "ACTIVE"]
  /\ credential = [m \in Mandate |-> TRUE]
  /\ auth = [i \in Id |-> NoRow]
  /\ call = [c \in Caller |-> Idle]
  /\ charged = {} /\ seen = {} /\ sweep = {} /\ evidence = {} /\ crashes = 0

----------------------------------------------------------------------------
(* POST /v1/authorizations.                                                 *)

\* The idempotency lookup, the mandate gate and the key check, before the lock.
\* A hit on the idempotency key answers at once and changes nothing.
BeginAuthorize(c, m, a, k) ==
  /\ Free(c) /\ Room
  /\ Claimed(k) = {}
  /\ Becomes(c, [op |-> "authorize", mandate |-> m, amount |-> a, key |-> k, now |-> clock,
                 admitted |-> status[m] = "ACTIVE" /\ credential[m]])
  /\ UNCHANGED <<clock, status, credential, auth, charged, seen, sweep, evidence, crashes>>

\* A refused request is a DENY without an evaluation.
DecisionFor(q, v) ==
  IF q.admitted /\ Live(q.mandate, q.now)
  THEN Evaluate(q.mandate, q.amount, q.now, v) ELSE "DENY"

\* The row a request saves, with its hold.
Decided(q, v) ==
  LET d == DecisionFor(q, v)
  IN [mandate |-> q.mandate, amount |-> q.amount, key |-> q.key,
      status |-> statusForDecision(d), at |-> q.now,
      expires |-> IF d = "STEP_UP" THEN q.now + Policy[q.mandate].ttl ELSE 0,
      reserved |-> IF shouldReserve(d, q.mandate) THEN q.amount ELSE 0,
      released |-> 0, captured |-> 0, credited |-> 0,
      approver |-> Nobody, approvedAt |-> 0]

\* The section under the mandate lock: decision, hold and authorization.decided.
CommitAuthorize(c) ==
  LET q == call[c] IN
  /\ q.op = "authorize" /\ Claimed(q.key) = {}
  /\ \E i \in Id, v \in Policy[q.mandate].verdicts[q.amount] :
       NextId(i) /\ auth' = [auth EXCEPT ![i] = Decided(q, v)]
  /\ Becomes(c, Idle)
  /\ UNCHANGED <<clock, status, credential, charged, seen, sweep, evidence, crashes>>

\* The key was taken meanwhile.  An admitted request looks again under the lock
\* and replays or reports a conflict.  A refused request does not look, and two
\* mandates' locks do not exclude each other: there the unique index on
\* (organization, idempotency key) rejects the insert and the request throws.
KeyTaken(c) ==
  LET q == call[c] IN
  /\ q.op = "authorize" /\ Claimed(q.key) # {}
  /\ \/ q.admitted /\ Becomes(c, Idle)
     \/ /\ ~q.admitted \/ \E i \in Claimed(q.key) : auth[i].mandate # q.mandate
        /\ Becomes(c, Threw("authorize"))
  /\ UNCHANGED <<clock, status, credential, auth, charged, seen, sweep, evidence, crashes>>

----------------------------------------------------------------------------
(* Resolving a step-up.  Every path ends in the repository's resolveStepUp. *)

\* Mutants: the hold is not given back; it is given back with the wrong sign.
LetGoKept(r, outcome) == [r EXCEPT !.status = outcome]
LetGoSigned(r, outcome) == [r EXCEPT !.status = outcome, !.released = @ - r.reserved]

\* A decline or an expiry gives the hold back, in the hold's own window.
LetGo(r, outcome) == [r EXCEPT !.status = outcome, !.released = @ + r.reserved]

\* An approval charges the approver now, and the spender in the window the
\* step-up was decided in, unless raising it already took that hold.
Approved(r, p, now) ==
  [r EXCEPT !.status = "STEP_UP_APPROVED", !.approver = p, !.approvedAt = now,
            !.reserved = IF @ = 0 THEN r.amount ELSE @]

\* POST /v1/authorizations/:id/step-up, before the locks: expireIfNeeded found
\* nothing to expire, the approver's key and gate are good, rules 1 and 2 hold.
BeginApprove(c, i, p) ==
  /\ Free(c)
  /\ auth[i].status = "PENDING_STEP_UP" /\ clock < auth[i].expires
  /\ credential[p] /\ status[p] = "ACTIVE"
  /\ p # auth[i].mandate
  /\ p \in Policy[auth[i].mandate].approvers
  /\ Becomes(c, [op |-> "approve", id |-> i, approver |-> p, now |-> clock])
  /\ UNCHANGED <<clock, status, credential, auth, charged, seen, sweep, evidence, crashes>>

\* Mutant: the spender's limit is not looked at again (before D-85).
HoldUnchecked(r, now) == TRUE

\* D-85: what the approval would newly hold fits under the spender's limit.
HoldFits(r, now) ==
  LET increment == r.amount - (r.reserved - r.released)
  IN increment > 0 => ~OverAmount(r.mandate, increment, now)

\* Rules 3 and 4, in the order the section under both locks tests them.
Resolution(r, p, now, v) ==
  IF r.expires <= now THEN LetGo(r, "EXPIRED")
  ELSE IF Live(r.mandate, now) /\ HoldFits(r, now) /\ Evaluate(p, r.amount, now, v) = "ALLOW"
       THEN Approved(r, p, now)
       ELSE LetGo(r, "STEP_UP_DECLINED")

\* The section under both mandate locks; the receipt is written after it.
CommitApprove(c) ==
  LET q == call[c]  r == auth[q.id] IN
  /\ q.op = "approve" /\ r.status = "PENDING_STEP_UP"
  /\ \E v \in Policy[q.approver].verdicts[r.amount] :
       LET s == Resolution(r, q.approver, q.now, v) IN
       /\ auth' = [auth EXCEPT ![q.id] = s]
       /\ Becomes(c, [op |-> "receipt", id |-> q.id,
                      type |-> IF s.status = "STEP_UP_APPROVED" THEN "step_up.approved"
                                                                ELSE "step_up.declined"])
  /\ UNCHANGED <<clock, status, credential, charged, seen, sweep, evidence, crashes>>

\* Mutant: the loser of the race signs the approval it asked for.
ReplayAsApproved(c) ==
  /\ call[c].op = "approve" /\ auth[call[c].id].status # "PENDING_STEP_UP"
  /\ Becomes(c, [op |-> "receipt", id |-> call[c].id, type |-> "step_up.approved"])
  /\ UNCHANGED <<clock, status, credential, auth, charged, seen, sweep, evidence, crashes>>

\* First writer wins: whoever comes second replays the recorded outcome.
ReplayApprove(c) ==
  /\ call[c].op = "approve" /\ auth[call[c].id].status # "PENDING_STEP_UP"
  /\ Becomes(c, Idle)
  /\ UNCHANGED <<clock, status, credential, auth, charged, seen, sweep, evidence, crashes>>

\* expireIfNeeded on GET, step-up and execute: the row was read before the lock.
BeginExpire(c, i) ==
  /\ Free(c)
  /\ auth[i].status = "PENDING_STEP_UP" /\ auth[i].expires <= clock
  /\ Becomes(c, [op |-> "expire", id |-> i])
  /\ UNCHANGED <<clock, status, credential, auth, charged, seen, sweep, evidence, crashes>>

\* resolveStepUp throws when the row is no longer pending.
CommitExpire(c) ==
  LET i == call[c].id IN
  /\ call[c].op = "expire"
  /\ IF auth[i].status = "PENDING_STEP_UP"
     THEN auth' = [auth EXCEPT ![i] = LetGo(@, "EXPIRED")] /\ Becomes(c, Idle)
     ELSE Becomes(c, Threw("expire")) /\ UNCHANGED auth
  /\ UNCHANGED <<clock, status, credential, charged, seen, sweep, evidence, crashes>>

----------------------------------------------------------------------------
(* The expiry worker: a second process, one transaction per listed row.     *)

SweepList ==
  /\ sweep = {}
  /\ sweep' = {i \in Id : auth[i].status = "PENDING_STEP_UP" /\ auth[i].expires <= clock}
  /\ UNCHANGED <<clock, status, credential, auth, call, charged, seen, evidence, crashes>>

\* Mutants: the row is not looked at again; the first lost race ends the worker.
SweepOneBlind(i) ==
  /\ i \in sweep
  /\ sweep' = sweep \ {i}
  /\ auth' = [auth EXCEPT ![i] = LetGo(@, "EXPIRED")]
  /\ UNCHANGED <<clock, status, credential, call, charged, seen, evidence, crashes>>
SweepOneUncaught(i) ==
  /\ auth[i].status = "PENDING_STEP_UP"
  /\ SweepOneBlind(i)

\* Losing the race to a request is caught and logged: the pass goes on.
SweepOne(i) ==
  /\ i \in sweep
  /\ sweep' = sweep \ {i}
  /\ auth' = IF auth[i].status = "PENDING_STEP_UP"
             THEN [auth EXCEPT ![i] = LetGo(@, "EXPIRED")] ELSE auth
  /\ UNCHANGED <<clock, status, credential, call, charged, seen, evidence, crashes>>

----------------------------------------------------------------------------
(* POST /v1/authorizations/:id/execute.                                     *)

\* asExecutable on a row read outside any lock; the mandate is not read again.
BeginExecute(c, i) ==
  /\ Free(c)
  /\ auth[i].status \in EXECUTABLE_STATUSES
  /\ Becomes(c, [op |-> "execute", id |-> i])
  /\ UNCHANGED <<clock, status, credential, auth, charged, seen, sweep, evidence, crashes>>

\* External: the provider charges at most once per `execute:<id>` key, and a
\* charge that succeeded may still be reported as an error (a lost response, a
\* failed fee lookup).  A failure keeps the hold.
AdapterSucceeds(c) ==
  /\ call[c].op = "execute"
  /\ charged' = charged \cup {call[c].id}
  /\ Becomes(c, [call[c] EXCEPT !.op = "capture"])
  /\ UNCHANGED <<clock, status, credential, auth, seen, sweep, evidence, crashes>>

AdapterFails(c) ==
  /\ call[c].op = "execute"
  /\ charged' \in {charged, charged \cup {call[c].id}}
  /\ evidence' = evidence \cup {<<call[c].id, "execution.rejected">>}
  /\ Becomes(c, Idle)
  /\ UNCHANGED <<clock, status, credential, auth, seen, sweep, crashes>>

\* Mutant: captures on top of the hold.
CapturedOnTop(r) == [r EXCEPT !.status = "EXECUTED", !.captured = @ + r.amount]

\* RELEASE of the hold and CAPTURE of the authorized amount, one transaction.
Captured(r) ==
  [r EXCEPT !.status = "EXECUTED", !.released = @ + r.reserved, !.captured = @ + r.amount]

\* recordExecution under the mandate lock: once only, a second one returns quietly.
RecordExecution(c) ==
  LET i == call[c].id IN
  /\ call[c].op = "capture"
  /\ CASE auth[i].status = "EXECUTED" ->
            UNCHANGED auth /\ Becomes(c, [op |-> "receipt", id |-> i, type |-> "execution.completed"])
       [] auth[i].status \in EXECUTABLE_STATUSES ->
            /\ auth' = [auth EXCEPT ![i] = Captured(@)]
            /\ Becomes(c, [op |-> "receipt", id |-> i, type |-> "execution.completed"])
       [] OTHER -> UNCHANGED auth /\ Becomes(c, Threw("capture"))
  /\ UNCHANGED <<clock, status, credential, charged, seen, sweep, evidence, crashes>>

\* The signed receipt of an approval or an execution, after its transaction.
WriteReceipt(c) ==
  /\ call[c].op = "receipt"
  /\ evidence' = evidence \cup {<<call[c].id, call[c].type>>}
  /\ Becomes(c, Idle)
  /\ UNCHANGED <<clock, status, credential, auth, charged, seen, sweep, crashes>>

----------------------------------------------------------------------------
(* The refund webhook.                                                      *)

\* Mutants: no clamp to what was captured; the cumulative total credited again.
RefundedUnclamped(r, total) ==
  [r EXCEPT !.credited = IF total > @ THEN total ELSE @]
RefundedCumulative(r, total) ==
  [r EXCEPT !.credited = IF @ + total > r.captured THEN r.captured ELSE @ + total]

\* D-82: the delta over what is credited already, clamped to what was captured.
Refunded(r, total) ==
  LET requested == total - r.credited
      room == r.captured - r.credited
      smaller == IF requested < room THEN requested ELSE room
  IN [r EXCEPT !.credited = @ + (IF smaller > 0 THEN smaller ELSE 0)]

\* charge.refunded carries the cumulative total; events come late, twice, in any
\* order.  The event and its effect commit together; a duplicate does nothing.
RefundEvent(i, total) ==
  /\ i \in charged /\ <<i, total>> \notin seen
  /\ seen' = seen \cup {<<i, total>>}
  /\ auth' = [auth EXCEPT ![i] = Refunded(@, total)]
  /\ UNCHANGED <<clock, status, credential, call, charged, sweep, evidence, crashes>>

----------------------------------------------------------------------------
(* Mandates, credentials, time and failures.                                *)

\* The last step of a passkey ceremony writes ACTIVE, whatever was there.
activateMandate(m) ==
  /\ status' = [status EXCEPT ![m] = "ACTIVE"]
  /\ UNCHANGED <<clock, credential, auth, call, charged, seen, sweep, evidence, crashes>>

\* External: no route writes REVOKED; an operator does, on the mandates row,
\* which waits for the row lock.
Revoke(m) ==
  /\ status[m] = "ACTIVE"
  /\ status' = [status EXCEPT ![m] = "REVOKED"]
  /\ UNCHANGED <<clock, credential, auth, call, charged, seen, sweep, evidence, crashes>>

revokeKey(m) ==
  /\ credential[m]
  /\ credential' = [credential EXCEPT ![m] = FALSE]
  /\ UNCHANGED <<clock, status, auth, call, charged, seen, sweep, evidence, crashes>>

Tick ==
  /\ clock < MaxTime
  /\ clock' = clock + 1
  /\ UNCHANGED <<status, credential, auth, call, charged, seen, sweep, evidence, crashes>>

\* A request dies between two of its transactions (crash, failed connection).
Crash(c) ==
  /\ crashes < MaxCrashes /\ ~Free(c)
  /\ crashes' = crashes + 1
  /\ Becomes(c, Idle)
  /\ UNCHANGED <<clock, status, credential, auth, charged, seen, sweep, evidence>>

WorkerCrash ==
  /\ crashes < MaxCrashes /\ sweep # {}
  /\ crashes' = crashes + 1 /\ sweep' = {}
  /\ UNCHANGED <<clock, status, credential, auth, call, charged, seen, evidence>>

----------------------------------------------------------------------------
CallerStep(c) ==
  \/ \E m \in Mandate, a \in Amount, k \in Key \cup {NoKey} : BeginAuthorize(c, m, a, k)
  \/ CommitAuthorize(c)
  \/ KeyTaken(c)
  \/ \E i \in Id, p \in Mandate : BeginApprove(c, i, p)
  \/ CommitApprove(c)
  \/ ReplayApprove(c)
  \/ \E i \in Id : BeginExpire(c, i)
  \/ CommitExpire(c)
  \/ \E i \in Id : BeginExecute(c, i)
  \/ AdapterSucceeds(c)
  \/ AdapterFails(c)
  \/ RecordExecution(c)
  \/ WriteReceipt(c)
  \/ Crash(c)

Next ==
  \/ \E c \in Caller : CallerStep(c)
  \/ SweepList
  \/ \E i \in Id : SweepOne(i)
  \/ \E i \in Id, t \in RefundTotal : RefundEvent(i, t)
  \/ \E m \in Unstable : activateMandate(m)
  \/ \E m \in Unstable : Revoke(m)
  \/ \E m \in Unstable : revokeKey(m)
  \/ Tick
  \/ WorkerCrash

Spec == Init /\ [][Next]_vars

\* The worker's loop and the clock keep running; nobody owes it a request.
Fairness == WF_vars(SweepList) /\ (\A i \in Id : WF_vars(SweepOne(i))) /\ WF_vars(Tick)

FairSpec == Spec /\ Fairness

----------------------------------------------------------------------------
(* Properties.                                                              *)

TypeOK ==
  /\ clock \in Time
  /\ status \in [Mandate -> {"PENDING_AUTHENTICATION", "ACTIVE", "REVOKED"}]
  /\ credential \in [Mandate -> BOOLEAN]
  /\ auth \in [Id -> Row]
  /\ call \in [Caller -> Call]
  /\ charged \subseteq Id
  /\ seen \subseteq Id \X RefundTotal
  /\ sweep \subseteq Id
  /\ evidence \subseteq Id \X {"step_up.approved", "step_up.declined",
                               "execution.completed", "execution.rejected"}
  /\ crashes \in 0..MaxCrashes

\* I-6, D-4, D-71, D-85: in no window does what a mandate holds, has captured
\* and has lent as an approver exceed its cumulative limit, however requests,
\* approvals, executions, expiries and refunds interleave.
WithinCap == \A m \in Mandate, w \in Time : SpentIn(m, w) <= Policy[m].max_amount

\* max_count, "cap on the number of transactions in the same window": however
\* many payments settle, are refunded or are approved for others meanwhile, no
\* more than that many may still move money or have moved it.
WithinCount ==
  \A m \in Mandate, w \in Time :
    Cardinality({i \in Id :
        \/ OwnEntries(auth[i], m, w) /\ auth[i].status \in EXECUTABLE_STATUSES \cup {"EXECUTED"}
        \/ ApprovalEntry(auth[i], m, w)}) <= Policy[m].max_count

\* I-6, D-72, D-82: no release, second capture or refund drives a window's sum
\* below zero, which would be budget nobody granted.
NeverNegative == \A m \in Mandate, w \in Time : SpentIn(m, w) >= 0

\* Money that moved at the provider stays on the ledger, as a hold or as a
\* capture, through lost responses, crashes, late captures and racing expiries.
MoneyMovedIsBooked ==
  \A i \in charged : auth[i].reserved - auth[i].released + auth[i].captured >= auth[i].amount

\* D-62: money the engine escalated never moves without another mandate, one the
\* spender's policy names, having approved it.
NoEscalatedMoneyAlone ==
  \A i \in charged :
    auth[i].expires > 0 => auth[i].approver \in Policy[auth[i].mandate].approvers \ {auth[i].mandate}

\* D-82, D-81: however often, late or in whatever order the provider reports its
\* cumulative refunds, the budget gets back no more than the largest total seen.
NoPhantomCredit ==
  \A i \in Id : auth[i].credited > 0 =>
    \E t \in RefundTotal : <<i, t>> \in seen /\ auth[i].credited <= t

\* One idempotency key, one authorization: retries racing each other inside and
\* outside the lock never decide, or hold budget for, the same request twice.
OneDecisionPerKey ==
  \A i, j \in Used : auth[i].key = auth[j].key /\ auth[i].key # NoKey => i = j

\* A signed receipt written after its transaction says what the row became.
ReceiptsAreTrue ==
  \A i \in Id :
    /\ <<i, "step_up.approved">> \in evidence => auth[i].status \in {"STEP_UP_APPROVED", "EXECUTED"}
    /\ <<i, "step_up.declined">> \in evidence => auth[i].status \in {"STEP_UP_DECLINED", "EXPIRED"}
    /\ <<i, "execution.completed">> \in evidence => auth[i].status = "EXECUTED"

\* What each status says about the row's ledger entries: a hold exists exactly
\* while something can still spend it, and an executed row is released in full.
Balanced(r) ==
  /\ r.status = "NONE" => r = NoRow
  /\ r.status # "NONE" => r.mandate \in Mandate /\ r.amount \in Amount
  /\ r.status \in {"DENIED", "AUTHORIZED"} => r.expires = 0
  /\ r.status = "DENIED" => r.reserved = 0
  /\ r.status = "PENDING_STEP_UP" =>
       r.reserved = IF Policy[r.mandate].reserve_on_step_up THEN r.amount ELSE 0
  /\ r.status \in {"AUTHORIZED", "STEP_UP_APPROVED", "EXECUTED"} => r.reserved = r.amount
  /\ r.released = IF r.status \in {"STEP_UP_DECLINED", "EXPIRED", "EXECUTED"} THEN r.reserved ELSE 0
  /\ r.captured = IF r.status = "EXECUTED" THEN r.amount ELSE 0
  /\ r.credited <= r.captured
  /\ r.approver # Nobody => r.status \in {"STEP_UP_APPROVED", "EXECUTED"} /\ r.approver # r.mandate

\* No hold outlives the authorization it was taken for, and none is given back
\* twice or while its payment may still settle.
LedgerBalanced == \A i \in Id : Balanced(auth[i])

\* The rest of the inductive invariant: who may approve what is settled before
\* the locks and stays true, and money follows a granted row.
GRANTED == {"AUTHORIZED", "STEP_UP_APPROVED", "EXECUTED"}

ApproverNamed(r) ==
  /\ r.approver # Nobody => r.approver \in Policy[r.mandate].approvers \ {r.mandate}
  /\ r.status = "STEP_UP_APPROVED" => r.approver # Nobody
  /\ r.status = "EXECUTED" /\ r.expires > 0 => r.approver # Nobody

CallSound(q) ==
  /\ q.op = "approve" =>
       /\ auth[q.id].status # "NONE"
       /\ q.approver \in Policy[auth[q.id].mandate].approvers \ {auth[q.id].mandate}
  /\ q.op \in {"execute", "capture"} => auth[q.id].status \in GRANTED

Inv ==
  /\ TypeOK
  /\ LedgerBalanced
  /\ \A i \in Id : ApproverNamed(auth[i])
  /\ \A c \in Caller : CallSound(call[c])
  /\ \A i \in charged : auth[i].status \in GRANTED

\* D-73, D-80: a step that lets a payment proceed, or parks it for an approver,
\* happens only while the spending mandate is ACTIVE in the database, not merely
\* when its gate was read.
NoAuthorityOnceRevoked ==
  [][\A i \in Id :
       auth'[i].status # auth[i].status
       /\ auth'[i].status \in {"AUTHORIZED", "PENDING_STEP_UP", "STEP_UP_APPROVED"}
       => status[auth'[i].mandate] = "ACTIVE"]_vars

Lifecycle ==
  {<<"NONE", "DENIED">>, <<"NONE", "AUTHORIZED">>, <<"NONE", "PENDING_STEP_UP">>,
   <<"PENDING_STEP_UP", "STEP_UP_APPROVED">>, <<"PENDING_STEP_UP", "STEP_UP_DECLINED">>,
   <<"PENDING_STEP_UP", "EXPIRED">>,
   <<"AUTHORIZED", "EXECUTED">>, <<"STEP_UP_APPROVED", "EXECUTED">>}

\* D-62 Addition D: of an approval, an expiry seen by a request and the worker's
\* sweep racing for one step-up exactly one takes effect, and nothing that was
\* resolved or executed ever changes again.
ResolvedOnce ==
  [][\A i \in Id : auth'[i].status # auth[i].status
       => <<auth[i].status, auth'[i].status>> \in Lifecycle]_vars

\* D-31: a step-up past its TTL is resolved, and its hold released, although no
\* request ever looks at it again and the worker may crash or lose races.
LapsedStepUpsResolve ==
  \A i \in Id :
    (auth[i].status = "PENDING_STEP_UP" /\ auth[i].expires <= MaxTime)
      ~> auth[i].status # "PENDING_STEP_UP"

=============================================================================
