-------------------------- MODULE AgentPathProofs --------------------------
(***************************************************************************)
(* What holds of the agent path for every set of mandates, requests and    *)
(* amounts, every policy and every bound.                                  *)
(***************************************************************************)
EXTENDS AgentPathRefinement, FiniteSetTheorems

----------------------------------------------------------------------------
(* Typing of what an action writes into a row.                              *)

\* The fields of a mandate's policy that the engine and the ledger read.
LEMMA PolicyFields ==
  ASSUME NEW m \in Mandate
  PROVE  /\ Policy[m].max_amount \in Nat /\ Policy[m].max_count \in Nat
         /\ Policy[m].ttl \in Nat /\ Policy[m].ttl # 0
         /\ Policy[m].reserve_on_step_up \in BOOLEAN
         /\ Policy[m].refunds_credit_budget \in BOOLEAN
         /\ Policy[m].verdicts \in [Amount -> (SUBSET Decision) \ {{}}]
<1>1. Policy[m] \in PolicyType
  BY PolicyAssumption
<1> QED BY <1>1 DEF PolicyType

\* The row a request saves (recordDecision) is a well-formed row.
LEMMA DecidedType ==
  ASSUME NEW q, q.mandate \in Mandate, q.amount \in Amount, q.key \in Key \cup {NoKey},
         q.now \in Time, NEW v
  PROVE  Decided(q, v) \in Row
<1> DEFINE d == DecisionFor(q, v)
           x == IF d = "STEP_UP" THEN q.now + Policy[q.mandate].ttl ELSE 0
           h == IF shouldReserve(d, q.mandate) THEN q.amount ELSE 0
<1>1. q.now \in Nat /\ Policy[q.mandate].ttl \in Nat /\ q.amount \in Nat
  <2>1. q.now \in Nat
    BY DEF Time
  <2>2. Policy[q.mandate].ttl \in Nat
    BY PolicyFields
  <2>3. q.amount \in Nat
    BY AmountAssumption
  <2> QED BY <2>1, <2>2, <2>3
<1>2. statusForDecision(d) \in Status
  BY DEF statusForDecision, Status
<1>3. x \in Nat /\ h \in Nat /\ 0 \in Time /\ 0 \in Nat
  BY <1>1, BoundsAssumption DEF Time
<1>4. Decided(q, v) =
        [mandate |-> q.mandate, amount |-> q.amount, key |-> q.key,
         status |-> statusForDecision(d), at |-> q.now, expires |-> x,
         reserved |-> h, released |-> 0, captured |-> 0, credited |-> 0,
         approver |-> Nobody, approvedAt |-> 0]
  BY DEF Decided
<1> HIDE DEF d, x, h
<1> QED
  BY <1>1, <1>2, <1>3, <1>4 DEF Row

\* A release (resolveStepUp's decline and expiry) keeps a row well formed.
LEMMA LetGoType ==
  ASSUME NEW r \in Row, NEW o \in {"EXPIRED", "STEP_UP_DECLINED"}
  PROVE  LetGo(r, o) \in Row
<1> DEFINE x == r.released + r.reserved
<1>1. x \in Nat /\ o \in Status
  BY DEF Row, Status
<1>2. LetGo(r, o) = [r EXCEPT !.status = o, !.released = x]
  BY DEF LetGo
<1> HIDE DEF x
<1> QED BY <1>1, <1>2 DEF Row

\* The hold and the charge of an approval keep a row well formed.
LEMMA ApprovedType ==
  ASSUME NEW r \in Row, NEW p \in Mandate, NEW t \in Time
  PROVE  Approved(r, p, t) \in Row
<1> DEFINE h == IF r.reserved = 0 THEN r.amount ELSE r.reserved
<1>1. h \in Nat /\ "STEP_UP_APPROVED" \in Status
  BY DEF Row, Status
<1>2. Approved(r, p, t) =
        [r EXCEPT !.status = "STEP_UP_APPROVED", !.approver = p, !.approvedAt = t, !.reserved = h]
  BY DEF Approved
<1> HIDE DEF h
<1> QED BY <1>1, <1>2, ZenonT(60) DEF Row

\* recordExecution's release and capture keep a row well formed.
LEMMA CapturedType ==
  ASSUME NEW r \in Row
  PROVE  Captured(r) \in Row
<1> DEFINE x == r.released + r.reserved
           y == r.captured + r.amount
<1>1. x \in Nat /\ y \in Nat /\ "EXECUTED" \in Status
  BY DEF Row, Status
<1>2. Captured(r) = [r EXCEPT !.status = "EXECUTED", !.released = x, !.captured = y]
  BY DEF Captured
<1> HIDE DEF x, y
<1> QED BY <1>1, <1>2 DEF Row

\* What a refund event adds to the credits: the delta, clamped (recordRefund).
Delta(r, total) ==
  LET requested == total - r.credited
      room == r.captured - r.credited
      smaller == IF requested < room THEN requested ELSE room
  IN IF smaller > 0 THEN smaller ELSE 0

\* recordRefund's credit is a natural number, never takes the credits past what
\* was captured, and touches nothing else of the row.
LEMMA DeltaBounds ==
  ASSUME NEW r \in Row, NEW t \in Nat
  PROVE  /\ Delta(r, t) \in Nat
         /\ r.credited <= r.captured => r.credited + Delta(r, t) <= r.captured
         /\ Refunded(r, t) = [r EXCEPT !.credited = r.credited + Delta(r, t)]
<1>1. r.credited \in Nat /\ r.captured \in Nat
  BY DEF Row
<1>2. Delta(r, t) \in Nat /\ (r.credited <= r.captured => r.credited + Delta(r, t) <= r.captured)
  BY <1>1 DEF Delta
<1>3. Refunded(r, t) = [r EXCEPT !.credited = r.credited + Delta(r, t)]
  BY DEF Refunded, Delta
<1> QED BY <1>2, <1>3

\* recordRefund's credit keeps a row well formed.
LEMMA RefundedType ==
  ASSUME NEW r \in Row, NEW t \in Nat
  PROVE  Refunded(r, t) \in Row
<1> DEFINE x == r.credited + Delta(r, t)
<1>1. x \in Nat
  BY DeltaBounds DEF Row
<1>2. Refunded(r, t) = [r EXCEPT !.credited = x]
  BY DeltaBounds
<1> HIDE DEF x
<1> QED BY <1>1, <1>2 DEF Row

\* What each kind of request remembers between its steps.
LEMMA CallFields ==
  ASSUME NEW q \in Call
  PROVE  /\ q.op = "authorize" =>
              /\ q.mandate \in Mandate /\ q.amount \in Amount
              /\ q.key \in Key \cup {NoKey} /\ q.now \in Time
         /\ q.op = "approve" => q.id \in Id /\ q.approver \in Mandate /\ q.now \in Time
         /\ q.op \in {"expire", "execute", "capture", "receipt"} => q.id \in Id
         /\ q.op = "receipt" =>
              q.type \in {"step_up.approved", "step_up.declined", "execution.completed"}
BY DEF Call, Idle

\* Each verdict of a policy's stateless rules is a decision.
LEMMA VerdictType ==
  ASSUME NEW m \in Mandate, NEW a \in Amount
  PROVE  Policy[m].verdicts[a] \subseteq Decision
BY PolicyFields

----------------------------------------------------------------------------
(* Type correctness.                                                        *)

\* The records a request may be left in are the members of Call.
LEMMA CallMembers ==
  /\ Idle \in Call
  /\ \A o \in {"authorize", "expire", "capture"} : Threw(o) \in Call
  /\ \A m \in Mandate, a \in Amount, k \in Key \cup {NoKey}, t \in Time, b \in BOOLEAN :
       [op |-> "authorize", mandate |-> m, amount |-> a, key |-> k, now |-> t, admitted |-> b]
         \in Call
  /\ \A i \in Id, p \in Mandate, t \in Time :
       [op |-> "approve", id |-> i, approver |-> p, now |-> t] \in Call
  /\ \A i \in Id, o \in {"expire", "execute", "capture"} : [op |-> o, id |-> i] \in Call
  /\ \A i \in Id, y \in {"step_up.approved", "step_up.declined", "execution.completed"} :
       [op |-> "receipt", id |-> i, type |-> y] \in Call
BY DEF Call, Idle, Threw

\* A request that was told to call the provider remembers only its row.
LEMMA ExecuteMoves ==
  ASSUME NEW q \in Call, q.op = "execute"
  PROVE  [q EXCEPT !.op = "capture"] \in Call
<1>1. q \in [op : {"expire", "execute", "capture"}, id : Id]
  BY DEF Call, Idle
<1>2. [q EXCEPT !.op = "capture"] \in [op : {"expire", "execute", "capture"}, id : Id]
  BY <1>1
<1> QED BY <1>2 DEF Call

\* Every row an action writes is well formed, and it writes one row at most.
RowsTyped == auth' \in [Id -> Row]
CallsTyped == call' \in [Caller -> Call]

\* What Becomes leaves behind is a well-formed table of requests.
LEMMA BecomesType ==
  ASSUME TypeOK, NEW c \in Caller, NEW q \in Call, Becomes(c, q)
  PROVE  CallsTyped
BY DEF TypeOK, Becomes, CallsTyped

\* Saving one well-formed row leaves a well-formed table of authorizations.
LEMMA SaveType ==
  ASSUME TypeOK, NEW i \in Id, NEW r \in Row, auth' = [auth EXCEPT ![i] = r]
  PROVE  RowsTyped
BY DEF TypeOK, RowsTyped

\* Every action preserves the types of the columns, requests and events.
LEMMA TypingStep ==
  ASSUME TypeOK, [Next]_vars
  PROVE  TypeOK'
<1>1. ASSUME NEW c \in Caller, NEW m \in Mandate, NEW a \in Amount, NEW k \in Key \cup {NoKey},
             BeginAuthorize(c, m, a, k)
      PROVE  TypeOK'
  <2> DEFINE q == [op |-> "authorize", mandate |-> m, amount |-> a, key |-> k, now |-> clock,
                   admitted |-> status[m] = "ACTIVE" /\ credential[m]]
  <2>1. q \in Call
    BY CallMembers DEF TypeOK
  <2>2. CallsTyped
    BY <1>1, <2>1, BecomesType DEF BeginAuthorize
  <2> QED BY <1>1, <2>2 DEF BeginAuthorize, TypeOK, CallsTyped
<1>2. ASSUME NEW c \in Caller, CommitAuthorize(c) PROVE TypeOK'
  <2> DEFINE q == call[c]
  <2>1. q \in Call /\ q.op = "authorize"
    BY <1>2 DEF CommitAuthorize, TypeOK
  <2>2. PICK i \in Id, v \in Policy[q.mandate].verdicts[q.amount] :
          auth' = [auth EXCEPT ![i] = Decided(q, v)]
    BY <1>2 DEF CommitAuthorize
  <2>3. Decided(q, v) \in Row
    BY <2>1, CallFields, DecidedType
  <2>4. RowsTyped
    BY <2>2, <2>3, SaveType
  <2>5. CallsTyped
    BY <1>2, CallMembers, BecomesType DEF CommitAuthorize
  <2> QED BY <1>2, <2>4, <2>5 DEF CommitAuthorize, TypeOK, RowsTyped, CallsTyped
<1>3. ASSUME NEW c \in Caller, KeyTaken(c) PROVE TypeOK'
  <2>1. CallsTyped
    BY <1>3, CallMembers, BecomesType DEF KeyTaken
  <2> QED BY <1>3, <2>1 DEF KeyTaken, TypeOK, CallsTyped
<1>4. ASSUME NEW c \in Caller, NEW i \in Id, NEW p \in Mandate, BeginApprove(c, i, p)
      PROVE  TypeOK'
  <2>1. [op |-> "approve", id |-> i, approver |-> p, now |-> clock] \in Call
    BY CallMembers DEF TypeOK
  <2>2. CallsTyped
    BY <1>4, <2>1, BecomesType DEF BeginApprove
  <2> QED BY <1>4, <2>2 DEF BeginApprove, TypeOK, CallsTyped
<1>5. ASSUME NEW c \in Caller, CommitApprove(c) PROVE TypeOK'
  <2> DEFINE q == call[c]
             r == auth[q.id]
  <2>1. q \in Call /\ q.op = "approve"
    BY <1>5 DEF CommitApprove, TypeOK
  <2>2. q.id \in Id /\ q.approver \in Mandate /\ q.now \in Time
    BY <2>1, CallFields, SMTT(30)
  <2>3. PICK v : LET s == Resolution(r, q.approver, q.now, v) IN
          /\ auth' = [auth EXCEPT ![q.id] = s]
          /\ Becomes(c, [op |-> "receipt", id |-> q.id,
                         type |-> IF s.status = "STEP_UP_APPROVED" THEN "step_up.approved"
                                                                  ELSE "step_up.declined"])
    BY <1>5 DEF CommitApprove
  <2>4. r \in Row
    BY <2>2 DEF TypeOK
  <2>5. Resolution(r, q.approver, q.now, v) \in Row
    BY <2>2, <2>4, LetGoType, ApprovedType DEF Resolution
  <2>6. RowsTyped
    BY <2>2, <2>3, <2>5, SaveType
  <2>7. CallsTyped
    BY <2>2, <2>3, CallMembers, BecomesType
  <2> QED BY <1>5, <2>6, <2>7 DEF CommitApprove, TypeOK, RowsTyped, CallsTyped
<1>6. ASSUME NEW c \in Caller, ReplayApprove(c) PROVE TypeOK'
  <2>1. CallsTyped
    BY <1>6, CallMembers, BecomesType DEF ReplayApprove
  <2> QED BY <1>6, <2>1 DEF ReplayApprove, TypeOK, CallsTyped
<1>7. ASSUME NEW c \in Caller, NEW i \in Id, BeginExpire(c, i) PROVE TypeOK'
  <2>1. CallsTyped
    BY <1>7, CallMembers, BecomesType DEF BeginExpire
  <2> QED BY <1>7, <2>1 DEF BeginExpire, TypeOK, CallsTyped
<1>8. ASSUME NEW c \in Caller, CommitExpire(c) PROVE TypeOK'
  <2>1. call[c].id \in Id
    BY <1>8, CallFields DEF CommitExpire, TypeOK
  <2>2. LetGo(auth[call[c].id], "EXPIRED") \in Row
    BY <2>1, LetGoType DEF TypeOK
  <2>3. RowsTyped
    BY <1>8, <2>1, <2>2, SaveType DEF CommitExpire, TypeOK, RowsTyped
  <2>4. CallsTyped
    BY <1>8, CallMembers, BecomesType DEF CommitExpire
  <2> QED BY <1>8, <2>3, <2>4 DEF CommitExpire, TypeOK, RowsTyped, CallsTyped
<1>9. ASSUME NEW c \in Caller, NEW i \in Id, BeginExecute(c, i) PROVE TypeOK'
  <2>1. CallsTyped
    BY <1>9, CallMembers, BecomesType DEF BeginExecute
  <2> QED BY <1>9, <2>1 DEF BeginExecute, TypeOK, CallsTyped
<1>10. ASSUME NEW c \in Caller, AdapterSucceeds(c) PROVE TypeOK'
  <2>1. call[c].id \in Id
    BY <1>10, CallFields DEF AdapterSucceeds, TypeOK
  <2>2. CallsTyped
    BY <1>10, ExecuteMoves, BecomesType DEF AdapterSucceeds, TypeOK
  <2> QED BY <1>10, <2>1, <2>2 DEF AdapterSucceeds, TypeOK, CallsTyped
<1>11. ASSUME NEW c \in Caller, AdapterFails(c) PROVE TypeOK'
  <2>1. call[c].id \in Id
    BY <1>11, CallFields DEF AdapterFails, TypeOK
  <2>2. CallsTyped
    BY <1>11, CallMembers, BecomesType DEF AdapterFails
  <2> QED BY <1>11, <2>1, <2>2 DEF AdapterFails, TypeOK, CallsTyped
<1>12. ASSUME NEW c \in Caller, RecordExecution(c) PROVE TypeOK'
  <2> DEFINE i == call[c].id
  <2>1. i \in Id
    BY <1>12, CallFields DEF RecordExecution, TypeOK
  <2>2. Captured(auth[i]) \in Row
    BY <2>1, CapturedType DEF TypeOK
  <2>3. \/ UNCHANGED auth
        \/ auth' = [auth EXCEPT ![i] = Captured(auth[i])]
    BY <1>12 DEF RecordExecution
  <2>4. RowsTyped
    BY <2>1, <2>2, <2>3, SaveType DEF TypeOK, RowsTyped
  <2>5. \/ Becomes(c, [op |-> "receipt", id |-> i, type |-> "execution.completed"])
        \/ Becomes(c, Threw("capture"))
    BY <1>12 DEF RecordExecution
  <2>6. CallsTyped
    BY <2>1, <2>5, CallMembers, BecomesType
  <2> QED BY <1>12, <2>4, <2>6 DEF RecordExecution, TypeOK, RowsTyped, CallsTyped
<1>13. ASSUME NEW c \in Caller, WriteReceipt(c) PROVE TypeOK'
  <2>1. call[c] \in Call /\ call[c].op = "receipt"
    BY <1>13 DEF WriteReceipt, TypeOK
  <2>2. CallsTyped
    BY <1>13, CallMembers, BecomesType DEF WriteReceipt
  <2> QED BY <1>13, <2>1, <2>2, CallFields DEF WriteReceipt, TypeOK, CallsTyped
<1>14. ASSUME NEW c \in Caller, Crash(c) PROVE TypeOK'
  <2>1. CallsTyped
    BY <1>14, CallMembers, BecomesType DEF Crash
  <2>2. crashes' \in 0..MaxCrashes
    BY <1>14, BoundsAssumption DEF Crash, TypeOK
  <2> QED BY <1>14, <2>1, <2>2 DEF Crash, TypeOK, CallsTyped
<1>15. ASSUME SweepList PROVE TypeOK'
  BY <1>15 DEF SweepList, TypeOK
<1>16. ASSUME NEW i \in Id, SweepOne(i) PROVE TypeOK'
  <2>1. LetGo(auth[i], "EXPIRED") \in Row
    BY LetGoType DEF TypeOK
  <2>2. RowsTyped
    BY <1>16, <2>1, SaveType DEF SweepOne, TypeOK, RowsTyped
  <2> QED BY <1>16, <2>2 DEF SweepOne, TypeOK, RowsTyped
<1>17. ASSUME NEW i \in Id, NEW t \in RefundTotal, RefundEvent(i, t) PROVE TypeOK'
  <2>1. Refunded(auth[i], t) \in Row
    BY AmountAssumption, RefundedType DEF TypeOK
  <2>2. RowsTyped
    BY <1>17, <2>1, SaveType DEF RefundEvent
  <2> QED BY <1>17, <2>2 DEF RefundEvent, TypeOK, RowsTyped
<1>18. ASSUME NEW m \in Mandate, activateMandate(m) \/ Revoke(m) \/ revokeKey(m) PROVE TypeOK'
  BY <1>18 DEF activateMandate, Revoke, revokeKey, TypeOK
<1>19. ASSUME Tick PROVE TypeOK'
  BY <1>19, BoundsAssumption DEF Tick, TypeOK, Time
<1>20. ASSUME WorkerCrash PROVE TypeOK'
  BY <1>20, BoundsAssumption DEF WorkerCrash, TypeOK
<1>21. ASSUME UNCHANGED vars PROVE TypeOK'
  BY <1>21 DEF vars, TypeOK
<1> QED
  BY <1>1, <1>2, <1>3, <1>4, <1>5, <1>6, <1>7, <1>8, <1>9, <1>10, <1>11, <1>12, <1>13, <1>14,
     <1>15, <1>16, <1>17, <1>18, <1>19, <1>20, <1>21, NamesAssumption DEF Next, CallerStep

\* An empty database is well typed.
LEMMA TypingInit ==
  ASSUME Init
  PROVE  TypeOK
<1>1. 0 \in Time /\ 0 \in 0..MaxCrashes
  BY BoundsAssumption DEF Time
<1>2. NoRow \in Row
  BY <1>1 DEF NoRow, Row, Status
<1>3. Idle \in Call
  BY CallMembers
<1> QED BY <1>1, <1>2, <1>3 DEF Init, TypeOK

\* Every state of a run has the types the database schema and the requests give
\* it; in particular no ledger column ever goes below zero.
THEOREM Typing == Spec => []TypeOK
<1>1. Init => TypeOK
  BY TypingInit
<1>2. TypeOK /\ [Next]_vars => TypeOK'
  BY TypingStep
<1> QED BY <1>1, <1>2, PTL DEF Spec

----------------------------------------------------------------------------
(* What a step may write: at most one row, in one of five ways.             *)

Saves(i, s) ==
  /\ auth[i].status = "NONE"
  /\ \E q \in Call : q.op = "authorize" /\ Claimed(q.key) = {} /\ \E v : s = Decided(q, v)

Approves(i, s) ==
  /\ auth[i].status = "PENDING_STEP_UP"
  /\ \E c \in Caller :
       /\ call[c].op = "approve" /\ call[c].id = i
       /\ Live(auth[i].mandate, call[c].now) /\ HoldFits(auth[i], call[c].now)
       /\ \E v : Evaluate(call[c].approver, auth[i].amount, call[c].now, v) = "ALLOW"
       /\ s = Approved(auth[i], call[c].approver, call[c].now)

Releases(i, s) ==
  /\ auth[i].status = "PENDING_STEP_UP"
  /\ \E o \in {"EXPIRED", "STEP_UP_DECLINED"} : s = LetGo(auth[i], o)

Captures(i, s) ==
  /\ auth[i].status \in EXECUTABLE_STATUSES
  /\ \E c \in Caller : call[c].op = "capture" /\ call[c].id = i
  /\ s = Captured(auth[i])

Refunds(i, s) ==
  /\ i \in charged
  /\ \E t \in RefundTotal : <<i, t>> \in seen' /\ s = Refunded(auth[i], t)

Writes(i, s) ==
  /\ auth' = [auth EXCEPT ![i] = s]
  /\ UNCHANGED charged
  /\ Saves(i, s) \/ Approves(i, s) \/ Releases(i, s) \/ Captures(i, s) \/ Refunds(i, s)

\* Every transaction of the agent path writes the entries of one authorization:
\* it saves it, approves it, releases it, captures it or credits it.
LEMMA StepShape ==
  ASSUME TypeOK, [Next]_vars
  PROVE  UNCHANGED auth \/ \E i \in Id, s \in Row : Writes(i, s)
<1>1. ASSUME NEW c \in Caller, CommitAuthorize(c)
      PROVE  \E i \in Id, s \in Row : Writes(i, s)
  <2> DEFINE q == call[c]
  <2>1. q \in Call /\ q.op = "authorize" /\ Claimed(q.key) = {} /\ UNCHANGED charged
    BY <1>1 DEF CommitAuthorize, TypeOK
  <2>2. PICK i \in Id, v \in Policy[q.mandate].verdicts[q.amount] :
          NextId(i) /\ auth' = [auth EXCEPT ![i] = Decided(q, v)]
    BY <1>1 DEF CommitAuthorize
  <2>3. Decided(q, v) \in Row
    BY <2>1, CallFields, DecidedType
  <2>4. auth[i].status = "NONE"
    BY <2>2 DEF NextId, Used
  <2>5. Saves(i, Decided(q, v))
    BY <2>1, <2>4 DEF Saves
  <2> QED BY <2>1, <2>2, <2>3, <2>5 DEF Writes
<1>2. ASSUME NEW c \in Caller, CommitApprove(c)
      PROVE  \E i \in Id, s \in Row : Writes(i, s)
  <2> DEFINE q == call[c]
             r == auth[q.id]
  <2>1. q \in Call /\ q.op = "approve" /\ r.status = "PENDING_STEP_UP" /\ UNCHANGED charged
    BY <1>2 DEF CommitApprove, TypeOK
  <2>2. q.id \in Id /\ q.approver \in Mandate /\ q.now \in Time
    BY <2>1, CallFields, SMTT(30)
  <2>3. r \in Row
    BY <2>2 DEF TypeOK
  <2>4. PICK v : auth' = [auth EXCEPT ![q.id] = Resolution(r, q.approver, q.now, v)]
    BY <1>2 DEF CommitApprove
  <2> DEFINE s == Resolution(r, q.approver, q.now, v)
  <2>5. s \in Row
    BY <2>2, <2>3, LetGoType, ApprovedType DEF Resolution
  <2>6. \/ s = LetGo(r, "EXPIRED")
        \/ s = LetGo(r, "STEP_UP_DECLINED")
        \/ /\ s = Approved(r, q.approver, q.now) /\ HoldFits(r, q.now) /\ Live(r.mandate, q.now)
           /\ Evaluate(q.approver, r.amount, q.now, v) = "ALLOW"
    BY DEF Resolution
  <2> HIDE DEF s
  <2>7. Releases(q.id, s) \/ Approves(q.id, s)
    BY <2>1, <2>6 DEF Releases, Approves
  <2> QED BY <2>1, <2>2, <2>4, <2>5, <2>7 DEF Writes, s
<1>3. ASSUME NEW i \in Id, auth[i].status = "PENDING_STEP_UP",
             auth' = [auth EXCEPT ![i] = LetGo(auth[i], "EXPIRED")], UNCHANGED charged
      PROVE  \E j \in Id, s \in Row : Writes(j, s)
  <2>1. LetGo(auth[i], "EXPIRED") \in Row
    BY LetGoType DEF TypeOK
  <2>2. Releases(i, LetGo(auth[i], "EXPIRED"))
    BY <1>3 DEF Releases
  <2> QED BY <1>3, <2>1, <2>2 DEF Writes
<1>4. ASSUME NEW c \in Caller, CommitExpire(c)
      PROVE  UNCHANGED auth \/ \E i \in Id, s \in Row : Writes(i, s)
  <2>1. call[c].id \in Id
    BY <1>4, CallFields DEF CommitExpire, TypeOK
  <2> QED BY <1>3, <1>4, <2>1 DEF CommitExpire
<1>5. ASSUME NEW i \in Id, SweepOne(i)
      PROVE  UNCHANGED auth \/ \E j \in Id, s \in Row : Writes(j, s)
  BY <1>3, <1>5 DEF SweepOne
<1>6. ASSUME NEW c \in Caller, RecordExecution(c)
      PROVE  UNCHANGED auth \/ \E i \in Id, s \in Row : Writes(i, s)
  <2> DEFINE i == call[c].id
  <2>1. i \in Id
    BY <1>6, CallFields DEF RecordExecution, TypeOK
  <2>2. \/ UNCHANGED auth
        \/ /\ auth[i].status \in EXECUTABLE_STATUSES /\ UNCHANGED charged
           /\ auth' = [auth EXCEPT ![i] = Captured(auth[i])]
    BY <1>6 DEF RecordExecution
  <2>3. Captured(auth[i]) \in Row
    BY <2>1, CapturedType DEF TypeOK
  <2>4. auth[i].status \in EXECUTABLE_STATUSES => Captures(i, Captured(auth[i]))
    BY <1>6 DEF Captures, RecordExecution
  <2> QED BY <2>1, <2>2, <2>3, <2>4 DEF Writes
<1>7. ASSUME NEW i \in Id, NEW t \in RefundTotal, RefundEvent(i, t)
      PROVE  \E j \in Id, s \in Row : Writes(j, s)
  <2>1. Refunded(auth[i], t) \in Row
    BY AmountAssumption, RefundedType DEF TypeOK
  <2>2. Refunds(i, Refunded(auth[i], t))
    BY <1>7 DEF RefundEvent, Refunds
  <2> QED BY <1>7, <2>1, <2>2 DEF RefundEvent, Writes
<1>8. ASSUME NEW c \in Caller, CallerStep(c)
      PROVE  UNCHANGED auth \/ \E i \in Id, s \in Row : Writes(i, s)
  BY <1>1, <1>2, <1>4, <1>6, <1>8
     DEF CallerStep, BeginAuthorize, KeyTaken, BeginApprove, ReplayApprove, BeginExpire,
         BeginExecute, AdapterSucceeds, AdapterFails, WriteReceipt, Crash
<1> QED
  BY <1>5, <1>7, <1>8
     DEF Next, vars, SweepList, activateMandate, Revoke, revokeKey, Tick, WorkerCrash

----------------------------------------------------------------------------
(* What each kind of write does to a row that is already sound.             *)

\* What the ledger says of a row, and who allowed it.
RowSound(r) == Balanced(r) /\ ApproverNamed(r)

\* The status changes a write may make, none included.
Moves(r, s) == s.status = r.status \/ <<r.status, s.status>> \in Lifecycle

\* What no write changes once a row is there.
SameRequest(r, s) ==
  s.mandate = r.mandate /\ s.amount = r.amount /\ s.key = r.key
  /\ s.at = r.at /\ s.expires = r.expires

\* A decision is saved with the hold its status calls for and no approver.
LEMMA SavedSound ==
  ASSUME NEW q \in Call, q.op = "authorize", NEW v
  PROVE  /\ RowSound(Decided(q, v))
         /\ Decided(q, v).status \in {"DENIED", "AUTHORIZED", "PENDING_STEP_UP"}
<1> DEFINE d == DecisionFor(q, v)
           s == Decided(q, v)
<1>1. q.mandate \in Mandate /\ q.amount \in Amount /\ q.amount \in Nat
  BY CallFields, AmountAssumption
<1>2. d \in Decision
  BY DEF DecisionFor, Evaluate, Decision
<1>3. /\ s.mandate = q.mandate /\ s.amount = q.amount /\ s.status = statusForDecision(d)
      /\ s.reserved = (IF shouldReserve(d, q.mandate) THEN q.amount ELSE 0)
      /\ s.released = 0 /\ s.captured = 0 /\ s.credited = 0 /\ s.approver = Nobody
      /\ d # "STEP_UP" => s.expires = 0
  BY DEF Decided
<1>4. Policy[q.mandate].reserve_on_step_up \in BOOLEAN
  BY <1>1, PolicyFields
<1> DEFINE Sound == RowSound(s) /\ s.status \in {"DENIED", "AUTHORIZED", "PENDING_STEP_UP"}
<1> HIDE DEF s, d
<1>5. ASSUME d = "ALLOW" PROVE Sound
  <2>1. s.status = "AUTHORIZED" /\ s.reserved = q.amount /\ s.expires = 0
    BY <1>3, <1>5 DEF statusForDecision, shouldReserve
  <2> QED BY <1>1, <1>3, <2>1 DEF RowSound, Balanced, ApproverNamed
<1>6. ASSUME d = "DENY" PROVE Sound
  <2>1. s.status = "DENIED" /\ s.reserved = 0 /\ s.expires = 0
    BY <1>3, <1>6 DEF statusForDecision, shouldReserve
  <2> QED BY <1>1, <1>3, <2>1 DEF RowSound, Balanced, ApproverNamed
<1>7. ASSUME d = "STEP_UP" PROVE Sound
  <2>1. s.status = "PENDING_STEP_UP"
    BY <1>3, <1>7 DEF statusForDecision
  <2>2. s.reserved = IF Policy[q.mandate].reserve_on_step_up THEN q.amount ELSE 0
    BY <1>3, <1>7 DEF shouldReserve
  <2> QED BY <1>1, <1>3, <2>1, <2>2 DEF RowSound, Balanced, ApproverNamed
<1> QED BY <1>2, <1>5, <1>6, <1>7 DEF Decision, s

\* A decline or an expiry returns exactly what raising the step-up took.
LEMMA ReleasedSound ==
  ASSUME NEW r \in Row, RowSound(r), r.status = "PENDING_STEP_UP",
         NEW o \in {"EXPIRED", "STEP_UP_DECLINED"}
  PROVE  RowSound(LetGo(r, o)) /\ Moves(r, LetGo(r, o)) /\ SameRequest(r, LetGo(r, o))
<1> DEFINE s == LetGo(r, o)
<1>1. r.released = 0 /\ r.reserved \in Nat
  BY DEF RowSound, Balanced, Row
<1>2. /\ s.status = o /\ s.released = r.released + r.reserved
      /\ s.mandate = r.mandate /\ s.amount = r.amount /\ s.key = r.key /\ s.at = r.at
      /\ s.expires = r.expires /\ s.reserved = r.reserved /\ s.captured = r.captured
      /\ s.credited = r.credited /\ s.approver = r.approver
  BY DEF LetGo, Row
<1>3. s.released = s.reserved
  BY <1>1, <1>2
<1> HIDE DEF s
<1>4. RowSound(s)
  BY <1>2, <1>3 DEF RowSound, Balanced, ApproverNamed
<1>5. Moves(r, s) /\ SameRequest(r, s)
  BY <1>2 DEF Moves, Lifecycle, SameRequest
<1> QED BY <1>4, <1>5 DEF s

\* An approval leaves the spender with exactly one hold of the whole amount.
LEMMA ApprovedSound ==
  ASSUME NEW r \in Row, RowSound(r), r.status = "PENDING_STEP_UP", NEW t \in Time,
         NEW p \in Policy[r.mandate].approvers \ {r.mandate}, p \in Mandate
  PROVE  RowSound(Approved(r, p, t)) /\ Moves(r, Approved(r, p, t)) /\ SameRequest(r, Approved(r, p, t))
<1> DEFINE s == Approved(r, p, t)
<1>1. r.reserved \in {0, r.amount}
  BY DEF RowSound, Balanced
<1>2. /\ s.status = "STEP_UP_APPROVED" /\ s.approver = p
      /\ s.reserved = IF r.reserved = 0 THEN r.amount ELSE r.reserved
      /\ s.mandate = r.mandate /\ s.amount = r.amount /\ s.key = r.key /\ s.at = r.at
      /\ s.expires = r.expires /\ s.released = r.released /\ s.captured = r.captured
      /\ s.credited = r.credited
  BY DEF Approved, Row
<1>3. s.reserved = s.amount
  BY <1>1, <1>2
<1> HIDE DEF s
<1>4. RowSound(s)
  BY <1>2, <1>3, NamesAssumption DEF RowSound, Balanced, ApproverNamed
<1>5. Moves(r, s) /\ SameRequest(r, s)
  BY <1>2 DEF Moves, Lifecycle, SameRequest
<1> QED BY <1>4, <1>5 DEF s

\* A capture replaces the whole hold by the whole amount, once.
LEMMA CapturedSound ==
  ASSUME NEW r \in Row, RowSound(r), r.status \in EXECUTABLE_STATUSES
  PROVE  RowSound(Captured(r)) /\ Moves(r, Captured(r)) /\ SameRequest(r, Captured(r))
<1> DEFINE s == Captured(r)
<1>1. r.released = 0 /\ r.captured = 0 /\ r.reserved = r.amount /\ r.amount \in Nat /\ r.credited \in Nat
  BY DEF RowSound, Balanced, Row, EXECUTABLE_STATUSES
<1>2. r.credited = 0
  BY <1>1 DEF RowSound, Balanced
<1>3. /\ s.status = "EXECUTED" /\ s.approver = r.approver
      /\ s.released = r.released + r.reserved /\ s.captured = r.captured + r.amount
      /\ s.mandate = r.mandate /\ s.amount = r.amount /\ s.key = r.key /\ s.at = r.at
      /\ s.expires = r.expires /\ s.reserved = r.reserved /\ s.credited = r.credited
  BY DEF Captured, Row
<1>4. s.released = s.amount /\ s.reserved = s.amount /\ s.captured = s.amount /\ s.credited <= s.captured
  BY <1>1, <1>2, <1>3
<1> HIDE DEF s
<1>5. RowSound(s)
  BY <1>3, <1>4 DEF RowSound, Balanced, ApproverNamed, EXECUTABLE_STATUSES
<1>6. Moves(r, s) /\ SameRequest(r, s)
  BY <1>3 DEF Moves, Lifecycle, SameRequest, EXECUTABLE_STATUSES
<1> QED BY <1>5, <1>6 DEF s

\* A refund never credits more than was captured, and changes nothing else.
LEMMA RefundedSound ==
  ASSUME NEW r \in Row, RowSound(r), r.status # "NONE", NEW t \in Nat
  PROVE  RowSound(Refunded(r, t)) /\ Moves(r, Refunded(r, t)) /\ SameRequest(r, Refunded(r, t))
<1> DEFINE s == Refunded(r, t)
           x == r.credited + Delta(r, t)
<1>1. r.credited <= r.captured
  BY DEF RowSound, Balanced
<1>2. x <= r.captured /\ s = [r EXCEPT !.credited = x]
  BY <1>1, DeltaBounds
<1> HIDE DEF x
<1>3. /\ s.status = r.status /\ s.approver = r.approver /\ s.credited = x
      /\ s.mandate = r.mandate /\ s.amount = r.amount /\ s.key = r.key /\ s.at = r.at
      /\ s.expires = r.expires /\ s.reserved = r.reserved /\ s.released = r.released
      /\ s.captured = r.captured
  BY <1>2 DEF Row
<1> HIDE DEF s
<1>4. RowSound(s)
  BY <1>2, <1>3 DEF RowSound, Balanced, ApproverNamed
<1>5. Moves(r, s) /\ SameRequest(r, s)
  BY <1>3 DEF Moves, SameRequest
<1> QED BY <1>4, <1>5 DEF s

\* Any write leaves a sound row, by a status change of the lifecycle, and it
\* changes what was asked for only when it creates the row.
LEMMA WriteEffect ==
  ASSUME Inv, NEW i \in Id, NEW s \in Row, Writes(i, s)
  PROVE  /\ RowSound(s) /\ Moves(auth[i], s) /\ s.status # "NONE"
         /\ auth[i].status # "NONE" => SameRequest(auth[i], s)
<1> DEFINE r == auth[i]
<1>1. r \in Row
  BY DEF Inv, TypeOK
<1>2. RowSound(r)
  BY DEF Inv, LedgerBalanced, RowSound
<1>3. CASE Saves(i, s)
  <2>0. PICK q \in Call : q.op = "authorize" /\ \E v : s = Decided(q, v)
    BY <1>3 DEF Saves
  <2>1. PICK v : q.op = "authorize" /\ s = Decided(q, v)
    BY <2>0
  <2>2. RowSound(s) /\ s.status \in {"DENIED", "AUTHORIZED", "PENDING_STEP_UP"}
    BY <2>1, SavedSound
  <2>3. r.status = "NONE"
    BY <1>3 DEF Saves
  <2> QED BY <2>2, <2>3 DEF Moves, Lifecycle
<1>4. CASE Approves(i, s)
  <2>1. PICK c \in Caller :
          /\ call[c].op = "approve" /\ call[c].id = i
          /\ s = Approved(r, call[c].approver, call[c].now)
    BY <1>4 DEF Approves
  <2>2. call[c].approver \in Mandate /\ call[c].now \in Time
    BY <2>1, CallFields DEF Inv, TypeOK
  <2>3. call[c].approver \in Policy[r.mandate].approvers \ {r.mandate}
    BY <2>1 DEF Inv, CallSound
  <2>4. r.status = "PENDING_STEP_UP"
    BY <1>4 DEF Approves
  <2>5. RowSound(s) /\ Moves(r, s) /\ SameRequest(r, s)
    BY <1>1, <1>2, <2>1, <2>2, <2>3, <2>4, ApprovedSound
  <2> QED BY <2>4, <2>5 DEF Moves, Lifecycle
<1>5. CASE Releases(i, s)
  <2>1. PICK o \in {"EXPIRED", "STEP_UP_DECLINED"} : s = LetGo(r, o)
    BY <1>5 DEF Releases
  <2>2. r.status = "PENDING_STEP_UP"
    BY <1>5 DEF Releases
  <2>3. RowSound(s) /\ Moves(r, s) /\ SameRequest(r, s)
    BY <1>1, <1>2, <2>1, <2>2, ReleasedSound
  <2> QED BY <2>2, <2>3 DEF Moves, Lifecycle
<1>6. CASE Captures(i, s)
  <2>1. r.status \in EXECUTABLE_STATUSES /\ s = Captured(r)
    BY <1>6 DEF Captures
  <2>2. RowSound(s) /\ Moves(r, s) /\ SameRequest(r, s)
    BY <1>1, <1>2, <2>1, CapturedSound
  <2> QED BY <2>1, <2>2 DEF Moves, Lifecycle, EXECUTABLE_STATUSES
<1>7. CASE Refunds(i, s)
  <2>1. PICK t \in RefundTotal : s = Refunded(r, t)
    BY <1>7 DEF Refunds
  <2>2. r.status \in GRANTED /\ t \in Nat
    BY <1>7, AmountAssumption DEF Refunds, Inv
  <2>3. r.status # "NONE"
    BY <2>2 DEF GRANTED
  <2>4. RowSound(s) /\ Moves(r, s) /\ SameRequest(r, s)
    BY <1>1, <1>2, <2>1, <2>2, <2>3, RefundedSound
  <2> QED BY <2>3, <2>4 DEF Moves, Lifecycle
<1> QED BY <1>3, <1>4, <1>5, <1>6, <1>7 DEF Writes

----------------------------------------------------------------------------
(* The inductive invariant.                                                 *)

\* No step un-grants an authorization, deletes one, or moves one to another
\* mandate: what a request read before a lock about these stays true.
Persists(r, s) ==
  /\ r.status # "NONE" => s.status # "NONE" /\ SameRequest(r, s)
  /\ r.status \in GRANTED => s.status \in GRANTED

\* No step forgets a saved request or takes back a grant.
LEMMA RowsPersist ==
  ASSUME Inv, [Next]_vars
  PROVE  \A i \in Id : Persists(auth[i], auth'[i])
<1> SUFFICES ASSUME NEW i \in Id PROVE Persists(auth[i], auth'[i])
  OBVIOUS
<1>1. CASE UNCHANGED auth
  BY <1>1 DEF Persists, SameRequest
<1>2. CASE \E j \in Id, s \in Row : Writes(j, s)
  <2>1. PICK j \in Id, s \in Row : Writes(j, s)
    BY <1>2
  <2>2. auth'[i] = IF i = j THEN s ELSE auth[i]
    BY <2>1 DEF Writes, Inv, TypeOK
  <2>3. Moves(auth[j], s) /\ s.status # "NONE" /\ (auth[j].status # "NONE" => SameRequest(auth[j], s))
    BY <2>1, WriteEffect
  <2>4. auth[j].status \in GRANTED => s.status \in GRANTED
    BY <2>3 DEF Moves, Lifecycle, GRANTED
  <2> QED BY <2>2, <2>3, <2>4 DEF Persists, SameRequest
<1> QED BY <1>1, <1>2, StepShape DEF Inv

\* What a step may do to a request that matters later: let it into the approval
\* of a pending row, or into the execution of an executable one.
Admits(q, r) ==
  \/ q = r
  \/ q.op \in {"idle", "threw", "authorize", "expire", "receipt"}
  \/ /\ q.op = "approve" /\ q.id \in Id /\ auth[q.id].status = "PENDING_STEP_UP"
     /\ q.approver \in Policy[auth[q.id].mandate].approvers \ {auth[q.id].mandate}
  \/ q.op = "execute" /\ q.id \in Id /\ auth[q.id].status \in EXECUTABLE_STATUSES
  \/ q.op = "capture" /\ r.op = "execute" /\ q.id = r.id /\ q.id \in charged'

\* What a request remembers changes only in the ways a handler's steps allow.
LEMMA RequestsMove ==
  ASSUME TypeOK, [Next]_vars, NEW d \in Caller
  PROVE  Admits(call'[d], call[d])
<1>1. ASSUME NEW c \in Caller, NEW q, Becomes(c, q), Admits(q, call[c])
      PROVE  Admits(call'[d], call[d])
  <2>1. call'[d] = IF c = d THEN q ELSE call[d]
    BY <1>1 DEF Becomes, TypeOK
  <2> QED BY <1>1, <2>1 DEF Admits
<1>2. ASSUME UNCHANGED call PROVE Admits(call'[d], call[d])
  BY <1>2 DEF Admits
<1>3. ASSUME NEW c \in Caller, CallerStep(c)
      PROVE  Admits(call'[d], call[d])
  <2>1. ASSUME NEW m \in Mandate, NEW a \in Amount, NEW k \in Key \cup {NoKey},
               BeginAuthorize(c, m, a, k)
        PROVE  Admits(call'[d], call[d])
    BY <1>1, <2>1, SMTT(30) DEF BeginAuthorize, Admits
  <2>2. CASE CommitAuthorize(c)
    BY <1>1, <2>2, SMTT(30) DEF CommitAuthorize, Admits, Idle
  <2>3. CASE KeyTaken(c)
    BY <1>1, <2>3 DEF KeyTaken, Admits, Idle, Threw
  <2>4. ASSUME NEW i \in Id, NEW p \in Mandate, BeginApprove(c, i, p)
        PROVE  Admits(call'[d], call[d])
    BY <1>1, <2>4 DEF BeginApprove, Admits
  <2>5. CASE CommitApprove(c)
    BY <1>1, <2>5 DEF CommitApprove, Admits
  <2>6. CASE ReplayApprove(c)
    BY <1>1, <2>6, SMTT(30) DEF ReplayApprove, Admits, Idle
  <2>7. ASSUME NEW i \in Id, BeginExpire(c, i) PROVE Admits(call'[d], call[d])
    BY <1>1, <2>7 DEF BeginExpire, Admits
  <2>8. CASE CommitExpire(c)
    BY <1>1, <2>8 DEF CommitExpire, Admits, Idle, Threw
  <2>9. ASSUME NEW i \in Id, BeginExecute(c, i) PROVE Admits(call'[d], call[d])
    BY <1>1, <2>9 DEF BeginExecute, Admits
  <2>10. CASE AdapterSucceeds(c)
    <3> DEFINE q == [call[c] EXCEPT !.op = "capture"]
    <3>1. call[c] \in [op : {"expire", "execute", "capture"}, id : Id]
      BY <2>10 DEF AdapterSucceeds, TypeOK, Call, Idle
    <3>2. q.op = "capture" /\ q.id = call[c].id /\ call[c].op = "execute"
      BY <2>10, <3>1 DEF AdapterSucceeds
    <3>3. Becomes(c, q) /\ q.id \in charged'
      BY <2>10, <3>2 DEF AdapterSucceeds
    <3> HIDE DEF q
    <3>4. Admits(q, call[c])
      BY <3>2, <3>3 DEF Admits
    <3> QED BY <1>1, <3>3, <3>4
  <2>11. CASE AdapterFails(c)
    BY <1>1, <2>11, SMTT(30) DEF AdapterFails, Admits, Idle
  <2>12. CASE RecordExecution(c)
    BY <1>1, <2>12 DEF RecordExecution, Admits, Threw
  <2>13. CASE WriteReceipt(c)
    BY <1>1, <2>13 DEF WriteReceipt, Admits, Idle
  <2>14. CASE Crash(c)
    BY <1>1, <2>14 DEF Crash, Admits, Idle
  <2> QED
    BY SMTT(30), <1>3, <2>1, <2>2, <2>3, <2>4, <2>5, <2>6, <2>7, <2>8, <2>9, <2>10, <2>11, <2>12, <2>13,
       <2>14 DEF CallerStep
<1> QED
  BY <1>2, <1>3
     DEF Next, vars, SweepList, SweepOne, RefundEvent, activateMandate, Revoke, revokeKey, Tick,
         WorkerCrash

\* Money moves only for a request that is about to execute, one at a time.
LEMMA MoneyMoves ==
  ASSUME [Next]_vars
  PROVE  \/ UNCHANGED charged
         \/ \E c \in Caller : call[c].op = "execute" /\ charged' = charged \cup {call[c].id}
<1>1. ASSUME NEW c \in Caller, AdapterSucceeds(c) \/ AdapterFails(c)
      PROVE  /\ call[c].op = "execute"
             /\ charged' \in {charged, charged \cup {call[c].id}}
  BY <1>1 DEF AdapterSucceeds, AdapterFails
<1>2. \/ UNCHANGED charged
      \/ \E c \in Caller : AdapterSucceeds(c) \/ AdapterFails(c)
  BY ZenonT(60) DEF Next, CallerStep, vars, BeginAuthorize, CommitAuthorize, KeyTaken, BeginApprove,
         CommitApprove, ReplayApprove, BeginExpire, CommitExpire, BeginExecute, RecordExecution,
         WriteReceipt, Crash, SweepList, SweepOne, RefundEvent, activateMandate, Revoke,
         revokeKey, Tick, WorkerCrash
<1> QED BY <1>1, <1>2

\* Every step preserves the inductive invariant.
LEMMA InvStep ==
  ASSUME Inv, [Next]_vars
  PROVE  Inv'
<1>1. TypeOK /\ TypeOK'
  BY TypingStep DEF Inv
<1>2. \A i \in Id : RowSound(auth[i])
  BY DEF Inv, LedgerBalanced, RowSound
<1>3. \A i \in Id : RowSound(auth'[i])
  <2>1. CASE UNCHANGED auth
    BY <1>2, <2>1
  <2>2. CASE \E j \in Id, s \in Row : Writes(j, s)
    <3>1. PICK j \in Id, s \in Row : Writes(j, s)
      BY <2>2
    <3>2. RowSound(s)
      BY <3>1, WriteEffect
    <3>3. \A i \in Id : auth'[i] = IF i = j THEN s ELSE auth[i]
      BY <1>1, <3>1 DEF Writes, TypeOK
    <3> QED BY <1>2, <3>2, <3>3
  <2> QED BY <1>1, <2>1, <2>2, StepShape
<1>4. LedgerBalanced' /\ \A i \in Id : ApproverNamed(auth'[i])
  BY <1>3 DEF LedgerBalanced, RowSound
<1>5. ASSUME NEW c \in Caller PROVE CallSound(call[c])'
  <2> DEFINE q == call'[c]
  <2>1. Admits(q, call[c])
    BY <1>1, RequestsMove
  <2>2. q.op \in {"approve", "execute", "capture"} => q.id \in Id
    BY <1>1, CallFields DEF TypeOK
  <2>3. /\ q.op = "approve" =>
             /\ auth[q.id].status # "NONE"
             /\ q.approver \in Policy[auth[q.id].mandate].approvers \ {auth[q.id].mandate}
        /\ q.op \in {"execute", "capture"} => auth[q.id].status \in GRANTED
    <3>1. CallSound(call[c])
      BY DEF Inv
    <3> QED BY <2>1, <3>1 DEF Admits, CallSound, GRANTED, EXECUTABLE_STATUSES
  <2>4. q.id \in Id => Persists(auth[q.id], auth'[q.id])
    BY RowsPersist
  <2> QED BY <2>2, <2>3, <2>4 DEF CallSound, Persists, SameRequest
<1>6. ASSUME NEW i \in charged' PROVE auth'[i].status \in GRANTED
  <2>1. auth[i].status \in GRANTED
    <3>1. i \in charged \/ \E c \in Caller : call[c].op = "execute" /\ call[c].id = i
      BY MoneyMoves
    <3> QED BY <3>1 DEF Inv, CallSound
  <2>2. i \in Id
    BY <1>1 DEF TypeOK
  <2> QED BY <2>1, <2>2, RowsPersist DEF Persists
<1> QED BY <1>1, <1>4, <1>5, <1>6 DEF Inv

\* The ledger of every authorization is balanced, its approver is one the
\* spender named, and what a request remembers about it stays true.
THEOREM Invariance == Spec => []Inv
<1>1. Init => Inv
  <2> SUFFICES ASSUME Init PROVE Inv
    OBVIOUS
  <2>1. TypeOK
    BY TypingInit
  <2>2. \A i \in Id : auth[i] = NoRow
    BY DEF Init
  <2>3. Balanced(NoRow) /\ ApproverNamed(NoRow)
    BY DEF Balanced, ApproverNamed, NoRow
  <2>4. \A c \in Caller : CallSound(call[c])
    BY DEF Init, CallSound, Idle
  <2>5. charged = {}
    BY DEF Init
  <2> QED BY <2>1, <2>2, <2>3, <2>4, <2>5 DEF Inv, LedgerBalanced
<1>2. Inv /\ [Next]_vars => Inv'
  BY InvStep
<1> QED BY <1>1, <1>2, PTL DEF Spec

----------------------------------------------------------------------------
(* Safety that follows from the invariant at once.                          *)

\* LedgerBalanced for every instance: no hold outlives its authorization.
THEOREM LedgerIsBalanced == Spec => []LedgerBalanced
<1>1. Inv => LedgerBalanced
  BY DEF Inv
<1> QED BY <1>1, Invariance, PTL

\* MoneyMovedIsBooked for every instance: money that moved is held or captured.
THEOREM MoneyIsBooked == Spec => []MoneyMovedIsBooked
<1>1. Inv => MoneyMovedIsBooked
  <2> SUFFICES ASSUME Inv, NEW i \in charged
               PROVE  auth[i].reserved - auth[i].released + auth[i].captured >= auth[i].amount
    BY DEF MoneyMovedIsBooked
  <2>1. auth[i] \in Row /\ auth[i].status \in GRANTED /\ Balanced(auth[i])
    BY DEF Inv, TypeOK, LedgerBalanced
  <2> DEFINE r == auth[i]
  <2>2. r.reserved \in Nat /\ r.amount \in Nat
    BY <2>1 DEF Row
  <2>3. r.reserved = r.amount
    BY <2>1 DEF Balanced, GRANTED
  <2>4. \/ r.released = 0 /\ r.captured = 0
        \/ r.released = r.reserved /\ r.captured = r.amount
    BY <2>1 DEF Balanced, GRANTED
  <2> HIDE DEF r
  <2>5. r.reserved - r.released + r.captured >= r.amount
    BY <2>2, <2>3, <2>4
  <2> QED BY <2>5 DEF r
<1> QED BY <1>1, Invariance, PTL

\* NoEscalatedMoneyAlone for every instance: escalated money needs an approver
\* the spender's policy names, other than the spender.
THEOREM EscalatedMoneyIsApproved == Spec => []NoEscalatedMoneyAlone
<1>1. Inv => NoEscalatedMoneyAlone
  BY DEF Inv, LedgerBalanced, Balanced, ApproverNamed, GRANTED, NoEscalatedMoneyAlone, TypeOK
<1> QED BY <1>1, Invariance, PTL

\* ResolvedOnce for every instance: racing resolutions of one step-up take
\* effect once, and what is resolved or executed stays so.
THEOREM StepUpResolvedOnce == Spec => ResolvedOnce
<1>1. Inv /\ [Next]_vars =>
        [\A i \in Id : auth'[i].status # auth[i].status
           => <<auth[i].status, auth'[i].status>> \in Lifecycle]_vars
  <2> SUFFICES ASSUME Inv, [Next]_vars, NEW i \in Id, auth'[i].status # auth[i].status
               PROVE  <<auth[i].status, auth'[i].status>> \in Lifecycle
    OBVIOUS
  <2>1. PICK j \in Id, s \in Row : Writes(j, s)
    BY StepShape DEF Inv
  <2>2. auth'[i] = IF i = j THEN s ELSE auth[i]
    BY <2>1 DEF Writes, Inv, TypeOK
  <2>3. Moves(auth[j], s)
    BY <2>1, WriteEffect
  <2> QED BY <2>2, <2>3 DEF Moves
<1> QED BY <1>1, Invariance, PTL DEF Spec, ResolvedOnce

----------------------------------------------------------------------------
(* The window sums.                                                         *)

\* What a row's own ledger entries add to their window.
Own(r, m) ==
  r.reserved - r.released + r.captured
    - (IF Policy[m].refunds_credit_budget THEN r.credited ELSE 0)

\* A sound row's entries are whole minor units, and never a negative sum.
LEMMA OwnBounds ==
  ASSUME NEW r \in Row, NEW m \in Mandate
  PROVE  Own(r, m) \in Int /\ (RowSound(r) => Own(r, m) >= 0)
<1> DEFINE c == IF Policy[m].refunds_credit_budget THEN r.credited ELSE 0
<1>1. r.reserved \in Nat /\ r.released \in Nat /\ r.captured \in Nat /\ r.credited \in Nat
  BY DEF Row
<1>2. c \in Nat /\ c <= r.credited
  BY <1>1
<1>3. Own(r, m) = r.reserved - r.released + r.captured - c
  BY DEF Own
<1>4. RowSound(r) => r.released \in {0, r.reserved} /\ r.credited <= r.captured
  BY DEF RowSound, Balanced
<1> HIDE DEF c
<1> QED BY <1>1, <1>2, <1>3, <1>4

\* A row touches a mandate's window through its own entries, or through the
\* charge of an approval; a sound row never subtracts from it.
LEMMA ContributionBounds ==
  ASSUME NEW r \in Row, NEW m \in Mandate, NEW w
  PROVE  /\ Contribution(r, m, w) =
              (IF OwnEntries(r, m, w) THEN Own(r, m) ELSE 0)
                + (IF ApprovalEntry(r, m, w) THEN r.amount ELSE 0)
         /\ Contribution(r, m, w) \in Int
         /\ RowSound(r) => Contribution(r, m, w) >= 0
<1> DEFINE a == IF OwnEntries(r, m, w) THEN Own(r, m) ELSE 0
           b == IF ApprovalEntry(r, m, w) THEN r.amount ELSE 0
<1>1. Contribution(r, m, w) = a + b
  BY DEF Contribution, Own
<1>2. a \in Int /\ (RowSound(r) => a >= 0)
  BY OwnBounds
<1>3. b \in Nat
  BY DEF Row
<1>4. a + b \in Int /\ (RowSound(r) => a + b >= 0)
  <2> HIDE DEF a, b
  <2> QED BY <1>2, <1>3
<1> QED BY <1>1, <1>4

\* The spend of a window is the sum of whole numbers, one per authorization.
LEMMA SpentTyped ==
  ASSUME TypeOK, NEW m \in Mandate, NEW w
  PROVE  /\ [i \in Id |-> Contribution(auth[i], m, w)] \in [1..MaxAuths -> Int]
         /\ SpentIn(m, w) \in Int
<1>1. \A i \in Id : auth[i] \in Row
  BY DEF TypeOK
<1>2. \A i \in Id : Contribution(auth[i], m, w) \in Int
  BY <1>1, ContributionBounds
<1>3. [i \in Id |-> Contribution(auth[i], m, w)] \in [1..MaxAuths -> Int]
  BY <1>2 DEF Id
<1>4. MaxAuths \in Nat
  BY BoundsAssumption
<1> QED BY <1>3, <1>4, TotalInt DEF SpentIn

\* A balanced ledger sums to no less than nothing in every window.
LEMMA BalancedSums ==
  ASSUME Inv, NEW m \in Mandate, NEW w
  PROVE  SpentIn(m, w) >= 0
<1> DEFINE f == [i \in Id |-> Contribution(auth[i], m, w)]
<1>1. f \in [1..MaxAuths -> Int]
  BY SpentTyped DEF Inv
<1>2. \A i \in Id : auth[i] \in Row /\ RowSound(auth[i])
  BY DEF Inv, TypeOK, LedgerBalanced, RowSound
<1>3. \A i \in 1..MaxAuths : f[i] >= 0
  BY <1>2, ContributionBounds DEF Id
<1>4. MaxAuths \in Nat
  BY BoundsAssumption
<1> HIDE DEF f
<1>5. Total(f, MaxAuths) >= 0
  BY <1>1, <1>3, <1>4, TotalNonNegative
<1> QED BY <1>5 DEF f, SpentIn

\* NeverNegative for every instance: releases, captures and refunds never give a
\* window more than its entries took.
THEOREM SpendIsNeverNegative == Spec => []NeverNegative
<1>1. Inv => NeverNegative
  BY BalancedSums DEF NeverNegative
<1> QED BY <1>1, Invariance, PTL

\* A write moves a window's spend by the entries it adds to one authorization.
LEMMA SpentChange ==
  ASSUME TypeOK, TypeOK', NEW i \in Id, NEW s \in Row, Writes(i, s),
         NEW m \in Mandate, NEW w
  PROVE  SpentIn(m, w)' = SpentIn(m, w) + Contribution(s, m, w) - Contribution(auth[i], m, w)
<1> DEFINE f == [j \in Id |-> Contribution(auth[j], m, w)]
           g == [j \in Id |-> Contribution(auth'[j], m, w)]
<1>1. f \in [1..MaxAuths -> Int]
  BY SpentTyped
<1>2. \A j \in Id : auth'[j] \in Row
  BY DEF TypeOK
<1>3. \A j \in Id : Contribution(auth'[j], m, w) \in Int
  BY <1>2, ContributionBounds
<1>4. g \in [1..MaxAuths -> Int]
  BY <1>3 DEF Id
<1>5. \A j \in Id : auth'[j] = IF j = i THEN s ELSE auth[j]
  BY DEF Writes, TypeOK
<1>6. g[i] = Contribution(s, m, w) /\ f[i] = Contribution(auth[i], m, w)
  BY <1>5
<1>7. \A j \in 1..MaxAuths : i # j => g[j] = f[j]
  BY <1>5 DEF Id
<1>8. SpentIn(m, w) = Total(f, MaxAuths) /\ SpentIn(m, w)' = Total(g, MaxAuths)
  BY DEF SpentIn, Contribution, OwnEntries, ApprovalEntry, Window
<1>9. MaxAuths \in Nat /\ i \in 1..MaxAuths
  BY BoundsAssumption DEF Id
<1> HIDE DEF f, g
<1>10. Total(g, MaxAuths) = Total(f, MaxAuths) + g[i] - f[i]
  BY <1>1, <1>4, <1>7, <1>9, TotalChangeOne
<1> QED BY <1>6, <1>8, <1>10

----------------------------------------------------------------------------
(* The cumulative cap.                                                      *)

\* The policies under which the cap is unconditional: the spender holds budget
\* for a pending step-up, or its limit has one window for the mandate's life.
\* For the others, v_cap_across_windows refutes WithinCap.
ReservesOrOneWindow ==
  \A m \in Mandate :
    \/ Policy[m].reserve_on_step_up
    \/ \A s, t \in Time : Window(m, s) = Window(m, t)

\* The effect of a write on one window: it adds nothing, or what it adds fits.
AddsNothing(r, s, m, w) == Contribution(s, m, w) <= Contribution(r, m, w)
Fits(r, s, m, w) ==
  SpentIn(m, w) + Contribution(s, m, w) - Contribution(r, m, w) <= Policy[m].max_amount

\* A write that leaves the entries' windows alone and does not raise their sum
\* adds nothing to any window.
LEMMA SmallerOwn ==
  ASSUME NEW r \in Row, NEW s \in Row, NEW m \in Mandate, NEW w,
         s.mandate = r.mandate, s.at = r.at, s.amount = r.amount,
         s.approver = r.approver, s.approvedAt = r.approvedAt,
         Own(s, m) <= Own(r, m)
  PROVE  AddsNothing(r, s, m, w)
<1> DEFINE a == IF OwnEntries(r, m, w) THEN Own(r, m) ELSE 0
           b == IF ApprovalEntry(r, m, w) THEN r.amount ELSE 0
           c == IF OwnEntries(s, m, w) THEN Own(s, m) ELSE 0
<1>1. OwnEntries(s, m, w) = OwnEntries(r, m, w) /\ ApprovalEntry(s, m, w) = ApprovalEntry(r, m, w)
  BY DEF OwnEntries, ApprovalEntry
<1>2. a \in Int /\ c \in Int /\ c <= a
  BY <1>1, OwnBounds
<1>3. b \in Nat
  BY DEF Row
<1>4. Contribution(r, m, w) = a + b
  BY ContributionBounds
<1>5. Contribution(s, m, w) = c + b
  BY <1>1, ContributionBounds
<1> HIDE DEF a, b, c
<1> QED BY <1>2, <1>3, <1>4, <1>5 DEF AddsNothing

\* An expiry or a decline adds nothing to any window.
LEMMA ReleaseAddsNothing ==
  ASSUME NEW r \in Row, NEW o \in {"EXPIRED", "STEP_UP_DECLINED"}, NEW m \in Mandate, NEW w
  PROVE  AddsNothing(r, LetGo(r, o), m, w)
<1> DEFINE s == LetGo(r, o)
           c == IF Policy[m].refunds_credit_budget THEN r.credited ELSE 0
<1>1. /\ s.mandate = r.mandate /\ s.at = r.at /\ s.amount = r.amount
      /\ s.approver = r.approver /\ s.approvedAt = r.approvedAt
      /\ s.reserved = r.reserved /\ s.released = r.released + r.reserved
      /\ s.captured = r.captured /\ s.credited = r.credited
  BY DEF LetGo, Row
<1>2. s \in Row
  BY LetGoType
<1> HIDE DEF s
<1>3. r.reserved \in Nat /\ r.released \in Nat /\ r.captured \in Nat /\ c \in Nat
  BY DEF Row
<1>4. Own(r, m) = r.reserved - r.released + r.captured - c
  BY DEF Own
<1>5. Own(s, m) = r.reserved - (r.released + r.reserved) + r.captured - c
  BY <1>1 DEF Own
<1> HIDE DEF c
<1>6. Own(s, m) <= Own(r, m)
  BY <1>3, <1>4, <1>5
<1> QED BY <1>1, <1>2, <1>6, SmallerOwn DEF s

\* Turning a hold into a capture changes the sum of no window.
LEMMA CaptureKeepsSum ==
  ASSUME NEW r \in Row, RowSound(r), r.status \in EXECUTABLE_STATUSES, NEW m \in Mandate, NEW w
  PROVE  Contribution(Captured(r), m, w) = Contribution(r, m, w)
<1> DEFINE s == Captured(r)
           c == IF Policy[m].refunds_credit_budget THEN r.credited ELSE 0
<1>1. /\ s.mandate = r.mandate /\ s.at = r.at /\ s.amount = r.amount
      /\ s.approver = r.approver /\ s.approvedAt = r.approvedAt
      /\ s.reserved = r.reserved /\ s.released = r.released + r.reserved
      /\ s.captured = r.captured + r.amount /\ s.credited = r.credited
  BY DEF Captured, Row
<1>2. s \in Row
  BY CapturedType
<1> HIDE DEF s
<1>3. r.reserved \in Nat /\ r.released \in Nat /\ r.captured \in Nat /\ c \in Nat /\ r.amount \in Nat
  BY DEF Row
<1>4. Own(r, m) = r.reserved - r.released + r.captured - c
  BY DEF Own
<1>5. Own(s, m) = r.reserved - (r.released + r.reserved) + (r.captured + r.amount) - c
  BY <1>1 DEF Own
<1>6. r.reserved = r.amount
  BY DEF RowSound, Balanced, EXECUTABLE_STATUSES
<1> HIDE DEF c
<1>7. Own(s, m) <= Own(r, m) /\ Own(r, m) <= Own(s, m)
  BY <1>3, <1>4, <1>5, <1>6
<1>8. AddsNothing(r, s, m, w) /\ AddsNothing(s, r, m, w)
  BY <1>1, <1>2, <1>7, SmallerOwn
<1>9. Contribution(r, m, w) \in Int /\ Contribution(s, m, w) \in Int
  BY <1>2, ContributionBounds
<1>10. Contribution(s, m, w) = Contribution(r, m, w)
  BY <1>8, <1>9 DEF AddsNothing
<1> QED BY <1>10 DEF s

\* A refund adds nothing to any window.
LEMMA RefundAddsNothing ==
  ASSUME NEW r \in Row, NEW t \in Nat, NEW m \in Mandate, NEW w
  PROVE  AddsNothing(r, Refunded(r, t), m, w)
<1> DEFINE s == Refunded(r, t)
           x == r.credited + Delta(r, t)
           c == IF Policy[m].refunds_credit_budget THEN r.credited ELSE 0
           d == IF Policy[m].refunds_credit_budget THEN x ELSE 0
<1>1. s = [r EXCEPT !.credited = x]
  BY DeltaBounds
<1>2. Delta(r, t) \in Nat /\ r.credited \in Nat
  BY DeltaBounds DEF Row
<1>3. c \in Nat /\ d \in Nat /\ c <= d
  BY <1>2
<1> HIDE DEF x
<1>4. /\ s.mandate = r.mandate /\ s.at = r.at /\ s.amount = r.amount
      /\ s.approver = r.approver /\ s.approvedAt = r.approvedAt
      /\ s.reserved = r.reserved /\ s.released = r.released
      /\ s.captured = r.captured /\ s.credited = x
  BY <1>1 DEF Row
<1>5. s \in Row
  BY RefundedType
<1> HIDE DEF s
<1>6. r.reserved \in Nat /\ r.released \in Nat /\ r.captured \in Nat
  BY DEF Row
<1>7. Own(r, m) = r.reserved - r.released + r.captured - c
  BY DEF Own
<1>8. Own(s, m) = r.reserved - r.released + r.captured - d
  BY <1>4 DEF Own
<1> HIDE DEF c, d
<1>9. Own(s, m) <= Own(r, m)
  BY <1>3, <1>6, <1>7, <1>8
<1> QED BY <1>4, <1>5, <1>9, SmallerOwn DEF s

\* A row that is not there yet contributes nothing.
LEMMA NoRowContribution ==
  ASSUME NEW m \in Mandate, NEW w
  PROVE  Contribution(NoRow, m, w) = 0
<1>1. ~OwnEntries(NoRow, m, w) /\ ~ApprovalEntry(NoRow, m, w)
  BY NamesAssumption DEF OwnEntries, ApprovalEntry, NoRow
<1> QED BY <1>1 DEF Contribution

\* A decision that takes a hold was evaluated against the window it takes it in.
LEMMA SaveFits ==
  ASSUME TypeOK, NEW q \in Call, q.op = "authorize", NEW v, NEW m \in Mandate, NEW w
  PROVE  LET s == Decided(q, v) IN AddsNothing(NoRow, s, m, w) \/ Fits(NoRow, s, m, w)
<1> DEFINE s == Decided(q, v)
           d == DecisionFor(q, v)
<1>1. q.mandate \in Mandate /\ q.amount \in Nat /\ q.now \in Time /\ q.key \in Key \cup {NoKey}
      /\ q.amount \in Amount
  BY CallFields, AmountAssumption
<1>2. s \in Row
  BY <1>1, DecidedType
<1>3. /\ s.mandate = q.mandate /\ s.at = q.now /\ s.approver = Nobody
      /\ s.reserved = (IF shouldReserve(d, q.mandate) THEN q.amount ELSE 0)
      /\ s.released = 0 /\ s.captured = 0 /\ s.credited = 0
  BY DEF Decided
<1>4. d # "DENY" => ~OverAmount(q.mandate, q.amount, q.now)
  BY DEF DecisionFor, Evaluate
<1>5. shouldReserve(d, q.mandate) => d # "DENY"
  BY DEF shouldReserve
<1>6. s.reserved = 0 \/ (s.reserved = q.amount /\ ~OverAmount(q.mandate, q.amount, q.now))
  BY <1>3, <1>4, <1>5
<1>7. Contribution(NoRow, m, w) = 0
  BY NoRowContribution
<1> HIDE DEF s, d
<1>8. Own(s, m) = s.reserved
  <2>1. s.reserved \in Nat
    BY <1>2 DEF Row
  <2> QED BY <1>3, <2>1 DEF Own
<1>9. ~ApprovalEntry(s, m, w)
  BY <1>3, NamesAssumption DEF ApprovalEntry
<1>10. Contribution(s, m, w) = IF OwnEntries(s, m, w) THEN s.reserved ELSE 0
  <2>1. s.reserved \in Nat
    BY <1>2 DEF Row
  <2>2. Contribution(s, m, w) = (IF OwnEntries(s, m, w) THEN Own(s, m) ELSE 0) + 0
    BY <1>2, <1>9, ContributionBounds
  <2> QED BY <1>8, <2>1, <2>2
<1>11. CASE OwnEntries(s, m, w) /\ s.reserved # 0
  <2>1. m = q.mandate /\ Window(m, q.now) = w
    BY <1>3, <1>11 DEF OwnEntries
  <2>2. SpentIn(m, w) \in Int /\ Policy[m].max_amount \in Nat
    BY SpentTyped, PolicyFields
  <2>3. SpentIn(m, w) + q.amount <= Policy[m].max_amount
    BY <1>1, <1>6, <1>11, <2>1, <2>2 DEF OverAmount
  <2> QED BY <1>1, <1>6, <1>7, <1>10, <1>11, <2>2, <2>3 DEF Fits, s
<1>12. CASE ~(OwnEntries(s, m, w) /\ s.reserved # 0)
  BY <1>7, <1>10, <1>12 DEF AddsNothing, s
<1> QED BY <1>11, <1>12

\* An approval fits under the approver's cap in the window it charges, and under
\* the spender's in the window the step-up was decided in.
LEMMA ApprovalFits ==
  ASSUME Inv, ReservesOrOneWindow, NEW i \in Id, NEW c \in Caller,
         auth[i].status = "PENDING_STEP_UP", call[c].op = "approve", call[c].id = i,
         HoldFits(auth[i], call[c].now),
         NEW v, Evaluate(call[c].approver, auth[i].amount, call[c].now, v) = "ALLOW",
         NEW m \in Mandate, NEW w
  PROVE  LET s == Approved(auth[i], call[c].approver, call[c].now)
         IN AddsNothing(auth[i], s, m, w) \/ Fits(auth[i], s, m, w)
<1> DEFINE r == auth[i]
           p == call[c].approver
           t == call[c].now
           s == Approved(r, p, t)
<1>1. r \in Row /\ RowSound(r)
  BY DEF Inv, TypeOK, LedgerBalanced, RowSound
<1>2. p \in Mandate /\ t \in Time /\ p # r.mandate
  BY CallFields DEF Inv, TypeOK, CallSound
<1>3. /\ r.mandate \in Mandate /\ r.amount \in Amount /\ r.approver = Nobody
      /\ r.released = 0 /\ r.captured = 0 /\ r.credited = 0
      /\ r.reserved = IF Policy[r.mandate].reserve_on_step_up THEN r.amount ELSE 0
  BY <1>1 DEF RowSound, Balanced, Row
<1>4. r.amount \in Nat /\ r.amount > 0 /\ r.at \in Time
  BY <1>1, <1>3, AmountAssumption DEF Row
<1>5. s \in Row
  BY <1>1, <1>2, ApprovedType
<1>6. /\ s.mandate = r.mandate /\ s.at = r.at /\ s.amount = r.amount
      /\ s.approver = p /\ s.approvedAt = t
      /\ s.reserved = IF r.reserved = 0 THEN r.amount ELSE r.reserved
      /\ s.released = r.released /\ s.captured = r.captured /\ s.credited = r.credited
  BY <1>1 DEF Approved, Row
<1>7. s.reserved = r.amount
  BY <1>3, <1>6
<1>8. ~OverAmount(p, r.amount, t)
  BY DEF Evaluate
<1>9. SpentIn(m, w) \in Int /\ Policy[m].max_amount \in Nat
  BY SpentTyped, PolicyFields DEF Inv
<1>10. HoldFits(r, t)
  OBVIOUS
<1> HIDE DEF r, p, t, s
<1>11. OwnEntries(s, m, w) = OwnEntries(r, m, w) /\ ~ApprovalEntry(r, m, w)
  BY <1>3, <1>6, NamesAssumption DEF OwnEntries, ApprovalEntry
<1>12. Own(r, m) = r.reserved /\ Own(s, m) = r.amount
  <2>1. r.reserved \in Nat
    BY <1>3, <1>4
  <2> QED BY <1>3, <1>4, <1>6, <1>7, <2>1 DEF Own
<1>13. Contribution(r, m, w) = IF OwnEntries(r, m, w) THEN r.reserved ELSE 0
  <2>1. r.reserved \in Nat
    BY <1>3, <1>4
  <2>2. Contribution(r, m, w) = (IF OwnEntries(r, m, w) THEN Own(r, m) ELSE 0) + 0
    BY <1>1, <1>11, ContributionBounds
  <2> QED BY <1>12, <2>1, <2>2
<1>14. Contribution(s, m, w) = (IF OwnEntries(r, m, w) THEN r.amount ELSE 0)
                                 + (IF ApprovalEntry(s, m, w) THEN r.amount ELSE 0)
  <2>1. Contribution(s, m, w) = (IF OwnEntries(s, m, w) THEN Own(s, m) ELSE 0)
                                  + (IF ApprovalEntry(s, m, w) THEN s.amount ELSE 0)
    BY <1>5, ContributionBounds
  <2> QED BY <1>6, <1>11, <1>12, <2>1
<1>15. CASE ApprovalEntry(s, m, w)
  <2>1. m = p /\ Window(m, t) = w /\ ~OwnEntries(r, m, w)
    BY <1>2, <1>6, <1>15 DEF ApprovalEntry, OwnEntries
  <2>2. Contribution(r, m, w) = 0 /\ Contribution(s, m, w) = r.amount
    BY <1>4, <1>13, <1>14, <1>15, <2>1
  <2>3. SpentIn(m, w) + r.amount <= Policy[m].max_amount
    BY <1>4, <1>8, <1>9, <2>1 DEF OverAmount
  <2> QED BY <1>4, <1>9, <2>2, <2>3 DEF Fits, r, s, p, t
<1>16. CASE ~ApprovalEntry(s, m, w) /\ OwnEntries(r, m, w)
  <2>1. m = r.mandate /\ Window(m, r.at) = w
    BY <1>16 DEF OwnEntries
  <2>2. Contribution(r, m, w) = r.reserved /\ Contribution(s, m, w) = r.amount
    BY <1>4, <1>13, <1>14, <1>16
  <2>3. CASE r.reserved = r.amount
    BY <1>4, <2>2, <2>3 DEF AddsNothing, r, s, p, t
  <2>4. CASE r.reserved # r.amount
    <3>1. r.reserved = 0 /\ ~Policy[m].reserve_on_step_up
      BY <1>3, <2>1, <2>4
    <3>2. Window(m, t) = w
      BY <1>2, <1>4, <2>1, <3>1 DEF ReservesOrOneWindow
    <3>3. r.amount - (r.reserved - r.released) = r.amount
      BY <1>3, <1>4, <3>1
    <3>4. ~OverAmount(m, r.amount, t)
      BY <1>4, <1>10, <2>1, <3>3 DEF HoldFits
    <3>5. SpentIn(m, w) + r.amount <= Policy[m].max_amount
      BY <1>4, <1>9, <3>2, <3>4 DEF OverAmount
    <3> QED BY <1>4, <1>9, <2>2, <3>1, <3>5 DEF Fits, r, s, p, t
  <2> QED BY <2>3, <2>4
<1>17. CASE ~ApprovalEntry(s, m, w) /\ ~OwnEntries(r, m, w)
  BY <1>13, <1>14, <1>17 DEF AddsNothing, r, s, p, t
<1> QED BY <1>15, <1>16, <1>17

\* No write takes a window that is within its cap past it.
LEMMA WriteKeepsCap ==
  ASSUME Inv, ReservesOrOneWindow, NEW i \in Id, NEW s \in Row, Writes(i, s),
         NEW m \in Mandate, NEW w
  PROVE  AddsNothing(auth[i], s, m, w) \/ Fits(auth[i], s, m, w)
<1> DEFINE r == auth[i]
<1>1. r \in Row /\ RowSound(r)
  BY DEF Inv, TypeOK, LedgerBalanced, RowSound
<1>2. CASE Saves(i, s)
  <2>0. PICK q \in Call : q.op = "authorize" /\ \E v : s = Decided(q, v)
    BY <1>2 DEF Saves
  <2>1. PICK v : q.op = "authorize" /\ s = Decided(q, v)
    BY <2>0
  <2>2. r = NoRow
    BY <1>1, <1>2 DEF Saves, RowSound, Balanced
  <2>3. TypeOK
    BY DEF Inv
  <2> QED BY <2>1, <2>2, <2>3, SaveFits
<1>3. CASE Approves(i, s)
  <2>1. PICK c \in Caller :
          /\ call[c].op = "approve" /\ call[c].id = i
          /\ HoldFits(r, call[c].now)
          /\ \E v : Evaluate(call[c].approver, r.amount, call[c].now, v) = "ALLOW"
          /\ s = Approved(r, call[c].approver, call[c].now)
    BY <1>3 DEF Approves
  <2>2. PICK v : Evaluate(call[c].approver, r.amount, call[c].now, v) = "ALLOW"
    BY <2>1
  <2>3. r.status = "PENDING_STEP_UP"
    BY <1>3 DEF Approves
  <2> QED BY <2>1, <2>2, <2>3, ApprovalFits
<1>4. CASE Releases(i, s)
  BY <1>1, <1>4, ReleaseAddsNothing DEF Releases
<1>5. CASE Captures(i, s)
  <2>1. Contribution(s, m, w) = Contribution(r, m, w) /\ Contribution(r, m, w) \in Int
    BY <1>1, <1>5, CaptureKeepsSum, ContributionBounds DEF Captures
  <2> QED BY <2>1 DEF AddsNothing
<1>6. CASE Refunds(i, s)
  BY <1>1, <1>6, AmountAssumption, RefundAddsNothing DEF Refunds
<1> QED BY <1>2, <1>3, <1>4, <1>5, <1>6 DEF Writes

\* Before anything ran every window's sum is zero.
LEMMA NothingSpent ==
  ASSUME Init, NEW m \in Mandate, NEW w
  PROVE  SpentIn(m, w) = 0
<1> DEFINE f == [i \in Id |-> Contribution(auth[i], m, w)]
<1>1. f \in [1..MaxAuths -> Int] /\ MaxAuths \in Nat
  BY TypingInit, SpentTyped, BoundsAssumption
<1>2. \A i \in 1..MaxAuths : f[i] = 0
  BY NoRowContribution DEF Init, Id
<1> HIDE DEF f
<1>3. Total(f, MaxAuths) = 0
  BY <1>1, <1>2, TotalZero
<1> QED BY <1>3 DEF f, SpentIn

\* No step takes a mandate past its cap, in the window of any of its entries.
LEMMA CapStep ==
  ASSUME Inv, ReservesOrOneWindow, WithinCap, [Next]_vars
  PROVE  WithinCap'
<1> SUFFICES ASSUME NEW m \in Mandate, NEW w \in Time
             PROVE  SpentIn(m, w)' <= Policy[m].max_amount
  BY DEF WithinCap
<1>1. TypeOK /\ TypeOK'
  BY TypingStep DEF Inv
<1>2. SpentIn(m, w) \in Int /\ Policy[m].max_amount \in Nat /\ SpentIn(m, w) <= Policy[m].max_amount
  BY <1>1, SpentTyped, PolicyFields DEF WithinCap
<1>3. CASE UNCHANGED auth
  <2>1. SpentIn(m, w)' = SpentIn(m, w)
    BY <1>3 DEF SpentIn, Contribution, OwnEntries, ApprovalEntry, Window
  <2> QED BY <1>2, <2>1
<1>4. CASE \E i \in Id, s \in Row : Writes(i, s)
  <2>1. PICK i \in Id, s \in Row : Writes(i, s)
    BY <1>4
  <2>2. SpentIn(m, w)' = SpentIn(m, w) + Contribution(s, m, w) - Contribution(auth[i], m, w)
    BY <1>1, <2>1, SpentChange
  <2>3. AddsNothing(auth[i], s, m, w) \/ Fits(auth[i], s, m, w)
    BY <2>1, WriteKeepsCap
  <2>4. Contribution(s, m, w) \in Int /\ Contribution(auth[i], m, w) \in Int
    BY <1>1, <2>1, ContributionBounds DEF TypeOK
  <2> QED BY <1>2, <2>2, <2>3, <2>4 DEF AddsNothing, Fits
<1> QED BY <1>1, <1>3, <1>4, StepShape

\* WithinCap for every instance: if a waiting step-up holds budget, or the limit
\* is for the mandate's life, no interleaving of requests, approvals, expiries,
\* executions and refunds takes a mandate past its cumulative limit.
THEOREM Cap ==
  ASSUME ReservesOrOneWindow
  PROVE  Spec => []WithinCap
<1>1. Init => WithinCap
  BY NothingSpent, PolicyFields DEF WithinCap
<1>2. Inv /\ WithinCap /\ [Next]_vars => WithinCap'
  BY CapStep
<1> QED BY <1>1, <1>2, Invariance, PTL DEF Spec

----------------------------------------------------------------------------
(* What a retry, a refund, a receipt and a revoked mandate may expect.      *)

\* Every status changes as the lifecycle allows, or not at all.
LEMMA StatusMoves ==
  ASSUME Inv, [Next]_vars, NEW i \in Id
  PROVE  Moves(auth[i], auth'[i])
<1>1. CASE UNCHANGED auth
  BY <1>1 DEF Moves
<1>2. CASE \E j \in Id, s \in Row : Writes(j, s)
  <2>1. PICK j \in Id, s \in Row : Writes(j, s)
    BY <1>2
  <2>2. auth'[i] = IF i = j THEN s ELSE auth[i]
    BY <2>1 DEF Writes, Inv, TypeOK
  <2> QED BY <2>1, <2>2, WriteEffect DEF Moves
<1> QED BY <1>1, <1>2, StepShape DEF Inv

\* A row that is not there yet can only be saved, by a request whose key is free.
LEMMA OnlySaved ==
  ASSUME Inv, NEW i \in Id, NEW s \in Row, Writes(i, s), auth[i].status = "NONE"
  PROVE  \E q \in Call : q.op = "authorize" /\ Claimed(q.key) = {} /\ \E v : s = Decided(q, v)
BY DEF Writes, Saves, Approves, Releases, Captures, Refunds, EXECUTABLE_STATUSES, Inv, GRANTED

\* OneDecisionPerKey for every instance: retries of one request, inside and
\* outside the lock, save one authorization.
THEOREM OneDecision == Spec => []OneDecisionPerKey
<1>1. Init => OneDecisionPerKey
  BY DEF Init, OneDecisionPerKey, Used, NoRow
<1>2. Inv /\ OneDecisionPerKey /\ [Next]_vars => OneDecisionPerKey'
  <2> SUFFICES ASSUME Inv, OneDecisionPerKey, [Next]_vars,
                      NEW i \in Id, NEW j \in Id, auth'[i].status # "NONE", auth'[j].status # "NONE",
                      auth'[i].key = auth'[j].key, auth'[i].key # NoKey
               PROVE  i = j
    BY DEF OneDecisionPerKey, Used
  <2>1. CASE UNCHANGED auth
    BY <2>1 DEF OneDecisionPerKey, Used
  <2>2. CASE \E k \in Id, s \in Row : Writes(k, s)
    <3>1. PICK k \in Id, s \in Row : Writes(k, s)
      BY <2>2
    <3>2. \A n \in Id : auth'[n] = IF n = k THEN s ELSE auth[n]
      BY <3>1 DEF Writes, Inv, TypeOK
    <3>3. CASE auth[k].status # "NONE"
      <4>1. s.key = auth[k].key
        BY <3>1, <3>3, WriteEffect DEF SameRequest
      <4> QED BY <3>2, <3>3, <4>1 DEF OneDecisionPerKey, Used
    <3>4. CASE auth[k].status = "NONE"
      <4>1. PICK q \in Call : Claimed(q.key) = {} /\ \E v : s = Decided(q, v)
        BY <3>1, <3>4, OnlySaved
      <4>2. s.key = q.key
        BY <4>1 DEF Decided
      <4>3. \A n \in Id : auth[n].status # "NONE" /\ q.key # NoKey => auth[n].key # q.key
        BY <4>1 DEF Claimed, Used
      <4> QED BY <3>2, <4>2, <4>3 DEF OneDecisionPerKey, Used
    <3> QED BY <3>3, <3>4
  <2> QED BY <2>1, <2>2, StepShape DEF Inv
<1> QED BY <1>1, <1>2, Invariance, PTL DEF Spec

\* The refund events that were applied are never forgotten.
LEMMA SeenGrows ==
  ASSUME [Next]_vars
  PROVE  seen \subseteq seen'
BY ZenonT(60) DEF Next, CallerStep, vars, BeginAuthorize, CommitAuthorize, KeyTaken, BeginApprove,
       CommitApprove, ReplayApprove, BeginExpire, CommitExpire, BeginExecute, AdapterSucceeds,
       AdapterFails, RecordExecution, WriteReceipt, Crash, SweepList, SweepOne, RefundEvent,
       activateMandate, Revoke, revokeKey, Tick, WorkerCrash

\* Only a refund credits a row, and never past the total its event reported.
LEMMA WriteCredits ==
  ASSUME Inv, NEW i \in Id, NEW s \in Row, Writes(i, s)
  PROVE  \/ s.credited = 0 \/ s.credited = auth[i].credited
         \/ \E t \in RefundTotal : <<i, t>> \in seen' /\ s.credited <= t
<1> DEFINE r == auth[i]
<1>1. r \in Row /\ r.credited \in Nat /\ r.captured \in Nat
  BY DEF Inv, TypeOK, Row
<1>2. CASE Saves(i, s)
  BY <1>2 DEF Saves, Decided
<1>3. CASE Approves(i, s)
  BY <1>1, <1>3 DEF Approves, Approved, Row
<1>4. CASE Releases(i, s)
  BY <1>1, <1>4 DEF Releases, LetGo, Row
<1>5. CASE Captures(i, s)
  BY <1>1, <1>5 DEF Captures, Captured, Row
<1>6. CASE Refunds(i, s)
  <2>1. PICK t \in RefundTotal : <<i, t>> \in seen' /\ s = Refunded(r, t)
    BY <1>6 DEF Refunds
  <2>2. t \in Nat
    BY AmountAssumption
  <2>3. s.credited = r.credited + Delta(r, t)
    <3>1. s = [r EXCEPT !.credited = r.credited + Delta(r, t)]
      BY <1>1, <2>1, <2>2, DeltaBounds
    <3> QED BY <1>1, <3>1 DEF Row
  <2>4. Delta(r, t) = 0 \/ r.credited + Delta(r, t) <= t
    BY <1>1, <2>2 DEF Delta
  <2> QED BY <1>1, <2>1, <2>3, <2>4
<1> QED BY <1>2, <1>3, <1>4, <1>5, <1>6 DEF Writes

\* NoPhantomCredit for every instance: cumulative refunds, repeated and out of
\* order, credit no more than the largest total the provider reported.
THEOREM CreditsAreReported == Spec => []NoPhantomCredit
<1>1. Init => NoPhantomCredit
  BY DEF Init, NoPhantomCredit, NoRow
<1>2. Inv /\ NoPhantomCredit /\ [Next]_vars => NoPhantomCredit'
  <2> SUFFICES ASSUME Inv, NoPhantomCredit, [Next]_vars, NEW i \in Id, auth'[i].credited > 0
               PROVE  \E t \in RefundTotal : <<i, t>> \in seen' /\ auth'[i].credited <= t
    BY DEF NoPhantomCredit
  <2>1. CASE auth'[i].credited = auth[i].credited
    BY <2>1, SeenGrows DEF NoPhantomCredit
  <2>2. CASE \E k \in Id, s \in Row : Writes(k, s)
    <3>1. PICK k \in Id, s \in Row : Writes(k, s)
      BY <2>2
    <3>2. auth'[i] = IF i = k THEN s ELSE auth[i]
      BY <3>1 DEF Writes, Inv, TypeOK
    <3> QED BY <2>1, <3>1, <3>2, WriteCredits
  <2> QED BY <2>1, <2>2, StepShape DEF Inv
<1> QED BY <1>1, <1>2, Invariance, PTL DEF Spec

\* NoAuthorityOnceRevoked for every instance: the mandate is ACTIVE under the lock
\* whenever a payment is let through or parked, whatever its gate read before.
THEOREM AuthorityIsLive == Spec => NoAuthorityOnceRevoked
<1>1. Inv /\ [Next]_vars =>
        [\A i \in Id :
           auth'[i].status # auth[i].status
           /\ auth'[i].status \in {"AUTHORIZED", "PENDING_STEP_UP", "STEP_UP_APPROVED"}
           => status[auth'[i].mandate] = "ACTIVE"]_vars
  <2> SUFFICES ASSUME Inv, [Next]_vars, NEW i \in Id, auth'[i].status # auth[i].status,
                      auth'[i].status \in {"AUTHORIZED", "PENDING_STEP_UP", "STEP_UP_APPROVED"}
               PROVE  status[auth'[i].mandate] = "ACTIVE"
    OBVIOUS
  <2>1. PICK j \in Id, s \in Row : Writes(j, s)
    BY StepShape DEF Inv
  <2>2. i = j /\ auth'[i] = s /\ auth[i] \in Row
    BY <2>1 DEF Writes, Inv, TypeOK
  <2>3. CASE Saves(i, s)
    <3>1. PICK q \in Call : \E v : s = Decided(q, v)
      BY <2>3 DEF Saves
    <3>2. PICK v : s = Decided(q, v)
      BY <3>1
    <3>3. DecisionFor(q, v) # "DENY"
      BY <2>2, <3>2 DEF Decided, statusForDecision
    <3> QED BY <2>2, <3>2, <3>3 DEF Decided, DecisionFor, Live
  <2>4. CASE Approves(i, s)
    <3>1. PICK c \in Caller : /\ Live(auth[i].mandate, call[c].now)
                              /\ s = Approved(auth[i], call[c].approver, call[c].now)
      BY <2>4 DEF Approves
    <3>2. s.mandate = auth[i].mandate
      BY <2>2, <3>1 DEF Approved, Row
    <3> QED BY <2>2, <3>1, <3>2 DEF Live
  <2>5. CASE Releases(i, s)
    BY <2>2, <2>5 DEF Releases, LetGo, Row
  <2>6. CASE Captures(i, s)
    BY <2>2, <2>6 DEF Captures, Captured, Row
  <2>7. CASE Refunds(i, s)
    BY <2>2, <2>7 DEF Refunds, Refunded, Row
  <2> QED BY <2>1, <2>2, <2>3, <2>4, <2>5, <2>6, <2>7 DEF Writes
<1> QED BY <1>1, Invariance, PTL DEF Spec, NoAuthorityOnceRevoked

----------------------------------------------------------------------------
(* Receipts, written after the transaction they are about.                  *)

\* What a signed event of that type says of the status of its row.
Says(type, st) ==
  /\ type = "step_up.approved" => st \in {"STEP_UP_APPROVED", "EXECUTED"}
  /\ type = "step_up.declined" => st \in {"STEP_UP_DECLINED", "EXPIRED"}
  /\ type = "execution.completed" => st = "EXECUTED"

\* A receipt still to be written is as true as one that was.
ReceiptsHold ==
  /\ \A c \in Caller : call[c].op = "receipt" => Says(call[c].type, auth[call[c].id].status)
  /\ \A e \in evidence : Says(e[2], auth[e[1]].status)

\* No status change of the lifecycle makes a true receipt false.
LEMMA SaysPersists ==
  ASSUME NEW r, NEW s, NEW type, Moves(r, s), Says(type, r.status)
  PROVE  Says(type, s.status)
BY DEF Moves, Lifecycle, Says

\* A request sets out to write a receipt that is true of the row as it leaves it.
LEMMA ReceiptBegins ==
  ASSUME Inv, [Next]_vars, NEW d \in Caller, call'[d].op = "receipt"
  PROVE  call'[d] = call[d] \/ Says(call'[d].type, auth'[call'[d].id].status)
<1>1. ASSUME NEW c \in Caller, NEW q, Becomes(c, q), q.op # "receipt"
      PROVE  call'[d] = call[d]
  BY <1>1 DEF Becomes, Inv, TypeOK
<1>2. ASSUME NEW c \in Caller, NEW q, Becomes(c, q), Says(q.type, auth'[q.id].status)
      PROVE  call'[d] = call[d] \/ Says(call'[d].type, auth'[call'[d].id].status)
  BY <1>2 DEF Becomes, Inv, TypeOK
<1>3. ASSUME NEW c \in Caller, CommitApprove(c)
      PROVE  call'[d] = call[d] \/ Says(call'[d].type, auth'[call'[d].id].status)
  <2> DEFINE q == call[c]
             r == auth[q.id]
  <2>1. q.id \in Id /\ q.approver \in Mandate /\ r \in Row
    BY <1>3, CallFields DEF CommitApprove, Inv, TypeOK
  <2>2. PICK v : LET s == Resolution(r, q.approver, q.now, v) IN
          /\ auth' = [auth EXCEPT ![q.id] = s]
          /\ Becomes(c, [op |-> "receipt", id |-> q.id,
                         type |-> IF s.status = "STEP_UP_APPROVED" THEN "step_up.approved"
                                                                  ELSE "step_up.declined"])
    BY <1>3 DEF CommitApprove
  <2> DEFINE s == Resolution(r, q.approver, q.now, v)
             n == [op |-> "receipt", id |-> q.id,
                   type |-> IF s.status = "STEP_UP_APPROVED" THEN "step_up.approved"
                                                            ELSE "step_up.declined"]
  <2>3. s.status \in {"STEP_UP_APPROVED", "STEP_UP_DECLINED", "EXPIRED"}
    BY <2>1 DEF Resolution, LetGo, Approved, Row
  <2>4. auth'[q.id] = s
    BY <2>1, <2>2 DEF Inv, TypeOK
  <2>5. Becomes(c, n)
    BY <2>2
  <2> HIDE DEF s
  <2>6. Says(n.type, auth'[n.id].status)
    BY <2>3, <2>4 DEF Says
  <2> QED BY <1>2, <2>5, <2>6
<1>4. ASSUME NEW c \in Caller, RecordExecution(c)
      PROVE  call'[d] = call[d] \/ Says(call'[d].type, auth'[call'[d].id].status)
  <2> DEFINE i == call[c].id
             n == [op |-> "receipt", id |-> i, type |-> "execution.completed"]
  <2>1. i \in Id /\ auth[i] \in Row
    BY <1>4, CallFields DEF RecordExecution, Inv, TypeOK
  <2>2. CASE auth[i].status = "EXECUTED" /\ UNCHANGED auth /\ Becomes(c, n)
    BY <1>2, <2>1, <2>2 DEF Says
  <2>3. CASE auth' = [auth EXCEPT ![i] = Captured(auth[i])] /\ Becomes(c, n)
    <3>1. auth'[i].status = "EXECUTED"
      BY <2>1, <2>3 DEF Captured, Row, Inv, TypeOK
    <3> QED BY <1>2, <2>3, <3>1 DEF Says
  <2>4. CASE Becomes(c, Threw("capture"))
    BY <1>1, <2>4 DEF Threw
  <2> QED BY <1>4, <2>2, <2>3, <2>4 DEF RecordExecution
<1>5. ASSUME NEW c \in Caller, AdapterSucceeds(c)
      PROVE  call'[d] = call[d]
  <2>1. [call[c] EXCEPT !.op = "capture"].op # "receipt"
    <3>1. call[c] \in [op : {"expire", "execute", "capture"}, id : Id]
      BY <1>5 DEF AdapterSucceeds, Inv, TypeOK, Call, Idle
    <3> QED BY <3>1
  <2> QED BY <1>1, <1>5, <2>1 DEF AdapterSucceeds
<1>6. ASSUME NEW c \in Caller, CallerStep(c)
      PROVE  call'[d] = call[d] \/ Says(call'[d].type, auth'[call'[d].id].status)
  <2>1. ASSUME NEW m \in Mandate, NEW a \in Amount, NEW k \in Key \cup {NoKey},
               BeginAuthorize(c, m, a, k)
        PROVE  call'[d] = call[d]
    BY <1>1, <2>1 DEF BeginAuthorize
  <2>2. ASSUME NEW i \in Id, NEW p \in Mandate, BeginApprove(c, i, p)
        PROVE  call'[d] = call[d]
    BY <1>1, <2>2 DEF BeginApprove
  <2>3. ASSUME NEW i \in Id, BeginExpire(c, i) \/ BeginExecute(c, i)
        PROVE  call'[d] = call[d]
    BY <1>1, <2>3 DEF BeginExpire, BeginExecute
  <2>4. CASE CommitAuthorize(c) \/ KeyTaken(c) \/ ReplayApprove(c) \/ CommitExpire(c)
              \/ AdapterFails(c) \/ WriteReceipt(c) \/ Crash(c)
    BY <1>1, <2>4 DEF CommitAuthorize, KeyTaken, ReplayApprove, CommitExpire, AdapterFails,
                      WriteReceipt, Crash, Idle, Threw
  <2> QED BY <1>3, <1>4, <1>5, <1>6, <2>1, <2>2, <2>3, <2>4 DEF CallerStep
<1> QED
  BY <1>6
     DEF Next, vars, SweepList, SweepOne, RefundEvent, activateMandate, Revoke, revokeKey, Tick,
         WorkerCrash

\* A signed event is there already, is the rejection of an execution, or is the
\* receipt some request was about to write.
LEMMA EvidenceMoves ==
  ASSUME [Next]_vars
  PROVE  \A e \in evidence' :
           \/ e \in evidence \/ e[2] = "execution.rejected"
           \/ \E c \in Caller : call[c].op = "receipt" /\ e = <<call[c].id, call[c].type>>
<1>1. ASSUME NEW c \in Caller, AdapterFails(c)
      PROVE  evidence' = evidence \cup {<<call[c].id, "execution.rejected">>}
  BY <1>1 DEF AdapterFails
<1>2. ASSUME NEW c \in Caller, WriteReceipt(c)
      PROVE  /\ call[c].op = "receipt"
             /\ evidence' = evidence \cup {<<call[c].id, call[c].type>>}
  BY <1>2 DEF WriteReceipt
<1>3. \/ UNCHANGED evidence
      \/ \E c \in Caller : AdapterFails(c) \/ WriteReceipt(c)
  BY ZenonT(60) DEF Next, CallerStep, vars, BeginAuthorize, CommitAuthorize, KeyTaken, BeginApprove,
         CommitApprove, ReplayApprove, BeginExpire, CommitExpire, BeginExecute, AdapterSucceeds,
         RecordExecution, Crash, SweepList, SweepOne, RefundEvent, activateMandate, Revoke,
         revokeKey, Tick, WorkerCrash
<1> QED BY <1>1, <1>2, <1>3

\* Every step keeps the receipts true, the written and the pending ones.
LEMMA ReceiptsStep ==
  ASSUME Inv, ReceiptsHold, [Next]_vars
  PROVE  ReceiptsHold'
<1>1. ASSUME NEW i \in Id, NEW type, Says(type, auth[i].status)
      PROVE  Says(type, auth'[i].status)
  BY <1>1, StatusMoves, SaysPersists
<1>2. ASSUME NEW c \in Caller, call'[c].op = "receipt"
      PROVE  Says(call'[c].type, auth'[call'[c].id].status)
  <2>1. CASE call'[c] = call[c]
    <3>1. call[c].id \in Id /\ Says(call[c].type, auth[call[c].id].status)
      BY <1>2, <2>1, CallFields DEF ReceiptsHold, Inv, TypeOK
    <3> QED BY <1>1, <2>1, <3>1
  <2> QED BY <1>2, <2>1, ReceiptBegins
<1>3. ASSUME NEW e \in evidence'
      PROVE  Says(e[2], auth'[e[1]].status)
  <2>1. CASE e \in evidence
    <3>1. e[1] \in Id /\ Says(e[2], auth[e[1]].status)
      BY <2>1 DEF ReceiptsHold, Inv, TypeOK
    <3> QED BY <1>1, <3>1
  <2>2. CASE e[2] = "execution.rejected"
    BY <2>2 DEF Says
  <2>3. ASSUME NEW c \in Caller, call[c].op = "receipt", e = <<call[c].id, call[c].type>>
        PROVE  Says(e[2], auth'[e[1]].status)
    <3>1. call[c].id \in Id /\ Says(call[c].type, auth[call[c].id].status)
      BY <2>3, CallFields DEF ReceiptsHold, Inv, TypeOK
    <3> QED BY <1>1, <2>3, <3>1
  <2> QED BY <2>1, <2>2, <2>3, EvidenceMoves
<1> QED BY <1>2, <1>3 DEF ReceiptsHold

\* ReceiptsAreTrue for every instance: no race, crash or replay leaves a signed
\* receipt that its authorization's row denies.
THEOREM ReceiptsTellTheTruth == Spec => []ReceiptsAreTrue
<1>1. Init => ReceiptsHold
  BY DEF Init, ReceiptsHold, Idle
<1>2. Inv /\ ReceiptsHold /\ [Next]_vars => ReceiptsHold'
  BY ReceiptsStep
<1>3. ReceiptsHold => ReceiptsAreTrue
  BY DEF ReceiptsHold, ReceiptsAreTrue, Says
<1> QED BY <1>1, <1>2, <1>3, Invariance, PTL DEF Spec

----------------------------------------------------------------------------
(* The transaction count.                                                   *)

\* The policies under which the count is unconditional: a step-up of the mandate
\* holds its slot while it waits, or nobody can approve one.  An approval looks
\* again at the spender's amount but not at its count (D-85).
WaitingHoldsItsSlot ==
  \A m \in Mandate : Policy[m].reserve_on_step_up \/ Policy[m].approvers = {}

\* The inductive form: the engine's own count, reservations included.
CountWithin == \A m \in Mandate, w \in Time : CountIn(m, w) <= Policy[m].max_count

\* A set of authorizations is finite, and so are the sets the count ranges over.
LEMMA SomeIdsFinite ==
  ASSUME NEW S \in SUBSET Id
  PROVE  IsFiniteSet(S) /\ Cardinality(S) \in Nat
<1>1. IsFiniteSet(Id)
  BY BoundsAssumption, FS_Interval DEF Id
<1>2. IsFiniteSet(S)
  BY <1>1, FS_Subset
<1> QED BY <1>2, FS_CardinalityType

\* A write takes no slot in a mandate's window, or takes one the engine found free.
LEMMA WriteTakesFreeSlot ==
  ASSUME Inv, WaitingHoldsItsSlot, NEW i \in Id, NEW s \in Row, Writes(i, s),
         NEW m \in Mandate, NEW w
  PROVE  \/ Counted(s, m, w) => Counted(auth[i], m, w)
         \/ CountIn(m, w) + 1 <= Policy[m].max_count
<1> DEFINE r == auth[i]
<1>1. r \in Row /\ RowSound(r)
  BY DEF Inv, TypeOK, LedgerBalanced, RowSound
<1>2. CountIn(m, w) \in Nat /\ Policy[m].max_count \in Nat
  BY SomeIdsFinite, PolicyFields DEF CountIn
<1>3. r.reserved \in Nat /\ r.released \in Nat /\ r.captured \in Nat /\ r.amount \in Nat
  BY <1>1 DEF Row
<1>4. CASE Saves(i, s)
  <2>1. PICK q \in Call : q.op = "authorize" /\ \E v : s = Decided(q, v)
    BY <1>4 DEF Saves
  <2>2. PICK v : s = Decided(q, v)
    BY <2>1
  <2> DEFINE d == DecisionFor(q, v)
  <2>3. /\ s.mandate = q.mandate /\ s.at = q.now /\ s.approver = Nobody /\ s.captured = 0
        /\ s.reserved = IF shouldReserve(d, q.mandate) THEN q.amount ELSE 0
    BY <2>2 DEF Decided
  <2>4. shouldReserve(d, q.mandate) => ~OverCount(q.mandate, q.now)
    BY DEF shouldReserve, DecisionFor, Evaluate
  <2> HIDE DEF d
  <2>5. Counted(s, m, w) =>
          m = q.mandate /\ w = Window(m, q.now) /\ shouldReserve(d, q.mandate)
    BY <2>3, NamesAssumption DEF Counted, OwnEntries, ApprovalEntry
  <2>6. CASE Counted(s, m, w)
    <3>1. ~(CountIn(m, w) + 1 > Policy[m].max_count)
      BY <2>4, <2>5, <2>6 DEF OverCount
    <3> QED BY <1>2, <3>1
  <2> QED BY <2>6
<1>5. CASE Approves(i, s)
  <2>1. PICK c \in Caller :
          /\ call[c].op = "approve" /\ call[c].id = i
          /\ \E v : Evaluate(call[c].approver, r.amount, call[c].now, v) = "ALLOW"
          /\ s = Approved(r, call[c].approver, call[c].now)
    BY <1>5 DEF Approves
  <2> DEFINE p == call[c].approver
             t == call[c].now
  <2>2. p \in Policy[r.mandate].approvers
    BY <2>1 DEF Inv, CallSound
  <2>3. ~OverCount(p, t)
    BY <2>1 DEF Evaluate
  <2>4. s.mandate = r.mandate /\ s.at = r.at /\ s.approver = p /\ s.approvedAt = t
    BY <1>1, <2>1 DEF Approved, Row
  <2>5. r.status = "PENDING_STEP_UP" /\ r.mandate \in Mandate /\ r.amount \in Amount
    BY <1>1, <1>5 DEF Approves, RowSound, Balanced
  <2>6. r.reserved > 0 /\ r.released = 0
    <3>1. Policy[r.mandate].reserve_on_step_up
      BY <2>2, <2>5 DEF WaitingHoldsItsSlot
    <3>2. r.reserved = r.amount /\ r.released = 0
      BY <1>1, <2>5, <3>1 DEF RowSound, Balanced
    <3>3. r.amount \in Nat \ {0}
      BY <2>5, AmountAssumption
    <3> HIDE DEF r
    <3> QED BY <3>2, <3>3
  <2>7. CASE ApprovalEntry(s, m, w)
    <3>1. m = p /\ w = Window(m, t)
      BY <2>4, <2>7 DEF ApprovalEntry
    <3>2. ~(CountIn(m, w) + 1 > Policy[m].max_count)
      BY <2>3, <3>1 DEF OverCount
    <3> QED BY <1>2, <3>2
  <2>8. CASE ~ApprovalEntry(s, m, w)
    BY <2>4, <2>6, <2>8 DEF Counted, OwnEntries
  <2> QED BY <2>7, <2>8
<1>6. CASE Releases(i, s)
  <2>1. PICK o \in {"EXPIRED", "STEP_UP_DECLINED"} : s = LetGo(r, o)
    BY <1>6 DEF Releases
  <2>2. /\ s.captured = r.captured /\ s.reserved = r.reserved
        /\ s.released = r.released + r.reserved
        /\ s.approver = r.approver /\ s.approvedAt = r.approvedAt
    BY <1>1, <2>1 DEF LetGo, Row
  <2>3. r.captured = 0 /\ r.released = 0
    BY <1>1, <1>6 DEF Releases, RowSound, Balanced
  <2> QED BY <1>3, <2>2, <2>3 DEF Counted, ApprovalEntry
<1>7. CASE Captures(i, s)
  <2>1. s.mandate = r.mandate /\ s.at = r.at /\ s.approver = r.approver /\ s.approvedAt = r.approvedAt
    BY <1>1, <1>7 DEF Captures, Captured, Row
  <2>2. r.reserved > 0 /\ r.released = 0
    <3>1. r.reserved = r.amount /\ r.released = 0 /\ r.amount \in Amount
      BY <1>1, <1>7 DEF Captures, RowSound, Balanced, EXECUTABLE_STATUSES
    <3>2. r.amount \in Nat \ {0}
      BY <3>1, AmountAssumption
    <3> HIDE DEF r
    <3> QED BY <3>1, <3>2
  <2> QED BY <2>1, <2>2 DEF Counted, OwnEntries, ApprovalEntry
<1>8. CASE Refunds(i, s)
  <2>1. PICK t \in RefundTotal : s = Refunded(r, t)
    BY <1>8 DEF Refunds
  <2>2. /\ s.mandate = r.mandate /\ s.at = r.at /\ s.approver = r.approver
        /\ s.approvedAt = r.approvedAt /\ s.captured = r.captured
        /\ s.reserved = r.reserved /\ s.released = r.released
    BY <1>1, <2>1 DEF Refunded, Row
  <2> QED BY <2>2 DEF Counted, OwnEntries, ApprovalEntry
<1> QED BY <1>4, <1>5, <1>6, <1>7, <1>8 DEF Writes

\* No step takes a window's count past the policy's.
LEMMA CountStep ==
  ASSUME Inv, WaitingHoldsItsSlot, CountWithin, [Next]_vars
  PROVE  CountWithin'
<1> SUFFICES ASSUME NEW m \in Mandate, NEW w \in Time
             PROVE  CountIn(m, w)' <= Policy[m].max_count
  BY DEF CountWithin
<1> DEFINE S == {i \in Id : Counted(auth[i], m, w)}
           T == {i \in Id : Counted(auth'[i], m, w)}
<1>1. CountIn(m, w) = Cardinality(S) /\ CountIn(m, w)' = Cardinality(T)
  BY DEF CountIn, Counted, OwnEntries, ApprovalEntry, Window
<1>2. IsFiniteSet(S) /\ Cardinality(S) \in Nat /\ Cardinality(T) \in Nat
  BY SomeIdsFinite
<1>3. Cardinality(S) <= Policy[m].max_count /\ Policy[m].max_count \in Nat
  BY <1>1, PolicyFields DEF CountWithin
<1>4. CASE UNCHANGED auth
  BY <1>1, <1>3, <1>4
<1>5. CASE \E i \in Id, s \in Row : Writes(i, s)
  <2>1. PICK i \in Id, s \in Row : Writes(i, s)
    BY <1>5
  <2>2. \A j \in Id : auth'[j] = IF j = i THEN s ELSE auth[j]
    BY <2>1 DEF Writes, Inv, TypeOK
  <2>3. CASE Counted(s, m, w) => Counted(auth[i], m, w)
    <3>1. T \subseteq S
      BY <2>2, <2>3
    <3> HIDE DEF S, T
    <3>2. Cardinality(T) <= Cardinality(S)
      BY <1>2, <3>1, FS_Subset
    <3> QED BY <1>1, <1>2, <1>3, <3>2
  <2>4. CASE CountIn(m, w) + 1 <= Policy[m].max_count
    <3>1. T \subseteq S \cup {i}
      BY <2>2
    <3> HIDE DEF S, T
    <3>2. IsFiniteSet(S \cup {i}) /\ Cardinality(S \cup {i}) \in {Cardinality(S), Cardinality(S) + 1}
      BY <1>2, FS_AddElement
    <3>3. Cardinality(T) <= Cardinality(S \cup {i})
      BY <3>1, <3>2, FS_Subset
    <3> QED BY <1>1, <1>2, <1>3, <2>4, <3>2, <3>3
  <2> QED BY <2>1, <2>3, <2>4, WriteTakesFreeSlot
<1> QED BY <1>4, <1>5, StepShape DEF Inv

\* WithinCount for every instance: if a waiting step-up holds its slot, or cannot
\* be approved, no window ever has more payments that moved or may still move
\* money than max_count, whatever settles, expires or is refunded meanwhile.
THEOREM Count ==
  ASSUME WaitingHoldsItsSlot
  PROVE  Spec => []WithinCount
<1>1. Init => CountWithin
  <2> SUFFICES ASSUME Init, NEW m \in Mandate, NEW w \in Time
               PROVE  CountIn(m, w) <= Policy[m].max_count
    BY DEF CountWithin
  <2>1. \A i \in Id : ~Counted(auth[i], m, w)
    BY NamesAssumption DEF Init, Counted, OwnEntries, ApprovalEntry, NoRow
  <2>2. {i \in Id : Counted(auth[i], m, w)} = {}
    BY <2>1
  <2>3. CountIn(m, w) = 0
    BY <2>2, FS_EmptySet DEF CountIn
  <2> QED BY <2>3, PolicyFields
<1>2. Inv /\ CountWithin /\ [Next]_vars => CountWithin'
  BY CountStep
<1>3. Inv /\ CountWithin => WithinCount
  <2> SUFFICES ASSUME Inv, CountWithin, NEW m \in Mandate, NEW w \in Time
               PROVE  Cardinality({i \in Id :
                        \/ OwnEntries(auth[i], m, w) /\ auth[i].status \in EXECUTABLE_STATUSES \cup {"EXECUTED"}
                        \/ ApprovalEntry(auth[i], m, w)}) <= Policy[m].max_count
    BY DEF WithinCount
  <2> DEFINE S == {i \in Id : Counted(auth[i], m, w)}
             T == {i \in Id :
                     \/ OwnEntries(auth[i], m, w) /\ auth[i].status \in EXECUTABLE_STATUSES \cup {"EXECUTED"}
                     \/ ApprovalEntry(auth[i], m, w)}
  <2>1. ASSUME NEW i \in Id, auth[i].status \in EXECUTABLE_STATUSES \cup {"EXECUTED"}
        PROVE  auth[i].captured > 0 \/ (auth[i].reserved > 0 /\ auth[i].released = 0)
    <3>1. Balanced(auth[i]) /\ auth[i].amount \in Amount
      BY <2>1 DEF Inv, LedgerBalanced, Balanced, EXECUTABLE_STATUSES
    <3>2. auth[i].amount > 0
      BY <3>1, AmountAssumption
    <3> QED BY <2>1, <3>1, <3>2 DEF Balanced, EXECUTABLE_STATUSES
  <2>2. T \subseteq S
    BY <2>1 DEF Counted
  <2>3. IsFiniteSet(S) /\ Cardinality(S) \in Nat /\ Cardinality(T) \in Nat
    BY SomeIdsFinite
  <2>4. Cardinality(S) <= Policy[m].max_count /\ Policy[m].max_count \in Nat
    BY PolicyFields DEF CountWithin, CountIn
  <2> HIDE DEF S, T
  <2>5. Cardinality(T) <= Cardinality(S)
    BY <2>2, <2>3, FS_Subset
  <2>6. Cardinality(T) <= Policy[m].max_count
    BY <2>3, <2>4, <2>5
  <2> QED BY <2>6 DEF T
<1> QED BY <1>1, <1>2, <1>3, Invariance, PTL DEF Spec

----------------------------------------------------------------------------
(* The promise of SpendGuarantee, kept step by step.                        *)

\* What the promise sees of the agent path.
Stages == [i \in Id |-> stageOf[auth[i].status]]
Spends == [m \in Mandate |-> [w \in Time |-> SpentIn(m, w)]]

\* A request captures only what the provider was told to charge and did.
CapturesAreCharged == \A c \in Caller : call[c].op = "capture" => call[c].id \in charged

\* No step forgets that money moved, or captures money that did not.
LEMMA CaptureFollowsCharge ==
  ASSUME Inv, CapturesAreCharged, [Next]_vars
  PROVE  CapturesAreCharged'
<1>1. charged \subseteq charged'
  BY MoneyMoves
<1> SUFFICES ASSUME NEW c \in Caller, call'[c].op = "capture"
             PROVE  call'[c].id \in charged'
  BY DEF CapturesAreCharged
<1>2. Admits(call'[c], call[c])
  BY RequestsMove DEF Inv
<1> QED BY <1>1, <1>2 DEF Admits, CapturesAreCharged

\* Every window of every mandate holds a natural number.
SpendsTyped == Spends \in [Mandate -> [Time -> Nat]]

\* The invariant bounds every window's sum from below.
LEMMA SpendsAreTyped ==
  ASSUME Inv
  PROVE  SpendsTyped
<1>1. \A m \in Mandate, w \in Time : SpentIn(m, w) \in Int /\ SpentIn(m, w) >= 0
  BY SpentTyped, BalancedSums DEF Inv
<1>2. \A m \in Mandate, w \in Time : SpentIn(m, w) \in Nat
  BY <1>1
<1> QED BY <1>2 DEF Spends, SpendsTyped

\* A write moves one payment to the stage of its new status.
LEMMA StageChange ==
  ASSUME Inv, Inv', NEW i \in Id, NEW s \in Row, Writes(i, s)
  PROVE  /\ Stages' = [Stages EXCEPT ![i] = stageOf[s.status]]
         /\ Stages[i] = stageOf[auth[i].status]
<1>1. \A j \in Id : auth'[j] = IF j = i THEN s ELSE auth[j]
  BY DEF Writes, Inv, TypeOK
<1>2. \A j \in Id : Stages'[j] = stageOf[auth'[j].status] /\ Stages[j] = stageOf[auth[j].status]
  BY DEF Stages
<1> QED BY <1>1, <1>2 DEF Stages

\* A decision that takes no hold, and one that does, change the spend upwards
\* only; an approval too.
LEMMA GrantGrows ==
  ASSUME Inv, NEW i \in Id, NEW s \in Row, Writes(i, s), Saves(i, s) \/ Approves(i, s),
         NEW m \in Mandate, NEW w
  PROVE  Contribution(auth[i], m, w) <= Contribution(s, m, w)
<1> DEFINE r == auth[i]
<1>1. r \in Row /\ RowSound(r) /\ RowSound(s)
  BY WriteEffect DEF Inv, TypeOK, LedgerBalanced, RowSound
<1>2. CASE Saves(i, s)
  <2>1. r = NoRow
    BY <1>1, <1>2 DEF Saves, RowSound, Balanced
  <2>2. Contribution(r, m, w) = 0
    BY <2>1, NoRowContribution
  <2>3. Contribution(s, m, w) >= 0
    BY <1>1, ContributionBounds
  <2> QED BY <2>2, <2>3
<1>3. CASE Approves(i, s)
  <2>1. PICK p, t : s = Approved(r, p, t)
    BY <1>3 DEF Approves
  <2>2. /\ s.mandate = r.mandate /\ s.at = r.at /\ s.amount = r.amount
        /\ s.reserved = (IF r.reserved = 0 THEN r.amount ELSE r.reserved)
        /\ s.released = r.released /\ s.captured = r.captured /\ s.credited = r.credited
    BY <1>1, <2>1, SMTT(30) DEF Approved, Row
  <2>3. r.reserved \in Nat /\ r.released \in Nat /\ r.captured \in Nat /\ r.credited \in Nat
        /\ r.amount \in Nat /\ r.approver = Nobody
    BY <1>1, <1>3 DEF Row, RowSound, Balanced, Approves
  <2> DEFINE x == IF Policy[m].refunds_credit_budget THEN r.credited ELSE 0
             a == IF OwnEntries(r, m, w) THEN Own(r, m) ELSE 0
             b == IF OwnEntries(s, m, w) THEN Own(s, m) ELSE 0
             d == IF ApprovalEntry(s, m, w) THEN s.amount ELSE 0
  <2>4. Own(r, m) = r.reserved - r.released + r.captured - x
        /\ Own(s, m) = s.reserved - r.released + r.captured - x
    BY <2>2 DEF Own
  <2>5. x \in Nat /\ d \in Nat
    BY <2>2, <2>3
  <2>6. Own(r, m) <= Own(s, m)
    <3> HIDE DEF x, r
    <3> QED BY <2>2, <2>3, <2>4, <2>5
  <2>7. OwnEntries(s, m, w) = OwnEntries(r, m, w) /\ ~ApprovalEntry(r, m, w)
    BY <2>2, <2>3, NamesAssumption DEF OwnEntries, ApprovalEntry
  <2>8. a <= b /\ a \in Int /\ b \in Int
    BY <1>1, <2>6, <2>7, OwnBounds
  <2>9. Contribution(r, m, w) = a + 0
    BY <1>1, <2>7, ContributionBounds
  <2>10. Contribution(s, m, w) = b + d
    BY ContributionBounds
  <2>11. a + 0 <= b + d
    <3> HIDE DEF a, b, d
    <3> QED BY <2>5, <2>8
  <2> QED BY <2>9, <2>10, <2>11
<1> QED BY <1>2, <1>3

\* Saving or approving grows windows only up to their caps.
LEMMA GrowsUpToCap ==
  ASSUME Inv, Inv', SpendsTyped', ReservesOrOneWindow, WithinCap,
         NEW i \in Id, NEW s \in Row, Writes(i, s), Saves(i, s) \/ Approves(i, s)
  PROVE  /\ Spends' \in [Mandate -> [Time -> Nat]]
         /\ \A m \in Mandate, w \in Time :
              /\ Spends[m][w] <= Spends'[m][w]
              /\ Spends'[m][w] = Spends[m][w] \/ Spends'[m][w] <= Policy[m].max_amount
<1>1. Spends' \in [Mandate -> [Time -> Nat]]
  BY DEF SpendsTyped
<1>2. ASSUME NEW m \in Mandate, NEW w \in Time
      PROVE  /\ SpentIn(m, w) <= SpentIn(m, w)'
             /\ SpentIn(m, w)' = SpentIn(m, w) \/ SpentIn(m, w)' <= Policy[m].max_amount
  <2>1. SpentIn(m, w)' = SpentIn(m, w) + Contribution(s, m, w) - Contribution(auth[i], m, w)
    BY SpentChange DEF Inv
  <2>2. AddsNothing(auth[i], s, m, w) \/ Fits(auth[i], s, m, w)
    BY WriteKeepsCap
  <2>3. Contribution(s, m, w) \in Int /\ Contribution(auth[i], m, w) \in Int
    BY ContributionBounds DEF Inv, TypeOK
  <2>4. Contribution(auth[i], m, w) <= Contribution(s, m, w)
    BY GrantGrows
  <2>5. SpentIn(m, w) \in Int /\ Policy[m].max_amount \in Nat
    BY SpentTyped, PolicyFields DEF Inv
  <2> QED BY <2>1, <2>2, <2>3, <2>4, <2>5 DEF AddsNothing, Fits
<1>3. \A m \in Mandate, w \in Time :
        Spends[m][w] = SpentIn(m, w) /\ Spends'[m][w] = SpentIn(m, w)'
  BY DEF Spends
<1> QED BY <1>1, <1>2, <1>3

\* Releasing or crediting grows no window.
LEMMA OnlyShrinks ==
  ASSUME Inv, Inv', SpendsTyped', NEW i \in Id, NEW s \in Row, Writes(i, s),
         Releases(i, s) \/ Refunds(i, s)
  PROVE  /\ Spends' \in [Mandate -> [Time -> Nat]]
         /\ \A m \in Mandate, w \in Time : Spends'[m][w] <= Spends[m][w]
<1>1. Spends' \in [Mandate -> [Time -> Nat]]
  BY DEF SpendsTyped
<1>2. ASSUME NEW m \in Mandate, NEW w \in Time
      PROVE  SpentIn(m, w)' <= SpentIn(m, w)
  <2>1. SpentIn(m, w)' = SpentIn(m, w) + Contribution(s, m, w) - Contribution(auth[i], m, w)
    BY SpentChange DEF Inv
  <2>2. auth[i] \in Row
    BY DEF Inv, TypeOK
  <2>3. AddsNothing(auth[i], s, m, w)
    BY <2>2, ReleaseAddsNothing, RefundAddsNothing, AmountAssumption DEF Releases, Refunds
  <2>4. Contribution(s, m, w) \in Int /\ Contribution(auth[i], m, w) \in Int /\ SpentIn(m, w) \in Int
    BY <2>2, ContributionBounds, SpentTyped DEF Inv
  <2> QED BY <2>1, <2>3, <2>4 DEF AddsNothing
<1>3. \A m \in Mandate, w \in Time :
        Spends[m][w] = SpentIn(m, w) /\ Spends'[m][w] = SpentIn(m, w)'
  BY DEF Spends
<1> QED BY <1>1, <1>2, <1>3

\* A write that changes no contribution of its row changes no sum.
LEMMA SameSpends ==
  ASSUME Inv, Inv', NEW i \in Id, NEW s \in Row, Writes(i, s),
         \A m \in Mandate, w \in Time : Contribution(s, m, w) = Contribution(auth[i], m, w)
  PROVE  Spends' = Spends
<1>1. ASSUME NEW m \in Mandate, NEW w \in Time
      PROVE  SpentIn(m, w)' = SpentIn(m, w)
  <2>1. SpentIn(m, w)' = SpentIn(m, w) + Contribution(s, m, w) - Contribution(auth[i], m, w)
    BY SpentChange DEF Inv
  <2>2. Contribution(auth[i], m, w) \in Int /\ SpentIn(m, w) \in Int
    BY ContributionBounds, SpentTyped DEF Inv, TypeOK
  <2> QED BY <2>1, <2>2
<1> QED BY <1>1 DEF Spends

\* Each write of a row is a step of the promise.
LEMMA WriteKeepsPromise ==
  ASSUME Inv, Inv', SpendsTyped', ReservesOrOneWindow, WithinCap, CapturesAreCharged,
         NEW i \in Id, NEW s \in Row, Writes(i, s)
  PROVE  Guarantee!Next
<1> DEFINE r == auth[i]
<1>1. r \in Row /\ RowSound(r) /\ charged' = charged
  BY DEF Inv, TypeOK, LedgerBalanced, RowSound, Writes
<1>2. Stages' = [Stages EXCEPT ![i] = stageOf[s.status]] /\ Stages[i] = stageOf[r.status]
  BY StageChange
<1>3. CASE Saves(i, s)
  <2>1. PICK q \in Call : q.op = "authorize" /\ \E v : s = Decided(q, v)
    BY <1>3 DEF Saves
  <2>2. s.status \in {"DENIED", "AUTHORIZED", "PENDING_STEP_UP"} /\ RowSound(s)
    BY <2>1, SavedSound
  <2>3. Stages[i] = "absent"
    BY <1>2, <1>3 DEF Saves, stageOf
  <2>4. CASE s.status = "DENIED"
    <3>1. ASSUME NEW m \in Mandate, NEW w \in Time
          PROVE  Contribution(s, m, w) = Contribution(r, m, w)
      <4>1. Contribution(r, m, w) = 0
        BY <1>1, <1>3, NoRowContribution DEF Saves, RowSound, Balanced
      <4>2. s.reserved = 0 /\ s.released = 0 /\ s.captured = 0 /\ s.credited = 0 /\ s.approver = Nobody
        BY <2>1, <2>2, <2>4 DEF Decided, RowSound, Balanced
      <4>3. Own(s, m) = 0 /\ ~ApprovalEntry(s, m, w)
        BY <4>2, NamesAssumption DEF Own, ApprovalEntry
      <4> QED BY <4>1, <4>3, ContributionBounds
    <3>2. Spends' = Spends
      BY <3>1, SameSpends
    <3>3. Stages' = [Stages EXCEPT ![i] = "refused"]
      BY <1>2, <2>4 DEF stageOf
    <3>4. Guarantee!Refuse(i)
      BY <1>1, <2>3, <3>2, <3>3 DEF Guarantee!Refuse, Guarantee!Goes, Stages, Spends
    <3> QED BY <3>4 DEF Guarantee!Next
  <2>5. Guarantee!GrowsWithinCap
    BY <1>3, GrowsUpToCap DEF Guarantee!GrowsWithinCap, Spends
  <2>6. CASE s.status = "AUTHORIZED"
    <3>1. Stages' = [Stages EXCEPT ![i] = "granted"]
      BY <1>2, <2>6 DEF stageOf
    <3>2. Guarantee!Grant(i)
      BY <1>1, <2>3, <2>5, <3>1 DEF Guarantee!Grant, Guarantee!Goes, Stages
    <3> QED BY <3>2 DEF Guarantee!Next
  <2>7. CASE s.status = "PENDING_STEP_UP"
    <3>1. Stages' = [Stages EXCEPT ![i] = "waiting"]
      BY <1>2, <2>7 DEF stageOf
    <3>2. Guarantee!Wait(i)
      BY <1>1, <2>3, <2>5, <3>1 DEF Guarantee!Wait, Guarantee!Goes, Stages
    <3> QED BY <3>2 DEF Guarantee!Next
  <2> QED BY <2>2, <2>4, <2>6, <2>7
<1>4. CASE Approves(i, s)
  <2>1. Stages[i] = "waiting"
    BY <1>2, <1>4 DEF Approves, stageOf
  <2>2. s.status = "STEP_UP_APPROVED"
    BY <1>1, <1>4 DEF Approves, Approved, Row
  <2>3. Stages' = [Stages EXCEPT ![i] = "granted"]
    BY <1>2, <2>2 DEF stageOf
  <2>4. Guarantee!GrowsWithinCap
    BY <1>4, GrowsUpToCap DEF Guarantee!GrowsWithinCap, Spends
  <2>5. Guarantee!Grant(i)
    BY <1>1, <2>1, <2>3, <2>4 DEF Guarantee!Grant, Guarantee!Goes, Stages
  <2> QED BY <2>5 DEF Guarantee!Next
<1>5. CASE Releases(i, s)
  <2>1. Stages[i] = "waiting"
    BY <1>2, <1>5 DEF Releases, stageOf
  <2>2. s.status \in {"EXPIRED", "STEP_UP_DECLINED"}
    BY <1>1, <1>5 DEF Releases, LetGo, Row
  <2>3. stageOf[s.status] = "dropped"
    BY <2>2 DEF stageOf
  <2>4. Guarantee!Shrinks
    BY <1>5, OnlyShrinks DEF Guarantee!Shrinks, Spends
  <2>5. Guarantee!Drop(i)
    BY <1>1, <1>2, <2>1, <2>3, <2>4 DEF Guarantee!Drop, Guarantee!Goes, Stages
  <2> QED BY <2>5 DEF Guarantee!Next
<1>6. CASE Captures(i, s)
  <2>1. Stages[i] = "granted"
    BY <1>2, <1>6 DEF Captures, EXECUTABLE_STATUSES, stageOf
  <2>2. s.status = "EXECUTED"
    BY <1>1, <1>6 DEF Captures, Captured, Row
  <2>3. Stages' = [Stages EXCEPT ![i] = "settled"]
    BY <1>2, <2>2 DEF stageOf
  <2>4. Spends' = Spends
    BY <1>1, <1>6, CaptureKeepsSum, SameSpends DEF Captures
  <2>5. i \in charged
    BY <1>6 DEF Captures, CapturesAreCharged
  <2>6. Guarantee!Settle(i)
    BY <1>1, <2>1, <2>3, <2>4, <2>5 DEF Guarantee!Settle, Guarantee!Goes, Stages, Spends
  <2> QED BY <2>6 DEF Guarantee!Next
<1>7. CASE Refunds(i, s)
  <2>1. s.status = r.status
    BY <1>1, <1>7 DEF Refunds, Refunded, Row
  <2>2. Stages' = Stages
    BY <1>2, <2>1 DEF Stages
  <2>3. Guarantee!Shrinks
    BY <1>7, OnlyShrinks DEF Guarantee!Shrinks, Spends
  <2>4. i \in charged
    BY <1>7 DEF Refunds
  <2>5. Guarantee!GiveBack(i)
    BY <1>1, <2>2, <2>3, <2>4 DEF Guarantee!GiveBack, Stages
  <2> QED BY <2>5 DEF Guarantee!Next
<1> QED BY <1>3, <1>4, <1>5, <1>6, <1>7 DEF Writes

\* Every step of the agent path is a step of the promise, or changes nothing it
\* sees.
LEMMA StepKeepsPromise ==
  ASSUME Inv, Inv', SpendsTyped', ReservesOrOneWindow, WithinCap, CapturesAreCharged, [Next]_vars
  PROVE  [Guarantee!Next]_(Guarantee!vars)
<1>1. CASE \E i \in Id, s \in Row : Writes(i, s)
  BY <1>1, WriteKeepsPromise
<1>2. CASE UNCHANGED auth
  <2>1. Stages' = Stages
    BY <1>2 DEF Stages
  <2>2. \A m \in Mandate, w \in Time : SpentIn(m, w)' = SpentIn(m, w)
    BY <1>2 DEF SpentIn, Contribution, OwnEntries, ApprovalEntry, Window
  <2>3. Spends' = Spends
    BY <2>2 DEF Spends
  <2>4. CASE UNCHANGED charged
    BY <2>1, <2>3, <2>4 DEF Guarantee!vars, Stages, Spends
  <2>5. ASSUME NEW c \in Caller, call[c].op = "execute", charged' = charged \cup {call[c].id}
        PROVE  Guarantee!Next
    <3> DEFINE i == call[c].id
    <3>1. i \in Id /\ auth[i].status \in GRANTED
      BY <2>5, CallFields DEF Inv, TypeOK, CallSound
    <3>2. Stages[i] \in {"granted", "settled"}
      BY <3>1 DEF Stages, GRANTED, stageOf
    <3>3. Guarantee!Move(i)
      BY <2>1, <2>3, <2>5, <3>2 DEF Guarantee!Move, Stages, Spends
    <3> QED BY <3>1, <3>3 DEF Guarantee!Next
  <2> QED BY <2>4, <2>5, MoneyMoves
<1> QED BY <1>1, <1>2, StepShape DEF Inv

\* KeepsGuarantee for every instance: under the policies for which the cap is
\* unconditional, every behaviour of the agent path is one that SpendGuarantee
\* promises: each decision, approval, expiry, charge, capture and refund is one
\* of its steps, and every other step changes nothing it sees.
THEOREM Refinement ==
  ASSUME ReservesOrOneWindow
  PROVE  Spec => KeepsGuarantee
<1>1. Init => Guarantee!Init
  <2> SUFFICES ASSUME Init PROVE Guarantee!Init
    OBVIOUS
  <2>1. \A i \in Id : stageOf[auth[i].status] = "absent"
    BY DEF Init, NoRow, stageOf
  <2>2. \A m \in Mandate, w \in Time : SpentIn(m, w) = 0
    BY NothingSpent
  <2> QED BY <2>1, <2>2 DEF Guarantee!Init, Init
<1>2. Init => CapturesAreCharged
  BY DEF Init, CapturesAreCharged, Idle
<1>3. Inv /\ CapturesAreCharged /\ [Next]_vars => CapturesAreCharged'
  BY CaptureFollowsCharge
<1>4. Inv => SpendsTyped
  BY SpendsAreTyped
<1>5. Inv /\ Inv' /\ SpendsTyped' /\ WithinCap /\ CapturesAreCharged /\ [Next]_vars
        => [Guarantee!Next]_(Guarantee!vars)
  BY StepKeepsPromise
<1> QED
  BY <1>1, <1>2, <1>3, <1>4, <1>5, Invariance, Cap, PTL DEF Spec, KeepsGuarantee, Guarantee!Spec

=============================================================================
