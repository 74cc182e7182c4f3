--------------------------- MODULE ApiClientProofs --------------------------
(***************************************************************************)
(* What holds of the SDK's calls and of the handlers that serve them, for  *)
(* any number of calls, attempts, agents, mandates and rows.               *)
(***************************************************************************)
EXTENDS ApiClient, FiniteSetTheorems, TLAPS

----------------------------------------------------------------------------
(* The invariant.                                                           *)

Status == {"PENDING_STEP_UP", "AUTHORIZED", "DENIED", "STEP_UP_APPROVED", "STEP_UP_DECLINED",
           "EXPIRED", "EXECUTED"}

RowType ==
  [org : Org, agent : Agent \cup {NoAgent}, mandate : Mandate, amount : Nat,
   key : Key \cup {NoKey}, status : Status, at : Nat, expires : Nat,
   card : Card \cup {NoCard}, revision : Int]

\* A row is an agent's, under a key of its organization, or a card's.
WhoseRow(r) ==
  \/ r.card = NoCard /\ r.agent \in Agent /\ r.key \in Key /\ r.org = OrgOf[r.agent]
  \/ r.card # NoCard /\ r.agent = NoAgent /\ r.key = NoKey

AgentRow(i) == i \in Ids /\ authorizations[i].card = NoCard

Granted == EXECUTABLE_STATUSES \cup {"EXECUTED"}

\* What was said of row i is so, or has become what it may become.
Stands(i, said) ==
  /\ said \in EXECUTABLE_STATUSES => authorizations[i].status \in Granted
  /\ said \in {"DENIED", "STEP_UP_DECLINED", "EXPIRED", "EXECUTED"} => authorizations[i].status = said

\* A receipt in answer to request r is about an agent's row, and about r's own one.
Told(r, answer) ==
  answer.is = "receipt" =>
    /\ AgentRow(answer.id) /\ Stands(answer.id, answer.status)
    /\ r.op = "authorize" =>
         /\ authorizations[answer.id].key = r.key /\ SameOrg(answer.id, r.agent)
         /\ SameRequest(answer.id, r)

\* A request is for a key, or for a row an agent was told of.
Asks(r) ==
  /\ r \in Request
  /\ r.op = "authorize" => r.key \in Key
  /\ r.op # "authorize" => AgentRow(r.id)

\* What a handler of request r knows.
Handles(r, h) ==
  /\ h.at = "gated" => r.op = "authorize" /\ h.now \in Nat
  /\ h.at \in {"lapsing", "resolving", "executable", "charged"} => r.op # "authorize"
  /\ h.at \in {"executable", "charged"} =>
       authorizations[r.id].agent = r.agent /\ authorizations[r.id].status \in Granted
  /\ h.at = "charged" => r.id \in charged
  /\ h.at = "resolving" =>
       /\ r.mandate \in Mandate /\ r.mandate # authorizations[r.id].mandate
       /\ h.now \in Nat
  /\ h.at = "answered" => Told(r, h.answer)

\* A call that waits for an answer, or pauses before it tries again.
IsUnderway(s) ==
  /\ s.at = "waiting" => s.attempt \in Attempt
  /\ s.at = "backoff" => s.attempt + 1 \in Attempt

CallSound(c) ==
  \/ sdk[c].at = "new" /\ \A k \in Attempt : conn[c][k].at = "none"
  \/ /\ sdk[c].at # "new" /\ Asks(sdk[c].request)
     /\ sdk[c].at \in {"waiting", "backoff"} => IsUnderway(sdk[c])
     /\ sdk[c].at = "done" => Told(sdk[c].request, sdk[c].answer)
     /\ \A k \in Attempt : Handles(sdk[c].request, conn[c][k])

\* Money that moved is of a row that was let through; a row that was executed was
\* charged.
ChargedSound ==
  /\ \A i \in charged : AgentRow(i) /\ authorizations[i].status \in Granted
  /\ \A i \in Ids : AgentRow(i) /\ authorizations[i].status = "EXECUTED" => i \in charged

\* The index and the rows with a key name each other.
IndexSound ==
  /\ idempotencyIndex \in [Org \X Key -> Nat]
  /\ \A o \in Org, k \in Key : idempotencyIndex[<<o, k>>] # 0 =>
       LET i == idempotencyIndex[<<o, k>>] IN
       i \in Ids /\ authorizations[i].key = k /\ authorizations[i].org = o
  /\ \A i \in Ids : authorizations[i].key # NoKey =>
       idempotencyIndex[<<authorizations[i].org, authorizations[i].key>>] = i

StoreSound ==
  /\ authorizations \in Seq(RowType)
  /\ \A i \in Ids : WhoseRow(authorizations[i])
  /\ IndexSound /\ ChargedSound

Shaped ==
  /\ clock \in Nat
  /\ sdk = [c \in Call |-> sdk[c]]
  /\ conn = [c \in Call |-> [k \in Attempt |-> conn[c][k]]]

\* What a row in the status of r holds on the mandate it is for.
HeldFor(r) ==
  IF \/ r.status \in EXECUTABLE_STATUSES
     \/ r.status = "PENDING_STEP_UP" /\ r.mandate \in HoldsWhilePending
  THEN r.amount ELSE 0

Reserves(q, m) == \E n \in DOMAIN q : q[n].type = RESERVATION /\ q[n].mandate = m

\* What the ledger rows q of authorization row r come to: enough to follow
\* LedgerMatchesStatus from write to write.
RowSound(r, q) ==
  /\ \A n \in DOMAIN q : q[n].mandate = r.mandate => q[n].window = Window(r.at)
  /\ HoldIn(q, r.mandate) = HeldFor(r)
  /\ CreditedIn(q) <= CapturedIn(q)
  /\ r.card = NoCard => CapturedIn(q) = IF r.status = "EXECUTED" THEN r.amount ELSE 0
  /\ r.status = "PENDING_STEP_UP" =>
       (Reserves(q, r.mandate) <=> r.mandate \in HoldsWhilePending)
  /\ r.card # NoCard => r.status \notin {"PENDING_STEP_UP", "STEP_UP_APPROVED"}

Windows == {Window(t) : t \in Nat}
EntryType ==
  [mandate : Mandate, type : {RESERVATION, RELEASE, CAPTURE, CREDIT}, amount : Int, window : Windows]

LedgerSound ==
  /\ ledger \in Seq(Seq(EntryType)) /\ Len(ledger) = Len(authorizations)
  /\ \A i \in Ids : RowSound(authorizations[i], ledger[i])

Inv == Shaped /\ StoreSound /\ \A c \in Call : CallSound(c)

----------------------------------------------------------------------------
(* The rows.                                                                *)

\* Rows stay, and so does what they say, but for their status; that of an agent's
\* row moves along its lifecycle.
Moves(s, t) ==
  \/ s = t
  \/ s = "PENDING_STEP_UP" /\ t \in {"STEP_UP_APPROVED", "STEP_UP_DECLINED", "EXPIRED"}
  \/ s \in EXECUTABLE_STATUSES /\ t = "EXECUTED"

SameButStatus(r, s) ==
  /\ s.org = r.org /\ s.agent = r.agent /\ s.mandate = r.mandate
  /\ s.amount = r.amount /\ s.key = r.key /\ s.card = r.card /\ s.at = r.at

Persist ==
  /\ charged \subseteq charged'
  /\ \A i \in Ids :
       /\ i \in Ids' /\ SameButStatus(authorizations[i], authorizations'[i])
       /\ AgentRow(i) => Moves(authorizations[i].status, authorizations'[i].status)

\* A row saved is added behind the others, which stay (authorizations.push).
LEMMA RowsAppend ==
  ASSUME authorizations \in Seq(RowType), NEW r \in RowType,
         authorizations' = Append(authorizations, r)
  PROVE  /\ authorizations' \in Seq(RowType) /\ Len(authorizations) \in Nat
         /\ Ids = 1..Len(authorizations) /\ Ids' = 1..(Len(authorizations) + 1)
         /\ \A i \in Ids : authorizations'[i] = authorizations[i]
         /\ authorizations'[Len(authorizations) + 1] = r
BY DEF Ids

\* A change of statuses changes nothing else of any row, and makes or drops none.
LEMMA RowsSetStatus ==
  ASSUME authorizations \in Seq(RowType), NEW S, NEW status \in Status, SetStatus(S, status)
  PROVE  /\ authorizations' \in Seq(RowType) /\ Ids' = Ids
         /\ \A i \in Ids : SameButStatus(authorizations[i], authorizations'[i])
         /\ \A i \in Ids : authorizations'[i].status =
              IF i \in S THEN status ELSE authorizations[i].status
<1>1. Len(authorizations) \in Nat /\ Ids = 1..Len(authorizations)
  BY DEF Ids
<1>2. \A i \in Ids : authorizations[i] \in RowType
  BY DEF Ids
<1>3. authorizations' = [i \in Ids |-> IF i \in S THEN [authorizations[i] EXCEPT !.status = status]
                                       ELSE authorizations[i]]
  BY DEF SetStatus
<1>4. ASSUME NEW i \in Ids
      PROVE  /\ authorizations'[i] \in RowType /\ SameButStatus(authorizations[i], authorizations'[i])
             /\ authorizations'[i].status = IF i \in S THEN status ELSE authorizations[i].status
  <2>1. authorizations[i] \in RowType
    BY <1>2
  <2>2. CASE i \in S
    <3>1. authorizations'[i] = [authorizations[i] EXCEPT !.status = status]
      BY <1>3, <2>2
    <3>2. ASSUME NEW r \in RowType, NEW s, s = [r EXCEPT !.status = status]
          PROVE  s \in RowType /\ SameButStatus(r, s) /\ s.status = status
      BY <3>2 DEF RowType, SameButStatus
    <3> QED BY <2>1, <2>2, <3>1, <3>2
  <2>3. CASE i \notin S
    <3>1. authorizations'[i] = authorizations[i]
      BY <1>3, <2>3
    <3> QED BY <2>1, <2>3, <3>1 DEF SameButStatus
  <2> QED BY <2>2, <2>3
<1>5. authorizations' = [i \in 1..Len(authorizations) |-> authorizations'[i]]
  BY <1>1, <1>3
<1>6. authorizations' \in Seq(RowType) /\ Ids' = Ids
  <2>1. authorizations' \in [1..Len(authorizations) -> RowType]
    BY <1>1, <1>4, <1>5
  <2>2. authorizations' \in Seq(RowType)
    BY <1>1, <2>1
  <2>3. DOMAIN authorizations' = 1..Len(authorizations)
    BY <2>1
  <2> QED BY <1>1, <2>2, <2>3 DEF Ids
<1> QED BY <1>4, <1>6

\* Where no row changes, all stay.
LEMMA QuietPersists ==
  ASSUME UNCHANGED authorizations, charged \subseteq charged'
  PROVE  Persist
BY DEF Persist, SameButStatus, Moves, Ids

----------------------------------------------------------------------------
(* What was said, asked or learned stays so.                                *)

\* An answer that was true when it was given stays true: rows stay, and statuses
\* move only onwards.
LEMMA ToldStays ==
  ASSUME Persist, NEW r, NEW answer, Told(r, answer)
  PROVE  Told(r, answer)'
<1> SUFFICES ASSUME answer.is = "receipt" PROVE Told(r, answer)'
  BY DEF Told
<1>1. AgentRow(answer.id) /\ Stands(answer.id, answer.status) /\ answer.id \in Ids
  BY DEF Told, AgentRow
<1>2. /\ answer.id \in Ids' /\ SameButStatus(authorizations[answer.id], authorizations'[answer.id])
      /\ Moves(authorizations[answer.id].status, authorizations'[answer.id].status)
  BY <1>1 DEF Persist
<1>3. AgentRow(answer.id)'
  BY <1>1, <1>2 DEF AgentRow, SameButStatus
<1>4. Stands(answer.id, answer.status)'
  BY <1>1, <1>2 DEF Stands, Moves, Granted, EXECUTABLE_STATUSES
<1> QED BY <1>2, <1>3, <1>4 DEF Told, SameButStatus, SameOrg, SameRequest

\* A request that named a row goes on naming an agent's row.
LEMMA AsksStays ==
  ASSUME Persist, NEW r, Asks(r)
  PROVE  Asks(r)'
BY DEF Persist, Asks, AgentRow, SameButStatus, Request

\* What a handler remembers is not undone by what others write meanwhile.
LEMMA HandlesStays ==
  ASSUME Persist, NEW r, NEW h, Asks(r), Handles(r, h)
  PROVE  Handles(r, h)'
<1>1. h.at = "answered" => Told(r, h.answer)'
  BY ToldStays DEF Handles
<1>2. h.at \in {"executable", "charged"} =>
        authorizations'[r.id].agent = r.agent /\ authorizations'[r.id].status \in Granted
  <2> SUFFICES ASSUME h.at \in {"executable", "charged"}
               PROVE  authorizations'[r.id].agent = r.agent /\ authorizations'[r.id].status \in Granted
    OBVIOUS
  <2>1. r.id \in Ids /\ AgentRow(r.id)
    BY DEF Handles, Asks, AgentRow
  <2> QED BY <2>1 DEF Handles, Persist, SameButStatus, Moves, Granted, EXECUTABLE_STATUSES
<1>3. h.at = "charged" => r.id \in charged'
  BY DEF Handles, Persist
<1>4. h.at = "resolving" =>
        r.mandate \in Mandate /\ r.mandate # authorizations'[r.id].mandate /\ h.now \in Nat
  BY DEF Handles, Asks, AgentRow, Persist, SameButStatus
<1> QED BY <1>1, <1>2, <1>3, <1>4 DEF Handles, Granted

\* A call that nobody touches stays sound, whatever happens to the store.
LEMMA CallStays ==
  ASSUME Persist, NEW c \in Call, CallSound(c), sdk'[c] = sdk[c],
         \A k \in Attempt : conn'[c][k] = conn[c][k]
  PROVE  CallSound(c)'
<1>1. CASE sdk[c].at = "new"
  BY <1>1 DEF CallSound
<1>2. CASE sdk[c].at # "new"
  <2>1. ASSUME NEW r, r = sdk[c].request PROVE Asks(r)'
    BY <1>2, <2>1, AsksStays DEF CallSound
  <2>2. ASSUME NEW r, NEW a, r = sdk[c].request, a = sdk[c].answer, sdk[c].at = "done"
        PROVE  Told(r, a)'
    BY <1>2, <2>2, ToldStays DEF CallSound
  <2>3. ASSUME NEW r, NEW h, NEW k \in Attempt, r = sdk[c].request, h = conn[c][k]
        PROVE  Handles(r, h)'
    BY <1>2, <2>3, HandlesStays DEF CallSound
  <2>4. /\ sdk'[c].request = sdk[c].request /\ sdk'[c].answer = sdk[c].answer
        /\ sdk'[c].at = sdk[c].at /\ sdk'[c] = sdk[c]
    OBVIOUS
  <2>5. /\ Asks(sdk[c].request)' /\ (sdk[c].at = "done" => Told(sdk[c].request, sdk[c].answer)')
        /\ \A k \in Attempt : Handles(sdk[c].request, conn[c][k])'
    BY <2>1, <2>2, <2>3, <2>4
  <2> QED BY <1>2, <2>4, <2>5 DEF CallSound
<1> QED BY <1>1, <1>2

----------------------------------------------------------------------------
(* A handler's step.                                                        *)

\* One handler moves, and no other.
LEMMA ShapeOf ==
  ASSUME Shaped, NEW c \in Call, NEW k \in Attempt, NEW h, Goes(c, k, h)
  PROVE  /\ conn'[c][k] = h
         /\ \A d \in Call, l \in Attempt : d # c \/ l # k => conn'[d][l] = conn[d][l]
         /\ conn' = [d \in Call |-> [l \in Attempt |-> conn'[d][l]]]
<1>1. DOMAIN conn = Call /\ \A d \in Call : conn[d] = [l \in Attempt |-> conn[d][l]]
  BY DEF Shaped
<1>2. conn = [d \in Call |-> conn[d]]
  BY DEF Shaped
<1>3. conn' = [conn EXCEPT ![c] = [conn[c] EXCEPT ![k] = h]]
  BY DEF Goes
<1>4. conn' = [d \in Call |-> IF d = c THEN [conn[c] EXCEPT ![k] = h] ELSE conn[d]]
  BY <1>1, <1>2, <1>3
<1>5. /\ conn'[c] = [conn[c] EXCEPT ![k] = h]
      /\ \A d \in Call : d # c => conn'[d] = conn[d]
      /\ conn' = [d \in Call |-> conn'[d]]
  BY <1>4
<1>6. DOMAIN conn[c] = Attempt
  BY <1>1
<1>7. conn'[c] = [l \in Attempt |-> IF l = k THEN h ELSE conn[c][l]]
  BY <1>1, <1>5, <1>6
<1>8. \A d \in Call : conn'[d] = [l \in Attempt |-> conn'[d][l]]
  BY <1>1, <1>5, <1>7
<1> QED BY <1>5, <1>7, <1>8

\* Who is being served has asked something, and its handler knows what it needs.
LEMMA Served ==
  ASSUME Inv, NEW c \in Call, NEW k \in Attempt, conn[c][k].at # "none"
  PROVE  sdk[c].at # "new" /\ Asks(Req(c)) /\ Handles(Req(c), conn[c][k])
BY DEF Inv, CallSound, Req

\* A handler's step is sound for every call if what it knows afterwards is so.
LEMMA HandlerMoves ==
  ASSUME Inv, Persist, sdk' = sdk, NEW c \in Call, NEW k \in Attempt, conn[c][k].at # "none",
         NEW h, Goes(c, k, h), NEW r, r = Req(c), Handles(r, h)'
  PROVE  /\ \A d \in Call : CallSound(d)'
         /\ sdk' = [d \in Call |-> sdk'[d]]
         /\ conn' = [d \in Call |-> [l \in Attempt |-> conn'[d][l]]]
<1>1. /\ conn'[c][k] = h
      /\ \A d \in Call, l \in Attempt : d # c \/ l # k => conn'[d][l] = conn[d][l]
      /\ conn' = [d \in Call |-> [l \in Attempt |-> conn'[d][l]]]
  BY ShapeOf DEF Inv
<1>2. sdk[c].at # "new" /\ CallSound(c)
  BY Served DEF Inv
<1>3. ASSUME NEW d \in Call, d # c PROVE CallSound(d)'
  BY <1>1, <1>3, CallStays DEF Inv
<1>4. CallSound(c)'
  <2>1. Asks(r)'
    BY <1>2, AsksStays DEF CallSound, Req
  <2>2. sdk[c].at = "done" => \A a : a = sdk[c].answer => Told(r, a)'
    BY <1>2, ToldStays DEF CallSound, Req
  <2>3. \A l \in Attempt : \A g : g = conn'[c][l] => Handles(r, g)'
    <3> SUFFICES ASSUME NEW l \in Attempt, NEW g, g = conn'[c][l] PROVE Handles(r, g)'
      OBVIOUS
    <3>1. CASE l = k
      BY <1>1, <3>1
    <3>2. CASE l # k
      <4>1. g = conn[c][l]
        BY <1>1, <3>2
      <4>2. Asks(r) /\ Handles(r, g)
        BY <1>2, <4>1 DEF CallSound, Req
      <4> QED BY <4>2, HandlesStays
    <3> QED BY <3>1, <3>2
  <2>4. /\ r = sdk'[c].request /\ sdk'[c].at = sdk[c].at /\ sdk'[c].answer = sdk[c].answer
        /\ sdk'[c] = sdk[c]
    BY DEF Req
  <2>5. /\ Asks(sdk[c].request)' /\ (sdk[c].at = "done" => Told(sdk[c].request, sdk[c].answer)')
        /\ \A l \in Attempt : Handles(sdk[c].request, conn[c][l])'
    BY <2>1, <2>2, <2>3, <2>4
  <2> QED BY <1>2, <2>4, <2>5 DEF CallSound
<1>5. sdk' = [d \in Call |-> sdk'[d]]
  BY DEF Inv, Shaped
<1> QED BY <1>1, <1>3, <1>4, <1>5

\* A handler's step that leaves a sound store and knows what it should.
LEMMA HandlerKeeps ==
  ASSUME Inv, Persist, StoreSound', UNCHANGED <<clock, sdk>>, NEW c \in Call, NEW k \in Attempt,
         conn[c][k].at # "none", NEW h, Goes(c, k, h), NEW r, r = Req(c), Handles(r, h)'
  PROVE  Inv'
<1>1. /\ \A d \in Call : CallSound(d)'
      /\ sdk' = [d \in Call |-> sdk'[d]]
      /\ conn' = [d \in Call |-> [l \in Attempt |-> conn'[d][l]]]
  BY HandlerMoves
<1>2. Shaped'
  BY <1>1 DEF Inv, Shaped
<1> QED BY <1>1, <1>2 DEF Inv

\* A step that writes no row leaves the store sound.
LEMMA QuietStore ==
  ASSUME StoreSound, UNCHANGED <<authorizations, idempotencyIndex, charged>>
  PROVE  StoreSound'
<1>1. Ids' = Ids
  BY DEF Ids
<1>2. IndexSound'
  BY <1>1, Zenon DEF StoreSound, IndexSound
<1>3. ChargedSound'
  BY <1>1 DEF StoreSound, ChargedSound, AgentRow
<1> QED BY <1>1, <1>2, <1>3 DEF StoreSound, WhoseRow

\* A handler's step that leaves the store alone.
LEMMA QuietHandler ==
  ASSUME Inv, NEW c \in Call, NEW k \in Attempt, conn[c][k].at # "none",
         NEW h, Goes(c, k, h), Handles(Req(c), h), UNCHANGED <<clock, sdk, charged, store>>
  PROVE  Inv'
<1>1. Persist
  BY QuietPersists DEF store
<1>2. ASSUME NEW r, r = Req(c) PROVE Handles(r, h)'
  BY <1>1, <1>2, Served, HandlesStays
<1>3. StoreSound'
  BY QuietStore DEF Inv, store
<1> QED BY <1>1, <1>2, <1>3, HandlerKeeps

\* What an answer makes of its attempt.
LEMMA AnswerHandles ==
  ASSUME NEW c \in Call, NEW k \in Attempt, NEW answer, Answers(c, k, answer)
  PROVE  \E h : /\ Goes(c, k, h)
                /\ \/ h.at = "answered" /\ h.answer = answer
                   \/ h.at = "closed"
<1>1. CASE Listening(c, k)
  <2>1. Goes(c, k, [at |-> "answered", answer |-> answer])
    BY <1>1 DEF Answers
  <2> QED BY <2>1
<1>2. CASE ~Listening(c, k)
  <2>1. Goes(c, k, [at |-> "closed"])
    BY <1>2 DEF Answers
  <2> QED BY <2>1
<1> QED BY <1>1, <1>2

\* An answer given without a write.
LEMMA QuietAnswer ==
  ASSUME Inv, NEW c \in Call, NEW k \in Attempt, conn[c][k].at # "none",
         NEW answer, Answers(c, k, answer), Told(Req(c), answer),
         UNCHANGED <<clock, sdk, charged, store>>
  PROVE  Inv'
<1>1. PICK h : Goes(c, k, h) /\ (h.at = "closed" \/ (h.at = "answered" /\ h.answer = answer))
  BY AnswerHandles
<1>2. Handles(Req(c), h)
  BY <1>1 DEF Handles
<1> QED BY <1>1, <1>2, QuietHandler

\* What was not let through is no receipt, and the current status stands.
LEMMA ErrorTold ==
  ASSUME NEW r, NEW name, name # "receipt"
  PROVE  Told(r, Error(name))
BY DEF Told, Error

\* What a row says now stands.
LEMMA CurrentStands ==
  ASSUME NEW i
  PROVE  Stands(i, authorizations[i].status)
BY DEF Stands, Granted

----------------------------------------------------------------------------
(* The store's writes.                                                      *)

\* A card payment's reference is one.
LEMMA CardsAreNot ==
  ASSUME NEW card \in Card PROVE card # NoCard
BY StoreAssumption

\* A new row under a key nobody claimed, or under none.
LEMMA SaveKeeps ==
  ASSUME StoreSound, NEW r \in RowType, NEW entries, saveAuthorization(r, entries), WhoseRow(r),
         r.card = NoCard => r.status # "EXECUTED", UNCHANGED charged
  PROVE  /\ Persist /\ StoreSound'
         /\ authorizations'[Len(authorizations) + 1] = r
         /\ Len(authorizations) + 1 \in Ids'
<1> DEFINE new == Len(authorizations) + 1
<1>1. /\ authorizations' = Append(authorizations, r) /\ Claimed(r.org, r.key) = {}
      /\ idempotencyIndex' = IF r.key = NoKey THEN idempotencyIndex
                             ELSE [idempotencyIndex EXCEPT ![<<r.org, r.key>>] = new]
  BY DEF saveAuthorization
<1>2. /\ authorizations' \in Seq(RowType) /\ Len(authorizations) \in Nat
      /\ Ids = 1..Len(authorizations) /\ Ids' = 1..new
      /\ \A i \in Ids : authorizations'[i] = authorizations[i]
      /\ authorizations'[new] = r
  BY <1>1, RowsAppend DEF StoreSound
<1>3. new \in Ids' /\ new \notin Ids /\ \A i \in Ids' : i \in Ids \/ i = new
  BY <1>2
<1>4. Ids \subseteq Ids'
  BY <1>2
<1>5. Persist
  BY <1>2, <1>4 DEF Persist, SameButStatus, Moves
<1>6. \A i \in Ids' : WhoseRow(authorizations'[i])
  <2>1. \A i \in Ids : WhoseRow(authorizations[i])
    BY DEF StoreSound
  <2> QED BY <1>2, <1>3, <2>1
<1>7. \A i \in Ids : AgentRow(i)' <=> AgentRow(i)
  BY <1>2, <1>4 DEF AgentRow
<1>8. ChargedSound'
  <2>1. \A i \in charged' : AgentRow(i)' /\ authorizations'[i].status \in Granted
    BY <1>2, <1>7 DEF StoreSound, ChargedSound, AgentRow
  <2>2. \A i \in Ids' : AgentRow(i)' /\ authorizations'[i].status = "EXECUTED" => i \in charged'
    <3> SUFFICES ASSUME NEW i \in Ids', AgentRow(i)', authorizations'[i].status = "EXECUTED"
                 PROVE  i \in charged'
      OBVIOUS
    <3>1. CASE i = new
      BY <1>2, <3>1 DEF AgentRow
    <3>2. CASE i \in Ids
      BY <1>2, <1>7, <3>2 DEF StoreSound, ChargedSound
    <3> QED BY <1>3, <3>1, <3>2
  <2> QED BY <2>1, <2>2 DEF ChargedSound, Granted
<1>9. CASE r.key = NoKey
  <2>1. idempotencyIndex' = idempotencyIndex
    BY <1>1, <1>9
  <2>2. IndexSound'
    <3>1. \A o \in Org, k \in Key : idempotencyIndex[<<o, k>>] # 0 =>
            LET i == idempotencyIndex[<<o, k>>] IN
            i \in Ids' /\ authorizations'[i].key = k /\ authorizations'[i].org = o
      BY <1>2, <1>4 DEF StoreSound, IndexSound
    <3>2. \A i \in Ids' : authorizations'[i].key # NoKey =>
            idempotencyIndex[<<authorizations'[i].org, authorizations'[i].key>>] = i
      <4> SUFFICES ASSUME NEW i \in Ids', authorizations'[i].key # NoKey
                   PROVE  idempotencyIndex[<<authorizations'[i].org, authorizations'[i].key>>] = i
        OBVIOUS
      <4>1. i \in Ids /\ authorizations'[i] = authorizations[i]
        BY <1>2, <1>3, <1>9
      <4> QED BY <4>1 DEF StoreSound, IndexSound
    <3> QED BY <2>1, <3>1, <3>2 DEF StoreSound, IndexSound
  <2> QED BY <1>2, <1>3, <1>5, <1>6, <1>8, <2>2 DEF StoreSound
<1>10. CASE r.key # NoKey
  <2>1. r.org \in Org /\ r.key \in Key
    BY <1>10 DEF RowType
  <2>2. idempotencyIndex[<<r.org, r.key>>] = 0
    BY <1>1, <1>10 DEF Claimed
  <2>3. /\ idempotencyIndex' \in [Org \X Key -> Nat]
        /\ idempotencyIndex'[<<r.org, r.key>>] = new
        /\ \A o \in Org, k \in Key : o # r.org \/ k # r.key => idempotencyIndex'[<<o, k>>] = idempotencyIndex[<<o, k>>]
    BY <1>1, <1>2, <1>10, <2>1 DEF StoreSound, IndexSound
  <2>4. \A o \in Org, k \in Key : idempotencyIndex'[<<o, k>>] # 0 =>
          LET i == idempotencyIndex'[<<o, k>>] IN
          i \in Ids' /\ authorizations'[i].key = k /\ authorizations'[i].org = o
    <3> SUFFICES ASSUME NEW o \in Org, NEW k \in Key, idempotencyIndex'[<<o, k>>] # 0,
                        NEW i, i = idempotencyIndex'[<<o, k>>]
                 PROVE  i \in Ids' /\ authorizations'[i].key = k /\ authorizations'[i].org = o
      OBVIOUS
    <3>1. CASE o = r.org /\ k = r.key
      BY <1>2, <1>3, <2>3, <3>1
    <3>2. CASE ~(o = r.org /\ k = r.key)
      <4>1. i = idempotencyIndex[<<o, k>>]
        BY <2>3, <3>2
      <4>2. i \in Ids /\ authorizations[i].key = k /\ authorizations[i].org = o
        BY <2>3, <3>2, <4>1 DEF StoreSound, IndexSound
      <4> QED BY <1>2, <1>4, <4>2
    <3> QED BY <3>1, <3>2
  <2>5. \A i \in Ids' : authorizations'[i].key # NoKey =>
          idempotencyIndex'[<<authorizations'[i].org, authorizations'[i].key>>] = i
    <3> SUFFICES ASSUME NEW i \in Ids', authorizations'[i].key # NoKey
                 PROVE  idempotencyIndex'[<<authorizations'[i].org, authorizations'[i].key>>] = i
      OBVIOUS
    <3>1. CASE i = new
      BY <1>2, <2>3, <3>1
    <3>2. CASE i \in Ids
      <4>1. authorizations'[i] = authorizations[i] /\ authorizations[i] \in RowType
        BY <1>2, <3>2 DEF StoreSound
      <4>2. /\ authorizations[i].org \in Org /\ authorizations[i].key \in Key
            /\ idempotencyIndex[<<authorizations[i].org, authorizations[i].key>>] = i
        BY <3>2, <4>1 DEF StoreSound, IndexSound, RowType
      <4>3. i # 0
        BY <1>2, <3>2
      <4>4. authorizations[i].org # r.org \/ authorizations[i].key # r.key
        BY <2>2, <4>2, <4>3
      <4> QED BY <2>3, <4>1, <4>2, <4>4
    <3> QED BY <1>3, <3>1, <3>2
  <2>6. IndexSound'
    BY <2>3, <2>4, <2>5 DEF IndexSound
  <2> QED BY <1>2, <1>3, <1>5, <1>6, <1>8, <2>6 DEF StoreSound
<1> QED BY <1>9, <1>10

\* A new status, for rows that may take it.
LEMMA StatusKeeps ==
  ASSUME StoreSound, NEW S, NEW status \in Status, SetStatus(S, status),
         \A i \in Ids : i \in S /\ AgentRow(i) =>
           Moves(authorizations[i].status, status) /\ (status = "EXECUTED" => i \in charged),
         UNCHANGED <<idempotencyIndex, charged>>
  PROVE  Persist /\ StoreSound'
<1>1. /\ authorizations' \in Seq(RowType) /\ Ids' = Ids
      /\ \A i \in Ids : SameButStatus(authorizations[i], authorizations'[i])
      /\ \A i \in Ids : authorizations'[i].status =
           IF i \in S THEN status ELSE authorizations[i].status
  BY RowsSetStatus DEF StoreSound
<1>2. \A i : AgentRow(i)' <=> AgentRow(i)
  BY <1>1 DEF AgentRow, SameButStatus
<1>3. Persist
  BY <1>1 DEF Persist, Moves
<1>4. \A i \in Ids' : WhoseRow(authorizations'[i])
  BY <1>1 DEF StoreSound, WhoseRow, SameButStatus
<1>5. IndexSound'
  <2>1. \A i \in Ids : authorizations'[i].key = authorizations[i].key
                       /\ authorizations'[i].org = authorizations[i].org
    BY <1>1 DEF SameButStatus
  <2> QED BY <1>1, <2>1 DEF StoreSound, IndexSound
<1>6. ChargedSound'
  <2>1. \A i \in charged' : AgentRow(i)' /\ authorizations'[i].status \in Granted
    <3> SUFFICES ASSUME NEW i \in charged PROVE AgentRow(i)' /\ authorizations'[i].status \in Granted
      OBVIOUS
    <3>1. i \in Ids /\ AgentRow(i) /\ authorizations[i].status \in Granted
      BY DEF StoreSound, ChargedSound, AgentRow
    <3> QED BY <1>2, <1>3, <3>1 DEF Persist, Moves, Granted, EXECUTABLE_STATUSES
  <2>2. \A i \in Ids' : AgentRow(i)' /\ authorizations'[i].status = "EXECUTED" => i \in charged'
    BY <1>1, <1>2 DEF StoreSound, ChargedSound
  <2> QED BY <2>1, <2>2 DEF ChargedSound, Granted
<1> QED BY <1>1, <1>3, <1>4, <1>5, <1>6 DEF StoreSound

\* A new status of one row of an agent, and what its caller is told of it.
LEMMA NewStatus ==
  ASSUME StoreSound, NEW i, AgentRow(i), NEW status \in Status, SetStatus({i}, status),
         Moves(authorizations[i].status, status), status = "EXECUTED" => i \in charged,
         UNCHANGED <<idempotencyIndex, charged>>
  PROVE  /\ Persist /\ StoreSound'
         /\ AgentRow(i)' /\ authorizations'[i].status = status
<1>1. Persist /\ StoreSound'
  BY StatusKeeps
<1>2. i \in Ids
  BY DEF AgentRow
<1>3. AgentRow(i)'
  BY <1>1, <1>2 DEF Persist, AgentRow, SameButStatus
<1>4. authorizations'[i].status = status
  BY <1>2, RowsSetStatus DEF StoreSound
<1> QED BY <1>1, <1>3, <1>4

\* The outcome a handler answers with is the one it wrote.
LEMMA OutcomeTold ==
  ASSUME NEW i, NEW r, NEW status, AgentRow(i)', authorizations'[i].status = status,
         r.op # "authorize"
  PROVE  Told(r, [is |-> "receipt", id |-> i, status |-> status])'
BY DEF Told, Stands, Granted

\* A receipt of a row as it is.
LEMMA ReceiptTold ==
  ASSUME NEW i, NEW r, AgentRow(i), r.op # "authorize"
  PROVE  Told(r, Receipt(i))
BY CurrentStands DEF Told, Receipt

\* An answer given in the step that changed the store.
LEMMA AnswerKeeps ==
  ASSUME Inv, Persist, StoreSound', UNCHANGED <<clock, sdk>>, NEW c \in Call, NEW k \in Attempt,
         conn[c][k].at # "none", NEW answer, Answers(c, k, answer), NEW r, r = Req(c),
         Told(r, answer)'
  PROVE  Inv'
<1>1. PICK h : Goes(c, k, h) /\ (h.at = "closed" \/ (h.at = "answered" /\ h.answer = answer))
  BY AnswerHandles
<1>2. Handles(r, h)'
  BY <1>1 DEF Handles
<1> QED BY <1>1, <1>2, HandlerKeeps

----------------------------------------------------------------------------
(* The handlers.                                                            *)

\* preHandler only looks at the key.
LEMMA AuthenticateKeeps ==
  ASSUME Inv, NEW c \in Call, NEW k \in Attempt, Authenticate(c, k)
  PROVE  Inv'
<1>1. conn[c][k].at # "none" /\ UNCHANGED <<clock, sdk, charged, store>>
  BY DEF Authenticate, At
<1>2. CASE Answers(c, k, Error("unauthorized"))
  <2>1. Told(Req(c), Error("unauthorized"))
    BY ErrorTold
  <2> QED BY <1>1, <1>2, <2>1, QuietAnswer
<1>3. CASE Goes(c, k, [at |-> "authenticated"])
  <2>1. Handles(Req(c), [at |-> "authenticated"])
    BY DEF Handles
  <2> QED BY <1>1, <1>3, <2>1, QuietHandler
<1> QED BY <1>2, <1>3 DEF Authenticate

\* What the key of a request names is an agent's row, of its own organization.
LEMMA ReplayTold ==
  ASSUME Inv, NEW r, Asks(r), r.op = "authorize", NEW i \in Claimed(OrgOf[r.agent], r.key)
  PROVE  Told(r, Replay(i, r))
<1>1. r.key \in Key /\ r.agent \in Agent /\ OrgOf[r.agent] \in Org
  BY StoreAssumption DEF Asks, Request
<1>2. r.key # NoKey
  BY <1>1, StoreAssumption
<1>3. i = idempotencyIndex[<<OrgOf[r.agent], r.key>>] /\ i # 0
  BY <1>2 DEF Claimed
<1>4. i \in Ids /\ authorizations[i].key = r.key /\ authorizations[i].org = OrgOf[r.agent]
  BY <1>1, <1>3 DEF Inv, StoreSound, IndexSound
<1>5. AgentRow(i)
  BY <1>2, <1>4 DEF Inv, StoreSound, WhoseRow, AgentRow
<1>6. CASE SameRequest(i, r)
  <2>1. Replay(i, r) = Receipt(i)
    BY <1>6 DEF Replay
  <2>2. Told(r, Receipt(i))
    BY <1>4, <1>5, <1>6, CurrentStands DEF Told, Receipt, SameOrg
  <2> QED BY <2>1, <2>2
<1>7. CASE ~SameRequest(i, r)
  <2>1. Replay(i, r) = Error("idempotency_conflict")
    BY <1>7 DEF Replay
  <2> QED BY <2>1, ErrorTold
<1> QED BY <1>6, <1>7

\* Before the lock: a replay, a refusal, or a decision to be made.
LEMMA GateKeeps ==
  ASSUME Inv, NEW c \in Call, NEW k \in Attempt, AuthorizeGate(c, k)
  PROVE  Inv'
<1> DEFINE r == Req(c)  o == OrgOf[r.agent]
           gated == [at |-> "gated", now |-> clock,
                     admitted |-> AgentOf[r.mandate] = r.agent /\ r.agent \notin revoked]
<1>1. /\ conn[c][k].at # "none" /\ UNCHANGED <<clock, sdk, charged, store>>
      /\ r.op = "authorize"
  BY DEF AuthorizeGate, At
<1>2. Asks(r)
  BY <1>1, Served
<1>3. CASE \E i \in Claimed(o, r.key) : Answers(c, k, Replay(i, r))
  <2>1. PICK i \in Claimed(o, r.key) : Answers(c, k, Replay(i, r))
    BY <1>3
  <2>2. Told(r, Replay(i, r))
    BY <1>1, <1>2, ReplayTold
  <2> QED BY <1>1, <2>1, <2>2, QuietAnswer
<1>4. CASE Answers(c, k, Error("no_active_mandate"))
  <2>1. Told(Req(c), Error("no_active_mandate"))
    BY ErrorTold
  <2> QED BY <1>1, <1>4, <2>1, QuietAnswer
<1>5. CASE Goes(c, k, gated)
  <2>1. Handles(r, gated)
    BY <1>1 DEF Handles, Inv, Shaped
  <2> QED BY <1>1, <1>5, <2>1, QuietHandler
<1> QED BY <1>3, <1>4, <1>5 DEF AuthorizeGate

\* Under the lock: a replay of a row that came meanwhile, or a new row.
LEMMA DecideKeeps ==
  ASSUME Inv, NEW c \in Call, NEW k \in Attempt, AuthorizeDecide(c, k)
  PROVE  Inv'
<1> DEFINE r == Req(c)
           h == conn[c][k]
           taken == Claimed(OrgOf[r.agent], r.key)
<1>1. conn[c][k].at # "none" /\ h.at = "gated" /\ UNCHANGED <<clock, revoked, sdk, charged>>
  BY DEF AuthorizeDecide, At
<1>2. Asks(r) /\ Handles(r, h) /\ sdk[c].at # "new"
  BY <1>1, Served
<1>3. r.op = "authorize" /\ h.now \in Nat
  BY <1>1, <1>2 DEF Handles
<1>4. CASE \E i \in taken : Answers(c, k, Replay(i, r)) /\ UNCHANGED store
  <2>1. PICK i \in taken : Answers(c, k, Replay(i, r)) /\ UNCHANGED store
    BY <1>4
  <2>2. Told(r, Replay(i, r))
    BY <1>2, <1>3, ReplayTold
  <2> QED BY <1>1, <2>1, <2>2, QuietAnswer
<1>5. CASE Answers(c, k, Error("internal_error")) /\ UNCHANGED store
  <2>1. Told(Req(c), Error("internal_error"))
    BY ErrorTold
  <2> QED BY <1>1, <1>5, <2>1, QuietAnswer
<1>6. ASSUME NEW d, saveAuthorization(Row(r, d, h.now), ReservationOf(r, d, h.now)),
             Answers(c, k, NewReceipt(StatusOf(d)))
      PROVE  Inv'
  <2> DEFINE row == Row(r, d, h.now)
             new == Len(authorizations) + 1
             answer == NewReceipt(StatusOf(d))
  <2>1. StatusOf(d) \in Status /\ StatusOf(d) # "EXECUTED"
    BY DEF StatusOf, Status
  <2>2. /\ r.agent \in Agent /\ r.mandate \in Mandate /\ r.amount \in Nat /\ r.key \in Key
        /\ OrgOf[r.agent] \in Org /\ h.now + Ttl \in Nat
    <3>1. r.agent \in Agent /\ r.mandate \in Mandate /\ r.amount \in Amount \cup {0} /\ r.key \in Key
      BY <1>2, <1>3 DEF Asks, Request
    <3>2. Amount \subseteq Nat /\ Ttl \in Nat /\ OrgOf \in [Agent -> Org]
      BY StoreAssumption, ClientAssumption
    <3>3. OrgOf[r.agent] \in Org
      BY <3>1, <3>2
    <3>4. \A t \in Nat : t + Ttl \in Nat
      BY <3>2
    <3>5. r.amount \in Nat
      <4>1. \A n \in Amount \cup {0} : n \in Nat
        BY <3>2
      <4> HIDE DEF r
      <4> QED BY <3>1, <4>1, Zenon
    <3>6. h.now + Ttl \in Nat
      BY <1>3, <3>4
    <3> HIDE DEF r, h
    <3> QED BY <3>1, <3>3, <3>5, <3>6
  <2>3. row \in RowType
    BY <1>3, <2>1, <2>2 DEF Row, RowType
  <2>4. WhoseRow(row) /\ (row.card = NoCard => row.status # "EXECUTED")
    <3>1. /\ row.card = NoCard /\ row.agent = r.agent /\ row.key = r.key
          /\ row.org = OrgOf[r.agent] /\ row.status = StatusOf(d)
      BY DEF Row
    <3> HIDE DEF row
    <3> QED BY <2>1, <2>2, <3>1 DEF WhoseRow
  <2>5. Persist /\ StoreSound' /\ authorizations'[new] = row /\ new \in Ids'
    BY <1>1, <1>6, <2>3, <2>4, SaveKeeps DEF Inv
  <2>6. answer = [is |-> "receipt", id |-> new, status |-> StatusOf(d)]
    BY DEF NewReceipt
  <2>7. ASSUME NEW q, q = r, NEW a, a = answer PROVE Told(q, a)'
    <3>1. PICK n : n = new
      OBVIOUS
    <3>2. authorizations'[n] = Row(r, d, h.now) /\ n \in Ids'
      BY <2>5, <3>1
    <3>3. /\ authorizations'[n].status = StatusOf(d) /\ authorizations'[n].key = r.key
          /\ authorizations'[n].org = OrgOf[r.agent] /\ authorizations'[n].agent = r.agent
          /\ authorizations'[n].mandate = r.mandate /\ authorizations'[n].amount = r.amount
          /\ authorizations'[n].card = NoCard
      BY <3>2 DEF Row
    <3>4. a.is = "receipt" /\ a.id = n /\ a.status = StatusOf(d)
      BY <2>6, <2>7, <3>1
    <3>5. /\ AgentRow(a.id)' /\ authorizations'[a.id].status = a.status
      BY <3>2, <3>3, <3>4 DEF AgentRow
    <3> QED BY <2>7, <3>3, <3>4, <3>5 DEF Told, Stands, Granted, SameOrg, SameRequest
  <2> QED BY <1>1, <1>6, <2>5, <2>7, AnswerKeeps
<1>7. CASE taken = {}
  <2> DEFINE decided(v) == IF h.admitted THEN Evaluate(r.mandate, r.amount, h.now, v) ELSE "DENY"
  <2>1. PICK v \in Verdicts[r.mandate] :
               /\ saveAuthorization(Row(r, decided(v), h.now), ReservationOf(r, decided(v), h.now))
               /\ Answers(c, k, NewReceipt(StatusOf(decided(v))))
    BY <1>7 DEF AuthorizeDecide
  <2> HIDE DEF decided
  <2> QED BY <1>6, <2>1
<1> QED BY <1>4, <1>5, <1>7 DEF AuthorizeDecide

\* Reading a row: what the handler goes on with is so of the row it read.
LEMMA ReadKeeps ==
  ASSUME Inv, NEW c \in Call, NEW k \in Attempt, ReadRow(c, k)
  PROVE  Inv'
<1> DEFINE r == Req(c)
           i == r.id
<1>1. /\ conn[c][k].at # "none" /\ UNCHANGED <<clock, sdk, charged, store>>
      /\ r.op # "authorize"
  BY DEF ReadRow, At
<1>2. Asks(r) /\ AgentRow(i)
  BY <1>1, Served DEF Asks
<1>3. ASSUME NEW name, name # "receipt", Answers(c, k, Error(name)) PROVE Inv'
  <2>1. Told(r, Error(name))
    BY <1>3, ErrorTold
  <2> QED BY <1>1, <1>3, <2>1, QuietAnswer
<1>4. CASE Answers(c, k, Receipt(i))
  <2>1. Told(r, Receipt(i))
    BY <1>1, <1>2, ReceiptTold
  <2> QED BY <1>1, <1>4, <2>1, QuietAnswer
<1>5. CASE Goes(c, k, [at |-> "lapsing"])
  <2>1. Handles(r, [at |-> "lapsing"])
    BY <1>1 DEF Handles
  <2> QED BY <1>1, <1>5, <2>1, QuietHandler
<1>6. CASE r.op = "execute" /\ agentMayActOn(i, r.agent) /\ ExecuteOn(c, k, i)
  <2>1. CASE authorizations[i].status \in EXECUTABLE_STATUSES /\ Goes(c, k, [at |-> "executable"])
    <3>1. Handles(r, [at |-> "executable"])
      BY <1>1, <1>6, <2>1 DEF Handles, agentMayActOn, Granted
    <3> QED BY <1>1, <2>1, <3>1, QuietHandler
  <2>2. CASE Answers(c, k, Error("not_executable"))
    BY <1>3, <2>2
  <2> QED BY <1>6, <2>1, <2>2 DEF ExecuteOn
<1>7. CASE ResolveOn(c, k, i)
  <2>1. CASE Approves(i, r.agent, r.mandate) /\ Goes(c, k, [at |-> "resolving", now |-> clock])
    <3>1. r.mandate \in Mandate /\ r.mandate # authorizations[i].mandate /\ clock \in Nat
      BY <1>2, <2>1 DEF Asks, Request, Approves, Inv, Shaped
    <3>2. Handles(r, [at |-> "resolving", now |-> clock])
      BY <1>1, <3>1 DEF Handles
    <3> QED BY <1>1, <2>1, <3>2, QuietHandler
  <2>2. CASE Answers(c, k, Error("step_up_resolution_rejected"))
    BY <1>3, <2>2
  <2>3. CASE Answers(c, k, Error("not_pending_step_up"))
    BY <1>3, <2>3
  <2>4. \/ Approves(i, r.agent, r.mandate) /\ Goes(c, k, [at |-> "resolving", now |-> clock])
        \/ Answers(c, k, Error("step_up_resolution_rejected"))
        \/ Answers(c, k, Error("not_pending_step_up"))
        \/ Answers(c, k, Receipt(i))
    <3>1. CASE authorizations[i].status = "PENDING_STEP_UP"
      BY <1>7, <3>1 DEF ResolveOn
    <3>2. CASE authorizations[i].status \in REPLAYABLE_STEP_UP_STATUSES
      BY <1>7, <3>2 DEF ResolveOn, REPLAYABLE_STEP_UP_STATUSES
    <3>3. CASE /\ authorizations[i].status # "PENDING_STEP_UP"
               /\ authorizations[i].status \notin REPLAYABLE_STEP_UP_STATUSES
      BY <1>7, <3>3 DEF ResolveOn
    <3> QED BY <3>1, <3>2, <3>3
  <2> QED BY <1>4, <2>1, <2>2, <2>3, <2>4
<1>8. CASE Answers(c, k, Error("not_found"))
  BY <1>3, <1>8
<1> QED
  <2>1. CASE ~SameOrg(i, r.agent) \/ (r.op # "resolveStepUp" /\ ~agentMayActOn(i, r.agent))
    BY <1>8, <2>1 DEF ReadRow
  <2>2. CASE /\ ~(~SameOrg(i, r.agent) \/ (r.op # "resolveStepUp" /\ ~agentMayActOn(i, r.agent)))
             /\ ~LapsedAt(i, clock)
    <3>1. \/ r.op = "execute" /\ ExecuteOn(c, k, i)
          \/ r.op = "resolveStepUp" /\ ResolveOn(c, k, i)
          \/ r.op = "verify" /\ Answers(c, k, Receipt(i))
      BY <2>2 DEF ReadRow
    <3> QED BY <1>4, <1>6, <1>7, <2>2, <3>1
  <2>3. CASE /\ ~(~SameOrg(i, r.agent) \/ (r.op # "resolveStepUp" /\ ~agentMayActOn(i, r.agent)))
             /\ LapsedAt(i, clock)
    BY <1>5, <2>3 DEF ReadRow
  <2> QED BY <2>1, <2>2, <2>3

\* An answered "no", or none in time, to a step-up of an agent.
LEMMA Refused ==
  ASSUME StoreSound, NEW i, AgentRow(i), NEW outcome \in {"EXPIRED", "STEP_UP_DECLINED"},
         NEW now, resolveStepUpAgainst(i, outcome, now), UNCHANGED charged
  PROVE  /\ Persist /\ StoreSound'
         /\ AgentRow(i)' /\ authorizations'[i].status = outcome
<1>1. /\ authorizations[i].status = "PENDING_STEP_UP" /\ SetStatus({i}, outcome)
      /\ UNCHANGED <<idempotencyIndex, charged>>
  BY DEF resolveStepUpAgainst, Pending
<1>2. /\ outcome \in Status /\ outcome # "EXECUTED"
      /\ Moves(authorizations[i].status, outcome)
  BY <1>1 DEF Status, Moves
<1> QED BY <1>1, <1>2, NewStatus

\* A lapsed step-up is expired by one handler; the others are told an error.
LEMMA ExpireKeeps ==
  ASSUME Inv, NEW c \in Call, NEW k \in Attempt, Expire(c, k)
  PROVE  Inv'
<1> DEFINE r == Req(c)
<1>1. /\ conn[c][k].at # "none" /\ conn[c][k].at = "lapsing"
      /\ UNCHANGED <<clock, revoked, sdk, charged>>
  BY DEF Expire, At
<1>2. Asks(r) /\ r.op # "authorize" /\ AgentRow(r.id)
  BY <1>1, Served DEF Asks, Handles
<1>3. CASE Answers(c, k, Error("internal_error")) /\ UNCHANGED store
  <2>1. Told(r, Error("internal_error"))
    BY ErrorTold
  <2> QED BY <1>1, <1>3, <2>1, QuietAnswer
<1>4. CASE Pending(r.id)
  <2>1. PICK i : i = r.id
    OBVIOUS
  <2>2. /\ resolveStepUpAgainst(i, "EXPIRED", clock)
        /\ Answers(c, k, IF r.op = "execute" THEN Error("not_executable")
                         ELSE [is |-> "receipt", id |-> i, status |-> "EXPIRED"])
    BY <1>4, <2>1 DEF Expire
  <2>3. Persist /\ StoreSound' /\ AgentRow(i)' /\ authorizations'[i].status = "EXPIRED"
    BY <1>1, <1>2, <2>1, <2>2, Refused DEF Inv
  <2>4. ASSUME NEW q, q = r PROVE Told(q, Error("not_executable"))'
    BY DEF Told, Error
  <2>5. ASSUME NEW q, q = r PROVE Told(q, [is |-> "receipt", id |-> i, status |-> "EXPIRED"])'
    BY <1>2, <2>3, <2>5, OutcomeTold
  <2>6. CASE Answers(c, k, Error("not_executable"))
    BY <1>1, <2>3, <2>4, <2>6, AnswerKeeps
  <2>7. CASE Answers(c, k, [is |-> "receipt", id |-> i, status |-> "EXPIRED"])
    BY <1>1, <2>3, <2>5, <2>7, AnswerKeeps
  <2> QED BY <2>2, <2>6, <2>7
<1> QED BY <1>3, <1>4 DEF Expire

\* A step-up is resolved by one handler; the others are told what it is.
LEMMA ResolveKeeps ==
  ASSUME Inv, NEW c \in Call, NEW k \in Attempt, Resolve(c, k)
  PROVE  Inv'
<1> DEFINE r == Req(c)
           Outcome(status) == Answers(c, k, [is |-> "receipt", id |-> r.id, status |-> status])
<1>1. /\ conn[c][k].at # "none" /\ conn[c][k].at = "resolving"
      /\ UNCHANGED <<clock, revoked, sdk, charged>>
  BY DEF Resolve, At
<1>2. Asks(r) /\ r.op # "authorize" /\ AgentRow(r.id)
  BY <1>1, Served DEF Asks, Handles
<1>3. CASE Answers(c, k, Receipt(r.id)) /\ UNCHANGED store
  <2>1. Told(r, Receipt(r.id))
    BY <1>2, ReceiptTold
  <2> QED BY <1>1, <1>3, <2>1, QuietAnswer
<1>4. ASSUME NEW i, i = r.id, NEW status, Persist, StoreSound', AgentRow(i)',
             authorizations'[i].status = status, Outcome(status)
      PROVE  Inv'
  <2>1. ASSUME NEW q, q = r PROVE Told(q, [is |-> "receipt", id |-> i, status |-> status])'
    BY <1>2, <1>4, <2>1, OutcomeTold
  <2>2. Answers(c, k, [is |-> "receipt", id |-> i, status |-> status])
    BY <1>4
  <2> QED BY <1>1, <1>4, <2>1, <2>2, AnswerKeeps
<1>5. ASSUME NEW outcome \in {"EXPIRED", "STEP_UP_DECLINED"}, NEW now,
             resolveStepUpAgainst(r.id, outcome, now), Outcome(outcome)
      PROVE  Inv'
  <2>1. PICK i : i = r.id
    OBVIOUS
  <2>2. Persist /\ StoreSound' /\ AgentRow(i)' /\ authorizations'[i].status = outcome
    BY <1>1, <1>2, <1>5, <2>1, Refused DEF Inv
  <2> QED BY <1>4, <1>5, <2>1, <2>2
<1>6. ASSUME NEW m, NEW now, resolveStepUpFor(r.id, m, now), Outcome("STEP_UP_APPROVED")
      PROVE  Inv'
  <2>1. PICK i : i = r.id
    OBVIOUS
  <2>2. /\ authorizations[i].status = "PENDING_STEP_UP" /\ SetStatus({i}, "STEP_UP_APPROVED")
        /\ UNCHANGED <<idempotencyIndex, charged>>
    BY <1>1, <1>6, <2>1 DEF resolveStepUpFor, Pending
  <2>3. "STEP_UP_APPROVED" \in Status /\ Moves(authorizations[i].status, "STEP_UP_APPROVED")
    BY <2>2 DEF Status, Moves
  <2>4. Persist /\ StoreSound' /\ AgentRow(i)' /\ authorizations'[i].status = "STEP_UP_APPROVED"
    BY <1>2, <2>1, <2>2, <2>3, NewStatus DEF Inv
  <2> QED BY <1>4, <1>6, <2>1, <2>4
<1>7. CASE Pending(r.id)
  <2>1. \/ \E now : resolveStepUpAgainst(r.id, "EXPIRED", now) /\ Outcome("EXPIRED")
        \/ \E now : resolveStepUpFor(r.id, r.mandate, now) /\ Outcome("STEP_UP_APPROVED")
        \/ \E now : resolveStepUpAgainst(r.id, "STEP_UP_DECLINED", now) /\ Outcome("STEP_UP_DECLINED")
    BY <1>7 DEF Resolve
  <2> QED BY <1>5, <1>6, <2>1
<1> QED BY <1>3, <1>7 DEF Resolve

\* The provider moves money of a row that was let through.
LEMMA ChargeKeeps ==
  ASSUME Inv, NEW c \in Call, NEW k \in Attempt, Charge(c, k)
  PROVE  Inv'
<1> DEFINE r == Req(c)
<1>1. /\ conn[c][k].at # "none" /\ conn[c][k].at = "executable"
      /\ UNCHANGED <<clock, revoked, sdk, store>>
  BY DEF Charge, At
<1>2. /\ Asks(r) /\ r.op # "authorize" /\ AgentRow(r.id)
      /\ authorizations[r.id].agent = r.agent /\ authorizations[r.id].status \in Granted
  BY <1>1, Served DEF Asks, Handles
<1>3. CASE Answers(c, k, Error("execution_rejected")) /\ UNCHANGED charged
  <2>1. Told(r, Error("execution_rejected"))
    BY ErrorTold
  <2> QED BY <1>1, <1>3, <2>1, QuietAnswer
<1>4. CASE charged' = charged \cup {r.id} /\ Goes(c, k, [at |-> "charged"])
  <2>1. UNCHANGED <<authorizations, idempotencyIndex>> /\ charged \subseteq charged'
    BY <1>1, <1>4 DEF store
  <2>2. Persist
    BY <2>1, QuietPersists
  <2>3. Ids' = Ids
    BY <2>1 DEF Ids
  <2>4. IndexSound'
    BY <2>1, <2>3, Zenon DEF Inv, StoreSound, IndexSound
  <2>5. ChargedSound'
    BY <1>2, <1>4, <2>1, <2>3 DEF Inv, StoreSound, ChargedSound, AgentRow, Granted
  <2>6. StoreSound'
    BY <2>1, <2>3, <2>4, <2>5 DEF Inv, StoreSound, WhoseRow
  <2>7. ASSUME NEW q, q = r PROVE Handles(q, [at |-> "charged"])'
    BY <1>2, <1>4, <2>1, <2>7 DEF Handles, Granted
  <2> QED BY <1>1, <1>4, <2>2, <2>6, <2>7, HandlerKeeps
<1> QED BY <1>3, <1>4 DEF Charge

\* The capture executes the row, or finds it executed.
LEMMA CaptureKeeps ==
  ASSUME Inv, NEW c \in Call, NEW k \in Attempt, Capture(c, k)
  PROVE  Inv'
<1> DEFINE r == Req(c)
<1>1. /\ conn[c][k].at # "none" /\ conn[c][k].at = "charged"
      /\ UNCHANGED <<clock, revoked, sdk, charged>>
      /\ recordExecution(r.id, clock)
      /\ Answers(c, k, [is |-> "receipt", id |-> r.id, status |-> "EXECUTED"])
  BY DEF Capture, At
<1>2. /\ Asks(r) /\ r.op # "authorize" /\ AgentRow(r.id) /\ r.id \in charged
  BY <1>1, Served DEF Asks, Handles
<1>3. PICK i : i = r.id
  OBVIOUS
<1>4. Persist /\ StoreSound' /\ AgentRow(i)' /\ authorizations'[i].status = "EXECUTED"
  <2>1. CASE authorizations[i].status = "EXECUTED" /\ UNCHANGED store
    <3>1. UNCHANGED <<authorizations, idempotencyIndex, charged>>
      BY <1>1, <2>1 DEF store
    <3>2. Persist /\ StoreSound'
      BY <3>1, QuietPersists, QuietStore DEF Inv
    <3> QED BY <1>2, <1>3, <2>1, <3>1, <3>2 DEF AgentRow, Ids
  <2>2. CASE /\ authorizations[i].status \in {"AUTHORIZED", "STEP_UP_APPROVED"}
             /\ SetStatus({i}, "EXECUTED") /\ UNCHANGED idempotencyIndex
    <3>1. "EXECUTED" \in Status /\ Moves(authorizations[i].status, "EXECUTED")
      BY <2>2 DEF Status, Moves, EXECUTABLE_STATUSES
    <3> QED BY <1>1, <1>2, <1>3, <2>2, <3>1, NewStatus DEF Inv
  <2> QED BY <1>1, <1>3, <2>1, <2>2 DEF recordExecution
<1>5. ASSUME NEW q, q = r PROVE Told(q, [is |-> "receipt", id |-> i, status |-> "EXECUTED"])'
  BY <1>2, <1>4, <1>5, OutcomeTold
<1> QED BY <1>1, <1>3, <1>4, <1>5, AnswerKeeps

----------------------------------------------------------------------------
(* The client's steps: one call moves, and the store stays.                 *)

\* One call moves at its caller, and what it knows is so.
LEMMA CallMoves ==
  ASSUME Inv, UNCHANGED <<clock, charged, store>>, NEW c \in Call, NEW s,
         sdk' = [sdk EXCEPT ![c] = s], s.at # "new", Asks(s.request),
         s.at \in {"waiting", "backoff"} => IsUnderway(s),
         s.at = "done" => Told(s.request, s.answer),
         \/ UNCHANGED conn
         \/ \E k \in Attempt : \E h : Goes(c, k, h) /\ h.at \in {"wire", "closed"},
         \A k \in Attempt : Handles(s.request, conn[c][k])
  PROVE  Inv'
<1>1. Persist
  BY QuietPersists DEF store
<1>2. StoreSound'
  BY QuietStore DEF Inv, store
<1>3. sdk' = [d \in Call |-> sdk'[d]] /\ sdk'[c] = s /\ \A d \in Call : d # c => sdk'[d] = sdk[d]
  <2>1. sdk = [d \in Call |-> sdk[d]]
    BY DEF Inv, Shaped
  <2>2. sdk' = [d \in Call |-> IF d = c THEN s ELSE sdk[d]]
    BY <2>1
  <2> QED BY <2>2
<1>4. /\ conn' = [d \in Call |-> [k \in Attempt |-> conn'[d][k]]]
      /\ \A d \in Call, k \in Attempt : d # c => conn'[d][k] = conn[d][k]
      /\ \A k \in Attempt : conn'[c][k] = conn[c][k] \/ conn'[c][k].at \in {"wire", "closed"}
  <2>1. CASE UNCHANGED conn
    BY <2>1 DEF Inv, Shaped
  <2>2. CASE \E k \in Attempt : \E h : Goes(c, k, h) /\ h.at \in {"wire", "closed"}
    <3>0. PICK k \in Attempt : \E h : Goes(c, k, h) /\ h.at \in {"wire", "closed"}
      BY <2>2
    <3>1. PICK h : Goes(c, k, h) /\ h.at \in {"wire", "closed"}
      BY <3>0
    <3>2. /\ conn'[c][k] = h
          /\ \A d \in Call, l \in Attempt : d # c \/ l # k => conn'[d][l] = conn[d][l]
          /\ conn' = [d \in Call |-> [l \in Attempt |-> conn'[d][l]]]
      BY <3>1, ShapeOf DEF Inv
    <3> QED BY <3>1, <3>2
  <2> QED BY <2>1, <2>2
<1>5. ASSUME NEW d \in Call, d # c PROVE CallSound(d)'
  BY <1>1, <1>3, <1>4, <1>5, CallStays DEF Inv
<1>6. CallSound(c)'
  <2>1. PICK r : r = s.request
    OBVIOUS
  <2>2. Asks(r)'
    BY <1>1, <2>1, AsksStays
  <2>3. \A a : a = s.answer /\ s.at = "done" => Told(r, a)'
    BY <1>1, <2>1, ToldStays
  <2>4. \A k \in Attempt : \A h : h = conn'[c][k] => Handles(r, h)'
    <3> SUFFICES ASSUME NEW k \in Attempt, NEW h, h = conn'[c][k] PROVE Handles(r, h)'
      OBVIOUS
    <3>1. CASE h.at \in {"wire", "closed"}
      BY <3>1 DEF Handles
    <3>2. CASE h = conn[c][k]
      BY <1>1, <2>1, <3>2, HandlesStays
    <3> QED BY <1>4, <3>1, <3>2
  <2>5. /\ sdk'[c].request = r /\ sdk'[c].at = s.at /\ sdk'[c].answer = s.answer
        /\ sdk'[c] = s
    BY <1>3, <2>1
  <2>6. /\ Asks(sdk[c].request)' /\ (sdk'[c].at = "done" => Told(sdk[c].request, sdk[c].answer)')
        /\ \A k \in Attempt : Handles(sdk[c].request, conn[c][k])'
    <3>1. Asks(sdk[c].request)'
      BY <2>2, <2>5
    <3>2. sdk'[c].at = "done" => Told(sdk[c].request, sdk[c].answer)'
      BY <2>3, <2>5
    <3>3. \A k \in Attempt : Handles(sdk[c].request, conn[c][k])'
      BY <2>4, <2>5
    <3> QED BY <3>1, <3>2, <3>3
  <2>7. /\ (sdk[c].at # "new")'
        /\ (sdk[c].at \in {"waiting", "backoff"} => IsUnderway(sdk[c]))'
    BY <2>5 DEF IsUnderway
  <2> QED BY <2>6, <2>7 DEF CallSound
<1>7. Shaped'
  BY <1>3, <1>4 DEF Inv, Shaped
<1> QED BY <1>2, <1>3, <1>5, <1>6, <1>7 DEF Inv

\* A call starts with its first attempt.
LEMMA StartKeeps ==
  ASSUME Inv, NEW c \in Call, sdk[c].at = "new", NEW r, Asks(r), Start(c, r)
  PROVE  Inv'
<1> DEFINE s == [at |-> "waiting", request |-> r, attempt |-> 1]
<1>1. sdk' = [sdk EXCEPT ![c] = s] /\ Goes(c, 1, [at |-> "wire"]) /\ UNCHANGED <<clock, charged, store>>
  BY DEF Start
<1>2. 1 \in Attempt
  BY ClientAssumption DEF Attempt
<1>3. s.at = "waiting" /\ s.request = r /\ s.attempt = 1 /\ IsUnderway(s)
  BY <1>2 DEF IsUnderway
<1>4. \A k \in Attempt : Handles(r, conn[c][k])
  <2>1. \A k \in Attempt : conn[c][k].at = "none"
    BY DEF Inv, CallSound
  <2> QED BY <2>1 DEF Handles
<1>5. \E k \in Attempt : \E h : Goes(c, k, h) /\ h.at \in {"wire", "closed"}
  <2>1. [at |-> "wire"].at = "wire"
    OBVIOUS
  <2> QED BY <1>1, <1>2, <2>1
<1> HIDE DEF s
<1> QED BY <1>1, <1>2, <1>3, <1>4, <1>5, CallMoves

\* What a client was told names an agent's row.
LEMMA GivenRow ==
  ASSUME Inv, NEW i, NEW d \in Given(i)
  PROVE  AgentRow(i)
<1>1. d \in Call /\ sdk[d].at = "done" /\ sdk[d].answer.is = "receipt" /\ sdk[d].answer.id = i
  BY DEF Given
<1>2. Told(sdk[d].request, sdk[d].answer)
  BY <1>1 DEF Inv, CallSound
<1> QED BY <1>1, <1>2 DEF Told

\* A row's mandate is one.
LEMMA MandateOfRow ==
  ASSUME Inv, NEW i \in Ids
  PROVE  authorizations[i].mandate \in Mandate /\ i \in Nat
<1>1. authorizations \in Seq(RowType)
  BY DEF Inv, StoreSound
<1>2. authorizations[i] \in RowType /\ i \in Nat
  BY <1>1 DEF Ids
<1> QED BY <1>2 DEF RowType

\* Each of the four calls asks for a key, or for a row its caller was told of.
LEMMA CallStarts ==
  ASSUME Inv, NEW c \in Call, authorize(c) \/ execute(c) \/ resolveStepUp(c) \/ verify(c)
  PROVE  Inv'
<1>1. CASE authorize(c)
  <2>1. PICK q \in Askers[c], n \in Amount, k \in Carries[c] :
          /\ MayStart(c, "authorize")
          /\ Start(c, [op |-> "authorize", agent |-> q[1], mandate |-> q[2], amount |-> n,
                       key |-> k, id |-> 0])
    BY <1>1 DEF authorize
  <2>2. k \in Key /\ q[1] \in Agent /\ q[2] \in Mandate
    <3>1. Carries[c] \in SUBSET Key /\ Askers[c] \in SUBSET (Agent \X Mandate)
      BY ClientAssumption
    <3> QED BY <3>1
  <2>3. Asks([op |-> "authorize", agent |-> q[1], mandate |-> q[2], amount |-> n, key |-> k, id |-> 0])
    BY <2>2 DEF Asks, Request
  <2> QED BY <2>1, <2>3, StartKeeps DEF MayStart
<1>2. ASSUME NEW op \in {"execute", "resolveStepUp", "verify"}, NEW a \in Agent, NEW i \in Ids,
             AgentRow(i), NEW m \in Mandate, sdk[c].at = "new",
             Start(c, [op |-> op, agent |-> a, mandate |-> m, amount |-> 0, key |-> NoKey, id |-> i])
      PROVE  Inv'
  <2>1. i \in Nat
    BY MandateOfRow
  <2>2. Asks([op |-> op, agent |-> a, mandate |-> m, amount |-> 0, key |-> NoKey, id |-> i])
    BY <1>2, <2>1 DEF Asks, Request
  <2> QED BY <1>2, <2>2, StartKeeps
<1>3. CASE execute(c)
  <2>1. PICK a \in Agent, i \in Ids :
          /\ MayStart(c, "execute") /\ Given(i) # {}
          /\ Start(c, [op |-> "execute", agent |-> a, mandate |-> authorizations[i].mandate,
                       amount |-> 0, key |-> NoKey, id |-> i])
    BY <1>3 DEF execute
  <2>2. AgentRow(i) /\ authorizations[i].mandate \in Mandate /\ sdk[c].at = "new"
    BY <2>1, GivenRow, MandateOfRow DEF MayStart
  <2> QED BY <1>2, <2>1, <2>2
<1>4. CASE resolveStepUp(c)
  <2>1. PICK m \in Mandate, i \in Ids :
          /\ MayStart(c, "resolveStepUp") /\ Given(i) # {}
          /\ Start(c, [op |-> "resolveStepUp", agent |-> AgentOf[m], mandate |-> m,
                       amount |-> 0, key |-> NoKey, id |-> i])
    BY <1>4 DEF resolveStepUp
  <2>2. AgentRow(i) /\ AgentOf[m] \in Agent /\ sdk[c].at = "new"
    BY <2>1, GivenRow, StoreAssumption DEF MayStart
  <2> QED BY <1>2, <2>1, <2>2
<1>5. CASE verify(c)
  <2>1. PICK a \in Agent, i \in Ids :
          /\ MayStart(c, "verify") /\ Given(i) # {}
          /\ Start(c, [op |-> "verify", agent |-> a, mandate |-> authorizations[i].mandate,
                       amount |-> 0, key |-> NoKey, id |-> i])
    BY <1>5 DEF verify
  <2>2. AgentRow(i) /\ authorizations[i].mandate \in Mandate /\ sdk[c].at = "new"
    BY <2>1, GivenRow, MandateOfRow DEF MayStart
  <2> QED BY <1>2, <2>1, <2>2
<1> QED BY <1>1, <1>3, <1>4, <1>5

\* A call that waits or pauses, as its caller has it.
LEMMA CallOf ==
  ASSUME Inv, NEW c \in Call, sdk[c].at \in {"waiting", "backoff"}
  PROVE  /\ Asks(sdk[c].request) /\ \A k \in Attempt : Handles(sdk[c].request, conn[c][k])
         /\ sdk[c].at = "waiting" => sdk[c].attempt \in Attempt
         /\ sdk[c].at = "backoff" => sdk[c].attempt + 1 \in Attempt
BY DEF Inv, CallSound, IsUnderway

\* A call ends with what it was told, or with an error.
LEMMA AnsweredKeeps ==
  ASSUME Inv, NEW c \in Call, sdk[c].at = "waiting", NEW answer, Answered(c, answer),
         Told(sdk[c].request, answer),
         \/ UNCHANGED conn
         \/ Goes(c, sdk[c].attempt, [at |-> "closed"]),
         UNCHANGED <<clock, charged, store>>
  PROVE  Inv'
<1> DEFINE s == [at |-> "done", request |-> sdk[c].request, answer |-> mapError(answer)]
<1>1. sdk' = [sdk EXCEPT ![c] = s]
  BY DEF Answered
<1>2. s.at = "done" /\ s.request = sdk[c].request /\ s.answer = mapError(answer)
  OBVIOUS
<1>3. Told(sdk[c].request, mapError(answer))
  <2>1. Told(sdk[c].request, Thrown)
    BY DEF Told, Thrown, Error
  <2> QED BY <2>1 DEF mapError
<1>4. /\ Asks(sdk[c].request) /\ sdk[c].attempt \in Attempt
      /\ \A k \in Attempt : Handles(sdk[c].request, conn[c][k])
  BY CallOf
<1>5. \/ UNCHANGED conn
      \/ \E k \in Attempt : \E h : Goes(c, k, h) /\ h.at \in {"wire", "closed"}
  <2>1. [at |-> "closed"].at = "closed"
    OBVIOUS
  <2> QED BY <1>4, <2>1
<1> HIDE DEF s
<1> QED BY <1>1, <1>2, <1>3, <1>4, <1>5, CallMoves

\* An answer, a broken connection, a cut body, a retry.
LEMMA ClientKeeps ==
  ASSUME Inv, NEW c \in Call, ClientStep(c)
  PROVE  Inv'
<1> DEFINE r == sdk[c].request
           k == sdk[c].attempt
<1>1. UNCHANGED <<clock, charged, store>>
  BY DEF ClientStep, Receive, Break, CutBody, Retry
<1>2. Told(r, Thrown)
  BY DEF Told, Thrown, Error
<1>3. CASE Receive(c)
  <2>1. /\ sdk[c].at = "waiting" /\ conn[c][k].at = "answered" /\ Answered(c, conn[c][k].answer)
        /\ Goes(c, k, [at |-> "closed"])
    BY <1>3 DEF Receive, Goes
  <2>2. Told(r, conn[c][k].answer)
    <3>1. k \in Attempt /\ Handles(r, conn[c][k])
      BY <2>1, CallOf
    <3> QED BY <2>1, <3>1 DEF Handles
  <2> QED BY <1>1, <2>1, <2>2, AnsweredKeeps
<1>4. CASE Break(c)
  <2>1. /\ sdk[c].at = "waiting"
        /\ UNCHANGED conn \/ Goes(c, k, [at |-> "closed"])
    BY <1>4 DEF Break
  <2>2. CASE Answered(c, Thrown)
    BY <1>1, <1>2, <2>1, <2>2, AnsweredKeeps
  <2>3. CASE Retries(c) /\ sdk' = [sdk EXCEPT ![c] = [at |-> "backoff", request |-> r, attempt |-> k]]
    <3> DEFINE s == [at |-> "backoff", request |-> r, attempt |-> k]
    <3>1. /\ Asks(r) /\ k \in Attempt /\ \A l \in Attempt : Handles(r, conn[c][l])
      BY <2>1, CallOf
    <3>2. k + 1 \in Attempt
      BY <2>3, <3>1, ClientAssumption DEF Retries, Attempt
    <3>3. sdk' = [sdk EXCEPT ![c] = s]
      BY <2>3
    <3>4. s.at = "backoff" /\ s.request = r /\ IsUnderway(s)
      BY <3>2 DEF IsUnderway
    <3>5. \/ UNCHANGED conn
          \/ \E l \in Attempt : \E h : Goes(c, l, h) /\ h.at \in {"wire", "closed"}
      <4>1. [at |-> "closed"].at = "closed"
        OBVIOUS
      <4> QED BY <2>1, <3>1, <4>1
    <3> HIDE DEF s
    <3> QED BY <1>1, <3>1, <3>2, <3>3, <3>4, <3>5, CallMoves
  <2> QED BY <1>4, <2>2, <2>3 DEF Break
<1>5. CASE CutBody(c)
  <2>1. /\ sdk[c].at = "waiting" /\ Answered(c, Thrown) /\ Goes(c, k, [at |-> "closed"])
    BY <1>5 DEF CutBody, Goes
  <2> QED BY <1>1, <1>2, <2>1, AnsweredKeeps
<1>6. CASE Retry(c)
  <2> DEFINE s == [at |-> "waiting", request |-> r, attempt |-> k + 1]
  <2>1. sdk[c].at = "backoff" /\ sdk' = [sdk EXCEPT ![c] = s] /\ Goes(c, k + 1, [at |-> "wire"])
    BY <1>6 DEF Retry
  <2>2. Asks(r) /\ k + 1 \in Attempt /\ \A l \in Attempt : Handles(r, conn[c][l])
    BY <2>1, CallOf
  <2>3. s.at = "waiting" /\ s.request = r /\ IsUnderway(s)
    BY <2>2 DEF IsUnderway
  <2>4. \E l \in Attempt : \E h : Goes(c, l, h) /\ h.at \in {"wire", "closed"}
    <3>1. [at |-> "wire"].at = "wire"
      OBVIOUS
    <3> QED BY <2>1, <2>2, <3>1
  <2> HIDE DEF s
  <2> QED BY <1>1, <2>1, <2>2, <2>3, <2>4, CallMoves
<1> QED BY <1>3, <1>4, <1>5, <1>6 DEF ClientStep

----------------------------------------------------------------------------
(* The card rail's writes: rows of its own, and only those.                 *)

\* A step at the store alone.
LEMMA StoreMoves ==
  ASSUME Inv, Persist, StoreSound', UNCHANGED <<clock, sdk, conn>>
  PROVE  Inv'
<1>1. \A c \in Call : CallSound(c)'
  BY CallStays DEF Inv
<1> QED BY <1>1 DEF Inv, Shaped

\* A card's row is saved under no key and for no agent.
LEMMA CardRowSaved ==
  ASSUME Inv, NEW card \in Card, NEW m \in Mandate, NEW status \in Status, NEW n \in Amount,
         NEW revision \in Int, NEW entries, UNCHANGED charged,
         saveAuthorization(CardRow(m, card, status, n, revision), entries)
  PROVE  Persist /\ StoreSound'
<1> DEFINE row == CardRow(m, card, status, n, revision)
<1>1. /\ OrgOf[AgentOf[m]] \in Org /\ n \in Nat /\ card # NoCard /\ clock \in Nat
  <2>1. AgentOf[m] \in Agent
    BY StoreAssumption
  <2>2. OrgOf[AgentOf[m]] \in Org
    BY <2>1, StoreAssumption
  <2>3. n \in Nat
    BY ClientAssumption
  <2> QED BY <2>2, <2>3, CardsAreNot DEF Inv, Shaped
<1>2. row \in RowType
  BY <1>1 DEF CardRow, RowType
<1>3. row.card = card /\ row.agent = NoAgent /\ row.key = NoKey
  BY DEF CardRow
<1> HIDE DEF row
<1>4. WhoseRow(row) /\ (row.card = NoCard => row.status # "EXECUTED")
  BY <1>1, <1>3 DEF WhoseRow
<1>5. StoreSound /\ saveAuthorization(row, entries)
  BY DEF Inv, row
<1> QED BY <1>2, <1>4, <1>5, SaveKeeps

\* The statuses of card rows are no agent's.
LEMMA CardRowsSet ==
  ASSUME Inv, NEW card \in Card, NEW m, NEW S \in SUBSET listByExternalRef(m, card),
         NEW status \in Status, SetStatus(S, status), UNCHANGED <<idempotencyIndex, charged>>
  PROVE  Persist /\ StoreSound'
<1>1. \A i \in S : ~AgentRow(i)
  BY CardsAreNot DEF listByExternalRef, AgentRow
<1> QED BY <1>1, StatusKeeps DEF Inv

\* The card network's events leave agents' rows alone.
LEMMA CardKeeps ==
  ASSUME Inv, CardEvent
  PROVE  Inv'
<1>1. UNCHANGED <<clock, revoked, sdk, conn, charged>>
  BY DEF CardEvent
<1>2. "AUTHORIZED" \in Status /\ "DENIED" \in Status /\ "EXECUTED" \in Status /\ "EXPIRED" \in Status
  BY DEF Status
<1>3. ASSUME NEW card \in Card, NEW m \in Mandate, CardAsk(m, card)
      PROVE  Persist /\ StoreSound'
  <2>1. Cardinality(listByExternalRef(m, card)) \in Int
    <3>1. Len(authorizations) \in Nat /\ Ids = 1..Len(authorizations)
      BY DEF Inv, StoreSound, Ids
    <3>2. IsFiniteSet(listByExternalRef(m, card))
      <4>1. IsFiniteSet(Ids)
        BY <3>1, FS_Interval
      <4>2. listByExternalRef(m, card) \subseteq Ids
        BY DEF listByExternalRef
      <4> QED BY <4>1, <4>2, FS_Subset
    <3> QED BY <3>2, FS_CardinalityType
  <2>2. PICK n \in Amount, status \in {"AUTHORIZED", "DENIED"} : \E entries :
          saveAuthorization(CardRow(m, card, status, n, Cardinality(listByExternalRef(m, card))), entries)
    BY <1>3, Zenon DEF CardAsk
  <2> QED BY <1>1, <1>2, <2>1, <2>2, CardRowSaved
<1>4. ASSUME NEW card \in Card, NEW m \in Mandate, CardUnasked(m, card)
      PROVE  Persist /\ StoreSound'
  <2>1. PICK n \in Amount : \E entries :
          saveAuthorization(CardRow(m, card, "EXECUTED", n, -1), entries)
    BY <1>4 DEF CardUnasked
  <2>2. -1 \in Int
    OBVIOUS
  <2> QED BY <1>1, <1>2, <2>1, <2>2, CardRowSaved
<1>5. ASSUME NEW card \in Card, NEW m \in Mandate, CardSettle(m, card)
      PROVE  Persist /\ StoreSound'
  <2>1. SetStatus(listByExternalRef(m, card), "EXECUTED") /\ UNCHANGED idempotencyIndex
    BY <1>5 DEF CardSettle, settleExternalAuthorization
  <2> QED BY <1>1, <1>2, <2>1, CardRowsSet
<1>6. ASSUME NEW card \in Card, NEW m \in Mandate, CardRelease(m, card)
      PROVE  Persist /\ StoreSound'
  <2> DEFINE S == {i \in listByExternalRef(m, card) :
                     authorizations[i].status \in {"AUTHORIZED", "STEP_UP_APPROVED"}}
  <2>1. SetStatus(S, "EXPIRED") /\ UNCHANGED idempotencyIndex
    BY <1>6 DEF CardRelease, releaseExternalAuthorization
  <2>2. S \in SUBSET listByExternalRef(m, card)
    OBVIOUS
  <2> HIDE DEF S
  <2> QED BY <1>1, <1>2, <2>1, <2>2, CardRowsSet
<1>7. ASSUME NEW i, Refund(i)
      PROVE  Persist /\ StoreSound'
  <2>1. UNCHANGED <<authorizations, idempotencyIndex, charged>>
    BY <1>1, <1>7 DEF Refund, recordRefund
  <2> QED BY <2>1, QuietPersists, QuietStore DEF Inv
<1>8. \A card \in Card : MandateOf[card] \in Mandate
  BY ClientAssumption
<1>9. Persist /\ StoreSound'
  BY <1>3, <1>4, <1>5, <1>6, <1>7, <1>8 DEF CardEvent
<1> QED BY <1>1, <1>9, StoreMoves

----------------------------------------------------------------------------
(* The invariant holds of every reachable state.                            *)

\* Nothing was asked, said or saved.
LEMMA Initially ==
  ASSUME Init
  PROVE  Inv
<1>1. authorizations = <<>> /\ Ids = {} /\ charged = {} /\ clock = 0
  BY DEF Init, StoreInit, Ids
<1>2. authorizations \in Seq(RowType)
  BY <1>1
<1>3. IndexSound
  <2>1. idempotencyIndex = [claim \in Org \X Key |-> 0]
    BY DEF Init, StoreInit
  <2> QED BY <1>1, <2>1 DEF IndexSound
<1>4. ChargedSound
  BY <1>1 DEF ChargedSound
<1>5. /\ sdk = [c \in Call |-> sdk[c]] /\ conn = [c \in Call |-> [k \in Attempt |-> conn[c][k]]]
      /\ \A c \in Call : CallSound(c)
  <2>1. /\ sdk = [c \in Call |-> [at |-> "new"]]
        /\ conn = [c \in Call |-> [k \in Attempt |-> [at |-> "none"]]]
    BY DEF Init
  <2>2. \A c \in Call : sdk[c].at = "new" /\ \A k \in Attempt : conn[c][k].at = "none"
    BY <2>1
  <2> QED BY <2>1, <2>2 DEF CallSound
<1> QED BY <1>1, <1>2, <1>3, <1>4, <1>5 DEF Inv, Shaped, StoreSound

\* Every step of the client, the handlers, the card network and the clock.
LEMMA NextKeeps ==
  ASSUME Inv, [Next]_vars
  PROVE  Inv'
<1>1. CASE \E c \in Call : authorize(c) \/ execute(c) \/ resolveStepUp(c) \/ verify(c)
  BY <1>1, CallStarts
<1>2. CASE \E c \in Call : ClientStep(c)
  BY <1>2, ClientKeeps
<1>3. CASE \E c \in Call, k \in Attempt : Handle(c, k)
  <2>1. PICK c \in Call, k \in Attempt : Handle(c, k)
    BY <1>3
  <2> QED BY <2>1, AuthenticateKeeps, GateKeeps, DecideKeeps, ReadKeeps, ExpireKeeps,
             ResolveKeeps, ChargeKeeps, CaptureKeeps DEF Handle
<1>4. CASE CardEvent
  BY <1>4, CardKeeps
<1>5. CASE \/ \E a \in Agent : RevokeKey(a)
           \/ Tick
           \/ UNCHANGED vars
  <2>1. UNCHANGED <<sdk, conn, charged, store>>
    BY <1>5 DEF RevokeKey, Tick, vars
  <2>2. Persist /\ StoreSound'
    BY <2>1, QuietPersists, QuietStore DEF Inv, store
  <2>3. \A c \in Call : CallSound(c)'
    BY <2>1, <2>2, CallStays DEF Inv
  <2>4. clock' \in Nat
    <3>1. clock \in Nat
      BY DEF Inv, Shaped
    <3> QED BY <1>5, <3>1 DEF RevokeKey, Tick, vars
  <2> QED BY <2>1, <2>2, <2>3, <2>4 DEF Inv, Shaped
<1> QED BY <1>1, <1>2, <1>3, <1>4, <1>5 DEF Next

\* Whatever is lost, repeated or handled at once, for every number of calls and
\* attempts: receipts and what handlers remember are so, and the idempotency index
\* and the rows name each other (findByIdempotencyKey, resolveStepUp, recordExecution).
THEOREM Invariance == Spec => []Inv
BY Initially, NextKeeps, PTL DEF Spec

----------------------------------------------------------------------------
(* What follows.                                                            *)

\* What is charged in a step is the row of a handler that was let through to it.
LEMMA ChargedNow ==
  ASSUME Inv, Next, NEW i \in charged' \ charged
  PROVE  \E c \in Call, k \in Attempt :
           /\ conn[c][k].at = "executable" /\ sdk[c].request.id = i
           /\ sdk[c].request.agent = authorizations[i].agent
<1>1. PICK c \in Call, k \in Attempt : Charge(c, k)
  <2>1. charged' # charged
    OBVIOUS
  <2>2. ASSUME NEW c \in Call, authorize(c) \/ execute(c) \/ resolveStepUp(c) \/ verify(c)
        PROVE  UNCHANGED charged
    BY <2>2 DEF authorize, execute, resolveStepUp, verify, Start
  <2>3. ASSUME NEW c \in Call, ClientStep(c) PROVE UNCHANGED charged
    BY <2>3 DEF ClientStep, Receive, Break, CutBody, Retry
  <2>4. ASSUME CardEvent \/ (\E a \in Agent : RevokeKey(a)) \/ Tick PROVE UNCHANGED charged
    BY <2>4 DEF CardEvent, RevokeKey, Tick
  <2>5. ASSUME NEW c \in Call, NEW k \in Attempt, Handle(c, k), ~Charge(c, k)
        PROVE  UNCHANGED charged
    BY <2>5 DEF Handle, Authenticate, AuthorizeGate, AuthorizeDecide, ReadRow, Expire, Resolve,
                Capture
  <2>6. \E c \in Call, k \in Attempt : Handle(c, k)
    BY <2>1, <2>2, <2>3, <2>4 DEF Next
  <2> QED BY <2>1, <2>5, <2>6
<1>2. conn[c][k].at = "executable" /\ i = sdk[c].request.id
  BY <1>1 DEF Charge, At, Req
<1>3. Handles(Req(c), conn[c][k])
  BY <1>2, Served
<1> QED BY <1>2, <1>3 DEF Handles, Req

\* Money moves only at the request of the agent it was decided for: between the
\* handler's reading of the row and the provider's answer nothing can turn the
\* row into another's (agentMayActOn, D-78).
THEOREM ChargesAreTheAgents == Spec => ChargedByItsAgent
<1>1. Inv /\ [Next]_vars =>
        [\A i \in charged' \ charged :
           \E c \in Call, k \in Attempt :
             /\ conn[c][k].at = "executable" /\ sdk[c].request.id = i
             /\ sdk[c].request.agent = authorizations[i].agent]_vars
  BY ChargedNow
<1> QED BY <1>1, Invariance, PTL DEF Spec, ChargedByItsAgent

\* The index names one row per key, so two rows of one key are one.
LEMMA OneRowEach ==
  ASSUME Inv
  PROVE  OneDecisionPerCall
<1> SUFFICES ASSUME NEW c \in Call, sdk[c].at # "new", sdk[c].request.op = "authorize",
                    NEW r, r = sdk[c].request, NEW rows,
                    rows = {i \in Ids : authorizations[i].key = r.key /\ SameOrg(i, r.agent)}
             PROVE  /\ Cardinality(rows) <= 1
                    /\ sdk[c].at = "done" /\ sdk[c].answer.is = "receipt" =>
                         \E i \in rows : sdk[c].answer.id = i /\ SameRequest(i, r)
  BY DEF OneDecisionPerCall
<1>1. Asks(r) /\ (sdk[c].at = "done" => Told(r, sdk[c].answer))
  BY DEF Inv, CallSound
<1>2. r.key \in Key /\ r.key # NoKey
  BY <1>1, StoreAssumption DEF Asks
<1>3. Cardinality(rows) <= 1
  <2> DEFINE the == idempotencyIndex[<<OrgOf[r.agent], r.key>>]
  <2>1. \A i \in rows : i = the
    BY <1>2 DEF Inv, StoreSound, IndexSound, SameOrg
  <2>2. rows \subseteq {the}
    BY <2>1
  <2>3. IsFiniteSet({the}) /\ Cardinality({the}) = 1
    BY FS_Singleton
  <2>4. Cardinality(rows) <= Cardinality({the})
    BY <2>2, <2>3, FS_Subset
  <2> QED BY <2>3, <2>4
<1>4. sdk[c].at = "done" /\ sdk[c].answer.is = "receipt" =>
        \E i \in rows : sdk[c].answer.id = i /\ SameRequest(i, r)
  BY <1>1 DEF Told, AgentRow
<1> QED BY <1>3, <1>4

\* However often the SDK repeats a request, and whichever of its attempts are
\* handled, its call leaves one row and is answered with that one: the index and
\* the rows name each other, so no interleaving of the lookup before the lock
\* and the one under it can save a second (saveAuthorization).
THEOREM CallsAreDecidedOnce == Spec => []OneDecisionPerCall
BY Invariance, OneRowEach, PTL

\* An answer that stands is what AnswersStand says of it.
LEMMA AnswersAreSo ==
  ASSUME Inv
  PROVE  AnswersStand
<1> SUFFICES ASSUME NEW i \in Ids, NEW c \in Given(i)
             PROVE  /\ sdk[c].answer.status \in EXECUTABLE_STATUSES =>
                         authorizations[i].status \in EXECUTABLE_STATUSES \cup {"EXECUTED"}
                    /\ sdk[c].answer.status \in {"DENIED", "STEP_UP_DECLINED", "EXPIRED"} => i \notin charged
                    /\ sdk[c].answer.status = "EXECUTED" => i \in charged
  BY DEF AnswersStand
<1>1. c \in Call /\ sdk[c].at = "done" /\ sdk[c].answer.is = "receipt" /\ sdk[c].answer.id = i
  BY DEF Given
<1>2. AgentRow(i) /\ Stands(i, sdk[c].answer.status)
  BY <1>1 DEF Inv, CallSound, Told
<1>3. i \in charged => authorizations[i].status \in Granted
  BY DEF Inv, StoreSound, ChargedSound
<1>4. authorizations[i].status = "EXECUTED" => i \in charged
  BY <1>2 DEF Inv, StoreSound, ChargedSound
<1> QED BY <1>2, <1>3, <1>4 DEF Stands, Granted, EXECUTABLE_STATUSES

\* What a client was told is never taken back: after a yes the row stays spendable
\* or was spent, after a no its money never moves, although the handlers of several
\* clients act on one row at once (asExecutable, first writer wins).
THEOREM AnswersAreKept == Spec => []AnswersStand
BY Invariance, AnswersAreSo, PTL

----------------------------------------------------------------------------
(* The ledger: what one more row changes.                                   *)

\* A sum of ledger rows is a number.
LEMMA SumType ==
  ASSUME NEW q \in Seq(EntryType), NEW S
  PROVE  SumOf(q, S) \in Int
<1> DEFINE f == [n \in DOMAIN q |-> IF n \in S THEN q[n].amount ELSE 0]
<1>1. Len(q) \in Nat /\ DOMAIN q = 1..Len(q) /\ \A n \in DOMAIN q : q[n] \in EntryType
  OBVIOUS
<1>2. \A n \in DOMAIN q : q[n].amount \in Int
  BY <1>1 DEF EntryType
<1>3. f \in [1..Len(q) -> Int]
  BY <1>1, <1>2
<1>4. Total(f, Len(q)) \in Int
  <2> HIDE DEF f
  <2> QED BY <1>1, <1>3, TotalInt
<1> QED BY <1>4 DEF SumOf

\* One ledger row more adds its amount to the sums it belongs to.
LEMMA SumAppend ==
  ASSUME NEW q \in Seq(EntryType), NEW e \in EntryType, NEW S, NEW T,
         \A n \in DOMAIN q : n \in T <=> n \in S
  PROVE  SumOf(Append(q, e), T) = SumOf(q, S) + (IF Len(q) + 1 \in T THEN e.amount ELSE 0)
<1> DEFINE N == Len(q)
           p == Append(q, e)
           f == [n \in DOMAIN q |-> IF n \in S THEN q[n].amount ELSE 0]
           g == [n \in DOMAIN p |-> IF n \in T THEN p[n].amount ELSE 0]
<1>1. /\ N \in Nat /\ DOMAIN q = 1..N /\ DOMAIN p = 1..(N + 1) /\ Len(p) = N + 1
      /\ \A n \in 1..N : p[n] = q[n]
      /\ p[N + 1] = e
  OBVIOUS
<1>2. (\A n \in DOMAIN q : q[n].amount \in Int) /\ e.amount \in Int
  <2>1. \A n \in DOMAIN q : q[n] \in EntryType
    OBVIOUS
  <2> QED BY <2>1 DEF EntryType
<1>3. f \in [1..N -> Int]
  BY <1>1, <1>2
<1>4. g \in [1..(N + 1) -> Int]
  <2>1. \A n \in 1..(N + 1) : p[n].amount \in Int
    <3>1. \A n \in 1..(N + 1) : n \in 1..N \/ n = N + 1
      BY <1>1
    <3> QED BY <1>1, <1>2, <3>1
  <2> QED BY <1>1, <2>1
<1>5. \A n \in 1..N : g[n] = f[n]
  BY <1>1
<1>6. g[N + 1] = IF N + 1 \in T THEN e.amount ELSE 0
  BY <1>1
<1>7. Total(g, N + 1) = Total(f, N) + g[N + 1]
  <2> HIDE DEF f, g, N, p
  <2> QED BY <1>1, <1>3, <1>4, <1>5, TotalExtends
<1>8. SumOf(p, T) = Total(g, N + 1) /\ SumOf(q, S) = Total(f, N)
  BY <1>1 DEF SumOf
<1> HIDE DEF f, g, N, p
<1> QED BY <1>6, <1>7, <1>8, Zenon DEF N, p

\* One more row, and what is held, captured and credited.
LEMMA OneMore ==
  ASSUME NEW q \in Seq(EntryType), NEW e \in EntryType, NEW m
  PROVE  /\ HoldIn(q, m) \in Int /\ CapturedIn(q) \in Int /\ CreditedIn(q) \in Int
         /\ HoldIn(Append(q, e), m) = HoldIn(q, m)
              + (IF e.mandate = m /\ e.type \in {RESERVATION, RELEASE} THEN e.amount ELSE 0)
         /\ CapturedIn(Append(q, e)) = CapturedIn(q) + (IF e.type = CAPTURE THEN e.amount ELSE 0)
         /\ CreditedIn(Append(q, e)) = CreditedIn(q) - (IF e.type = CREDIT THEN e.amount ELSE 0)
         /\ Reserves(Append(q, e), m) <=> Reserves(q, m) \/ (e.type = RESERVATION /\ e.mandate = m)
<1> DEFINE p == Append(q, e)
           H(s) == {n \in DOMAIN s : s[n].mandate = m /\ s[n].type \in {RESERVATION, RELEASE}}
           C(s) == {n \in DOMAIN s : s[n].type = CAPTURE}
           D(s) == {n \in DOMAIN s : s[n].type = CREDIT}
<1>1. /\ Len(q) \in Nat /\ DOMAIN q = 1..Len(q) /\ DOMAIN p = 1..(Len(q) + 1)
      /\ \A n \in DOMAIN q : p[n] = q[n]
      /\ p[Len(q) + 1] = e /\ e.amount \in Int
  BY DEF EntryType
<1>2. (\A n \in DOMAIN q : n \in DOMAIN p) /\ Len(q) + 1 \in DOMAIN p
  BY <1>1
<1>3. /\ \A n \in DOMAIN q : n \in H(p) <=> n \in H(q)
      /\ Len(q) + 1 \in H(p) <=> e.mandate = m /\ e.type \in {RESERVATION, RELEASE}
  BY <1>1, <1>2
<1>4. /\ \A n \in DOMAIN q : n \in C(p) <=> n \in C(q)
      /\ Len(q) + 1 \in C(p) <=> e.type = CAPTURE
  BY <1>1, <1>2
<1>5. /\ \A n \in DOMAIN q : n \in D(p) <=> n \in D(q)
      /\ Len(q) + 1 \in D(p) <=> e.type = CREDIT
  BY <1>1, <1>2
<1>6. /\ SumOf(q, H(q)) \in Int /\ SumOf(q, C(q)) \in Int /\ SumOf(q, D(q)) \in Int
  BY SumType
<1>7. SumOf(p, H(p)) = SumOf(q, H(q))
        + (IF e.mandate = m /\ e.type \in {RESERVATION, RELEASE} THEN e.amount ELSE 0)
  <2> HIDE DEF H
  <2> QED BY <1>3, SumAppend
<1>8. SumOf(p, C(p)) = SumOf(q, C(q)) + (IF e.type = CAPTURE THEN e.amount ELSE 0)
  <2> HIDE DEF C
  <2> QED BY <1>4, SumAppend
<1>9. SumOf(p, D(p)) = SumOf(q, D(q)) + (IF e.type = CREDIT THEN e.amount ELSE 0)
  <2> HIDE DEF D
  <2> QED BY <1>5, SumAppend
<1>10. Reserves(p, m) <=> Reserves(q, m) \/ (e.type = RESERVATION /\ e.mandate = m)
  <2>1. \A n \in DOMAIN p : n \in DOMAIN q \/ n = Len(q) + 1
    BY <1>1
  <2> QED BY <1>1, <1>2, <2>1 DEF Reserves
<1>11. /\ HoldIn(q, m) = SumOf(q, H(q)) /\ HoldIn(p, m) = SumOf(p, H(p))
       /\ CapturedIn(q) = SumOf(q, C(q)) /\ CapturedIn(p) = SumOf(p, C(p))
       /\ CreditedIn(q) = -SumOf(q, D(q)) /\ CreditedIn(p) = -SumOf(p, D(p))
  BY DEF HoldIn, CapturedIn, CreditedIn
<1>12. \A a, b, c \in Int : a = b + c => -a = -b - c
  OBVIOUS
<1>13. -SumOf(p, D(p)) = -SumOf(q, D(q)) - (IF e.type = CREDIT THEN e.amount ELSE 0)
  <2> HIDE DEF D
  <2> QED BY <1>1, <1>6, <1>9
<1> HIDE DEF H, C, D, p
<1> QED BY <1>6, <1>7, <1>8, <1>10, <1>11, <1>13 DEF p

\* No rows, no money.
LEMMA NoneYet ==
  ASSUME NEW m
  PROVE  /\ HoldIn(<<>>, m) = 0 /\ CapturedIn(<<>>) = 0 /\ CreditedIn(<<>>) = 0
         /\ ~Reserves(<<>>, m)
<1>1. ASSUME NEW S PROVE SumOf(<<>>, S) = 0
  <2> DEFINE f == [n \in DOMAIN <<>> |-> IF n \in S THEN <<>>[n].amount ELSE 0]
  <2>1. DOMAIN <<>> = 1..0 /\ Len(<<>>) = 0
    OBVIOUS
  <2>2. f \in [1..0 -> Int] /\ \A n \in 1..0 : f[n] = 0
    BY <2>1
  <2>3. Total(f, 0) = 0
    <3> HIDE DEF f
    <3> QED BY <2>2, TotalZero
  <2> QED BY <2>1, <2>3 DEF SumOf
<1> QED BY <1>1 DEF HoldIn, CapturedIn, CreditedIn, Reserves

\* Adding no row, and adding one.
LEMMA Appended ==
  ASSUME NEW q \in Seq(EntryType)
  PROVE  /\ q \o <<>> = q
         /\ \A e \in EntryType : q \o <<e>> = Append(q, e) /\ Append(q, e) \in Seq(EntryType)
OBVIOUS

\* A row of this ledger: its amount a number, its window one that time has.
LEMMA EntryIs ==
  ASSUME NEW m \in Mandate, NEW type \in {RESERVATION, RELEASE, CAPTURE, CREDIT}, NEW n \in Int,
         NEW t \in Nat
  PROVE  /\ Entry(m, type, n, Window(t)) \in EntryType
         /\ Entry(m, type, n, Window(t)).mandate = m /\ Entry(m, type, n, Window(t)).type = type
         /\ Entry(m, type, n, Window(t)).amount = n
         /\ Entry(m, type, n, Window(t)).window = Window(t)
<1>1. Window(t) \in Windows
  BY DEF Windows
<1> QED BY <1>1 DEF Entry, EntryType

\* The rows of r's own mandate are in the window r was decided in.
InItsWindow(r, q) == \A n \in DOMAIN q : q[n].mandate = r.mandate => q[n].window = Window(r.at)

\* A row of the right window keeps the ledger in it.
LEMMA StaysInItsWindow ==
  ASSUME NEW q \in Seq(EntryType), NEW e \in EntryType, NEW r, InItsWindow(r, q),
         e.mandate = r.mandate => e.window = Window(r.at)
  PROVE  InItsWindow(r, Append(q, e))
<1>1. /\ \A n \in DOMAIN Append(q, e) : n \in DOMAIN q \/ n = Len(q) + 1
      /\ \A n \in DOMAIN q : Append(q, e)[n] = q[n]
      /\ Append(q, e)[Len(q) + 1] = e
  OBVIOUS
<1> QED BY <1>1 DEF InItsWindow

\* What Released gives back: all that is held, and nothing else.
LEMMA GivenBack ==
  ASSUME NEW i \in Ids, NEW now, authorizations[i] \in RowType, ledger[i] \in Seq(EntryType),
         InItsWindow(authorizations[i], ledger[i]),
         NEW p, p = ledger[i] \o Released(i, now)
  PROVE  /\ p \in Seq(EntryType) /\ InItsWindow(authorizations[i], p)
         /\ HoldIn(p, authorizations[i].mandate) = 0
         /\ CapturedIn(p) = CapturedIn(ledger[i]) /\ CreditedIn(p) = CreditedIn(ledger[i])
<1> DEFINE r == authorizations[i]
           q == ledger[i]
           hold == HoldIn(q, r.mandate)
           e == Entry(r.mandate, RELEASE, -hold, Window(r.at))
<1>1. r.mandate \in Mandate /\ r.at \in Nat
  BY DEF RowType
<1>2. hold \in Int
  BY SumType DEF HoldIn
<1>3. CASE hold = 0
  <2>1. p = q
    BY <1>3, Appended DEF Released, getAuthorizationHold
  <2> QED BY <1>3, <2>1
<1>4. CASE hold # 0
  <2>1. /\ e \in EntryType /\ e.mandate = r.mandate /\ e.type = RELEASE /\ e.amount = -hold
        /\ e.window = Window(r.at)
    <3>1. -hold \in Int
      BY <1>2
    <3> HIDE DEF hold
    <3> QED BY <1>1, <3>1, EntryIs
  <2>2. p = q \o <<e>>
    BY <1>4 DEF Released, getAuthorizationHold, windowKeysFor
  <2> HIDE DEF e, hold
  <2>3. p = Append(q, e) /\ p \in Seq(EntryType)
    BY <2>1, <2>2, Appended
  <2>4. InItsWindow(r, p)
    BY <2>1, <2>3, StaysInItsWindow
  <2>5. /\ HoldIn(p, r.mandate) = HoldIn(q, r.mandate) + e.amount
        /\ CapturedIn(p) = CapturedIn(q) + 0 /\ CreditedIn(p) = CreditedIn(q) - 0
        /\ CapturedIn(q) \in Int /\ CreditedIn(q) \in Int
    BY <2>1, <2>3, OneMore, Zenon DEF RELEASE, RESERVATION, CAPTURE, CREDIT
  <2>6. HoldIn(p, r.mandate) = 0
    BY <1>2, <2>1, <2>5 DEF hold
  <2> QED BY <2>3, <2>4, <2>5, <2>6
<1> QED BY <1>3, <1>4

\* Rows were added to q that capture n more: p, which holds as much as q.
CapturesMore(r, q, p, n) ==
  /\ p \in Seq(EntryType) /\ InItsWindow(r, p)
  /\ HoldIn(p, r.mandate) = HoldIn(q, r.mandate)
  /\ CapturedIn(p) = CapturedIn(q) + n /\ CreditedIn(p) = CreditedIn(q)

\* A capture on top, in the row's own window.
LEMMA CapturedOnTop ==
  ASSUME NEW i \in Ids, NEW now, NEW n \in Nat, authorizations[i] \in RowType,
         NEW q \in Seq(EntryType), InItsWindow(authorizations[i], q)
  PROVE  CapturesMore(authorizations[i], q, q \o CaptureOf(i, n, now), n)
<1> DEFINE r == authorizations[i]
           p == q \o CaptureOf(i, n, now)
           e == Entry(r.mandate, CAPTURE, n, Window(r.at))
<1>1. r.mandate \in Mandate /\ r.at \in Nat
  BY DEF RowType
<1>2. /\ e \in EntryType /\ e.mandate = r.mandate /\ e.type = CAPTURE /\ e.amount = n
      /\ e.window = Window(r.at)
  BY <1>1, EntryIs
<1>3. p = q \o <<e>>
  BY DEF CaptureOf, windowKeysFor
<1> HIDE DEF e, p
<1>4. p = Append(q, e) /\ p \in Seq(EntryType)
  BY <1>2, <1>3, Appended
<1>5. InItsWindow(r, p)
  BY <1>2, <1>4, StaysInItsWindow
<1>6. e.type # CREDIT /\ e.type \notin {RESERVATION, RELEASE}
  BY <1>2 DEF RELEASE, RESERVATION, CAPTURE, CREDIT
<1>7. /\ HoldIn(p, r.mandate) = HoldIn(q, r.mandate) + 0
      /\ CapturedIn(p) = CapturedIn(q) + n /\ CreditedIn(p) = CreditedIn(q) - 0
      /\ HoldIn(q, r.mandate) \in Int /\ CreditedIn(q) \in Int
  <2>1. /\ HoldIn(q, r.mandate) \in Int /\ CreditedIn(q) \in Int
        /\ HoldIn(p, r.mandate) = HoldIn(q, r.mandate)
             + (IF e.mandate = r.mandate /\ e.type \in {RESERVATION, RELEASE} THEN e.amount ELSE 0)
        /\ CapturedIn(p) = CapturedIn(q) + (IF e.type = CAPTURE THEN e.amount ELSE 0)
        /\ CreditedIn(p) = CreditedIn(q) - (IF e.type = CREDIT THEN e.amount ELSE 0)
    BY <1>2, <1>4, OneMore, SMT
  <2> QED BY <1>2, <1>6, <2>1, Zenon
<1> QED BY <1>4, <1>5, <1>7 DEF CapturesMore, p

\* What is held is given back, and n is captured.
LEMMA GivenBackAndCaptured ==
  ASSUME NEW i \in Ids, NEW now, NEW n \in Nat, authorizations[i] \in RowType,
         ledger[i] \in Seq(EntryType), InItsWindow(authorizations[i], ledger[i]),
         NEW p, p = ledger[i] \o Released(i, now) \o CaptureOf(i, n, now)
  PROVE  /\ p \in Seq(EntryType) /\ InItsWindow(authorizations[i], p)
         /\ HoldIn(p, authorizations[i].mandate) = 0
         /\ CapturedIn(p) = CapturedIn(ledger[i]) + n /\ CreditedIn(p) = CreditedIn(ledger[i])
<1>1. PICK q : q = ledger[i] \o Released(i, now)
  OBVIOUS
<1>2. /\ q \in Seq(EntryType) /\ InItsWindow(authorizations[i], q)
      /\ HoldIn(q, authorizations[i].mandate) = 0
      /\ CapturedIn(q) = CapturedIn(ledger[i]) /\ CreditedIn(q) = CreditedIn(ledger[i])
  BY <1>1, GivenBack
<1>3. CapturesMore(authorizations[i], q, q \o CaptureOf(i, n, now), n)
  BY <1>2, CapturedOnTop, Zenon
<1>4. CapturesMore(authorizations[i], q, p, n)
  BY <1>1, <1>3, Zenon
<1> QED BY <1>2, <1>4 DEF CapturesMore

----------------------------------------------------------------------------
(* The ledger says what the statuses say: write by write.                   *)

\* The ledger of one authorization, and what is known of it.
LEMMA LedgerTypes ==
  ASSUME StoreSound, LedgerSound, NEW i \in Ids
  PROVE  /\ authorizations[i] \in RowType /\ ledger[i] \in Seq(EntryType)
         /\ RowSound(authorizations[i], ledger[i]) /\ InItsWindow(authorizations[i], ledger[i])
         /\ DOMAIN ledger = Ids /\ Ids = 1..Len(authorizations) /\ Len(authorizations) \in Nat
<1>1. /\ Ids = 1..Len(authorizations) /\ Len(authorizations) \in Nat /\ authorizations[i] \in RowType
  BY DEF StoreSound, Ids
<1>2. DOMAIN ledger = Ids
  BY <1>1 DEF LedgerSound
<1>3. ledger[i] \in Seq(EntryType)
  BY <1>2 DEF LedgerSound
<1>4. RowSound(authorizations[i], ledger[i])
  BY DEF LedgerSound
<1> QED BY <1>1, <1>2, <1>3, <1>4 DEF RowSound, InItsWindow

\* As many rows as before, each sound with what is written of it.
LEMMA EachSound ==
  ASSUME StoreSound, LedgerSound, StoreSound', Ids' = Ids, ledger' = [i \in Ids |-> ledger'[i]],
         \A i \in Ids : ledger'[i] \in Seq(EntryType) /\ RowSound(authorizations'[i], ledger'[i])
  PROVE  LedgerSound'
<1>1. /\ Ids = 1..Len(authorizations) /\ Len(authorizations) \in Nat
      /\ Ids' = 1..Len(authorizations') /\ Len(authorizations') \in Nat
  BY DEF StoreSound, Ids
<1>2. Len(authorizations') = Len(authorizations)
  BY <1>1
<1>3. ledger' \in [1..Len(authorizations) -> Seq(EntryType)]
  BY <1>1
<1>4. ledger' \in Seq(Seq(EntryType)) /\ Len(ledger') = Len(authorizations)
  BY <1>1, <1>3
<1>5. \A i \in Ids' : RowSound(authorizations[i], ledger[i])'
  BY DEF RowSound, HeldFor, Reserves, HoldIn, CapturedIn, CreditedIn, SumOf
<1> QED BY <1>2, <1>4, <1>5 DEF LedgerSound

\* One row and its ledger rows change.
LEMMA OneChanges ==
  ASSUME StoreSound, LedgerSound, StoreSound', NEW i \in Ids, NEW status \in Status, NEW q,
         \/ SetStatus({i}, status)
         \/ UNCHANGED authorizations /\ authorizations[i].status = status,
         ledger' = [ledger EXCEPT ![i] = q], q \in Seq(EntryType),
         \A s \in RowType : SameButStatus(authorizations[i], s) /\ s.status = status => RowSound(s, q)
  PROVE  LedgerSound'
<1>1. /\ DOMAIN ledger = Ids /\ authorizations \in Seq(RowType)
      /\ \A j \in Ids : ledger[j] \in Seq(EntryType) /\ RowSound(authorizations[j], ledger[j])
  BY LedgerTypes DEF StoreSound
<1>2. /\ ledger'[i] = q /\ (\A j \in Ids : j # i => ledger'[j] = ledger[j])
      /\ ledger' = [j \in Ids |-> ledger'[j]]
  BY <1>1
<1>3. /\ Ids' = Ids /\ authorizations' \in Seq(RowType)
      /\ authorizations'[i] \in RowType
      /\ SameButStatus(authorizations[i], authorizations'[i]) /\ authorizations'[i].status = status
      /\ \A j \in Ids : j # i => authorizations'[j] = authorizations[j]
  <2>1. CASE SetStatus({i}, status)
    <3>1. /\ authorizations' \in Seq(RowType) /\ Ids' = Ids
          /\ SameButStatus(authorizations[i], authorizations'[i]) /\ authorizations'[i].status = status
      BY <1>1, <2>1, RowsSetStatus
    <3>2. \A j \in Ids : j # i => authorizations'[j] = authorizations[j]
      BY <2>1 DEF SetStatus
    <3>3. authorizations'[i] \in RowType
      BY <3>1 DEF Ids
    <3> QED BY <3>1, <3>2, <3>3
  <2>2. CASE UNCHANGED authorizations /\ authorizations[i].status = status
    BY <1>1, <2>2 DEF Ids, SameButStatus
  <2> QED BY <2>1, <2>2
<1>4. RowSound(authorizations'[i], ledger'[i])
  BY <1>2, <1>3
<1>5. \A j \in Ids : ledger'[j] \in Seq(EntryType) /\ RowSound(authorizations'[j], ledger'[j])
  <2> SUFFICES ASSUME NEW j \in Ids
               PROVE  ledger'[j] \in Seq(EntryType) /\ RowSound(authorizations'[j], ledger'[j])
    OBVIOUS
  <2>1. CASE j = i
    BY <1>2, <1>4, <2>1
  <2>2. CASE j # i
    BY <1>1, <1>2, <1>3, <2>2
  <2> QED BY <2>1, <2>2
<1> QED BY <1>2, <1>3, <1>5, EachSound

\* A "no", or none in time: what the step-up held is given back.
LEMMA RefusedLedger ==
  ASSUME StoreSound, LedgerSound, StoreSound', NEW i \in Ids,
         NEW outcome \in {"EXPIRED", "STEP_UP_DECLINED"}, NEW now, resolveStepUpAgainst(i, outcome, now)
  PROVE  LedgerSound'
<1> DEFINE r == authorizations[i]
           q == ledger[i] \o Released(i, now)
<1>1. /\ r \in RowType /\ ledger[i] \in Seq(EntryType) /\ RowSound(r, ledger[i])
      /\ InItsWindow(r, ledger[i])
  BY LedgerTypes
<1>2. /\ r.status = "PENDING_STEP_UP" /\ SetStatus({i}, outcome)
      /\ ledger' = [ledger EXCEPT ![i] = q]
  BY DEF resolveStepUpAgainst, Pending
<1>3. /\ q \in Seq(EntryType) /\ InItsWindow(r, q) /\ HoldIn(q, r.mandate) = 0
      /\ CapturedIn(q) = CapturedIn(ledger[i]) /\ CreditedIn(q) = CreditedIn(ledger[i])
  BY <1>1, GivenBack
<1> HIDE DEF q
<1>4. ASSUME NEW s \in RowType, SameButStatus(r, s), s.status = outcome
      PROVE  RowSound(s, q)
  <2>1. HeldFor(s) = 0
    BY <1>4 DEF HeldFor, EXECUTABLE_STATUSES
  <2> QED BY <1>1, <1>2, <1>3, <1>4, <2>1 DEF RowSound, SameButStatus, InItsWindow
<1>5. outcome \in Status
  BY DEF Status
<1> QED BY <1>2, <1>3, <1>4, <1>5, OneChanges

\* A "yes": the spender's hold is there once, whether the step-up took it or not.
LEMMA ApprovedLedger ==
  ASSUME StoreSound, LedgerSound, StoreSound', NEW i \in Ids, AgentRow(i),
         NEW approver \in Mandate, approver # authorizations[i].mandate, NEW now \in Nat,
         resolveStepUpFor(i, approver, now)
  PROVE  LedgerSound'
<1> DEFINE r == authorizations[i]
           own == Entry(approver, RESERVATION, r.amount, Window(now))
           hold == Entry(r.mandate, RESERVATION, r.amount, Window(r.at))
           mid == Append(ledger[i], own)
           q == mid \o ApprovalHold(i, now)
<1>1. /\ r \in RowType /\ ledger[i] \in Seq(EntryType) /\ RowSound(r, ledger[i])
      /\ InItsWindow(r, ledger[i])
  BY LedgerTypes
<1>2. r.mandate \in Mandate /\ r.amount \in Int /\ r.at \in Nat /\ r.card = NoCard
  BY <1>1 DEF RowType, AgentRow
<1>3. /\ own \in EntryType /\ own.mandate = approver /\ own.type = RESERVATION
      /\ hold \in EntryType /\ hold.mandate = r.mandate /\ hold.type = RESERVATION
      /\ hold.amount = r.amount /\ hold.window = Window(r.at)
  BY <1>2, EntryIs
<1>4. /\ r.status = "PENDING_STEP_UP" /\ SetStatus({i}, "STEP_UP_APPROVED")
      /\ ledger' = [ledger EXCEPT ![i] = q]
  <2>1. /\ r.status = "PENDING_STEP_UP" /\ SetStatus({i}, "STEP_UP_APPROVED")
        /\ ledger' = [ledger EXCEPT ![i] = ledger[i] \o <<own>> \o ApprovalHold(i, now)]
    BY DEF resolveStepUpFor, Pending
  <2>2. ledger[i] \o <<own>> = mid
    <3> HIDE DEF own
    <3> QED BY <1>1, <1>3, Appended
  <2> QED BY <2>1, <2>2
<1>5. ApprovalHold(i, now) = IF Reserves(ledger[i], r.mandate) THEN <<>> ELSE <<hold>>
  BY DEF ApprovalHold, Reserves, windowKeysFor
<1> HIDE DEF own, hold
<1>6. /\ mid \in Seq(EntryType) /\ InItsWindow(r, mid)
      /\ HoldIn(mid, r.mandate) = HoldIn(ledger[i], r.mandate)
      /\ CapturedIn(mid) = CapturedIn(ledger[i]) /\ CreditedIn(mid) = CreditedIn(ledger[i])
  <2>1. mid \in Seq(EntryType) /\ InItsWindow(r, mid)
    BY <1>1, <1>3, Appended, StaysInItsWindow
  <2>2. own.mandate # r.mandate /\ own.type # CAPTURE /\ own.type # CREDIT
    BY <1>3 DEF RESERVATION, CAPTURE, CREDIT
  <2>3. /\ HoldIn(ledger[i], r.mandate) \in Int /\ CapturedIn(ledger[i]) \in Int
        /\ CreditedIn(ledger[i]) \in Int
        /\ HoldIn(mid, r.mandate) = HoldIn(ledger[i], r.mandate)
             + (IF own.mandate = r.mandate /\ own.type \in {RESERVATION, RELEASE}
                THEN own.amount ELSE 0)
        /\ CapturedIn(mid) = CapturedIn(ledger[i]) + (IF own.type = CAPTURE THEN own.amount ELSE 0)
        /\ CreditedIn(mid) = CreditedIn(ledger[i]) - (IF own.type = CREDIT THEN own.amount ELSE 0)
    BY <1>1, <1>3, OneMore, SMT
  <2> HIDE DEF mid
  <2> QED BY <2>1, <2>2, <2>3
<1> HIDE DEF mid
<1>7. /\ q \in Seq(EntryType) /\ InItsWindow(r, q) /\ HoldIn(q, r.mandate) = r.amount
      /\ CapturedIn(q) = CapturedIn(mid) /\ CreditedIn(q) = CreditedIn(mid)
  <2>1. CASE Reserves(ledger[i], r.mandate)
    <3>1. q = mid
      BY <1>5, <1>6, <2>1, Appended
    <3>2. HoldIn(ledger[i], r.mandate) = r.amount
      BY <1>1, <1>4, <2>1 DEF RowSound, HeldFor
    <3> QED BY <1>6, <3>1, <3>2
  <2>2. CASE ~Reserves(ledger[i], r.mandate)
    <3>1. q = Append(mid, hold) /\ q \in Seq(EntryType)
      BY <1>3, <1>5, <1>6, <2>2, Appended
    <3>2. HoldIn(ledger[i], r.mandate) = 0
      BY <1>1, <1>4, <2>2 DEF RowSound, HeldFor, EXECUTABLE_STATUSES
    <3> HIDE DEF q
    <3>3. InItsWindow(r, q)
      BY <1>3, <1>6, <3>1, StaysInItsWindow
    <3>4. hold.type # CAPTURE /\ hold.type # CREDIT /\ hold.type \in {RESERVATION, RELEASE}
      BY <1>3 DEF RESERVATION, CAPTURE, CREDIT
    <3>5. /\ CapturedIn(mid) \in Int /\ CreditedIn(mid) \in Int
          /\ HoldIn(q, r.mandate) = HoldIn(mid, r.mandate)
               + (IF hold.mandate = r.mandate /\ hold.type \in {RESERVATION, RELEASE}
                  THEN hold.amount ELSE 0)
          /\ CapturedIn(q) = CapturedIn(mid) + (IF hold.type = CAPTURE THEN hold.amount ELSE 0)
          /\ CreditedIn(q) = CreditedIn(mid) - (IF hold.type = CREDIT THEN hold.amount ELSE 0)
      BY <1>3, <1>6, <3>1, OneMore, SMT
    <3>6. HoldIn(q, r.mandate) = r.amount
      BY <1>2, <1>3, <1>6, <3>2, <3>4, <3>5
    <3>7. CapturedIn(q) = CapturedIn(mid) /\ CreditedIn(q) = CreditedIn(mid)
      BY <3>4, <3>5
    <3> QED BY <3>1, <3>3, <3>6, <3>7
  <2> QED BY <2>1, <2>2
<1> HIDE DEF q
<1>8. ASSUME NEW s \in RowType, SameButStatus(r, s), s.status = "STEP_UP_APPROVED"
      PROVE  RowSound(s, q)
  <2>1. HeldFor(s) = r.amount
    BY <1>8 DEF HeldFor, EXECUTABLE_STATUSES, SameButStatus
  <2> QED BY <1>1, <1>2, <1>4, <1>6, <1>7, <1>8, <2>1 DEF RowSound, SameButStatus, InItsWindow
<1>9. "STEP_UP_APPROVED" \in Status
  BY DEF Status
<1> QED BY <1>4, <1>7, <1>8, <1>9, OneChanges

\* Executed once: what was held is given back, and its amount captured.
LEMMA ExecutedLedger ==
  ASSUME StoreSound, LedgerSound, StoreSound', NEW i \in Ids, AgentRow(i), NEW now,
         authorizations[i].status # "EXECUTED", recordExecution(i, now)
  PROVE  LedgerSound'
<1> DEFINE r == authorizations[i]
           q == ledger[i] \o Released(i, now) \o CaptureOf(i, r.amount, now)
<1>1. /\ r \in RowType /\ ledger[i] \in Seq(EntryType) /\ RowSound(r, ledger[i])
      /\ InItsWindow(r, ledger[i])
  BY LedgerTypes
<1>2. r.amount \in Nat /\ r.card = NoCard
  BY <1>1 DEF RowType, AgentRow
<1>3. SetStatus({i}, "EXECUTED") /\ ledger' = [ledger EXCEPT ![i] = q]
  BY DEF recordExecution
<1>4. /\ q \in Seq(EntryType) /\ InItsWindow(r, q) /\ HoldIn(q, r.mandate) = 0
      /\ CapturedIn(q) = CapturedIn(ledger[i]) + r.amount /\ CreditedIn(q) = CreditedIn(ledger[i])
  <2>1. PICK n \in Nat : n = r.amount
    BY <1>2
  <2>2. q = ledger[i] \o Released(i, now) \o CaptureOf(i, n, now)
    BY <2>1
  <2> HIDE DEF q
  <2> QED BY <1>1, <2>1, <2>2, GivenBackAndCaptured
<1>5. CapturedIn(ledger[i]) = 0 /\ CreditedIn(ledger[i]) <= 0
  BY <1>1, <1>2 DEF RowSound
<1> HIDE DEF q
<1>6. CapturedIn(q) = r.amount /\ CreditedIn(q) <= CapturedIn(q)
  <2>1. CreditedIn(ledger[i]) \in Int
    BY <1>1, SumType DEF CreditedIn
  <2> QED BY <1>2, <1>4, <1>5, <2>1
<1>7. ASSUME NEW s \in RowType, SameButStatus(r, s), s.status = "EXECUTED"
      PROVE  RowSound(s, q)
  <2>1. HeldFor(s) = 0
    BY <1>7 DEF HeldFor, EXECUTABLE_STATUSES
  <2> QED BY <1>2, <1>4, <1>6, <1>7, <2>1 DEF RowSound, SameButStatus, InItsWindow
<1>8. "EXECUTED" \in Status
  BY DEF Status
<1> QED BY <1>3, <1>4, <1>7, <1>8, OneChanges

\* A refund credits what of it was not credited yet, and no more than was captured.
LEMMA RefundedLedger ==
  ASSUME StoreSound, LedgerSound, StoreSound', NEW i \in Ids, NEW total \in Nat, NEW now,
         recordRefund(i, total, now)
  PROVE  LedgerSound'
<1> DEFINE r == authorizations[i]
           n == CreditOf(i, total)
           e == Entry(r.mandate, CREDIT, -n, Window(r.at))
           q == Append(ledger[i], e)
<1>1. /\ r \in RowType /\ ledger[i] \in Seq(EntryType) /\ RowSound(r, ledger[i])
      /\ InItsWindow(r, ledger[i])
  BY LedgerTypes
<1>2. r.mandate \in Mandate /\ r.at \in Nat /\ r.status \in Status
  BY <1>1 DEF RowType
<1>3. CapturedIn(ledger[i]) \in Int /\ CreditedIn(ledger[i]) \in Int
  BY <1>1, SumType DEF CapturedIn, CreditedIn
<1>4. n \in Int /\ CreditedIn(ledger[i]) + n <= CapturedIn(ledger[i])
  <2>1. CreditedIn(ledger[i]) <= CapturedIn(ledger[i])
    BY <1>1 DEF RowSound
  <2>2. n = LET bound == IF total < CapturedIn(ledger[i]) THEN total ELSE CapturedIn(ledger[i])
            IN IF bound > CreditedIn(ledger[i]) THEN bound - CreditedIn(ledger[i]) ELSE 0
    BY DEF CreditOf, Captured, Credited
  <2> HIDE DEF n
  <2> QED BY <1>3, <2>1, <2>2
<1>5. UNCHANGED authorizations /\ ledger' = [ledger EXCEPT ![i] = q]
  BY DEF recordRefund, windowKeysFor
<1> HIDE DEF n
<1>6. /\ e \in EntryType /\ e.mandate = r.mandate /\ e.type = CREDIT /\ e.amount = -n
      /\ e.window = Window(r.at)
  <2>1. -n \in Int
    BY <1>4
  <2> QED BY <1>2, <2>1, EntryIs
<1> HIDE DEF e
<1>7. q \in Seq(EntryType) /\ InItsWindow(r, q)
  BY <1>1, <1>6, Appended, StaysInItsWindow
<1>8. e.type # CAPTURE /\ e.type \notin {RESERVATION, RELEASE} /\ e.type # RESERVATION
  BY <1>6 DEF RESERVATION, RELEASE, CAPTURE, CREDIT
<1>9. /\ HoldIn(ledger[i], r.mandate) \in Int
      /\ HoldIn(q, r.mandate) = HoldIn(ledger[i], r.mandate)
           + (IF e.mandate = r.mandate /\ e.type \in {RESERVATION, RELEASE} THEN e.amount ELSE 0)
      /\ CapturedIn(q) = CapturedIn(ledger[i]) + (IF e.type = CAPTURE THEN e.amount ELSE 0)
      /\ CreditedIn(q) = CreditedIn(ledger[i]) - (IF e.type = CREDIT THEN e.amount ELSE 0)
      /\ Reserves(q, r.mandate) <=> Reserves(ledger[i], r.mandate) \/ (e.type = RESERVATION /\ e.mandate = r.mandate)
  BY <1>1, <1>6, OneMore, SMT
<1> HIDE DEF q
<1>10. /\ HoldIn(q, r.mandate) = HoldIn(ledger[i], r.mandate) /\ CapturedIn(q) = CapturedIn(ledger[i])
       /\ CreditedIn(q) = CreditedIn(ledger[i]) + n
       /\ Reserves(q, r.mandate) <=> Reserves(ledger[i], r.mandate)
  BY <1>3, <1>4, <1>6, <1>8, <1>9
<1>11. ASSUME NEW s \in RowType, SameButStatus(r, s), s.status = r.status
       PROVE  RowSound(s, q)
  <2>1. HeldFor(s) = HeldFor(r)
    BY <1>11 DEF HeldFor, SameButStatus
  <2> QED BY <1>1, <1>4, <1>7, <1>10, <1>11, <2>1 DEF RowSound, SameButStatus, InItsWindow
<1> QED BY <1>2, <1>5, <1>7, <1>11, OneChanges

\* A card's row that holds nothing any more, whatever was captured on it.
LEMMA ClosedCardRow ==
  ASSUME NEW r \in RowType, NEW s \in RowType, SameButStatus(r, s), r.card # NoCard,
         NEW q \in Seq(EntryType), RowSound(r, q),
         s.status \in {"DENIED", "EXPIRED", "EXECUTED", "STEP_UP_DECLINED"},
         NEW p, NEW n \in Nat, InItsWindow(r, p), HoldIn(p, r.mandate) = 0,
         CapturedIn(p) = CapturedIn(q) + n, CreditedIn(p) = CreditedIn(q)
  PROVE  RowSound(s, p)
<1>1. HeldFor(s) = 0
  BY DEF HeldFor, EXECUTABLE_STATUSES
<1>2. CapturedIn(q) \in Int /\ CreditedIn(q) \in Int
  BY SumType DEF CapturedIn, CreditedIn
<1>3. CreditedIn(p) <= CapturedIn(p)
  <2>1. CreditedIn(q) <= CapturedIn(q)
    BY DEF RowSound
  <2> QED BY <1>2, <2>1
<1>4. InItsWindow(s, p) /\ HoldIn(p, s.mandate) = 0 /\ s.card # NoCard
  BY DEF InItsWindow, SameButStatus
<1> QED BY <1>1, <1>3, <1>4 DEF RowSound, InItsWindow

\* The rows of one card payment, and what a change of them leaves alone.
LEMMA CardRows ==
  ASSUME StoreSound, LedgerSound, NEW card \in Card, NEW m, NEW i \in listByExternalRef(m, card)
  PROVE  /\ i \in Ids /\ authorizations[i].card # NoCard
         /\ authorizations[i].status \in {"AUTHORIZED", "DENIED", "EXPIRED", "EXECUTED", "STEP_UP_DECLINED"}
<1>1. i \in Ids /\ authorizations[i].card # NoCard
  BY CardsAreNot DEF listByExternalRef
<1>2. authorizations[i] \in RowType /\ RowSound(authorizations[i], ledger[i])
  BY <1>1, LedgerTypes
<1> QED BY <1>1, <1>2 DEF RowSound, RowType, Status

\* The network's final figure: all revisions give back, and the latest captures.
LEMMA SettledLedger ==
  ASSUME StoreSound, LedgerSound, StoreSound', NEW card \in Card, NEW m, NEW n \in Nat, NEW now,
         settleExternalAuthorization(m, card, n, now)
  PROVE  LedgerSound'
<1> DEFINE rows == listByExternalRef(m, card)
           given(i) == IF i \in rows THEN Released(i, now) ELSE <<>>
           taken(i) == IF n > 0 /\ i \in rows /\ i = LatestRevision(rows) THEN CaptureOf(i, n, now)
                       ELSE <<>>
<1>1. SetStatus(rows, "EXECUTED") /\ ledger' = [i \in Ids |-> ledger[i] \o given(i) \o taken(i)]
  BY DEF settleExternalAuthorization
<1>2. "EXECUTED" \in Status
  BY DEF Status
<1>3. /\ Ids' = Ids
      /\ \A i \in Ids : authorizations'[i] \in RowType /\ SameButStatus(authorizations[i], authorizations'[i])
      /\ \A i \in Ids : authorizations'[i].status =
           IF i \in rows THEN "EXECUTED" ELSE authorizations[i].status
      /\ \A i \in Ids : i \notin rows => authorizations'[i] = authorizations[i]
  <2>1. /\ authorizations' \in Seq(RowType) /\ Ids' = Ids
        /\ \A i \in Ids : SameButStatus(authorizations[i], authorizations'[i])
        /\ \A i \in Ids : authorizations'[i].status =
             IF i \in rows THEN "EXECUTED" ELSE authorizations[i].status
    BY <1>1, <1>2, RowsSetStatus DEF StoreSound
  <2>2. \A i \in Ids : authorizations'[i] \in RowType
    BY <2>1 DEF Ids
  <2>3. \A i \in Ids : i \notin rows => authorizations'[i] = authorizations[i]
    BY <1>1 DEF SetStatus
  <2> QED BY <2>1, <2>2, <2>3
<1>4. ASSUME NEW i \in Ids
      PROVE  ledger'[i] \in Seq(EntryType) /\ RowSound(authorizations'[i], ledger'[i])
  <2>1. /\ authorizations[i] \in RowType /\ ledger[i] \in Seq(EntryType)
        /\ RowSound(authorizations[i], ledger[i]) /\ InItsWindow(authorizations[i], ledger[i])
    BY LedgerTypes
  <2>2. ledger'[i] = ledger[i] \o given(i) \o taken(i)
    BY <1>1
  <2>3. CASE i \notin rows
    <3>1. ledger'[i] = ledger[i]
      BY <2>1, <2>2, <2>3, Appended
    <3> QED BY <1>3, <2>1, <2>3, <3>1
  <2>4. CASE i \in rows /\ taken(i) = <<>>
    <3>1. PICK p : p = ledger[i] \o Released(i, now)
      OBVIOUS
    <3>2. /\ p \in Seq(EntryType) /\ InItsWindow(authorizations[i], p)
          /\ HoldIn(p, authorizations[i].mandate) = 0
          /\ CapturedIn(p) = CapturedIn(ledger[i]) /\ CreditedIn(p) = CreditedIn(ledger[i])
      BY <2>1, <3>1, GivenBack
    <3>3. ledger'[i] = p
      <4>1. ledger'[i] = p \o <<>>
        BY <2>2, <2>4, <3>1
      <4> QED BY <3>2, <4>1, Appended
    <3>4. authorizations[i].card # NoCard /\ authorizations'[i].status = "EXECUTED"
      BY <1>3, <2>4, CardRows
    <3>5. CapturedIn(p) = CapturedIn(ledger[i]) + 0
      <4>1. CapturedIn(ledger[i]) \in Int
        BY <2>1, SumType DEF CapturedIn
      <4> QED BY <3>2, <4>1
    <3>6. RowSound(authorizations'[i], p)
      BY <1>3, <2>1, <3>2, <3>4, <3>5, ClosedCardRow
    <3> QED BY <3>2, <3>3, <3>6
  <2>5. CASE i \in rows /\ taken(i) = CaptureOf(i, n, now)
    <3>1. PICK p : p = ledger[i] \o Released(i, now) \o CaptureOf(i, n, now)
      OBVIOUS
    <3>2. /\ p \in Seq(EntryType) /\ InItsWindow(authorizations[i], p)
          /\ HoldIn(p, authorizations[i].mandate) = 0
          /\ CapturedIn(p) = CapturedIn(ledger[i]) + n /\ CreditedIn(p) = CreditedIn(ledger[i])
      BY <2>1, <3>1, GivenBackAndCaptured
    <3>3. ledger'[i] = p
      BY <2>2, <2>5, <3>1
    <3>4. authorizations[i].card # NoCard /\ authorizations'[i].status = "EXECUTED"
      BY <1>3, <2>5, CardRows
    <3>5. RowSound(authorizations'[i], p)
      BY <1>3, <2>1, <3>2, <3>4, ClosedCardRow
    <3> QED BY <3>2, <3>3, <3>5
  <2> QED BY <2>3, <2>4, <2>5
<1>5. ledger' = [i \in Ids |-> ledger'[i]]
  BY <1>1
<1> QED BY <1>3, <1>4, <1>5, EachSound

\* A reversal: all revisions give back, whatever they are.
LEMMA ReleasedLedger ==
  ASSUME StoreSound, LedgerSound, StoreSound', NEW card \in Card, NEW m, NEW now,
         releaseExternalAuthorization(m, card, now)
  PROVE  LedgerSound'
<1> DEFINE rows == listByExternalRef(m, card)
           S == {i \in rows : authorizations[i].status \in {"AUTHORIZED", "STEP_UP_APPROVED"}}
<1>1. /\ SetStatus(S, "EXPIRED")
      /\ ledger' = [i \in Ids |-> ledger[i] \o (IF i \in rows THEN Released(i, now) ELSE <<>>)]
  BY DEF releaseExternalAuthorization
<1>2. "EXPIRED" \in Status
  BY DEF Status
<1> HIDE DEF S
<1>3. /\ Ids' = Ids
      /\ \A i \in Ids : authorizations'[i] \in RowType /\ SameButStatus(authorizations[i], authorizations'[i])
      /\ \A i \in Ids : authorizations'[i].status =
           IF i \in S THEN "EXPIRED" ELSE authorizations[i].status
      /\ \A i \in Ids : i \notin S => authorizations'[i] = authorizations[i]
  <2>1. /\ authorizations' \in Seq(RowType) /\ Ids' = Ids
        /\ \A i \in Ids : SameButStatus(authorizations[i], authorizations'[i])
        /\ \A i \in Ids : authorizations'[i].status =
             IF i \in S THEN "EXPIRED" ELSE authorizations[i].status
    BY <1>1, <1>2, RowsSetStatus DEF StoreSound
  <2>2. \A i \in Ids : authorizations'[i] \in RowType
    BY <2>1 DEF Ids
  <2>3. \A i \in Ids : i \notin S => authorizations'[i] = authorizations[i]
    BY <1>1 DEF SetStatus
  <2> QED BY <2>1, <2>2, <2>3
<1>4. ASSUME NEW i \in Ids
      PROVE  ledger'[i] \in Seq(EntryType) /\ RowSound(authorizations'[i], ledger'[i])
  <2>1. /\ authorizations[i] \in RowType /\ ledger[i] \in Seq(EntryType)
        /\ RowSound(authorizations[i], ledger[i]) /\ InItsWindow(authorizations[i], ledger[i])
    BY LedgerTypes
  <2>2. CASE i \notin rows
    <3>1. ledger'[i] = ledger[i]
      BY <1>1, <2>1, <2>2, Appended
    <3> QED BY <1>3, <2>1, <2>2, <3>1 DEF S
  <2>3. CASE i \in rows
    <3>1. PICK p : p = ledger[i] \o Released(i, now)
      OBVIOUS
    <3>2. /\ p \in Seq(EntryType) /\ InItsWindow(authorizations[i], p)
          /\ HoldIn(p, authorizations[i].mandate) = 0
          /\ CapturedIn(p) = CapturedIn(ledger[i]) /\ CreditedIn(p) = CreditedIn(ledger[i])
      BY <2>1, <3>1, GivenBack
    <3>3. ledger'[i] = p
      BY <1>1, <2>3, <3>1
    <3>4. /\ authorizations[i].card # NoCard
          /\ authorizations[i].status \in {"AUTHORIZED", "DENIED", "EXPIRED", "EXECUTED", "STEP_UP_DECLINED"}
      BY <2>3, CardRows
    <3>5. authorizations'[i].status \in {"DENIED", "EXPIRED", "EXECUTED", "STEP_UP_DECLINED"}
      BY <1>3, <2>3, <3>4 DEF S
    <3>6. CapturedIn(p) = CapturedIn(ledger[i]) + 0
      <4>1. CapturedIn(ledger[i]) \in Int
        BY <2>1, SumType DEF CapturedIn
      <4> QED BY <3>2, <4>1
    <3>7. RowSound(authorizations'[i], p)
      BY <1>3, <2>1, <3>2, <3>4, <3>5, <3>6, ClosedCardRow
    <3> QED BY <3>2, <3>3, <3>7
  <2> QED BY <2>2, <2>3
<1>5. ledger' = [i \in Ids |-> ledger'[i]]
  BY <1>1
<1> QED BY <1>3, <1>4, <1>5, EachSound

\* A new row, with the ledger rows it is saved with.
LEMMA SavedLedger ==
  ASSUME StoreSound, LedgerSound, StoreSound', NEW r \in RowType, NEW q \in Seq(EntryType),
         saveAuthorization(r, q), RowSound(r, q)
  PROVE  LedgerSound'
<1>1. authorizations' = Append(authorizations, r) /\ ledger' = Append(ledger, q)
  BY DEF saveAuthorization
<1>2. /\ authorizations \in Seq(RowType) /\ ledger \in Seq(Seq(EntryType))
      /\ Len(ledger) = Len(authorizations) /\ Len(authorizations) \in Nat
  BY DEF StoreSound, LedgerSound
<1>3. /\ Ids = 1..Len(authorizations) /\ Ids' = 1..(Len(authorizations) + 1)
      /\ \A i \in Ids : authorizations'[i] = authorizations[i] /\ ledger'[i] = ledger[i]
      /\ authorizations'[Len(authorizations) + 1] = r /\ ledger'[Len(authorizations) + 1] = q
      /\ Len(authorizations') = Len(authorizations) + 1 /\ Len(ledger') = Len(ledger) + 1
      /\ ledger' \in Seq(Seq(EntryType))
  BY <1>1, <1>2 DEF Ids
<1>4. ASSUME NEW i \in Ids' PROVE RowSound(authorizations'[i], ledger'[i])
  <2>1. CASE i \in Ids
    BY <1>3, <2>1 DEF LedgerSound
  <2>2. CASE i = Len(authorizations) + 1
    BY <1>3, <2>2
  <2>3. i \in Ids \/ i = Len(authorizations) + 1
    BY <1>2, <1>3
  <2> QED BY <2>1, <2>2, <2>3
<1>5. \A i \in Ids' : RowSound(authorizations[i], ledger[i])'
  BY <1>4 DEF RowSound, HeldFor, Reserves, HoldIn, CapturedIn, CreditedIn, SumOf
<1> QED BY <1>2, <1>3, <1>5 DEF LedgerSound

\* A row that holds nothing is saved with nothing.
LEMMA NothingHeld ==
  ASSUME NEW r \in RowType, HeldFor(r) = 0, r.status # "EXECUTED",
         r.status = "PENDING_STEP_UP" => r.mandate \notin HoldsWhilePending,
         r.card # NoCard => r.status \notin {"PENDING_STEP_UP", "STEP_UP_APPROVED"}
  PROVE  <<>> \in Seq(EntryType) /\ RowSound(r, <<>>)
<1>1. /\ HoldIn(<<>>, r.mandate) = 0 /\ CapturedIn(<<>>) = 0 /\ CreditedIn(<<>>) = 0
      /\ ~Reserves(<<>>, r.mandate)
  BY NoneYet
<1>2. \A n \in DOMAIN <<>> : <<>>[n].mandate = r.mandate => <<>>[n].window = Window(r.at)
  OBVIOUS
<1> QED BY <1>1, <1>2 DEF RowSound

\* A new row r's own first ledger row, and that alone.
IsFirst(q, r, type, n) == q = <<Entry(r.mandate, type, n, Window(r.at))>>

\* What one ledger row of a new row comes to.
LEMMA FirstRow ==
  ASSUME NEW r \in RowType, NEW type \in {RESERVATION, CAPTURE}, NEW n \in Nat, n = r.amount,
         NEW q, IsFirst(q, r, type, n)
  PROVE  /\ q \in Seq(EntryType) /\ InItsWindow(r, q) /\ CreditedIn(q) = 0
         /\ HoldIn(q, r.mandate) = IF type = RESERVATION THEN r.amount ELSE 0
         /\ CapturedIn(q) = IF type = CAPTURE THEN r.amount ELSE 0
         /\ Reserves(q, r.mandate) <=> type = RESERVATION
<1> DEFINE e == Entry(r.mandate, type, n, Window(r.at))
<1>1. r.mandate \in Mandate /\ r.at \in Nat /\ n \in Int
  BY DEF RowType
<1>2. /\ e \in EntryType /\ e.mandate = r.mandate /\ e.type = type /\ e.amount = n
      /\ e.window = Window(r.at)
  BY <1>1, EntryIs
<1> HIDE DEF e
<1>3. PICK none : none = <<>>
  OBVIOUS
<1>4. none \in Seq(EntryType) /\ InItsWindow(r, none) /\ q = Append(none, e) /\ q \in Seq(EntryType)
  BY <1>2, <1>3 DEF InItsWindow, e, IsFirst
<1>5. InItsWindow(r, q)
  BY <1>2, <1>4, StaysInItsWindow
<1>6. /\ HoldIn(none, r.mandate) = 0 /\ CapturedIn(none) = 0 /\ CreditedIn(none) = 0
      /\ ~Reserves(none, r.mandate)
  BY <1>3, NoneYet
<1>7. /\ HoldIn(q, r.mandate) = HoldIn(none, r.mandate)
           + (IF e.mandate = r.mandate /\ e.type \in {RESERVATION, RELEASE} THEN e.amount ELSE 0)
      /\ CapturedIn(q) = CapturedIn(none) + (IF e.type = CAPTURE THEN e.amount ELSE 0)
      /\ CreditedIn(q) = CreditedIn(none) - (IF e.type = CREDIT THEN e.amount ELSE 0)
      /\ Reserves(q, r.mandate) <=> Reserves(none, r.mandate) \/ (e.type = RESERVATION /\ e.mandate = r.mandate)
  BY <1>2, <1>4, OneMore, SMT
<1> HIDE DEF e
<1> QED BY <1>1, <1>2, <1>4, <1>5, <1>6, <1>7 DEF RESERVATION, RELEASE, CAPTURE, CREDIT

\* A row that may be spent, or whose step-up holds its amount, is saved with its hold.
LEMMA Held ==
  ASSUME NEW r \in RowType,
         r.status = "AUTHORIZED"
           \/ (r.status = "PENDING_STEP_UP" /\ r.mandate \in HoldsWhilePending /\ r.card = NoCard)
  PROVE  LET q == <<Entry(r.mandate, RESERVATION, r.amount, Window(r.at))>>
         IN  q \in Seq(EntryType) /\ RowSound(r, q)
<1>1. PICK n \in Nat : n = r.amount
  BY DEF RowType
<1>2. PICK q : IsFirst(q, r, RESERVATION, n)
  BY DEF IsFirst
<1>3. /\ q \in Seq(EntryType) /\ InItsWindow(r, q) /\ CreditedIn(q) = 0
      /\ HoldIn(q, r.mandate) = r.amount /\ CapturedIn(q) = 0 /\ Reserves(q, r.mandate)
  BY <1>1, <1>2, FirstRow DEF RESERVATION, CAPTURE
<1>4. HeldFor(r) = r.amount
  BY DEF HeldFor, EXECUTABLE_STATUSES
<1>5. RowSound(r, q)
  BY <1>3, <1>4 DEF RowSound, InItsWindow
<1> QED BY <1>1, <1>2, <1>3, <1>5 DEF IsFirst

\* Money the network moved without asking is saved as captured.
LEMMA Unasked ==
  ASSUME NEW r \in RowType, r.status = "EXECUTED", r.card # NoCard
  PROVE  LET q == <<Entry(r.mandate, CAPTURE, r.amount, Window(r.at))>>
         IN  q \in Seq(EntryType) /\ RowSound(r, q)
<1>1. PICK n \in Nat : n = r.amount
  BY DEF RowType
<1>2. PICK q : IsFirst(q, r, CAPTURE, n)
  BY DEF IsFirst
<1>3. /\ q \in Seq(EntryType) /\ InItsWindow(r, q) /\ CreditedIn(q) = 0
      /\ HoldIn(q, r.mandate) = 0 /\ CapturedIn(q) = n
  BY <1>1, <1>2, FirstRow DEF RESERVATION, CAPTURE
<1>4. HeldFor(r) = 0
  BY DEF HeldFor, EXECUTABLE_STATUSES
<1>5. RowSound(r, q)
  BY <1>1, <1>3, <1>4 DEF RowSound, InItsWindow
<1> QED BY <1>1, <1>2, <1>3, <1>5 DEF IsFirst

\* A step that writes nothing.
LEMMA SameLedger ==
  ASSUME StoreSound, LedgerSound, UNCHANGED store
  PROVE  LedgerSound'
<1>1. UNCHANGED <<authorizations, ledger>> /\ Ids' = Ids
  BY DEF store, Ids
<1> QED BY <1>1 DEF LedgerSound, RowSound, HeldFor, Reserves, HoldIn, CapturedIn, CreditedIn, SumOf

\* A decision is saved with the hold its status calls for.
LEMMA DecideLedger ==
  ASSUME Inv, Inv', LedgerSound, NEW c \in Call, NEW k \in Attempt, AuthorizeDecide(c, k)
  PROVE  LedgerSound'
<1> DEFINE r == Req(c)
           h == conn[c][k]
           decided(v) == IF h.admitted THEN Evaluate(r.mandate, r.amount, h.now, v) ELSE "DENY"
<1>1. conn[c][k].at # "none" /\ h.at = "gated"
  BY DEF AuthorizeDecide, At
<1>2. Asks(r) /\ Handles(r, h)
  BY <1>1, Served
<1>3. r.op = "authorize" /\ h.now \in Nat /\ StoreSound /\ StoreSound'
  BY <1>1, <1>2 DEF Handles, Inv
<1>4. /\ r.agent \in Agent /\ r.mandate \in Mandate /\ r.amount \in Nat /\ r.key \in Key
      /\ OrgOf[r.agent] \in Org /\ h.now + Ttl \in Nat
  <2>1. r.agent \in Agent /\ r.mandate \in Mandate /\ r.amount \in Amount \cup {0} /\ r.key \in Key
    BY <1>2, <1>3 DEF Asks, Request
  <2>2. Amount \subseteq Nat /\ Ttl \in Nat /\ OrgOf \in [Agent -> Org]
    BY StoreAssumption, ClientAssumption
  <2>3. OrgOf[r.agent] \in Org
    BY <2>1, <2>2
  <2>4. \A t \in Nat : t + Ttl \in Nat
    BY <2>2
  <2>5. r.amount \in Nat
    <3>1. \A n \in Amount \cup {0} : n \in Nat
      BY <2>2
    <3> HIDE DEF r
    <3> QED BY <2>1, <3>1, Zenon
  <2>6. h.now + Ttl \in Nat
    BY <1>3, <2>4
  <2> HIDE DEF r, h
  <2> QED BY <2>1, <2>3, <2>5, <2>6
<1>5. CASE UNCHANGED store
  BY <1>3, <1>5, SameLedger
<1>6. CASE \E v \in Verdicts[r.mandate] :
             saveAuthorization(Row(r, decided(v), h.now), ReservationOf(r, decided(v), h.now))
  <2>1. PICK v \in Verdicts[r.mandate] :
             saveAuthorization(Row(r, decided(v), h.now), ReservationOf(r, decided(v), h.now))
    BY <1>6
  <2>2. decided(v) \in {"ALLOW", "STEP_UP", "DENY"}
    <3>1. v \in {"ALLOW", "STEP_UP", "DENY"}
      BY <1>4, ClientAssumption
    <3> QED BY <3>1 DEF Evaluate
  <2>3. PICK d \in {"ALLOW", "STEP_UP", "DENY"} : d = decided(v)
    BY <2>2
  <2> HIDE DEF decided
  <2> DEFINE row == Row(r, d, h.now)
             q == ReservationOf(r, d, h.now)
  <2>4. /\ row.status = StatusOf(d) /\ row.mandate = r.mandate /\ row.amount = r.amount
        /\ row.at = h.now /\ row.card = NoCard
    BY DEF Row
  <2>5. row \in RowType
    <3>1. StatusOf(d) \in Status
      BY DEF StatusOf, Status
    <3> QED BY <1>3, <1>4, <3>1 DEF Row, RowType
  <2>6. q = IF d = "ALLOW" \/ (d = "STEP_UP" /\ row.mandate \in HoldsWhilePending)
            THEN <<Entry(row.mandate, RESERVATION, row.amount, Window(row.at))>> ELSE <<>>
    BY <2>4 DEF ReservationOf
  <2>7. saveAuthorization(row, q)
    BY <2>1, <2>3
  <2> HIDE DEF row, q
  <2>8. CASE d = "ALLOW" \/ (d = "STEP_UP" /\ row.mandate \in HoldsWhilePending)
    <3>1. \/ row.status = "AUTHORIZED"
          \/ row.status = "PENDING_STEP_UP" /\ row.mandate \in HoldsWhilePending /\ row.card = NoCard
      BY <2>4, <2>8 DEF StatusOf
    <3>2. q \in Seq(EntryType) /\ RowSound(row, q)
      BY <2>5, <2>6, <2>8, <3>1, Held
    <3> QED BY <1>3, <2>5, <2>7, <3>2, SavedLedger
  <2>9. CASE ~(d = "ALLOW" \/ (d = "STEP_UP" /\ row.mandate \in HoldsWhilePending))
    <3>1. \/ row.status = "DENIED"
          \/ row.status = "PENDING_STEP_UP" /\ row.mandate \notin HoldsWhilePending
      BY <2>4, <2>9 DEF StatusOf
    <3>2. HeldFor(row) = 0
      BY <3>1 DEF HeldFor, EXECUTABLE_STATUSES
    <3>3. <<>> \in Seq(EntryType) /\ RowSound(row, <<>>)
      BY <2>4, <2>5, <3>1, <3>2, NothingHeld
    <3>4. q = <<>>
      BY <2>6, <2>9
    <3> QED BY <1>3, <2>5, <2>7, <3>3, <3>4, SavedLedger
  <2> QED BY <2>8, <2>9
<1> QED BY <1>5, <1>6 DEF AuthorizeDecide

\* The handlers that answer a step-up.
LEMMA AnswerLedger ==
  ASSUME Inv, Inv', LedgerSound, NEW c \in Call, NEW k \in Attempt, Expire(c, k) \/ Resolve(c, k)
  PROVE  LedgerSound'
<1> DEFINE r == Req(c)
<1>1. StoreSound /\ StoreSound'
  BY DEF Inv
<1>2. conn[c][k].at # "none" /\ conn[c][k].at \in {"lapsing", "resolving"}
  BY DEF Expire, Resolve, At
<1>3. Asks(r) /\ Handles(r, conn[c][k])
  BY <1>2, Served
<1>4. PICK i : i = r.id
  OBVIOUS
<1>5. AgentRow(i) /\ i \in Ids
  BY <1>2, <1>3, <1>4 DEF Asks, Handles, AgentRow
<1>6. \/ UNCHANGED store
      \/ \E outcome \in {"EXPIRED", "STEP_UP_DECLINED"} : \E now : resolveStepUpAgainst(i, outcome, now)
      \/ conn[c][k].at = "resolving" /\ resolveStepUpFor(i, r.mandate, conn[c][k].now)
  <2>1. CASE Expire(c, k)
    BY <1>4, <2>1 DEF Expire
  <2>2. CASE Resolve(c, k)
    BY <1>4, <2>2 DEF Resolve, At
  <2> QED BY <2>1, <2>2
<1>7. CASE UNCHANGED store
  BY <1>1, <1>7, SameLedger
<1>8. CASE \E outcome \in {"EXPIRED", "STEP_UP_DECLINED"} : \E now : resolveStepUpAgainst(i, outcome, now)
  BY <1>1, <1>5, <1>8, RefusedLedger
<1>9. CASE conn[c][k].at = "resolving" /\ resolveStepUpFor(i, r.mandate, conn[c][k].now)
  <2>1. PICK m \in Mandate, now \in Nat : m = r.mandate /\ now = conn[c][k].now
    BY <1>3, <1>9 DEF Handles
  <2>2. m # authorizations[i].mandate
    BY <1>3, <1>4, <1>9, <2>1 DEF Handles
  <2>3. resolveStepUpFor(i, m, now)
    BY <1>9, <2>1
  <2> QED BY <1>1, <1>5, <2>2, <2>3, ApprovedLedger
<1> QED BY <1>6, <1>7, <1>8, <1>9

\* The capture of an execution, or of one that was captured already.
LEMMA CaptureLedger ==
  ASSUME Inv, Inv', LedgerSound, NEW c \in Call, NEW k \in Attempt, Capture(c, k)
  PROVE  LedgerSound'
<1> DEFINE r == Req(c)
<1>1. StoreSound /\ StoreSound'
  BY DEF Inv
<1>2. conn[c][k].at # "none" /\ conn[c][k].at = "charged" /\ recordExecution(r.id, clock)
  BY DEF Capture, At
<1>3. Asks(r) /\ Handles(r, conn[c][k])
  BY <1>2, Served
<1>4. PICK i : i = r.id
  OBVIOUS
<1>5. AgentRow(i) /\ i \in Ids /\ recordExecution(i, clock)
  BY <1>2, <1>3, <1>4 DEF Asks, Handles, AgentRow
<1>6. CASE UNCHANGED store
  BY <1>1, <1>6, SameLedger
<1>7. CASE authorizations[i].status # "EXECUTED"
  BY <1>1, <1>5, <1>7, ExecutedLedger
<1> QED BY <1>5, <1>6, <1>7 DEF recordExecution

\* What each event of the card network writes.
LEMMA CardLedger ==
  ASSUME Inv, Inv', LedgerSound, CardEvent
  PROVE  LedgerSound'
<1>1. StoreSound /\ StoreSound' /\ clock \in Nat
  BY DEF Inv, Shaped
<1>2. Amount \subseteq Nat /\ \A n \in Amount \cup {0} : n \in Nat
  BY ClientAssumption
<1>3. ASSUME NEW card \in Card, NEW m \in Mandate, NEW status \in Status, NEW n \in Amount,
             NEW revision \in Int
      PROVE  LET row == CardRow(m, card, status, n, revision)
             IN  /\ row \in RowType /\ row.card # NoCard /\ row.status = status
                 /\ row.mandate = m /\ row.amount = n /\ row.at = clock
  <2>1. OrgOf[AgentOf[m]] \in Org
    <3>1. AgentOf[m] \in Agent
      BY StoreAssumption
    <3> QED BY <3>1, StoreAssumption
  <2>2. card # NoCard
    BY CardsAreNot
  <2> QED BY <1>1, <1>2, <2>1, <2>2 DEF CardRow, RowType
<1>4. ASSUME NEW card \in Card, NEW m \in Mandate, CardAsk(m, card)
      PROVE  LedgerSound'
  <2>1. PICK revision \in Int : revision = Cardinality(listByExternalRef(m, card))
    <3>1. Len(authorizations) \in Nat /\ Ids = 1..Len(authorizations)
      BY <1>1 DEF StoreSound, Ids
    <3>2. IsFiniteSet(listByExternalRef(m, card))
      <4>1. IsFiniteSet(Ids)
        BY <3>1, FS_Interval
      <4>2. listByExternalRef(m, card) \subseteq Ids
        BY DEF listByExternalRef
      <4> QED BY <4>1, <4>2, FS_Subset
    <3> QED BY <3>2, FS_CardinalityType
  <2>2. PICK n \in Amount :
          \/ saveAuthorization(CardRow(m, card, "AUTHORIZED", n, revision),
                               <<Entry(m, RESERVATION, n, Window(clock))>>)
          \/ saveAuthorization(CardRow(m, card, "DENIED", n, revision), <<>>)
    <3>1. PICK n \in Amount, yes \in BOOLEAN :
            saveAuthorization(CardRow(m, card, IF yes THEN "AUTHORIZED" ELSE "DENIED", n, revision),
                              IF yes THEN <<Entry(m, RESERVATION, n, Window(clock))>> ELSE <<>>)
      BY <1>4, <2>1 DEF CardAsk
    <3> QED BY <3>1
  <2>3. CASE saveAuthorization(CardRow(m, card, "AUTHORIZED", n, revision),
                               <<Entry(m, RESERVATION, n, Window(clock))>>)
    <3>1. PICK row : row = CardRow(m, card, "AUTHORIZED", n, revision)
      OBVIOUS
    <3>2. /\ row \in RowType /\ row.status = "AUTHORIZED" /\ row.mandate = m /\ row.amount = n
          /\ row.at = clock
      <4>1. "AUTHORIZED" \in Status
        BY DEF Status
      <4> QED BY <1>3, <3>1, <4>1
    <3>3. PICK q : q = <<Entry(row.mandate, RESERVATION, row.amount, Window(row.at))>>
      OBVIOUS
    <3>4. q \in Seq(EntryType) /\ RowSound(row, q)
      BY <3>2, <3>3, Held
    <3>5. saveAuthorization(row, q)
      BY <2>3, <3>1, <3>2, <3>3
    <3> QED BY <1>1, <3>2, <3>4, <3>5, SavedLedger
  <2>4. CASE saveAuthorization(CardRow(m, card, "DENIED", n, revision), <<>>)
    <3>1. PICK row : row = CardRow(m, card, "DENIED", n, revision)
      OBVIOUS
    <3>2. row \in RowType /\ row.status = "DENIED"
      <4>1. "DENIED" \in Status
        BY DEF Status
      <4> QED BY <1>3, <3>1, <4>1
    <3>3. HeldFor(row) = 0
      BY <3>2 DEF HeldFor, EXECUTABLE_STATUSES
    <3>4. <<>> \in Seq(EntryType) /\ RowSound(row, <<>>)
      BY <3>2, <3>3, NothingHeld
    <3>5. saveAuthorization(row, <<>>)
      BY <2>4, <3>1
    <3> QED BY <1>1, <3>2, <3>4, <3>5, SavedLedger
  <2> QED BY <2>2, <2>3, <2>4
<1>5. ASSUME NEW card \in Card, NEW m \in Mandate, CardUnasked(m, card)
      PROVE  LedgerSound'
  <2>1. PICK n \in Amount :
          saveAuthorization(CardRow(m, card, "EXECUTED", n, -1), <<Entry(m, CAPTURE, n, Window(clock))>>)
    BY <1>5 DEF CardUnasked
  <2>2. PICK row : row = CardRow(m, card, "EXECUTED", n, -1)
    OBVIOUS
  <2>3. /\ row \in RowType /\ row.status = "EXECUTED" /\ row.mandate = m /\ row.amount = n
        /\ row.at = clock /\ row.card # NoCard
    <3>1. "EXECUTED" \in Status /\ -1 \in Int
      BY DEF Status
    <3> QED BY <1>3, <2>2, <3>1
  <2>4. PICK q : q = <<Entry(row.mandate, CAPTURE, row.amount, Window(row.at))>>
    OBVIOUS
  <2>5. q \in Seq(EntryType) /\ RowSound(row, q)
    BY <2>3, <2>4, Unasked
  <2>6. saveAuthorization(row, q)
    BY <2>1, <2>2, <2>3, <2>4
  <2> QED BY <1>1, <2>3, <2>5, <2>6, SavedLedger
<1>6. ASSUME NEW card \in Card, NEW m \in Mandate, CardSettle(m, card)
      PROVE  LedgerSound'
  <2>1. PICK n \in Amount \cup {0} : settleExternalAuthorization(m, card, n, clock)
    BY <1>6 DEF CardSettle
  <2>2. n \in Nat
    BY <1>2
  <2> QED BY <1>1, <2>1, <2>2, SettledLedger
<1>7. ASSUME NEW card \in Card, NEW m \in Mandate, CardRelease(m, card)
      PROVE  LedgerSound'
  BY <1>1, <1>7, ReleasedLedger DEF CardRelease
<1>8. ASSUME NEW i \in Ids, Refund(i)
      PROVE  LedgerSound'
  <2>1. PICK total \in Nat : recordRefund(i, total, clock)
    BY <1>2, <1>8 DEF Refund
  <2> QED BY <1>1, <2>1, RefundedLedger
<1>9. \A card \in Card : MandateOf[card] \in Mandate
  BY ClientAssumption
<1> QED BY <1>4, <1>5, <1>6, <1>7, <1>8, <1>9 DEF CardEvent

\* What a step writes in the ledger agrees with what it makes of the statuses.
LEMMA LedgerKeeps ==
  ASSUME Inv, LedgerSound, [Next]_vars
  PROVE  LedgerSound'
<1>1. Inv' /\ StoreSound
  BY NextKeeps DEF Inv
<1>2. CASE UNCHANGED store
  BY <1>1, <1>2, SameLedger
<1>3. CASE \E c \in Call, k \in Attempt :
             AuthorizeDecide(c, k) \/ Expire(c, k) \/ Resolve(c, k) \/ Capture(c, k)
  BY <1>1, <1>3, DecideLedger, AnswerLedger, CaptureLedger
<1>4. CASE CardEvent
  BY <1>1, <1>4, CardLedger
<1>5. \/ UNCHANGED store
      \/ \E c \in Call, k \in Attempt :
           AuthorizeDecide(c, k) \/ Expire(c, k) \/ Resolve(c, k) \/ Capture(c, k)
      \/ CardEvent
  <2>1. CASE \E c \in Call : authorize(c) \/ execute(c) \/ resolveStepUp(c) \/ verify(c)
    BY <2>1 DEF authorize, execute, resolveStepUp, verify, Start
  <2>2. CASE \E c \in Call : ClientStep(c)
    BY <2>2 DEF ClientStep, Receive, Break, CutBody, Retry
  <2>3. CASE \E c \in Call, k \in Attempt : Handle(c, k)
    BY <2>3 DEF Handle, Authenticate, AuthorizeGate, ReadRow, Charge
  <2>4. CASE (\E a \in Agent : RevokeKey(a)) \/ Tick \/ UNCHANGED vars
    BY <2>4 DEF RevokeKey, Tick, vars
  <2> QED BY <2>1, <2>2, <2>3, <2>4 DEF Next
<1> QED BY <1>2, <1>3, <1>4, <1>5

\* Rows that are sound one by one are what LedgerMatchesStatus asks for.
LEMMA LedgerIsSo ==
  ASSUME LedgerSound
  PROVE  LedgerMatchesStatus
<1> SUFFICES ASSUME NEW i \in Ids
             PROVE  LET r == authorizations[i] IN
                    /\ \A n \in DOMAIN ledger[i] :
                         ledger[i][n].mandate = r.mandate => ledger[i][n].window = Window(r.at)
                    /\ getAuthorizationHold(r.mandate, i) = HeldFor(r)
                    /\ Credited(i) <= Captured(i)
                    /\ r.card = NoCard => Captured(i) = IF r.status = "EXECUTED" THEN r.amount ELSE 0
  BY DEF LedgerMatchesStatus, HeldFor
<1> QED BY DEF LedgerSound, RowSound, getAuthorizationHold, Captured, Credited

\* In the in-memory store, whatever attempts of whatever calls are handled at once
\* and whatever the card network sends, the ledger rows of an authorization come to
\* what its status says: what it holds, what was captured and what was credited of it.
THEOREM LedgerSaysTheStatus == Spec => []LedgerMatchesStatus
<1>1. Init => LedgerSound
  <2> SUFFICES ASSUME Init PROVE LedgerSound
    OBVIOUS
  <2>1. authorizations = <<>> /\ ledger = <<>> /\ Ids = {}
    BY DEF Init, StoreInit, Ids
  <2>2. ledger \in Seq(Seq(EntryType)) /\ Len(ledger) = Len(authorizations)
    BY <2>1
  <2> QED BY <2>1, <2>2 DEF LedgerSound
<1>2. Inv /\ LedgerSound /\ [Next]_vars => LedgerSound'
  BY LedgerKeeps
<1>3. LedgerSound => LedgerMatchesStatus
  BY LedgerIsSo
<1> QED BY <1>1, <1>2, <1>3, Invariance, PTL DEF Spec
=============================================================================
