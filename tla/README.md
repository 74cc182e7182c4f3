# Waysafe: TLA+ models, model checking and proofs

Waysafe lets a principal sign a *mandate* (a policy: cumulative caps, counts,
categories, a lifetime, who may approve what), and decides every payment an
agent asks for under it: ALLOW, DENY, or STEP_UP, which parks the payment until
another mandate approves it.  What a mandate may still spend is a sum over an
append-only ledger.  The modules here model the code under `src/apps/api/src`
(the service), `src/packages/core/src` (engine, merchants, evidence, compiler)
and `src/packages/sdk/src` (the client).

    tlc -workers 2 -config chain.cfg MCAgentPath      # any .cfg below
    tlapm AgentPathProofs.tla

## The system

| Component | Code | State it keeps | Operations |
|---|---|---|---|
| Agent authorization | `authorization/service.ts` (`authorize`), `prisma-repository.ts`, `mandate-gate.ts` | `authorizations`, `ledger_entries` | POST /v1/authorizations, reads |
| Step-up resolution | `authorization/service.ts` (`resolveStepUpAsApprover`), `server.ts` (`expireIfNeeded`) | the same rows; the approver's ledger | approve, decline, lazy expiry |
| Expiry worker | `worker.ts`, `sweepExpiredStepUps` | none | one pass per interval |
| Execution | `execution/`, `payments/` | the same rows; money at a provider | POST .../execute |
| Webhooks | `webhooks/service.ts` | `provider_events` | refunds, card settlement, card release |
| Ledger and windows | `getSpendSnapshot`, `engine/window-rollup.ts`, `time.ts` | ledger sums per window | roll-up of amount and count, window keys |
| Policy engine | `engine/evaluate.ts`, `policy.ts`, `merchant.ts` | none | `evaluate`, `resolveMerchant`, `validatePolicyCoherence` |
| Mandates and agents | `createMandate`, `agent-keys/`, the routes of `server.ts` | `agents`, `mandates`, versions, keys | create, activate, issue and revoke a key |
| Card rail | `enforcement/stripe-issuing.ts`, issuing webhooks | external authorizations, revisions, instruments | provisioning, real-time decision, increment, settle, reverse |
| x402 rail | `enforcement/x402.ts`, `x402-safe.ts`, `resource-fetch.ts` | holds; an on-chain 2-of-2 Safe | fetch of the requirement, decision, co-signature, transfer |
| Evidence chain | `evidence/`, core `evidence.ts`, `evidence-signing.ts` | a signed hash chain per organization | append, export, verify |
| Passkey ceremonies | `webauthn/` | challenges, credentials | register, authenticate a mandate, re-enrol |
| Policy compiler | core `compiler/` | none | text to policy, validation, repair |
| Principals, instruments, signing | `principals/`, `instruments/`, `signing/` | single rows, environment keys | create, read, sign |
| In-memory repositories | `in-memory-repository.ts` | as Prisma's, with a mutex and without transactions | as Prisma's |
| SDK client | `packages/sdk` | none of the service's | authorize with retries, execute, resolveStepUp, reads |
| Dashboard, site, demos | `apps/dashboard`, `apps/site`, `demo/` | none of the service's | presentation |

How they interact.  Every decision on money takes a row lock on its mandate
(`SELECT ... FOR UPDATE`, `withMandateLock`); an approval takes two, in id
order.  What a request reads before the lock (its idempotency lookup, the
mandate's status, the agent's key, the row it acts on, its own `now`) may be
stale when it holds the lock.  The provider is called outside any lock, between
a read and a transaction.  The evidence of a decision commits with it, under a
second lock, the organization's; the receipts of approvals and executions are
appended after it.  The worker is a second process and meets requests only
through the rows.  Webhooks come late, twice and out of order.  Tenants share
tables and are kept apart by what each query compares.

What makes each part correct:

* authorization, step-up, ledger: no window of a mandate ever holds, has
  captured and has lent more than the cap, whoever races whom; every hold is
  given back exactly when nothing can spend it any more;
* step-up: a payment that was escalated moves only with the approval of another
  mandate the policy names; racing resolutions take effect once; a lapsed one is
  resolved even if nobody asks;
* execution: money that moved is on the ledger, once, whatever answer got lost;
* refunds: budget that comes back was captured and was reported as refunded;
* idempotency: one key, one decision; one SDK call, one decision, and an answer
  once given stands;
* authority: nothing is granted on a mandate that has been revoked; keys reach
  only mandates of their own organization, and an agent's key gives nobody more;
* evidence: what a signed receipt says is true, the chain is linear, a decision
  is on record or did not happen, and a verifier accepts exactly what was signed;
* card rail: what the network was told yes to is held, a payment that ended holds
  nothing, and what moved is on the ledger, asked about or not;
* x402: no socket leaves the allowed addresses, what a Safe pays is within the
  budget, and every request ends;
* passkeys: one challenge, one use, for the ceremony it was issued for; a mandate
  is active only by a signature over its policy; a further passkey takes a grant
  that an earlier one signed for;
* engine: nothing is paid unasked on a claim, and the keys of windows name real
  weeks and months.

## Modules

| Module | What it is |
|---|---|
| `LedgerSum` | sums of ledger terms, as a recursive function, and the lemmas about them |
| `AgentPath` | the agent path: authorization, step-up, worker, execution, refunds, revocation, one action per transaction or unlocked step |
| `SpendGuarantee` | the promise to the principal: abstract payments, money moved, spend per period |
| `AgentPathRefinement` | `AgentPath` implements `SpendGuarantee`, with the refinement mapping |
| `CardRail` | the card of one mandate: provisioning, decisions while the network waits, increments, release, settlement, money that moved unasked |
| `MemoryStore` | the in-memory authorization store: append-only ledger rows, one operator per method |
| `ApiClient` | SDK calls, the network that loses them, and the handlers that serve them, over `MemoryStore` |
| `ResourceFetch` | the fetch of a URL under a policy: schemes, addresses, redirects, one deadline |
| `X402Rail` | x402 payments, over `ResourceFetch`: decision, co-signature, Safe, transfer |
| `MerchantIdentity` | resolution of a merchant, trust per identifier, directory, lists |
| `Calendar` | days, ISO weeks and months, and the window keys |
| `PolicyEngine` | `evaluate()`, rule by rule, over the payments of a mandate; the coherence of policies |
| `EvidenceChain` | the evidence chain, the row locks it grows under, and its verifier |
| `Ceremonies` | passkey ceremonies, await by await |
| `Onboarding` | compiler, creation of agents, principals, mandates, keys and x402 accounts, several tenants, and what their keys may do |
| `MC...` | the instances TLC checks |
| `AgentPathProofs`, `CardRailProofs`, `ApiClientProofs`, `PolicyEngineProofs`, `X402RailProofs`, `EvidenceChainProofs` | theorems and proofs about the module of that name |
| `ControlPlaneProofs` | theorems and proofs about `Ceremonies` and `Onboarding`, the tables that say who may spend |

`AgentPath` and `MemoryStore` model two implementations of one repository
interface.  `AgentPath` follows the Prisma one, whose methods are transactions,
and keeps the sums of an authorization's entries; `MemoryStore` follows the map
and arrays of the other, in which what a method wrote before it threw stays.
`EvidenceChain` has the locks that `AgentPath` and `CardRail` take as part of one
atomic action; `Calendar` has the real keys that they number.

### How `AgentPath` corresponds to the code

| Variable | Code |
|---|---|
| `clock` | `new Date()`, in the units a window and a TTL are counted in |
| `status`, `credential` | `mandates.status`; the agent's key is unrevoked and its agent ACTIVE |
| `auth` | a row of `authorizations` with the sums of its ledger entries by type |
| `call` | the local variables of a request that is being served, between its steps |
| `charged` | the provider's record of charges (external) |
| `seen` | `provider_events` |
| `sweep` | what is left of the list the worker's pass has read |
| `evidence` | the signed events appended after the transaction they report |
| `crashes` | a counter that bounds `Crash` and `WorkerCrash` |

| Action | Code |
|---|---|
| `BeginAuthorize`, `CommitAuthorize`, `KeyTaken` | `authorize`: lookups and gate before the lock; the section under it (second lookup, gate again, snapshot, `evaluate`, `saveAuthorization` with the hold); the replay, conflict or unique-index failure |
| `BeginApprove`, `CommitApprove`, `ReplayApprove` | `resolveStepUpAsApprover`: rules 1 and 2 before the locks, rules 3 and 4 under both, first writer wins |
| `BeginExpire`, `CommitExpire` | `expireIfNeeded` |
| `SweepList`, `SweepOne` | `sweepExpiredStepUps` |
| `BeginExecute`, `AdapterSucceeds`, `AdapterFails`, `RecordExecution` | the execute route: `asExecutable`, the provider, `recordExecution` |
| `WriteReceipt` | `writeStepUpEvidence` and the `execution.completed` event |
| `RefundEvent` | `charge.refunded`: `recordRefund` |
| `activateMandate`, `Revoke`, `revokeKey` | the last step of a ceremony; an operator's update; key revocation |
| `Tick`, `Crash`, `WorkerCrash` | time; a request or a pass that dies between two transactions |

Abstractions.  A section under row locks is one transaction, so it is one
action.  The reads a request makes before the lock are one `Begin` step: they
read different rows, and each later step tests again what the code tests again.
All entries of an authorization belong to the window it was decided in
(`windowKeysFor` recomputes the keys from the decision's time), so a row carries
their sums; the reservation on the approver's ledger belongs to the window of the
approval.  The rules of the engine that do not read the ledger are a set of
possible verdicts per amount in `Policy`, of which a decision takes any
(`PolicyEngine` has them).  A mandate has one cumulative limit, and windows are
numbered intervals.  Amounts are positive.  A refused approval attempt changes no
row and is not a step.  Decline by the approving mandate's policy is the decline
branch of `CommitApprove`.

### How `CardRail` corresponds to the code

| Variable | Code |
|---|---|
| `clock`, `status` | `new Date()`; `mandates.status` |
| `card` | how far `provisionCardForMandate` got: nothing, a live card at the network, an instrument row for it, the card's metadata naming the instrument |
| `row` | a row of `authorizations` (one per revision of a payment, one per unasked settlement) with the sums of its entries |
| `call` | the local variables of a delivery between what it read before the lock and its transaction |
| `seen`, `moved` | `provider_events`: closing events and transaction events that were applied |
| `failed` | payments one of whose decisions was rolled back; it bounds `FailDecide` |
| `rail`, `asked` | external: what the network was told and what it sent |

| Action | Code |
|---|---|
| `activateMandate`, `CreateCard`, `createInstrument`, `NameInstrument` | the three writes of `provisionCardForMandate`, each of which may be the last (a crash) |
| `Unattributed` | a request sent before the card named its instrument: declined, on no row |
| `Replay`, `BeginDecide` | `handleIssuingAuthorizationRequest` before the lock: the recorded decision of the same id, history and amount, or the next free revision and the hold to subtract |
| `CommitDecide` | its section under the lock: gate, snapshot, ceiling, `evaluate` of the difference, row, hold and evidence |
| `ReplayWinner`, `FailDecide` | the unique index rejected the row; anything else failed, and the answer is a decline |
| `BeginUpdate`, `CommitUpdate` | `handleIssuingCapture`: the row read before the lock; release, or settlement unless that row was settled |
| `TransactionEvent` | `handleIssuingTransaction`: settle what is held, book the rest as never approved |
| `Ask`, `Close`, `Unwind`, `MayMove` | external: the network asks, ends a payment, and moves money |
| `Revoke`, `Tick` | an operator's update; time |

Abstractions.  The rail is external and more liberal than Stripe's documents:
any request it ever sent may be delivered again at any time, transactions come
before or after the closing event, several for one payment, and money may move
for a reversed payment or for none.  Two constants say whether it is orderly:
`GivesUp` (it goes on before it was answered; the service's transaction may take
20 s, the network waits 2 s) and `ForgetsHistory` (an increment may arrive with
the `request_history` of the first request, the case D-79 was written for).  The
passing run has a rail that waits and may forget the history of the one increment it
sends; most theorems need an orderly one (`OrderlyRail`), the theorem on what is held
covers both.  With two increments that forget, one that is redelivered after the end,
or a rail that gives up, the code does not keep what D-79 and D-83 say:
`v_card_untouched_history` ends in the counterexample to the first, and
`NothingHeldAfterClose` speaks of payments whose requests can be told apart (`Told`).
A closing event of a
payment without a row, an event still pending and a card nobody knows change
nothing and are not steps.  Evidence commits with the decision (`FailDecide` is
the failure of either) and is not a variable.  One currency; refunds of card
transactions reach the ledger through `charge.refunded`, which `AgentPath` has.

### How `MemoryStore` and `ApiClient` correspond to the code

`MemoryStore`'s variables are the fields of `InMemoryAuthorizationRepository`:
`authorizations`, `ledger` (the rows written under each authorization, with their
mandate, type, amount and window) and `idempotencyIndex`.  Each method is an
operator with the method's name.  `ApiClient` composes them as the handlers do.

| Variable | Code |
|---|---|
| `sdk` | a call at its caller: waiting, in the back-off of `requestWithRetry`, or done with an answer |
| `conn` | an attempt: on the wire, or the handler that serves it and what it remembers, or its answer on the way back |
| `revoked`, `charged`, `clock` | revoked API keys; the provider's charges; `now` |

| Action | Code |
|---|---|
| `authorize`, `execute`, `resolveStepUp`, `verify` | the SDK's methods |
| `Receive`, `Break`, `CutBody`, `Retry` | `request`, `requestWithRetry`: an answer of any status, `fetch` that throws (whatever became of the request), a body that is not JSON, the next attempt with the same key |
| `Authenticate` | the `preHandler` |
| `AuthorizeGate`, `AuthorizeDecide` | POST /v1/authorizations before the mandate's mutex and under it |
| `ReadRow`, `Expire`, `Resolve`, `Charge`, `Capture` | the routes on an authorization: row, ownership (D-78), lazy expiry, the approval, the provider, `recordExecution` |
| `CardEvent` | what the card rail and the webhooks call: `saveAuthorization` of a revision, settle, release, an unasked settlement, a refund |
| `RevokeKey`, `Tick` | key revocation; time |

### How `ResourceFetch` and `X402Rail` correspond to the code

`fetch` is the state of `fetchResourceUnderPolicy` for each request: its stage,
the address the connection is pinned to, the hop, its age and the age at which
its timer fires, and the addresses reached so far.  `StartFetch` is
`startDeadline`, `Validate` and `RefuseUrl` `validateTarget`, `Redirect`,
`RefuseAnswer`, `Answer` and `Break` what `requestOnce` and the loop make of a
response, `Linger` the time any of it takes, `TimeOut` the deadline.  A URL is its
scheme and the classes of the addresses it resolves to at that moment; the
resolver may answer something else the next time.

| Variable of `X402Rail` | Code |
|---|---|
| `status`, `provisioned` | `mandates.status`; `payer_instruments` |
| `row` | `authorizations` with the hold of each |
| `call` | the request: fetching, about to co-sign, about to settle |
| `deployed`, `nonce`, `pool`, `mined` | external: the Safes on the chain, their next nonce, what was broadcast, what was executed |

| Action | Code |
|---|---|
| `Begin`, `Fetch`, `Deny`, `Abandon` | the route and `handleX402PaymentRequest` up to the lock; a requirement that does not parse, or a URL the policy refuses, is a recorded DENY; a fetch that fails leaves no record |
| `Decide` | the section under `withAuthorizedMandate`: gate, snapshot, `evaluate`, row and hold in cents, rounded up |
| `CoSign`, `SignFails` | the co-signature over what was allowed |
| `Settle`, `LeaveUnsettled`, `Mine` | `settleTwoOfTwoTransfer` with the agent's signature; no signature, or one for something else; the chain |
| `DeploySafe`, `createInstrument`, `Provision` | `deploySafeTwoOfTwo` and the instrument's route |
| `Revoke`, `Crash` | an operator's update; the process dies with its requests |

### How `PolicyEngine`, `MerchantIdentity` and `Calendar` correspond

One operator per rule of `evaluate.ts` (`ExpiryReasons`, `CurrencyReasons`,
`TimeReasons`, `MerchantReasons`, `CategoryReasons`, `ConstraintReasons`,
`LimitReasons`, `ThresholdReasons`), each the set of reason codes the rule gives;
`Evaluate` takes the most severe.  `Propose` decides a payment on the snapshot of
the moment and books it; a step-up that a human approves is booked `by` that
human.  `Coherent` is the part of `validatePolicyCoherence` that rejects.
`MerchantIdentity` resolves an assertion of the agent or of a rail into
identifiers with a trust of their own (`Refs`) and matches them against lists
(`IsPrefix` of labels is a subdomain).  `Calendar` computes year, month and ISO
week from a day number, and the three keys.  Values of domains and accounts are
already normalized; an unparsable time or an unknown time zone is left out.

### How `EvidenceChain` corresponds

A request is a list of statements (`Decision`, `Approval`, `Record`), taken one
by one: lock a mandate, write the rows, lock the organization, append, commit.
A written row shares a lock on the organization's row, because its foreign key
makes Postgres take one (`shared`), and `FOR UPDATE` waits for everyone else's
(`exclusive`).  `AbortDeadlocked` is Postgres ending a cycle of waits; `Fail` a
statement that fails; `Crash` a process that dies and may start with another key.
A hash is the content it is taken of, and a signature the hash and the key: both
are assumed perfect.  `Verify` is `verifyEvidenceChain`: sequence, link, hash, and the
signature by the key of the directory that the event names, or by the published one
if it names none.  `Verified` is what a third party runs, `verifyEvidenceIndependently`
on what `getPublicKey` and `getKeyDirectory` give out: the key the process has now,
and a directory of that key alone.  `VerifierIsExact` says exactly which ranges pass
with that, so after a rotation it says that an earlier key's events are refused;
what D-53 promises instead is among the differences below.

### How `Ceremonies` corresponds

`challenges` and `credentials` are the tables, `status` the mandates', `signed`
the responses people gave (external), `call` a request between two awaits, and
`acts` what requests did with the rows they consumed.  `BeginOptions` and
`IssueOptions` are the options routes, `BeginVerify` and `BeginReenroll` the
starts of the three `complete...` functions, `CheckEnrolled`, `ConsumeGrant`,
`ConsumeChallenge`, `SaveCredential`, `FindCredential`, `UpdateCounter`,
`Activate` and `MintGrant` their statements, in the order of the code; `Expire`
is the five minutes of a challenge.  A request that dies takes no further step,
so its crash needs no action.

`Sign` is a person and an authenticator, to whom a challenge does not say what it is
for: any open challenge may be answered with a new passkey or with the signature of
one that exists, and any response may be presented to any of the three completions,
so a registration over an authentication's challenge, and the other way round, do
reach them.  Of the stored purpose, `Accepts` is what the completions ask,
and `SignedForThis`, a part of `OneUsePerChallenge`, what they achieve by it: `issuedFor`, which the service does not
see, is the ceremony of everything a signature was used for.

### How `Onboarding` corresponds

Six tables (`agents`, `principals`, `keys`, `mandates`, `instruments`, `rows`) shared
by all organizations, an id being a position; one action per route: the administrative
ones (`createAgent`, `createPrincipal`, `createKey`, `revokeKey`, `createMandate`,
`activateMandate`, `provisionInstrument`) and five of the six that an agent's key may
call (`authorize`, `payByInstrument`, `readAuthorization`, `resolveStepUp`, `execute`;
the sixth reads a mandate and writes nothing), guarded as the preHandler, the
handler and the store guard it.  A row has an agent or an instrument as its actor
(D-35), the key it was asked for with, its approver and that one's key, and the key
that executed it.  `payByInstrument` is POST /v1/enforcement/x402, which decides by
the instrument's mandate and does not ask whose key it was beyond the organization;
so `SpentWithinTenant` speaks of the mandate's agents for agents' rows and of the
mandate's account for the others, and the threat model says more of agents' keys than
the code does (see the differences below).  Amounts and the rules of the
policy are elsewhere (`X402Rail`, `AgentPath`): here an active mandate may say
anything.  `compiling` is one instruction at the compiler: `Ask` and
`Reply` are `AnthropicIntentCompiler`'s loop, `Replay` the fixture compiler's one
lookup.  `ChecksAgents` is the difference between the two stores: the in-memory
`createMandate` checks the agents' organization, Prisma's does not; the run takes
the weaker one.

## What the runs check

| Run | Shows |
|---|---|
| `chain` | Three mandates in a chain of approvers.  `m1` reserves for a pending step-up, in windows of two instants, so holds, captures and expiries cross a boundary; `m2` approves for it, reserves nothing while its own step-ups wait (so only the check an approval makes, D-85, keeps its cap), and is approved by `m3`, which has one transaction slot.  `TypeOK`, `WithinCap`, `WithinCount`, `LedgerBalanced`, `MoneyMovedIsBooked`, `NoEscalatedMoneyAlone`, `ReceiptsAreTrue`, `ResolvedOnce`, and the refinement `KeepsGuarantee` |
| `repeats` | One idempotency key used by two requests, on the same mandate or not; executions retried; refund totals 1, 2 and 4 on payments of 3 in any order, also before the capture: `OneDecisionPerKey`, `NoPhantomCredit`, `NeverNegative`.  Time stands still, which none of these depends on |
| `expiry` | `LapsedStepUpsResolve` under fairness, with a crash, and with a mandate that is activated, revoked and lapses: `NoAuthorityOnceRevoked` |
| `card` | One card from its provisioning on.  One payment of 1 increased to 2, delivered and handled twice, whose increment may carry the history of the first request, with a decision that fails, a closing and a transaction event, force captures; or two payments with three requests, under one limit of a single payment an instant and one of 3 over both instants: `ApprovedIsHeld`, `NothingHeldAfterClose`, `MovedIsCaptured`, `HoldsWithinCap`, `ApprovedWithinCount` |
| `client` | Three SDK calls by two agents of one organization, each of two attempts, on the in-memory store, with a card on the approver's mandate, a refund, a lapse and a revoked key: `OneDecisionPerCall`, `AnswersStand`, `LedgerMatchesStatus`, `ChargedByItsAgent` |
| `x402` | Two requests, one Safe, two atomic units to the cent, a revocation and crashes; hosts with a public address, a loopback one, or both: `OnlyPermittedReached`, `MovedWithinBudget`, `NothingHeldAfterRevoke`, `RequestEnds` |
| `engine` | Six policies, thirteen proposals, ten moments: `NoPaymentOnClaims`, `FirstPaymentByHuman`, `LimitPerRealWindow` |
| `evidence` | Two requests, two mandates, four events, two keys, one failure or crash: `OneChain`, `VerifierIsExact`, `DecisionIsOnRecord`, `RequestEnds` |
| `ceremonies` | Two requests, and challenges answered for whatever purpose: two principals with a mandate each and one policy hash between them, of whom one has a passkey and makes another; or one with a passkey, two made over challenges that are still open, and a signature for one grant, which racing requests use for both: `OneUsePerChallenge`, `ActivationIsSigned`, `EnrolmentIsProved` |
| `onboarding` | Two organizations, two agents, two principals, two mandates, four keys, one x402 account: `SpentWithinTenant`, `AgentsGainNothing`, `CompileEnds` |
| `v_cap_across_windows` | `WithinCap` is violated where the holds of a mandate cross a window; see below |
| `v_card_untouched_history` | `ApprovedIsHeld` is violated by two increments without history; see below |

### Bounds, and why they are enough

* `AgentPath`: `MaxAuths` rows, `MaxTime` instants, `MaxCrashes` lost requests or
  passes; `Unstable` names the mandates whose status and key change; `Room` lets
  a request in only while a row is left for it.  Amounts are 3 against a cap of
  5, so one payment fits and two do not; two authorizations are the least that
  can contend for a budget, two requests the least that can race.
* `CardRail`: `MaxAsks` requests for a payment (a first one and an increment,
  which is where a difference is decided), `MaxRows` rows, two instants, so that
  an increment and its first request may lie in two windows, two deliveries
  handled at once, and `MaxFailures` payments whose decision may be rolled back.
  `card` explores a part of that (`Bounds` in `MCCardRail`, a state constraint): one
  payment with everything, where an increment without history, a failure or a
  transaction (`MaxTransactions`, one, approved or forced) comes at the first instant,
  and an increment without history never with a transaction; or two payments of an
  active mandate, with their history and no transaction, since a transaction only
  takes money out of holds.  One increment without history is the most that keeps
  `ApprovedIsHeld`: `v_card_untouched_history` has two (`MaxAsks` 3), no limits
  (`WidePolicy`) and no constraint.
* `ApiClient`: three calls are a decision, what resolves it, and what spends it;
  two attempts are the least that race.  One call waits for an answer at a time
  (`MaxOpen`), while any number of handlers whose client gave up go on, so races
  are between attempts and calls and not between clients.  A second call may
  bring the key of the first, as its own agent or as another.  The clock starts
  with the first row, a step-up lapses after one instant.
* `X402Rail`: a Safe shared by the mandates is the demo's case and the harder
  one.  With `Scale` 2 an amount of 1 or 3 atomic units is not a whole number of
  cents, so rounding shows; the budget is 2 cents and the amounts reach 3.  One
  redirect, a deadline of one unit, two rows, two nonces.
* `PolicyEngine`: the moments are in the weeks around 1 January 2021 (the 53rd
  week of 2020 runs over the turn of the year) and 30 December 2024 (week 1 of
  2025), two minutes each; a payment is followed by at most one more (`MaxPaid`),
  which is what a limit and a first use need.  The proposals cover every kind of
  assertion (nothing, a listed host, a host beside it, below an owned zone, an
  account claimed and one vouched for, a name, a code), other currencies and
  categories, and attestations; the policies cover every rule.
* `EvidenceChain`: two transactions and three rows (two mandates and the
  organization) have every cycle of two waits; the chain may start with an event
  that names no key; a crash may change the key.  Every contiguous range,
  deletion, swap, edit, rehash and rewrite of the chain is tried on the verifier.
* `Ceremonies`: the run starts in two reachable states, so that the bounds go to the
  ceremonies that race, and a state constraint (`Bounds` in `MCCeremonies`) bounds each
  start on its own.  In `OneEnrolled` the first principal enrolled a passkey, and two
  more challenges and two more signatures are to come: one is enough for each ceremony
  and two for a race.  A grant used twice takes a first passkey, two more, and the
  signature for the grant: in `OneGrant` these are made, the challenges open, and the
  second principal has no part; grants of other principals are left to the theorem.
* `Onboarding`: one organization has a principal, an agent and its key already; the
  API is used once the instruction is answered, since a compiler shares no state with
  the tables; one authorization, one x402 account, one revoked key, one agent per
  mandate.

Every step of a request is an action of its own, so all interleavings are
covered.  Requests are interchangeable (`SYMMETRY`) where no liveness is checked.
Deadlock is checked in every run of `AgentPath`; the others may really stop, when
every payment ended, every call is answered or a bound is reached.

`ApprovedIsHeld` and `NothingHeldAfterClose` leave out payments in `failed`, and
`HoldsWithinCap` and `ApprovedWithinCount` runs in which something failed: a
request that could not be recorded and is delivered again later is decided as a
new increment, which the model shows to strand a hold or to lower one.  `chain` has no
crash, so `ReceiptsAreTrue` is checked over replays and expiries and not over those.

### Fairness

* `AgentPath` (`FairSpec`): weak fairness of `SweepList` and of `SweepOne` for
  each listed row, because `worker.ts` repeats its pass on a timer and catches
  what a row throws; and of `Tick`, because time passes.  Nobody owes the system
  a request, so no request step is fair.  Crashes are finitely many.
* `X402Rail`: weak fairness of `Serve`, the process's own steps and the passing
  of time.  Nothing is assumed of the resolver or the merchant: that a request
  ends although they stall is the deadline's doing.
* `EvidenceChain`: strong fairness of `Proceed` for each request.  Statements
  run, Postgres hands a row lock to those who wait for it, and it aborts one of a
  cycle after `deadlock_timeout`; weak fairness would let another request take a
  lock each time it is free.
* `Onboarding`: weak fairness of `Compile`: the model answers, with anything.

### Where code and documents differ

`v_cap_across_windows` ends in a counterexample to `WithinCap`, for a policy that
reserves nothing while a step-up waits and windows shorter than the wait.  The
approval's check of the spender's limit reads the window of the approval
(`service.ts:592`); the hold is booked in the window of the decision
(`prisma-repository.ts:596`).  D-85 says the hole is closed.

`v_card_untouched_history` ends in a counterexample to `ApprovedIsHeld`, on a card rail
that the code's own comment allows for (`stripe-issuing.ts:535`), one that sends two
increments with the history of the first request (`ForgetsHistory`): the redelivery of
one, which is not recognised as one, and the other pick the same revision before the
lock (`stripe-issuing.ts:556`), and the loser answers with the decision on the other
amount.  D-79 says two revisions never share a key however the rail behaves.

Known divergences, which the models follow and no run refutes.

What a document promises and the code does not keep, beside the two runs:

* a card rail that gives up on a request (`GivesUp`; the network waits 2 s,
  `stripe-issuing.ts:8`) and sends a larger one: the earlier one, handled after it, is
  decided at a negative difference (`stripe-issuing.ts:562`), and lowers the hold below
  what the network was told, while D-79 says the reservations sum to the amount.  With
  `GivesUp` TRUE, `ApprovedIsHeld` and `ApprovedWithinCount` fail;
* an increment without history that is redelivered after the closing event is decided
  anew on a payment that has ended, and nothing releases its hold; D-79 says a
  redelivery takes no new hold, D-83 that every terminal state gives the whole hold
  back.  Without `Told`, `NothingHeldAfterClose` fails in `card`;
* `getKeyDirectory` publishes the current key only
  (`evidence/prisma-repository.ts:163`), so after a rotation the events of an earlier
  key are refused although they name it, while D-53 says verification is "already
  correct for the day a rotation does happen".  `VerifierIsExact` says it of every
  range with such an event;
* POST /v1/enforcement/x402 asks that the instrument is of the key's organization
  (`server.ts:1327`) and nothing about the key's agent, so an agent that the mandate
  does not bind is granted a payment under it, while `docs/THREAT-MODEL.md:288` says a
  key reaches its own agent's authorizations and nothing else.  `Onboarding` has the
  route (`payByInstrument`) and `SpentWithinTenant` asks no binding of its rows; the
  transfer still takes the account's session key, which such an agent need not have.

Authority that is read once:

* neither the execute route nor `executePayment` reads the mandate
  (`server.ts:1152`), so a hold decided earlier is spent after a revocation; D-80
  says every path that can move money re-reads the mandate under the lock;
* an approver's gate is read before the locks (`service.ts:414`) and never again,
  so an approver revoked in between lends its authority;
* a TTL that lapses while an approval waits for the locks is approved: the
  route's `now` (`server.ts:1096`) and the test under the lock (`service.ts:523`)
  are the same instant, although the comment above that test says otherwise;
* `activateMandate` writes ACTIVE over any status, REVOKED included; card
  provisioning asks who accepted the terms and not whether the mandate is active.

Refunds and executions:

* a refund event that overtakes its capture is recorded as seen, credits nothing,
  and is never applied (`prisma-repository.ts:1054`), which
  `webhooks/service.ts:102-104` takes care to avoid for a missing row;
* executing an EXECUTED step-up answers 409 instead of replaying, a failed
  execution keeps its hold, and an AUTHORIZED hold never expires;
* a crash between an approval's commit and `writeStepUpEvidence` leaves an
  approval with no signed event, and a retry replays without writing one;
* under the locks an approval acts on the spender's cumulative limit only, not on
  its `max_count` (D-85 states the narrower check);
* a request that sees a lapsed step-up and loses the race for it throws out of
  the route (`prisma-repository.ts:496`), although `server.ts:1072` says a
  resolved step-up replays at 200;
* a request that is refused does not look up its key again under the lock
  (`service.ts:184-246`): one that raced another attempt is a 500.

Card rail:

* `handleIssuingTransaction` measures what was authorized by the hold that is
  left: when the closing event settled first, the transaction event of the same
  money books it again as never approved; D-84 says the sum cannot exceed what
  moved;
* an issuing decision that failed and is delivered again after the payment ended
  leaves a hold nothing releases;
* two closing events that both read their row before either commits capture the
  payment twice (`webhooks/service.ts:271` uses the earlier read);
* of several transactions of one payment the first releases the whole hold, and
  the others are booked as never approved;
* after a denied increment, a settlement captures on the denied row and in its
  window, not where the charge was authorized (D-72);
* a transaction that matches its authorization writes no evidence, although
  D-84's table says `captured` (`webhooks/service.ts:420`);
* an `issuing_transaction.created` whose `card` is not expanded is looked up by
  the network's card id as if it were an instrument id (`webhooks/service.ts:384`);
* two provisionings of one mandate make two cards, and one that dies after the
  first write leaves a live card all of whose payments are declined without a row.

x402: a transfer's deployment is waited for and its receipt's status is not read
(`x402-safe.ts:315`), so an instrument may name an address where no Safe is; the
address follows from the owners alone, so mandates with the same owners share
one; a hold that is not settled is never released.

Evidence:

* `evidence/prisma-repository.ts:12-14` says the organization's lock is taken
  first, `:87` that the order is always mandate, then organization, so that there
  is no cycle.  The code does the latter, and a cycle exists all the same: the
  rows of a decision share a lock on the organization's row through their foreign
  key, so two decisions of one organization that each wrote wait for each other's
  `FOR UPDATE`.  Postgres aborts one, and `RequestEnds` holds with that.

Ceremonies: no route issues a REGISTRATION challenge once a passkey exists, so a
grant leads to an enrolment only with a challenge issued before; two first
enrolments race past `hasCredentialForPrincipal`; the counter is stored
unconditionally, by whichever request comes last.

Client: `NetworkError` says the request never reached the server, which a broken
connection cannot tell; a cut body is a `TypeError` and not retried; the
in-memory `saveAuthorization` claims a key before it rejects a duplicate
reference and does not give it back; an `authorize` without a key of its own
that failed three times is, made again, a second hold.

Onboarding: POST /v1/agents/:id/keys does not look whose agent it is
(`server.ts:1520`), and Prisma's `createMandate` not whose agents it binds: neither
gives anybody authority, which is what `SpentWithinTenant` shows; an x402 account can
be made for a mandate that is not active; an agent bound to both mandates approves
its own step-up; a cycle of three approvers is accepted, as documented.

Engine: the coherence warning about thresholds fires at equality, where the
threshold can still be met; an asserted category code replaces the directory's
(D-14); `accounting.basis` is in the schema and nothing reads it.

## What is proved

Each theorem holds for every value of the constants that satisfies the
assumptions of its module (`...Assumption`), which TLC evaluates in each run, and
the hypothesis it names.

| Module | Theorem | Statement |
|---|---|---|
| `AgentPathProofs` | `Typing` | `[]TypeOK` |
| | `Invariance` | `[]Inv` |
| | `LedgerIsBalanced` | `[]LedgerBalanced`: the status of a row determines its entries; no hold outlives its authorization |
| | `MoneyIsBooked` | `[]MoneyMovedIsBooked` |
| | `EscalatedMoneyIsApproved` | `[]NoEscalatedMoneyAlone` |
| | `StepUpResolvedOnce` | `ResolvedOnce`, an action property |
| | `SpendIsNeverNegative` | `[]NeverNegative` |
| | `OneDecision` | `[]OneDecisionPerKey` |
| | `CreditsAreReported` | `[]NoPhantomCredit` |
| | `AuthorityIsLive` | `NoAuthorityOnceRevoked`, an action property |
| | `ReceiptsTellTheTruth` | `[]ReceiptsAreTrue` |
| | `Cap` | `[]WithinCap`, if `ReservesOrOneWindow` |
| | `Count` | `[]WithinCount`, if `WaitingHoldsItsSlot` |
| | `Refinement` | `KeepsGuarantee`: `AgentPath` implements `SpendGuarantee`, if `ReservesOrOneWindow` |
| `CardRailProofs` | `TypeOK` | `[]Typed`, the types of clock, requests, rows, deliveries, transactions and rail |
| | `MoneyIsBooked` | `[]MovedIsCaptured`, whatever the rail does |
| | `Orderliness` | `[]Inv`, if `OrderlyRail` |
| | `ApprovalsAreHeld` | `[]ApprovedIsHeld`, if `OrderlyRail` or `OneIncrement` |
| | `NothingStaysHeld` | `[]NothingHeldAfterClose`, if `OrderlyRail` |
| | `HoldsStayWithinCap` | `[]HoldsWithinCap`, if `OrderlyRail` |
| | `ApprovalsStayWithinCount` | `[]ApprovedWithinCount`, if `OrderlyRail` |
| `ApiClientProofs` | `Invariance` | `[]Inv` |
| | `ChargesAreTheAgents` | `ChargedByItsAgent`, an action property |
| | `CallsAreDecidedOnce` | `[]OneDecisionPerCall` |
| | `AnswersAreKept` | `[]AnswersStand` |
| | `LedgerSaysTheStatus` | `[]LedgerMatchesStatus` |
| `PolicyEngineProofs` | `NoPaymentIsOnClaims` | `[]NoPaymentOnClaims` |
| | `FirstPaymentIsByHuman` | `[]FirstPaymentByHuman` |
| | `LimitsHold` | `[]LimitPerRealWindow` |
| `X402RailProofs` | `NothingElseIsReached` | `[]OnlyPermittedReached` |
| | `MoneyStaysWithinBudget` | `[]MovedWithinBudget` |
| | `NothingIsHeldAfterRevoke` | `NothingHeldAfterRevoke`, an action property |
| `EvidenceChainProofs` | `ChainIsOne` | `[]OneChain` |
| | `NobodyIsTurnedAway` | `[]TipIsHeld`: the unique index never rejects an append |
| | `DecisionsAreOnRecord` | `DecisionIsOnRecord`, an action property |
| | `VerifierExact` | `[]VerifierIsExact` |
| `ControlPlaneProofs` | `Invariance` | `[]CeremonyInv`, of `CeremonySpec` |
| | `ChallengesAreUsedOnce` | `[]OneUsePerChallenge` |
| | `ActivationsAreSigned` | `[]ActivationIsSigned` |
| | `SignaturesServeTheirPurpose` | `[]SignedForThis` |
| | `EnrolmentsAreProved` | `[]EnrolmentIsProved` |
| | `SpendingStaysInTenant` | `[]SpentWithinTenant` |
| | `AuthorityIsTheirs` | `AgentsGainNothing`, an action property |

**Agent path.** `LedgerBalanced` alone is not inductive: an approval's commit must
know that the approver it remembers was named by the row's policy, a capture
that its row is still granted, and a refund that its row was charged.  `Inv` adds
these facts: `ApproverNamed`, `CallSound` (what a request remembers about a row
that stays true until it holds the lock) and that every charged row is granted.
`StepShape` shows that every step writes the entries of at most one
authorization in one of five ways (save, approve, release, capture, refund);
one lemma per way shows that it keeps a row sound; `RowsPersist` and
`RequestsMove` carry the requests' memory over a step.  `Cap` needs sums:
`LedgerSum` shows that a sum over the rows changes by the difference of the
one term that changed (`TotalChangeOne`); each of the five ways then adds nothing
to a window, or adds an amount whose fit was tested in the same action.  The
hypothesis `ReservesOrOneWindow` says that a mandate reserves budget when a
step-up is raised, or that its limit has one window.  It is needed:
`v_cap_across_windows` is the counterexample without it.

`Count` adds that a window's count, reservations included, is within `max_count`
(`CountWithin`): a write lets no row into a window's count, unless that count was
tested in the same action (`WriteTakesFreeSlot`).  An approval looks at the
spender's amount and not at its count (D-85), so a step-up must have held its slot
while it waited, or have no approver: `WaitingHoldsItsSlot`.  In `chain`, `m3` is
the mandate whose count binds, and the hypothesis is true of it.

`ReceiptsAreTrue` is about evidence written some steps after the transaction it
reports.  `ReceiptsHold` says the same of the event a request is still about to
write, and each write leads to a status of which the same events are true.
`CreditsAreReported` and `OneDecision` follow from the five ways a row is
written.  `Refinement` maps each of the five to the step of `SpendGuarantee` it
is (reserve, approve, move, settle, credit or end), shows that the sum per period
is the sum of the mapped amounts, and that every other action stutters; `Cap` is
what the abstract steps' guards ask for.

**Card rail.** A row's columns are never undone (`RowsStay`), so what one
transaction event captured stays captured: `MoneyIsBooked` sums that over
transactions and holds for any rail.  The other four rest on a description of each
payment none of whose decisions failed (`Orderly`).  `Decides`: its rows are the
requests that carried the instrument, one each, in their order, and a request
waits for its answer exactly as long as it has no row.  `ReadsHold`: what a
delivery read before the lock (revision and hold) is still so when it gets the
lock, unless its request has been recorded or money has moved.  `HoldsWhole`: an
approval's hold is released as a whole.  `HoldsApproved`: the holds are what the
network was told yes to, until money moves or the payment closes, and nothing
afterwards.  `ReleasedIsCaptured`: a slot whose hold is gone was taken by a capture
in a row as late.  The difference a delivery asks the engine for is then the
difference between what the payment holds and what it will hold, so the sums of
`HoldsStayWithinCap` grow by what was tested; for the count, a payment has at
most one slot per window and an increment's own payment is the one excluded.
`OrderlyRail` is an assumption about the network, not about the service.  Without
it two deliveries of one payment are in flight with different amounts and `ReadsHold`
fails; a payment in `failed` loses `Decides`, for the reason given under the bounds.

`ApprovalsAreHeld` has a second hypothesis, for the rail D-79 was written for:
`OneIncrement`, which waits for its answers and asks for a payment twice at most, with
a history or without.  There the rows are not the requests: one may be recorded under
a revision that is not its history, and decided again when it is redelivered.  Its own
invariant `IncreasedInv` says of a payment that one request at most is not on record,
that whoever waits for an answer will get the decision of that request or no approval
(`OneUndecided`), that until the increment the first row is the first request's
decision (`FirstDecided`), and that a delivery whose revision is still free has read
the revision and the hold that are so (`ReadsLatest`), for which a redelivery's
difference is never negative.  The two hypotheses are as wide as the property is:
with one increment more it fails (`v_card_untouched_history`), and with a rail that
does not wait (`GivesUp`) too.

**Client.** Handlers of the attempts of one call run side by side and know nothing of
each other, so none of the four properties is inductive.  `IndexSound` says that the
idempotency index and the rows with a key name each other: whoever finds a key finds
the row that was saved with it, and there is one.  `Told` says that a receipt, at its
caller or on its way there, is about an agent's row, for an `authorize` about the row
of its own key and request, and that the status in it is the row's or one the row has
come from (`Stands`).  `Handles` is what a handler remembers between two steps that no
other handler can take from it: one that was let through to the provider serves the
agent of its row, which is granted or executed.  Every write moves a status along its
lifecycle (`Moves`), which keeps both true (`Persist`, `CallStays`).
`LedgerMatchesStatus` is strengthened row by row to `RowSound`: whether a pending row
has a reservation of its own is decided by its mandate's `reserve_on_step_up`, so an
approval adds the hold exactly if there is none, and a card's row is never a step-up.
Each method of the store is then shown to add entries whose sums make up the
difference between the statuses (`RefusedLedger`, `ApprovedLedger`,
`ExecutedLedger`, `SettledLedger`, `ReleasedLedger`, `RefundedLedger`, `SavedLedger`).
No hypothesis beyond the constants' assumptions is needed, and nothing about the order
of the card network's events.

**Policy engine.** That a payment is let through means that no rule gave a
reason; from the merchant rules follows that each identifier is verified and, from
`resolveMerchant`, where a verified identifier comes from.  `FirstPaymentByHuman`
needs the history: if every identifier that was seen belongs to an earlier
payment, and the first of those had a human, then a new payment's does too.  `Inv`
is the two properties with the types of `paid` and `now`.

`LimitsHold` has an arithmetic half: all days of one real day, ISO week or month
have the same key (`RealWindowHasOneKey`).  For weeks that is because the key is
computed from the Thursday of the week, and for months because a day lies
between the first of its month and the next first (`MonthStartBounds`).  A payment
is tested against the sum under its key, which therefore covers its real window;
when a later payment joins the window of an earlier one, the sum over the earlier
one's window is part of what was tested.  Assumed are days within the years of
`Calendar` (`Reached`).

**x402.** The fetch's invariant adds `PinnedIsChecked`: between the check of an
address and the connection it stays the one that was checked.  The budget is in
cents and held, the money in atomic units and mined, so `LedgerInv` relates them:
a hold covers the atomic amount of its row (`HoldsCover`, from rounding up), a
row is settled by one request only (`OneSettler`), each row has at most one
transfer in the pool (`OneTransfer`), and the holds are within the limit.  Scaling
a sum (`TotalScaled`) gives the bound on what was mined.

**Evidence.** `IInv` describes each request by the stage of its list of statements
(`Sound`): which locks it holds, and that what it appended but did not commit is
the successor of the tip.  Only the holder of the organization's lock can change
the tip, and an event is appended only under it, so the tip stays what was read;
`OneChain` follows from the commit.  A decision's rows and event are in one
transaction, hence `DecisionIsOnRecord`.  `VerifierExact` adds that every event is
hashed over its content and signed by a key the process has had, which it names if it
is not the first (`Signed`).  Then an event passes the verifier's tests exactly if that
key is the current one, the only one published; a deletion or swap breaks sequence or link, an edit breaks the
hash, an event hashed anew breaks the next one's link, and a history rewritten to
its end has hashes that fit and a signature nobody gave.  `Rewritten` is a
recursive function; that it exists and satisfies its equation is shown by
induction over a set of numbers (`NatSetInduction`), since the library's schema
cannot be instantiated.

**Ceremonies.** `ConsumeChallenge` reads and closes a row in one statement.
`CeremonyInv` says that a row an act names is closed and that different acts name different
rows; that a request which is past its statement consumed the row it remembers;
and that a stored passkey was enrolled by an act.  `ActivationIsSigned` follows from
the row's policy hash, which the response signed.  `EnrolmentIsProved` counts:
passkeys enrolled by a request that saw one, requests that consumed a grant and
have not enrolled yet, and grants still open are together no more than the
signatures a grant was minted for (`Paid`), because each ceremony moves one unit
from one of these sets to the next or loses it.

`SignedForThis` rests on `Meant`: two rows with one challenge have one purpose, since a
random challenge is the number of its row and a hash is never one (`OnePurpose`); what
a person signed carries the challenge and the purpose of a row; and a request past
`ConsumeChallenge` holds a row of the purpose it serves, whose challenge is the one
its response was verified against.

**Onboarding.** Every id that a row names exists and never changes its organization
(`NamesWhatIs`, and tables that only grow), so what was compared when a row was
written stays true (`RowInTenant`): of an agent's row that key and mandate act for one
another (`ActsFor`), of an instrument's that the account is one of the mandate and the
key one of its organization (`AsksOn`), and of an execution that the key is the row's
agent's or the organization's own (`ActsOn`).  For `AgentsGainNothing` each way to
gain authority (a new key, a new mandate, an activation, a new account) is traced to
the organization's own credential that `Admitted` asked for.

Model-checked only: liveness (`LapsedStepUpsResolve`, the two `RequestEnds`,
`CompileEnds`) is out of the prover's reach, as are ENABLED and what a recursive
definition computes for every input, except by an induction over a set stated in the
proof.

## Plan

Done: all components of the service that have state of their own, and proofs of
every safety property of the runs.  Left: an abstract specification of a card payment
(told, held, moved), implemented by `CardRail` under an orderly rail; `Inv` of
`CardRailProofs` has what it needs.

## Not modelled

* Cryptography: hashes, signatures, WebAuthn and Safe transactions are perfect.
* Presentation: the dashboard, the site and its documents, and the demos are
  clients of the API; they keep nothing of the service's.
* Reads: listing routes, the mandate's description in words, exports, the SDK's
  reads and framework adapters change no state.
* The text of prompts, and what a language model makes of it: any reply is
  possible.
* The other in-memory repositories (agents, principals, instruments, keys,
  webhooks): maps with a create and a get.
* Parsing of environment variables, HTTP schemas and money strings, normalization
  of domains, and time zones: values arrive parsed and normalized.
* Postgres and Prisma themselves: row locks, unique indexes and the detection of
  deadlocks are modelled as the code relies on them.
