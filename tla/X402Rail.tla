------------------------------ MODULE X402Rail ------------------------------
(***************************************************************************)
(* The x402 rail: an agent names a resource, Waysafe itself fetches the     *)
(* payment requirement, decides it under the lock of the mandate that pays, *)
(* co-signs what it allowed and, given the agent's signature, submits the   *)
(* transfer of a 2-of-2 Safe.  The chain is external.  Nothing ever settles *)
(* or releases a hold of this rail, and a request has no idempotency key:   *)
(* each is a decision of its own.                                           *)
(***************************************************************************)
EXTENDS ResourceFetch, LedgerSum

CONSTANTS
  Instrument,  \* payer instruments, one mandate each
  Safe,        \* 2-of-2 accounts, each at the address its owners determine
  SafeOf,      \* the account of each instrument: the reuse deployer shares one
  Payee,       \* addresses a merchant may ask to be paid at
  NoPayee,     \* no address
  Atomic,      \* amounts in atomic units of the registered asset
  Scale,       \* atomic units in a cent: 10^(decimals - 2)
  Limit,       \* the mandates' limit, in cents
  MaxCount,    \* the mandates' limit, in payments
  Verdict,     \* what the rules that do not read the ledger may say
  MaxRows,     \* bound: Authorization rows ever written
  MaxNonce     \* bound: transactions of one Safe

Id == 1..MaxRows
Decision == {"ALLOW", "STEP_UP", "DENY"}

ASSUME RailNumbersAssumption ==
  Limit \in Nat /\ MaxCount \in Nat /\ MaxRows \in Nat /\ MaxNonce \in Nat /\ Scale \in Nat \ {0}
ASSUME RailAtomicAssumption == Atomic \subseteq Nat \ {0}
ASSUME RailNamesAssumption == SafeOf \in [Instrument -> Safe] /\ NoPayee \notin Payee
ASSUME RailVerdictAssumption == Verdict \subseteq Decision /\ Verdict # {}

VARIABLES
  status,       \* mandates.status of each instrument's mandate
  deployed,     \* external: the Safes that are on the chain
  provisioned,  \* the instruments that exist
  row,          \* authorizations, with the hold of each and its evidence event
  call,         \* the local state of each request
  nonce,        \* external: the next transaction of each Safe
  pool,         \* external: transactions that were broadcast
  mined         \* external: transactions that were executed

railVars == <<status, deployed, provisioned, row, call, nonce, pool, mined>>
vars == <<fetch, railVars>>

NoRow == [instrument |-> "none", decision |-> "NONE", status |-> "NONE", held |-> 0,
          payTo |-> NoPayee, atomic |-> 0]
Used == {i \in Id : row[i].decision # "NONE"}
NextId(i) == i \in Id \ Used /\ 1..(i - 1) \subseteq Used

\* The agent's half of a transfer: a signature over all of it.  A request brings
\* one or none, and it is not read before the settlement.
Signature == [payTo : Payee, atomic : Atomic, nonce : 0..(MaxNonce - 1)]

Idle == [at |-> "idle"]
Call ==
  {Idle}
  \cup [at : {"fetch"}, instrument : Instrument]
  \cup [at : {"sign", "settle"}, id : Id]
Becomes(c, q) == call' = [call EXCEPT ![c] = q]

Transfer == [id : Id, safe : Safe, nonce : 0..(MaxNonce - 1), payTo : Payee, atomic : Atomic]

----------------------------------------------------------------------------
(* What the merchant asks for, and the cents it is decided at.              *)

\* The first of the requirements the 402 response lists; with none listed a
\* placeholder whose asset is unknown.  `decimals` is the merchant's own claim.
Requirement ==
  [asset : {"unspecified", "unlisted", "registered"}, decimals : {"unsaid", "right", "wrong"},
   payTo : Payee \cup {NoPayee}, atomic : Atomic \cup {0}]

\* The registry knows one asset, by its chain and its address, and its scale.
resolveAsset(asset) == asset = "registered"

\* resolveX402Asset: the scale comes from the registry, and a claim that differs
\* from it is refused.  Every registered asset can be settled.
resolveX402Asset(q) == resolveAsset(q.asset) /\ q.decimals # "wrong"

\* parseRequest; 0 stands for an amount that is not a number.
Parses(q) == q.payTo # NoPayee /\ resolveX402Asset(q) /\ q.atomic # 0

\* Mutant: a fraction of a cent is charged to nobody.
AtomicToCentsDown(a) == a \div Scale

\* assetAtomicToCents rounds up (D-88).
AtomicToCents(a) == (a + Scale - 1) \div Scale

HeldBy(i) == Total([k \in Id |-> IF row[k].instrument = i THEN row[k].held ELSE 0], MaxRows)
CountBy(i) == Cardinality({k \in Used : row[k].instrument = i /\ row[k].decision = "ALLOW"})

\* Mutant: the mandate is taken to be as it was before the fetch (before D-80).
GateOpenBefore(i) == TRUE

\* The gate under the lock.
GateOpen(i) == status[i] = "ACTIVE"

\* evaluate: v is what the rules that do not read the ledger say.
DecisionFor(i, cents, v) ==
  IF \/ ~GateOpen(i)
     \/ HeldBy(i) + cents > Limit
     \/ CountBy(i) + 1 > MaxCount
  THEN "DENY" ELSE v

----------------------------------------------------------------------------
(* One request.                                                             *)

Init ==
  /\ fetch = [c \in Caller |-> NoFetch]
  /\ status = [i \in Instrument |-> "ACTIVE"]
  /\ deployed = {} /\ provisioned = {}
  /\ row = [i \in Id |-> NoRow]
  /\ call = [c \in Caller |-> Idle]
  /\ nonce = [s \in Safe |-> 0]
  /\ pool = {} /\ mined = {}

\* The route answers 404 for an instrument that is not there; its status is
\* never read.
Begin(c, i) ==
  /\ call[c] = Idle /\ i \in provisioned
  /\ StartFetch(c)
  /\ Becomes(c, [at |-> "fetch", instrument |-> i])
  /\ UNCHANGED <<status, deployed, provisioned, row, nonce, pool, mined>>

Fetch(c) == call[c].at = "fetch" /\ FetchStep(c) /\ UNCHANGED railVars

Leave(c) == Becomes(c, Idle) /\ fetch' = [fetch EXCEPT ![c] = NoFetch]

\* The row and its hold, of one transaction with the event that names the atomic
\* amount (D-88).  Only an approval is held for: a STEP_UP fails closed (D-33).
Row(i, q, decision) ==
  [instrument |-> i, decision |-> decision,
   status |-> IF decision = "ALLOW" THEN "AUTHORIZED" ELSE "DENIED",
   held |-> IF decision = "ALLOW" THEN AtomicToCents(q.atomic) ELSE 0,
   payTo |-> q.payTo, atomic |-> q.atomic]

Decided(c, q, decision) ==
  \E k \in Id :
    /\ NextId(k)
    /\ row' = [row EXCEPT ![k] = Row(call[c].instrument, q, decision)]
    /\ fetch' = [fetch EXCEPT ![c] = NoFetch]
    /\ IF decision = "ALLOW"
       THEN Becomes(c, [at |-> "sign", id |-> k])
       ELSE Becomes(c, Idle)
    /\ UNCHANGED <<status, deployed, provisioned, nonce, pool, mined>>

\* Under the mandate lock: decision, hold and evidence.
Decide(c) ==
  /\ fetch[c].stage = "answered"
  /\ \E q \in Requirement, v \in Verdict :
       /\ Parses(q)
       /\ Decided(c, q, DecisionFor(call[c].instrument, AtomicToCents(q.atomic), v))

Refusal == [asset |-> "unspecified", decimals |-> "unsaid", payTo |-> NoPayee, atomic |-> 0]

\* What cannot be parsed, and a URL the policy refuses (D-75), is a DENY on
\* record: it carries no amount the budget knows.
Deny(c) ==
  /\ fetch[c].stage \in {"answered", "refused"}
  /\ Decided(c, Refusal, "DENY")

\* The server did not answer with a 402 and a list, the connection broke, or the
\* transaction failed: nothing is recorded.
Abandon(c) ==
  /\ fetch[c].stage \in {"answered", "refused", "failed"}
  /\ Leave(c)
  /\ UNCHANGED <<status, deployed, provisioned, row, nonce, pool, mined>>

\* toResponse, after the commit, says what was allowed over Waysafe's signature.
CoSign(c) ==
  /\ call[c].at = "sign"
  /\ Becomes(c, [call[c] EXCEPT !.at = "settle"])
  /\ UNCHANGED <<fetch, status, deployed, provisioned, row, nonce, pool, mined>>

\* The signing service fails: the hold stays and nobody was answered.
SignFails(c) ==
  /\ call[c].at = "sign"
  /\ Leave(c)
  /\ UNCHANGED <<status, deployed, provisioned, row, nonce, pool, mined>>

\* settleTwoOfTwoTransfer: what was allowed, with the agent's nonce.
TransferOf(c, s) ==
  [id |-> call[c].id, safe |-> SafeOf[row[call[c].id].instrument], nonce |-> s.nonce,
   payTo |-> row[call[c].id].payTo, atomic |-> row[call[c].id].atomic]

\* The Safe is there, the agent's signature is over this transfer and the nonce is
\* the one expected: otherwise the estimate reverts.
Executable(t, s) ==
  t.safe \in deployed /\ s.payTo = t.payTo /\ s.atomic = t.atomic /\ t.nonce = nonce[t.safe]

\* The transaction is broadcast; whether the route can tell is another matter.
Settle(c) ==
  /\ call[c].at = "settle"
  /\ \E s \in Signature :
       /\ Executable(TransferOf(c, s), s)
       /\ pool' = pool \cup {TransferOf(c, s)}
  /\ Leave(c)
  /\ UNCHANGED <<status, deployed, provisioned, row, nonce, mined>>

\* No signature came, settlement is not configured, the endpoint is on another
\* chain, the estimate reverts: the answer says so and the hold stays.
LeaveUnsettled(c) ==
  /\ call[c].at = "settle"
  /\ Leave(c)
  /\ UNCHANGED <<status, deployed, provisioned, row, nonce, pool, mined>>

\* External: the Safe executes a transaction both owners signed, of its nonce.
Mine(t) ==
  /\ t \in pool \ mined /\ t.nonce = nonce[t.safe]
  /\ nonce' = [nonce EXCEPT ![t.safe] = @ + 1]
  /\ mined' = mined \cup {t}
  /\ UNCHANGED <<fetch, status, deployed, provisioned, row, call, pool>>

----------------------------------------------------------------------------
(* Instruments, mandates, and the process.                                  *)

\* deploySafeTwoOfTwo, the first thing a provisioning does unless it finds the
\* Safe at its address; if the process dies, no more comes of it.
DeploySafe(i) ==
  /\ i \notin provisioned /\ SafeOf[i] \notin deployed
  /\ deployed' = deployed \cup {SafeOf[i]}
  /\ UNCHANGED <<fetch, status, provisioned, row, call, nonce, pool, mined>>

\* provisionX402InstrumentForMandate writes the row once the deployer returned.
createInstrument(i) == provisioned' = provisioned \cup {i}

\* POST /v1/instruments/x402.  A deployment that was mined and reverted is taken
\* for one that was done: the row may name an address where no Safe is.
Provision(i) ==
  /\ i \notin provisioned
  /\ createInstrument(i)
  /\ UNCHANGED <<fetch, status, deployed, row, call, nonce, pool, mined>>

\* External: an operator's update of mandates.status.
Revoke(i) ==
  /\ status[i] = "ACTIVE"
  /\ status' = [status EXCEPT ![i] = "REVOKED"]
  /\ UNCHANGED <<fetch, deployed, provisioned, row, call, nonce, pool, mined>>

\* The process dies and starts again: the database and the chain go on.
Crash ==
  /\ \E c \in Caller : call[c] # Idle
  /\ call' = [c \in Caller |-> Idle]
  /\ fetch' = [c \in Caller |-> NoFetch]
  /\ UNCHANGED <<status, deployed, provisioned, row, nonce, pool, mined>>

Next ==
  \/ \E c \in Caller, i \in Instrument : Begin(c, i)
  \/ \E c \in Caller : Fetch(c)
  \/ \E c \in Caller : Decide(c)
  \/ \E c \in Caller : Deny(c)
  \/ \E c \in Caller : Abandon(c)
  \/ \E c \in Caller : CoSign(c)
  \/ \E c \in Caller : SignFails(c)
  \/ \E c \in Caller : Settle(c)
  \/ \E c \in Caller : LeaveUnsettled(c)
  \/ \E t \in pool : Mine(t)
  \/ \E i \in Instrument : DeploySafe(i)
  \/ \E i \in Instrument : Provision(i)
  \/ \E i \in Instrument : Revoke(i)
  \/ Crash

\* What the server does of itself: time passes, and its own steps are taken.
Serve(c) ==
  \/ (call[c].at = "fetch" /\ (Linger(c) \/ TimeOut(c)) /\ UNCHANGED railVars)
  \/ Deny(c) \/ Abandon(c) \/ CoSign(c) \/ SignFails(c) \/ Settle(c) \/ LeaveUnsettled(c)

Spec == Init /\ [][Next]_vars /\ \A c \in Caller : WF_vars(Serve(c))

----------------------------------------------------------------------------
(* Properties.                                                              *)

MovedBy(i) ==
  Total([k \in Id |-> IF row[k].instrument = i /\ \E t \in mined : t.id = k
                      THEN row[k].atomic * Cardinality({t \in mined : t.id = k}) ELSE 0], MaxRows)

\* D-4, D-68, D-88: what leaves a Safe for a mandate is never more than the
\* mandate's budget, counted in atomic units, however requests race, are retried
\* or are cut off, and though the budget is kept in cents.
MovedWithinBudget == \A i \in Instrument : MovedBy(i) <= Limit * Scale

\* D-80: from the instant a mandate is revoked nothing more is held for it, though
\* requests were fetching their requirement when it was.
NothingHeldAfterRevoke ==
  [][\A i \in Instrument : status[i] = "REVOKED" => HeldBy(i)' = HeldBy(i)]_vars

\* Every request ends, whatever its merchant withholds (D-89).
RequestEnds == \A c \in Caller : call[c] # Idle ~> call[c] = Idle

=============================================================================
