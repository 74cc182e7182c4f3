---------------------------- MODULE Onboarding ----------------------------
(***************************************************************************)
(* How authority comes into being: an instruction is compiled to a policy, *)
(* an organization creates agents, principals, mandates and keys over the  *)
(* API, a principal authenticates a mandate, an account of the x402 rail   *)
(* is provisioned for it, and the keys are then used to spend, to approve  *)
(* and to execute.  Several organizations share one deployment and one set *)
(* of tables.                                                              *)
(*                                                                         *)
(* A request is one step: of all its handler reads, only the revocation of *)
(* its own key could come between its awaits.  An id is a position in its  *)
(* table, so a fresh id is one that nothing names yet.                     *)
(***************************************************************************)
EXTENDS Naturals, Sequences, FiniteSets

CONSTANTS
  Org,                \* organizations
  Policy,             \* what a policy may say, escalation.approvers apart
  Coherent,           \* those parsePolicy accepts
  HandWritten,        \* those a client submits without compiling them
  maxRepairAttempts,  \* attempts the compiler makes after its first
  Founders,           \* the organizations, in the order of their first credentials
  Bound,              \* bound: the rows of each table, revocations, agents of a mandate
  ChecksAgents        \* does the store's createMandate check the agents' organization?

OrgWide == 0    \* the agentId of an organization's own credential is null
NoKey == 0
NoMandate == 0
NoInstrument == 0

ASSUME OnboardingAssumption ==
  /\ Coherent \subseteq Policy /\ HandWritten \subseteq Policy
  /\ Founders \in Seq(Org)
  /\ maxRepairAttempts \in Nat /\ ChecksAgents \in BOOLEAN
  /\ Bound \in [{"agents", "principals", "keys", "mandates", "instruments", "rows",
                  "revoked", "binds"} -> Nat]

VARIABLES
  compiling,    \* one instruction at the compiler
  agents,       \* the organization of each agent
  principals,   \* the organization of each principal
  keys,         \* API keys, an organization's credentials and its agents'
  mandates,     \* mandates, with what binds them
  instruments,  \* x402 accounts, each of a mandate
  rows          \* authorizations

vars == <<compiling, agents, principals, keys, mandates, instruments, rows>>

AgentId == DOMAIN agents
KeyId == DOMAIN keys
MandateId == DOMAIN mandates
InstrumentId == DOMAIN instruments

KeyRow(org, agent) == [org |-> org, agent |-> agent, revoked |-> FALSE]

\* WAYSAFE_COMPILER chooses one.
IntentCompiler == {"anthropic", "fixture"}

\* The first credential of each organization is made outside the API.
FoundersInit ==
  /\ compiling \in {[at |-> "asking", by |-> kind, attempts |-> 0] : kind \in IntentCompiler}
  /\ mandates = <<>> /\ instruments = <<>> /\ rows = <<>>
  /\ keys = [k \in DOMAIN Founders |-> KeyRow(Founders[k], OrgWide)]

Init == FoundersInit /\ agents = <<>> /\ principals = <<>>

----------------------------------------------------------------------------
(* POST /v1/mandates/compile.                                               *)

ParsePolicy(p) == p \in Coherent

\* Mutant: a reply that does not parse is not counted as an attempt.
CountedLate(reply, n) == IF reply = "no envelope" THEN n ELSE n + 1
Counted(reply, n) == n + 1

\* An envelope, once a JSON object is found in what the model says.
parseEnvelope(reply) == {reply} \ {"no envelope"}

Usable(reply) ==
  \E e \in parseEnvelope(reply) : e = "needs_clarification" \/ (e \in Policy /\ ParsePolicy(e))

Answer(result) == [at |-> "answered", result |-> result]

Ask ==
  /\ compiling.at = "asking" /\ compiling.by = "anthropic"
  /\ compiling' = [compiling EXCEPT !.at = "waiting"]
  /\ UNCHANGED <<agents, principals, keys, mandates, instruments, rows>>

\* What the model says is the answer, or a reason to ask it once more.
Reply ==
  \E reply \in {"no envelope", "needs_clarification"} \cup Policy :
    LET n == Counted(reply, compiling.attempts)
    IN /\ compiling.at = "waiting"
       /\ compiling' = IF Usable(reply) THEN Answer(reply)
                       ELSE IF n <= maxRepairAttempts THEN [compiling EXCEPT !.at = "asking", !.attempts = n]
                       ELSE Answer("failed")
       /\ UNCHANGED <<agents, principals, keys, mandates, instruments, rows>>

\* FixtureIntentCompiler: what was recorded for the instruction, if anything was,
\* is parsed like what a model says, and nobody is asked again.
Replay ==
  \E recorded \in {"no envelope", "needs_clarification"} \cup Policy :
    /\ compiling.at = "asking" /\ compiling.by = "fixture"
    /\ compiling' = Answer(IF Usable(recorded) THEN recorded ELSE "failed")
    /\ UNCHANGED <<agents, principals, keys, mandates, instruments, rows>>

Compile == Ask \/ Reply \/ Replay

Compiled == IF compiling.at = "answered" THEN {compiling.result} \cap Policy ELSE {}

----------------------------------------------------------------------------
(* The preHandler.                                                          *)

\* Mutant: an agent may call what nobody thought to restrict (before D-64).
AgentRoutesWithKeys ==
  {"authorizations", "authorization", "execute", "step-up", "enforcement/x402", "mandate",
   "create key"}
\* "mandate" reads one and writes nothing.
AGENT_ACCESSIBLE_ROUTES ==
  {"authorizations", "authorization", "execute", "step-up", "enforcement/x402", "mandate"}

verifyKey(k) == k \in KeyId /\ ~keys[k].revoked

\* Bound: the API is used once the instruction is answered.
Admitted(k, route) ==
  /\ compiling.at = "answered"
  /\ verifyKey(k)
  /\ keys[k].agent # OrgWide => route \in AGENT_ACCESSIBLE_ROUTES

----------------------------------------------------------------------------
(* The administrative routes.                                               *)

createAgent(k) ==
  /\ Admitted(k, "agents") /\ Len(agents) < Bound["agents"]
  /\ agents' = Append(agents, keys[k].org)
  /\ UNCHANGED <<compiling, principals, keys, mandates, instruments, rows>>

createPrincipal(k) ==
  /\ Admitted(k, "principals") /\ Len(principals) < Bound["principals"]
  /\ principals' = Append(principals, keys[k].org)
  /\ UNCHANGED <<compiling, agents, keys, mandates, instruments, rows>>

\* POST /v1/agents/:id/keys takes the agent from the path and looks at no more.
createKey(k) ==
  /\ Admitted(k, "create key") /\ Len(keys) < Bound["keys"]
  /\ \E a \in AgentId : keys' = Append(keys, KeyRow(keys[k].org, a))
  /\ UNCHANGED <<compiling, agents, principals, mandates, instruments, rows>>

revokeKey(k) ==
  /\ Admitted(k, "revoke key")
  /\ Cardinality({n \in KeyId : keys[n].revoked}) < Bound["revoked"]
  /\ \E n \in KeyId :
       /\ keys[n].org = keys[k].org /\ ~keys[n].revoked
       /\ keys' = [keys EXCEPT ![n].revoked = TRUE]
  /\ UNCHANGED <<compiling, agents, principals, mandates, instruments, rows>>

getPrincipal(p, org) == p \in DOMAIN principals /\ principals[p] = org

\* Both stores look one approver ahead; nothing can name an id not yet made.
checkApproverCycle(m, approvers) ==
  m \notin approvers /\ \A n \in approvers : m \notin mandates[n].approvers

\* The store's createMandate.
Created(mandate) ==
  /\ ChecksAgents => \A a \in mandate.agents : agents[a] = mandate.org
  /\ checkApproverCycle(Len(mandates) + 1, mandate.approvers)
  /\ mandates' = Append(mandates, mandate)

\* POST /v1/mandates.  A policy is parsed again, wherever it comes from.
createMandate(k) ==
  \E p \in DOMAIN principals, S \in SUBSET AgentId, policy \in HandWritten \cup Compiled,
     approvers \in SUBSET MandateId :
    /\ Admitted(k, "mandates") /\ Len(mandates) < Bound["mandates"]
    /\ Cardinality(S) \in 1..Bound["binds"] /\ ParsePolicy(policy)
    /\ getPrincipal(p, keys[k].org)
    /\ Created([org |-> keys[k].org, principal |-> p, agents |-> S, policy |-> policy,
                approvers |-> approvers, active |-> FALSE])
    /\ UNCHANGED <<compiling, agents, principals, keys, instruments, rows>>

\* The principal signs; Ceremonies models what has to be proved for that.
activateMandate(k) ==
  /\ Admitted(k, "authenticate")
  /\ \E m \in MandateId :
       /\ mandates[m].org = keys[k].org /\ ~mandates[m].active
       /\ mandates' = [mandates EXCEPT ![m].active = TRUE]
  /\ UNCHANGED <<compiling, agents, principals, keys, instruments, rows>>

\* POST /v1/instruments/x402, for a mandate of the caller's, active or not.
provisionInstrument(k) ==
  /\ Admitted(k, "instruments/x402") /\ Len(instruments) < Bound["instruments"]
  /\ \E m \in MandateId :
       /\ mandates[m].org = keys[k].org
       /\ instruments' = Append(instruments, [org |-> keys[k].org, mandate |-> m])
  /\ UNCHANGED <<compiling, agents, principals, keys, mandates, rows>>

----------------------------------------------------------------------------
(* Spending, approving and executing.                                       *)

\* The handler looks at the key again, and that it is the named agent's.
verifyAgentKey(k, org, a) == verifyKey(k) /\ keys[k].org = org /\ keys[k].agent = a

\* Mutant: an agent of any organization, as long as the mandate binds it.
BoundToAnywhere(org, a, m) == a \in AgentId /\ a \in mandates[m].agents
BoundTo(org, a, m) == a \in AgentId /\ agents[a] = org /\ a \in mandates[m].agents

resolveMandateGate(org, a, m) ==
  mandates[m].org = org /\ mandates[m].active /\ BoundTo(org, a, m)

\* Who acts is an agent or an instrument (D-35).
Row(k, a, n, m, status) ==
  [org |-> keys[k].org, agent |-> a, instrument |-> n, mandate |-> m, key |-> k, status |-> status,
   approverKey |-> NoKey, approver |-> NoMandate, executor |-> NoKey]

\* Of the tables, a request to spend writes this one.
Spends(written) ==
  /\ rows' = written
  /\ UNCHANGED <<compiling, agents, principals, keys, mandates, instruments>>

\* POST /v1/authorizations names an agent and a mandate.  A mandate of another
\* organization is no mandate; whatever else fails is a recorded DENY.
authorize(k) ==
  \E a \in AgentId, m \in MandateId :
    LET org == keys[k].org IN
    /\ Admitted(k, "authorizations") /\ Len(rows) < Bound["rows"] /\ mandates[m].org = org
    /\ \E status \in IF resolveMandateGate(org, a, m) /\ verifyAgentKey(k, org, a)
                     THEN {"AUTHORIZED", "PENDING_STEP_UP", "DENIED"} ELSE {"DENIED"} :
         Spends(Append(rows, Row(k, a, NoInstrument, m, status)))

\* Mutant: an instrument of any organization.
FoundInstrumentAnywhere(k, n) == n \in InstrumentId
FoundInstrument(k, n) == n \in InstrumentId /\ instruments[n].org = keys[k].org

\* POST /v1/enforcement/x402 names an instrument.  Its mandate decides, whatever
\* agent the key is of; a step-up is a DENY on this rail.
payByInstrument(k) ==
  \E n \in InstrumentId :
    LET m == instruments[n].mandate IN
    /\ Admitted(k, "enforcement/x402") /\ Len(rows) < Bound["rows"] /\ FoundInstrument(k, n)
    /\ \E status \in IF mandates[m].active THEN {"AUTHORIZED", "DENIED"} ELSE {"DENIED"} :
         Spends(Append(rows, Row(k, OrgWide, n, m, status)))

\* An organization's credential acts on any of its rows, an agent's on its own.
agentMayActOn(r, k) ==
  /\ r.org = keys[k].org
  /\ keys[k].agent # OrgWide => keys[k].agent = r.agent

\* A pending row may turn out to have lapsed.
expireIfNeeded(status) ==
  IF status = "PENDING_STEP_UP" THEN {"PENDING_STEP_UP", "EXPIRED"} ELSE {status}

\* GET /v1/authorizations/:id.
readAuthorization(k) ==
  \E i \in DOMAIN rows :
    /\ Admitted(k, "authorization") /\ agentMayActOn(rows[i], k)
    /\ \E status \in expireIfNeeded(rows[i].status) :
         Spends([rows EXCEPT ![i].status = status])

\* POST /v1/authorizations/:id/step-up names an approver: its agent, its mandate.
resolveStepUp(k) ==
  \E i \in DOMAIN rows, a \in AgentId, m \in MandateId :
    LET org == keys[k].org IN
    /\ Admitted(k, "step-up")
    /\ rows[i].org = org /\ rows[i].status = "PENDING_STEP_UP"
    /\ \/ Spends([rows EXCEPT ![i].status = "EXPIRED"])
       \/ /\ verifyAgentKey(k, org, a) /\ resolveMandateGate(org, a, m)
          /\ m # rows[i].mandate /\ m \in mandates[rows[i].mandate].approvers
          /\ \E status \in {"STEP_UP_APPROVED", "STEP_UP_DECLINED"} :
               Spends([rows EXCEPT ![i].status = status, ![i].approverKey = k,
                                   ![i].approver = m])

\* POST /v1/authorizations/:id/execute, for what declared a payment method, which
\* nothing on the x402 rail does.  The provider may refuse.
execute(k) ==
  \E i \in DOMAIN rows :
    /\ Admitted(k, "execute") /\ agentMayActOn(rows[i], k)
    /\ \/ rows[i].status = "PENDING_STEP_UP" /\ Spends([rows EXCEPT ![i].status = "EXPIRED"])
       \/ /\ rows[i].status \in {"AUTHORIZED", "STEP_UP_APPROVED"}
          /\ rows[i].instrument = NoInstrument
          /\ Spends([rows EXCEPT ![i].status = "EXECUTED", ![i].executor = k])

Next ==
  \/ Compile
  \/ \E k \in KeyId :
       \/ createAgent(k) \/ createPrincipal(k) \/ createKey(k) \/ revokeKey(k)
       \/ createMandate(k) \/ activateMandate(k) \/ provisionInstrument(k)
       \/ authorize(k) \/ payByInstrument(k) \/ readAuthorization(k)
       \/ resolveStepUp(k) \/ execute(k)

\* The model answers each request the compiler makes of it.
Spec == Init /\ [][Next]_vars /\ WF_vars(Compile)

----------------------------------------------------------------------------
(* Properties.                                                              *)

\* Which key may spend under, or approve with, which mandate.
Authority ==
  {q \in KeyId \X MandateId :
     /\ verifyKey(q[1])
     /\ \/ resolveMandateGate(keys[q[1]].org, keys[q[1]].agent, q[2])
        \/ /\ mandates[q[2]].active
           /\ \E n \in InstrumentId : FoundInstrument(q[1], n) /\ instruments[n].mandate = q[2]}

\* Whatever other organizations create, and whomever they name in it, a
\* mandate's money is asked for, approved and executed with keys its own
\* organization made; its principal is that organization's too (D-1, OQ-9).  An
\* agent's row was asked for with a key of that agent, which the mandate binds
\* (D-67), approved with one of an agent the approver's mandate binds, and
\* executed by that agent or its organization (D-78).  A row of an instrument was
\* asked for on an account of that mandate; nothing binds an agent to an account.
SpentWithinTenant ==
  /\ \A i \in DOMAIN rows :
       LET r == rows[i]
           Uses(k, m) ==
             /\ keys[k].org = mandates[m].org /\ mandates[m].org = r.org
             /\ keys[k].agent \in mandates[m].agents /\ agents[keys[k].agent] = r.org
           UsesAccount(k, m) ==
             /\ keys[k].org = mandates[m].org /\ mandates[m].org = r.org
             /\ instruments[r.instrument] = [org |-> r.org, mandate |-> m]
       IN /\ r.status # "DENIED" =>
               IF r.instrument = NoInstrument THEN Uses(r.key, r.mandate) /\ r.agent = keys[r.key].agent
               ELSE UsesAccount(r.key, r.mandate)
          /\ r.approver # NoMandate => Uses(r.approverKey, r.approver)
          /\ r.executor # NoKey =>
               keys[r.executor].org = r.org /\ keys[r.executor].agent \in {OrgWide, r.agent}
  /\ \A m \in MandateId : principals[mandates[m].principal] = mandates[m].org

\* Nothing an agent's key can call makes any key able to spend under a mandate
\* or to approve with it: that takes a live credential of the organization's
\* own, whatever keys and mandates there are (D-64, D-65).
AgentsGainNothing ==
  [][\A q \in Authority' \ Authority :
       \E o \in KeyId :
         verifyKey(o) /\ keys[o].agent = OrgWide /\ keys[o].org = mandates'[q[2]].org]_vars

\* An instruction is answered after so many replies, whatever they are.
CompileEnds == <>(compiling.at = "answered")
=============================================================================
