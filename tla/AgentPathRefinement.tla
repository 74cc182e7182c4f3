------------------------ MODULE AgentPathRefinement ------------------------
(* The agent path keeps the promise of SpendGuarantee.                      *)
EXTENDS AgentPath

stageOf ==
  [NONE |-> "absent", DENIED |-> "refused", PENDING_STEP_UP |-> "waiting",
   AUTHORIZED |-> "granted", STEP_UP_APPROVED |-> "granted",
   STEP_UP_DECLINED |-> "dropped", EXPIRED |-> "dropped", EXECUTED |-> "settled"]

Guarantee ==
  INSTANCE SpendGuarantee WITH
    Payment <- Id, Mandate <- Mandate, Period <- Time,
    Cap <- [m \in Mandate |-> Policy[m].max_amount],
    stage <- [i \in Id |-> stageOf[auth[i].status]],
    moved <- charged,
    spent <- [m \in Mandate |-> [w \in Time |-> SpentIn(m, w)]]

\* Every behaviour of the agent path, with its stale reads, races, lost answers
\* and crashes, is a behaviour of the promise: authorize, approve, expire,
\* execute and refund each map to one of its steps or to none.
KeepsGuarantee == Guarantee!Spec

=============================================================================
