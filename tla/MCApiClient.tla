---------------------------- MODULE MCApiClient ----------------------------
(* An agent with a mandate that escalates, its approver's agent and mandate, *)
(* in one organization, and a card that pays from the approver's mandate.    *)
EXTENDS ApiClient, TLC

CONSTANTS o1, a1, a2, m1, m2

MCOrgOf == [a \in Agent |-> o1]
MCAgentOf == m1 :> a1 @@ m2 :> a2
MCLimit == m1 :> 1 @@ m2 :> 2
MCVerdicts == m1 :> {"ALLOW", "STEP_UP"} @@ m2 :> {"ALLOW"}
MCApprovers == m1 :> {m2} @@ m2 :> {}
MCAskers == [c \in Call |-> {IF c = 2 THEN <<a2, m1>> ELSE <<a1, m1>>}]
MCMakes == 1 :> {"authorize"} @@ 2 :> {"authorize", "resolveStepUp", "verify"}
           @@ 3 :> {"resolveStepUp", "execute"}
MCMandateOf == [p \in Card |-> m2]
MCCarries == [c \in Call |-> {1}]
MCWindow(t) == t
=============================================================================
