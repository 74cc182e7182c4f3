---------------------------- MODULE MCAgentPath ----------------------------
(* Small instances of AgentPath.  m1 spends, m2 is an approver it names.    *)
EXTENDS AgentPathRefinement, TLC

CONSTANTS m1, m2, m3, c1, c2

MCSymmetry == Permutations(Caller)

\* Every outcome of the stateless rules for every amount, unless overridden.
AnyVerdict == [a \in Amount |-> {"ALLOW", "STEP_UP"}]
AllowAll == [a \in Amount |-> {"ALLOW"}]
StepUpAll == [a \in Amount |-> {"STEP_UP"}]

Base ==
  [max_amount |-> 5, max_count |-> 9, above_cumulative |-> 99, verdicts |-> AnyVerdict,
   expires_at |-> 99, ttl |-> 1, window |-> 2,
   reserve_on_step_up |-> TRUE, refunds_credit_budget |-> TRUE, approvers |-> {}]

\* A chain of approvers.  m1 holds budget for a pending step-up, in windows of
\* two instants; m2, which approves for m1, has one window and holds nothing
\* while its own step-ups wait; m3, which approves for m2, has room for the
\* amounts but for one transaction only.
ChainPolicy ==
  m1 :> [Base EXCEPT !.approvers = {m2}]
  @@ m2 :> [Base EXCEPT !.approvers = {m3}, !.reserve_on_step_up = FALSE, !.window = 9]
  @@ m3 :> [Base EXCEPT !.verdicts = AllowAll, !.max_amount = 20, !.max_count = 1]

\* A spender that holds nothing while it waits, across a window boundary.
TwoWindowPolicy ==
  m1 :> [Base EXCEPT !.approvers = {m2}, !.reserve_on_step_up = FALSE,
                     !.verdicts = StepUpAll, !.window = 1, !.ttl = 2]
  @@ m2 :> [Base EXCEPT !.verdicts = AllowAll, !.max_amount = 9, !.window = 9]

\* One spender, whose policy lapses, and its approver, which would itself have
\* to ask from the second payment on.
PairPolicy ==
  m1 :> [Base EXCEPT !.approvers = {m2}, !.expires_at = 2]
  @@ m2 :> [Base EXCEPT !.verdicts = AllowAll, !.above_cumulative = 4]

=============================================================================
