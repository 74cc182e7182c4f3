---------------------------- MODULE MCOnboarding ----------------------------
(* Two organizations, one of which has a principal, an agent and a key for   *)
(* it already, and as many rows of each table as two mandates need.          *)
EXTENDS Onboarding, TLC

CONSTANTS o1, o2

MCBound == [agents |-> 2, principals |-> 2, keys |-> 4, mandates |-> 2,
            instruments |-> 1, rows |-> 1, revoked |-> 1, binds |-> 1]
MCFounders == <<o1, o2>>

MCInit ==
  /\ compiling \in {[at |-> "asking", by |-> kind, attempts |-> 0] : kind \in IntentCompiler}
  /\ agents = <<o1>> /\ principals = <<o2>>
  /\ keys = <<KeyRow(o1, OrgWide), KeyRow(o2, OrgWide), KeyRow(o1, 1)>>
  /\ mandates = <<>> /\ instruments = <<>> /\ rows = <<>>
MCSpec == MCInit /\ [][Next]_vars /\ WF_vars(Compile)
=============================================================================
