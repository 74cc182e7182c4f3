----------------------------- MODULE MCCardRail -----------------------------
(* Small instances of CardRail.                                             *)
EXTENDS CardRail, TLC

MCSymmetry == Permutations(Caller) \cup Permutations(Payment)

\* One payment an instant, and 3 in all.
CardPolicy ==
  [limits |-> {[max_amount |-> 9, max_count |-> 1, window |-> 1],
               [max_amount |-> 3, max_count |-> 9, window |-> 9]},
   per_transaction_max |-> 2, expires_at |-> 99, verdicts |-> {"ALLOW", "STEP_UP"}]

\* No rule but the ceiling of a payment.
WidePolicy ==
  [limits |-> {}, per_transaction_max |-> 3, expires_at |-> 99, verdicts |-> {"ALLOW"}]

----------------------------------------------------------------------------
(* The constraint of the passing run: one payment meets all the rail can do, *)
(* an increment that forgets its history, transactions and a failed decision *)
(* included; two payments, with three requests, meet each other in two       *)
(* windows of an active mandate.                                             *)

Asked == {p \in Payment : rail[p].asks > 0}
Moving == \E t \in Transaction : moved[t].amount > 0
Forgotten == \E p \in Payment : ~Told(p)

OnePayment ==
  /\ Cardinality(Asked) <= 1
  /\ Moving \/ Forgotten \/ failed # {} => clock = 0
  /\ Moving => status = "ACTIVE" /\ ~Forgotten

TwoPayments ==
  /\ Cardinality(Asked) = 2 /\ Cardinality(asked) <= 3
  /\ ~Moving /\ ~Forgotten /\ failed = {} /\ status = "ACTIVE"
  /\ \A q \in asked : q.named
  /\ \A i \in Used : row[i].decision # "STEP_UP"

Bounds == OnePayment \/ TwoPayments

=============================================================================
