-------------------------- MODULE SpendGuarantee --------------------------
(***************************************************************************)
(* What delegating a budget promises a principal, with none of the         *)
(* machinery: a payment is refused, or granted at once or after waiting,   *)
(* money moves only for a granted payment and once, and in every period    *)
(* what a mandate has spent changes only when a payment is asked for,      *)
(* granted, dropped or refunded, and grows only up to its cap.             *)
(***************************************************************************)
EXTENDS Integers

CONSTANTS Payment, Mandate, Period, Cap

VARIABLES
  stage,  \* how far each payment got
  moved,  \* the payments whose money moved
  spent   \* what each mandate has spent or set aside in each period

vars == <<stage, moved, spent>>

Stage == {"absent", "refused", "waiting", "granted", "dropped", "settled"}

Init ==
  /\ stage = [p \in Payment |-> "absent"]
  /\ moved = {}
  /\ spent = [m \in Mandate |-> [w \in Period |-> 0]]

GrowsWithinCap ==
  /\ spent' \in [Mandate -> [Period -> Nat]]
  /\ \A m \in Mandate, w \in Period :
       spent[m][w] <= spent'[m][w] /\ (spent'[m][w] = spent[m][w] \/ spent'[m][w] <= Cap[m])

Shrinks ==
  /\ spent' \in [Mandate -> [Period -> Nat]]
  /\ \A m \in Mandate, w \in Period : spent'[m][w] <= spent[m][w]

Goes(p, from, to) == stage[p] \in from /\ stage' = [stage EXCEPT ![p] = to]

Refuse(p) == Goes(p, {"absent"}, "refused") /\ UNCHANGED <<moved, spent>>
Wait(p)   == Goes(p, {"absent"}, "waiting") /\ GrowsWithinCap /\ UNCHANGED moved
Grant(p)  == Goes(p, {"absent", "waiting"}, "granted") /\ GrowsWithinCap /\ UNCHANGED moved
Drop(p)   == Goes(p, {"waiting"}, "dropped") /\ Shrinks /\ UNCHANGED moved

Move(p) ==
  /\ stage[p] \in {"granted", "settled"}
  /\ moved' = moved \cup {p}
  /\ UNCHANGED <<stage, spent>>

\* Settling turns what was set aside into what was spent: no sum changes.
Settle(p) == p \in moved /\ Goes(p, {"granted"}, "settled") /\ UNCHANGED <<moved, spent>>

GiveBack(p) == p \in moved /\ Shrinks /\ UNCHANGED <<stage, moved>>

Next ==
  \E p \in Payment :
    Refuse(p) \/ Wait(p) \/ Grant(p) \/ Drop(p) \/ Move(p) \/ Settle(p) \/ GiveBack(p)

Spec == Init /\ [][Next]_vars

=============================================================================
