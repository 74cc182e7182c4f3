---------------------------- MODULE PolicyEngine ----------------------------
(***************************************************************************)
(* The policy engine: evaluate(), rule by rule, over the payments of one    *)
(* mandate.  The engine is pure; what makes it hard is that every verdict   *)
(* reads what earlier verdicts let through, in windows of the calendar.     *)
(* Payments are decided one at a time here: AgentPath and CardRail have     *)
(* their races.                                                             *)
(***************************************************************************)
EXTENDS MerchantIdentity, Calendar, LedgerSum

CONSTANTS
  Policies,     \* the policies a mandate may have
  Actions,      \* the payments that may be proposed, for any of Amounts
  Amounts,      \* amounts of a payment, in minor units
  Moment,       \* the instants payments are proposed at: a day and a minute
  MinutesInDay, \* 1440
  MaxPaid       \* bound: payments of the mandate

ASSUME EngineNumbersAssumption == MinutesInDay \in Nat \ {0} /\ MaxPaid \in Nat
ASSUME EngineAmountsAssumption == Amounts \subseteq Nat \ {0}
ASSUME EngineActionsAssumption ==
  \A a \in Actions :
    /\ DOMAIN a = {"amount", "currency", "category", "attested", "merchant", "source"}
    /\ a.merchant \in MerchantAssertion /\ a.source \in MerchantAttestationSource
ASSUME EngineMomentAssumption ==
  /\ Moment \subseteq [day : Nat, minute : 0..(MinutesInDay - 1)]
  /\ \A m \in Moment : Reached(m.day)
\* CumulativeLimitSchema: minor units, and a count where one is given.
ASSUME EngineLimitsAssumption ==
  \A p \in Policies : \A l \in p.cumulative_limits :
    l.window \in Window /\ l.max_amount \in Nat /\ l.max_count \subseteq Nat

VARIABLES
  policy,  \* the mandate's policy
  now,     \* the wall clock, in the policy's time zone
  paid     \* the payments that were let through, in order

vars == <<policy, now, paid>>

\* Of an action: its amount and currency, the category and the attestation the
\* agent gives or None, and what it or the rail asserts of the merchant.
Action == {[action EXCEPT !.amount = amount] : action \in Actions, amount \in Amounts}

----------------------------------------------------------------------------
(* The spend snapshot.                                                      *)

InWindowOf(window, d) == {k \in DOMAIN paid : KeyOf(window, paid[k].day) = KeyOf(window, d)}

\* sumWhere.
AmountOf(payments) ==
  Total([k \in DOMAIN paid |-> IF k \in payments THEN paid[k].amount ELSE 0], Len(paid))

SpentIn(window) == AmountOf(InWindowOf(window, now.day))
CountIn(window) == Cardinality(InWindowOf(window, now.day))

\* Mutant: what a payment merely claimed is remembered as seen.
SeenClaims == UNION {{<<r.scheme, r.value>> : r \in IdentityRefs(paid[k].refs)} : k \in DOMAIN paid}

\* seenMerchants.
SeenMerchants == UNION {VerifiedKeys(paid[k].refs) : k \in DOMAIN paid}

----------------------------------------------------------------------------
(* The rules, each the set of reason codes it gives.  What a policy may omit *)
(* is a set of at most one element.                                         *)

Reason(holds, code) == IF holds THEN {code} ELSE {}

ExpiryReasons == Reason(now.day >= policy.expires_at, "DENY_MANDATE_EXPIRED")

CurrencyReasons(action) == Reason(action.currency # policy.currency, "DENY_CURRENCY_NOT_PERMITTED")

\* Both ends are inside; a window that ends before it starts spans midnight.
WithinHours(w, m) ==
  IF \E s \in w.start, e \in w.end : s > e
  THEN (\A s \in w.start : m >= s) \/ (\A e \in w.end : m <= e)
  ELSE (\A s \in w.start : m >= s) /\ (\A e \in w.end : m <= e)

TimeReasons ==
  Reason(\E w \in policy.time_window :
           \/ w.days_of_week # {} /\ Weekday(now.day) \notin w.days_of_week
           \/ ~WithinHours(w, now.minute),
         "DENY_OUTSIDE_TIME_WINDOW")

Unlisted(disposition, what) ==
  CASE disposition = "DENY" -> {"DENY_" \o what \o "_NOT_ALLOWLISTED"}
    [] disposition = "STEP_UP" -> {"STEP_UP_" \o what \o "_NOT_ALLOWLISTED"}
    [] disposition = "ALLOW" -> {}

ListReasons(rules, refs) ==
  IF Matched(rules.allow, refs) # {}
  THEN Reason(~VerifiedMatch(rules.allow, refs), "STEP_UP_MERCHANT_UNVERIFIED")
  ELSE Unlisted(rules.unlisted, "MERCHANT")
       \cup Reason(SummarizeTrust(refs) # "VERIFIED", "STEP_UP_MERCHANT_UNVERIFIED")

FirstUseReasons(rules, refs) ==
  Reason(/\ rules.step_up_on_first_use /\ SummarizeTrust(refs) = "VERIFIED"
         /\ VerifiedKeys(refs) \cap SeenMerchants = {},
         "STEP_UP_FIRST_TIME_MERCHANT")

\* evaluateMerchant.
MerchantReasons(refs) ==
  LET rules == policy.merchants IN
  IF SummarizeTrust(refs) = "UNKNOWN" THEN {"DENY_MERCHANT_UNRESOLVED"}
  ELSE IF OnDenylist(rules.deny, refs) THEN {"DENY_MERCHANT_BLOCKED"}
  ELSE ListReasons(rules, refs) \cup FirstUseReasons(rules, refs)

\* evaluateCategory: a blocked code, whoever supplied it, and the slug.
CategoryReasons(action, refs) ==
  LET rules == policy.categories IN
  Reason(\E r \in refs : r.scheme = "mcc" /\ r.value \in rules.deny_mcc, "DENY_CATEGORY_BLOCKED")
  \cup (IF action.category \in rules.deny THEN {"DENY_CATEGORY_BLOCKED"}
        ELSE IF action.category \in rules.allow THEN {}
        ELSE Unlisted(rules.unlisted, "CATEGORY"))

\* constraintSatisfied; an attestation is a number or a word, with its type.
Satisfied(constraint, actual) ==
  LET numbers == actual.type = "number" /\ constraint.value.type = "number" IN
  /\ actual # None
  /\ CASE constraint.operator = "equals" -> actual = constraint.value
       [] constraint.operator = "not_equals" -> actual # constraint.value
       [] constraint.operator = "lte" -> numbers /\ actual.value <= constraint.value.value
       [] constraint.operator = "gte" -> numbers /\ actual.value >= constraint.value.value
       [] constraint.operator = "in" -> actual \in constraint.value
       [] constraint.operator = "not_in" -> actual \notin constraint.value

ConstraintReasons(action) ==
  Reason(\E k \in policy.constraints : k.required /\ ~Satisfied(k, action.attested),
         "DENY_CONSTRAINT_NOT_SATISFIED")

LimitReasons(action) ==
  Reason(\E max \in policy.per_transaction_max : action.amount > max,
         "DENY_TRANSACTION_LIMIT_EXCEEDED")
  \cup Reason(\E l \in policy.cumulative_limits : SpentIn(l.window) + action.amount > l.max_amount,
              "DENY_CUMULATIVE_LIMIT_EXCEEDED")
  \cup Reason(\E l \in policy.cumulative_limits : \E max \in l.max_count : CountIn(l.window) + 1 > max,
              "DENY_VELOCITY_LIMIT_EXCEEDED")

\* evaluateStepUpThresholds: at a threshold, or above it.
ThresholdReasons(action) ==
  Reason(\E t \in policy.step_up.above_amount : action.amount >= t, "STEP_UP_AMOUNT_THRESHOLD")
  \cup Reason(\E t \in policy.step_up.above_cumulative : SpentIn(t.window) + action.amount >= t.amount,
              "STEP_UP_CUMULATIVE_THRESHOLD")

Reasons(action) ==
  LET refs == Refs(action.merchant, action.source) IN
  ExpiryReasons \cup CurrencyReasons(action) \cup TimeReasons
  \cup MerchantReasons(refs) \cup CategoryReasons(action, refs) \cup ConstraintReasons(action)
  \cup LimitReasons(action) \cup ThresholdReasons(action)

DenyCode ==
  {"DENY_MANDATE_EXPIRED", "DENY_CURRENCY_NOT_PERMITTED", "DENY_OUTSIDE_TIME_WINDOW",
   "DENY_MERCHANT_UNRESOLVED", "DENY_MERCHANT_BLOCKED", "DENY_MERCHANT_NOT_ALLOWLISTED",
   "DENY_CATEGORY_BLOCKED", "DENY_CATEGORY_NOT_ALLOWLISTED", "DENY_CONSTRAINT_NOT_SATISFIED",
   "DENY_TRANSACTION_LIMIT_EXCEEDED", "DENY_CUMULATIVE_LIMIT_EXCEEDED",
   "DENY_VELOCITY_LIMIT_EXCEEDED"}

decisionForReasonCode(code) == IF code \in DenyCode THEN "DENY" ELSE "STEP_UP"

\* evaluate: one DENY outweighs every STEP_UP, one STEP_UP an ALLOW.
Evaluate(action) ==
  LET decisions == {decisionForReasonCode(code) : code \in Reasons(action)} IN
  IF decisions = {} THEN "ALLOW" ELSE IF "DENY" \in decisions THEN "DENY" ELSE "STEP_UP"

----------------------------------------------------------------------------
(* Which policies a mandate may have.                                       *)

\* The errors of validatePolicyCoherence; its warnings stop nothing.
Coherent(p) ==
  /\ \A l, k \in p.cumulative_limits : l.window = k.window => l = k
  /\ \A n \in DOMAIN p.merchants.allow :
       p.merchants.allow[n].scheme # "mcc" /\ p.merchants.allow[n] \notin p.merchants.deny
  /\ p.categories.allow \cap p.categories.deny = {}

----------------------------------------------------------------------------
(* The payments of a mandate.                                               *)

\* parsePolicy is the only way in.
Init ==
  /\ policy \in {p \in Policies : Coherent(p)}
  /\ now \in Moment
  /\ paid = <<>>

Pay(action, by) ==
  paid' = Append(paid, [day |-> now.day, amount |-> action.amount, source |-> action.source,
                        refs |-> Refs(action.merchant, action.source), by |-> by])

\* A proposal is decided; what is stepped up is paid if a human says so, and
\* what is denied is never paid.
Propose(action) ==
  LET decision == Evaluate(action) IN
  /\ Len(paid) < MaxPaid /\ decision # "DENY"
  /\ Pay(action, IF decision = "ALLOW" THEN "engine" ELSE "human")
  /\ UNCHANGED <<policy, now>>

Advance(m) ==
  /\ m.day > now.day \/ (m.day = now.day /\ m.minute > now.minute)
  /\ now' = m
  /\ UNCHANGED <<policy, paid>>

Next ==
  \/ \E action \in Action : Propose(action)
  \/ \E m \in Moment : Advance(m)

Spec == Init /\ [][Next]_vars

----------------------------------------------------------------------------
(* Properties.                                                              *)

ByEngine == {k \in DOMAIN paid : paid[k].by = "engine"}

Listed(domain) ==
  \E e \in Directory : \E h \in e.hosts :
    domain = h \/ (e.include_subdomains /\ Len(domain) > Len(h) /\ SubSeq(domain, 1, Len(h)) = h)

\* D-3, D-34, D-69: no payment goes through without a human on an identity that
\* somebody merely claimed: each identifier of its merchant came from the rail
\* itself, or is a host the directory lists, and there is at least one.
NoPaymentOnClaims ==
  \A k \in ByEngine :
    /\ IdentityRefs(paid[k].refs) # {}
    /\ \A r \in IdentityRefs(paid[k].refs) :
         paid[k].source = "rail" \/ (r.scheme = "domain" /\ Listed(r.value))

\* step_up_on_first_use: of the payments of a merchant a human approved the
\* first, and a payment that only claimed to be that merchant's does not count.
FirstPaymentByHuman ==
  policy.merchants.step_up_on_first_use =>
    \A k \in ByEngine : \E j \in 1..(k - 1) :
      VerifiedKeys(paid[j].refs) \cap VerifiedKeys(paid[k].refs) # {}

Monday(d) == d - ((d + 3) % 7)
FirstOfMonth(d) == MonthStart(YearOf(d), MonthOf(d))
SameWindow(window, d, e) ==
  CASE window = "day" -> d = e
    [] window = "week" -> Monday(d) = Monday(e)
    [] window = "month" -> FirstOfMonth(d) = FirstOfMonth(e)

\* D-4: in no real day, week from Monday to Sunday, or month is more paid, or are
\* more payments made, than the limit, over the turn of a year as well: the
\* window keys name real weeks (windowKeys, weekKey).
LimitPerRealWindow ==
  \A l \in policy.cumulative_limits, k \in DOMAIN paid :
    LET mates == {j \in DOMAIN paid : SameWindow(l.window, paid[j].day, paid[k].day)} IN
      /\ AmountOf(mates) <= l.max_amount
      /\ \A max \in l.max_count : Cardinality(mates) <= max

=============================================================================
