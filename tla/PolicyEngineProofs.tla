------------------------- MODULE PolicyEngineProofs -------------------------
(***************************************************************************)
(* What the policy engine's verdicts guarantee whatever policies, payments, *)
(* merchants and directory there are.                                       *)
(***************************************************************************)
EXTENDS PolicyEngine, FiniteSetTheorems

----------------------------------------------------------------------------
(* The directory and the trust of an identifier.                            *)

\* A domain that the directory has an entry for (lookupDomain) is a host it lists
\* or is below one of an entry that owns its zone.
LEMMA EntryIsListed ==
  ASSUME NEW domain \in Value, EntryFor(domain) # {}
  PROVE  Listed(domain)
<1>1. PICK e \in Directory :
        \/ domain \in e.hosts
        \/ e.include_subdomains /\ \E h \in e.hosts : DomainMatches(h, domain)
  BY DEF EntryFor
<1>2. CASE domain \in e.hosts
  BY <1>2 DEF Listed
<1>3. CASE e.include_subdomains /\ \E h \in e.hosts : DomainMatches(h, domain)
  <2>1. PICK h \in e.hosts : DomainMatches(h, domain)
    BY <1>3
  <2>2. h \in Seq(STRING) /\ domain \in Seq(STRING)
    BY DirectoryAssumption DEF MerchantDirectoryEntry
  <2>3. Len(h) \in Nat /\ Len(domain) \in Nat /\ h = SubSeq(h, 1, Len(h))
    BY <2>2
  <2>4. Len(h) <= Len(domain) /\ SubSeq(domain, 1, Len(h)) = h
    BY <2>1, <2>3 DEF DomainMatches, IsPrefix
  <2>5. CASE Len(h) = Len(domain)
    <3>1. domain = h
      BY <2>2, <2>4, <2>5
    <3> QED BY <1>3, <3>1 DEF Listed
  <2>6. CASE Len(h) # Len(domain)
    BY <1>3, <2>3, <2>4, <2>6 DEF Listed
  <2> QED BY <2>5, <2>6
<1> QED BY <1>1, <1>2, <1>3

\* resolveMerchant gives well-formed identifiers: a scheme, a value and a trust of
\* its own, never UNKNOWN.
LEMMA RefsType ==
  ASSUME NEW a \in MerchantAssertion, NEW source \in MerchantAttestationSource
  PROVE  Refs(a, source) \in SUBSET ResolvedMerchantRef
<1>1. \A s \in MerchantScheme : a[s] # None => a[s] \in Value
  BY DEF MerchantAssertion
<1>2. TrustOfAccount(source) \in {"VERIFIED", "ASSERTED"}
  BY DEF TrustOfAccount
<1>3. \A d : TrustOfDomain(d, source) \in {"VERIFIED", "ASSERTED"}
  BY DEF TrustOfDomain
<1>4. MccOf(a) \subseteq Value
  <2>1. a["mcc"] \in Value \cup {None}
    BY DEF MerchantAssertion, MerchantScheme
  <2>2. \A e \in Directory : e.mcc \in Value \cup {None}
    BY DirectoryAssumption DEF MerchantDirectoryEntry
  <2>3. EntryFor(a["domain"]) \subseteq Directory
    BY DEF EntryFor
  <2> QED BY <2>1, <2>2, <2>3 DEF MccOf
<1>5. \A s \in MerchantScheme, v \in Value, t \in {"VERIFIED", "ASSERTED"} :
        Ref(s, v, t) \in ResolvedMerchantRef
  BY DEF Ref, ResolvedMerchantRef, MerchantTrust
<1>6. Account \subseteq MerchantScheme /\ {"domain", "name", "mcc"} \subseteq MerchantScheme
  BY DEF MerchantScheme, Identity
<1>7. {Ref(s, a[s], TrustOfAccount(source)) : s \in {t \in Account : a[t] # None}}
        \subseteq ResolvedMerchantRef
  BY <1>1, <1>2, <1>5, <1>6
<1>8. {Ref("domain", d, TrustOfDomain(d, source)) : d \in {a["domain"]} \ {None}}
        \subseteq ResolvedMerchantRef
  BY <1>1, <1>3, <1>5, <1>6
<1>9. {Ref("name", n, "ASSERTED") : n \in {a["name"]} \ {None}} \subseteq ResolvedMerchantRef
  BY <1>1, <1>5, <1>6
<1>10. {Ref("mcc", m, "ASSERTED") : m \in MccOf(a)} \subseteq ResolvedMerchantRef
  BY <1>4, <1>5, <1>6
<1> QED BY <1>7, <1>8, <1>9, <1>10 DEF Refs

\* An identifier of identity that resolveMerchant calls VERIFIED came from the rail
\* or is a domain the directory has an entry for (D-3, D-34).
LEMMA VerifiedIsVouched ==
  ASSUME NEW a \in MerchantAssertion, NEW source \in MerchantAttestationSource,
         NEW r \in IdentityRefs(Refs(a, source)), r.trust = "VERIFIED"
  PROVE  source = "rail" \/ (r.scheme = "domain" /\ Listed(r.value))
<1>1. r \in Refs(a, source) /\ r.scheme \in Identity
  BY DEF IdentityRefs
<1>2. CASE r \in {Ref(s, a[s], TrustOfAccount(source)) : s \in {t \in Account : a[t] # None}}
  <2>1. r.trust = TrustOfAccount(source)
    BY <1>2 DEF Ref
  <2> QED BY <2>1 DEF TrustOfAccount
<1>3. CASE r \in {Ref("domain", d, TrustOfDomain(d, source)) : d \in {a["domain"]} \ {None}}
  <2>1. r = Ref("domain", a["domain"], TrustOfDomain(a["domain"], source)) /\ a["domain"] # None
    BY <1>3
  <2>2. a["domain"] \in Value
    BY <2>1 DEF MerchantAssertion, MerchantScheme, Identity
  <2>3. r.scheme = "domain" /\ r.value = a["domain"] /\ r.trust = TrustOfDomain(a["domain"], source)
    BY <2>1 DEF Ref
  <2>4. EntryFor(a["domain"]) # {} \/ source = "rail"
    BY <2>3 DEF TrustOfDomain
  <2> QED BY <2>2, <2>3, <2>4, EntryIsListed
<1>4. CASE r \in {Ref("name", n, "ASSERTED") : n \in {a["name"]} \ {None}}
  BY <1>4 DEF Ref
<1>5. CASE r \in {Ref("mcc", m, "ASSERTED") : m \in MccOf(a)}
  BY <1>5 DEF Ref
<1> QED BY <1>1, <1>2, <1>3, <1>4, <1>5 DEF Refs

----------------------------------------------------------------------------
(* The verdict.                                                             *)

\* A rule that gives no reason does not hold.
LEMMA NoReason ==
  ASSUME NEW code, NEW holds \in BOOLEAN, Reason(holds, code) = {}
  PROVE  ~holds
BY DEF Reason

\* evaluate allows what no rule has a reason against.
LEMMA AllowHasNoReason ==
  ASSUME NEW action, Evaluate(action) = "ALLOW"
  PROVE  Reasons(action) = {}
<1> DEFINE decisions == {decisionForReasonCode(code) : code \in Reasons(action)}
<1>1. decisions = {}
  <2>1. Evaluate(action) = IF decisions = {} THEN "ALLOW"
                           ELSE IF "DENY" \in decisions THEN "DENY" ELSE "STEP_UP"
    BY DEF Evaluate
  <2> HIDE DEF decisions
  <2> QED BY <2>1
<1> QED BY <1>1

\* With no reason of evaluateMerchant against it, a payment's merchant has an
\* identity, and nothing of that identity is left unverified (D-69).
LEMMA MerchantIsVerified ==
  ASSUME NEW refs, MerchantReasons(refs) = {}
  PROVE  /\ IdentityRefs(refs) # {}
         /\ \A r \in IdentityRefs(refs) : r.trust = "VERIFIED"
<1> DEFINE rules == policy.merchants
<1>1. SummarizeTrust(refs) # "UNKNOWN" /\ ~OnDenylist(rules.deny, refs)
  BY DEF MerchantReasons
<1>2. ListReasons(rules, refs) = {}
  BY <1>1 DEF MerchantReasons
<1>3. CASE Matched(rules.allow, refs) # {}
  <2>1. Reason(~VerifiedMatch(rules.allow, refs), "STEP_UP_MERCHANT_UNVERIFIED") = {}
    BY <1>2, <1>3 DEF ListReasons
  <2>2. VerifiedMatch(rules.allow, refs)
    BY <2>1 DEF Reason
  <2>3. UnverifiedIdentityRefs(refs) = {}
    BY <2>2 DEF VerifiedMatch
  <2> DEFINE first == CHOOSE k \in Matched(rules.allow, refs) :
                        \A j \in Matched(rules.allow, refs) : k <= j
  <2>4. PICK r \in refs :
          rules.allow[first].scheme \in Identity /\ RefMatches(rules.allow[first], r)
    BY <2>2 DEF VerifiedMatch
  <2>5. r \in IdentityRefs(refs)
    <3> HIDE DEF first
    <3> QED BY <2>4 DEF RefMatches, IdentityRefs
  <2> QED BY <2>3, <2>5 DEF UnverifiedIdentityRefs
<1>4. CASE Matched(rules.allow, refs) = {}
  <2>1. Reason(SummarizeTrust(refs) # "VERIFIED", "STEP_UP_MERCHANT_UNVERIFIED") = {}
    BY <1>2, <1>4 DEF ListReasons
  <2>2. SummarizeTrust(refs) = "VERIFIED"
    BY <2>1 DEF Reason
  <2>3. IdentityRefs(refs) # {} /\ UnverifiedIdentityRefs(refs) = {}
    BY <2>2 DEF SummarizeTrust
  <2> QED BY <2>3 DEF UnverifiedIdentityRefs
<1> QED BY <1>3, <1>4

\* With no reason of evaluateMerchant against it, a merchant of a policy that
\* steps up on first use has been seen, by a verified identifier.
LEMMA MerchantIsSeen ==
  ASSUME NEW refs, MerchantReasons(refs) = {}, policy.merchants.step_up_on_first_use
  PROVE  VerifiedKeys(refs) \cap SeenMerchants # {}
<1> DEFINE rules == policy.merchants
<1>1. SummarizeTrust(refs) # "UNKNOWN" /\ ~OnDenylist(rules.deny, refs)
  BY DEF MerchantReasons
<1>2. FirstUseReasons(rules, refs) = {}
  BY <1>1 DEF MerchantReasons
<1>3. SummarizeTrust(refs) = "VERIFIED"
  <2>1. IdentityRefs(refs) # {} /\ UnverifiedIdentityRefs(refs) = {}
    BY MerchantIsVerified DEF UnverifiedIdentityRefs
  <2> QED BY <1>1, <2>1 DEF SummarizeTrust
<1>4. ~(rules.step_up_on_first_use /\ SummarizeTrust(refs) = "VERIFIED"
        /\ VerifiedKeys(refs) \cap SeenMerchants = {})
  BY <1>2 DEF FirstUseReasons, Reason
<1> QED BY <1>3, <1>4
----------------------------------------------------------------------------
(* The calendar: a real window has one key.                                 *)

\* What YearOf and MonthOf say of a day the calendar reaches.
LEMMA YearOfReached ==
  ASSUME NEW d \in Nat, Reached(d)
  PROVE  /\ YearOf(d) \in Nat /\ YearOf(d) >= 1970
         /\ YearStart(YearOf(d)) <= d /\ d < YearStart(YearOf(d) + 1)
<1>1. \E y \in FirstYear..LastYear : YearStart(y) <= d /\ d < YearStart(y + 1)
  BY DEF Reached
<1>2. YearOf(d) \in FirstYear..LastYear /\ YearStart(YearOf(d)) <= d /\ d < YearStart(YearOf(d) + 1)
  <2> HIDE DEF YearStart
  <2> QED BY <1>1 DEF YearOf
<1> QED BY <1>2, CalendarAssumption

\* A year starts after the whole of the year before.
LEMMA YearsFollow ==
  ASSUME NEW y \in Nat, NEW z \in Nat, 1970 <= y, y < z
  PROVE  /\ YearStart(y) \in Int /\ YearStart(z) \in Int
         /\ YearStart(y) + 364 <= YearStart(z)
<1> DEFINE x == y - 1
           w == z - 1
<1>1. x \in Nat /\ w \in Nat /\ x + 1 <= w
  OBVIOUS
<1> HIDE DEF x, w
<1>2. x \div 4 \in Int /\ w \div 4 \in Int /\ x \div 4 <= w \div 4
  BY <1>1
<1>3. x \div 100 \in Int /\ w \div 100 \in Int /\ w \div 100 <= x \div 100 + (w - x)
  BY <1>1
<1>4. x \div 400 \in Int /\ w \div 400 \in Int /\ x \div 400 <= w \div 400
  BY <1>1
<1>5. /\ LeapYearsBefore(y) = x \div 4 - x \div 100 + x \div 400
      /\ LeapYearsBefore(z) = w \div 4 - w \div 100 + w \div 400
  BY DEF LeapYearsBefore, x, w
<1>6. LeapYearsBefore(y) \in Int /\ LeapYearsBefore(z) \in Int
      /\ LeapYearsBefore(y) <= LeapYearsBefore(z) + (w - x)
  BY <1>1, <1>2, <1>3, <1>4, <1>5
<1>7. LeapYearsBefore(1970) \in Int
  BY DEF LeapYearsBefore
<1>8. w - x = z - y
  BY DEF x, w
<1> QED BY <1>6, <1>7, <1>8 DEF YearStart

\* Where a month starts within its year.
LEMMA MonthsFollow ==
  /\ \A m \in 1..12 : MonthOffset[m] \in Nat /\ MonthOffset[m] <= 334
  /\ \A m, k \in 1..12 : m < k => MonthOffset[m] + 28 <= MonthOffset[k]
<1>1. /\ MonthOffset[1] = 0 /\ MonthOffset[2] = 31 /\ MonthOffset[3] = 59 /\ MonthOffset[4] = 90
      /\ MonthOffset[5] = 120 /\ MonthOffset[6] = 151 /\ MonthOffset[7] = 181
      /\ MonthOffset[8] = 212 /\ MonthOffset[9] = 243 /\ MonthOffset[10] = 273
      /\ MonthOffset[11] = 304 /\ MonthOffset[12] = 334
  BY DEF MonthOffset
<1>2. \A m \in 1..12 : m \in {1, 2, 3, 4, 5, 6, 7, 8, 9, 10, 11, 12}
  OBVIOUS
<1> QED BY <1>1, <1>2

LEMMA MonthStartBounds ==
  ASSUME NEW y \in Nat, 1970 <= y, NEW m \in 1..12
  PROVE  /\ MonthStart(y, m) \in Int
         /\ YearStart(y) <= MonthStart(y, m) /\ MonthStart(y, m) <= YearStart(y) + 335
<1>1. YearStart(y) \in Int
  BY YearsFollow, y + 1 \in Nat, y < y + 1
<1> HIDE DEF YearStart
<1> QED BY <1>1, MonthsFollow DEF MonthStart

\* Every day of a year is in a month of it.
LEMMA MonthOfReached ==
  ASSUME NEW d \in Nat, Reached(d)
  PROVE  MonthOf(d) \in 1..12
<1> DEFINE y == YearOf(d)
           Starts(m) == MonthStart(y, m)
<1>1. y \in Nat /\ y >= 1970 /\ YearStart(y) <= d
  BY YearOfReached
<1> HIDE DEF y
<1>2. \A m \in 1..12 : Starts(m) \in Int
  BY <1>1, MonthStartBounds
<1>3. Starts(1) = YearStart(y)
  <2>1. YearStart(y) \in Int
    BY <1>1, YearsFollow, y + 1 \in Nat, y < y + 1
  <2>2. MonthOffset[1] = 0
    BY DEF MonthOffset
  <2> QED BY <2>1, <2>2 DEF MonthStart
<1> HIDE DEF Starts
<1>4. \E m \in 1..12 : Starts(m) <= d /\ (m < 12 => d < Starts(m + 1))
  <2>1. \A m \in 1..11 : Starts(m) \in Int /\ Starts(m + 1) \in Int
    BY <1>2
  <2> SUFFICES ASSUME \A m \in 1..12 : ~(Starts(m) <= d /\ (m < 12 => d < Starts(m + 1)))
               PROVE  FALSE
    OBVIOUS
  <2>2. ASSUME NEW m \in 1..11, Starts(m) <= d PROVE Starts(m + 1) <= d
    BY <2>1, <2>2
  <2>3. Starts(1) <= d
    BY <1>1, <1>3
  <2>4. Starts(2) <= d /\ Starts(3) <= d /\ Starts(4) <= d
    BY <2>2, <2>3
  <2>5. Starts(5) <= d /\ Starts(6) <= d /\ Starts(7) <= d
    BY <2>2, <2>4
  <2>6. Starts(8) <= d /\ Starts(9) <= d /\ Starts(10) <= d
    BY <2>2, <2>5
  <2>7. Starts(11) <= d /\ Starts(12) <= d
    BY <2>2, <2>6
  <2> QED BY <2>7
<1>5. MonthOf(d) = CHOOSE m \in 1..12 : Starts(m) <= d /\ (m < 12 => d < Starts(m + 1))
  BY DEF MonthOf, Starts, y
<1> QED BY <1>4, <1>5

\* The days of one real day, week or month have one key, over the turn of a year
\* as well (windowKeys, weekKey): the week is numbered in the year of its Thursday,
\* which all of its days share.
LEMMA RealWindowHasOneKey ==
  ASSUME NEW window \in Window, NEW d \in Nat, NEW e \in Nat, Reached(d), Reached(e),
         SameWindow(window, d, e)
  PROVE  KeyOf(window, d) = KeyOf(window, e)
<1>1. CASE window = "day"
  BY <1>1 DEF SameWindow
<1>2. CASE window = "week"
  <2>1. Monday(d) = Monday(e)
    BY <1>2 DEF SameWindow
  <2>2. \A x \in Nat : Thursday(x) = Monday(x) + 3
    BY DEF Thursday, Monday, IsoDay, Weekday
  <2>3. Thursday(d) = Thursday(e)
    BY <2>1, <2>2
  <2>4. WeekKey(d) = WeekKey(e)
    BY <2>3 DEF WeekKey
  <2> QED BY <1>2, <2>4 DEF KeyOf
<1>3. CASE window = "month"
  <2> DEFINE y == YearOf(d)
             z == YearOf(e)
             m == MonthOf(d)
             k == MonthOf(e)
  <2>1. MonthStart(y, m) = MonthStart(z, k)
    BY <1>3 DEF SameWindow, FirstOfMonth
  <2>2. y \in Nat /\ z \in Nat /\ y >= 1970 /\ z >= 1970 /\ m \in 1..12 /\ k \in 1..12
    BY YearOfReached, MonthOfReached
  <2> HIDE DEF y, z, m, k
  <2>3. y = z
    <3>1. ASSUME NEW a \in Nat, NEW b \in Nat, 1970 <= a, a < b, NEW i \in 1..12, NEW j \in 1..12
          PROVE  MonthStart(a, i) # MonthStart(b, j)
      <4>1. YearStart(a) \in Int /\ YearStart(b) \in Int /\ YearStart(a) + 364 <= YearStart(b)
        BY <3>1, YearsFollow
      <4>2. MonthStart(a, i) \in Int /\ MonthStart(a, i) <= YearStart(a) + 335
        BY <3>1, MonthStartBounds
      <4>3. MonthStart(b, j) \in Int /\ YearStart(b) <= MonthStart(b, j)
        BY <3>1, MonthStartBounds
      <4> QED BY <4>1, <4>2, <4>3
    <3>2. y < z \/ z < y \/ y = z
      BY <2>2
    <3> QED BY <2>1, <2>2, <3>1, <3>2
  <2>4. m = k
    <3>1. YearStart(y) \in Int
      BY <2>2, YearsFollow, y + 1 \in Nat, y < y + 1
    <3>2. ASSUME NEW i \in 1..12, NEW j \in 1..12, i < j PROVE MonthStart(y, i) # MonthStart(y, j)
      <4>1. MonthOffset[i] \in Nat /\ MonthOffset[j] \in Nat /\ MonthOffset[i] + 28 <= MonthOffset[j]
        BY <3>2, MonthsFollow
      <4> QED BY <3>1, <3>2, <4>1 DEF MonthStart
    <3>3. m < k \/ k < m \/ m = k
      BY <2>2
    <3> QED BY <2>1, <2>2, <2>3, <3>2, <3>3
  <2>5. MonthKey(d) = MonthKey(e)
    BY <2>3, <2>4 DEF MonthKey, y, z, m, k
  <2> QED BY <1>3, <2>5 DEF KeyOf
<1> QED BY <1>1, <1>2, <1>3 DEF Window

----------------------------------------------------------------------------
(* The payments.                                                            *)

Payment ==
  [day : {m.day : m \in Moment}, amount : Nat, source : MerchantAttestationSource,
   refs : SUBSET ResolvedMerchantRef, by : {"engine", "human"}]

Typed == paid \in Seq(Payment) /\ now \in Moment /\ policy \in Policies

\* What the induction needs is that the payments are a sequence: both properties
\* speak of each payment and of those before it, which never change.
Inv == Typed /\ NoPaymentOnClaims /\ FirstPaymentByHuman

\* An action that is proposed has an amount, an assertion and its source.
LEMMA ActionFields ==
  ASSUME NEW action \in Action
  PROVE  /\ action.amount \in Nat
         /\ action.merchant \in MerchantAssertion
         /\ action.source \in MerchantAttestationSource
<1>1. PICK a \in Actions, amount \in Amounts : action = [a EXCEPT !.amount = amount]
  BY DEF Action
<1>2. {"amount", "merchant", "source"} \subseteq DOMAIN a
  BY EngineActionsAssumption
<1>3. action.amount = amount /\ action.merchant = a.merchant /\ action.source = a.source
  BY <1>1, <1>2
<1> QED BY <1>3, EngineActionsAssumption, EngineAmountsAssumption

\* A proposal appends one payment that carries the merchant's identifiers as they
\* were resolved.
LEMMA ProposeAppends ==
  ASSUME NEW action \in Action, Propose(action), Typed
  PROVE  \E p \in Payment :
           /\ paid' = Append(paid, p)
           /\ p.refs = Refs(action.merchant, action.source) /\ p.source = action.source
           /\ p.day = now.day /\ p.amount = action.amount
           /\ p.by = "engine" => Evaluate(action) = "ALLOW"
<1> DEFINE refs == Refs(action.merchant, action.source)
           by == IF Evaluate(action) = "ALLOW" THEN "engine" ELSE "human"
           p == [day |-> now.day, amount |-> action.amount, source |-> action.source,
                 refs |-> refs, by |-> by]
<1>1. paid' = Append(paid, p)
  BY DEF Propose, Pay
<1>2. now.day \in {m.day : m \in Moment}
  BY DEF Typed
<1>3. refs \in SUBSET ResolvedMerchantRef
  BY RefsType, ActionFields
<1>4. action.amount \in Nat /\ action.source \in MerchantAttestationSource
  BY ActionFields
<1>5. by \in {"engine", "human"} /\ (by = "engine" => Evaluate(action) = "ALLOW")
  OBVIOUS
<1> HIDE DEF refs, by
<1>6. p \in Payment
  BY <1>2, <1>3, <1>4, <1>5 DEF Payment
<1>7. /\ p.refs = refs /\ p.source = action.source /\ p.by = by
      /\ p.day = now.day /\ p.amount = action.amount
  OBVIOUS
<1> HIDE DEF p
<1> QED BY <1>1, <1>5, <1>6, <1>7 DEF refs

\* The payments so far stay, at their places, and the new one is the last.
LEMMA Appended ==
  ASSUME Typed, NEW p \in Payment, paid' = Append(paid, p)
  PROVE  /\ paid' \in Seq(Payment)
         /\ DOMAIN paid' = DOMAIN paid \cup {Len(paid) + 1}
         /\ \A k \in DOMAIN paid : k \in Nat /\ k < Len(paid) + 1 /\ paid'[k] = paid[k]
         /\ paid'[Len(paid) + 1] = p
BY DEF Typed

\* What evaluate lets through rests on no claim: its merchant has an identity, and
\* the rail or the directory vouches for all of it.
LEMMA AllowedIsVouched ==
  ASSUME NEW action \in Action, Evaluate(action) = "ALLOW",
         NEW refs, refs = Refs(action.merchant, action.source)
  PROVE  /\ MerchantReasons(refs) = {}
         /\ IdentityRefs(refs) # {}
         /\ \A r \in IdentityRefs(refs) :
              action.source = "rail" \/ (r.scheme = "domain" /\ Listed(r.value))
<1>1. MerchantReasons(refs) = {}
  BY AllowHasNoReason DEF Reasons
<1>2. IdentityRefs(refs) # {} /\ \A r \in IdentityRefs(refs) : r.trust = "VERIFIED"
  BY <1>1, MerchantIsVerified
<1>3. action.merchant \in MerchantAssertion /\ action.source \in MerchantAttestationSource
  BY ActionFields
<1> QED BY <1>1, <1>2, <1>3, VerifiedIsVouched

LEMMA InvInit == Init => Inv
<1> SUFFICES ASSUME Init PROVE Inv
  OBVIOUS
<1>1. paid = <<>> /\ now \in Moment /\ policy \in Policies
  BY DEF Init
<1>2. ByEngine = {}
  BY <1>1 DEF ByEngine
<1> QED BY <1>1, <1>2 DEF Inv, Typed, NoPaymentOnClaims, FirstPaymentByHuman

\* A proposal keeps all of it.
LEMMA ProposeKeeps ==
  ASSUME Inv, NEW action \in Action, Propose(action)
  PROVE  Inv'
<1> DEFINE n == Len(paid) + 1
<1>1. PICK p \in Payment :
        /\ paid' = Append(paid, p)
        /\ p.refs = Refs(action.merchant, action.source) /\ p.source = action.source
        /\ p.by = "engine" => Evaluate(action) = "ALLOW"
  BY ProposeAppends DEF Inv
<1>2. /\ paid' \in Seq(Payment)
      /\ DOMAIN paid' = DOMAIN paid \cup {n}
      /\ \A k \in DOMAIN paid : k \in Nat /\ k < n /\ paid'[k] = paid[k]
      /\ paid'[n] = p
  BY <1>1, Appended DEF Inv
<1>3. policy' = policy /\ now' = now
  BY DEF Propose
<1>4. n \in Nat /\ \A k \in DOMAIN paid : DOMAIN paid = 1..(n - 1)
  BY DEF Inv, Typed
<1>5. Typed'
  BY <1>2, <1>3 DEF Inv, Typed
<1> HIDE DEF n
<1>6. ByEngine' \subseteq ByEngine \cup {n}
  BY <1>2 DEF ByEngine
<1>7. NoPaymentOnClaims'
  <2> SUFFICES ASSUME NEW k \in ByEngine'
               PROVE  /\ IdentityRefs(paid'[k].refs) # {}
                      /\ \A r \in IdentityRefs(paid'[k].refs) :
                           paid'[k].source = "rail" \/ (r.scheme = "domain" /\ Listed(r.value))
    BY DEF NoPaymentOnClaims
  <2>1. CASE k \in ByEngine
    <3>1. paid'[k] = paid[k]
      BY <2>1, <1>2 DEF ByEngine
    <3> QED BY <2>1, <3>1 DEF Inv, NoPaymentOnClaims
  <2>2. CASE k = n
    <3>1. Evaluate(action) = "ALLOW"
      BY <1>1, <1>2, <2>2 DEF ByEngine
    <3> QED BY <1>1, <1>2, <2>2, <3>1, AllowedIsVouched
  <2> QED BY <1>6, <2>1, <2>2
<1>8. FirstPaymentByHuman'
  <2> SUFFICES ASSUME policy'.merchants.step_up_on_first_use, NEW k \in ByEngine'
               PROVE  \E j \in 1..(k - 1) :
                        VerifiedKeys(paid'[j].refs) \cap VerifiedKeys(paid'[k].refs) # {}
    BY DEF FirstPaymentByHuman
  <2>1. CASE k \in ByEngine
    <3>1. k \in DOMAIN paid /\ paid'[k] = paid[k]
      BY <2>1, <1>2 DEF ByEngine
    <3>2. PICK j \in 1..(k - 1) :
            VerifiedKeys(paid[j].refs) \cap VerifiedKeys(paid[k].refs) # {}
      BY <1>3, <2>1 DEF Inv, FirstPaymentByHuman
    <3>3. j \in DOMAIN paid
      BY <1>2, <1>4, <3>1
    <3>4. paid'[j] = paid[j]
      BY <1>2, <3>3
    <3> QED BY <3>1, <3>2, <3>4
  <2>2. CASE k = n
    <3>1. MerchantReasons(p.refs) = {}
      BY <1>1, <1>2, <2>2, AllowedIsVouched DEF ByEngine
    <3>2. VerifiedKeys(p.refs) \cap SeenMerchants # {}
      BY <1>3, <3>1, MerchantIsSeen
    <3>3. PICK j \in DOMAIN paid : VerifiedKeys(p.refs) \cap VerifiedKeys(paid[j].refs) # {}
      BY <3>2 DEF SeenMerchants
    <3>4. paid'[j] = paid[j] /\ paid'[k] = p
      BY <1>2, <2>2, <3>3
    <3>5. j \in 1..(k - 1)
      BY <1>4, <2>2, <3>3
    <3> QED BY <3>3, <3>4, <3>5
  <2> QED BY <1>6, <2>1, <2>2
<1> QED BY <1>5, <1>7, <1>8 DEF Inv

LEMMA InvStep == Inv /\ [Next]_vars => Inv'
<1> SUFFICES ASSUME Inv, [Next]_vars PROVE Inv'
  OBVIOUS
<1>1. ASSUME NEW action \in Action, Propose(action) PROVE Inv'
  BY <1>1, ProposeKeeps
<1>2. ASSUME NEW m \in Moment, Advance(m) PROVE Inv'
  BY <1>2 DEF Advance, Inv, Typed, NoPaymentOnClaims, FirstPaymentByHuman, ByEngine
<1>3. CASE UNCHANGED vars
  BY <1>3 DEF vars, Inv, Typed, NoPaymentOnClaims, FirstPaymentByHuman, ByEngine
<1> QED BY <1>1, <1>2, <1>3 DEF Next

LEMMA Invariance == Spec => []Inv
<1>1. Init => Inv
  BY InvInit
<1>2. Inv /\ [Next]_vars => Inv'
  BY InvStep
<1> QED BY <1>1, <1>2, PTL DEF Spec

\* evaluate never lets a payment through on an identity that was merely claimed,
\* whatever the policy, the directory and the assertion (D-3, D-34, D-69).
THEOREM NoPaymentIsOnClaims == Spec => []NoPaymentOnClaims
<1>1. Inv => NoPaymentOnClaims
  BY DEF Inv
<1> QED BY <1>1, Invariance, PTL

\* Under step_up_on_first_use a human approved a payment of a verified identifier
\* before the engine lets one of it through: claims do not make a merchant seen.
THEOREM FirstPaymentIsByHuman == Spec => []FirstPaymentByHuman
<1>1. Inv => FirstPaymentByHuman
  BY DEF Inv
<1> QED BY <1>1, Invariance, PTL

----------------------------------------------------------------------------
(* The limits.                                                              *)

\* What evaluate does not deny stays within every limit: one DENY outweighs all.
LEMMA WithinLimits ==
  ASSUME NEW action, Evaluate(action) # "DENY", NEW l \in policy.cumulative_limits
  PROVE  /\ ~(SpentIn(l.window) + action.amount > l.max_amount)
         /\ \A max \in l.max_count : ~(CountIn(l.window) + 1 > max)
<1> DEFINE decisions == {decisionForReasonCode(code) : code \in Reasons(action)}
<1>1. "DENY" \notin decisions
  <2>1. Evaluate(action) = IF decisions = {} THEN "ALLOW"
                           ELSE IF "DENY" \in decisions THEN "DENY" ELSE "STEP_UP"
    BY DEF Evaluate
  <2> HIDE DEF decisions
  <2> QED BY <2>1
<1>2. \A code \in Reasons(action) : code \notin DenyCode
  BY <1>1 DEF decisionForReasonCode
<1>3. /\ "DENY_CUMULATIVE_LIMIT_EXCEEDED" \notin LimitReasons(action)
      /\ "DENY_VELOCITY_LIMIT_EXCEEDED" \notin LimitReasons(action)
  BY <1>2 DEF Reasons, DenyCode
<1>4. ~(\E k \in policy.cumulative_limits : SpentIn(k.window) + action.amount > k.max_amount)
  BY <1>3 DEF LimitReasons, Reason
<1>5. ~(\E k \in policy.cumulative_limits : \E max \in k.max_count : CountIn(k.window) + 1 > max)
  BY <1>3 DEF LimitReasons, Reason
<1> QED BY <1>4, <1>5

\* The days of a real window all have the key of one of them.
LEMMA MatesHaveOneKey ==
  ASSUME Typed, NEW window \in Window, NEW M \in SUBSET DOMAIN paid,
         \A j \in M : SameWindow(window, paid[j].day, now.day)
  PROVE  M \subseteq InWindowOf(window, now.day)
<1> SUFFICES ASSUME NEW j \in M
             PROVE  KeyOf(window, paid[j].day) = KeyOf(window, now.day)
  BY DEF InWindowOf
<1>1. paid[j].day \in Nat /\ Reached(paid[j].day) /\ now.day \in Nat /\ Reached(now.day)
  <2>1. paid[j] \in Payment
    BY DEF Typed
  <2> QED BY <2>1, EngineMomentAssumption DEF Typed, Payment
<1> QED BY <1>1, RealWindowHasOneKey

LEMMA AmountOfPaid ==
  ASSUME Typed, NEW M
  PROVE  /\ AmountOf(M) \in Int /\ Len(paid) \in Nat
         /\ [k \in DOMAIN paid |-> IF k \in M THEN paid[k].amount ELSE 0] \in [1..Len(paid) -> Int]
<1>1. Len(paid) \in Nat /\ DOMAIN paid = 1..Len(paid)
  BY DEF Typed
<1>2. \A k \in DOMAIN paid : paid[k].amount \in Nat
  <2>1. \A k \in DOMAIN paid : paid[k] \in Payment
    BY DEF Typed
  <2> QED BY <2>1 DEF Payment
<1>3. [k \in DOMAIN paid |-> IF k \in M THEN paid[k].amount ELSE 0] \in [1..Len(paid) -> Int]
  BY <1>1, <1>2
<1> QED BY <1>1, <1>3, TotalInt DEF AmountOf

\* The amount of some payments, of more of them, and with one payment more.
LEMMA AmountOfMonotone ==
  ASSUME Typed, NEW M, NEW N, M \subseteq N
  PROVE  AmountOf(M) <= AmountOf(N)
<1> DEFINE f == [k \in DOMAIN paid |-> IF k \in M THEN paid[k].amount ELSE 0]
           g == [k \in DOMAIN paid |-> IF k \in N THEN paid[k].amount ELSE 0]
<1>1. f \in [1..Len(paid) -> Int] /\ g \in [1..Len(paid) -> Int] /\ Len(paid) \in Nat
  BY AmountOfPaid
<1>2. DOMAIN paid = 1..Len(paid) /\ \A k \in DOMAIN paid : paid[k].amount \in Nat
  <2>1. DOMAIN paid = 1..Len(paid) /\ \A k \in DOMAIN paid : paid[k] \in Payment
    BY DEF Typed
  <2> QED BY <2>1 DEF Payment
<1>3. \A k \in 1..Len(paid) : f[k] <= g[k]
  BY <1>2
<1>4. AmountOf(M) = Total(f, Len(paid)) /\ AmountOf(N) = Total(g, Len(paid))
  BY DEF AmountOf
<1> HIDE DEF f, g
<1> QED BY <1>1, <1>3, <1>4, TotalMonotone

LEMMA AmountOfAppended ==
  ASSUME Typed, NEW p \in Payment, paid' = Append(paid, p), NEW n, n = Len(paid) + 1, NEW M
  PROVE  Total([k \in DOMAIN paid' |-> IF k \in M THEN paid'[k].amount ELSE 0], Len(paid'))
           = AmountOf(M \ {n}) + (IF n \in M THEN p.amount ELSE 0)
<1> DEFINE f == [k \in DOMAIN paid |-> IF k \in M \ {n} THEN paid[k].amount ELSE 0]
           g == [k \in DOMAIN paid' |-> IF k \in M THEN paid'[k].amount ELSE 0]
<1>1. f \in [1..Len(paid) -> Int] /\ Len(paid) \in Nat
  BY AmountOfPaid
<1>2. /\ paid' \in Seq(Payment) /\ paid'[n] = p
      /\ \A k \in DOMAIN paid : k < n /\ k \in Nat /\ paid'[k] = paid[k]
  BY Appended
<1>3. DOMAIN paid = 1..Len(paid) /\ DOMAIN paid' = 1..n /\ Len(paid') = n
  BY DEF Typed
<1>4. \A k \in 1..n : paid'[k].amount \in Nat
  <2>1. \A k \in 1..n : paid'[k] \in Payment
    BY <1>2, <1>3
  <2> QED BY <2>1 DEF Payment
<1>5. g \in [1..(Len(paid) + 1) -> Int]
  BY <1>3, <1>4
<1>6. \A i \in 1..Len(paid) : g[i] = f[i]
  <2> SUFFICES ASSUME NEW i \in 1..Len(paid) PROVE g[i] = f[i]
    OBVIOUS
  <2>1. i \in DOMAIN paid /\ i \in DOMAIN paid' /\ i # n /\ paid'[i] = paid[i]
    BY <1>1, <1>2, <1>3
  <2> QED BY <2>1
<1>7. g[n] = IF n \in M THEN p.amount ELSE 0
  BY <1>1, <1>2, <1>3
<1>8. AmountOf(M \ {n}) = Total(f, Len(paid))
  BY DEF AmountOf
<1> HIDE DEF f, g
<1>9. Total(g, Len(paid) + 1) = Total(f, Len(paid)) + g[Len(paid) + 1]
  BY <1>1, <1>5, <1>6, TotalExtends
<1>10. Total(g, Len(paid')) = AmountOf(M \ {n}) + (IF n \in M THEN p.amount ELSE 0)
  BY <1>3, <1>7, <1>8, <1>9
<1> QED BY <1>10 DEF g

\* A payment is added within the limits of its own window, and to no other's.
LEMMA ProposeKeepsLimits ==
  ASSUME Inv, LimitPerRealWindow, NEW action \in Action, Propose(action)
  PROVE  LimitPerRealWindow'
<1> DEFINE n == Len(paid) + 1
<1>1. PICK p \in Payment :
        paid' = Append(paid, p) /\ p.day = now.day /\ p.amount = action.amount
  BY ProposeAppends DEF Inv
<1>2. Typed /\ policy' = policy /\ policy \in Policies /\ Evaluate(action) # "DENY"
  BY DEF Inv, Typed, Propose
<1>3. /\ DOMAIN paid' = DOMAIN paid \cup {n} /\ paid'[n] = p
      /\ \A k \in DOMAIN paid : k \in Nat /\ k < n /\ paid'[k] = paid[k]
  BY <1>1, <1>2, Appended
<1>4. n \in Nat /\ DOMAIN paid = 1..(n - 1)
  BY <1>2 DEF Typed
<1>5. p.amount \in Nat
  BY DEF Payment
<1> SUFFICES ASSUME NEW l \in policy.cumulative_limits, NEW k \in DOMAIN paid',
                    NEW M, M = {j \in DOMAIN paid' : SameWindow(l.window, paid'[j].day, paid'[k].day)},
                    NEW sum,
                    sum = Total([j \in DOMAIN paid' |-> IF j \in M THEN paid'[j].amount ELSE 0], Len(paid'))
             PROVE  sum <= l.max_amount /\ \A max \in l.max_count : Cardinality(M) <= max
  BY <1>2 DEF LimitPerRealWindow, AmountOf
<1>6. l.window \in Window /\ l.max_amount \in Nat /\ l.max_count \subseteq Nat
  BY <1>2, EngineLimitsAssumption
<1>7. sum = AmountOf(M \ {n}) + (IF n \in M THEN p.amount ELSE 0)
  BY <1>1, <1>2, AmountOfAppended, SMTT(30)
<1>8. \A d, e, x : /\ SameWindow(l.window, d, e) => SameWindow(l.window, e, d)
                   /\ SameWindow(l.window, d, e) /\ SameWindow(l.window, e, x) =>
                        SameWindow(l.window, d, x)
                   /\ SameWindow(l.window, d, d)
  <2>1. CASE l.window = "day"
    BY <2>1 DEF SameWindow
  <2>2. CASE l.window = "week"
    BY <2>2 DEF SameWindow
  <2>3. CASE l.window = "month"
    BY <2>3 DEF SameWindow
  <2> QED BY <1>6, <2>1, <2>2, <2>3 DEF Window
<1>9. M \ {n} \in SUBSET DOMAIN paid
  BY <1>3
<1> HIDE DEF n
<1>10. CASE n \in M
  <2>1. \A j \in M \ {n} : SameWindow(l.window, paid[j].day, now.day)
    <3> SUFFICES ASSUME NEW j \in M \ {n} PROVE SameWindow(l.window, paid[j].day, now.day)
      OBVIOUS
    <3>1. paid'[j] = paid[j]
      BY <1>3, <1>9
    <3>2. SameWindow(l.window, paid[j].day, paid'[k].day)
      BY <3>1
    <3>3. SameWindow(l.window, now.day, paid'[k].day)
      BY <1>1, <1>3, <1>10
    <3> QED BY <1>8, <3>2, <3>3
  <2>2. M \ {n} \subseteq InWindowOf(l.window, now.day)
    BY <1>2, <1>6, <1>9, <2>1, MatesHaveOneKey
  <2>3. AmountOf(M \ {n}) <= SpentIn(l.window)
    BY <1>2, <2>2, AmountOfMonotone DEF SpentIn
  <2>4. AmountOf(M \ {n}) \in Int /\ SpentIn(l.window) \in Int
    BY <1>2, AmountOfPaid DEF SpentIn
  <2>5. /\ ~(SpentIn(l.window) + p.amount > l.max_amount)
        /\ \A max \in l.max_count : ~(CountIn(l.window) + 1 > max)
    BY <1>1, <1>2, WithinLimits
  <2>6. AmountOf(M \ {n}) + p.amount <= l.max_amount
    BY <1>5, <1>6, <2>3, <2>4, <2>5
  <2>7. IsFiniteSet(InWindowOf(l.window, now.day))
    <3>1. IsFiniteSet(DOMAIN paid)
      BY <1>4, n - 1 \in Int, FS_Interval
    <3>2. InWindowOf(l.window, now.day) \subseteq DOMAIN paid
      BY DEF InWindowOf
    <3> QED BY <3>1, <3>2, FS_Subset
  <2>8. /\ IsFiniteSet(M \ {n}) /\ Cardinality(M \ {n}) <= CountIn(l.window)
        /\ Cardinality(M \ {n}) \in Nat /\ CountIn(l.window) \in Nat
    BY <2>2, <2>7, FS_Subset, FS_CardinalityType DEF CountIn
  <2>9. Cardinality(M) = Cardinality(M \ {n}) + 1
    <3>1. M = (M \ {n}) \cup {n} /\ n \notin M \ {n}
      BY <1>10
    <3> QED BY <2>8, <3>1, FS_AddElement
  <2>10. \A max \in l.max_count : Cardinality(M) <= max
    BY <1>6, <2>5, <2>8, <2>9
  <2> QED BY <1>7, <1>10, <2>6, <2>10
<1>11. CASE n \notin M
  <2>1. k # n /\ k \in DOMAIN paid
    BY <1>3, <1>8, <1>11
  <2>2. M \ {n} = M /\ M = {j \in DOMAIN paid : SameWindow(l.window, paid[j].day, paid[k].day)}
    BY <1>3, <1>11, <2>1
  <2>3. AmountOf(M) <= l.max_amount /\ \A max \in l.max_count : Cardinality(M) <= max
    BY <2>1, <2>2 DEF LimitPerRealWindow
  <2>4. AmountOf(M) \in Int
    BY <1>2, AmountOfPaid
  <2>5. sum = AmountOf(M) + 0
    <3>1. M \ {n} = M
      BY <1>11
    <3> QED BY <1>7, <1>11, <3>1, Zenon
  <2> QED BY <2>3, <2>4, <2>5
<1> QED BY <1>10, <1>11

\* In no real day, ISO week or calendar month does a mandate pay more, or more
\* often, than its limit allows, whatever the policy, over the turn of a year as
\* well (D-4).
THEOREM LimitsHold == Spec => []LimitPerRealWindow
<1>1. Init => LimitPerRealWindow
  BY DEF Init, LimitPerRealWindow
<1>2. Inv /\ LimitPerRealWindow /\ [Next]_vars => LimitPerRealWindow'
  <2> SUFFICES ASSUME Inv, LimitPerRealWindow, [Next]_vars PROVE LimitPerRealWindow'
    OBVIOUS
  <2>1. ASSUME NEW action \in Action, Propose(action) PROVE LimitPerRealWindow'
    BY <2>1, ProposeKeepsLimits
  <2>2. CASE UNCHANGED <<policy, paid>>
    BY <2>2 DEF LimitPerRealWindow, AmountOf
  <2> QED BY <2>1, <2>2 DEF Next, Advance, vars
<1> QED BY <1>1, <1>2, Invariance, PTL DEF Spec

=============================================================================
