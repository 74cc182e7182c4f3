-------------------------- MODULE MerchantIdentity --------------------------
(***************************************************************************)
(* Who a merchant is: an assertion of the agent, or of a rail about its own *)
(* payment, becomes a list of identifiers, each with the trust it earned by *)
(* itself (D-69); and what an allowlist or a denylist makes of them.        *)
(* A domain is the sequence of its labels, the most general one first.      *)
(***************************************************************************)
EXTENDS Integers, FiniteSets, Sequences, SequencesExt

CONSTANTS
  None,      \* nothing was asserted
  Value,     \* what is said of a merchant, in labels: a domain, an account, a code
  Directory  \* merchants Waysafe knows: their hosts and category code

Account == {"psp_account", "network_mid", "onchain_address"}
Identity == Account \cup {"domain"}
MerchantScheme == Identity \cup {"name", "mcc"}

\* An assertion names a value, or None, for every scheme; the agent makes it, or
\* a rail in its own callback (D-34).
MerchantAssertion == [MerchantScheme -> Value \cup {None}]
MerchantAttestationSource == {"agent", "rail"}

\* VERIFIED is corroborated from outside the agent; UNKNOWN is no identifier's own.
MerchantTrust == {"VERIFIED", "ASSERTED", "UNKNOWN"}

\* One identifier of a merchant, with a trust of its own.
ResolvedMerchantRef ==
  [scheme : MerchantScheme, value : Value, trust : MerchantTrust \ {"UNKNOWN"}]

Ref(scheme, value, trust) == [scheme |-> scheme, value |-> value, trust |-> trust]

----------------------------------------------------------------------------
(* The directory.                                                           *)

MerchantDirectoryEntry ==
  [hosts : SUBSET Value, include_subdomains : BOOLEAN, mcc : Value \cup {None}]

ASSUME DirectoryAssumption ==
  /\ \A v \in Value : v \in Seq(STRING) /\ v # <<>>
  /\ None \notin Value
  /\ Directory \subseteq MerchantDirectoryEntry

\* domainMatches: the same domain or one below it.
DomainMatches(root, domain) == IsPrefix(root, domain)

\* lookupDomain: an exact host, or below the hosts of an entry that opted in.
EntryFor(domain) ==
  LET exact == {e \in Directory : domain \in e.hosts}
      zone == {e \in Directory : e.include_subdomains /\ \E h \in e.hosts : DomainMatches(h, domain)}
  IN IF exact # {} THEN exact ELSE zone

----------------------------------------------------------------------------
(* resolveMerchant.                                                         *)

\* Mutant: an account is taken at the agent's word (before D-34).
TrustOfAccountClaimed(source) == "VERIFIED"

\* Only the rail's own callback vouches for an account.
TrustOfAccount(source) == IF source = "rail" THEN "VERIFIED" ELSE "ASSERTED"

TrustOfDomain(domain, source) ==
  IF EntryFor(domain) # {} \/ source = "rail" THEN "VERIFIED" ELSE "ASSERTED"

\* The category code asserted, or the directory's.
MccOf(assertion) ==
  IF assertion["mcc"] # None \/ assertion["domain"] = None THEN {assertion["mcc"]} \ {None}
  ELSE {e.mcc : e \in EntryFor(assertion["domain"])} \ {None}

Refs(assertion, source) ==
  {Ref(s, assertion[s], TrustOfAccount(source)) : s \in {t \in Account : assertion[t] # None}}
  \cup {Ref("domain", d, TrustOfDomain(d, source)) : d \in {assertion["domain"]} \ {None}}
  \cup {Ref("name", n, "ASSERTED") : n \in {assertion["name"]} \ {None}}
  \cup {Ref("mcc", m, "ASSERTED") : m \in MccOf(assertion)}

IdentityRefs(refs) == {r \in refs : r.scheme \in Identity}
UnverifiedIdentityRefs(refs) == {r \in IdentityRefs(refs) : r.trust # "VERIFIED"}

\* summarizeTrust, a low-water mark.
SummarizeTrust(refs) ==
  IF {r \in refs : r.scheme # "mcc"} = {} THEN "UNKNOWN"
  ELSE IF IdentityRefs(refs) # {} /\ UnverifiedIdentityRefs(refs) = {} THEN "VERIFIED" ELSE "ASSERTED"

\* verifiedMerchantKeys.
VerifiedKeys(refs) ==
  {<<r.scheme, r.value>> : r \in {q \in IdentityRefs(refs) : q.trust = "VERIFIED"}}

----------------------------------------------------------------------------
(* Lists of a policy: a reference is a scheme and a value.                  *)

RefMatches(listed, r) ==
  /\ r.scheme = listed.scheme
  /\ IF listed.scheme = "domain" THEN DomainMatches(listed.value, r.value) ELSE r.value = listed.value

\* matchesDenylist: a claim is enough to be refused.
OnDenylist(deny, refs) == \E listed \in deny, r \in refs : RefMatches(listed, r)

Matched(allow, refs) == {k \in DOMAIN allow : \E r \in refs : RefMatches(allow[k], r)}

\* satisfiesAllowlist: the first entry that matches decides; it verifies by an
\* identifier that is, with no other left unverified.
VerifiedMatch(allow, refs) ==
  LET first == CHOOSE k \in Matched(allow, refs) : \A j \in Matched(allow, refs) : k <= j
  IN /\ allow[first].scheme \in Identity
     /\ \E r \in refs : RefMatches(allow[first], r) /\ r.trust = "VERIFIED"
     /\ UnverifiedIdentityRefs(refs) = {}

=============================================================================
