--------------------------- MODULE ResourceFetch ---------------------------
(***************************************************************************)
(* The fetch of an x402 resource URL under a policy: the URL, and every     *)
(* URL it redirects to, must name an allowed scheme and resolve to allowed  *)
(* addresses only; the socket is pinned to an address that was checked; and *)
(* one deadline covers resolution, connections, redirects and the body.     *)
(* The resolver and the server are external and answer as they like.        *)
(***************************************************************************)
EXTENDS Integers, FiniteSets

CONSTANTS
  Caller,      \* requests being handled at once
  Class,       \* bound: the classes classifyAddress may sort addresses into
  DemoRoutes,  \* is WAYSAFE_ENABLE_DEMO_ROUTES set?
  MaxHops,     \* maxRedirects
  TimeoutMs    \* timeoutMs, in whatever unit time passes in

ASSUME FetchPolicyAssumption ==
  DemoRoutes \in BOOLEAN /\ MaxHops \in Nat /\ TimeoutMs \in Nat \ {0}

Scheme == {"https:", "http:"}

PRODUCTION_RESOURCE_FETCH_POLICY ==
  [schemes |-> {"https:"}, classes |-> {"public"}, maxRedirects |-> MaxHops, timeout |-> TimeoutMs]

\* The demo's merchant runs on loopback: that, and plain HTTP, and nothing else.
LOCAL_RESOURCE_FETCH_POLICY ==
  [PRODUCTION_RESOURCE_FETCH_POLICY EXCEPT !.schemes = @ \cup {"http:"}, !.classes = @ \cup {"loopback"}]

\* resourceFetchPolicyFromEnv.
FetchPolicy ==
  IF DemoRoutes THEN LOCAL_RESOURCE_FETCH_POLICY ELSE PRODUCTION_RESOURCE_FETCH_POLICY

VARIABLE fetch  \* the fetch of each request

\* A URL is its scheme and the addresses its host has: a literal has the one it
\* spells, a name those it resolves to now, and a malformed URL, a missing host
\* or a name that does not resolve has none.
Url == [scheme : Scheme, addresses : SUBSET Class]
NoAddress == "no address"

\* `age` is the time since the fetch began and `due` the age at which its timer
\* fires.  `reached` are the addresses a socket was opened to.
NoFetch == [stage |-> "idle", scheme |-> "none", pinned |-> NoAddress,
            hop |-> 0, age |-> 0, due |-> 0, reached |-> {}]
FetchType ==
  [stage : {"idle", "resolve", "request", "answered", "refused", "failed"},
   scheme : Scheme \cup {"none"}, pinned : Class \cup {NoAddress},
   hop : Nat, age : Nat, due : Nat, reached : SUBSET (Scheme \X Class)]

InFlight(c) == fetch[c].stage \in {"resolve", "request"}
Set(c, f) == fetch' = [fetch EXCEPT ![c] = f]
\* A fetch that ended.
End(c, stage, reached) ==
  Set(c, [NoFetch EXCEPT !.stage = stage, !.reached = reached])

----------------------------------------------------------------------------
(* The steps of a fetch.                                                    *)

\* startDeadline, and the first pass of the loop.
StartFetch(c) ==
  Set(c, [NoFetch EXCEPT !.stage = "resolve", !.due = FetchPolicy.timeout])

\* Mutant: the first address alone is checked.
PermittedFirst(url) ==
  url.scheme \in FetchPolicy.schemes /\ url.addresses \cap FetchPolicy.classes # {}

\* validateTarget: every address of the host must be allowed.
Permitted(url) ==
  /\ url.scheme \in FetchPolicy.schemes
  /\ url.addresses # {}
  /\ url.addresses \subseteq FetchPolicy.classes

\* The URL of this hop is permitted: the connection is pinned to one of the
\* addresses that were checked.
Validate(c) ==
  /\ fetch[c].stage = "resolve"
  /\ fetch[c].age < fetch[c].due
  /\ \E url \in Url : \E address \in url.addresses :
       /\ Permitted(url)
       /\ Set(c, [fetch[c] EXCEPT !.stage = "request", !.scheme = url.scheme, !.pinned = address])

RefuseUrl(c) ==
  /\ fetch[c].stage = "resolve"
  /\ fetch[c].age < fetch[c].due
  /\ \E url \in Url : ~Permitted(url)
  /\ End(c, "refused", fetch[c].reached)

\* requestOnce's lookup: the socket gets the pinned address and no other.
ConnectsTo(c) == {fetch[c].pinned}

Reach(c, address) == fetch[c].reached \cup {<<fetch[c].scheme, address>>}

\* What was reached by the time a fetch breaks off.
MayHaveReached(c) ==
  {fetch[c].reached}
  \cup {Reach(c, address) : address \in IF fetch[c].stage = "request" THEN ConnectsTo(c) ELSE {}}

\* The server redirects: the next URL goes through validateTarget as well.
Redirected(c, address) ==
  Set(c, [fetch[c] EXCEPT !.stage = "resolve", !.scheme = "none", !.pinned = NoAddress,
          !.hop = @ + 1, !.reached = Reach(c, address)])

Redirect(c) ==
  /\ fetch[c].stage = "request"
  /\ fetch[c].hop < FetchPolicy.maxRedirects
  /\ \E address \in ConnectsTo(c) : Redirected(c, address)

\* One redirect too many, or a body over maxResponseBytes.
RefuseAnswer(c) ==
  /\ fetch[c].stage = "request"
  /\ \E address \in ConnectsTo(c) : End(c, "refused", Reach(c, address))

Answer(c) ==
  /\ fetch[c].stage = "request"
  /\ \E address \in ConnectsTo(c) : End(c, "answered", Reach(c, address))

\* The connection breaks, or a redirect names no URL at all: not a refusal, so
\* nothing is decided and the route fails.
Break(c) ==
  /\ fetch[c].stage = "request"
  /\ \E reached \in MayHaveReached(c) : End(c, "failed", reached)

\* The resolver, the connection or the body is slow.
Linger(c) ==
  /\ InFlight(c)
  /\ fetch[c].age < fetch[c].due
  /\ Set(c, [fetch[c] EXCEPT !.age = @ + 1])

\* Mutant: the deadline is looked at between hops only (before D-89).
TimeOutBetweenHops(c) ==
  /\ fetch[c].stage = "resolve"
  /\ fetch[c].age >= fetch[c].due
  /\ End(c, "refused", fetch[c].reached)

\* raceDeadline, and the abort signal and idle timer of the request.
TimeOut(c) ==
  /\ InFlight(c)
  /\ fetch[c].age >= fetch[c].due
  /\ \E reached \in MayHaveReached(c) : End(c, "refused", reached)

FetchStep(c) ==
  \/ Validate(c) \/ RefuseUrl(c)
  \/ Redirect(c) \/ RefuseAnswer(c) \/ Answer(c) \/ Break(c)
  \/ Linger(c) \/ TimeOut(c)

----------------------------------------------------------------------------
(* Properties.                                                              *)

FetchTypeOK == fetch \in [Caller -> FetchType]

\* No socket is ever opened to an address, or with a scheme, the policy does
\* not allow: not on a redirect, not when a name resolves to several addresses,
\* and not when it resolves to something else the second time it is asked
\* (fetchResourceUnderPolicy, validateTarget, D-75).
OnlyPermittedReached ==
  \A c \in Caller : fetch[c].reached \subseteq FetchPolicy.schemes \X FetchPolicy.classes

=============================================================================
