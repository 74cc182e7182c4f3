----------------------------- MODULE Ceremonies -----------------------------
(***************************************************************************)
(* The passkey ceremonies: a first passkey is enrolled, a mandate is        *)
(* activated by a signature over its policy's hash, and a further passkey   *)
(* is enrolled with a grant that an existing one signed for (D-20, D-66,    *)
(* D-86).  A request is a sequence of statements with awaits between them;  *)
(* two requests interleave at every await, and one that dies takes no       *)
(* further step.  Evidence follows in a transaction of its own, modelled in *)
(* EvidenceChain.  Authenticators and the WebAuthn library are external: a  *)
(* response is what a person agreed to sign with one passkey over one       *)
(* challenge.                                                               *)
(***************************************************************************)
EXTENDS Integers, Sequences, FiniteSets

CONSTANTS
  Caller,     \* requests being handled at once
  Principal,  \* principals of the organization
  Mandate,    \* their mandates
  PrincipalOf,\* whose mandate each is
  HashOf,     \* the policy hash of each: equal policies have equal hashes
  Credential, \* credentials there are
  Advancing,  \* those whose authenticator counts its signatures
  None,       \* no value
  MaxRows,    \* bound: challenges ever issued
  MaxSigned   \* bound: responses people sign

ASSUME CeremonyBoundsAssumption == MaxRows \in Nat /\ MaxSigned \in Nat
ASSUME CeremonyNamesAssumption ==
  /\ PrincipalOf \in [Mandate -> Principal] /\ DOMAIN HashOf = Mandate
  /\ Advancing \subseteq Credential
  /\ None \notin Principal \cup Mandate \cup Credential \cup {HashOf[m] : m \in Mandate}
  /\ {HashOf[m] : m \in Mandate} \cap Nat = {}

VARIABLES
  challenges,  \* the rows of webauthn_challenges, by age
  credentials, \* the rows of passkey_credentials, by credential
  status,      \* of each mandate
  signed,      \* the responses people signed
  call,        \* the local state of each request
  acts         \* what requests did with the rows they consumed, in order

ceremonyVars == <<challenges, credentials, status, signed, call, acts>>

Hashes == {HashOf[m] : m \in Mandate}
Purpose == {"REGISTRATION", "MANDATE_AUTHENTICATION", "REENROLLMENT_AUTHENTICATION",
            "REENROLLMENT_GRANT"}

Enrolled == {k \in Credential : credentials[k] # None}
PasskeysOf(p) == {k \in Enrolled : credentials[k].principal = p}
hasCredentialForPrincipal(p) == PasskeysOf(p) # {}
Values == {challenges[i].challenge : i \in DOMAIN challenges}

----------------------------------------------------------------------------
(* The challenge store.                                                     *)

\* A row is open until it is consumed or its five minutes are over.  A random
\* challenge is a value of its own, here the number of its row.
NewRow(p, value, purpose) ==
  [principal |-> p, challenge |-> value, purpose |-> purpose, open |-> TRUE]

Issued(p, value, purpose) ==
  /\ Len(challenges) < MaxRows
  /\ challenges' = Append(challenges, NewRow(p, value, purpose))

Fresh == Len(challenges) + 1

\* Mutant: a challenge stays good.
IsForEver(i, p, value) == challenges[i].principal = p /\ challenges[i].challenge = value

Is(i, p, value) ==
  challenges[i].principal = p /\ challenges[i].challenge = value /\ challenges[i].open

Matching(p, value) == {i \in DOMAIN challenges : Is(i, p, value)}

\* consumeChallenge: one UPDATE over every row that matches, and one of them is
\* what the caller gets back.
Consumed(rows) ==
  challenges' = [i \in DOMAIN challenges |->
                   [challenges[i] EXCEPT !.open = @ /\ i \notin rows]]

----------------------------------------------------------------------------
(* What people sign.                                                        *)

CounterOf(k) ==
  LET seen == {r.counter : r \in {s \in signed : s.credential = k}} IN
  IF k \in Advancing /\ seen # {} THEN CHOOSE n \in seen : \A s \in seen : s <= n ELSE 0

\* Passkeys that exist: those somebody made.
Made == {r.credential : r \in {s \in signed : s.creates}}

\* A person answers a challenge that was issued, whatever for: the caller's own
\* page passes it to the authenticator, and may ask for a new passkey or for the
\* signature of one that exists.
Sign(k, i) ==
  LET creates == k \notin Made IN
  /\ Cardinality(signed) < MaxSigned /\ challenges[i].open
  /\ signed' = signed \cup
       {[creates |-> creates, credential |-> k, challenge |-> challenges[i].challenge,
         issuedFor |-> challenges[i].purpose,
         counter |-> IF k \in Advancing /\ ~creates THEN CounterOf(k) + 1 ELSE 0]}
  /\ UNCHANGED <<challenges, credentials, status, call, acts>>

\* The library's checks of a registration.
verifyRegistration(r, value) == r.creates /\ r.challenge = value

\* Of an authentication: a counter that is used must advance.
verifyAuthentication(r, value, counter) ==
  /\ ~r.creates /\ r.challenge = value
  /\ r.counter > 0 \/ counter > 0 => r.counter > counter

----------------------------------------------------------------------------
(* Requests.                                                                *)

Idle == [at |-> "idle", kind |-> None, mandate |-> None, principal |-> None, claimed |-> None,
         grant |-> None, response |-> None, row |-> 0, had |-> FALSE, counter |-> 0]

Becomes(c, q) == call' = [call EXCEPT ![c] = q]
At(c, step) == call[c].at = step
Goes(c, step) == Becomes(c, [call[c] EXCEPT !.at = step])

\* POST /v1/mandates/:id/authenticate/options reads whether there is a passkey.
BeginOptions(c, m) ==
  /\ At(c, "idle")
  /\ Becomes(c, [Idle EXCEPT !.at = "issue", !.kind = "options", !.mandate = m,
                             !.principal = PrincipalOf[m], !.had = hasCredentialForPrincipal(PrincipalOf[m])])
  /\ UNCHANGED <<challenges, credentials, status, signed, acts>>

beginRegistration(p) == Issued(p, Fresh, "REGISTRATION")
beginMandateAuthentication(m) == Issued(PrincipalOf[m], HashOf[m], "MANDATE_AUTHENTICATION")
beginReenrollmentAuthentication(p) == Issued(p, Fresh, "REENROLLMENT_AUTHENTICATION")

IssueOptions(c) ==
  LET q == call[c] IN
  /\ At(c, "issue")
  /\ IF q.had THEN beginMandateAuthentication(q.mandate) ELSE beginRegistration(q.principal)
  /\ Becomes(c, Idle)
  /\ UNCHANGED <<credentials, status, signed, acts>>

\* POST /v1/principals/:id/passkeys/options: 409 without a passkey.
ReenrollmentOptions(p) ==
  /\ hasCredentialForPrincipal(p)
  /\ beginReenrollmentAuthentication(p)
  /\ UNCHANGED <<credentials, status, signed, call, acts>>

\* POST /v1/mandates/:id/authenticate/verify, in one of its modes: a challenge
\* that was issued for something else is told so, and is not consumed.
Expected(kind) == IF kind = "register" THEN "REGISTRATION" ELSE "MANDATE_AUTHENTICATION"

BeginVerify(c, kind, m, grant, r) ==
  LET p == PrincipalOf[m] IN
  /\ At(c, "idle")
  /\ \A i \in Matching(p, r.challenge) : challenges[i].purpose = Expected(kind)
  /\ Becomes(c, [Idle EXCEPT !.at = IF kind = "register" THEN "check" ELSE "consume",
                             !.kind = kind, !.mandate = m, !.principal = p, !.grant = grant,
                             !.claimed = IF kind = "register" THEN r.challenge ELSE HashOf[m],
                             !.response = r])
  /\ UNCHANGED <<challenges, credentials, status, signed, acts>>

\* POST /v1/principals/:id/passkeys/verify.
BeginReenroll(c, p, r) ==
  /\ At(c, "idle")
  /\ Becomes(c, [Idle EXCEPT !.at = "consume", !.kind = "reenroll", !.principal = p,
                             !.claimed = r.challenge, !.response = r])
  /\ UNCHANGED <<challenges, credentials, status, signed, acts>>

\* completeRegistration: a principal that has a passkey needs a grant.
CheckEnrolled(c) ==
  LET had == hasCredentialForPrincipal(call[c].principal) IN
  /\ At(c, "check")
  /\ Becomes(c, IF had /\ call[c].grant = None THEN Idle
                ELSE IF had THEN [call[c] EXCEPT !.had = TRUE, !.at = "grant"]
                ELSE [call[c] EXCEPT !.at = "consume", !.grant = None])
  /\ UNCHANGED <<challenges, credentials, status, signed, acts>>

\* Mutant: any challenge of the principal serves as a grant.
GrantsAnything(purpose) == TRUE

Grants(purpose) == purpose = "REENROLLMENT_GRANT"

\* The grant is consumed first, and whatever was presented in its place.
ConsumeGrant(c) ==
  LET rows == Matching(call[c].principal, call[c].grant) IN
  /\ At(c, "grant")
  /\ Consumed(rows)
  /\ IF \E i \in rows : Grants(challenges[i].purpose)
     THEN Becomes(c, [call[c] EXCEPT !.at = "consume", !.grant = None]) ELSE Becomes(c, Idle)
  /\ UNCHANGED <<credentials, status, signed, acts>>

Serves(kind) ==
  CASE kind = "register" -> "REGISTRATION"
    [] kind = "authenticate" -> "MANDATE_AUTHENTICATION"
    [] OTHER -> "REENROLLMENT_AUTHENTICATION"

\* Mutant: any challenge of the principal will do (before D-66).
AcceptsAnything(kind, purpose) == TRUE

\* The stored purpose decides.
Accepts(kind, purpose) == purpose = Serves(kind)

\* The challenge is consumed whether it is for this or not.
ConsumeChallenge(c) ==
  LET q == call[c]
      rows == Matching(q.principal, q.claimed) IN
  /\ At(c, "consume")
  /\ Consumed(rows)
  /\ \/ \E i \in rows :
          /\ Accepts(q.kind, challenges[i].purpose)
          /\ q.kind = "register" => verifyRegistration(q.response, q.claimed)
          /\ Becomes(c, [q EXCEPT !.row = i, !.at = IF q.kind = "register" THEN "save" ELSE "find"])
     \/ /\ \A i \in rows : Accepts(q.kind, challenges[i].purpose) =>
             q.kind = "register" /\ ~verifyRegistration(q.response, q.claimed)
        /\ Becomes(c, Idle)
  /\ UNCHANGED <<credentials, status, signed, acts>>

\* What the request did with the row it consumed.
Act(c) ==
  [kind |-> call[c].kind, principal |-> call[c].principal, mandate |-> call[c].mandate,
   row |-> call[c].row, response |-> call[c].response, had |-> call[c].had]

\* A credential that is there already is turned away by its unique index.
SaveCredential(c) ==
  LET q == call[c]
      k == q.response.credential IN
  /\ At(c, "save")
  /\ IF k \in Enrolled
     THEN Becomes(c, Idle) /\ UNCHANGED <<credentials, acts>>
     ELSE /\ credentials' = [credentials EXCEPT ![k] =
                               [principal |-> q.principal, counter |-> q.response.counter]]
          /\ acts' = Append(acts, Act(c))
          /\ Becomes(c, Idle)
  /\ UNCHANGED <<challenges, status, signed>>

\* Mutant: whose passkey it is does not matter.
MayAuthenticateForAll(k, p) == k \in Enrolled

MayAuthenticate(k, p) == k \in PasskeysOf(p)

\* The credential is read with its counter, and the response verified.
FindCredential(c) ==
  LET q == call[c]
      k == q.response.credential IN
  /\ At(c, "find")
  /\ Becomes(c, IF /\ MayAuthenticate(k, q.principal)
                   /\ verifyAuthentication(q.response, q.claimed, credentials[k].counter)
                THEN [q EXCEPT !.at = "counter", !.counter = q.response.counter]
                ELSE Idle)
  /\ UNCHANGED <<challenges, credentials, status, signed, acts>>

\* updateCredentialCounter, whatever the counter is by now.
UpdateCounter(c) ==
  /\ At(c, "counter")
  /\ credentials' = [credentials EXCEPT ![call[c].response.credential].counter = call[c].counter]
  /\ Goes(c, IF call[c].kind = "authenticate" THEN "activate" ELSE "mint")
  /\ UNCHANGED <<challenges, status, signed, acts>>

\* activateMandate, whatever the status is by now.
Activate(c) ==
  /\ At(c, "activate")
  /\ status' = [status EXCEPT ![call[c].mandate] = "ACTIVE"]
  /\ acts' = Append(acts, Act(c))
  /\ Becomes(c, Idle)
  /\ UNCHANGED <<challenges, credentials, signed>>

MintGrant(c) ==
  /\ At(c, "mint")
  /\ Issued(call[c].principal, Fresh, "REENROLLMENT_GRANT")
  /\ acts' = Append(acts, Act(c))
  /\ Becomes(c, Idle)
  /\ UNCHANGED <<credentials, status, signed>>

\* Challenges expire.
Expire(i) ==
  /\ challenges[i].open /\ Consumed({i})
  /\ UNCHANGED <<credentials, status, signed, call, acts>>

----------------------------------------------------------------------------

CeremonyInit ==
  /\ challenges = <<>>
  /\ credentials = [k \in Credential |-> None]
  /\ status = [m \in Mandate |-> "PENDING_AUTHENTICATION"]
  /\ signed = {} /\ acts = <<>>
  /\ call = [c \in Caller |-> Idle]

Steps(c) ==
  \/ IssueOptions(c) \/ CheckEnrolled(c) \/ ConsumeGrant(c) \/ ConsumeChallenge(c)
  \/ SaveCredential(c) \/ FindCredential(c) \/ UpdateCounter(c) \/ Activate(c) \/ MintGrant(c)

CeremonyNext ==
  \/ \E c \in Caller, m \in Mandate : BeginOptions(c, m)
  \/ \E p \in Principal : ReenrollmentOptions(p)
  \/ \E c \in Caller, m \in Mandate, r \in signed :
       \/ BeginVerify(c, "authenticate", m, None, r)
       \/ \E grant \in {None} \cup Values : BeginVerify(c, "register", m, grant, r)
  \/ \E c \in Caller, p \in Principal, r \in signed : BeginReenroll(c, p, r)
  \/ \E c \in Caller : Steps(c)
  \/ \E k \in Credential, i \in DOMAIN challenges : Sign(k, i)
  \/ \E i \in DOMAIN challenges : Expire(i)

CeremonySpec == CeremonyInit /\ [][CeremonyNext]_ceremonyVars

----------------------------------------------------------------------------
(* Properties.                                                              *)

Done(kind, p) == {i \in DOMAIN acts : acts[i].kind = kind /\ acts[i].principal = p}

ServedOnce == \A i, j \in DOMAIN acts : acts[i].row = acts[j].row => i = j
SignedForThis == \A i \in DOMAIN acts : acts[i].response.issuedFor = Serves(acts[i].kind)

\* D-66, consumeChallenge: whatever races and whatever is retried, one challenge that
\* was issued enrols one passkey, mints one grant or activates a mandate once; and
\* what a person signed serves the ceremony its challenge was issued for, as
\* whatever and by whichever requests it is presented: a signature that was to
\* activate a mandate mints no grant, and a registration is no answer to it.
OneUsePerChallenge == ServedOnce /\ SignedForThis

\* D-20: a mandate that is active was activated with a passkey of its own
\* principal, which signed the hash of its policy.
ActivationIsSigned ==
  \A m \in Mandate : status[m] = "ACTIVE" =>
    \E i \in Done("authenticate", PrincipalOf[m]) :
      /\ acts[i].mandate = m /\ acts[i].response.challenge = HashOf[m]
      /\ \E j \in Done("register", PrincipalOf[m]) :
           j < i /\ acts[j].response.credential = acts[i].response.credential

\* D-66: of the passkeys enrolled by requests that saw one, each took a grant, and
\* each grant the signature of a passkey its principal had.
EnrolmentIsProved ==
  \A p \in Principal :
    /\ Cardinality({i \in Done("register", p) : acts[i].had}) <= Cardinality(Done("reenroll", p))
    /\ \A i \in Done("reenroll", p) : \E j \in Done("register", p) :
         j < i /\ acts[j].response.credential = acts[i].response.credential

=============================================================================
