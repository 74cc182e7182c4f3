------------------------- MODULE ControlPlaneProofs -------------------------
(***************************************************************************)
(* What holds of the tables that say who may spend, whatever is created in *)
(* them, in whatever order and by how many requests at once: first the     *)
(* passkey ceremonies, by which a mandate becomes active, for any number   *)
(* of principals, passkeys and requests, then the administration of any    *)
(* number of organizations, which makes agents, keys and mandates.         *)
(***************************************************************************)
EXTENDS Onboarding, Ceremonies, FiniteSetTheorems, SequenceTheorems, TLAPS

----------------------------------------------------------------------------
(* The ceremonies: the shape of their state.                                *)

\* A row of webauthn_challenges.
ChallengeRow ==
  [principal : Principal, challenge : Nat \cup Hashes, purpose : Purpose, open : BOOLEAN]

\* The fields a request and a stored credential have.
Fields(q) ==
  q = [at |-> q.at, kind |-> q.kind, mandate |-> q.mandate, principal |-> q.principal,
       claimed |-> q.claimed, grant |-> q.grant, response |-> q.response, row |-> q.row,
       had |-> q.had, counter |-> q.counter]
Columns(r) == r = [principal |-> r.principal, counter |-> r.counter]

Shaped ==
  /\ challenges \in Seq(ChallengeRow)
  /\ \E S : acts \in Seq(S)
  /\ call = [c \in Caller |-> call[c]] /\ \A c \in Caller : Fields(call[c])
  /\ credentials = [k \in Credential |-> credentials[k]]
  /\ status = [m \in Mandate |-> status[m]]
  /\ \A r \in signed : r.credential \in Credential

----------------------------------------------------------------------------
(* The inductive invariant.                                                 *)

\* A passkey that a request enrolled for that principal, by what it did.
Registered(k, p) == \E j \in Done("register", p) : acts[j].response.credential = k

\* A stored credential, whatever its counter, is one that was enrolled.
Stored(k) == Columns(credentials[k]) /\ Registered(k, credentials[k].principal)

\* A request has a consumed challenge in hand, which nobody else has used.
Holding == {"save", "find", "counter", "activate", "mint"}
Working == {"check", "grant", "consume"} \cup Holding

RowInHand(q) ==
  q.at \in Holding =>
    /\ q.row \in DOMAIN challenges /\ ~challenges[q.row].open
    /\ \A i \in DOMAIN acts : acts[i].row # q.row

\* The kind of request that reaches each step, and for whom.
StepFits(q) ==
  /\ q.at \in {"idle", "issue"} \cup Working
  /\ q.at = "issue" => q.mandate \in Mandate /\ q.principal = PrincipalOf[q.mandate]
  /\ q.at \in Working => q.principal \in Principal /\ q.response.credential \in Credential
  /\ q.at \in {"check", "grant", "save"} => q.kind = "register"
  /\ q.at = "consume" => q.kind \in {"register", "authenticate", "reenroll"}
  /\ q.at \in {"find", "counter"} => q.kind \in {"authenticate", "reenroll"}
  /\ q.at = "activate" => q.kind = "authenticate"
  /\ q.at = "mint" => q.kind = "reenroll"
  /\ q.at = "check" => ~q.had
  /\ q.at \in Working /\ q.kind = "authenticate" =>
       /\ q.mandate \in Mandate /\ q.principal = PrincipalOf[q.mandate]
       /\ q.claimed = HashOf[q.mandate]

\* The authentication of a request that is past it: a passkey of its own
\* principal signed what was claimed.
Verified(q) ==
  /\ q.at \in {"counter", "activate", "mint"} =>
       q.response.challenge = q.claimed /\ Registered(q.response.credential, q.principal)
  /\ q.at = "counter" => Stored(q.response.credential)

RequestSound(q) == RowInHand(q) /\ StepFits(q) /\ Verified(q)

DistinctRows ==
  \A c, d \in Caller :
    call[c].at \in Holding /\ call[d].at \in Holding /\ call[c].row = call[d].row => c = d

ActsSound ==
  \A i \in DOMAIN acts :
    /\ acts[i].row \in DOMAIN challenges /\ ~challenges[acts[i].row].open
    /\ acts[i].kind = "reenroll" =>
         \E j \in Done("register", acts[i].principal) :
           j < i /\ acts[j].response.credential = acts[i].response.credential

CeremonyInv ==
  /\ Shaped
  /\ \A c \in Caller : RequestSound(call[c])
  /\ DistinctRows
  /\ ActsSound
  /\ \A k \in Credential : credentials[k] # None => Stored(k)
  /\ ServedOnce
  /\ ActivationIsSigned

----------------------------------------------------------------------------
(* The tables only grow, and a challenge never opens again.                 *)

\* A row inserted at the end of a table leaves the others where they were.
LEMMA Appended ==
  ASSUME NEW S, NEW s \in Seq(S), NEW e, NEW t, t = Append(s, e)
  PROVE  /\ t \in Seq(S \cup {e}) /\ Len(s) \in Nat /\ Len(t) = Len(s) + 1
         /\ DOMAIN s = 1..Len(s) /\ DOMAIN t = DOMAIN s \cup {Len(s) + 1}
         /\ Len(s) + 1 \notin DOMAIN s
         /\ \A i \in DOMAIN s : t[i] = s[i]
         /\ t[Len(s) + 1] = e
<1>1. s \in Seq(S \cup {e})
  BY SeqMonotonic
<1>2. /\ t \in Seq(S \cup {e}) /\ Len(t) = Len(s) + 1
      /\ \A i \in 1..Len(s) : t[i] = s[i]
      /\ t[Len(s) + 1] = e
  BY <1>1, AppendProperties
<1>3. Len(s) \in Nat /\ DOMAIN s = 1..Len(s) /\ DOMAIN t = 1..Len(t)
  BY <1>1, <1>2, LenProperties
<1> QED BY <1>2, <1>3

\* What may happen to the challenges: rows are added, and rows are closed.
Older ==
  /\ challenges' \in Seq(ChallengeRow)
  /\ \A i \in DOMAIN challenges :
       /\ i \in DOMAIN challenges'
       /\ challenges'[i].open => challenges[i].open

\* Issuing a challenge adds an open row for the principal.
LEMMA IssuedAdds ==
  ASSUME Shaped, NEW p \in Principal, NEW value \in Nat \cup Hashes, NEW purpose \in Purpose,
         Issued(p, value, purpose)
  PROVE  /\ Older
         /\ DOMAIN challenges' = DOMAIN challenges \cup {Len(challenges) + 1}
         /\ \A i \in DOMAIN challenges : challenges'[i] = challenges[i]
         /\ challenges'[Len(challenges) + 1] = NewRow(p, value, purpose)
<1>1. NewRow(p, value, purpose) \in ChallengeRow
  BY DEF NewRow, ChallengeRow
<1>2. challenges \in Seq(ChallengeRow) /\ challenges' = Append(challenges, NewRow(p, value, purpose))
  BY DEF Shaped, Issued
<1>3. challenges' \in Seq(ChallengeRow)
  BY <1>1, <1>2, AppendProperties
<1> QED BY <1>2, <1>3, Appended DEF Older

\* Consuming closes the rows that matched, and changes nothing else of any row.
LEMMA ConsumedCloses ==
  ASSUME Shaped, NEW matched, Consumed(matched)
  PROVE  /\ Older
         /\ DOMAIN challenges' = DOMAIN challenges
         /\ \A i \in DOMAIN challenges :
              /\ challenges'[i].principal = challenges[i].principal
              /\ challenges'[i].purpose = challenges[i].purpose
              /\ challenges'[i].challenge = challenges[i].challenge
              /\ challenges'[i].open <=> challenges[i].open /\ i \notin matched
<1> DEFINE n == Len(challenges)
           Closed(i) == [challenges[i] EXCEPT !.open = @ /\ i \notin matched]
<1>1. n \in Nat /\ DOMAIN challenges = 1..n
  BY LenProperties DEF Shaped
<1>2. \A i \in 1..n : challenges[i] \in ChallengeRow
  BY ElementOfSeq DEF Shaped
<1>3. ASSUME NEW i \in 1..n
      PROVE  /\ Closed(i) \in ChallengeRow
             /\ Closed(i).principal = challenges[i].principal
             /\ Closed(i).purpose = challenges[i].purpose
             /\ Closed(i).challenge = challenges[i].challenge
             /\ Closed(i).open <=> challenges[i].open /\ i \notin matched
  <2>1. challenges[i] \in ChallengeRow
    BY <1>2
  <2> QED BY <2>1 DEF ChallengeRow
<1>4. challenges' = [i \in 1..n |-> Closed(i)]
  BY <1>1 DEF Consumed
<1> HIDE DEF Closed, n
<1>5. [i \in 1..n |-> Closed(i)] \in Seq(ChallengeRow)
  BY <1>1, <1>3, IsASeq
<1>6. DOMAIN challenges' = 1..n /\ \A i \in 1..n : challenges'[i] = Closed(i)
  BY <1>4
<1> QED BY <1>1, <1>3, <1>4, <1>5, <1>6 DEF Older

\* A random challenge is a natural number, and a policy's hash is a hash.
LEMMA ChallengeValues ==
  /\ Shaped => Fresh \in Nat
  /\ \A m \in Mandate : HashOf[m] \in Hashes /\ PrincipalOf[m] \in Principal
<1>1. Shaped => Fresh \in Nat
  BY LenProperties DEF Shaped, Fresh
<1> QED BY <1>1, CeremonyNamesAssumption DEF Hashes

\* The actions that touch the challenges: three that issue, three that consume.
LEMMA ChallengesAge ==
  ASSUME CeremonyInv, [CeremonyNext]_ceremonyVars
  PROVE  Older
<1>1. Shaped /\ \A c \in Caller : RequestSound(call[c])
  BY DEF CeremonyInv
<1>2. UNCHANGED challenges => Older
  BY <1>1 DEF Shaped, Older
<1>3. ASSUME NEW c \in Caller, IssueOptions(c) PROVE Older
  <2>1. call[c].mandate \in Mandate /\ call[c].principal = PrincipalOf[call[c].mandate]
    BY <1>1, <1>3 DEF IssueOptions, At, RequestSound, StepFits
  <2>2. call[c].principal \in Principal /\ HashOf[call[c].mandate] \in Nat \cup Hashes
        /\ PrincipalOf[call[c].mandate] \in Principal /\ Fresh \in Nat \cup Hashes
    BY <1>1, <2>1, ChallengeValues
  <2>3. "REGISTRATION" \in Purpose /\ "MANDATE_AUTHENTICATION" \in Purpose
    BY DEF Purpose
  <2> QED
    BY <1>1, <1>3, <2>2, <2>3, IssuedAdds
       DEF IssueOptions, beginMandateAuthentication, beginRegistration
<1>4. ASSUME NEW p \in Principal, ReenrollmentOptions(p) PROVE Older
  <2>1. Fresh \in Nat \cup Hashes /\ "REENROLLMENT_AUTHENTICATION" \in Purpose
    BY <1>1, ChallengeValues DEF Purpose
  <2> QED BY <1>1, <1>4, <2>1, IssuedAdds DEF ReenrollmentOptions, beginReenrollmentAuthentication
<1>5. ASSUME NEW c \in Caller, MintGrant(c) PROVE Older
  <2>1. Fresh \in Nat \cup Hashes /\ "REENROLLMENT_GRANT" \in Purpose
    BY <1>1, ChallengeValues DEF Purpose
  <2>2. call[c].principal \in Principal
    BY <1>1, <1>5 DEF MintGrant, At, RequestSound, StepFits, Working, Holding
  <2> QED BY <1>1, <1>5, <2>1, <2>2, IssuedAdds DEF MintGrant
<1>6. ASSUME NEW c \in Caller, ConsumeGrant(c) \/ ConsumeChallenge(c) PROVE Older
  BY <1>1, <1>6, ConsumedCloses DEF ConsumeGrant, ConsumeChallenge
<1>7. ASSUME NEW i \in DOMAIN challenges, Expire(i) PROVE Older
  BY <1>1, <1>7, ConsumedCloses DEF Expire
<1>8. ASSUME NEW c \in Caller, Steps(c) PROVE Older
  BY <1>2, <1>3, <1>5, <1>6, <1>8
     DEF Steps, CheckEnrolled, SaveCredential, FindCredential, UpdateCounter, Activate
<1> QED
  BY <1>2, <1>4, <1>7, <1>8, ZenonT(60)
     DEF CeremonyNext, ceremonyVars, BeginOptions, BeginVerify, BeginReenroll, Sign

\* What a request does with the row it consumed is the last thing it does.
LEMMA ActsAppend ==
  ASSUME [CeremonyNext]_ceremonyVars
  PROVE  \/ UNCHANGED acts
         \/ \E c \in Caller : /\ call[c].at \in {"save", "activate", "mint"}
                              /\ acts' = Append(acts, Act(c))
                              /\ Becomes(c, Idle)
<1>1. ASSUME NEW c \in Caller, Steps(c)
      PROVE  \/ UNCHANGED acts
             \/ /\ call[c].at \in {"save", "activate", "mint"}
                /\ acts' = Append(acts, Act(c)) /\ Becomes(c, Idle)
  BY <1>1 DEF Steps, IssueOptions, CheckEnrolled, ConsumeGrant, ConsumeChallenge, SaveCredential,
              FindCredential, UpdateCounter, Activate, MintGrant, At
<1> QED
  BY <1>1, ZenonT(60)
     DEF CeremonyNext, ceremonyVars, BeginOptions, ReenrollmentOptions, BeginVerify, BeginReenroll, Sign, Expire

\* What was done stays done, where it was.
LEMMA ActsGrow ==
  ASSUME Shaped, [CeremonyNext]_ceremonyVars
  PROVE  /\ \E S : acts' \in Seq(S)
         /\ DOMAIN acts \subseteq DOMAIN acts' /\ DOMAIN acts' \subseteq Nat
         /\ \A i \in DOMAIN acts : acts'[i] = acts[i]
<1>1. PICK S : acts \in Seq(S)
  BY DEF Shaped
<1>2. DOMAIN acts = 1..Len(acts) /\ Len(acts) \in Nat
  BY <1>1, LenProperties
<1>3. CASE UNCHANGED acts
  BY <1>1, <1>2, <1>3
<1>4. CASE \E c \in Caller : acts' = Append(acts, Act(c))
  <2>1. PICK c \in Caller : acts' = Append(acts, Act(c))
    BY <1>4
  <2>2. /\ acts' \in Seq(S \cup {Act(c)}) /\ DOMAIN acts' = DOMAIN acts \cup {Len(acts) + 1}
        /\ \A i \in DOMAIN acts : acts'[i] = acts[i]
    BY <1>1, <2>1, Appended
  <2> QED BY <1>2, <2>2
<1> QED BY <1>3, <1>4, ActsAppend

\* A passkey that was enrolled for a principal stays so.
LEMMA RegisteredStays ==
  ASSUME Shaped, [CeremonyNext]_ceremonyVars, NEW k, NEW p, Registered(k, p)
  PROVE  Registered(k, p)'
<1>1. PICK j \in Done("register", p) : acts[j].response.credential = k
  BY DEF Registered
<1>2. j \in DOMAIN acts' /\ acts'[j] = acts[j]
  BY <1>1, ActsGrow DEF Done
<1> QED BY <1>1, <1>2 DEF Registered, Done

----------------------------------------------------------------------------
(* The passkeys.                                                            *)

\* Saving a passkey enrols it for the request's principal.
LEMMA SaveRegisters ==
  ASSUME CeremonyInv, [CeremonyNext]_ceremonyVars, NEW c \in Caller, SaveCredential(c), credentials' # credentials,
         NEW k, k = call[c].response.credential, NEW p, p = call[c].principal
  PROVE  /\ credentials' = [credentials EXCEPT ![k] =
                              [principal |-> p, counter |-> call[c].response.counter]]
         /\ Registered(k, p)'
<1>1. PICK S : acts \in Seq(S)
  BY DEF CeremonyInv, Shaped
<1>2. /\ call[c].kind = "register" /\ acts' = Append(acts, Act(c))
      /\ credentials' = [credentials EXCEPT ![k] =
                           [principal |-> p, counter |-> call[c].response.counter]]
  BY DEF SaveCredential, At, CeremonyInv, RequestSound, StepFits
<1>3. Len(acts) + 1 \in DOMAIN acts' /\ acts'[Len(acts) + 1] = Act(c)
  BY <1>1, <1>2, Appended
<1>4. Act(c).kind = "register" /\ Act(c).principal = p /\ Act(c).response.credential = k
  BY <1>2 DEF Act
<1> QED BY <1>2, <1>3, <1>4 DEF Registered, Done

\* Passkeys are saved and their counters updated; they change in no other way.
LEMMA CredentialsMove ==
  ASSUME [CeremonyNext]_ceremonyVars
  PROVE  \/ UNCHANGED credentials
         \/ \E c \in Caller : SaveCredential(c)
         \/ \E c \in Caller : UpdateCounter(c)
BY ZenonT(60)
   DEF CeremonyNext, ceremonyVars, BeginOptions, ReenrollmentOptions, BeginVerify, BeginReenroll, Sign, Expire,
       Steps, IssueOptions, CheckEnrolled, ConsumeGrant, ConsumeChallenge, FindCredential,
       Activate, MintGrant

\* What UpdateCounter writes.
LEMMA CounterMoves ==
  ASSUME CeremonyInv, NEW c \in Caller, UpdateCounter(c)
  PROVE  /\ credentials' = [credentials EXCEPT ![call[c].response.credential] =
              [principal |-> credentials[call[c].response.credential].principal,
               counter |-> call[c].counter]]
         /\ call[c].response.credential \in Credential
<1> DEFINE k == call[c].response.credential
           r == credentials[k]
<1>1. k \in Credential /\ Columns(r)
  BY DEF UpdateCounter, At, CeremonyInv, RequestSound, StepFits, Verified, Stored, Working, Holding
<1>2. credentials' = [credentials EXCEPT ![k] = [r EXCEPT !.counter = call[c].counter]]
  BY DEF UpdateCounter
<1> HIDE DEF r
<1>3. [r EXCEPT !.counter = call[c].counter] = [principal |-> r.principal, counter |-> call[c].counter]
  BY <1>1 DEF Columns
<1> QED BY <1>1, <1>2, <1>3 DEF r

\* A passkey that was enrolled and stored stays so, whoever saves what meanwhile.
LEMMA StoredStays ==
  ASSUME CeremonyInv, [CeremonyNext]_ceremonyVars, NEW k \in Credential, Stored(k)
  PROVE  Stored(k)'
<1>1. Shaped
  BY DEF CeremonyInv
<1>2. CASE UNCHANGED credentials
  BY <1>1, <1>2, RegisteredStays DEF Stored
<1>3. ASSUME NEW c \in Caller, SaveCredential(c), credentials' # credentials PROVE Stored(k)'
  <2>1. PICK x, p : x = call[c].response.credential /\ p = call[c].principal
    OBVIOUS
  <2>2. /\ credentials' = [credentials EXCEPT ![x] =
             [principal |-> p, counter |-> call[c].response.counter]]
        /\ Registered(x, p)'
    BY <1>3, <2>1, SaveRegisters
  <2>3. CASE k = x
    <3>1. credentials'[k] = [principal |-> p, counter |-> call[c].response.counter]
      BY <1>1, <2>2, <2>3 DEF Shaped
    <3>2. Columns(credentials'[k]) /\ credentials'[k].principal = p
      BY <3>1 DEF Columns
    <3> QED BY <2>2, <2>3, <3>2 DEF Stored, Registered, Done
  <2>4. CASE k # x
    <3>1. credentials'[k] = credentials[k]
      BY <1>1, <2>2, <2>4 DEF Shaped
    <3> QED BY <1>1, <3>1, RegisteredStays DEF Stored
  <2> QED BY <2>3, <2>4
<1>4. ASSUME NEW c \in Caller, UpdateCounter(c) PROVE Stored(k)'
  <2> DEFINE x == call[c].response.credential
             r == [principal |-> credentials[x].principal, counter |-> call[c].counter]
  <2>1. credentials' = [credentials EXCEPT ![x] = r]
    BY <1>4, CounterMoves
  <2>2. credentials'[k] = IF k = x THEN r ELSE credentials[k]
    BY <1>1, <2>1 DEF Shaped
  <2>3. Columns(credentials'[k]) /\ credentials'[k].principal = credentials[k].principal
    BY <2>2 DEF Columns, Stored
  <2> QED BY <1>1, <2>3, RegisteredStays DEF Stored
<1> QED BY <1>2, <1>3, <1>4, CredentialsMove

\* Every passkey in the table is one that was enrolled.
LEMMA PasskeysStep ==
  ASSUME CeremonyInv, [CeremonyNext]_ceremonyVars, NEW k \in Credential, credentials'[k] # None
  PROVE  Stored(k)'
<1>1. Shaped
  BY DEF CeremonyInv
<1>2. CASE credentials[k] # None
  BY <1>2, StoredStays DEF CeremonyInv
<1>3. CASE credentials[k] = None
  <2>1. PICK c \in Caller : SaveCredential(c) \/ UpdateCounter(c)
    BY <1>3, CredentialsMove
  <2> DEFINE x == call[c].response.credential
  <2>2. CASE SaveCredential(c)
    <3>1. PICK y, p : y = x /\ p = call[c].principal
      OBVIOUS
    <3>2. /\ credentials' = [credentials EXCEPT ![y] =
               [principal |-> p, counter |-> call[c].response.counter]]
          /\ Registered(y, p)'
      BY <1>3, <2>2, <3>1, SaveRegisters
    <3>3. k = y /\ credentials'[k] = [principal |-> p, counter |-> call[c].response.counter]
      BY <1>1, <1>3, <3>2 DEF Shaped
    <3>4. Columns(credentials'[k]) /\ credentials'[k].principal = p
      BY <3>3 DEF Columns
    <3> QED BY <3>2, <3>3, <3>4 DEF Stored, Registered, Done
  <2>3. CASE UpdateCounter(c)
    <3>1. k = x
      BY <1>1, <1>3, <2>3, CounterMoves, ZenonT(60) DEF Shaped
    <3>2. Stored(x)
      BY <2>3 DEF UpdateCounter, At, CeremonyInv, RequestSound, Verified
    <3> QED BY <3>1, <3>2, StoredStays
  <2> QED BY <2>1, <2>2, <2>3
<1> QED BY <1>2, <1>3

----------------------------------------------------------------------------
(* The requests.                                                            *)

\* At most one request takes a step at a time.
LEMMA OneMoves ==
  ASSUME [CeremonyNext]_ceremonyVars
  PROVE  UNCHANGED call \/ \E c \in Caller : \E q : Becomes(c, q)
<1>1. ASSUME NEW c \in Caller, Steps(c)
      PROVE  \E q : Becomes(c, q)
  BY <1>1 DEF Steps, IssueOptions, CheckEnrolled, ConsumeGrant, ConsumeChallenge, SaveCredential,
              FindCredential, UpdateCounter, Activate, MintGrant, Goes
<1> QED
  BY <1>1, ZenonT(60)
     DEF CeremonyNext, ceremonyVars, BeginOptions, ReenrollmentOptions, BeginVerify, BeginReenroll, Sign, Expire

\* What a request remembers stays true while others step.
LEMMA OthersSound ==
  ASSUME CeremonyInv, [CeremonyNext]_ceremonyVars, NEW d \in Caller, call'[d] = call[d]
  PROVE  RequestSound(call[d])'
<1> DEFINE q == call[d]
<1>1. Shaped /\ RequestSound(q)
  BY DEF CeremonyInv
<1>2. RowInHand(call[d])'
  <2> SUFFICES ASSUME q.at \in Holding
               PROVE  /\ q.row \in DOMAIN challenges' /\ ~challenges'[q.row].open
                      /\ \A i \in DOMAIN acts' : acts'[i].row # q.row
    BY DEF RowInHand
  <2>1. q.row \in DOMAIN challenges' /\ ~challenges'[q.row].open
    BY <1>1, ChallengesAge DEF RequestSound, RowInHand, Older
  <2>2. \A i \in DOMAIN acts : acts[i].row # q.row
    BY <1>1 DEF RequestSound, RowInHand
  <2>3. ASSUME NEW c \in Caller, call[c].at \in {"save", "activate", "mint"},
               acts' = Append(acts, Act(c)), Becomes(c, Idle)
        PROVE  \A i \in DOMAIN acts' : acts'[i].row # q.row
    <3>1. PICK S : acts \in Seq(S)
      BY <1>1 DEF Shaped
    <3>2. /\ DOMAIN acts' = DOMAIN acts \cup {Len(acts) + 1}
          /\ \A i \in DOMAIN acts : acts'[i] = acts[i]
          /\ acts'[Len(acts) + 1] = Act(c)
      BY <2>3, <3>1, Appended
    <3>3. c # d
      BY <1>1, <2>3 DEF Becomes, Shaped, Idle
    <3>4. call[c].row # q.row
      BY <2>3, <3>3 DEF CeremonyInv, DistinctRows, Holding
    <3> QED BY <2>2, <3>2, <3>4 DEF Act
  <2> QED BY <2>1, <2>2, <2>3, ActsAppend
<1>3. StepFits(call[d])'
  BY <1>1 DEF RequestSound, StepFits
<1>4. Verified(call[d])'
  <2>1. q.at = "counter" => q.response.credential \in Credential
    BY <1>1 DEF RequestSound, StepFits, Working, Holding
  <2>2. Verified(q)
    BY <1>1 DEF RequestSound
  <2>3. q.at = "counter" => Stored(q.response.credential)'
    BY <2>1, <2>2, StoredStays DEF Verified
  <2>4. q.at \in {"counter", "activate", "mint"} =>
          q.response.challenge = q.claimed /\ Registered(q.response.credential, q.principal)'
    BY <1>1, <2>2, RegisteredStays DEF Verified
  <2> QED BY <2>3, <2>4 DEF Verified, Registered, Done, Stored
<1> QED BY <1>2, <1>3, <1>4 DEF RequestSound

\* The record a request that steps leaves behind, when the step says what it is.
LEMMA Stepped ==
  ASSUME Shaped, NEW c \in Caller, NEW q, Becomes(c, q)
  PROVE  /\ call'[c] = q
         /\ call' = [d \in Caller |-> call'[d]]
         /\ \A d \in Caller : d # c => call'[d] = call[d]
BY DEF Shaped, Becomes

\* A request that is done holds nothing.
LEMMA IdleSound ==
  ASSUME NEW c \in Caller, call'[c] = Idle
  PROVE  Fields(call'[c]) /\ RequestSound(call[c])'
<1>1. Idle.at = "idle" /\ Fields(Idle)
  BY DEF Idle, Fields
<1> QED
  BY <1>1 DEF RequestSound, RowInHand, StepFits, Verified, Working, Holding

\* A request that begins is for the principal whose mandate or passkey it is.
LEMMA BeginSound ==
  ASSUME CeremonyInv, NEW c \in Caller,
         \/ \E m \in Mandate : BeginOptions(c, m)
         \/ \E m \in Mandate, r \in signed : BeginVerify(c, "authenticate", m, None, r)
         \/ \E m \in Mandate, r \in signed : \E g : BeginVerify(c, "register", m, g, r)
         \/ \E p \in Principal, r \in signed : BeginReenroll(c, p, r)
  PROVE  Fields(call'[c]) /\ RequestSound(call[c])'
<1> DEFINE q == call'[c]
<1>1. Shaped /\ Idle.at = "idle" /\ ~Idle.had /\ Fields(Idle)
  BY DEF CeremonyInv, Idle, Fields
<1>2. ASSUME NEW m \in Mandate, BeginOptions(c, m)
      PROVE  Fields(q) /\ q.at = "issue" /\ q.mandate = m /\ q.principal = PrincipalOf[m]
  <2>1. q = [Idle EXCEPT !.at = "issue", !.kind = "options", !.mandate = m,
                         !.principal = PrincipalOf[m], !.had = hasCredentialForPrincipal(PrincipalOf[m])]
    BY <1>1, <1>2, Stepped DEF BeginOptions
  <2> QED BY <2>1 DEF Idle, Fields
<1>3. ASSUME NEW m \in Mandate, NEW r \in signed, BeginVerify(c, "authenticate", m, None, r)
      PROVE  /\ Fields(q) /\ q.at = "consume" /\ q.kind = "authenticate" /\ q.mandate = m
             /\ q.principal = PrincipalOf[m] /\ q.claimed = HashOf[m] /\ q.response = r
  <2>1. q = [Idle EXCEPT !.at = "consume", !.kind = "authenticate", !.mandate = m,
                         !.principal = PrincipalOf[m], !.grant = None,
                         !.claimed = HashOf[m], !.response = r]
    BY <1>1, <1>3, Stepped DEF BeginVerify
  <2> QED BY <2>1, ZenonT(60) DEF Idle, Fields
<1>4. ASSUME NEW m \in Mandate, NEW r \in signed, NEW g, BeginVerify(c, "register", m, g, r)
      PROVE  /\ Fields(q) /\ q.at = "check" /\ q.kind = "register" /\ ~q.had
             /\ q.principal = PrincipalOf[m] /\ q.response = r
  <2>1. q = [Idle EXCEPT !.at = "check", !.kind = "register", !.mandate = m,
                         !.principal = PrincipalOf[m], !.grant = g,
                         !.claimed = r.challenge, !.response = r]
    BY <1>1, <1>4, Stepped DEF BeginVerify
  <2> QED BY <2>1 DEF Idle, Fields
<1>5. ASSUME NEW p \in Principal, NEW r \in signed, BeginReenroll(c, p, r)
      PROVE  /\ Fields(q) /\ q.at = "consume" /\ q.kind = "reenroll"
             /\ q.principal = p /\ q.response = r
  <2>1. q = [Idle EXCEPT !.at = "consume", !.kind = "reenroll", !.principal = p,
                         !.claimed = r.challenge, !.response = r]
    BY <1>1, <1>5, Stepped DEF BeginReenroll
  <2> QED BY <2>1 DEF Idle, Fields
<1>6. \A r \in signed : r.credential \in Credential
  BY <1>1 DEF Shaped
<1>7. \A m \in Mandate : PrincipalOf[m] \in Principal
  BY ChallengeValues
<1>8. /\ Fields(q) /\ q.at \in {"issue", "consume", "check"}
      /\ q.at = "issue" => q.mandate \in Mandate /\ q.principal = PrincipalOf[q.mandate]
      /\ q.at # "issue" => q.principal \in Principal /\ q.response.credential \in Credential
      /\ q.at = "check" => q.kind = "register" /\ ~q.had
      /\ q.at = "consume" => q.kind \in {"authenticate", "reenroll"}
      /\ q.at # "issue" /\ q.kind = "authenticate" =>
           q.mandate \in Mandate /\ q.principal = PrincipalOf[q.mandate]
           /\ q.claimed = HashOf[q.mandate]
  <2> HIDE DEF q
  <2> QED BY <1>2, <1>3, <1>4, <1>5, <1>6, <1>7
<1> HIDE DEF q
<1>9. RowInHand(call[c])' /\ Verified(call[c])'
  BY <1>8 DEF q, RowInHand, Verified, Holding
<1>10. StepFits(call[c])'
  BY <1>8 DEF q, StepFits, Working, Holding
<1> QED BY <1>8, <1>9, <1>10 DEF q, RequestSound

\* A first passkey needs no grant, and a further one asks for it.
LEMMA CheckSound ==
  ASSUME CeremonyInv, NEW c \in Caller, CheckEnrolled(c)
  PROVE  Fields(call'[c]) /\ RequestSound(call[c])'
<1> DEFINE q == call[c]
<1>1. Shaped /\ Fields(q) /\ StepFits(q) /\ q.at = "check"
  BY DEF CeremonyInv, Shaped, RequestSound, CheckEnrolled, At
<1>2. \/ call'[c] = Idle
      \/ call'[c] = [q EXCEPT !.had = TRUE, !.at = "grant"]
      \/ call'[c] = [q EXCEPT !.at = "consume", !.grant = None]
  BY <1>1, Stepped DEF CheckEnrolled
<1>3. CASE call'[c] = Idle
  BY <1>3, IdleSound
<1>4. CASE call'[c] # Idle
  <2>1. /\ Fields(call'[c]) /\ call'[c].at \in {"grant", "consume"} /\ call'[c].kind = "register"
        /\ call'[c].principal \in Principal /\ call'[c].response.credential \in Credential
    BY <1>1, <1>2, <1>4 DEF Fields, StepFits, Working
  <2> QED BY <2>1 DEF RequestSound, RowInHand, StepFits, Verified, Working, Holding
<1> QED BY <1>3, <1>4

\* A request that had a grant consumed goes on with its registration.
LEMMA GrantSound ==
  ASSUME CeremonyInv, NEW c \in Caller, ConsumeGrant(c)
  PROVE  Fields(call'[c]) /\ RequestSound(call[c])'
<1> DEFINE q == call[c]
<1>1. Shaped /\ Fields(q) /\ StepFits(q) /\ q.at = "grant"
  BY DEF CeremonyInv, Shaped, RequestSound, ConsumeGrant, At
<1>2. call'[c] = Idle \/ call'[c] = [q EXCEPT !.at = "consume", !.grant = None]
  BY <1>1, Stepped DEF ConsumeGrant
<1>3. CASE call'[c] = Idle
  BY <1>3, IdleSound
<1>4. CASE call'[c] # Idle
  <2>1. /\ Fields(call'[c]) /\ call'[c].at = "consume" /\ call'[c].kind = "register"
        /\ call'[c].principal \in Principal /\ call'[c].response.credential \in Credential
    BY <1>1, <1>2, <1>4 DEF Fields, StepFits, Working
  <2> QED BY <2>1 DEF RequestSound, RowInHand, StepFits, Verified, Working, Holding
<1> QED BY <1>3, <1>4

\* A request takes in hand a challenge that was open, and closes it.
LEMMA ConsumeSound ==
  ASSUME CeremonyInv, NEW c \in Caller, ConsumeChallenge(c)
  PROVE  /\ Fields(call'[c]) /\ RequestSound(call[c])'
         /\ call'[c].at \in Holding =>
              call'[c].row \in DOMAIN challenges /\ challenges[call'[c].row].open
<1> DEFINE q == call[c]
           matched == Matching(q.principal, q.claimed)
<1>1. Shaped /\ Fields(q) /\ StepFits(q) /\ q.at = "consume" /\ UNCHANGED acts
  BY ZenonT(60) DEF CeremonyInv, Shaped, RequestSound, ConsumeChallenge, At
<1>2. \/ call'[c] = Idle
      \/ \E i \in matched :
           call'[c] = [q EXCEPT !.row = i, !.at = IF q.kind = "register" THEN "save" ELSE "find"]
  BY <1>1, Stepped, ZenonT(60) DEF ConsumeChallenge
<1>3. CASE call'[c] = Idle
  <2>1. call'[c].at = "idle"
    BY <1>3 DEF Idle
  <2> QED BY <1>3, <2>1, IdleSound DEF Holding
<1>4. ASSUME NEW i \in matched,
             call'[c] = [q EXCEPT !.row = i, !.at = IF q.kind = "register" THEN "save" ELSE "find"]
      PROVE  /\ Fields(call'[c]) /\ RequestSound(call[c])'
             /\ call'[c].row \in DOMAIN challenges /\ challenges[call'[c].row].open
  <2>1. i \in DOMAIN challenges /\ challenges[i].open
    BY DEF Matching, Is
  <2>2. Consumed(matched)
    BY DEF ConsumeChallenge
  <2>3. i \in DOMAIN challenges' /\ ~challenges'[i].open
    BY <1>1, <2>1, <2>2, ConsumedCloses
  <2>4. \A j \in DOMAIN acts : acts[j].row # i
    BY <2>1 DEF CeremonyInv, ActsSound
  <2>5. /\ Fields(call'[c]) /\ call'[c].row = i
        /\ call'[c].at = IF q.kind = "register" THEN "save" ELSE "find"
        /\ call'[c].kind = q.kind /\ call'[c].principal = q.principal
        /\ call'[c].response = q.response /\ call'[c].mandate = q.mandate
        /\ call'[c].claimed = q.claimed
    BY <1>1, <1>4 DEF Fields
  <2>6. StepFits(call[c])'
    BY <1>1, <2>5 DEF StepFits, Working, Holding
  <2>7. RowInHand(call[c])' /\ Verified(call[c])'
    BY <1>1, <2>3, <2>4, <2>5 DEF RowInHand, Verified
  <2> QED BY <2>1, <2>5, <2>6, <2>7 DEF RequestSound
<1> QED BY <1>2, <1>3, <1>4

\* A request goes on past its verification only with a passkey that was enrolled
\* for its principal and signed what is claimed.
LEMMA FindSound ==
  ASSUME CeremonyInv, [CeremonyNext]_ceremonyVars, NEW c \in Caller, FindCredential(c)
  PROVE  Fields(call'[c]) /\ RequestSound(call[c])'
<1> DEFINE q == call[c]
           k == q.response.credential
<1>1. Shaped /\ Fields(q) /\ RequestSound(q) /\ q.at = "find"
  BY DEF CeremonyInv, Shaped, FindCredential, At
<1>2. \/ call'[c] = Idle
      \/ /\ MayAuthenticate(k, q.principal)
         /\ verifyAuthentication(q.response, q.claimed, credentials[k].counter)
         /\ call'[c] = [q EXCEPT !.at = "counter", !.counter = q.response.counter]
  BY <1>1, Stepped DEF FindCredential
<1>3. CASE call'[c] = Idle
  BY <1>3, IdleSound
<1>4. CASE /\ MayAuthenticate(k, q.principal)
           /\ verifyAuthentication(q.response, q.claimed, credentials[k].counter)
           /\ call'[c] = [q EXCEPT !.at = "counter", !.counter = q.response.counter]
  <2>1. /\ Fields(call'[c]) /\ call'[c].row = q.row /\ call'[c].at = "counter"
        /\ call'[c].kind = q.kind /\ call'[c].principal = q.principal
        /\ call'[c].response = q.response /\ call'[c].mandate = q.mandate
        /\ call'[c].claimed = q.claimed
    BY <1>1, <1>4 DEF Fields
  <2>2. UNCHANGED <<challenges, credentials, acts>>
    BY DEF FindCredential
  <2>3. StepFits(call[c])'
    BY <1>1, <2>1 DEF RequestSound, StepFits, Working, Holding
  <2>4. RowInHand(call[c])'
    BY <1>1, <2>1, <2>2 DEF RequestSound, RowInHand, Holding
  <2>5. q.response.challenge = q.claimed /\ k \in Enrolled /\ credentials[k].principal = q.principal
    BY <1>4 DEF verifyAuthentication, MayAuthenticate, PasskeysOf
  <2>6. Stored(k) /\ Registered(k, q.principal)
    BY <2>5 DEF Enrolled, CeremonyInv, Stored
  <2>7. Verified(call[c])'
    BY <2>1, <2>2, <2>5, <2>6 DEF Verified, Stored, Registered, Done, Columns
  <2> QED BY <2>1, <2>3, <2>4, <2>7 DEF RequestSound
<1> QED BY <1>2, <1>3, <1>4

\* Writing the counter changes nothing the rest of the request relies on.
LEMMA CounterSound ==
  ASSUME CeremonyInv, [CeremonyNext]_ceremonyVars, NEW c \in Caller, UpdateCounter(c)
  PROVE  Fields(call'[c]) /\ RequestSound(call[c])'
<1> DEFINE q == call[c]
<1>1. Shaped /\ Fields(q) /\ RequestSound(q) /\ q.at = "counter"
  BY DEF CeremonyInv, Shaped, UpdateCounter, At
<1>2. call'[c] = [q EXCEPT !.at = IF q.kind = "authenticate" THEN "activate" ELSE "mint"]
  BY <1>1, Stepped DEF UpdateCounter, Goes
<1>3. /\ Fields(call'[c]) /\ call'[c].row = q.row
      /\ call'[c].at = (IF q.kind = "authenticate" THEN "activate" ELSE "mint")
      /\ call'[c].kind = q.kind /\ call'[c].principal = q.principal
      /\ call'[c].response = q.response /\ call'[c].mandate = q.mandate
      /\ call'[c].claimed = q.claimed
  BY <1>1, <1>2 DEF Fields
<1>4. UNCHANGED <<challenges, acts>>
  BY DEF UpdateCounter
<1>5. StepFits(call[c])'
  BY <1>1, <1>3 DEF RequestSound, StepFits, Working, Holding
<1>6. RowInHand(call[c])'
  BY <1>1, <1>3, <1>4 DEF RequestSound, RowInHand, Holding
<1>7. Verified(call[c])'
  BY <1>1, <1>3, <1>4 DEF RequestSound, Verified, Registered, Done
<1> QED BY <1>3, <1>5, <1>6, <1>7 DEF RequestSound


\* The row a request has in hand is the one it had, or one it found open.
Takes(c) ==
  call'[c].at \in Holding =>
    \/ call[c].at \in Holding /\ call'[c].row = call[c].row
    \/ call'[c].row \in DOMAIN challenges /\ challenges[call'[c].row].open

\* Which row a request takes in hand, whatever step it takes.
LEMMA RowsTaken ==
  ASSUME CeremonyInv, NEW c \in Caller,
         \/ \E m \in Mandate : BeginOptions(c, m)
         \/ \E m \in Mandate, r \in signed : BeginVerify(c, "authenticate", m, None, r)
         \/ \E m \in Mandate, r \in signed : \E g : BeginVerify(c, "register", m, g, r)
         \/ \E p \in Principal, r \in signed : BeginReenroll(c, p, r)
         \/ Steps(c)
  PROVE  Takes(c)
<1> DEFINE q == call[c]
<1>1. Shaped /\ Fields(q) /\ Idle.at = "idle" /\ Fields(Idle)
  BY DEF CeremonyInv, Shaped, Idle, Fields
<1>2. CASE call'[c] = Idle
  BY <1>1, <1>2 DEF Takes, Holding
<1>3. ASSUME NEW m \in Mandate, BeginOptions(c, m) PROVE call'[c].at = "issue"
  <2>1. call'[c] = [Idle EXCEPT !.at = "issue", !.kind = "options", !.mandate = m,
                         !.principal = PrincipalOf[m], !.had = hasCredentialForPrincipal(PrincipalOf[m])]
    BY <1>1, <1>3, Stepped, ZenonT(60) DEF BeginOptions
  <2> QED BY <2>1 DEF Idle
<1>4. ASSUME NEW m \in Mandate, NEW r, NEW g, NEW kind, BeginVerify(c, kind, m, g, r)
      PROVE  call'[c].at \in {"check", "consume"}
  <2>1. call'[c] = [Idle EXCEPT !.at = IF kind = "register" THEN "check" ELSE "consume",
                         !.kind = kind, !.mandate = m, !.principal = PrincipalOf[m], !.grant = g,
                         !.claimed = IF kind = "register" THEN r.challenge ELSE HashOf[m],
                         !.response = r]
    BY <1>1, <1>4, Stepped DEF BeginVerify
  <2>2. call'[c].at = IF kind = "register" THEN "check" ELSE "consume"
    BY <2>1 DEF Idle
  <2> QED BY <2>2
<1>5. ASSUME NEW p, NEW r, BeginReenroll(c, p, r) PROVE call'[c].at = "consume"
  <2>1. call'[c] = [Idle EXCEPT !.at = "consume", !.kind = "reenroll", !.principal = p,
                         !.claimed = r.challenge, !.response = r]
    BY <1>1, <1>5, Stepped DEF BeginReenroll
  <2> QED BY <2>1 DEF Idle
<1>6. CASE CheckEnrolled(c) \/ ConsumeGrant(c)
  <2>1. \/ call'[c] = Idle
        \/ call'[c] = [q EXCEPT !.had = TRUE, !.at = "grant"]
        \/ call'[c] = [q EXCEPT !.at = "consume", !.grant = None]
    BY <1>1, <1>6, Stepped DEF CheckEnrolled, ConsumeGrant
  <2>2. call'[c] = Idle \/ call'[c].at \in {"grant", "consume"}
    BY <1>1, <2>1 DEF Fields
  <2> QED BY <1>2, <2>2 DEF Takes, Holding
<1>7. CASE FindCredential(c) \/ UpdateCounter(c)
  <2>1. \/ call'[c] = Idle
        \/ call'[c] = [q EXCEPT !.at = "counter", !.counter = q.response.counter]
        \/ call'[c] = [q EXCEPT !.at = IF q.kind = "authenticate" THEN "activate" ELSE "mint"]
    BY <1>1, <1>7, Stepped DEF FindCredential, UpdateCounter, Goes
  <2>2. call'[c] = Idle \/ call'[c].row = q.row
    BY <1>1, <2>1 DEF Fields
  <2>3. q.at \in {"find", "counter"}
    BY <1>7 DEF FindCredential, UpdateCounter, At
  <2> QED BY <1>2, <2>2, <2>3 DEF Takes, Holding
<1>8. CASE IssueOptions(c) \/ SaveCredential(c) \/ Activate(c) \/ MintGrant(c)
  <2>1. call'[c] = Idle
    BY <1>1, <1>8, Stepped DEF IssueOptions, SaveCredential, Activate, MintGrant
  <2> QED BY <1>2, <2>1
<1>9. call'[c].at \in {"issue", "check", "consume"} => Takes(c)
  BY DEF Takes, Holding
<1>10. CASE ConsumeChallenge(c)
  BY <1>10, ConsumeSound DEF Takes
<1> QED BY <1>3, <1>4, <1>5, <1>6, <1>7, <1>8, <1>9, <1>10 DEF Steps

\* At a step of the system one request at most moves, and is sound where it comes.
LEMMA Mover ==
  ASSUME CeremonyInv, [CeremonyNext]_ceremonyVars
  PROVE  \/ UNCHANGED call
         \/ \E c \in Caller :
              /\ call' = [d \in Caller |-> call'[d]]
              /\ \A d \in Caller : d # c => call'[d] = call[d]
              /\ Fields(call'[c]) /\ RequestSound(call[c])' /\ Takes(c)
<1>1. Shaped
  BY DEF CeremonyInv
<1>2. ASSUME NEW c \in Caller, NEW q, Becomes(c, q)
      PROVE  /\ call' = [d \in Caller |-> call'[d]]
             /\ \A d \in Caller : d # c => call'[d] = call[d]
  BY <1>1, <1>2, Stepped
<1>3. ASSUME NEW c \in Caller,
             \/ \E m \in Mandate : BeginOptions(c, m)
             \/ \E m \in Mandate, r \in signed : BeginVerify(c, "authenticate", m, None, r)
             \/ \E m \in Mandate, r \in signed : \E g : BeginVerify(c, "register", m, g, r)
             \/ \E p \in Principal, r \in signed : BeginReenroll(c, p, r)
      PROVE  \E d \in Caller :
              /\ call' = [e \in Caller |-> call'[e]]
              /\ \A e \in Caller : e # d => call'[e] = call[e]
              /\ Fields(call'[d]) /\ RequestSound(call[d])' /\ Takes(d)
  <2>1. \E q : Becomes(c, q)
    BY <1>3, ZenonT(60) DEF BeginOptions, BeginVerify, BeginReenroll
  <2>2. Fields(call'[c]) /\ RequestSound(call[c])'
    BY <1>3, BeginSound
  <2>3. Takes(c)
    BY <1>3, RowsTaken
  <2>4. PICK q : Becomes(c, q)
    BY <2>1
  <2>5. /\ call' = [e \in Caller |-> call'[e]]
        /\ \A e \in Caller : e # c => call'[e] = call[e]
    BY <1>2, <2>4
  <2> QED BY <2>2, <2>3, <2>5, Zenon
<1>4. ASSUME NEW c \in Caller, Steps(c)
      PROVE  \E d \in Caller :
              /\ call' = [e \in Caller |-> call'[e]]
              /\ \A e \in Caller : e # d => call'[e] = call[e]
              /\ Fields(call'[d]) /\ RequestSound(call[d])' /\ Takes(d)
  <2>1. \E q : Becomes(c, q)
    BY <1>4 DEF Steps, IssueOptions, CheckEnrolled, ConsumeGrant, ConsumeChallenge, SaveCredential,
                FindCredential, UpdateCounter, Activate, MintGrant, Goes
  <2>2. ASSUME IssueOptions(c) \/ SaveCredential(c) \/ Activate(c) \/ MintGrant(c)
        PROVE  Fields(call'[c]) /\ RequestSound(call[c])'
    <3>1. call'[c] = Idle
      BY <1>1, <2>2, Stepped DEF IssueOptions, SaveCredential, Activate, MintGrant
    <3> QED BY <3>1, IdleSound
  <2>3. Fields(call'[c]) /\ RequestSound(call[c])'
    BY <1>4, <2>2, CheckSound, GrantSound, ConsumeSound, FindSound, CounterSound DEF Steps
  <2>4. Takes(c)
    BY <1>4, RowsTaken
  <2>5. PICK q : Becomes(c, q)
    BY <2>1
  <2>6. /\ call' = [e \in Caller |-> call'[e]]
        /\ \A e \in Caller : e # c => call'[e] = call[e]
    BY <1>2, <2>5
  <2> QED BY <2>3, <2>4, <2>6, Zenon
<1>5. CASE \/ UNCHANGED ceremonyVars \/ \E p \in Principal : ReenrollmentOptions(p)
           \/ \E k \in Credential, i \in DOMAIN challenges : Sign(k, i)
           \/ \E i \in DOMAIN challenges : Expire(i)
  BY <1>5 DEF ceremonyVars, ReenrollmentOptions, Sign, Expire
<1> QED BY <1>3, <1>4, <1>5 DEF CeremonyNext

\* Every request is sound after every step.
LEMMA RequestsStep ==
  ASSUME CeremonyInv, [CeremonyNext]_ceremonyVars, NEW d \in Caller
  PROVE  Fields(call'[d]) /\ RequestSound(call[d])'
<1>1. CASE call'[d] = call[d]
  BY <1>1, OthersSound DEF CeremonyInv, Shaped
<1>2. CASE call'[d] # call[d]
  BY <1>2, Mover
<1> QED BY <1>1, <1>2

\* No two requests have one row in hand.
LEMMA RowsStayDistinct ==
  ASSUME CeremonyInv, [CeremonyNext]_ceremonyVars
  PROVE  DistinctRows'
<1>1. DistinctRows /\ \A c \in Caller : RowInHand(call[c])
  BY DEF CeremonyInv, RequestSound
<1>2. CASE UNCHANGED call
  BY <1>1, <1>2 DEF DistinctRows
<1>3. ASSUME NEW c \in Caller, \A d \in Caller : d # c => call'[d] = call[d], Takes(c)
      PROVE  DistinctRows'
  <2>1. \A d \in Caller : d # c /\ call[d].at \in Holding /\ call'[c].at \in Holding =>
          call'[c].row # call[d].row
    BY <1>1, <1>3 DEF DistinctRows, Takes, RowInHand
  <2> QED BY <1>1, <1>3, <2>1 DEF DistinctRows
<1> QED BY <1>2, <1>3, Mover

----------------------------------------------------------------------------
(* What requests did with the rows they consumed.                           *)

\* A request that saves, activates or mints adds one act, over a row nobody else
\* has acted on, and a grant is minted for a passkey that was enrolled before.
LEMMA ActsStep ==
  ASSUME CeremonyInv, [CeremonyNext]_ceremonyVars
  PROVE  ActsSound' /\ ServedOnce'
<1>1. Shaped /\ ActsSound /\ ServedOnce /\ Older
  BY ChallengesAge DEF CeremonyInv
<1>2. PICK S : acts \in Seq(S)
  BY <1>1 DEF Shaped
<1>3. CASE UNCHANGED acts
  BY <1>1, <1>3 DEF ActsSound, Older, ServedOnce, Done
<1>4. ASSUME NEW c \in Caller, call[c].at \in {"save", "activate", "mint"},
             acts' = Append(acts, Act(c))
      PROVE  ActsSound' /\ ServedOnce'
  <2> DEFINE n == Len(acts) + 1
             q == call[c]
  <2>1. /\ DOMAIN acts = 1..Len(acts) /\ Len(acts) \in Nat
        /\ DOMAIN acts' = DOMAIN acts \cup {n} /\ n \notin DOMAIN acts
        /\ \A i \in DOMAIN acts : acts'[i] = acts[i]
        /\ acts'[n] = Act(c)
    BY <1>2, <1>4, Appended
  <2>2. RowInHand(q) /\ StepFits(q) /\ Verified(q)
    BY DEF CeremonyInv, RequestSound
  <2>3. /\ q.row \in DOMAIN challenges /\ ~challenges[q.row].open
        /\ \A i \in DOMAIN acts : acts[i].row # q.row
    BY <1>4, <2>2 DEF RowInHand, Holding
  <2>4. q.kind = "reenroll" =>
          \E j \in Done("register", q.principal) : acts[j].response.credential = q.response.credential
    BY <1>4, <2>2 DEF StepFits, Verified, Registered
  <2>5. Act(c).row = q.row /\ Act(c).kind = q.kind /\ Act(c).principal = q.principal
        /\ Act(c).response = q.response
    BY DEF Act
  <2> HIDE DEF q
  <2>6. ServedOnce'
    BY <1>1, <2>1, <2>3, <2>5 DEF ServedOnce
  <2>7. ASSUME NEW i \in DOMAIN acts
        PROVE  /\ acts'[i].row \in DOMAIN challenges' /\ ~challenges'[acts'[i].row].open
               /\ acts'[i].kind = "reenroll" =>
                    \E j \in Done("register", acts[i].principal)' :
                      j < i /\ acts'[j].response.credential = acts'[i].response.credential
    BY <1>1, <2>1 DEF ActsSound, Older, Done
  <2>8. /\ acts'[n].row \in DOMAIN challenges' /\ ~challenges'[acts'[n].row].open
        /\ acts'[n].kind = "reenroll" =>
             \E j \in DOMAIN acts :
               /\ acts'[j].kind = "register" /\ acts'[j].principal = acts'[n].principal
               /\ j < n /\ acts'[j].response.credential = acts'[n].response.credential
    BY <1>1, <2>1, <2>3, <2>4, <2>5 DEF Older, Done
  <2>9. ActsSound'
    BY <2>1, <2>7, <2>8 DEF ActsSound, Done
  <2> QED BY <2>6, <2>9
<1> QED BY <1>3, <1>4, ActsAppend

\* The tables keep their columns, and the requests their fields.
LEMMA ShapeStep ==
  ASSUME CeremonyInv, [CeremonyNext]_ceremonyVars
  PROVE  Shaped'
<1>1. Shaped
  BY DEF CeremonyInv
<1>2. challenges' \in Seq(ChallengeRow)
  BY ChallengesAge DEF Older
<1>3. \E S : acts' \in Seq(S)
  BY <1>1, ActsGrow
<1>4. call' = [c \in Caller |-> call'[c]] /\ \A c \in Caller : Fields(call'[c])
  <2>1. call' = [c \in Caller |-> call'[c]]
    BY <1>1, Mover DEF Shaped
  <2> QED BY <2>1, RequestsStep
<1>5. credentials' = [k \in Credential |-> credentials'[k]]
  BY <1>1, CredentialsMove, CounterMoves DEF Shaped, SaveCredential
<1>6. status' = [m \in Mandate |-> status'[m]]
  <2>1. UNCHANGED status \/ \E c \in Caller : Activate(c)
    BY ZenonT(60)
       DEF CeremonyNext, ceremonyVars, BeginOptions, ReenrollmentOptions, BeginVerify, BeginReenroll, Sign, Expire,
           Steps, IssueOptions, CheckEnrolled, ConsumeGrant, ConsumeChallenge, SaveCredential,
           FindCredential, UpdateCounter, MintGrant
  <2> QED BY <1>1, <2>1 DEF Shaped, Activate
<1>7. \A r \in signed' : r.credential \in Credential
  <2>1. UNCHANGED signed \/ \E k \in Credential, i \in DOMAIN challenges : Sign(k, i)
    BY DEF CeremonyNext, ceremonyVars, BeginOptions, ReenrollmentOptions, BeginVerify, BeginReenroll, Expire,
           Steps, IssueOptions, CheckEnrolled, ConsumeGrant, ConsumeChallenge, SaveCredential,
           FindCredential, UpdateCounter, Activate, MintGrant
  <2> QED BY <1>1, <2>1 DEF Shaped, Sign
<1> QED BY <1>2, <1>3, <1>4, <1>5, <1>6, <1>7 DEF Shaped

\* A mandate becomes active only at the end of a request whose response a passkey of
\* its principal signed over its policy's hash.
LEMMA ActivationStep ==
  ASSUME CeremonyInv, [CeremonyNext]_ceremonyVars
  PROVE  ActivationIsSigned'
<1>1. Shaped /\ ActivationIsSigned
  BY DEF CeremonyInv
<1>2. PICK S : acts \in Seq(S)
  BY <1>1 DEF Shaped
<1> SUFFICES ASSUME NEW m \in Mandate, status'[m] = "ACTIVE"
             PROVE  \E i \in DOMAIN acts' :
                      /\ acts'[i].kind = "authenticate" /\ acts'[i].principal = PrincipalOf[m]
                      /\ acts'[i].mandate = m /\ acts'[i].response.challenge = HashOf[m]
                      /\ \E j \in DOMAIN acts' :
                           /\ acts'[j].kind = "register" /\ acts'[j].principal = PrincipalOf[m]
                           /\ j < i
                           /\ acts'[j].response.credential = acts'[i].response.credential
  BY DEF ActivationIsSigned, Done
<1>3. CASE status[m] = "ACTIVE"
  BY <1>1, <1>3, ActsGrow DEF ActivationIsSigned, Done
<1>4. CASE status[m] # "ACTIVE"
  <2>1. PICK c \in Caller : Activate(c)
    BY <1>4 DEF CeremonyNext, ceremonyVars, BeginOptions, ReenrollmentOptions, BeginVerify, BeginReenroll, Sign,
                Expire, Steps, IssueOptions, CheckEnrolled, ConsumeGrant, ConsumeChallenge,
                SaveCredential, FindCredential, UpdateCounter, MintGrant
  <2> DEFINE n == Len(acts) + 1
             q == call[c]
  <2>2. q.mandate = m
    BY <1>1, <1>4, <2>1 DEF Activate, Shaped
  <2>3. StepFits(q) /\ Verified(q) /\ q.at = "activate"
    BY <2>1 DEF CeremonyInv, RequestSound, Activate, At
  <2>4. /\ q.kind = "authenticate" /\ q.principal = PrincipalOf[m]
        /\ q.response.challenge = HashOf[m]
        /\ \E j \in Done("register", q.principal) : acts[j].response.credential = q.response.credential
    BY <2>2, <2>3 DEF StepFits, Verified, Working, Holding, Registered
  <2>5. /\ DOMAIN acts = 1..Len(acts) /\ Len(acts) \in Nat
        /\ DOMAIN acts' = DOMAIN acts \cup {n}
        /\ \A i \in DOMAIN acts : acts'[i] = acts[i]
        /\ acts'[n] = Act(c)
    BY <1>2, <2>1, Appended DEF Activate
  <2>6. Act(c).kind = q.kind /\ Act(c).principal = q.principal
        /\ Act(c).mandate = q.mandate /\ Act(c).response = q.response
    BY DEF Act
  <2> HIDE DEF q
  <2>7. n \in DOMAIN acts' /\ \A j \in DOMAIN acts : j < n
    BY <2>5
  <2> QED BY <2>2, <2>4, <2>5, <2>6, <2>7 DEF Done
<1> QED BY <1>3, <1>4

----------------------------------------------------------------------------

LEMMA Initially == CeremonyInit => CeremonyInv
<1> SUFFICES ASSUME CeremonyInit PROVE CeremonyInv
  OBVIOUS
<1>1. challenges \in Seq(ChallengeRow) /\ acts \in Seq({})
  BY EmptySeq DEF CeremonyInit
<1>2. DOMAIN acts = {} /\ \A m \in Mandate : status[m] # "ACTIVE"
  BY DEF CeremonyInit
<1>3. \A c \in Caller : call[c] = Idle
  BY DEF CeremonyInit
<1>4. Idle.at = "idle" /\ Fields(Idle)
  BY DEF Idle, Fields
<1>5. Shaped
  BY <1>1, <1>3, <1>4 DEF CeremonyInit, Shaped
<1>6. \A c \in Caller : RequestSound(call[c])
  BY <1>3, <1>4 DEF RequestSound, RowInHand, StepFits, Verified, Working, Holding
<1>7. DistinctRows
  BY <1>3, <1>4 DEF DistinctRows, Holding
<1> QED
  BY <1>2, <1>5, <1>6, <1>7 DEF CeremonyInit, CeremonyInv, ActsSound, ServedOnce, ActivationIsSigned

LEMMA Preserved == CeremonyInv /\ [CeremonyNext]_ceremonyVars => CeremonyInv'
<1> SUFFICES ASSUME CeremonyInv, [CeremonyNext]_ceremonyVars PROVE CeremonyInv'
  OBVIOUS
<1>1. \A c \in Caller : RequestSound(call[c])'
  BY RequestsStep
<1>2. \A k \in Credential : credentials'[k] # None => Stored(k)'
  BY PasskeysStep
<1> QED
  BY <1>1, <1>2, ShapeStep, RowsStayDistinct, ActsStep, ActivationStep DEF CeremonyInv

\* Whatever requests race, die or are retried, the invariant holds.
THEOREM Invariance == CeremonySpec => []CeremonyInv
BY Initially, Preserved, PTL DEF CeremonySpec

\* D-20: no mandate is active without its principal's passkey over its policy.
THEOREM ActivationsAreSigned == CeremonySpec => []ActivationIsSigned
<1>1. CeremonyInv => ActivationIsSigned
  BY DEF CeremonyInv
<1> QED BY <1>1, Invariance, PTL

----------------------------------------------------------------------------
(* Every further passkey is paid for with a grant.                          *)

\* The enrolments of a principal that saw a passkey there already, the requests a
\* grant was consumed for, and the grants that are still open.
Enrolments(p) == {i \in Done("register", p) : acts[i].had}
Granted(p) ==
  {c \in Caller : /\ call[c].kind = "register" /\ call[c].had /\ call[c].principal = p
                  /\ call[c].at \in {"consume", "save"}}
OpenGrants(p) ==
  {i \in DOMAIN challenges : /\ challenges[i].open /\ challenges[i].principal = p
                             /\ challenges[i].purpose = "REENROLLMENT_GRANT"}

\* A grant is one of these, of one signature its principal gave: none is made on
\* the way, though some are lost.
PaidFor(p) ==
  /\ IsFiniteSet(Granted(p))
  /\ Cardinality(Enrolments(p)) + Cardinality(Granted(p)) + Cardinality(OpenGrants(p))
       <= Cardinality(Done("reenroll", p))

Paid == \A p \in Principal : PaidFor(p)

\* A set's size when it loses or gains an element.
LEMMA Sizes ==
  ASSUME NEW S, IsFiniteSet(S)
  PROVE  /\ Cardinality(S) \in Nat
         /\ \A T \in SUBSET S :
              IsFiniteSet(T) /\ Cardinality(T) \in Nat /\ Cardinality(T) <= Cardinality(S)
         /\ \A x : /\ IsFiniteSet(S \cup {x}) /\ Cardinality(S \cup {x}) \in Nat
                   /\ Cardinality(S \cup {x}) <= Cardinality(S) + 1
                   /\ x \notin S => Cardinality(S \cup {x}) = Cardinality(S) + 1
         /\ \A x \in S : /\ IsFiniteSet(S \ {x}) /\ Cardinality(S \ {x}) \in Nat
                         /\ Cardinality(S \ {x}) = Cardinality(S) - 1
<1>1. Cardinality(S) \in Nat
  BY FS_CardinalityType
<1>2. ASSUME NEW T \in SUBSET S
      PROVE  IsFiniteSet(T) /\ Cardinality(T) \in Nat /\ Cardinality(T) <= Cardinality(S)
  BY FS_Subset, FS_CardinalityType
<1>3. ASSUME NEW x
      PROVE  /\ IsFiniteSet(S \cup {x}) /\ Cardinality(S \cup {x}) \in Nat
             /\ Cardinality(S \cup {x}) <= Cardinality(S) + 1
             /\ x \notin S => Cardinality(S \cup {x}) = Cardinality(S) + 1
  <2>1. /\ IsFiniteSet(S \cup {x})
        /\ Cardinality(S \cup {x}) = IF x \in S THEN Cardinality(S) ELSE Cardinality(S) + 1
    BY FS_AddElement
  <2> QED BY <1>1, <2>1
<1>4. ASSUME NEW x \in S
      PROVE  /\ IsFiniteSet(S \ {x}) /\ Cardinality(S \ {x}) \in Nat
             /\ Cardinality(S \ {x}) = Cardinality(S) - 1
  <2>1. IsFiniteSet(S \ {x}) /\ Cardinality(S \ {x}) = Cardinality(S) - 1
    BY FS_RemoveElement
  <2> QED BY <2>1, FS_CardinalityType
<1> QED BY <1>1, <1>2, <1>3, <1>4

\* Sizes that balance still do when sets shrink on the side that counts, when an
\* element moves from one set to the next, and when one is added at both ends.
LEMMA BalanceShrinks ==
  ASSUME NEW E, NEW H, NEW G, NEW R, NEW H2, NEW G2,
         IsFiniteSet(E), IsFiniteSet(H), IsFiniteSet(G), IsFiniteSet(R),
         Cardinality(E) + Cardinality(H) + Cardinality(G) <= Cardinality(R),
         H2 \subseteq H, G2 \subseteq G
  PROVE  /\ IsFiniteSet(H2)
         /\ Cardinality(E) + Cardinality(H2) + Cardinality(G2) <= Cardinality(R)
BY Sizes

LEMMA BalanceConsumes ==
  ASSUME NEW E, NEW H, NEW G, NEW R, NEW H2, NEW G2, NEW x, NEW i \in G,
         IsFiniteSet(E), IsFiniteSet(H), IsFiniteSet(G), IsFiniteSet(R),
         Cardinality(E) + Cardinality(H) + Cardinality(G) <= Cardinality(R),
         H2 \subseteq H \cup {x}, G2 \subseteq G \ {i}
  PROVE  /\ IsFiniteSet(H2)
         /\ Cardinality(E) + Cardinality(H2) + Cardinality(G2) <= Cardinality(R)
<1>1. IsFiniteSet(H \cup {x}) /\ IsFiniteSet(G \ {i})
  BY Sizes
<1>2. /\ Cardinality(E) \in Nat /\ Cardinality(R) \in Nat
      /\ Cardinality(H \cup {x}) \in Nat /\ Cardinality(H \cup {x}) <= Cardinality(H) + 1
      /\ Cardinality(G \ {i}) \in Nat /\ Cardinality(G \ {i}) = Cardinality(G) - 1
      /\ Cardinality(H) \in Nat /\ Cardinality(G) \in Nat
  BY Sizes
<1>3. /\ IsFiniteSet(H2) /\ Cardinality(H2) \in Nat /\ Cardinality(H2) <= Cardinality(H \cup {x})
      /\ Cardinality(G2) \in Nat /\ Cardinality(G2) <= Cardinality(G \ {i})
  BY <1>1, Sizes
<1> QED BY <1>2, <1>3

LEMMA BalanceSaves ==
  ASSUME NEW E, NEW H, NEW G, NEW R, NEW x \in H, NEW n,
         IsFiniteSet(E), IsFiniteSet(H), IsFiniteSet(G), IsFiniteSet(R),
         Cardinality(E) + Cardinality(H) + Cardinality(G) <= Cardinality(R)
  PROVE  /\ IsFiniteSet(H \ {x})
         /\ Cardinality(E \cup {n}) + Cardinality(H \ {x}) + Cardinality(G) <= Cardinality(R)
<1>1. /\ Cardinality(E) \in Nat /\ Cardinality(R) \in Nat /\ Cardinality(G) \in Nat
      /\ Cardinality(E \cup {n}) \in Nat /\ Cardinality(E \cup {n}) <= Cardinality(E) + 1
  BY Sizes
<1>2. /\ IsFiniteSet(H \ {x}) /\ Cardinality(H \ {x}) \in Nat /\ Cardinality(H) \in Nat
      /\ Cardinality(H \ {x}) = Cardinality(H) - 1
  BY Sizes
<1> QED BY <1>1, <1>2

LEMMA BalanceMints ==
  ASSUME NEW E, NEW H, NEW G, NEW R, NEW H2, NEW m, NEW n,
         IsFiniteSet(E), IsFiniteSet(H), IsFiniteSet(G), IsFiniteSet(R),
         Cardinality(E) + Cardinality(H) + Cardinality(G) <= Cardinality(R),
         H2 \subseteq H, n \notin R
  PROVE  /\ IsFiniteSet(H2)
         /\ Cardinality(E) + Cardinality(H2) + Cardinality(G \cup {m}) <= Cardinality(R \cup {n})
<1>1. /\ Cardinality(E) \in Nat /\ Cardinality(R) \in Nat /\ Cardinality(G) \in Nat
      /\ Cardinality(G \cup {m}) \in Nat /\ Cardinality(G \cup {m}) <= Cardinality(G) + 1
      /\ Cardinality(R \cup {n}) = Cardinality(R) + 1
  BY Sizes
<1>2. /\ IsFiniteSet(H2) /\ Cardinality(H2) \in Nat /\ Cardinality(H2) <= Cardinality(H)
      /\ Cardinality(H) \in Nat
  BY Sizes
<1> QED BY <1>1, <1>2

\* The sets of table rows are finite.
LEMMA RowsAreFinite ==
  ASSUME Shaped, NEW p
  PROVE  /\ IsFiniteSet(Enrolments(p)) /\ IsFiniteSet(OpenGrants(p))
         /\ IsFiniteSet(Done("reenroll", p))
<1>1. PICK S : acts \in Seq(S)
  BY DEF Shaped
<1>2. Len(acts) \in Nat /\ DOMAIN acts = 1..Len(acts)
      /\ Len(challenges) \in Nat /\ DOMAIN challenges = 1..Len(challenges)
  BY <1>1, LenProperties DEF Shaped
<1>3. IsFiniteSet(DOMAIN acts) /\ IsFiniteSet(DOMAIN challenges)
  BY <1>2, FS_Interval
<1> QED BY <1>3, FS_Subset DEF Enrolments, OpenGrants, Done

\* An act counts for its own principal, as what it is.
LEMMA ActsCount ==
  ASSUME Shaped, NEW c, acts' = Append(acts, Act(c)), NEW p, NEW n, n = Len(acts) + 1
  PROVE  /\ n \notin DOMAIN acts
         /\ IF call[c].kind = "reenroll" /\ call[c].principal = p
            THEN Done("reenroll", p)' = Done("reenroll", p) \cup {n}
            ELSE Done("reenroll", p)' = Done("reenroll", p)
         /\ IF call[c].kind = "register" /\ call[c].principal = p /\ call[c].had
            THEN Enrolments(p)' = Enrolments(p) \cup {n}
            ELSE Enrolments(p)' = Enrolments(p)
<1>1. PICK S : acts \in Seq(S)
  BY DEF Shaped
<1>2. /\ DOMAIN acts' = DOMAIN acts \cup {n} /\ n \notin DOMAIN acts
      /\ \A i \in DOMAIN acts : acts'[i] = acts[i]
      /\ acts'[n] = Act(c)
  BY <1>1, Appended
<1>3. Act(c).kind = call[c].kind /\ Act(c).principal = call[c].principal /\ Act(c).had = call[c].had
  BY DEF Act
<1>4. ASSUME NEW k
      PROVE  {i \in DOMAIN acts' : acts'[i].kind = k /\ acts'[i].principal = p}
               = {i \in DOMAIN acts : acts[i].kind = k /\ acts[i].principal = p}
                   \cup {i \in {n} : call[c].kind = k /\ call[c].principal = p}
  BY <1>2, <1>3
<1>5. {i \in DOMAIN acts' : acts'[i].kind = "register" /\ acts'[i].principal = p /\ acts'[i].had}
        = {i \in DOMAIN acts : acts[i].kind = "register" /\ acts[i].principal = p /\ acts[i].had}
            \cup {i \in {n} : call[c].kind = "register" /\ call[c].principal = p /\ call[c].had}
  BY <1>2, <1>3
<1>6. /\ Enrolments(p) =
           {i \in DOMAIN acts : acts[i].kind = "register" /\ acts[i].principal = p /\ acts[i].had}
      /\ Enrolments(p)' =
           {i \in DOMAIN acts' : acts'[i].kind = "register" /\ acts'[i].principal = p /\ acts'[i].had}
  BY DEF Done, Enrolments
<1>7. Enrolments(p)' = Enrolments(p) \cup
        {i \in {n} : call[c].kind = "register" /\ call[c].principal = p /\ call[c].had}
  BY <1>5, <1>6
<1>8. Done("reenroll", p)' = Done("reenroll", p) \cup
        {i \in {n} : call[c].kind = "reenroll" /\ call[c].principal = p}
  BY <1>4 DEF Done
<1> DEFINE again == call[c].kind = "reenroll" /\ call[c].principal = p
           new == call[c].kind = "register" /\ call[c].principal = p /\ call[c].had
<1>9. IF again THEN Done("reenroll", p)' = Done("reenroll", p) \cup {n}
      ELSE Done("reenroll", p)' = Done("reenroll", p)
  <2> HIDE DEF again
  <2>1. {i \in {n} : again} = IF again THEN {n} ELSE {}
    OBVIOUS
  <2>2. Done("reenroll", p)' = Done("reenroll", p) \cup {i \in {n} : again}
    BY <1>8 DEF again
  <2> QED BY <2>1, <2>2
<1>10. IF new THEN Enrolments(p)' = Enrolments(p) \cup {n} ELSE Enrolments(p)' = Enrolments(p)
  <2> HIDE DEF new
  <2>1. {i \in {n} : new} = IF new THEN {n} ELSE {}
    OBVIOUS
  <2>2. Enrolments(p)' = Enrolments(p) \cup {i \in {n} : new}
    BY <1>7 DEF new
  <2> QED BY <2>1, <2>2
<1> QED BY <1>2, <1>9, <1>10

\* A grant is open from when it is issued until it is consumed.
LEMMA GrantOpens ==
  ASSUME Shaped, NEW p, NEW q \in Principal, NEW value \in Nat \cup Hashes,
         NEW purpose \in Purpose, Issued(q, value, purpose)
  PROVE  /\ purpose # "REENROLLMENT_GRANT" \/ q # p => OpenGrants(p)' = OpenGrants(p)
         /\ purpose = "REENROLLMENT_GRANT" /\ q = p =>
              OpenGrants(p)' = OpenGrants(p) \cup {Len(challenges) + 1}
<1>1. /\ DOMAIN challenges' = DOMAIN challenges \cup {Len(challenges) + 1}
      /\ \A i \in DOMAIN challenges : challenges'[i] = challenges[i]
      /\ challenges'[Len(challenges) + 1] = NewRow(q, value, purpose)
  BY IssuedAdds
<1>2. NewRow(q, value, purpose).principal = q /\ NewRow(q, value, purpose).purpose = purpose
      /\ NewRow(q, value, purpose).open
  BY DEF NewRow
<1>3. OpenGrants(p)' = {i \in DOMAIN challenges' : /\ challenges'[i].open /\ challenges'[i].principal = p
                             /\ challenges'[i].purpose = "REENROLLMENT_GRANT"}
  BY DEF OpenGrants
<1>4. CASE purpose # "REENROLLMENT_GRANT" \/ q # p
  BY <1>1, <1>2, <1>3, <1>4, Zenon DEF OpenGrants
<1>5. CASE purpose = "REENROLLMENT_GRANT" /\ q = p
  BY <1>1, <1>2, <1>3, <1>5 DEF OpenGrants
<1> QED BY <1>4, <1>5

LEMMA GrantCloses ==
  ASSUME Shaped, NEW p, NEW matched, Consumed(matched)
  PROVE  OpenGrants(p)' = OpenGrants(p) \ matched
BY ConsumedCloses DEF OpenGrants

\* Whether a request that steps has a grant behind it, it alone decides.
LEMMA GrantsMove ==
  ASSUME Shaped, NEW c \in Caller, NEW q, Becomes(c, q), NEW p
  PROVE  Granted(p)' = (Granted(p) \ {c}) \cup
           {d \in {c} : q.kind = "register" /\ q.had /\ q.principal = p /\ q.at \in {"consume", "save"}}
BY Stepped DEF Granted

\* A step that makes no act and issues no grant leaves the balance as it was, if it
\* leaves no request with a grant that had none.
LEMMA PaidStays ==
  ASSUME Shaped, NEW p, PaidFor(p), UNCHANGED acts,
         Granted(p)' \subseteq Granted(p), OpenGrants(p)' \subseteq OpenGrants(p)
  PROVE  PaidFor(p)'
<1>1. Enrolments(p)' = Enrolments(p) /\ Done("reenroll", p)' = Done("reenroll", p)
  BY DEF Enrolments, Done
<1>2. /\ IsFiniteSet(Granted(p)')
      /\ Cardinality(Enrolments(p)') + Cardinality(Granted(p)') + Cardinality(OpenGrants(p)')
           <= Cardinality(Done("reenroll", p)')
  BY <1>1, RowsAreFinite, BalanceShrinks DEF PaidFor
<1> QED BY <1>2 DEF PaidFor

\* Nothing but the statements below moves a grant.
LEMMA OthersStayPaid ==
  ASSUME CeremonyInv, [CeremonyNext]_ceremonyVars, NEW p, PaidFor(p),
         \A c \in Caller : ~ConsumeGrant(c) /\ ~SaveCredential(c) /\ ~MintGrant(c)
  PROVE  PaidFor(p)'
<1>1. Shaped /\ \A c \in Caller : StepFits(call[c]) /\ Fields(call[c])
  BY DEF CeremonyInv, RequestSound, Shaped
<1>2. UNCHANGED acts /\ OpenGrants(p)' = OpenGrants(p) /\ Granted(p)' \subseteq Granted(p) => PaidFor(p)'
  BY <1>1, PaidStays
<1>3. UNCHANGED challenges => OpenGrants(p)' = OpenGrants(p)
  BY DEF OpenGrants
<1>4. ASSUME NEW c \in Caller, NEW q, Becomes(c, q), ~(q.kind = "register" /\ q.had /\ q.at = "consume"),
             q.at # "save"
      PROVE  Granted(p)' \subseteq Granted(p)
  BY <1>1, <1>4, GrantsMove
<1>5. Idle.at = "idle" /\ ~Idle.had /\ Fields(Idle)
  BY DEF Idle, Fields
<1>6. ASSUME NEW c \in Caller, NEW m \in Mandate, BeginOptions(c, m) PROVE PaidFor(p)'
  <2> DEFINE q == [Idle EXCEPT !.at = "issue", !.kind = "options", !.mandate = m,
                     !.principal = PrincipalOf[m], !.had = hasCredentialForPrincipal(PrincipalOf[m])]
  <2>1. Becomes(c, q) /\ UNCHANGED <<challenges, acts>>
    BY <1>6 DEF BeginOptions
  <2>2. q.at = "issue"
    BY DEF Idle
  <2> HIDE DEF q
  <2> QED BY <1>2, <1>3, <1>4, <2>1, <2>2
<1>7. ASSUME NEW c \in Caller, NEW kind, NEW m, NEW g, NEW r, BeginVerify(c, kind, m, g, r)
      PROVE  PaidFor(p)'
  <2> DEFINE q == [Idle EXCEPT !.at = IF kind = "register" THEN "check" ELSE "consume",
                             !.kind = kind, !.mandate = m, !.principal = PrincipalOf[m], !.grant = g,
                             !.claimed = IF kind = "register" THEN r.challenge ELSE HashOf[m],
                             !.response = r]
  <2>1. Becomes(c, q) /\ UNCHANGED <<challenges, acts>>
    BY <1>7 DEF BeginVerify
  <2>2. q.at \in {"check", "consume"} /\ ~q.had
    BY DEF Idle
  <2> HIDE DEF q
  <2> QED BY <1>2, <1>3, <1>4, <2>1, <2>2
<1>8. ASSUME NEW c \in Caller, NEW x, NEW r, BeginReenroll(c, x, r) PROVE PaidFor(p)'
  <2> DEFINE q == [Idle EXCEPT !.at = "consume", !.kind = "reenroll", !.principal = x,
                             !.claimed = r.challenge, !.response = r]
  <2>1. Becomes(c, q) /\ UNCHANGED <<challenges, acts>>
    BY <1>8 DEF BeginReenroll
  <2>2. q.at = "consume" /\ ~q.had
    BY DEF Idle
  <2> HIDE DEF q
  <2> QED BY <1>2, <1>3, <1>4, <2>1, <2>2
<1>9. ASSUME NEW x \in Principal, ReenrollmentOptions(x) PROVE PaidFor(p)'
  <2>1. Fresh \in Nat \cup Hashes /\ "REENROLLMENT_AUTHENTICATION" \in Purpose
    BY <1>1, ChallengeValues DEF Purpose
  <2>2. OpenGrants(p)' = OpenGrants(p)
    BY <1>1, <1>9, <2>1, GrantOpens DEF ReenrollmentOptions, beginReenrollmentAuthentication
  <2>3. Granted(p)' = Granted(p) /\ UNCHANGED acts
    BY <1>9 DEF ReenrollmentOptions, Granted
  <2> QED BY <1>2, <2>2, <2>3
<1>10. ASSUME NEW i \in DOMAIN challenges, Expire(i) PROVE PaidFor(p)'
  <2>1. OpenGrants(p)' \subseteq OpenGrants(p)
    BY <1>1, <1>10, GrantCloses DEF Expire
  <2>2. Granted(p)' = Granted(p) /\ UNCHANGED acts
    BY <1>10 DEF Expire, Granted
  <2> QED BY <1>1, <2>1, <2>2, PaidStays
<1>11. ASSUME UNCHANGED ceremonyVars \/ \E k \in Credential, i \in DOMAIN challenges : Sign(k, i)
       PROVE  PaidFor(p)'
  <2>1. Granted(p)' = Granted(p) /\ UNCHANGED <<acts, challenges>>
    BY <1>11 DEF Sign, ceremonyVars, Granted
  <2> QED BY <1>2, <1>3, <2>1
<1>12. ASSUME NEW c \in Caller, IssueOptions(c) PROVE PaidFor(p)'
  <2>1. call[c].mandate \in Mandate /\ call[c].principal = PrincipalOf[call[c].mandate]
    BY <1>1, <1>12 DEF IssueOptions, At, StepFits
  <2>2. call[c].principal \in Principal /\ HashOf[call[c].mandate] \in Nat \cup Hashes
        /\ PrincipalOf[call[c].mandate] \in Principal /\ Fresh \in Nat \cup Hashes
    BY <1>1, <2>1, ChallengeValues
  <2>3. "REGISTRATION" \in Purpose /\ "MANDATE_AUTHENTICATION" \in Purpose
    BY DEF Purpose
  <2>4. OpenGrants(p)' = OpenGrants(p)
    BY <1>1, <1>12, <2>2, <2>3, GrantOpens
       DEF IssueOptions, beginMandateAuthentication, beginRegistration
  <2>5. Becomes(c, Idle) /\ UNCHANGED acts
    BY <1>12 DEF IssueOptions
  <2> QED BY <1>2, <1>4, <1>5, <2>4, <2>5
<1>13. ASSUME NEW c \in Caller, CheckEnrolled(c) PROVE PaidFor(p)'
  <2> DEFINE q == call[c]
  <2>1. ~q.had /\ Fields(q)
    BY <1>1, <1>13 DEF CheckEnrolled, At, StepFits
  <2>2. /\ \/ Becomes(c, Idle) \/ Becomes(c, [q EXCEPT !.had = TRUE, !.at = "grant"])
           \/ Becomes(c, [q EXCEPT !.at = "consume", !.grant = None])
        /\ UNCHANGED <<acts, challenges>>
    BY <1>13 DEF CheckEnrolled
  <2>3. /\ [q EXCEPT !.had = TRUE, !.at = "grant"].at = "grant"
        /\ [q EXCEPT !.at = "consume", !.grant = None].at = "consume"
        /\ ~[q EXCEPT !.at = "consume", !.grant = None].had
    BY <2>1 DEF Fields
  <2> HIDE DEF q
  <2>4. Granted(p)' \subseteq Granted(p)
    BY <1>4, <1>5, <2>2, <2>3
  <2> QED BY <1>2, <1>3, <2>2, <2>4
<1>14. ASSUME NEW c \in Caller, ConsumeChallenge(c) PROVE PaidFor(p)'
  <2> DEFINE q == call[c]
             to(i) == [q EXCEPT !.row = i, !.at = IF q.kind = "register" THEN "save" ELSE "find"]
  <2>1. q.at = "consume" /\ Fields(q) /\ UNCHANGED acts
    BY <1>1, <1>14 DEF ConsumeChallenge, At
  <2>2. OpenGrants(p)' \subseteq OpenGrants(p)
    BY <1>1, <1>14, GrantCloses, ZenonT(60) DEF ConsumeChallenge
  <2>3. Becomes(c, Idle) \/ \E i : Becomes(c, to(i))
    BY <1>14 DEF ConsumeChallenge
  <2>4. \A i : /\ to(i).kind = q.kind /\ to(i).had = q.had /\ to(i).principal = q.principal
    BY <2>1 DEF Fields
  <2> HIDE DEF to
  <2>5. ASSUME NEW i, Becomes(c, to(i)) PROVE Granted(p)' \subseteq Granted(p)
    <3>1. Granted(p)' = (Granted(p) \ {c}) \cup
            {d \in {c} : to(i).kind = "register" /\ to(i).had /\ to(i).principal = p
                         /\ to(i).at \in {"consume", "save"}}
      BY <1>1, <2>5, GrantsMove
    <3>2. q.kind = "register" /\ q.had /\ q.principal = p => c \in Granted(p)
      BY <2>1 DEF Granted
    <3> QED BY <2>4, <3>1, <3>2
  <2>6. Granted(p)' \subseteq Granted(p)
    BY <1>4, <1>5, <2>3, <2>5
  <2> QED BY <1>1, <2>1, <2>2, <2>6, PaidStays
<1>15. ASSUME NEW c \in Caller, FindCredential(c) PROVE PaidFor(p)'
  <2> DEFINE q == [call[c] EXCEPT !.at = "counter", !.counter = call[c].response.counter]
  <2>1. (Becomes(c, Idle) \/ Becomes(c, q)) /\ UNCHANGED <<acts, challenges>>
    BY <1>15 DEF FindCredential
  <2>2. q.at = "counter"
    BY <1>1 DEF Fields
  <2> HIDE DEF q
  <2> QED BY <1>2, <1>3, <1>4, <1>5, <2>1, <2>2
<1>16. ASSUME NEW c \in Caller, UpdateCounter(c) PROVE PaidFor(p)'
  <2> DEFINE to == IF call[c].kind = "authenticate" THEN "activate" ELSE "mint"
             q == [call[c] EXCEPT !.at = to]
  <2>1. Becomes(c, q) /\ UNCHANGED <<acts, challenges>>
    BY <1>16 DEF UpdateCounter, Goes
  <2>2. q.at = to
    BY <1>1 DEF Fields
  <2>3. q.at \in {"activate", "mint"}
    BY <2>2
  <2> HIDE DEF q
  <2> QED BY <1>2, <1>3, <1>4, <2>1, <2>3
<1>17. ASSUME NEW c \in Caller, Activate(c) PROVE PaidFor(p)'
  <2>1. acts' = Append(acts, Act(c)) /\ call[c].kind = "authenticate" /\ Becomes(c, Idle)
        /\ UNCHANGED challenges
    BY <1>1, <1>17 DEF Activate, At, StepFits
  <2>2. Done("reenroll", p)' = Done("reenroll", p) /\ Enrolments(p)' = Enrolments(p)
    BY <1>1, <2>1, ActsCount
  <2>3. Granted(p)' \subseteq Granted(p) /\ OpenGrants(p)' = OpenGrants(p)
    BY <1>3, <1>4, <1>5, <2>1
  <2>4. /\ IsFiniteSet(Granted(p)')
        /\ Cardinality(Enrolments(p)') + Cardinality(Granted(p)') + Cardinality(OpenGrants(p)')
             <= Cardinality(Done("reenroll", p)')
    BY <1>1, <2>2, <2>3, RowsAreFinite, BalanceShrinks DEF PaidFor
  <2> QED BY <2>4 DEF PaidFor
<1> QED
  BY <1>6, <1>7, <1>8, <1>9, <1>10, <1>11, <1>12, <1>13, <1>14, <1>15, <1>16, <1>17 DEF CeremonyNext, Steps

\* A request goes on with its registration only when a grant that was open closed.
LEMMA ConsumedGrantIsHeld ==
  ASSUME CeremonyInv, NEW p, PaidFor(p), NEW c \in Caller, ConsumeGrant(c)
  PROVE  PaidFor(p)'
<1> DEFINE q == call[c]
           matched == Matching(q.principal, q.grant)
           next == [q EXCEPT !.at = "consume", !.grant = None]
<1>1. Shaped /\ Fields(q) /\ UNCHANGED acts /\ Idle.at = "idle"
  BY DEF CeremonyInv, Shaped, ConsumeGrant, Idle
<1>2. OpenGrants(p)' = OpenGrants(p) \ matched
  BY <1>1, GrantCloses DEF ConsumeGrant
<1>3. CASE Becomes(c, Idle)
  <2>1. Granted(p)' \subseteq Granted(p)
    BY <1>1, <1>3, GrantsMove
  <2> QED BY <1>1, <1>2, <2>1, PaidStays
<1>4. CASE Becomes(c, next) /\ \E i \in matched : Grants(challenges[i].purpose)
  <2>1. PICK i \in matched : Grants(challenges[i].purpose)
    BY <1>4
  <2>2. next.principal = q.principal
    BY <1>1 DEF Fields
  <2>3. /\ i \in DOMAIN challenges /\ challenges[i].open
        /\ challenges[i].principal = q.principal /\ challenges[i].purpose = "REENROLLMENT_GRANT"
    BY <2>1 DEF Matching, Is, Grants
  <2> HIDE DEF next, matched
  <2>4. CASE q.principal = p
    <3>1. i \in OpenGrants(p) /\ OpenGrants(p)' \subseteq OpenGrants(p) \ {i}
      BY <1>2, <2>1, <2>3, <2>4 DEF OpenGrants
    <3>2. Granted(p)' \subseteq Granted(p) \cup {c}
      BY <1>1, <1>4, GrantsMove
    <3>3. Enrolments(p)' = Enrolments(p) /\ Done("reenroll", p)' = Done("reenroll", p)
      BY <1>1 DEF Enrolments, Done
    <3>4. /\ IsFiniteSet(Enrolments(p)) /\ IsFiniteSet(Granted(p)) /\ IsFiniteSet(OpenGrants(p))
          /\ IsFiniteSet(Done("reenroll", p))
          /\ Cardinality(Enrolments(p)) + Cardinality(Granted(p)) + Cardinality(OpenGrants(p))
               <= Cardinality(Done("reenroll", p))
      BY <1>1, RowsAreFinite DEF PaidFor
    <3>5. ASSUME NEW H \in SUBSET (Granted(p) \cup {c}), NEW G \in SUBSET (OpenGrants(p) \ {i})
          PROVE  /\ IsFiniteSet(H)
                 /\ Cardinality(Enrolments(p)) + Cardinality(H) + Cardinality(G)
                      <= Cardinality(Done("reenroll", p))
      BY <3>1, <3>4, BalanceConsumes
    <3> QED BY <3>1, <3>2, <3>3, <3>5 DEF PaidFor
  <2>5. CASE q.principal # p
    <3>1. Granted(p)' \subseteq Granted(p)
      BY <1>1, <1>4, <2>2, <2>5, GrantsMove
    <3> QED BY <1>1, <1>2, <3>1, PaidStays
  <2> QED BY <2>4, <2>5
<1> QED BY <1>3, <1>4 DEF ConsumeGrant

\* A passkey saved with a grant behind it uses the grant up.
LEMMA SavedUsesItsGrant ==
  ASSUME CeremonyInv, NEW p, PaidFor(p), NEW c \in Caller, SaveCredential(c)
  PROVE  PaidFor(p)'
<1> DEFINE q == call[c]
           n == Len(acts) + 1
<1>1. /\ Shaped /\ Fields(q) /\ q.at = "save" /\ q.kind = "register" /\ Becomes(c, Idle)
      /\ UNCHANGED challenges /\ Idle.at = "idle"
  BY DEF CeremonyInv, Shaped, RequestSound, StepFits, SaveCredential, At, Idle
<1>2. Granted(p)' = Granted(p) \ {c} /\ OpenGrants(p)' = OpenGrants(p)
  BY <1>1, GrantsMove DEF OpenGrants
<1>3. CASE UNCHANGED acts
  BY <1>1, <1>2, <1>3, PaidStays
<1>4. CASE acts' = Append(acts, Act(c))
  <2>1. /\ Done("reenroll", p)' = Done("reenroll", p)
        /\ IF q.principal = p /\ q.had
           THEN Enrolments(p)' = Enrolments(p) \cup {n}
           ELSE Enrolments(p)' = Enrolments(p)
    BY <1>1, <1>4, ActsCount
  <2>2. q.principal = p /\ q.had => c \in Granted(p)
    BY <1>1 DEF Granted
  <2> HIDE DEF q, n
  <2>3. /\ IsFiniteSet(Granted(p)')
        /\ Cardinality(Enrolments(p)') + Cardinality(Granted(p)') + Cardinality(OpenGrants(p)')
             <= Cardinality(Done("reenroll", p)')
    <3>1. CASE q.principal = p /\ q.had
      <4>1. /\ IsFiniteSet(Enrolments(p)) /\ IsFiniteSet(Granted(p)) /\ IsFiniteSet(OpenGrants(p))
            /\ IsFiniteSet(Done("reenroll", p))
            /\ Cardinality(Enrolments(p)) + Cardinality(Granted(p)) + Cardinality(OpenGrants(p))
                 <= Cardinality(Done("reenroll", p))
        BY <1>1, RowsAreFinite DEF PaidFor
      <4>2. /\ IsFiniteSet(Granted(p) \ {c})
            /\ Cardinality(Enrolments(p) \cup {n}) + Cardinality(Granted(p) \ {c})
                 + Cardinality(OpenGrants(p)) <= Cardinality(Done("reenroll", p))
        BY <2>2, <3>1, <4>1, BalanceSaves
      <4> QED BY <1>2, <2>1, <3>1, <4>2
    <3>2. CASE ~(q.principal = p /\ q.had)
      BY <1>1, <1>2, <2>1, <3>2, RowsAreFinite, BalanceShrinks DEF PaidFor
    <3> QED BY <3>1, <3>2
  <2> QED BY <2>3 DEF PaidFor
<1> QED BY <1>3, <1>4 DEF SaveCredential

\* A grant is minted together with the act that pays for it.
LEMMA MintedIsPaid ==
  ASSUME CeremonyInv, NEW p, PaidFor(p), NEW c \in Caller, MintGrant(c)
  PROVE  PaidFor(p)'
<1> DEFINE q == call[c]
           n == Len(acts) + 1
           m == Len(challenges) + 1
<1>1. /\ Shaped /\ q.at = "mint" /\ q.kind = "reenroll" /\ q.principal \in Principal
      /\ Becomes(c, Idle) /\ Idle.at = "idle" /\ acts' = Append(acts, Act(c))
  BY DEF CeremonyInv, RequestSound, StepFits, MintGrant, At, Idle, Working, Holding
<1>2. Issued(q.principal, Fresh, "REENROLLMENT_GRANT")
  BY DEF MintGrant
<1>3. Fresh \in Nat \cup Hashes /\ "REENROLLMENT_GRANT" \in Purpose
  BY <1>1, ChallengeValues DEF Purpose
<1>4. Granted(p)' \subseteq Granted(p)
  BY <1>1, GrantsMove
<1>5. IF q.principal = p THEN OpenGrants(p)' = OpenGrants(p) \cup {m}
                         ELSE OpenGrants(p)' = OpenGrants(p)
  BY <1>1, <1>2, <1>3, GrantOpens
<1>6. /\ n \notin Done("reenroll", p)
      /\ Enrolments(p)' = Enrolments(p)
      /\ IF q.principal = p THEN Done("reenroll", p)' = Done("reenroll", p) \cup {n}
                            ELSE Done("reenroll", p)' = Done("reenroll", p)
  <2>1. n \notin DOMAIN acts
    BY <1>1, ActsCount
  <2>2. q.kind # "register"
    BY <1>1
  <2>3. Enrolments(p)' = Enrolments(p)
    BY <1>1, <2>2, ActsCount
  <2>4. IF q.principal = p THEN Done("reenroll", p)' = Done("reenroll", p) \cup {n}
                            ELSE Done("reenroll", p)' = Done("reenroll", p)
    BY <1>1, ActsCount
  <2> QED BY <2>1, <2>3, <2>4 DEF Done
<1>7. /\ IsFiniteSet(Granted(p)')
      /\ Cardinality(Enrolments(p)') + Cardinality(Granted(p)') + Cardinality(OpenGrants(p)')
           <= Cardinality(Done("reenroll", p)')
  <2> HIDE DEF q, n, m
  <2>1. CASE q.principal = p
    <3>1. /\ IsFiniteSet(Enrolments(p)) /\ IsFiniteSet(Granted(p)) /\ IsFiniteSet(OpenGrants(p))
          /\ IsFiniteSet(Done("reenroll", p))
          /\ Cardinality(Enrolments(p)) + Cardinality(Granted(p)) + Cardinality(OpenGrants(p))
               <= Cardinality(Done("reenroll", p))
      BY <1>1, RowsAreFinite DEF PaidFor
    <3>2. /\ IsFiniteSet(Granted(p)')
          /\ Cardinality(Enrolments(p)) + Cardinality(Granted(p)') + Cardinality(OpenGrants(p) \cup {m})
               <= Cardinality(Done("reenroll", p) \cup {n})
      BY <1>4, <1>6, <3>1, BalanceMints
    <3> QED BY <1>5, <1>6, <2>1, <3>2
  <2>2. CASE q.principal # p
    BY <1>1, <1>4, <1>5, <1>6, <2>2, RowsAreFinite, BalanceShrinks DEF PaidFor
  <2> QED BY <2>1, <2>2
<1> QED BY <1>7 DEF PaidFor

LEMMA PaidInitially == CeremonyInit => Paid
<1> SUFFICES ASSUME CeremonyInit, NEW p \in Principal PROVE PaidFor(p)
  BY DEF Paid
<1>1. Idle.at = "idle"
  BY DEF Idle
<1>2. Enrolments(p) = {} /\ Granted(p) = {} /\ OpenGrants(p) = {} /\ Done("reenroll", p) = {}
  BY <1>1 DEF CeremonyInit, Enrolments, Granted, OpenGrants, Done
<1>3. IsFiniteSet({}) /\ Cardinality({}) = 0
  BY FS_EmptySet
<1> QED BY <1>2, <1>3 DEF PaidFor

\* D-66: whatever requests race, a passkey enrolled beside another took a grant of
\* its own, and a grant took a signature of a passkey enrolled before it
\* (webauthn/service.ts completeRegistration, completeReenrollmentAuthentication).
THEOREM EnrolmentsAreProved == CeremonySpec => []EnrolmentIsProved
<1>1. CeremonyInv /\ Paid /\ [CeremonyNext]_ceremonyVars => Paid'
  <2> SUFFICES ASSUME CeremonyInv, Paid, [CeremonyNext]_ceremonyVars, NEW p \in Principal PROVE PaidFor(p)'
    BY DEF Paid
  <2>1. PaidFor(p)
    BY DEF Paid
  <2> QED BY <2>1, OthersStayPaid, ConsumedGrantIsHeld, SavedUsesItsGrant, MintedIsPaid
<1>2. CeremonyInv /\ Paid => EnrolmentIsProved
  <2> SUFFICES ASSUME CeremonyInv, Paid, NEW p \in Principal
               PROVE  /\ Cardinality(Enrolments(p)) <= Cardinality(Done("reenroll", p))
                      /\ \A i \in Done("reenroll", p) : \E j \in Done("register", p) :
                           j < i /\ acts[j].response.credential = acts[i].response.credential
    BY DEF EnrolmentIsProved, Enrolments
  <2>1. /\ Cardinality(Enrolments(p)) \in Nat /\ Cardinality(OpenGrants(p)) \in Nat
        /\ Cardinality(Done("reenroll", p)) \in Nat /\ Cardinality(Granted(p)) \in Nat
    BY RowsAreFinite, FS_CardinalityType DEF CeremonyInv, Paid, PaidFor
  <2>2. Cardinality(Enrolments(p)) <= Cardinality(Done("reenroll", p))
    BY <2>1 DEF Paid, PaidFor
  <2>3. \A i \in Done("reenroll", p) : \E j \in Done("register", p) :
           j < i /\ acts[j].response.credential = acts[i].response.credential
    BY DEF CeremonyInv, ActsSound, Done
  <2> QED BY <2>2, <2>3
<1> QED BY <1>1, <1>2, PaidInitially, Invariance, PTL DEF CeremonySpec

----------------------------------------------------------------------------
(* What was signed serves what it was signed for.                           *)

\* A random challenge is the number of its row; a hash is one of a mandate's policy.
RowFits(i) ==
  IF challenges[i].purpose = "MANDATE_AUTHENTICATION" THEN challenges[i].challenge \in Hashes
  ELSE challenges[i].challenge = i

\* A person signed over a row that is still there, open or not.
SignedOver(r) ==
  \E i \in DOMAIN challenges :
    challenges[i].challenge = r.challenge /\ challenges[i].purpose = r.issuedFor

\* A request presents what somebody signed, and the row it has in hand is one of
\* what it claims, issued for what it does.
Presented(q) ==
  /\ q.at \in Working => q.response \in signed
  /\ q.at \in Holding =>
       /\ challenges[q.row].challenge = q.claimed
       /\ challenges[q.row].purpose = Serves(q.kind)
  /\ q.at = "save" => q.response.challenge = q.claimed

Meant ==
  /\ \A i \in DOMAIN challenges : RowFits(i)
  /\ \A r \in signed : SignedOver(r)
  /\ \A c \in Caller : Presented(call[c])
  /\ SignedForThis

\* Rows with one challenge were issued for one purpose.
LEMMA OnePurpose ==
  ASSUME \A i \in DOMAIN challenges : RowFits(i), Shaped,
         NEW i \in DOMAIN challenges, NEW j \in DOMAIN challenges,
         challenges[i].challenge = challenges[j].challenge
  PROVE  challenges[i].purpose = challenges[j].purpose
<1>1. i \in Nat /\ j \in Nat
  BY LenProperties DEF Shaped
<1>2. Hashes \cap Nat = {}
  BY CeremonyNamesAssumption DEF Hashes
<1> QED BY <1>1, <1>2 DEF RowFits

\* What a row says of itself never changes, and a new one is random or a hash.
RowsKeep ==
  \A i \in DOMAIN challenges :
    /\ i \in DOMAIN challenges'
    /\ challenges'[i].challenge = challenges[i].challenge
    /\ challenges'[i].purpose = challenges[i].purpose

LEMMA IssuedFits ==
  ASSUME Shaped, \A i \in DOMAIN challenges : RowFits(i),
         NEW p \in Principal, NEW value \in Nat \cup Hashes, NEW purpose \in Purpose,
         Issued(p, value, purpose),
         IF purpose = "MANDATE_AUTHENTICATION" THEN value \in Hashes ELSE value = Fresh
  PROVE  RowsKeep /\ \A i \in DOMAIN challenges' : RowFits(i)'
<1>0. PICK n : n = Len(challenges) + 1
  OBVIOUS
<1>1. /\ DOMAIN challenges' = DOMAIN challenges \cup {n}
      /\ \A i \in DOMAIN challenges : challenges'[i] = challenges[i]
      /\ challenges'[n] = NewRow(p, value, purpose)
  BY <1>0, IssuedAdds
<1>2. NewRow(p, value, purpose).purpose = purpose /\ NewRow(p, value, purpose).challenge = value
  BY DEF NewRow
<1>3. RowFits(n)'
  BY <1>0, <1>1, <1>2 DEF RowFits, Fresh
<1>4. \A i \in DOMAIN challenges : RowFits(i)'
  BY <1>1 DEF RowFits
<1> QED BY <1>1, <1>3, <1>4 DEF RowsKeep

LEMMA ConsumedFits ==
  ASSUME Shaped, \A i \in DOMAIN challenges : RowFits(i), NEW matched, Consumed(matched)
  PROVE  RowsKeep /\ \A i \in DOMAIN challenges' : RowFits(i)'
BY ConsumedCloses DEF RowsKeep, RowFits

LEMMA RowsFit ==
  ASSUME CeremonyInv, \A i \in DOMAIN challenges : RowFits(i), [CeremonyNext]_ceremonyVars
  PROVE  RowsKeep /\ \A i \in DOMAIN challenges' : RowFits(i)'
<1> DEFINE Fit == RowsKeep /\ \A i \in DOMAIN challenges' : RowFits(i)'
<1>1. Shaped /\ \A c \in Caller : RequestSound(call[c])
  BY DEF CeremonyInv
<1>2. UNCHANGED challenges => Fit
  BY DEF RowsKeep, RowFits
<1>3. ASSUME NEW c \in Caller, IssueOptions(c) PROVE Fit
  <2>1. call[c].mandate \in Mandate /\ call[c].principal = PrincipalOf[call[c].mandate]
    BY <1>1, <1>3 DEF IssueOptions, At, RequestSound, StepFits
  <2>2. /\ call[c].principal \in Principal /\ HashOf[call[c].mandate] \in Hashes
        /\ PrincipalOf[call[c].mandate] \in Principal /\ Fresh \in Nat
    BY <1>1, <2>1, ChallengeValues
  <2>3. "REGISTRATION" \in Purpose /\ "MANDATE_AUTHENTICATION" \in Purpose
    BY DEF Purpose
  <2>4. CASE beginMandateAuthentication(call[c].mandate)
    BY <1>1, <2>2, <2>3, <2>4, IssuedFits DEF beginMandateAuthentication
  <2>5. CASE beginRegistration(call[c].principal)
    BY <1>1, <2>2, <2>3, <2>5, IssuedFits DEF beginRegistration
  <2> QED BY <1>3, <2>4, <2>5 DEF IssueOptions
<1>4. ASSUME NEW p \in Principal, ReenrollmentOptions(p) PROVE Fit
  <2>1. Fresh \in Nat /\ "REENROLLMENT_AUTHENTICATION" \in Purpose
    BY <1>1, ChallengeValues DEF Purpose
  <2> QED BY <1>1, <1>4, <2>1, IssuedFits DEF ReenrollmentOptions, beginReenrollmentAuthentication
<1>5. ASSUME NEW c \in Caller, MintGrant(c) PROVE Fit
  <2>1. Fresh \in Nat /\ "REENROLLMENT_GRANT" \in Purpose
    BY <1>1, ChallengeValues DEF Purpose
  <2>2. call[c].principal \in Principal
    BY <1>1, <1>5 DEF MintGrant, At, RequestSound, StepFits, Working, Holding
  <2> QED BY <1>1, <1>5, <2>1, <2>2, IssuedFits DEF MintGrant
<1>6. ASSUME NEW c \in Caller, ConsumeGrant(c) \/ ConsumeChallenge(c) PROVE Fit
  BY <1>1, <1>6, ConsumedFits DEF ConsumeGrant, ConsumeChallenge
<1>7. ASSUME NEW i \in DOMAIN challenges, Expire(i) PROVE Fit
  BY <1>1, <1>7, ConsumedFits DEF Expire
<1> HIDE DEF Fit
<1>8. ASSUME NEW c \in Caller, Steps(c) PROVE Fit
  BY <1>2, <1>3, <1>5, <1>6, <1>8
     DEF Steps, CheckEnrolled, SaveCredential, FindCredential, UpdateCounter, Activate
<1>9. Fit
  BY <1>2, <1>4, <1>7, <1>8, ZenonT(60)
     DEF CeremonyNext, ceremonyVars, BeginOptions, BeginVerify, BeginReenroll, Sign
<1> QED BY <1>9 DEF Fit

\* A person signs over a row there is, and nothing signed is lost.
LEMMA SignedStays ==
  ASSUME [CeremonyNext]_ceremonyVars, RowsKeep, \A r \in signed : SignedOver(r)
  PROVE  signed \subseteq signed' /\ \A r \in signed' : SignedOver(r)'
<1>1. \A r \in signed : SignedOver(r)'
  BY DEF SignedOver, RowsKeep
<1>2. CASE UNCHANGED signed
  BY <1>1, <1>2
<1>3. ASSUME NEW k \in Credential, NEW i \in DOMAIN challenges, Sign(k, i)
      PROVE  signed \subseteq signed' /\ \A r \in signed' : SignedOver(r)'
  <2>1. PICK x, n : signed' = signed \cup
          {[creates |-> x, credential |-> k, challenge |-> challenges[i].challenge,
            issuedFor |-> challenges[i].purpose, counter |-> n]}
    BY <1>3, Zenon DEF Sign
  <2>2. ASSUME NEW r \in signed', r \notin signed PROVE SignedOver(r)'
    BY <2>1, <2>2 DEF SignedOver, RowsKeep
  <2> QED BY <1>1, <2>1, <2>2
<1>4. ASSUME NEW c \in Caller, Steps(c) PROVE UNCHANGED signed
  BY <1>4 DEF Steps, IssueOptions, CheckEnrolled, ConsumeGrant, ConsumeChallenge, SaveCredential,
              FindCredential, UpdateCounter, Activate, MintGrant
<1> QED
  BY <1>2, <1>3, <1>4, ZenonT(60)
     DEF CeremonyNext, ceremonyVars, BeginOptions, ReenrollmentOptions, BeginVerify, BeginReenroll, Expire

\* A request presents one response from its first step to its last.
LEMMA BeginsPresented ==
  ASSUME CeremonyInv, NEW c \in Caller, signed \subseteq signed',
         \/ \E m \in Mandate : BeginOptions(c, m)
         \/ \E m \in Mandate, r \in signed : BeginVerify(c, "authenticate", m, None, r)
         \/ \E m \in Mandate, r \in signed : \E g : BeginVerify(c, "register", m, g, r)
         \/ \E p \in Principal, r \in signed : BeginReenroll(c, p, r)
  PROVE  Presented(call[c])'
<1> DEFINE q == call'[c]
<1>1. Shaped
  BY DEF CeremonyInv
<1>2. ASSUME NEW m \in Mandate, BeginOptions(c, m) PROVE q.at = "issue"
  <2>1. q = [Idle EXCEPT !.at = "issue", !.kind = "options", !.mandate = m,
                         !.principal = PrincipalOf[m], !.had = hasCredentialForPrincipal(PrincipalOf[m])]
    BY <1>1, <1>2, Stepped, ZenonT(60) DEF BeginOptions
  <2> QED BY <2>1 DEF Idle
<1>3. ASSUME NEW m \in Mandate, NEW r \in signed, NEW g, NEW kind, BeginVerify(c, kind, m, g, r)
      PROVE  q.at \in {"check", "consume"} /\ q.response = r
  <2>1. q = [Idle EXCEPT !.at = IF kind = "register" THEN "check" ELSE "consume",
                         !.kind = kind, !.mandate = m, !.principal = PrincipalOf[m], !.grant = g,
                         !.claimed = IF kind = "register" THEN r.challenge ELSE HashOf[m],
                         !.response = r]
    BY <1>1, <1>3, Stepped, ZenonT(60) DEF BeginVerify
  <2> QED BY <2>1 DEF Idle
<1>4. ASSUME NEW p \in Principal, NEW r \in signed, BeginReenroll(c, p, r)
      PROVE  q.at = "consume" /\ q.response = r
  <2>1. q = [Idle EXCEPT !.at = "consume", !.kind = "reenroll", !.principal = p,
                         !.claimed = r.challenge, !.response = r]
    BY <1>1, <1>4, Stepped DEF BeginReenroll
  <2> QED BY <2>1 DEF Idle
<1>5. q.at = "issue" \/ (q.at \in {"check", "consume"} /\ q.response \in signed')
  <2> HIDE DEF q
  <2> QED BY <1>2, <1>3, <1>4
<1> QED BY <1>5 DEF Presented, Working, Holding

\* The row a request takes in hand is one of what it claims, issued for what it does.
LEMMA ConsumesPresented ==
  ASSUME CeremonyInv, NEW c \in Caller, ConsumeChallenge(c), Presented(call[c]), RowsKeep,
         signed \subseteq signed'
  PROVE  Presented(call[c])'
<1> DEFINE q == call[c]
           matched == Matching(q.principal, q.claimed)
<1>1. Shaped /\ Fields(q) /\ q.at = "consume" /\ q.response \in signed
  BY DEF CeremonyInv, Shaped, ConsumeChallenge, At, Presented, Working
<1>2. \/ call'[c] = Idle
      \/ \E i \in matched :
           /\ Accepts(q.kind, challenges[i].purpose)
           /\ q.kind = "register" => verifyRegistration(q.response, q.claimed)
           /\ call'[c] = [q EXCEPT !.row = i, !.at = IF q.kind = "register" THEN "save" ELSE "find"]
  BY <1>1, Stepped, ZenonT(60) DEF ConsumeChallenge
<1>3. CASE call'[c] = Idle
  BY <1>3 DEF Presented, Working, Holding, Idle
<1>4. ASSUME NEW i \in matched, Accepts(q.kind, challenges[i].purpose),
             q.kind = "register" => verifyRegistration(q.response, q.claimed),
             call'[c] = [q EXCEPT !.row = i, !.at = IF q.kind = "register" THEN "save" ELSE "find"]
      PROVE  Presented(call[c])'
  <2>1. i \in DOMAIN challenges /\ challenges[i].challenge = q.claimed
        /\ challenges[i].purpose = Serves(q.kind)
    BY <1>4 DEF Matching, Is, Accepts
  <2>2. /\ call'[c].row = i /\ call'[c].at = IF q.kind = "register" THEN "save" ELSE "find"
        /\ call'[c].kind = q.kind /\ call'[c].response = q.response /\ call'[c].claimed = q.claimed
    BY <1>1, <1>4 DEF Fields
  <2>3. challenges'[i].challenge = q.claimed /\ challenges'[i].purpose = Serves(q.kind)
    BY <2>1 DEF RowsKeep
  <2> QED BY <1>1, <1>4, <2>2, <2>3 DEF Presented, verifyRegistration
<1> QED BY <1>2, <1>3, <1>4

\* The other steps of a request keep what it presents, or end it.
LEMMA StepsPresented ==
  ASSUME CeremonyInv, NEW c \in Caller, Steps(c), Presented(call[c]), RowsKeep,
         signed \subseteq signed'
  PROVE  Presented(call[c])'
<1> DEFINE q == call[c]
<1>1. Shaped /\ Fields(q) /\ RequestSound(q)
  BY DEF CeremonyInv, Shaped
<1>2. CASE call'[c] = Idle
  BY <1>2 DEF Presented, Working, Holding, Idle
<1>3. CASE CheckEnrolled(c) \/ ConsumeGrant(c)
  <2>1. \/ call'[c] = Idle
        \/ call'[c] = [q EXCEPT !.had = TRUE, !.at = "grant"]
        \/ call'[c] = [q EXCEPT !.at = "consume", !.grant = None]
    BY <1>1, <1>3, Stepped DEF CheckEnrolled, ConsumeGrant
  <2>2. q.at \in Working
    BY <1>3 DEF CheckEnrolled, ConsumeGrant, At, Working
  <2>3. CASE call'[c] # Idle
    <3>1. call'[c].at \in {"grant", "consume"} /\ call'[c].response = q.response
      BY <1>1, <2>1, <2>3 DEF Fields
    <3> QED BY <2>2, <3>1 DEF Presented, Holding
  <2> QED BY <1>2, <2>3
<1>4. CASE FindCredential(c) \/ UpdateCounter(c)
  <2>1. \/ call'[c] = Idle
        \/ call'[c] = [q EXCEPT !.at = "counter", !.counter = q.response.counter]
        \/ call'[c] = [q EXCEPT !.at = IF q.kind = "authenticate" THEN "activate" ELSE "mint"]
    BY <1>1, <1>4, Stepped DEF FindCredential, UpdateCounter, Goes
  <2>2. q.at \in Working /\ q.at \in Holding /\ q.row \in DOMAIN challenges
    BY <1>1, <1>4 DEF FindCredential, UpdateCounter, At, Working, Holding, RequestSound, RowInHand
  <2>3. CASE call'[c] # Idle
    <3>1. /\ call'[c].at \in {"counter", "activate", "mint"} /\ call'[c].response = q.response
          /\ call'[c].row = q.row /\ call'[c].claimed = q.claimed /\ call'[c].kind = q.kind
      BY <1>1, <2>1, <2>3 DEF Fields
    <3> QED BY <2>2, <3>1 DEF Presented, RowsKeep
  <2> QED BY <1>2, <2>3
<1>5. CASE IssueOptions(c) \/ SaveCredential(c) \/ Activate(c) \/ MintGrant(c)
  <2>1. call'[c] = Idle
    BY <1>1, <1>5, Stepped DEF IssueOptions, SaveCredential, Activate, MintGrant
  <2> QED BY <1>2, <2>1
<1> QED BY <1>3, <1>4, <1>5, ConsumesPresented DEF Steps

\* At a step of the system, whoever does not move presents what it did.
LEMMA OthersPresented ==
  ASSUME CeremonyInv, NEW d \in Caller, call'[d] = call[d], Presented(call[d]), RowsKeep,
         signed \subseteq signed'
  PROVE  Presented(call[d])'
<1>1. call[d].at \in Holding => call[d].row \in DOMAIN challenges
  BY DEF CeremonyInv, RequestSound, RowInHand
<1> QED BY <1>1 DEF Presented, RowsKeep

LEMMA PresentedStays ==
  ASSUME CeremonyInv, \A c \in Caller : Presented(call[c]), RowsKeep, signed \subseteq signed',
         [CeremonyNext]_ceremonyVars, NEW d \in Caller
  PROVE  Presented(call[d])'
<1>1. CASE call'[d] = call[d]
  BY <1>1, OthersPresented
<1>2. CASE call'[d] # call[d]
  <2>1. Shaped
    BY DEF CeremonyInv
  <2>2. ASSUME NEW c \in Caller, NEW q, Becomes(c, q) PROVE c = d
    BY <1>2, <2>1, <2>2, Stepped
  <2>3. ASSUME NEW c \in Caller,
               \/ \E m \in Mandate : BeginOptions(c, m)
               \/ \E m \in Mandate, r \in signed : BeginVerify(c, "authenticate", m, None, r)
               \/ \E m \in Mandate, r \in signed : \E g : BeginVerify(c, "register", m, g, r)
               \/ \E p \in Principal, r \in signed : BeginReenroll(c, p, r)
        PROVE  Presented(call[d])'
    <3>1. \E q : Becomes(c, q)
      BY <2>3, ZenonT(60) DEF BeginOptions, BeginVerify, BeginReenroll
    <3>2. c = d
      BY <2>2, <3>1
    <3>3. Presented(call[c])'
      BY <2>3, BeginsPresented
    <3> QED BY <3>2, <3>3
  <2>4. ASSUME NEW c \in Caller, Steps(c) PROVE Presented(call[d])'
    <3>1. \E q : Becomes(c, q)
      BY <2>4 DEF Steps, IssueOptions, CheckEnrolled, ConsumeGrant, ConsumeChallenge, SaveCredential,
                  FindCredential, UpdateCounter, Activate, MintGrant, Goes
    <3>2. c = d
      BY <2>2, <3>1
    <3>3. Presented(call[c])'
      BY <2>4, StepsPresented
    <3> QED BY <3>2, <3>3
  <2>5. ~UNCHANGED call
    BY <1>2
  <2>6. /\ ~UNCHANGED ceremonyVars /\ \A p \in Principal : ~ReenrollmentOptions(p)
        /\ \A k \in Credential, i \in DOMAIN challenges : ~Sign(k, i)
        /\ \A i \in DOMAIN challenges : ~Expire(i)
    BY <2>5 DEF ceremonyVars, ReenrollmentOptions, Sign, Expire
  <2> QED BY <2>3, <2>4, <2>6 DEF CeremonyNext
<1> QED BY <1>1, <1>2

\* What a request does with its row it does by a response that was signed for that.
LEMMA ActsAreMeant ==
  ASSUME CeremonyInv, Meant, [CeremonyNext]_ceremonyVars
  PROVE  SignedForThis'
<1>1. PICK S : acts \in Seq(S)
  BY DEF CeremonyInv, Shaped
<1>2. CASE UNCHANGED acts
  BY <1>2 DEF Meant, SignedForThis
<1>3. ASSUME NEW c \in Caller, call[c].at \in {"save", "activate", "mint"}, acts' = Append(acts, Act(c))
      PROVE  SignedForThis'
  <2> DEFINE q == call[c]
             r == q.response
  <2>1. Shaped /\ Presented(q) /\ RowInHand(q) /\ Verified(q)
    BY DEF CeremonyInv, RequestSound, Meant
  <2>2. /\ q.row \in DOMAIN challenges /\ challenges[q.row].challenge = q.claimed
        /\ challenges[q.row].purpose = Serves(q.kind) /\ r.challenge = q.claimed /\ r \in signed
    BY <1>3, <2>1 DEF Presented, RowInHand, Verified, Holding, Working
  <2>3. PICK i \in DOMAIN challenges :
          challenges[i].challenge = r.challenge /\ challenges[i].purpose = r.issuedFor
    BY <2>2 DEF Meant, SignedOver
  <2>4. r.issuedFor = Serves(q.kind)
    BY <2>1, <2>2, <2>3, OnePurpose DEF Meant
  <2>5. Act(c).response = r /\ Act(c).kind = q.kind
    BY DEF Act
  <2>6. /\ DOMAIN acts' = DOMAIN acts \cup {Len(acts) + 1}
        /\ \A j \in DOMAIN acts : acts'[j] = acts[j]
        /\ acts'[Len(acts) + 1] = Act(c)
    BY <1>1, <1>3, Appended
  <2> QED BY <2>4, <2>5, <2>6 DEF Meant, SignedForThis
<1> QED BY <1>2, <1>3, ActsAppend

LEMMA MeantInitially == CeremonyInit => Meant
<1>1. Idle.at = "idle"
  BY DEF Idle
<1> QED BY <1>1 DEF CeremonyInit, Meant, Presented, SignedForThis, Working, Holding

LEMMA MeantStep ==
  ASSUME CeremonyInv, Meant, [CeremonyNext]_ceremonyVars
  PROVE  Meant'
<1>1. RowsKeep /\ \A i \in DOMAIN challenges' : RowFits(i)'
  BY RowsFit DEF Meant
<1>2. signed \subseteq signed' /\ \A r \in signed' : SignedOver(r)'
  BY <1>1, SignedStays DEF Meant
<1>3. \A c \in Caller : Presented(call[c])'
  BY <1>1, <1>2, PresentedStays DEF Meant
<1> QED BY <1>1, <1>2, <1>3, ActsAreMeant DEF Meant

\* D-66, for any number of passkeys, requests and mandates: what a person signed
\* serves no other ceremony than the one its challenge was issued for
\* (webauthn/service.ts, the stored purpose in each of the three completions).
THEOREM SignaturesServeTheirPurpose == CeremonySpec => []SignedForThis
<1>1. CeremonyInv /\ Meant /\ [CeremonyNext]_ceremonyVars => Meant'
  BY MeantStep
<1>2. Meant => SignedForThis
  BY DEF Meant
<1> QED BY <1>1, <1>2, MeantInitially, Invariance, PTL DEF CeremonySpec

\* D-66: consumeChallenge hands a challenge to one request, what that request did
\* with it was done once, and the person whose answer it was signed for that
\* (webauthn/service.ts, prisma-repository.ts).
THEOREM ChallengesAreUsedOnce == CeremonySpec => []OneUsePerChallenge
<1>1. CeremonyInv /\ SignedForThis => OneUsePerChallenge
  BY DEF CeremonyInv, OneUsePerChallenge
<1> QED BY <1>1, Invariance, SignaturesServeTheirPurpose, PTL

----------------------------------------------------------------------------
(* The administration: the inductive invariant of its tables.               *)

USE DEF AgentId, KeyId, MandateId, InstrumentId

KeyType == [org : Org, agent : Nat, revoked : BOOLEAN]
MandateType ==
  [org : Org, principal : Nat, agents : SUBSET Nat, policy : Policy, approvers : SUBSET Nat,
   active : BOOLEAN]
InstrumentType == [org : Org, mandate : Nat]
RowStatus ==
  {"AUTHORIZED", "PENDING_STEP_UP", "DENIED", "STEP_UP_APPROVED", "STEP_UP_DECLINED", "EXPIRED",
   "EXECUTED"}
RowType ==
  [org : Org, agent : Nat, instrument : Nat, mandate : Nat, key : Nat, status : RowStatus,
   approverKey : Nat, approver : Nat, executor : Nat]

Typed ==
  /\ agents \in Seq(Org) /\ principals \in Seq(Org)
  /\ keys \in Seq(KeyType) /\ mandates \in Seq(MandateType)
  /\ instruments \in Seq(InstrumentType) /\ rows \in Seq(RowType)

\* A mandate and an account name what there was when they were created: an id
\* that is not in use yet cannot be given authority in advance.
NamesWhatIs ==
  /\ \A m \in MandateId :
       /\ mandates[m].agents \subseteq AgentId
       /\ mandates[m].principal \in DOMAIN principals
       /\ principals[mandates[m].principal] = mandates[m].org
  /\ \A n \in InstrumentId :
       instruments[n].mandate \in MandateId /\ mandates[instruments[n].mandate].org = instruments[n].org

\* Key k acts for an agent of organization org that mandate m of org binds.
ActsFor(k, m, org) ==
  /\ k \in KeyId /\ m \in MandateId
  /\ keys[k].org = org /\ mandates[m].org = org
  /\ keys[k].agent \in mandates[m].agents /\ agents[keys[k].agent] = org

\* Key k asked on account n of organization org, which is one of mandate m.
AsksOn(k, n, m, org) ==
  /\ k \in KeyId /\ m \in MandateId /\ n \in InstrumentId
  /\ keys[k].org = org /\ mandates[m].org = org
  /\ instruments[n] = [org |-> org, mandate |-> m]

\* Key k is the organization's own or one of agent a.
ActsOn(k, a, org) == k \in KeyId /\ keys[k].org = org /\ keys[k].agent \in {OrgWide, a}

RowInTenant(r) ==
  /\ r.status # "DENIED" =>
       IF r.instrument = NoInstrument THEN ActsFor(r.key, r.mandate, r.org) /\ keys[r.key].agent = r.agent
       ELSE AsksOn(r.key, r.instrument, r.mandate, r.org)
  /\ r.approver # NoMandate => ActsFor(r.approverKey, r.approver, r.org)
  /\ r.executor # NoKey => ActsOn(r.executor, r.agent, r.org)

Inv == Typed /\ NamesWhatIs /\ \A i \in DOMAIN rows : RowInTenant(rows[i])

LEMMA KeyIsTyped ==
  ASSUME Inv, NEW k \in KeyId
  PROVE  k \in Nat /\ keys[k] \in KeyType /\ keys[k].org \in Org
<1>1. keys \in Seq(KeyType)
  BY DEF Inv, Typed
<1>2. k \in Nat /\ keys[k] \in KeyType
  BY <1>1
<1> QED BY <1>2 DEF KeyType

\* The ids in use are positions.
LEMMA IdsAreNumbers ==
  ASSUME Inv
  PROVE  /\ AgentId \subseteq Nat /\ MandateId \subseteq Nat
         /\ DOMAIN principals \subseteq Nat /\ InstrumentId \subseteq Nat \ {NoInstrument}
BY DEF Inv, Typed, NoInstrument

LEMMA InvImplies == Inv => SpentWithinTenant
BY DEF Inv, NamesWhatIs, RowInTenant, ActsFor, AsksOn, ActsOn, SpentWithinTenant

\* Whoever passes the gate of a mandate with a key that is the named agent's acts
\* for it (resolveMandateGate, verifyAgentKey).
LEMMA GateMeansActsFor ==
  ASSUME NEW k, NEW a, NEW m \in MandateId, NEW org,
         verifyAgentKey(k, org, a), resolveMandateGate(org, a, m)
  PROVE  ActsFor(k, m, org)
BY DEF verifyAgentKey, verifyKey, resolveMandateGate, BoundTo, ActsFor

\* The administrative routes: an organization's own credential.
LEMMA AdminIsOrgWide ==
  ASSUME NEW k, NEW route, Admitted(k, route), route \notin AGENT_ACCESSIBLE_ROUTES
  PROVE  k \in KeyId /\ verifyKey(k) /\ keys[k].agent = OrgWide
BY DEF Admitted, verifyKey

----------------------------------------------------------------------------
(* Tables grow, and what says whose a row is never changes.                 *)

Grown ==
  /\ DOMAIN agents \subseteq DOMAIN agents' /\ \A a \in DOMAIN agents : agents'[a] = agents[a]
  /\ DOMAIN principals \subseteq DOMAIN principals'
  /\ \A p \in DOMAIN principals : principals'[p] = principals[p]
  /\ DOMAIN keys \subseteq DOMAIN keys'
  /\ \A k \in DOMAIN keys : keys'[k].org = keys[k].org /\ keys'[k].agent = keys[k].agent
  /\ DOMAIN mandates \subseteq DOMAIN mandates'
  /\ \A m \in DOMAIN mandates :
       /\ mandates'[m].org = mandates[m].org /\ mandates'[m].principal = mandates[m].principal
       /\ mandates'[m].agents = mandates[m].agents
  /\ DOMAIN instruments \subseteq DOMAIN instruments'
  /\ \A n \in DOMAIN instruments : instruments'[n] = instruments[n]

LEMMA ActsForStays ==
  ASSUME Inv, Grown, NEW k, NEW m, NEW org, ActsFor(k, m, org)
  PROVE  ActsFor(k, m, org)' /\ keys'[k].agent = keys[k].agent
BY DEF Inv, NamesWhatIs, Grown, ActsFor

LEMMA AsksOnStays ==
  ASSUME Grown, NEW k, NEW n, NEW m, NEW org, AsksOn(k, n, m, org)
  PROVE  AsksOn(k, n, m, org)'
BY DEF Grown, AsksOn

LEMMA ActsOnStays ==
  ASSUME Grown, NEW k, NEW a, NEW org, ActsOn(k, a, org)
  PROVE  ActsOn(k, a, org)'
BY DEF Grown, ActsOn

LEMMA RowStaysInTenant ==
  ASSUME Inv, Grown, NEW i \in DOMAIN rows, rows' = rows
  PROVE  RowInTenant(rows[i])'
<1> DEFINE r == rows[i]
<1>1. RowInTenant(r)
  BY DEF Inv
<1>2. r.status # "DENIED" /\ r.instrument = NoInstrument =>
        ActsFor(r.key, r.mandate, r.org)' /\ keys'[r.key].agent = r.agent
  BY <1>1, ActsForStays DEF RowInTenant
<1>3. r.status # "DENIED" /\ r.instrument # NoInstrument => AsksOn(r.key, r.instrument, r.mandate, r.org)'
  BY <1>1, AsksOnStays DEF RowInTenant
<1>4. r.approver # NoMandate => ActsFor(r.approverKey, r.approver, r.org)'
  BY <1>1, ActsForStays DEF RowInTenant
<1>5. r.executor # NoKey => ActsOn(r.executor, r.agent, r.org)'
  BY <1>1, ActsOnStays DEF RowInTenant
<1> QED BY <1>2, <1>3, <1>4, <1>5 DEF RowInTenant

\* A request that writes no authorization.
LEMMA AdminKeeps ==
  ASSUME Inv, Grown, Typed', NamesWhatIs', UNCHANGED rows
  PROVE  Inv'
<1>1. \A i \in DOMAIN rows : RowInTenant(rows[i])'
  BY RowStaysInTenant
<1> QED BY <1>1 DEF Inv

\* One that changes only authorizations.
LEMMA SpendKeeps ==
  ASSUME Inv, UNCHANGED <<agents, principals, keys, mandates, instruments>>,
         rows' \in Seq(RowType),
         \A i \in DOMAIN rows' : RowInTenant(rows'[i])
  PROVE  Inv'
<1>1. Typed' /\ NamesWhatIs'
  BY DEF Inv, Typed, NamesWhatIs
<1>2. \A i \in DOMAIN rows' : RowInTenant(rows[i])'
  BY DEF RowInTenant, ActsFor, AsksOn, ActsOn
<1> QED BY <1>1, <1>2 DEF Inv

LEMMA UnchangedGrown ==
  ASSUME UNCHANGED <<agents, principals, keys, mandates, instruments>>
  PROVE  Grown
BY DEF Grown

\* createAgent, createPrincipal, createKey: a row of the caller's own organization.
LEMMA CreateAgentKeeps ==
  ASSUME Inv, NEW k \in KeyId, createAgent(k)
  PROVE  Inv'
<1>1. agents' = Append(agents, keys[k].org) /\ UNCHANGED <<principals, keys, mandates, instruments, rows>>
  BY DEF createAgent
<1>2. keys[k].org \in Org /\ agents \in Seq(Org)
  BY KeyIsTyped DEF Inv, Typed
<1>3. agents' \in Seq(Org) /\ DOMAIN agents \subseteq DOMAIN agents'
      /\ \A a \in DOMAIN agents : agents'[a] = agents[a]
  BY <1>1, <1>2
<1>4. Grown
  BY <1>1, <1>3 DEF Grown
<1>5. Typed' /\ NamesWhatIs'
  BY <1>1, <1>3 DEF Inv, Typed, NamesWhatIs
<1> QED BY <1>1, <1>4, <1>5, AdminKeeps

LEMMA CreatePrincipalKeeps ==
  ASSUME Inv, NEW k \in KeyId, createPrincipal(k)
  PROVE  Inv'
<1>1. principals' = Append(principals, keys[k].org) /\ UNCHANGED <<agents, keys, mandates, instruments, rows>>
  BY DEF createPrincipal
<1>2. keys[k].org \in Org /\ principals \in Seq(Org)
  BY KeyIsTyped DEF Inv, Typed
<1>3. principals' \in Seq(Org) /\ DOMAIN principals \subseteq DOMAIN principals'
      /\ \A p \in DOMAIN principals : principals'[p] = principals[p]
  BY <1>1, <1>2
<1>4. Grown
  BY <1>1, <1>3 DEF Grown
<1>5. Typed' /\ NamesWhatIs'
  BY <1>1, <1>3 DEF Inv, Typed, NamesWhatIs
<1> QED BY <1>1, <1>4, <1>5, AdminKeeps

LEMMA CreateKeyAppends ==
  ASSUME Inv, NEW k \in KeyId, createKey(k)
  PROVE  \E a \in AgentId :
           /\ keys' = Append(keys, KeyRow(keys[k].org, a))
           /\ keys' \in Seq(KeyType) /\ DOMAIN keys' = DOMAIN keys \cup {Len(keys) + 1}
           /\ \A n \in DOMAIN keys : keys'[n] = keys[n]
           /\ keys'[Len(keys) + 1] = KeyRow(keys[k].org, a)
<1>1. PICK a \in AgentId : keys' = Append(keys, KeyRow(keys[k].org, a))
  BY DEF createKey
<1>2. keys[k].org \in Org /\ a \in Nat /\ keys \in Seq(KeyType)
  BY KeyIsTyped, IdsAreNumbers DEF Inv, Typed
<1>3. KeyRow(keys[k].org, a) \in KeyType
  BY <1>2 DEF KeyRow, KeyType
<1> QED BY <1>1, <1>2, <1>3

LEMMA CreateKeyKeeps ==
  ASSUME Inv, NEW k \in KeyId, createKey(k)
  PROVE  Inv'
<1>1. /\ keys' \in Seq(KeyType) /\ DOMAIN keys \subseteq DOMAIN keys'
      /\ \A n \in DOMAIN keys : keys'[n] = keys[n]
  BY CreateKeyAppends
<1>2. UNCHANGED <<agents, principals, mandates, instruments, rows>>
  BY DEF createKey
<1>3. Grown
  BY <1>1, <1>2 DEF Grown
<1>4. Typed' /\ NamesWhatIs'
  BY <1>1, <1>2 DEF Inv, Typed, NamesWhatIs
<1> QED BY <1>2, <1>3, <1>4, AdminKeeps

LEMMA RevokeKeyChanges ==
  ASSUME Inv, NEW k \in KeyId, revokeKey(k)
  PROVE  /\ keys' \in Seq(KeyType) /\ DOMAIN keys' = DOMAIN keys
         /\ \A j \in DOMAIN keys :
              /\ keys'[j].org = keys[j].org /\ keys'[j].agent = keys[j].agent
              /\ keys[j].revoked => keys'[j].revoked
<1>1. PICK n \in KeyId : keys' = [keys EXCEPT ![n].revoked = TRUE]
  BY DEF revokeKey
<1>2. keys \in Seq(KeyType) /\ keys[n] \in KeyType
  BY DEF Inv, Typed
<1>3. [keys[n] EXCEPT !.revoked = TRUE] \in KeyType
      /\ [keys[n] EXCEPT !.revoked = TRUE].org = keys[n].org
      /\ [keys[n] EXCEPT !.revoked = TRUE].agent = keys[n].agent
      /\ [keys[n] EXCEPT !.revoked = TRUE].revoked = TRUE
  BY <1>2 DEF KeyType
<1> DEFINE x == [keys[n] EXCEPT !.revoked = TRUE]
<1>4. keys' = [keys EXCEPT ![n] = x]
  BY <1>1
<1> HIDE DEF x
<1>5. keys' \in Seq(KeyType) /\ DOMAIN keys' = DOMAIN keys
      /\ \A j \in DOMAIN keys : keys'[j] = IF j = n THEN x ELSE keys[j]
  BY <1>2, <1>3, <1>4 DEF x
<1> QED BY <1>3, <1>5 DEF x

LEMMA RevokeKeyKeeps ==
  ASSUME Inv, NEW k \in KeyId, revokeKey(k)
  PROVE  Inv'
<1>1. /\ keys' \in Seq(KeyType) /\ DOMAIN keys' = DOMAIN keys
      /\ \A j \in DOMAIN keys : keys'[j].org = keys[j].org /\ keys'[j].agent = keys[j].agent
  BY RevokeKeyChanges
<1>2. UNCHANGED <<agents, principals, mandates, instruments, rows>>
  BY DEF revokeKey
<1>3. Grown
  BY <1>1, <1>2 DEF Grown
<1>4. Typed' /\ NamesWhatIs'
  BY <1>1, <1>2 DEF Inv, Typed, NamesWhatIs
<1> QED BY <1>2, <1>3, <1>4, AdminKeeps

\* createMandate: the store's answer is a mandate over what exists.
LEMMA CreateMandateAppends ==
  ASSUME Inv, NEW k \in KeyId, createMandate(k)
  PROVE  \E x \in MandateType :
           /\ mandates' = Append(mandates, x) /\ ~x.active
           /\ x.agents \subseteq AgentId
           /\ x.principal \in DOMAIN principals /\ principals[x.principal] = x.org
           /\ UNCHANGED <<agents, principals, keys, instruments, rows>>
<1>1. PICK p \in DOMAIN principals, S \in SUBSET AgentId, policy \in HandWritten \cup Compiled,
           approvers \in SUBSET MandateId :
        /\ getPrincipal(p, keys[k].org)
        /\ Created([org |-> keys[k].org, principal |-> p, agents |-> S, policy |-> policy,
                    approvers |-> approvers, active |-> FALSE])
        /\ UNCHANGED <<agents, principals, keys, instruments, rows>>
  BY DEF createMandate
<1> DEFINE x == [org |-> keys[k].org, principal |-> p, agents |-> S, policy |-> policy,
                 approvers |-> approvers, active |-> FALSE]
<1>2. keys[k].org \in Org /\ p \in Nat /\ S \subseteq Nat /\ approvers \subseteq Nat
  BY KeyIsTyped, IdsAreNumbers
<1>3. policy \in Policy
  BY OnboardingAssumption DEF Compiled
<1>4. x \in MandateType
  BY <1>2, <1>3 DEF MandateType
<1>5. mandates' = Append(mandates, x)
  BY <1>1 DEF Created
<1>6. principals[p] = x.org
  BY <1>1 DEF getPrincipal
<1> QED BY <1>1, <1>4, <1>5, <1>6

LEMMA CreateMandateKeeps ==
  ASSUME Inv, NEW k \in KeyId, createMandate(k)
  PROVE  Inv'
<1>1. PICK x \in MandateType :
        /\ mandates' = Append(mandates, x)
        /\ x.agents \subseteq AgentId
        /\ x.principal \in DOMAIN principals /\ principals[x.principal] = x.org
        /\ UNCHANGED <<agents, principals, keys, instruments, rows>>
  BY CreateMandateAppends
<1>2. mandates \in Seq(MandateType)
  BY DEF Inv, Typed
<1>3. /\ mandates' \in Seq(MandateType) /\ DOMAIN mandates' = DOMAIN mandates \cup {Len(mandates) + 1}
      /\ \A m \in DOMAIN mandates : mandates'[m] = mandates[m]
      /\ mandates'[Len(mandates) + 1] = x
  BY <1>1, <1>2
<1>4. Grown
  BY <1>1, <1>3 DEF Grown
<1>5. Typed'
  BY <1>1, <1>3 DEF Inv, Typed
<1>6. NamesWhatIs'
  BY <1>1, <1>3 DEF Inv, NamesWhatIs
<1> QED BY <1>1, <1>4, <1>5, <1>6, AdminKeeps

\* activateMandate: only its status is written.
LEMMA ActivateChanges ==
  ASSUME Inv, NEW k \in KeyId, activateMandate(k)
  PROVE  /\ mandates' \in Seq(MandateType) /\ DOMAIN mandates' = DOMAIN mandates
         /\ \A m \in DOMAIN mandates :
              /\ mandates'[m].org = mandates[m].org
              /\ mandates'[m].principal = mandates[m].principal
              /\ mandates'[m].agents = mandates[m].agents
              /\ mandates'[m].active # mandates[m].active => mandates[m].org = keys[k].org
<1>1. PICK n \in MandateId :
        mandates[n].org = keys[k].org /\ mandates' = [mandates EXCEPT ![n].active = TRUE]
  BY DEF activateMandate
<1>2. mandates \in Seq(MandateType) /\ mandates[n] \in MandateType
  BY DEF Inv, Typed
<1> DEFINE x == [mandates[n] EXCEPT !.active = TRUE]
<1>3. /\ x \in MandateType
      /\ x.org = mandates[n].org /\ x.principal = mandates[n].principal
      /\ x.agents = mandates[n].agents
  BY <1>2 DEF MandateType
<1>4. mandates' = [mandates EXCEPT ![n] = x]
  BY <1>1
<1> HIDE DEF x
<1>5. /\ mandates' \in Seq(MandateType) /\ DOMAIN mandates' = DOMAIN mandates
      /\ \A m \in DOMAIN mandates : mandates'[m] = IF m = n THEN x ELSE mandates[m]
  BY <1>2, <1>3, <1>4
<1> QED BY <1>1, <1>3, <1>5

LEMMA ActivateKeeps ==
  ASSUME Inv, NEW k \in KeyId, activateMandate(k)
  PROVE  Inv'
<1>1. /\ mandates' \in Seq(MandateType) /\ DOMAIN mandates' = DOMAIN mandates
      /\ \A m \in DOMAIN mandates :
           /\ mandates'[m].org = mandates[m].org
           /\ mandates'[m].principal = mandates[m].principal
           /\ mandates'[m].agents = mandates[m].agents
  BY ActivateChanges
<1>2. UNCHANGED <<agents, principals, keys, instruments, rows>>
  BY DEF activateMandate
<1>3. Grown
  BY <1>1, <1>2 DEF Grown
<1>4. Typed'
  BY <1>1, <1>2 DEF Inv, Typed
<1>5. NamesWhatIs'
  BY <1>1, <1>2 DEF Inv, NamesWhatIs
<1> QED BY <1>2, <1>3, <1>4, <1>5, AdminKeeps

\* provisionInstrument: an account of a mandate of the caller's own organization.
LEMMA ProvisionAppends ==
  ASSUME Inv, NEW k \in KeyId, provisionInstrument(k)
  PROVE  \E m \in MandateId :
           /\ mandates[m].org = keys[k].org
           /\ instruments' = Append(instruments, [org |-> keys[k].org, mandate |-> m])
           /\ instruments' \in Seq(InstrumentType)
           /\ DOMAIN instruments' = DOMAIN instruments \cup {Len(instruments) + 1}
           /\ \A n \in DOMAIN instruments : instruments'[n] = instruments[n]
           /\ instruments'[Len(instruments) + 1] = [org |-> keys[k].org, mandate |-> m]
<1>1. PICK m \in MandateId :
        /\ mandates[m].org = keys[k].org
        /\ instruments' = Append(instruments, [org |-> keys[k].org, mandate |-> m])
  BY DEF provisionInstrument
<1>2. keys[k].org \in Org /\ m \in Nat /\ instruments \in Seq(InstrumentType)
  BY KeyIsTyped, IdsAreNumbers DEF Inv, Typed
<1>3. [org |-> keys[k].org, mandate |-> m] \in InstrumentType
  BY <1>2 DEF InstrumentType
<1> QED BY <1>1, <1>2, <1>3

LEMMA ProvisionKeeps ==
  ASSUME Inv, NEW k \in KeyId, provisionInstrument(k)
  PROVE  Inv'
<1>1. PICK m \in MandateId :
        /\ mandates[m].org = keys[k].org
        /\ instruments' \in Seq(InstrumentType)
        /\ DOMAIN instruments' = DOMAIN instruments \cup {Len(instruments) + 1}
        /\ \A n \in DOMAIN instruments : instruments'[n] = instruments[n]
        /\ instruments'[Len(instruments) + 1] = [org |-> keys[k].org, mandate |-> m]
  BY ProvisionAppends
<1>2. UNCHANGED <<agents, principals, keys, mandates, rows>>
  BY DEF provisionInstrument
<1>3. Grown
  BY <1>1, <1>2 DEF Grown
<1>4. Typed'
  BY <1>1, <1>2 DEF Inv, Typed
<1>5. NamesWhatIs'
  BY <1>1, <1>2 DEF Inv, NamesWhatIs
<1> QED BY <1>2, <1>3, <1>4, <1>5, AdminKeeps

\* A new row that is sound by itself.
LEMMA NewRowKeeps ==
  ASSUME Inv, NEW r, Spends(Append(rows, r)), r \in RowType, RowInTenant(r)
  PROVE  Inv'
<1>1. rows \in Seq(RowType) /\ rows' = Append(rows, r)
      /\ UNCHANGED <<agents, principals, keys, mandates, instruments>>
  BY DEF Inv, Typed, Spends
<1>2. /\ rows' \in Seq(RowType)
      /\ \A i \in DOMAIN rows' : rows'[i] = r \/ (i \in DOMAIN rows /\ rows'[i] = rows[i])
  BY <1>1
<1>3. \A i \in DOMAIN rows' : RowInTenant(rows'[i])
  BY <1>2 DEF Inv
<1> QED BY <1>1, <1>2, <1>3, SpendKeeps

\* A row rewritten so that it is sound.
LEMMA RewrittenRowKeeps ==
  ASSUME Inv, NEW i \in DOMAIN rows, NEW r, Spends([rows EXCEPT ![i] = r]),
         r \in RowType, RowInTenant(r)
  PROVE  Inv'
<1>1. rows \in Seq(RowType) /\ rows' = [rows EXCEPT ![i] = r]
      /\ UNCHANGED <<agents, principals, keys, mandates, instruments>>
  BY DEF Inv, Typed, Spends
<1>2. rows' \in Seq(RowType) /\ DOMAIN rows' = DOMAIN rows
      /\ \A j \in DOMAIN rows : rows'[j] = IF j = i THEN r ELSE rows[j]
  BY <1>1
<1>3. \A j \in DOMAIN rows' : RowInTenant(rows'[j])
  BY <1>2 DEF Inv
<1> QED BY <1>1, <1>2, <1>3, SpendKeeps

\* A row that gets another status, and was not denied if it is not now.
LEMMA RestatedRowKeeps ==
  ASSUME Inv, NEW i \in DOMAIN rows, NEW outcome \in RowStatus,
         rows[i].status = "DENIED" => outcome = "DENIED",
         Spends([rows EXCEPT ![i].status = outcome])
  PROVE  Inv'
<1> DEFINE r == [rows[i] EXCEPT !.status = outcome]
<1>1. rows[i] \in RowType /\ RowInTenant(rows[i])
  BY DEF Inv, Typed
<1>2. /\ r \in RowType /\ r.status = outcome /\ r.org = rows[i].org /\ r.key = rows[i].key
      /\ r.mandate = rows[i].mandate /\ r.instrument = rows[i].instrument
      /\ r.agent = rows[i].agent /\ r.approverKey = rows[i].approverKey
      /\ r.approver = rows[i].approver /\ r.executor = rows[i].executor
  BY <1>1 DEF RowType
<1>3. Spends([rows EXCEPT ![i] = r])
  BY DEF Spends
<1> HIDE DEF r
<1>4. RowInTenant(r)
  BY <1>1, <1>2 DEF RowInTenant
<1> QED BY <1>2, <1>3, <1>4, RewrittenRowKeeps

\* authorize: what is not denied passed the gate with the named agent's key.
LEMMA AuthorizeKeeps ==
  ASSUME Inv, NEW k \in KeyId, authorize(k)
  PROVE  Inv'
<1>1. PICK a \in AgentId, m \in MandateId :
        \E outcome \in IF resolveMandateGate(keys[k].org, a, m) /\ verifyAgentKey(k, keys[k].org, a)
                       THEN {"AUTHORIZED", "PENDING_STEP_UP", "DENIED"} ELSE {"DENIED"} :
          Spends(Append(rows, Row(k, a, NoInstrument, m, outcome)))
  BY DEF authorize
<1>2. PICK outcome \in {"AUTHORIZED", "PENDING_STEP_UP", "DENIED"} :
        /\ Spends(Append(rows, Row(k, a, NoInstrument, m, outcome)))
        /\ outcome # "DENIED" => resolveMandateGate(keys[k].org, a, m)
                                /\ verifyAgentKey(k, keys[k].org, a)
  BY <1>1
<1> DEFINE r == Row(k, a, NoInstrument, m, outcome)
<1>3. r \in RowType
  <2>1. keys[k].org \in Org /\ k \in Nat /\ a \in Nat /\ m \in Nat
    BY KeyIsTyped, IdsAreNumbers
  <2> QED BY <2>1 DEF Row, RowType, RowStatus, NoKey, NoMandate, NoInstrument
<1>4. RowInTenant(r)
  <2>1. outcome # "DENIED" => ActsFor(k, m, keys[k].org) /\ keys[k].agent = a
    BY <1>2, GateMeansActsFor DEF verifyAgentKey
  <2> QED BY <2>1, <1>2 DEF RowInTenant, Row
<1> HIDE DEF r
<1> QED BY <1>2, <1>3, <1>4, NewRowKeeps DEF r

\* payByInstrument: the account is of the caller's organization, and so is its
\* mandate.
LEMMA PayKeeps ==
  ASSUME Inv, NEW k \in KeyId, payByInstrument(k)
  PROVE  Inv'
<1>1. PICK n \in InstrumentId :
        /\ FoundInstrument(k, n)
        /\ \E outcome \in IF mandates[instruments[n].mandate].active
                          THEN {"AUTHORIZED", "DENIED"} ELSE {"DENIED"} :
             Spends(Append(rows, Row(k, OrgWide, n, instruments[n].mandate, outcome)))
  BY DEF payByInstrument
<1>2. PICK outcome \in {"AUTHORIZED", "DENIED"} :
        Spends(Append(rows, Row(k, OrgWide, n, instruments[n].mandate, outcome)))
  BY <1>1
<1> DEFINE m == instruments[n].mandate
           r == Row(k, OrgWide, n, m, outcome)
<1>3. /\ instruments[n] \in InstrumentType /\ instruments[n].org = keys[k].org
      /\ m \in MandateId /\ mandates[m].org = instruments[n].org
  BY <1>1 DEF Inv, Typed, NamesWhatIs, FoundInstrument
<1>4. r \in RowType
  <2>1. keys[k].org \in Org /\ k \in Nat /\ n \in Nat /\ m \in Nat
    BY <1>3, KeyIsTyped, IdsAreNumbers
  <2> QED BY <2>1 DEF Row, RowType, RowStatus, NoKey, NoMandate, OrgWide
<1>5. AsksOn(k, n, m, keys[k].org)
  BY <1>3 DEF AsksOn, InstrumentType
<1>6. n # NoInstrument
  BY IdsAreNumbers
<1>7. RowInTenant(r)
  BY <1>5, <1>6 DEF RowInTenant, Row
<1> HIDE DEF r
<1> QED BY <1>2, <1>4, <1>7, NewRowKeeps DEF r

\* readAuthorization: a pending row may lapse.
LEMMA ReadKeeps ==
  ASSUME Inv, NEW k \in KeyId, readAuthorization(k)
  PROVE  Inv'
<1>1. PICK i \in DOMAIN rows :
        \E outcome \in expireIfNeeded(rows[i].status) : Spends([rows EXCEPT ![i].status = outcome])
  BY DEF readAuthorization
<1>2. rows[i] \in RowType
  BY DEF Inv, Typed
<1>3. PICK outcome \in RowStatus :
        /\ Spends([rows EXCEPT ![i].status = outcome])
        /\ rows[i].status = "DENIED" => outcome = "DENIED"
  BY <1>1, <1>2 DEF expireIfNeeded, RowType, RowStatus
<1> QED BY <1>3, RestatedRowKeeps

\* resolveStepUp: whoever answered passed the gate of the approver's mandate.
LEMMA ResolveKeeps ==
  ASSUME Inv, NEW k \in KeyId, resolveStepUp(k)
  PROVE  Inv'
<1>1. PICK i \in DOMAIN rows, a \in AgentId, m \in MandateId :
        /\ rows[i].org = keys[k].org /\ rows[i].status = "PENDING_STEP_UP"
        /\ \/ Spends([rows EXCEPT ![i].status = "EXPIRED"])
           \/ /\ verifyAgentKey(k, keys[k].org, a) /\ resolveMandateGate(keys[k].org, a, m)
              /\ \E outcome \in {"STEP_UP_APPROVED", "STEP_UP_DECLINED"} :
                   Spends([rows EXCEPT ![i].status = outcome, ![i].approverKey = k,
                                       ![i].approver = m])
  BY ZenonT(60) DEF resolveStepUp
<1>2. CASE Spends([rows EXCEPT ![i].status = "EXPIRED"])
  <2>1. "EXPIRED" \in RowStatus
    BY DEF RowStatus
  <2> QED BY <1>1, <1>2, <2>1, RestatedRowKeeps
<1>3. ASSUME verifyAgentKey(k, keys[k].org, a), resolveMandateGate(keys[k].org, a, m),
             NEW outcome \in {"STEP_UP_APPROVED", "STEP_UP_DECLINED"},
             Spends([rows EXCEPT ![i].status = outcome, ![i].approverKey = k, ![i].approver = m])
      PROVE  Inv'
  <2> DEFINE r == [rows[i] EXCEPT !.status = outcome, !.approverKey = k, !.approver = m]
  <2>1. rows \in Seq(RowType) /\ rows[i] \in RowType /\ RowInTenant(rows[i]) /\ k \in Nat /\ m \in Nat
    BY DEF Inv, Typed
  <2>2. Spends([rows EXCEPT ![i] = r])
    BY <1>3, <2>1 DEF Spends
  <2>3. /\ r \in RowType /\ r.org = rows[i].org /\ r.key = rows[i].key /\ r.agent = rows[i].agent
        /\ r.instrument = rows[i].instrument /\ r.executor = rows[i].executor
        /\ r.mandate = rows[i].mandate /\ r.approverKey = k /\ r.approver = m
    BY <2>1 DEF RowType, RowStatus
  <2> HIDE DEF r
  <2>4. ActsFor(r.approverKey, r.approver, r.org)
    BY <1>1, <1>3, <2>3, GateMeansActsFor
  <2>5. RowInTenant(r)
    BY <1>1, <2>1, <2>3, <2>4 DEF RowInTenant
  <2> QED BY <2>2, <2>3, <2>5, RewrittenRowKeeps
<1> QED BY <1>1, <1>2, <1>3

\* execute: the row is one the caller may act on.
LEMMA ExecuteKeeps ==
  ASSUME Inv, NEW k \in KeyId, execute(k)
  PROVE  Inv'
<1>1. PICK i \in DOMAIN rows :
        /\ agentMayActOn(rows[i], k)
        /\ \/ rows[i].status = "PENDING_STEP_UP" /\ Spends([rows EXCEPT ![i].status = "EXPIRED"])
           \/ /\ rows[i].status \in {"AUTHORIZED", "STEP_UP_APPROVED"}
              /\ Spends([rows EXCEPT ![i].status = "EXECUTED", ![i].executor = k])
  BY DEF execute
<1>2. CASE rows[i].status = "PENDING_STEP_UP" /\ Spends([rows EXCEPT ![i].status = "EXPIRED"])
  <2>1. "EXPIRED" \in RowStatus
    BY DEF RowStatus
  <2> QED BY <1>2, <2>1, RestatedRowKeeps
<1>3. CASE /\ rows[i].status \in {"AUTHORIZED", "STEP_UP_APPROVED"}
           /\ Spends([rows EXCEPT ![i].status = "EXECUTED", ![i].executor = k])
  <2> DEFINE r == [rows[i] EXCEPT !.status = "EXECUTED", !.executor = k]
  <2>1. rows \in Seq(RowType) /\ rows[i] \in RowType /\ RowInTenant(rows[i]) /\ k \in Nat
    BY DEF Inv, Typed
  <2>2. Spends([rows EXCEPT ![i] = r])
    BY <1>3, <2>1 DEF Spends
  <2>3. /\ r \in RowType /\ r.org = rows[i].org /\ r.key = rows[i].key /\ r.agent = rows[i].agent
        /\ r.instrument = rows[i].instrument /\ r.executor = k
        /\ r.mandate = rows[i].mandate /\ r.approverKey = rows[i].approverKey
        /\ r.approver = rows[i].approver
    BY <2>1 DEF RowType, RowStatus
  <2> HIDE DEF r
  <2>4. ActsOn(r.executor, r.agent, r.org)
    BY <1>1, <2>3 DEF agentMayActOn, ActsOn
  <2>5. RowInTenant(r)
    BY <1>3, <2>1, <2>3, <2>4 DEF RowInTenant
  <2> QED BY <2>2, <2>3, <2>5, RewrittenRowKeeps
<1> QED BY <1>1, <1>2, <1>3

LEMMA InvInit == Init => Inv
<1> SUFFICES ASSUME Init PROVE Inv
  OBVIOUS
<1>1. mandates = <<>> /\ instruments = <<>> /\ rows = <<>> /\ agents = <<>> /\ principals = <<>>
  BY DEF Init, FoundersInit
<1>2. keys \in Seq(KeyType)
  <2>1. keys = [k \in DOMAIN Founders |-> KeyRow(Founders[k], OrgWide)]
    BY DEF Init, FoundersInit
  <2>2. DOMAIN keys = 1..Len(Founders) /\ Len(Founders) \in Nat
    BY <2>1, OnboardingAssumption
  <2>3. \A k \in 1..Len(Founders) : keys[k] \in KeyType
    BY <2>1, <2>2, OnboardingAssumption DEF KeyRow, KeyType, OrgWide
  <2> QED BY <2>1, <2>2, <2>3
<1> QED BY <1>1, <1>2 DEF Inv, Typed, NamesWhatIs

LEMMA InvStep == Inv /\ [Next]_vars => Inv'
<1> SUFFICES ASSUME Inv, [Next]_vars PROVE Inv'
  OBVIOUS
<1>1. CASE UNCHANGED <<agents, principals, keys, mandates, instruments, rows>>
  BY <1>1, UnchangedGrown, AdminKeeps DEF Inv, Typed, NamesWhatIs
<1>2. CASE Compile
  BY <1>1, <1>2 DEF Compile, Ask, Reply, Replay
<1>3. CASE UNCHANGED vars
  BY <1>1, <1>3 DEF vars
<1>4. ASSUME NEW k \in KeyId,
             \/ createAgent(k) \/ createPrincipal(k) \/ createKey(k) \/ revokeKey(k)
             \/ createMandate(k) \/ activateMandate(k) \/ provisionInstrument(k)
             \/ authorize(k) \/ payByInstrument(k) \/ readAuthorization(k)
             \/ resolveStepUp(k) \/ execute(k)
      PROVE  Inv'
  BY <1>4, CreateAgentKeeps, CreatePrincipalKeeps, CreateKeyKeeps, RevokeKeyKeeps,
     CreateMandateKeeps, ActivateKeeps, ProvisionKeeps, AuthorizeKeeps, PayKeeps, ReadKeeps,
     ResolveKeeps, ExecuteKeeps
<1> QED BY <1>2, <1>3, <1>4 DEF Next

LEMMA InvHolds == Spec => []Inv
BY InvInit, InvStep, PTL DEF Spec

\* Whatever other organizations create, a mandate's money is asked for, approved
\* and executed with keys its own organization made: for an agent's row keys of
\* agents the mandate binds, for an instrument's row any key of the organization,
\* as POST /v1/enforcement/x402 asks for no more (resolveMandateGate,
\* verifyAgentKey, agentMayActOn, createMandate, POST /v1/instruments/x402).
THEOREM SpendingStaysInTenant == Spec => []SpentWithinTenant
BY InvHolds, InvImplies, PTL

----------------------------------------------------------------------------
(* Nothing an agent's key can call makes authority.                          *)

\* What has to change for a key to gain authority over a mandate.
LEMMA NothingGained ==
  ASSUME Inv, UNCHANGED <<agents, principals, keys, mandates, instruments>>
  PROVE  Authority' = Authority
BY DEF Authority, verifyKey, resolveMandateGate, BoundTo, FoundInstrument

\* A new agent is bound to no mandate yet.
LEMMA CreateAgentGainsNothing ==
  ASSUME Inv, NEW k \in KeyId, createAgent(k)
  PROVE  Authority' \subseteq Authority
<1>1. agents' = Append(agents, keys[k].org) /\ UNCHANGED <<principals, keys, mandates, instruments, rows>>
  BY DEF createAgent
<1>2. agents \in Seq(Org) /\ keys[k].org \in Org
  BY KeyIsTyped DEF Inv, Typed
<1>3. \A a \in DOMAIN agents : agents'[a] = agents[a]
  BY <1>1, <1>2
<1>4. \A m \in MandateId : mandates[m].agents \subseteq DOMAIN agents
  BY DEF Inv, NamesWhatIs
<1> QED BY <1>1, <1>3, <1>4 DEF Authority, verifyKey, resolveMandateGate, BoundTo, FoundInstrument

\* A new key has its maker's organization, and only a mandate of that
\* organization passes its gate.
LEMMA CreateKeyGains ==
  ASSUME Inv, NEW k \in KeyId, createKey(k), NEW q \in Authority' \ Authority
  PROVE  /\ k \in KeyId /\ verifyKey(k) /\ keys[k].agent = OrgWide
         /\ keys[k].org = mandates'[q[2]].org
<1>1. verifyKey(k) /\ keys[k].agent = OrgWide
  BY AdminIsOrgWide DEF createKey, AGENT_ACCESSIBLE_ROUTES
<1>2. PICK a \in AgentId :
        /\ DOMAIN keys' = DOMAIN keys \cup {Len(keys) + 1}
        /\ \A n \in DOMAIN keys : keys'[n] = keys[n]
        /\ keys'[Len(keys) + 1] = KeyRow(keys[k].org, a)
  BY CreateKeyAppends
<1>3. UNCHANGED <<agents, mandates, instruments>>
  BY DEF createKey
<1>4. q[1] \in DOMAIN keys' /\ mandates'[q[2]].org = keys'[q[1]].org
  BY <1>3 DEF Authority, resolveMandateGate, verifyKey, Inv, NamesWhatIs, FoundInstrument
<1>5. q[1] \notin DOMAIN keys
  BY <1>2, <1>3 DEF Authority, verifyKey, resolveMandateGate, BoundTo, FoundInstrument
<1>6. keys'[q[1]].org = keys[k].org
  BY <1>2, <1>4, <1>5 DEF KeyRow
<1> QED BY <1>1, <1>4, <1>6

LEMMA RevokeKeyGainsNothing ==
  ASSUME Inv, NEW k \in KeyId, revokeKey(k)
  PROVE  Authority' \subseteq Authority
<1>1. /\ DOMAIN keys' = DOMAIN keys
      /\ \A j \in DOMAIN keys :
           /\ keys'[j].org = keys[j].org /\ keys'[j].agent = keys[j].agent
           /\ keys[j].revoked => keys'[j].revoked
  BY RevokeKeyChanges
<1>2. UNCHANGED <<agents, mandates, instruments>>
  BY DEF revokeKey
<1> QED BY <1>1, <1>2 DEF Authority, verifyKey, resolveMandateGate, BoundTo, FoundInstrument

\* A new mandate is not active.
LEMMA CreateMandateGainsNothing ==
  ASSUME Inv, NEW k \in KeyId, createMandate(k)
  PROVE  Authority' \subseteq Authority
<1>1. PICK x \in MandateType :
        /\ mandates' = Append(mandates, x) /\ ~x.active
        /\ UNCHANGED <<agents, principals, keys, instruments, rows>>
  BY CreateMandateAppends
<1>2. mandates \in Seq(MandateType)
  BY DEF Inv, Typed
<1>3. /\ DOMAIN mandates' = DOMAIN mandates \cup {Len(mandates) + 1}
      /\ \A m \in DOMAIN mandates : mandates'[m] = mandates[m]
      /\ mandates'[Len(mandates) + 1] = x
  BY <1>1, <1>2
<1> QED BY <1>1, <1>3 DEF Authority, verifyKey, resolveMandateGate, BoundTo, FoundInstrument

LEMMA ActivateGains ==
  ASSUME Inv, NEW k \in KeyId, activateMandate(k), NEW q \in Authority' \ Authority
  PROVE  /\ k \in KeyId /\ verifyKey(k) /\ keys[k].agent = OrgWide
         /\ keys[k].org = mandates'[q[2]].org
<1>1. verifyKey(k) /\ keys[k].agent = OrgWide
  BY AdminIsOrgWide DEF activateMandate, AGENT_ACCESSIBLE_ROUTES
<1>2. /\ DOMAIN mandates' = DOMAIN mandates
      /\ \A m \in DOMAIN mandates :
           /\ mandates'[m].org = mandates[m].org /\ mandates'[m].agents = mandates[m].agents
           /\ mandates'[m].active # mandates[m].active => mandates[m].org = keys[k].org
  BY ActivateChanges
<1>3. UNCHANGED <<agents, keys, instruments>>
  BY DEF activateMandate
<1>4. q[2] \in DOMAIN mandates /\ mandates'[q[2]].active # mandates[q[2]].active
  BY <1>2, <1>3 DEF Authority, verifyKey, resolveMandateGate, BoundTo, FoundInstrument
<1> QED BY <1>1, <1>2, <1>4

\* A new account is of the caller's organization, like its mandate.
LEMMA ProvisionGains ==
  ASSUME Inv, NEW k \in KeyId, provisionInstrument(k), NEW q \in Authority' \ Authority
  PROVE  /\ k \in KeyId /\ verifyKey(k) /\ keys[k].agent = OrgWide
         /\ keys[k].org = mandates'[q[2]].org
<1>1. verifyKey(k) /\ keys[k].agent = OrgWide
  BY AdminIsOrgWide DEF provisionInstrument, AGENT_ACCESSIBLE_ROUTES
<1>2. PICK m \in MandateId :
        /\ mandates[m].org = keys[k].org
        /\ DOMAIN instruments' = DOMAIN instruments \cup {Len(instruments) + 1}
        /\ \A n \in DOMAIN instruments : instruments'[n] = instruments[n]
        /\ instruments'[Len(instruments) + 1] = [org |-> keys[k].org, mandate |-> m]
  BY ProvisionAppends
<1>3. UNCHANGED <<agents, keys, mandates>>
  BY DEF provisionInstrument
<1>4. PICK n \in DOMAIN instruments' :
        n \notin DOMAIN instruments /\ instruments'[n].mandate = q[2]
  BY <1>2, <1>3 DEF Authority, verifyKey, resolveMandateGate, BoundTo, FoundInstrument
<1>5. instruments'[n] = [org |-> keys[k].org, mandate |-> m]
  BY <1>2, <1>4
<1> QED BY <1>1, <1>2, <1>3, <1>4, <1>5

LEMMA GainsStep ==
  ASSUME Inv, [Next]_vars
  PROVE  \A q \in Authority' \ Authority :
           \E o \in KeyId :
             verifyKey(o) /\ keys[o].agent = OrgWide /\ keys[o].org = mandates'[q[2]].org
<1> SUFFICES ASSUME NEW q \in Authority' \ Authority
             PROVE  \E o \in KeyId : verifyKey(o) /\ keys[o].agent = OrgWide
                                      /\ keys[o].org = mandates'[q[2]].org
  OBVIOUS
<1>1. CASE UNCHANGED <<agents, principals, keys, mandates, instruments>>
  BY <1>1, NothingGained
<1>2. CASE Compile
  BY <1>1, <1>2 DEF Compile, Ask, Reply, Replay
<1>3. CASE UNCHANGED vars
  BY <1>1, <1>3 DEF vars
<1>4. ASSUME NEW k \in KeyId, createAgent(k) \/ createPrincipal(k) \/ revokeKey(k)
                               \/ createMandate(k)
      PROVE  FALSE
  <2>1. createPrincipal(k) => Authority' = Authority
    BY DEF createPrincipal, Authority, verifyKey, resolveMandateGate, BoundTo, FoundInstrument
  <2> QED BY <1>4, <2>1, CreateAgentGainsNothing, RevokeKeyGainsNothing, CreateMandateGainsNothing
<1>5. ASSUME NEW k \in KeyId, createKey(k) \/ activateMandate(k) \/ provisionInstrument(k)
      PROVE  verifyKey(k) /\ keys[k].agent = OrgWide /\ keys[k].org = mandates'[q[2]].org
  BY <1>5, CreateKeyGains, ActivateGains, ProvisionGains
<1>6. ASSUME NEW k \in KeyId,
             \/ authorize(k) \/ payByInstrument(k) \/ readAuthorization(k)
             \/ resolveStepUp(k) \/ execute(k)
      PROVE  UNCHANGED <<agents, principals, keys, mandates, instruments>>
  BY <1>6 DEF authorize, payByInstrument, readAuthorization, resolveStepUp, execute, Spends
<1> QED BY <1>1, <1>2, <1>3, <1>4, <1>5, <1>6 DEF Next

\* Whatever an agent's keys call, only a live credential of the organization's own
\* makes a key able to spend under a mandate or approve with it
\* (AGENT_ACCESSIBLE_ROUTES, createMandate, activateMandate, POST /v1/instruments/x402).
THEOREM AuthorityIsTheirs == Spec => AgentsGainNothing
<1>1. Inv /\ [Next]_vars =>
        [\A q \in Authority' \ Authority :
           \E o \in KeyId :
             verifyKey(o) /\ keys[o].agent = OrgWide /\ keys[o].org = mandates'[q[2]].org]_vars
  BY GainsStep
<1> QED BY <1>1, InvHolds, PTL DEF Spec, AgentsGainNothing
=============================================================================
