---------------------------- MODULE MCCeremonies ----------------------------
(* A small instance of Ceremonies: two principals with a mandate each, of    *)
(* the same policy, of which one has a passkey, or has three and a grant.    *)
EXTENDS Ceremonies, TLC

CONSTANTS c1, c2, p1, p2, m1, m2, k1, k2, k3, h1
Owners == [m \in Mandate |-> IF m = m1 THEN p1 ELSE p2]
PolicyHashes == [m \in Mandate |-> h1]
Interchangeable == Permutations({c1, c2})

(* The run starts in either of two states of CeremonySpec.                   *)
Signed(creates, k, value, purpose, counter) ==
  [creates |-> creates, credential |-> k, challenge |-> value, issuedFor |-> purpose,
   counter |-> counter]
Created(k, value) == Signed(TRUE, k, value, "REGISTRATION", 0)
Asked(p, value) == NewRow(p, value, "REGISTRATION")
Answered(p, value) == [Asked(p, value) EXCEPT !.open = FALSE]
EnrolledBy(m, k, value) ==
  [kind |-> "register", principal |-> PrincipalOf[m], mandate |-> m, row |-> value,
   response |-> Created(k, value), had |-> FALSE]
Has(k, p) == k :> [principal |-> p, counter |-> 0]

NothingElse ==
  /\ status = [m \in Mandate |-> "PENDING_AUTHENTICATION"]
  /\ call = [c \in Caller |-> Idle]

(* p1 was asked for its first passkey and made k1.                           *)
OneEnrolled ==
  /\ challenges = <<Answered(p1, 1)>> /\ signed = {Created(k1, 1)}
  /\ credentials = Has(k1, p1) @@ [k \in Credential |-> None]
  /\ acts = <<EnrolledBy(m1, k1, 1)>> /\ NothingElse

(* p1 was asked three times, answered each challenge with a passkey, and     *)
(* signed with k1 for a grant: one is enrolled, and one grant may follow,    *)
(* with two answers to use it for.                                           *)
OneGrant ==
  /\ challenges = <<Answered(p1, 1), Asked(p1, 2), Asked(p1, 3),
                    NewRow(p1, 4, "REENROLLMENT_AUTHENTICATION")>>
  /\ signed = {Created(k1, 1), Created(k2, 2), Created(k3, 3),
               Signed(FALSE, k1, 4, "REENROLLMENT_AUTHENTICATION", 1)}
  /\ credentials = Has(k1, p1) @@ [k \in Credential |-> None]
  /\ acts = <<EnrolledBy(m1, k1, 1)>> /\ NothingElse
MCSpec == (OneEnrolled \/ OneGrant) /\ [][CeremonyNext]_ceremonyVars

\* The constraint: the one has two passkeys and two challenges more; with the
\* other, who asks for a fifth, p2 has no part.
Alone(p) ==
  /\ \A i \in DOMAIN challenges : challenges[i].principal = p
  /\ \A c \in Caller : call[c].principal \in {p, None}
Bounds ==
  \/ k3 \in Made /\ Len(challenges) >= 4 /\ Alone(p1)
  \/ k3 \notin Made /\ Len(challenges) <= 3 /\ Cardinality(signed) <= 3

=============================================================================
