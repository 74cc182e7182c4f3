--------------------------- MODULE EvidenceChain ---------------------------
(***************************************************************************)
(* The evidence chain of one organization, and the row locks under which it *)
(* grows.  A decision locks its mandate, writes its rows, locks the         *)
(* organization and appends its event in one transaction (D-76); a record   *)
(* of something done earlier is a transaction of its own.  Row locks are    *)
(* Postgres's, external: an inserted row that references an organization    *)
(* shares a lock on it, and a cycle of waiting transactions loses one.      *)
(***************************************************************************)
EXTENDS Integers, Sequences, FiniteSets, SequencesExt

CONSTANTS
  Caller,     \* requests being handled at once
  Mandates,   \* bound: mandates are 1..Mandates, in the order of their ids
  Nobody,     \* no caller
  Null,       \* the hash before the first
  MaxEvents,  \* bound: events ever appended
  MaxKeys,    \* bound: signing keys the process ever has
  MaxFailures \* bound: transactions that fail, and crashes

ASSUME EvidenceBoundsAssumption ==
  Mandates \in Nat /\ MaxEvents \in Nat /\ MaxKeys \in Nat \ {0} /\ MaxFailures \in Nat
ASSUME EvidenceNamesAssumption == Nobody \notin Caller

VARIABLES
  chain,     \* evidence_events of the organization, by sequence
  key,       \* the signing key of the process
  mandate,   \* who has a mandate's row locked
  shared,    \* who shares the organization's row: a row that references it
  exclusive, \* who has the organization's row locked for update
  call,      \* the local state of each request
  decided,   \* the decisions that are committed
  failures   \* transactions that failed

vars == <<chain, key, mandate, shared, exclusive, call, decided, failures>>

Mandate == 1..Mandates
Key == 1..MaxKeys
Subject == 1..MaxEvents

----------------------------------------------------------------------------
(* Events, their hashes and their signatures.  A hash is the content it is  *)
(* computed over, so that two of them agree only if their contents do.      *)

\* computeEventHash, over the hash of the event before.
Hash(sequence, subject, previous) == <<sequence, subject, previous>>

\* computeKeyId: a name for a key, made of the key itself.
computeKeyId(k) == <<"key", k>>

signEventHash(k, hash) == [key |-> k, hash |-> hash]
verifyEventSignature(k, hash, signature) == signature = signEventHash(k, hash)

\* loadEvidenceKeyDirectory, of the keys that are published.
loadEvidenceKeyDirectory(keys) ==
  [id \in {computeKeyId(k) : k \in keys} |-> CHOOSE k \in keys : computeKeyId(k) = id]

ASSUME EvidenceNullAssumption ==
  /\ Null \notin Key /\ \A k \in Key : computeKeyId(k) # Null
  /\ \A k \in Key : loadEvidenceKeyDirectory({k}) # Null

Event(sequence, subject, previous, k) ==
  LET hash == Hash(sequence, subject, previous) IN
  [sequence |-> sequence, subject |-> subject, previous |-> previous, hash |-> hash,
   signature |-> signEventHash(k, hash), key_id |-> computeKeyId(k)]

\* An event from before D-53 does not say which key it was signed with.
Legacy(e) == [e EXCEPT !.key_id = Null]

\* Mutant: an event is not checked against the event before it.
LinksAnyhow(events, k) == events[k].sequence = events[1].sequence + k - 1

\* The first event's sequence and previous hash start the range.
Links(events, k) ==
  /\ events[k].sequence = events[1].sequence + k - 1
  /\ k > 1 => events[k].previous = events[k - 1].hash

\* The key of an event, if there is a directory from there alone: an unknown one
\* fails closed.
SigningKey(e, publicKey, directory) ==
  IF directory = Null \/ e.key_id = Null THEN publicKey
  ELSE IF e.key_id \in DOMAIN directory THEN directory[e.key_id] ELSE Null

\* verifyEvidenceChain: without a key and a directory, of the hashes alone.
Verify(events, publicKey, directory) ==
  \A k \in DOMAIN events :
    LET e == events[k]  signingKey == SigningKey(e, publicKey, directory) IN
    /\ Links(events, k)
    /\ e.hash = Hash(e.sequence, e.subject, e.previous)
    /\ publicKey # Null \/ directory # Null =>
         signingKey # Null /\ verifyEventSignature(signingKey, e.hash, e.signature)

\* What the service publishes: the key the process has now, and no key it had before.
getPublicKey == key
getKeyDirectory == loadEvidenceKeyDirectory({key})

\* GET /v1/evidence/verify, and verifyEvidenceIndependently on what
\* GET /v1/evidence/public-key answers.
Verified(events) == Verify(events, getPublicKey, getKeyDirectory)

----------------------------------------------------------------------------
(* The transactions of a request, step by step.                             *)

Step == {"lock", "write", "organization", "append", "commit"}

\* Mutant: the decision is committed, then put on record.
DecisionThenRecord == <<"lock", "write", "commit", "organization", "append", "commit">>

\* A payment decided under its mandate's lock.
Decision == <<"lock", "write", "organization", "append", "commit">>

\* A step-up approved under its own mandate's lock and its approver's; what was
\* approved is put on record once that is committed.
Approval == <<"lock", "lock", "write", "commit", "organization", "append", "commit">>

\* A ceremony, a refusal or an execution put on record.
Record == <<"organization", "append", "commit">>

\* withMandateLock sorts the ids it locks.
Locks(first, second) == IF first <= second THEN <<first, second>> ELSE <<second, first>>

Idle == [steps |-> <<>>, locks |-> <<>>, subject |-> 0, appended |-> <<>>, wrote |-> FALSE,
         approval |-> FALSE]

Busy(c) == call[c].steps # <<>>
Does(c, step) == Busy(c) /\ Head(call[c].steps) = step
Becomes(c, q) == call' = [call EXCEPT ![c] = q]
After(c) == [call[c] EXCEPT !.steps = Tail(@)]

Subjects == {call[c].subject : c \in Caller}
OnRecord == {chain[k].subject : k \in DOMAIN chain}
Fresh(s) == s \in Subject \ (Subjects \cup decided \cup OnRecord)

Start(c, steps, locks) ==
  /\ ~Busy(c)
  /\ \E s \in Subject :
       /\ Fresh(s) /\ \A r \in Subject : Fresh(r) => s <= r
       /\ Becomes(c, [Idle EXCEPT !.steps = steps, !.locks = locks, !.subject = s,
                                   !.approval = (steps = Approval)])
  /\ UNCHANGED <<chain, key, mandate, shared, exclusive, decided, failures>>

StartDecision(c, m) == Start(c, Decision, <<m>>)
StartApproval(c, m, n) == m # n /\ Start(c, Approval, Locks(m, n))
StartRecord(c) == Start(c, Record, <<>>)

\* SELECT ... FOR UPDATE of a mandate.
Lock(c) ==
  LET m == Head(call[c].locks) IN
  /\ Does(c, "lock") /\ mandate[m] = Nobody
  /\ mandate' = [mandate EXCEPT ![m] = c]
  /\ Becomes(c, [After(c) EXCEPT !.locks = Tail(@)])
  /\ UNCHANGED <<chain, key, shared, exclusive, decided, failures>>

\* The authorization and its ledger entries reference the organization.
Write(c) ==
  /\ Does(c, "write") /\ exclusive \in {Nobody, c}
  /\ shared' = shared \cup {c}
  /\ Becomes(c, [After(c) EXCEPT !.wrote = TRUE])
  /\ UNCHANGED <<chain, key, mandate, exclusive, decided, failures>>

\* Others who share the row keep it from being locked for update.
FreeForUpdate(c) == exclusive \in {Nobody, c} /\ shared \subseteq {c}

\* withOrganizationLock, in the transaction that is open or one of its own.
LockOrganization(c) ==
  /\ Does(c, "organization") /\ FreeForUpdate(c)
  /\ exclusive' = c
  /\ Becomes(c, After(c))
  /\ UNCHANGED <<chain, key, mandate, shared, decided, failures>>

\* Mutant: the chain starts again at every event.
NextEventUnlinked(c) == Event(Len(chain) + 1, call[c].subject, Null, key)

\* appendEvent, on the tip it reads.
NextEvent(c) ==
  Event(Len(chain) + 1, call[c].subject, IF chain = <<>> THEN Null ELSE Last(chain).hash, key)

AppendEvent(c) ==
  /\ Does(c, "append")
  /\ Becomes(c, [After(c) EXCEPT !.appended = <<NextEvent(c)>>])
  /\ UNCHANGED <<chain, key, mandate, shared, exclusive, decided, failures>>

Accepted(e) == e.sequence = Len(chain) + 1

\* Mutant: the organization's lock outlives its transaction.
ReleasedButOrganization(c) ==
  /\ mandate' = [m \in Mandate |-> IF mandate[m] = c THEN Nobody ELSE mandate[m]]
  /\ shared' = shared \ {c}
  /\ exclusive' = exclusive

Released(c) ==
  /\ mandate' = [m \in Mandate |-> IF mandate[m] = c THEN Nobody ELSE mandate[m]]
  /\ shared' = shared \ {c}
  /\ exclusive' = IF exclusive = c THEN Nobody ELSE exclusive

\* What the transaction wrote is there, all of it, and its locks are free.  The
\* unique index on organization and sequence would turn a second event away.
Commit(c) ==
  /\ Does(c, "commit") /\ \A n \in DOMAIN call[c].appended : Accepted(call[c].appended[n])
  /\ chain' = chain \o call[c].appended
  /\ decided' = IF call[c].wrote THEN decided \cup {call[c].subject} ELSE decided
  /\ Released(c)
  /\ Becomes(c, IF Len(call[c].steps) = 1 THEN Idle
                ELSE [After(c) EXCEPT !.wrote = FALSE])
  /\ UNCHANGED <<key, failures>>

Vanish(c) ==
  /\ Released(c)
  /\ Becomes(c, Idle)
  /\ UNCHANGED <<chain, decided>>

\* A statement fails: the transaction rolls back.
Fail(c) ==
  /\ Busy(c) /\ failures < MaxFailures
  /\ failures' = failures + 1
  /\ Vanish(c)
  /\ UNCHANGED key

----------------------------------------------------------------------------
(* Who waits for whom.                                                      *)

\* The callers whose locks keep c from its next step.
Blockers(c) ==
  CASE Does(c, "lock") -> {mandate[Head(call[c].locks)]} \ {Nobody}
    [] Does(c, "write") -> {exclusive} \ {Nobody, c}
    [] Does(c, "organization") -> IF FreeForUpdate(c) THEN {} ELSE ({exclusive} \cup shared) \ {Nobody, c}
    [] OTHER -> {}

\* A set of callers each of which waits for another of them.
Cycle(cs) == cs # {} /\ \A c \in cs : Blockers(c) \cap cs # {}
Deadlocked == {c \in Caller : \E cs \in SUBSET Caller : c \in cs /\ Cycle(cs)}

\* External: Postgres breaks a deadlock by aborting one of its transactions.
AbortDeadlocked(c) ==
  /\ c \in Deadlocked
  /\ Vanish(c)
  /\ UNCHANGED <<key, failures>>

\* The process dies with every open transaction and starts again: it has the key
\* it had, or, where none is configured or a new one was, another.
Crash ==
  /\ failures < MaxFailures /\ failures' = failures + 1
  /\ key' \in {key} \cup ({key + 1} \cap Key)
  /\ mandate' = [m \in Mandate |-> Nobody] /\ shared' = {} /\ exclusive' = Nobody
  /\ call' = [c \in Caller |-> Idle]
  /\ UNCHANGED <<chain, decided>>

\* The chain is empty, or it has an event from before D-53.
Init ==
  /\ chain \in {<<>>, <<Legacy(Event(1, 1, Null, 1))>>} /\ key = 1
  /\ mandate = [m \in Mandate |-> Nobody] /\ shared = {} /\ exclusive = Nobody
  /\ call = [c \in Caller |-> Idle]
  /\ decided = {} /\ failures = 0

Proceed(c) ==
  \/ Lock(c) \/ Write(c) \/ LockOrganization(c) \/ AppendEvent(c) \/ Commit(c)
  \/ AbortDeadlocked(c)

Next ==
  \/ \E c \in Caller, m \in Mandate : StartDecision(c, m)
  \/ \E c \in Caller, m \in Mandate, n \in Mandate : StartApproval(c, m, n)
  \/ \E c \in Caller : StartRecord(c)
  \/ \E c \in Caller : Lock(c)
  \/ \E c \in Caller : Write(c)
  \/ \E c \in Caller : LockOrganization(c)
  \/ \E c \in Caller : AppendEvent(c)
  \/ \E c \in Caller : Commit(c)
  \/ \E c \in Caller : Fail(c)
  \/ \E c \in Caller : AbortDeadlocked(c)
  \/ Crash

\* Statements run, and waiting for a row lock is fair.
Spec == Init /\ [][Next]_vars /\ \A c \in Caller : SF_vars(Proceed(c))

----------------------------------------------------------------------------
(* Properties.                                                              *)

HashOf(k) == Hash(chain[k].sequence, chain[k].subject, chain[k].previous)

\* The chain is one line without a gap, each event on the hash of the one before,
\* however many requests append at once and whichever of them fail.
OneChain ==
  \A k \in DOMAIN chain :
    /\ chain[k].sequence = k
    /\ chain[k].previous = IF k = 1 THEN Null ELSE chain[k - 1].hash
    /\ \A j \in DOMAIN chain : chain[j].subject = chain[k].subject => j = k

\* D-15, D-16: nobody's event is turned away because another took its place: the
\* tip an append read is the tip until it commits.
TipIsHeld ==
  \A c \in Caller : \A n \in DOMAIN call[c].appended : Accepted(call[c].appended[n])

\* The chain with another subject from k on, each event hashed anew and signed
\* with a key that nobody published.
Rewritten(k, s) ==
  LET new[n \in DOMAIN chain] ==
        IF n < k THEN chain[n]
        ELSE Event(chain[n].sequence, IF n = k THEN s ELSE chain[n].subject,
                   IF n = 1 THEN Null ELSE new[n - 1].hash, 0)
  IN  new

\* The chain with another subject at k, where only that event is hashed anew.
Rehashed(k, s) ==
  [chain EXCEPT ![k] = Event(@.sequence, s, @.previous, 0)]

\* D-26: of what the process signed with the key it has now the verifier accepts
\* every range, whether the events name that key or not, and it accepts no range
\* with an event an earlier key signed: what that key signed is refused from the
\* restart that replaced it.  Whatever keys signed it, a chain is refused with an
\* event missing, changed or moved; a history rewritten to its end fools the hashes
\* and not the signatures (verifyEvidenceChain, verifyEvidenceIndependently).
VerifierIsExact ==
  /\ \A first, last \in DOMAIN chain :
       Verified(SubSeq(chain, first, last)) <=> \A k \in first..last : chain[k].signature.key = key
  /\ \A k \in 2..(Len(chain) - 1) : ~Verified(RemoveAt(chain, k))
  /\ \A k \in DOMAIN chain : \A s \in Subject \ {chain[k].subject} :
       /\ ~Verify([chain EXCEPT ![k].subject = s], Null, Null)
       /\ k < Len(chain) => ~Verify(Rehashed(k, s), Null, Null)
       /\ Verify(Rewritten(k, s), Null, Null) /\ ~Verified(Rewritten(k, s))
  /\ \A j, k \in DOMAIN chain : j < k => ~Verified([chain EXCEPT ![j] = chain[k], ![k] = chain[j]])

\* D-76: a decision and its event are there together or not at all, whatever
\* fails and wherever the process dies; an approval's event may come later or never.
DecisionIsOnRecord ==
  [][\A c \in Caller : call[c].wrote /\ ~call[c].approval =>
       (call[c].subject \in decided' <=> call[c].subject \in OnRecord')]_vars

\* Whoever waits for a lock gets it, or is turned away: nobody waits for ever.
RequestEnds == \A c \in Caller : Busy(c) ~> ~Busy(c)

=============================================================================
