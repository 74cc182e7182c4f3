------------------------- MODULE EvidenceChainProofs -------------------------
(***************************************************************************)
(* What holds of an organization's evidence chain for any number of         *)
(* requests, mandates, events, keys and failures.                           *)
(***************************************************************************)
EXTENDS EvidenceChain, LedgerSum

----------------------------------------------------------------------------
(* The stages of a request: what is left of its transactions.               *)

S1 == <<"commit">>
S2 == <<"append", "commit">>
S3 == <<"organization", "append", "commit">>
S4 == <<"write", "organization", "append", "commit">>
T4 == <<"commit", "organization", "append", "commit">>
T5 == <<"write", "commit", "organization", "append", "commit">>
T6 == <<"lock", "write", "commit", "organization", "append", "commit">>

\* An approval commits before its event: resolveStepUp appends it afterwards.
Stages(approval) ==
  IF approval THEN {S1, S2, S3, T4, T5, T6, Approval} ELSE {<<>>, S1, S2, S3, S4, Decision}

\* Each stage's next step and what is left after it.
LEMMA StageSteps ==
  /\ Head(S1) = "commit" /\ Tail(S1) = <<>> /\ Len(S1) = 1 /\ S1 # <<>>
  /\ Head(S2) = "append" /\ Tail(S2) = S1 /\ Len(S2) = 2 /\ S2 # <<>>
  /\ Head(S3) = "organization" /\ Tail(S3) = S2 /\ Len(S3) = 3 /\ S3 # <<>>
  /\ Head(S4) = "write" /\ Tail(S4) = S3 /\ Len(S4) = 4 /\ S4 # <<>>
  /\ Head(Decision) = "lock" /\ Tail(Decision) = S4 /\ Len(Decision) = 5 /\ Decision # <<>>
  /\ Head(T4) = "commit" /\ Tail(T4) = S3 /\ Len(T4) = 4 /\ T4 # <<>>
  /\ Head(T5) = "write" /\ Tail(T5) = T4 /\ Len(T5) = 5 /\ T5 # <<>>
  /\ Head(T6) = "lock" /\ Tail(T6) = T5 /\ Len(T6) = 6 /\ T6 # <<>>
  /\ Head(Approval) = "lock" /\ Tail(Approval) = T6 /\ Len(Approval) = 7 /\ Approval # <<>>
BY DEF S1, S2, S3, S4, T4, T5, T6, Decision, Approval

----------------------------------------------------------------------------
(* The inductive invariant.                                                 *)

Fields == {"steps", "locks", "subject", "appended", "wrote", "approval"}

Tip == IF chain = <<>> THEN Null ELSE Last(chain).hash

\* What a request knows between its steps: it holds the organization's row from
\* the moment it may read the tip, what it appended fits the tip still, and its
\* subject is its own and is on record for nobody.
Sound(c) ==
  LET q == call[c] IN
  /\ DOMAIN q = Fields /\ q.approval \in BOOLEAN /\ q.wrote \in BOOLEAN
  /\ q.steps \in Stages(q.approval)
  /\ q.steps \in {S1, S2} => exclusive = c
  /\ IF q.steps = S1
     THEN \E e : /\ q.appended = <<e>> /\ e.sequence = Len(chain) + 1
                 /\ e.previous = Tip /\ e.subject = q.subject
     ELSE q.appended = <<>>
  /\ q.wrote /\ ~q.approval => q.steps \in {S1, S2, S3}
  /\ Busy(c) =>
       /\ q.subject \notin OnRecord
       /\ ~q.approval => q.subject \notin decided
       /\ \A d \in Caller \ {c} : Busy(d) => call[d].subject # q.subject

IsChain == \E S : chain \in Seq(S)

IInv ==
  /\ call = [c \in Caller |-> call[c]]
  /\ IsChain /\ OneChain
  /\ \A c \in Caller : Sound(c)

LEMMA IdleFields ==
  /\ DOMAIN Idle = Fields /\ Idle.steps = <<>> /\ Idle.appended = <<>>
  /\ Idle.approval = FALSE /\ Idle.wrote = FALSE
BY DEF Idle, Fields

\* What appending does to a chain.
LEMMA Appends ==
  ASSUME IsChain, NEW e, chain' = chain \o <<e>>
  PROVE  /\ IsChain' /\ Len(chain) \in Nat
         /\ DOMAIN chain = 1..Len(chain) /\ DOMAIN chain' = 1..(Len(chain) + 1)
         /\ chain'[Len(chain) + 1] = e
         /\ \A k \in DOMAIN chain : chain'[k] = chain[k]
<1>1. PICK S : chain \in Seq(S)
  BY DEF IsChain
<1>2. chain \in Seq(S \cup {e}) /\ <<e>> \in Seq(S \cup {e})
  BY <1>1
<1>3. chain' \in Seq(S \cup {e}) /\ Len(chain') = Len(chain) + 1
  BY <1>2
<1>4. chain'[Len(chain) + 1] = e /\ \A k \in 1..Len(chain) : chain'[k] = chain[k]
  BY <1>2
<1> QED BY <1>1, <1>3, <1>4 DEF IsChain

LEMMA AppendsNothing ==
  ASSUME IsChain, chain' = chain \o <<>>
  PROVE  chain' = chain
BY DEF IsChain

\* The subjects on record after an append.
LEMMA OnRecordGrows ==
  ASSUME IsChain, NEW e, chain' = chain \o <<e>>
  PROVE  OnRecord' = OnRecord \cup {e.subject}
<1>1. /\ Len(chain) \in Nat /\ DOMAIN chain = 1..Len(chain)
      /\ DOMAIN chain' = 1..(Len(chain) + 1) /\ chain'[Len(chain) + 1] = e
      /\ \A k \in DOMAIN chain : chain'[k] = chain[k]
  BY Appends
<1>2. DOMAIN chain' = DOMAIN chain \cup {Len(chain) + 1}
  BY <1>1
<1> QED BY <1>1, <1>2 DEF OnRecord

\* A request that moves leaves the others sound: nobody else's event lies between
\* the tip they read and the one they commit on, because the organization's row
\* was theirs (appendEvent under withOrganizationLock).
LEMMA OthersStaySound ==
  ASSUME IInv, NEW c \in Caller, NEW q, call' = [call EXCEPT ![c] = q],
         \A d \in Caller \ {c} : exclusive = d => exclusive' = d,
         \/ chain' = chain
         \/ exclusive = c /\ \E e : chain' = chain \o <<e>> /\ e.subject = call[c].subject,
         decided' \subseteq decided \cup {call[c].subject},
         ~Busy(c) => chain' = chain /\ decided' = decided,
         q.steps # <<>> => \A d \in Caller \ {c} : Busy(d) => call[d].subject # q.subject
  PROVE  /\ call' = [d \in Caller |-> call'[d]] /\ call'[c] = q
         /\ \A d \in Caller \ {c} : call'[d] = call[d] /\ Sound(d)'
<1>1. /\ call' = [d \in Caller |-> call'[d]] /\ call'[c] = q
      /\ \A d \in Caller \ {c} : call'[d] = call[d]
  BY DEF IInv
<1>2. OnRecord' \subseteq OnRecord \cup {call[c].subject}
  <2>1. CASE chain' = chain
    BY <2>1 DEF OnRecord
  <2>2. CASE \E e : chain' = chain \o <<e>> /\ e.subject = call[c].subject
    BY <2>2, OnRecordGrows DEF IInv
  <2> QED BY <2>1, <2>2
<1>3. ASSUME NEW d \in Caller \ {c} PROVE Sound(d)'
  <2>1. Sound(d) /\ call'[d] = call[d] /\ Sound(c)
    BY <1>1 DEF IInv
  <2>2. call[d].steps \in {S1, S2} => exclusive' = d /\ chain' = chain
    BY <2>1 DEF Sound
  <2>3. call[d].steps = S1 => Len(chain') = Len(chain) /\ Tip' = Tip
    BY <2>2 DEF Tip
  <2>4. Busy(d) => /\ call[d].subject \notin OnRecord'
                   /\ ~call[d].approval => call[d].subject \notin decided'
    <3>1. CASE Busy(c)
      <4>1. Busy(d) => call[d].subject # call[c].subject
        BY <2>1, <3>1 DEF Sound
      <4> QED BY <1>2, <2>1, <4>1 DEF Sound
    <3>2. CASE ~Busy(c)
      BY <2>1, <3>2 DEF Sound, OnRecord
    <3> QED BY <3>1, <3>2
  <2>5. ASSUME Busy(d), NEW e \in Caller \ {d}, Busy(e)' PROVE call'[e].subject # call[d].subject
    <3>1. CASE e = c
      BY <1>1, <2>5, <3>1 DEF Busy
    <3>2. CASE e # c
      BY <1>1, <2>1, <2>5, <3>2 DEF Busy, Sound
    <3> QED BY <3>1, <3>2
  <2>6. Busy(d)' <=> Busy(d)
    BY <2>1 DEF Busy
  <2>7. LET p == call'[d] IN
        /\ DOMAIN p = Fields /\ p.approval \in BOOLEAN /\ p.wrote \in BOOLEAN
        /\ p.steps \in Stages(p.approval)
        /\ p.steps \in {S1, S2} => exclusive' = d
        /\ p.wrote /\ ~p.approval => p.steps \in {S1, S2, S3}
    BY <2>1, <2>2 DEF Sound
  <2>8. LET p == call'[d] IN
        IF p.steps = S1
        THEN \E e : /\ p.appended = <<e>> /\ e.sequence = Len(chain') + 1
                    /\ e.previous = Tip' /\ e.subject = p.subject
        ELSE p.appended = <<>>
    BY <2>1, <2>3 DEF Sound
  <2>9. LET p == call'[d] IN
        Busy(d)' =>
          /\ p.subject \notin OnRecord'
          /\ ~p.approval => p.subject \notin decided'
          /\ \A e \in Caller \ {d} : Busy(e)' => call'[e].subject # p.subject
    BY <2>1, <2>4, <2>5, <2>6
  <2> QED BY <2>7, <2>8, <2>9 DEF Sound
<1> QED BY <1>1, <1>3

\* A request that moves and neither commits nor rolls back anybody else.
LEMMA MoveKeeps ==
  ASSUME IInv, NEW c \in Caller, NEW q, call' = [call EXCEPT ![c] = q],
         UNCHANGED <<chain, decided>>,
         \A d \in Caller \ {c} : exclusive = d => exclusive' = d,
         DOMAIN q = Fields, q.approval \in BOOLEAN, q.wrote \in BOOLEAN,
         q.steps \in Stages(q.approval),
         q.steps \in {S1, S2} => exclusive' = c,
         IF q.steps = S1
         THEN \E e : /\ q.appended = <<e>> /\ e.sequence = Len(chain) + 1
                     /\ e.previous = Tip /\ e.subject = q.subject
         ELSE q.appended = <<>>,
         q.wrote /\ ~q.approval => q.steps \in {S1, S2, S3},
         q.steps # <<>> =>
           /\ q.subject \notin OnRecord /\ (~q.approval => q.subject \notin decided)
           /\ \A d \in Caller \ {c} : Busy(d) => call[d].subject # q.subject
  PROVE  IInv'
<1>1. /\ call' = [d \in Caller |-> call'[d]] /\ call'[c] = q
      /\ \A d \in Caller \ {c} : call'[d] = call[d] /\ Sound(d)'
  BY OthersStaySound
<1>2. IsChain' /\ OneChain' /\ OnRecord' = OnRecord /\ Tip' = Tip /\ chain' = chain
  BY DEF IInv, IsChain, OneChain, OnRecord, Tip
<1>3. Sound(c)'
  BY <1>1, <1>2 DEF Sound, Busy
<1> QED BY <1>1, <1>2, <1>3 DEF IInv

\* A request that goes on to its next step within a transaction.
LEMMA AfterFields ==
  ASSUME IInv, NEW c \in Caller, Busy(c)
  PROVE  /\ DOMAIN After(c) = Fields /\ After(c).steps = Tail(call[c].steps)
         /\ After(c).locks = call[c].locks /\ After(c).subject = call[c].subject
         /\ After(c).appended = call[c].appended /\ After(c).wrote = call[c].wrote
         /\ After(c).approval = call[c].approval
         /\ call[c].subject \notin OnRecord
         /\ ~call[c].approval => call[c].subject \notin decided
         /\ \A d \in Caller \ {c} : Busy(d) => call[d].subject # call[c].subject
<1>1. Sound(c)
  BY DEF IInv
<1>2. DOMAIN call[c] = Fields
  BY <1>1 DEF Sound
<1> QED BY <1>1, <1>2 DEF After, Fields, Sound

\* Which stage a request is at, by its next step.
LEMMA StageOf ==
  ASSUME IInv, NEW c \in Caller, Busy(c)
  PROVE  LET s == call[c].steps IN
         /\ Head(s) = "lock" =>
              (call[c].approval /\ s \in {T6, Approval}) \/ (~call[c].approval /\ s = Decision)
         /\ Head(s) = "write" => (call[c].approval /\ s = T5) \/ (~call[c].approval /\ s = S4)
         /\ Head(s) = "organization" => s = S3
         /\ Head(s) = "append" => s = S2
         /\ Head(s) = "commit" => s = S1 \/ (s = T4 /\ call[c].approval)
<1>1. call[c].steps # <<>> /\ call[c].steps \in Stages(call[c].approval) /\ call[c].approval \in BOOLEAN
  BY DEF IInv, Sound, Busy
<1> QED BY <1>1, StageSteps DEF Stages

LEMMA StageMembers ==
  /\ \A a \in BOOLEAN : {S1, S2, S3} \subseteq Stages(a)
  /\ {T4, T5, T6, Approval} \subseteq Stages(TRUE) /\ {<<>>, S4, Decision} \subseteq Stages(FALSE)
BY DEF Stages

\* Lengths tell the stages apart.
LEMMA StagesDiffer ==
  /\ S1 # S2 /\ S1 # S3 /\ S2 # S3
  /\ \A s \in {<<>>, S4, Decision, T4, T5, T6, Approval} : s \notin {S1, S2, S3}
BY StageSteps, ZenonT(60) DEF S4, T4

LEMMA StartKeeps ==
  ASSUME IInv, NEW c \in Caller, NEW steps, steps \in {Decision, Approval, Record}, NEW locks,
         Start(c, steps, locks)
  PROVE  IInv'
<1>1. PICK s \in Subject :
        /\ Fresh(s)
        /\ call' = [call EXCEPT ![c] = [Idle EXCEPT !.steps = steps, !.locks = locks, !.subject = s,
                                                     !.approval = (steps = Approval)]]
  BY DEF Start, Becomes
<1> DEFINE q == [Idle EXCEPT !.steps = steps, !.locks = locks, !.subject = s,
                             !.approval = (steps = Approval)]
<1>2. /\ DOMAIN q = Fields /\ q.steps = steps /\ q.subject = s /\ q.appended = <<>>
      /\ q.wrote = FALSE /\ q.approval = (steps = Approval)
  BY IdleFields DEF Fields
<1>3. UNCHANGED <<chain, decided, exclusive>>
  BY DEF Start
<1>4. s \notin OnRecord /\ s \notin decided /\ \A d \in Caller : call[d].subject # s
  BY <1>1 DEF Fresh, Subjects
<1>5. Record = S3
  BY DEF Record, S3
<1>6. steps \in Stages(steps = Approval) /\ steps \notin {S1, S2}
  BY <1>5, StageMembers, StagesDiffer, StageSteps
<1>7. call' = [call EXCEPT ![c] = q]
  BY <1>1
<1> HIDE DEF q
<1> QED BY <1>2, <1>3, <1>4, <1>6, <1>7, MoveKeeps

LEMMA LockKeeps ==
  ASSUME IInv, NEW c \in Caller, Lock(c)
  PROVE  IInv'
<1> DEFINE q == [After(c) EXCEPT !.locks = Tail(@)]
<1>1. Busy(c) /\ Head(call[c].steps) = "lock" /\ call' = [call EXCEPT ![c] = q]
      /\ UNCHANGED <<chain, decided, exclusive>>
  BY DEF Lock, Does, Becomes
<1>2. Sound(c)
  BY DEF IInv
<1>3. /\ DOMAIN q = Fields /\ q.steps = Tail(call[c].steps) /\ q.subject = call[c].subject
      /\ q.appended = call[c].appended /\ q.wrote = call[c].wrote /\ q.approval = call[c].approval
  BY <1>1, AfterFields DEF Fields
<1>4. /\ q.steps \in Stages(q.approval) /\ q.steps \notin {S1, S2, S3}
      /\ call[c].steps \notin {S1, S2, S3}
  <2>1. CASE call[c].approval /\ call[c].steps \in {T6, Approval}
    <3>1. q.steps \in {T5, T6} /\ q.approval = TRUE
      BY <1>2, <1>3, <2>1, StageSteps DEF Sound
    <3> QED BY <2>1, <3>1, StageMembers, StagesDiffer
  <2>2. CASE ~call[c].approval /\ call[c].steps = Decision
    <3>1. q.steps = S4 /\ q.approval = FALSE
      BY <1>2, <1>3, <2>2, StageSteps DEF Sound
    <3> QED BY <2>2, <3>1, StageMembers, StagesDiffer
  <2> QED BY <1>1, <2>1, <2>2, StageOf
<1>5. q.appended = <<>> /\ ~(q.wrote /\ ~q.approval) /\ q.approval \in BOOLEAN /\ q.wrote \in BOOLEAN
  BY <1>2, <1>3, <1>4 DEF Sound
<1>7. /\ q.subject \notin OnRecord /\ (~q.approval => q.subject \notin decided)
      /\ \A d \in Caller \ {c} : Busy(d) => call[d].subject # q.subject
  BY <1>1, <1>3, AfterFields
<1> HIDE DEF q
<1> QED BY <1>1, <1>3, <1>4, <1>5, <1>7, MoveKeeps

LEMMA WriteKeeps ==
  ASSUME IInv, NEW c \in Caller, Write(c)
  PROVE  IInv'
<1> DEFINE q == [After(c) EXCEPT !.wrote = TRUE]
<1>1. Busy(c) /\ Head(call[c].steps) = "write" /\ call' = [call EXCEPT ![c] = q]
      /\ UNCHANGED <<chain, decided, exclusive>>
  BY DEF Write, Does, Becomes
<1>2. Sound(c)
  BY DEF IInv
<1>3. /\ DOMAIN q = Fields /\ q.steps = Tail(call[c].steps) /\ q.subject = call[c].subject
      /\ q.appended = call[c].appended /\ q.wrote = TRUE /\ q.approval = call[c].approval
  BY <1>1, AfterFields DEF Fields
<1>4. \/ call[c].approval /\ call[c].steps = T5 /\ q.steps = T4
      \/ ~call[c].approval /\ call[c].steps = S4 /\ q.steps = S3
  BY <1>1, <1>3, StageOf, StageSteps, ZenonT(60)
<1>5. /\ call[c].steps # S1 /\ q.steps \notin {S1, S2} /\ q.steps \in Stages(q.approval)
      /\ ~q.approval => q.steps = S3
  BY <1>2, <1>3, <1>4, StageMembers, StagesDiffer DEF Sound
<1>6. q.appended = <<>> /\ q.approval \in BOOLEAN
  BY <1>2, <1>3, <1>5 DEF Sound
<1>7. /\ q.subject \notin OnRecord /\ (~q.approval => q.subject \notin decided)
      /\ \A d \in Caller \ {c} : Busy(d) => call[d].subject # q.subject
  BY <1>1, <1>3, AfterFields
<1>8. q.wrote \in BOOLEAN /\ (q.wrote /\ ~q.approval => q.steps \in {S1, S2, S3})
  BY <1>3, <1>5
<1> HIDE DEF q
<1> QED BY <1>1, <1>3, <1>5, <1>6, <1>7, <1>8, MoveKeeps

LEMMA LockOrganizationKeeps ==
  ASSUME IInv, NEW c \in Caller, LockOrganization(c)
  PROVE  IInv'
<1> DEFINE q == After(c)
<1>1. Busy(c) /\ Head(call[c].steps) = "organization" /\ call' = [call EXCEPT ![c] = q]
      /\ UNCHANGED <<chain, decided>> /\ exclusive' = c /\ exclusive \in {Nobody, c}
  BY DEF LockOrganization, Does, Becomes, FreeForUpdate
<1>2. Sound(c)
  BY DEF IInv
<1>3. call[c].steps = S3 /\ q.steps = S2
  BY <1>1, AfterFields, StageOf, StageSteps, ZenonT(60)
<1>4. /\ DOMAIN q = Fields /\ q.subject = call[c].subject
      /\ q.appended = <<>> /\ q.wrote = call[c].wrote /\ q.approval = call[c].approval
      /\ q.approval \in BOOLEAN /\ q.wrote \in BOOLEAN
  BY <1>1, <1>2, <1>3, AfterFields, StagesDiffer DEF Sound
<1>5. q.steps \in Stages(q.approval) /\ q.steps # S1
  BY <1>3, <1>4, StageMembers, StagesDiffer
<1>7. /\ q.subject \notin OnRecord /\ (~q.approval => q.subject \notin decided)
      /\ \A d \in Caller \ {c} : Busy(d) => call[d].subject # q.subject
  BY <1>1, <1>4, AfterFields
<1>8. \A d \in Caller \ {c} : exclusive = d => exclusive' = d
  BY <1>1, EvidenceNamesAssumption
<1> HIDE DEF q
<1> QED BY <1>1, <1>3, <1>4, <1>5, <1>7, <1>8, MoveKeeps

LEMMA AppendKeeps ==
  ASSUME IInv, NEW c \in Caller, AppendEvent(c)
  PROVE  IInv'
<1> DEFINE e == NextEvent(c)
           q == [After(c) EXCEPT !.appended = <<e>>]
<1>1. Busy(c) /\ Head(call[c].steps) = "append" /\ call' = [call EXCEPT ![c] = q]
      /\ UNCHANGED <<chain, decided, exclusive>>
  BY DEF AppendEvent, Does, Becomes
<1>2. Sound(c)
  BY DEF IInv
<1>3. e.sequence = Len(chain) + 1 /\ e.previous = Tip /\ e.subject = call[c].subject
  BY DEF NextEvent, Event, Tip
<1> HIDE DEF e
<1>4. /\ DOMAIN q = Fields /\ q.subject = call[c].subject /\ q.steps = Tail(call[c].steps)
      /\ q.appended = <<e>> /\ q.wrote = call[c].wrote /\ q.approval = call[c].approval
  BY <1>1, AfterFields DEF Fields
<1>5. call[c].steps = S2 /\ q.steps = S1
  BY <1>1, <1>4, StageOf, StageSteps
<1>6. q.steps \in Stages(q.approval) /\ q.approval \in BOOLEAN /\ q.wrote \in BOOLEAN /\ exclusive = c
  BY <1>2, <1>4, <1>5, StageMembers DEF Sound
<1>7. /\ q.subject \notin OnRecord /\ (~q.approval => q.subject \notin decided)
      /\ \A d \in Caller \ {c} : Busy(d) => call[d].subject # q.subject
  BY <1>1, <1>4, AfterFields
<1>8. \A d \in Caller \ {c} : exclusive = d => exclusive' = d
  BY <1>1
<1> HIDE DEF q
<1> QED BY <1>1, <1>3, <1>4, <1>5, <1>6, <1>7, <1>8, MoveKeeps

\* What a commit changes: the last one of a request puts its event on the chain,
\* the first one of an approval only its decision.
LEMMA CommitEffect ==
  ASSUME IInv, NEW c \in Caller, Commit(c)
  PROVE  /\ Busy(c)
         /\ decided' = IF call[c].wrote THEN decided \cup {call[c].subject} ELSE decided
         /\ \A d \in Caller \ {c} : exclusive = d => exclusive' = d
         /\ \/ /\ call[c].steps = S1 /\ exclusive = c /\ call' = [call EXCEPT ![c] = Idle]
               /\ \E e : /\ chain' = chain \o <<e>> /\ e.sequence = Len(chain) + 1
                         /\ e.previous = Tip /\ e.subject = call[c].subject
            \/ /\ call[c].steps = T4 /\ call[c].approval /\ chain' = chain
               /\ call' = [call EXCEPT ![c] = [After(c) EXCEPT !.wrote = FALSE]]
<1>1. Sound(c) /\ Busy(c) /\ Head(call[c].steps) = "commit"
  BY DEF Commit, Does, IInv
<1>2. call[c].steps = S1 \/ (call[c].steps = T4 /\ call[c].approval)
  BY <1>1, StageOf
<1>3. /\ chain' = chain \o call[c].appended
      /\ decided' = IF call[c].wrote THEN decided \cup {call[c].subject} ELSE decided
      /\ \A d \in Caller \ {c} : exclusive = d => exclusive' = d
      /\ call' = [call EXCEPT ![c] = IF Len(call[c].steps) = 1 THEN Idle
                                     ELSE [After(c) EXCEPT !.wrote = FALSE]]
  BY DEF Commit, Released, Becomes
<1>4. CASE call[c].steps = S1
  <2>1. PICK e : /\ call[c].appended = <<e>> /\ e.sequence = Len(chain) + 1
                 /\ e.previous = Tip /\ e.subject = call[c].subject
    BY <1>1, <1>4 DEF Sound
  <2>2. Len(call[c].steps) = 1 /\ exclusive = c
    BY <1>1, <1>4, StageSteps DEF Sound
  <2> QED BY <1>1, <1>3, <1>4, <2>1, <2>2
<1>5. CASE call[c].steps = T4 /\ call[c].approval
  <2>1. call[c].steps # S1
    BY <1>5, StagesDiffer
  <2>2. call[c].appended = <<>>
    BY <1>1, <2>1 DEF Sound
  <2>3. chain' = chain
    BY <1>3, <2>2, AppendsNothing DEF IInv
  <2>4. Len(call[c].steps) = 4
    BY <1>5, StageSteps
  <2> QED BY <1>1, <1>3, <1>5, <2>3, <2>4
<1> QED BY <1>2, <1>4, <1>5

\* An event that fits the tip makes the chain longer and leaves it one chain.
LEMMA ExtendsOneChain ==
  ASSUME IInv, NEW e, chain' = chain \o <<e>>, e.sequence = Len(chain) + 1, e.previous = Tip,
         e.subject \notin OnRecord
  PROVE  OneChain'
<1> DEFINE n == Len(chain) + 1
<1>1. /\ Len(chain) \in Nat /\ DOMAIN chain = 1..Len(chain) /\ DOMAIN chain' = 1..n
      /\ chain'[n] = e /\ \A k \in DOMAIN chain : chain'[k] = chain[k]
  BY Appends DEF IInv
<1>2. OneChain
  BY DEF IInv
<1>3. e.previous = IF n = 1 THEN Null ELSE chain'[n - 1].hash
  <2>1. CASE chain = <<>>
    BY <1>1, <2>1 DEF Tip
  <2>2. CASE chain # <<>>
    <3>1. Len(chain) # 0 /\ n # 1 /\ n - 1 \in DOMAIN chain
      BY <1>1, <2>2 DEF IInv, IsChain
    <3>2. e.previous = chain[Len(chain)].hash
      BY <2>2 DEF Tip, Last
    <3> QED BY <1>1, <3>1, <3>2
  <2> QED BY <2>1, <2>2
<1> SUFFICES ASSUME NEW k \in DOMAIN chain'
             PROVE  /\ chain'[k].sequence = k
                    /\ chain'[k].previous = IF k = 1 THEN Null ELSE chain'[k - 1].hash
                    /\ \A j \in DOMAIN chain' : chain'[j].subject = chain'[k].subject => j = k
  BY DEF OneChain
<1>4. \A j \in DOMAIN chain : chain'[j].subject # e.subject
  BY <1>1 DEF OnRecord
<1>5. CASE k = n
  BY <1>1, <1>3, <1>4, <1>5
<1>6. CASE k # n
  <2>1. k \in DOMAIN chain /\ (k # 1 => k - 1 \in DOMAIN chain) /\ k # n
    BY <1>1, <1>6
  <2>2. \A j \in DOMAIN chain : chain'[j].subject = chain'[k].subject => j = k
    BY <1>1, <1>2, <2>1 DEF OneChain
  <2>3. chain'[k].sequence = k /\ chain'[k].previous = IF k = 1 THEN Null ELSE chain'[k - 1].hash
    BY <1>1, <1>2, <2>1 DEF OneChain
  <2>4. chain'[n].subject # chain'[k].subject
    BY <1>1, <1>4, <2>1
  <2> QED BY <1>1, <2>2, <2>3, <2>4
<1> QED BY <1>5, <1>6

LEMMA IdleIsSound ==
  ASSUME NEW c \in Caller, call'[c] = Idle
  PROVE  Sound(c)'
BY IdleFields, StageMembers, StagesDiffer DEF Sound, Busy

LEMMA CommitKeeps ==
  ASSUME IInv, NEW c \in Caller, Commit(c)
  PROVE  IInv'
<1>1. /\ Busy(c)
      /\ decided' = IF call[c].wrote THEN decided \cup {call[c].subject} ELSE decided
      /\ \A d \in Caller \ {c} : exclusive = d => exclusive' = d
  BY CommitEffect
<1>2. Sound(c)
  BY DEF IInv
<1>3. CASE /\ call[c].steps = S1 /\ exclusive = c /\ call' = [call EXCEPT ![c] = Idle]
           /\ \E e : /\ chain' = chain \o <<e>> /\ e.sequence = Len(chain) + 1
                     /\ e.previous = Tip /\ e.subject = call[c].subject
  <2>1. PICK e : /\ chain' = chain \o <<e>> /\ e.sequence = Len(chain) + 1
                 /\ e.previous = Tip /\ e.subject = call[c].subject
    BY <1>3
  <2>2. /\ call' = [d \in Caller |-> call'[d]] /\ call'[c] = Idle
        /\ \A d \in Caller \ {c} : call'[d] = call[d] /\ Sound(d)'
    BY <1>1, <1>3, <2>1, IdleFields, OthersStaySound
  <2>3. OneChain' /\ IsChain'
    <3>1. e.subject \notin OnRecord
      BY <1>1, <1>2, <2>1 DEF Sound
    <3> QED BY <2>1, <3>1, ExtendsOneChain, Appends DEF IInv
  <2>4. Sound(c)'
    BY <2>2, IdleIsSound
  <2> QED BY <2>2, <2>3, <2>4 DEF IInv
<1>4. CASE /\ call[c].steps = T4 /\ call[c].approval /\ chain' = chain
           /\ call' = [call EXCEPT ![c] = [After(c) EXCEPT !.wrote = FALSE]]
  <2> DEFINE q == [After(c) EXCEPT !.wrote = FALSE]
  <2>1. /\ DOMAIN q = Fields /\ q.steps = Tail(call[c].steps) /\ q.subject = call[c].subject
        /\ q.appended = call[c].appended /\ q.wrote = FALSE /\ q.approval = call[c].approval
    BY <1>1, AfterFields DEF Fields
  <2>2. q.steps = S3 /\ call[c].steps # S1
    BY <1>4, <2>1, StageSteps, StagesDiffer
  <2>3. /\ q.subject \notin OnRecord
        /\ \A d \in Caller \ {c} : Busy(d) => call[d].subject # q.subject
    BY <1>1, <2>1, AfterFields
  <2>4. /\ q.appended = <<>> /\ q.approval = TRUE /\ q.steps \in Stages(q.approval)
        /\ q.steps \notin {S1, S2}
    BY <1>2, <1>4, <2>1, <2>2, StageMembers, StagesDiffer DEF Sound
  <2>5. call' = [call EXCEPT ![c] = q]
    BY <1>4
  <2> HIDE DEF q
  <2>6. /\ call' = [d \in Caller |-> call'[d]] /\ call'[c] = q
        /\ \A d \in Caller \ {c} : call'[d] = call[d] /\ Sound(d)'
    BY <1>1, <1>4, <2>3, <2>5, OthersStaySound
  <2>7. OneChain' /\ IsChain' /\ OnRecord' = OnRecord
    BY <1>4 DEF IInv, OneChain, IsChain, OnRecord
  <2>8. Sound(c)'
    BY <2>1, <2>2, <2>3, <2>4, <2>6, <2>7 DEF Sound, Busy
  <2> QED BY <2>6, <2>7, <2>8 DEF IInv
<1> QED BY <1>3, <1>4, CommitEffect

\* A transaction that rolls back leaves nothing behind.
LEMMA VanishKeeps ==
  ASSUME IInv, NEW c \in Caller, Vanish(c)
  PROVE  IInv'
<1>1. call' = [call EXCEPT ![c] = Idle] /\ UNCHANGED <<chain, decided>>
      /\ \A d \in Caller \ {c} : exclusive = d => exclusive' = d
  BY DEF Vanish, Becomes, Released
<1>2. Idle.steps \in Stages(Idle.approval) /\ Idle.steps \notin {S1, S2} /\ Idle.steps = <<>>
  BY IdleFields, StageMembers, StagesDiffer
<1> QED BY <1>1, <1>2, IdleFields, MoveKeeps

LEMMA CrashKeeps ==
  ASSUME IInv, Crash
  PROVE  IInv'
<1>1. call' = [c \in Caller |-> Idle] /\ chain' = chain
  BY DEF Crash
<1>2. \A c \in Caller : Sound(c)'
  BY <1>1, IdleIsSound
<1> QED BY <1>1, <1>2 DEF IInv, IsChain, OneChain

LEMMA IInvInit == Init => IInv
<1> SUFFICES ASSUME Init PROVE IInv
  OBVIOUS
<1>1. call = [c \in Caller |-> Idle]
  BY DEF Init
<1>2. \A c \in Caller : Sound(c)
  BY <1>1, IdleFields, StageMembers, StagesDiffer DEF Sound, Busy
<1>3. CASE chain = <<>>
  BY <1>1, <1>2, <1>3 DEF IInv, IsChain, OneChain
<1>4. CASE chain = <<Legacy(Event(1, 1, Null, 1))>>
  <2> DEFINE e == Legacy(Event(1, 1, Null, 1))
  <2>1. e.sequence = 1 /\ e.previous = Null
    BY DEF Legacy, Event
  <2> HIDE DEF e
  <2>2. chain = <<e>>
    BY <1>4 DEF e
  <2>3. chain \in Seq({e}) /\ DOMAIN chain = 1..1 /\ chain[1] = e
    BY <2>2
  <2>4. IsChain /\ OneChain
    BY <2>1, <2>3 DEF IsChain, OneChain
  <2> QED BY <1>1, <1>2, <2>4 DEF IInv
<1> QED BY <1>3, <1>4 DEF Init

LEMMA IInvStep == IInv /\ [Next]_vars => IInv'
<1> SUFFICES ASSUME IInv, [Next]_vars PROVE IInv'
  OBVIOUS
<1>1. ASSUME NEW c \in Caller, NEW m \in Mandate, StartDecision(c, m) PROVE IInv'
  BY <1>1, StartKeeps DEF StartDecision
<1>2. ASSUME NEW c \in Caller, NEW m \in Mandate, NEW n \in Mandate, StartApproval(c, m, n) PROVE IInv'
  BY <1>2, StartKeeps DEF StartApproval
<1>3. ASSUME NEW c \in Caller, StartRecord(c) PROVE IInv'
  BY <1>3, StartKeeps DEF StartRecord
<1>4. ASSUME NEW c \in Caller, Lock(c) PROVE IInv'
  BY <1>4, LockKeeps
<1>5. ASSUME NEW c \in Caller, Write(c) PROVE IInv'
  BY <1>5, WriteKeeps
<1>6. ASSUME NEW c \in Caller, LockOrganization(c) PROVE IInv'
  BY <1>6, LockOrganizationKeeps
<1>7. ASSUME NEW c \in Caller, AppendEvent(c) PROVE IInv'
  BY <1>7, AppendKeeps
<1>8. ASSUME NEW c \in Caller, Commit(c) PROVE IInv'
  BY <1>8, CommitKeeps
<1>9. ASSUME NEW c \in Caller, Fail(c) \/ AbortDeadlocked(c) PROVE IInv'
  BY <1>9, VanishKeeps DEF Fail, AbortDeadlocked
<1>10. CASE Crash
  BY <1>10, CrashKeeps
<1>11. CASE UNCHANGED vars
  BY <1>11 DEF vars, IInv, IsChain, OneChain, Sound, Busy, OnRecord, Tip
<1> QED BY <1>1, <1>2, <1>3, <1>4, <1>5, <1>6, <1>7, <1>8, <1>9, <1>10, <1>11 DEF Next

LEMMA Invariance == Spec => []IInv
<1>1. Init => IInv
  BY IInvInit
<1>2. IInv /\ [Next]_vars => IInv'
  BY IInvStep
<1> QED BY <1>1, <1>2, PTL DEF Spec

----------------------------------------------------------------------------
(* The theorems.                                                            *)

\* However many requests append at once, and whichever of them fail or are killed,
\* the chain is one line without a gap or a repetition (appendEvent).
THEOREM ChainIsOne == Spec => []OneChain
<1>1. IInv => OneChain
  BY DEF IInv
<1> QED BY <1>1, Invariance, PTL

\* The unique index on organization and sequence never turns an event away: the
\* tip that was read is the tip until the commit (D-15, D-16).
THEOREM NobodyIsTurnedAway == Spec => []TipIsHeld
<1>1. IInv => TipIsHeld
  <2> SUFFICES ASSUME IInv, NEW c \in Caller, NEW n \in DOMAIN call[c].appended
               PROVE  Accepted(call[c].appended[n])
    BY DEF TipIsHeld
  <2>1. Sound(c)
    BY DEF IInv
  <2>2. PICK e : call[c].appended = <<e>> /\ e.sequence = Len(chain) + 1
    <3>1. call[c].appended # <<>>
      OBVIOUS
    <3> QED BY <2>1, <3>1 DEF Sound
  <2>3. n = 1 /\ call[c].appended[n] = e
    BY <2>2
  <2> QED BY <2>2, <2>3 DEF Accepted
<1> QED BY <1>1, Invariance, PTL

\* A decision and its evidence event are committed together or not at all (D-76).
THEOREM DecisionsAreOnRecord == Spec => DecisionIsOnRecord
<1> DEFINE A == \A c \in Caller : call[c].wrote /\ ~call[c].approval =>
                  (call[c].subject \in decided' <=> call[c].subject \in OnRecord')
<1>1. IInv /\ [Next]_vars => A
  <2> SUFFICES ASSUME IInv, [Next]_vars, NEW c \in Caller, call[c].wrote, ~call[c].approval
               PROVE  call[c].subject \in decided' <=> call[c].subject \in OnRecord'
    OBVIOUS
  <2>1. Sound(c) /\ Busy(c)
    BY StageSteps DEF IInv, Sound, Busy
  <2>2. call[c].subject \notin OnRecord /\ call[c].subject \notin decided
        /\ \A d \in Caller \ {c} : Busy(d) => call[d].subject # call[c].subject
    BY <2>1 DEF Sound
  <2>3. CASE UNCHANGED <<chain, decided>>
    BY <2>2, <2>3 DEF OnRecord
  <2>4. ASSUME NEW d \in Caller, Commit(d)
        PROVE  call[c].subject \in decided' <=> call[c].subject \in OnRecord'
    <3>1. /\ Busy(d) /\ Sound(d)
          /\ decided' = IF call[d].wrote THEN decided \cup {call[d].subject} ELSE decided
      BY <2>4, CommitEffect DEF IInv
    <3>2. \/ \E e : chain' = chain \o <<e>> /\ e.subject = call[d].subject
          \/ call[d].approval /\ chain' = chain
      BY <2>4, CommitEffect
    <3>3. \/ OnRecord' = OnRecord \cup {call[d].subject}
          \/ call[d].approval /\ OnRecord' = OnRecord
      <4>1. ASSUME NEW e, chain' = chain \o <<e>>, e.subject = call[d].subject
            PROVE  OnRecord' = OnRecord \cup {call[d].subject}
        BY <4>1, OnRecordGrows DEF IInv
      <4>2. CASE call[d].approval /\ chain' = chain
        BY <4>2 DEF OnRecord
      <4> QED BY <3>2, <4>1, <4>2
    <3>4. CASE d = c
      BY <3>1, <3>3, <3>4
    <3>5. CASE d # c
      BY <2>2, <3>1, <3>3, <3>5
    <3> QED BY <3>4, <3>5
  <2>5. UNCHANGED <<chain, decided>> \/ \E d \in Caller : Commit(d)
    BY DEF Next, vars, StartDecision, StartApproval, StartRecord, Start, Lock, Write, LockOrganization,
           AppendEvent, Fail, AbortDeadlocked, Vanish, Crash
  <2> QED BY <2>3, <2>4, <2>5
<1>2. IInv /\ [Next]_vars => [A]_vars
  BY <1>1
<1> QED BY <1>2, Invariance, PTL DEF Spec, DecisionIsOnRecord

----------------------------------------------------------------------------
(* The verifier.                                                            *)

EventFields == {"sequence", "subject", "previous", "hash", "signature", "key_id"}

\* An event as appendEvent makes it, or as one was made before D-53: hashed over its
\* content and signed with a published key, which it names if it is not the first.
WellMade(e) ==
  /\ DOMAIN e = EventFields
  /\ e.hash = Hash(e.sequence, e.subject, e.previous)
  /\ \E k \in Key : /\ e.signature = signEventHash(k, e.hash)
                    /\ e.key_id = computeKeyId(k) \/ (k = 1 /\ e.key_id = Null)

Signed ==
  /\ key \in Key
  /\ \A k \in DOMAIN chain : WellMade(chain[k])
  /\ \A c \in Caller : \A n \in DOMAIN call[c].appended : WellMade(call[c].appended[n])

LEMMA MadeWell ==
  ASSUME NEW sequence, NEW subject, NEW previous, NEW k \in Key
  PROVE  WellMade(Event(sequence, subject, previous, k))
<1> DEFINE e == Event(sequence, subject, previous, k)
<1>1. /\ DOMAIN e = EventFields /\ e.hash = Hash(sequence, subject, previous)
      /\ e.sequence = sequence /\ e.subject = subject /\ e.previous = previous
      /\ e.signature = signEventHash(k, e.hash) /\ e.key_id = computeKeyId(k)
  BY DEF Event, EventFields
<1> HIDE DEF e
<1>2. WellMade(e)
  BY <1>1 DEF WellMade
<1> QED BY <1>2 DEF e

LEMMA FirstKey == 1 \in Key
BY EvidenceBoundsAssumption DEF Key

LEMMA SignedInit == Init => Signed
<1> SUFFICES ASSUME Init PROVE Signed
  OBVIOUS
<1>1. key \in Key /\ \A c \in Caller : call[c].appended = <<>>
  BY FirstKey, IdleFields DEF Init
<1>2. \A k \in DOMAIN chain : WellMade(chain[k])
  <2>1. CASE chain = <<>>
    BY <2>1
  <2>2. CASE chain = <<Legacy(Event(1, 1, Null, 1))>>
    <3> DEFINE f == Event(1, 1, Null, 1)
               e == Legacy(f)
    <3>1. /\ DOMAIN f = EventFields /\ f.hash = Hash(1, 1, Null)
          /\ f.sequence = 1 /\ f.subject = 1 /\ f.previous = Null
          /\ f.signature = signEventHash(1, f.hash)
      BY DEF Event, EventFields
    <3> HIDE DEF f
    <3>2. /\ DOMAIN e = EventFields /\ e.hash = f.hash /\ e.sequence = f.sequence
          /\ e.subject = f.subject /\ e.previous = f.previous
          /\ e.signature = f.signature /\ e.key_id = Null
      BY <3>1 DEF Legacy, EventFields
    <3> HIDE DEF e
    <3>3. WellMade(e)
      BY <3>1, <3>2, FirstKey DEF WellMade
    <3>4. \A k \in DOMAIN <<e>> : <<e>>[k] = e
      OBVIOUS
    <3> QED BY <2>2, <3>3, <3>4 DEF e, f
  <2> QED BY <2>1, <2>2 DEF Init
<1> QED BY <1>1, <1>2 DEF Signed

\* Every event is signed with the key the process has, and that is a published one.
LEMMA SignedStep ==
  ASSUME IInv, Signed, [Next]_vars
  PROVE  Signed'
<1> USE DEF IInv
<1>1. ASSUME NEW c \in Caller, NEW q, call' = [call EXCEPT ![c] = q], UNCHANGED <<chain, key>>,
             q.appended \in {<<>>, call[c].appended}
      PROVE  Signed'
  <2>1. /\ call'[c].appended \in {<<>>, call[c].appended}
        /\ \A d \in Caller \ {c} : call'[d] = call[d]
    BY <1>1
  <2> QED BY <1>1, <2>1 DEF Signed
<1>2. ASSUME NEW c \in Caller, Busy(c) PROVE After(c).appended = call[c].appended /\ DOMAIN After(c) = Fields
  BY <1>2, AfterFields
<1>3. ASSUME NEW c \in Caller, NEW steps, NEW locks, Start(c, steps, locks) PROVE Signed'
  <2>1. PICK s : Becomes(c, [Idle EXCEPT !.steps = steps, !.locks = locks, !.subject = s,
                                         !.approval = (steps = Approval)])
    BY <1>3 DEF Start
  <2> DEFINE q == [Idle EXCEPT !.steps = steps, !.locks = locks, !.subject = s,
                               !.approval = (steps = Approval)]
  <2>2. q.appended = <<>>
    BY IdleFields DEF Fields
  <2>3. call' = [call EXCEPT ![c] = q] /\ UNCHANGED <<chain, key>>
    BY <1>3, <2>1 DEF Becomes, Start
  <2> HIDE DEF q
  <2> QED BY <1>1, <2>2, <2>3
<1>4. ASSUME NEW c \in Caller, Lock(c) PROVE Signed'
  <2> DEFINE q == [After(c) EXCEPT !.locks = Tail(@)]
  <2>1. Busy(c) /\ call' = [call EXCEPT ![c] = q] /\ UNCHANGED <<chain, key>>
    BY <1>4 DEF Lock, Does, Becomes
  <2>2. q.appended = call[c].appended
    BY <1>2, <2>1 DEF Fields
  <2> HIDE DEF q
  <2> QED BY <1>1, <2>1, <2>2
<1>5. ASSUME NEW c \in Caller, Write(c) PROVE Signed'
  <2> DEFINE q == [After(c) EXCEPT !.wrote = TRUE]
  <2>1. Busy(c) /\ call' = [call EXCEPT ![c] = q] /\ UNCHANGED <<chain, key>>
    BY <1>5 DEF Write, Does, Becomes
  <2>2. q.appended = call[c].appended
    BY <1>2, <2>1 DEF Fields
  <2> HIDE DEF q
  <2> QED BY <1>1, <2>1, <2>2
<1>6. ASSUME NEW c \in Caller, LockOrganization(c) PROVE Signed'
  <2>1. Busy(c) /\ call' = [call EXCEPT ![c] = After(c)] /\ UNCHANGED <<chain, key>>
    BY <1>6 DEF LockOrganization, Does, Becomes
  <2> QED BY <1>1, <1>2, <2>1
<1>7. ASSUME NEW c \in Caller, AppendEvent(c) PROVE Signed'
  <2> DEFINE e == NextEvent(c)
             q == [After(c) EXCEPT !.appended = <<e>>]
  <2>1. Busy(c) /\ call' = [call EXCEPT ![c] = q] /\ UNCHANGED <<chain, key>>
    BY <1>7 DEF AppendEvent, Does, Becomes
  <2>2. WellMade(e)
    BY MadeWell DEF NextEvent, Signed
  <2> HIDE DEF e
  <2>3. q.appended = <<e>>
    BY <1>2, <2>1 DEF Fields
  <2> HIDE DEF q
  <2>4. call'[c].appended = <<e>> /\ \A d \in Caller \ {c} : call'[d] = call[d]
    BY <2>1, <2>3
  <2>5. \A n \in DOMAIN <<e>> : <<e>>[n] = e
    OBVIOUS
  <2> QED BY <2>1, <2>2, <2>4, <2>5 DEF Signed
<1>8. ASSUME NEW c \in Caller, Commit(c) PROVE Signed'
  <2>1. /\ Busy(c) /\ chain' = chain \o call[c].appended /\ key' = key /\ Sound(c)
        /\ call' = [call EXCEPT ![c] = IF Len(call[c].steps) = 1 THEN Idle
                                       ELSE [After(c) EXCEPT !.wrote = FALSE]]
    BY <1>8 DEF Commit, Does, Becomes
  <2>2. \A k \in DOMAIN chain' : WellMade(chain'[k])
    <3>1. CASE call[c].appended = <<>>
      <4>1. chain' = chain
        BY <2>1, <3>1, AppendsNothing
      <4> QED BY <4>1 DEF Signed
    <3>2. ASSUME NEW e, call[c].appended = <<e>> PROVE \A k \in DOMAIN chain' : WellMade(chain'[k])
      <4>1. WellMade(e)
        <5>1. 1 \in DOMAIN <<e>> /\ <<e>>[1] = e
          OBVIOUS
        <5> QED BY <3>2, <5>1 DEF Signed
      <4>2. /\ DOMAIN chain = 1..Len(chain) /\ DOMAIN chain' = 1..(Len(chain) + 1) /\ Len(chain) \in Nat
            /\ chain'[Len(chain) + 1] = e /\ \A k \in DOMAIN chain : chain'[k] = chain[k]
        BY <2>1, <3>2, Appends
      <4>3. \A k \in DOMAIN chain' : k = Len(chain) + 1 \/ k \in DOMAIN chain
        BY <4>2
      <4> QED BY <4>1, <4>2, <4>3 DEF Signed
    <3> QED BY <2>1, <3>1, <3>2 DEF Sound
  <2>3. call'[c].appended \in {<<>>, call[c].appended} /\ \A d \in Caller \ {c} : call'[d] = call[d]
    <3> DEFINE q == [After(c) EXCEPT !.wrote = FALSE]
    <3>1. q.appended = call[c].appended
      BY <1>2, <2>1 DEF Fields
    <3>2. call' = [call EXCEPT ![c] = IF Len(call[c].steps) = 1 THEN Idle ELSE q]
      BY <2>1
    <3> HIDE DEF q
    <3>3. call'[c] \in {Idle, q} /\ \A d \in Caller \ {c} : call'[d] = call[d]
      BY <3>2
    <3> QED BY <3>1, <3>3, IdleFields
  <2> QED BY <2>1, <2>2, <2>3 DEF Signed
<1>9. ASSUME NEW c \in Caller, Fail(c) \/ AbortDeadlocked(c) PROVE Signed'
  <2>1. call' = [call EXCEPT ![c] = Idle] /\ UNCHANGED <<chain, key>>
    BY <1>9 DEF Fail, AbortDeadlocked, Vanish, Becomes
  <2> QED BY <1>1, <2>1, IdleFields
<1>10. CASE Crash
  <2>1. key' \in Key /\ chain' = chain /\ \A c \in Caller : call'[c].appended = <<>>
    BY <1>10, IdleFields DEF Crash, Signed
  <2> QED BY <2>1 DEF Signed
<1>11. CASE UNCHANGED vars
  BY <1>11 DEF vars, Signed
<1> QED BY <1>3, <1>4, <1>5, <1>6, <1>7, <1>8, <1>9, <1>10, <1>11
        DEF Next, StartDecision, StartApproval, StartRecord

LEMMA EventsAreSigned == Spec => []Signed
<1>1. IInv /\ Signed /\ [Next]_vars => Signed'
  BY SignedStep
<1> QED BY <1>1, SignedInit, Invariance, PTL DEF Spec

\* The directory that is published names the key it is made of, and no other.
LEMMA DirectoryNames ==
  ASSUME NEW k \in Key, NEW directory, directory = loadEvidenceKeyDirectory({k})
  PROVE  DOMAIN directory = {computeKeyId(k)} /\ directory[computeKeyId(k)] = k /\ directory # Null
<1> HIDE DEF computeKeyId
<1>1. DOMAIN directory = {computeKeyId(k)}
  BY DEF loadEvidenceKeyDirectory
<1>2. directory[computeKeyId(k)] = k
  <2>1. directory[computeKeyId(k)] = CHOOSE j \in {k} : computeKeyId(j) = computeKeyId(k)
    BY DEF loadEvidenceKeyDirectory
  <2> QED BY <2>1
<1> QED BY <1>1, <1>2, EvidenceNullAssumption

LEMMA KeyIdsDiffer == \A j, k : computeKeyId(j) = computeKeyId(k) => j = k
BY DEF computeKeyId

\* Events that are linked and well made are accepted exactly if the current key
\* signed them all, whether they name it or not.
LEMMA LinkedIsVerified ==
  ASSUME Signed, NEW events, \A n \in DOMAIN events : WellMade(events[n]) /\ Links(events, n)
  PROVE  Verified(events) <=> \A n \in DOMAIN events : events[n].signature.key = key
<1> DEFINE directory == getKeyDirectory
<1>1. /\ key \in Key /\ key # Null /\ directory # Null
      /\ DOMAIN directory = {computeKeyId(key)} /\ directory[computeKeyId(key)] = key
  BY DirectoryNames, EvidenceNullAssumption DEF getKeyDirectory, Signed
<1> HIDE DEF directory
<1>2. ASSUME NEW n \in DOMAIN events
      PROVE  LET used == SigningKey(events[n], key, directory) IN
             used # Null /\ verifyEventSignature(used, events[n].hash, events[n].signature)
               <=> events[n].signature.key = key
  <2>1. PICK k \in Key : /\ events[n].signature = signEventHash(k, events[n].hash)
                         /\ events[n].key_id = computeKeyId(k) \/ (k = 1 /\ events[n].key_id = Null)
    BY DEF WellMade
  <2>2. k # Null /\ computeKeyId(k) # Null
    BY EvidenceNullAssumption
  <2>3. events[n].signature.key = k
    BY <2>1 DEF signEventHash
  <2>4. CASE k = key
    <3>1. SigningKey(events[n], key, directory) = key
      BY <1>1, <2>1, <2>2, <2>4 DEF SigningKey
    <3> QED BY <1>1, <2>1, <2>3, <2>4, <3>1 DEF verifyEventSignature
  <2>5. CASE k # key
    <3>1. SigningKey(events[n], key, directory) \in {key, Null}
      <4>1. computeKeyId(k) \notin DOMAIN directory
        BY <1>1, <2>5, KeyIdsDiffer
      <4> QED BY <2>1, <2>2, <4>1 DEF SigningKey
    <3>2. events[n].signature # signEventHash(key, events[n].hash)
      <4>1. signEventHash(key, events[n].hash).key = key
        BY DEF signEventHash
      <4> QED BY <2>3, <2>5, <4>1
    <3> QED BY <2>3, <2>5, <3>1, <3>2 DEF verifyEventSignature
  <2> QED BY <2>4, <2>5
<1>3. \A n \in DOMAIN events : events[n].hash = Hash(events[n].sequence, events[n].subject, events[n].previous)
  BY DEF WellMade
<1>4. Verified(events) <=>
        \A n \in DOMAIN events :
          LET used == SigningKey(events[n], key, directory) IN
          used # Null /\ verifyEventSignature(used, events[n].hash, events[n].signature)
  BY <1>1, <1>3 DEF Verified, Verify, getPublicKey, directory
<1> QED BY <1>2, <1>4

\* The events rewritten from k on satisfy the recursion that defines them.
RewrittenEvent(new, n, k, s) ==
  IF n < k THEN chain[n]
  ELSE Event(chain[n].sequence, IF n = k THEN s ELSE chain[n].subject,
             IF n = 1 THEN Null ELSE new[n - 1].hash, 0)

LEMMA RewrittenExists ==
  ASSUME IsChain, NEW k \in DOMAIN chain, NEW s
  PROVE  \E new : new = [n \in DOMAIN chain |-> RewrittenEvent(new, n, k, s)]
<1> DEFINE Is(new, m) == new = [n \in 1..m |-> RewrittenEvent(new, n, k, s)]
           S == {m \in Nat : m <= Len(chain) => \E new : Is(new, m)}
<1>1. Len(chain) \in Nat /\ DOMAIN chain = 1..Len(chain)
  BY DEF IsChain
<1>2. 0 \in S
  <2>1. Is([n \in 1..0 |-> 0], 0)
    OBVIOUS
  <2> QED BY <2>1
<1>3. ASSUME NEW m \in S PROVE m + 1 \in S
  <2>1. SUFFICES ASSUME m + 1 <= Len(chain) PROVE \E new : Is(new, m + 1)
    OBVIOUS
  <2>2. m \in Nat
    OBVIOUS
  <2>3. PICK old : Is(old, m)
    BY <1>1, <2>1, <2>2
  <2> DEFINE new == [n \in 1..(m + 1) |-> IF n = m + 1 THEN RewrittenEvent(old, n, k, s) ELSE old[n]]
  <2>4. ASSUME NEW n \in 1..(m + 1) PROVE new[n] = RewrittenEvent(new, n, k, s)
    <3>1. RewrittenEvent(new, n, k, s) = RewrittenEvent(old, n, k, s)
      <4>1. n # 1 => new[n - 1] = old[n - 1]
        BY <2>2
      <4> HIDE DEF new
      <4> QED BY <4>1 DEF RewrittenEvent
    <3>2. n # m + 1 => old[n] = RewrittenEvent(old, n, k, s)
      <4>1. n # m + 1 => n \in 1..m
        BY <2>2
      <4> QED BY <2>3, <4>1
    <3> QED BY <3>1, <3>2
  <2>5. new = [n \in 1..(m + 1) |-> new[n]]
    OBVIOUS
  <2> HIDE DEF new
  <2>6. new = [n \in 1..(m + 1) |-> RewrittenEvent(new, n, k, s)]
    BY <2>4, <2>5
  <2> QED BY <2>6
<1>4. S = Nat
  <2> HIDE DEF S
  <2> QED BY <1>2, <1>3, NatSetInduction DEF S
<1>5. Len(chain) \in S
  BY <1>1, <1>4
<1> QED BY <1>1, <1>5

LEMMA RewrittenDef ==
  ASSUME IsChain, NEW k \in DOMAIN chain, NEW s, NEW new, new = Rewritten(k, s)
  PROVE  /\ DOMAIN new = DOMAIN chain
         /\ \A n \in DOMAIN chain : new[n] = RewrittenEvent(new, n, k, s)
<1> DEFINE Body(f) == [n \in DOMAIN chain |-> RewrittenEvent(f, n, k, s)]
<1>1. PICK f : f = Body(f)
  BY RewrittenExists
<1>2. new = CHOOSE f2 : f2 = Body(f2)
  BY DEF Rewritten, RewrittenEvent
<1>3. new = Body(new)
  <2> HIDE DEF Body
  <2> QED BY <1>1, <1>2
<1> QED BY <1>3

\* What is known of an organization's chain whenever the verifier is run on it.
LEMMA ChainFacts ==
  ASSUME IInv, Signed
  PROVE  /\ Len(chain) \in Nat /\ DOMAIN chain = 1..Len(chain)
         /\ \A k \in DOMAIN chain :
              /\ chain[k].sequence = k /\ WellMade(chain[k])
              /\ k # 1 => k - 1 \in DOMAIN chain /\ chain[k].previous = chain[k - 1].hash
<1>1. Len(chain) \in Nat /\ DOMAIN chain = 1..Len(chain)
  BY DEF IInv, IsChain
<1>2. ASSUME NEW k \in DOMAIN chain
      PROVE  /\ chain[k].sequence = k /\ WellMade(chain[k])
             /\ k # 1 => k - 1 \in DOMAIN chain /\ chain[k].previous = chain[k - 1].hash
  <2>1. chain[k].sequence = k /\ (k # 1 => chain[k].previous = chain[k - 1].hash)
    BY DEF IInv, OneChain
  <2>2. k # 1 => k - 1 \in DOMAIN chain
    BY <1>1
  <2> QED BY <2>1, <2>2 DEF Signed
<1> QED BY <1>1, <1>2

\* A range of the chain is accepted exactly if the current key signed it all.
LEMMA RangeIsVerified ==
  ASSUME IInv, Signed, NEW first \in DOMAIN chain, NEW last \in DOMAIN chain
  PROVE  Verified(SubSeq(chain, first, last)) <=>
           \A k \in first..last : chain[k].signature.key = key
<1> DEFINE events == SubSeq(chain, first, last)
<1>1. first \in Nat /\ last \in Nat /\ 1 <= first /\ last <= Len(chain) /\ Len(chain) \in Nat
  BY ChainFacts
<1>2. PICK T : chain \in Seq(T)
  BY DEF IInv, IsChain
<1>3. events = [n \in 1..(last - first + 1) |-> chain[first + n - 1]]
  BY <1>1, <1>2, SMTT(30)
<1> HIDE DEF events
<1>4. ASSUME NEW n \in DOMAIN events PROVE WellMade(events[n]) /\ Links(events, n)
  <2>1. n \in 1..(last - first + 1) /\ 1 \in 1..(last - first + 1)
    BY <1>1, <1>3
  <2>2. events[n] = chain[first + n - 1] /\ events[1] = chain[first]
    BY <1>1, <1>3, <2>1
  <2>3. first + n - 1 \in DOMAIN chain
    BY <1>1, <2>1, ChainFacts
  <2>4. events[n].sequence = first + n - 1 /\ events[1].sequence = first /\ WellMade(events[n])
    BY <2>2, <2>3, ChainFacts
  <2>5. n > 1 => events[n].previous = events[n - 1].hash
    <3> SUFFICES ASSUME n > 1 PROVE events[n].previous = events[n - 1].hash
      OBVIOUS
    <3>1. n - 1 \in 1..(last - first + 1) /\ first + (n - 1) - 1 = (first + n - 1) - 1 /\ first + n - 1 # 1
      BY <1>1, <2>1, SMTT(30)
    <3>2. events[n - 1] = chain[(first + n - 1) - 1]
      BY <1>3, <3>1
    <3> QED BY <2>2, <2>3, <3>1, <3>2, ChainFacts
  <2>6. first + n - 1 = events[1].sequence + n - 1
    BY <2>4
  <2> QED BY <2>4, <2>5, <2>6 DEF Links
<1>5. Verified(events) <=> \A n \in DOMAIN events : events[n].signature.key = key
  BY <1>4, LinkedIsVerified
<1>6. (\A n \in DOMAIN events : events[n].signature.key = key) <=>
        \A k \in first..last : chain[k].signature.key = key
  <2>1. ASSUME NEW n \in DOMAIN events
        PROVE  first + n - 1 \in first..last /\ events[n] = chain[first + n - 1]
    BY <1>1, <1>3
  <2>2. ASSUME NEW k \in first..last
        PROVE  k - first + 1 \in DOMAIN events /\ events[k - first + 1] = chain[k]
    <3>1. k - first + 1 \in 1..(last - first + 1) /\ first + (k - first + 1) - 1 = k
      BY <1>1
    <3> QED BY <1>3, <3>1
  <2> QED BY <2>1, <2>2
<1> QED BY <1>5, <1>6 DEF events

\* What is not linked is not accepted, by the hashes alone or with the keys.
LEMMA UnlinkedIsRefused ==
  ASSUME NEW events, NEW publicKey, NEW directory, NEW n \in DOMAIN events, ~Links(events, n)
  PROVE  ~Verify(events, publicKey, directory)
BY DEF Verify

\* A chain with an event missing from its middle is refused.
LEMMA GapIsRefused ==
  ASSUME IInv, Signed, NEW k \in 2..(Len(chain) - 1)
  PROVE  ~Verified(RemoveAt(chain, k))
<1> DEFINE events == RemoveAt(chain, k)
<1>1. PICK T : chain \in Seq(T)
  BY DEF IInv, IsChain
<1>2. Len(chain) \in Nat /\ k \in Nat /\ 2 <= k /\ k < Len(chain)
  BY ChainFacts
<1>3. /\ SubSeq(chain, 1, k - 1) \in Seq(T) /\ Len(SubSeq(chain, 1, k - 1)) = k - 1
      /\ \A n \in 1..(k - 1) : SubSeq(chain, 1, k - 1)[n] = chain[n]
  BY <1>1, <1>2
<1>4. /\ SubSeq(chain, k + 1, Len(chain)) \in Seq(T)
      /\ Len(SubSeq(chain, k + 1, Len(chain))) = Len(chain) - k
      /\ SubSeq(chain, k + 1, Len(chain))[1] = chain[k + 1]
  BY <1>1, <1>2
<1>5. events = SubSeq(chain, 1, k - 1) \o SubSeq(chain, k + 1, Len(chain))
  BY DEF RemoveAt
<1>6. k \in DOMAIN events /\ events[1] = chain[1] /\ events[k] = chain[k + 1]
  <2> DEFINE a == SubSeq(chain, 1, k - 1)
             b == SubSeq(chain, k + 1, Len(chain))
  <2>1. a \in Seq(T) /\ b \in Seq(T) /\ Len(a) = k - 1 /\ Len(b) = Len(chain) - k
        /\ a[1] = chain[1] /\ b[1] = chain[k + 1] /\ events = a \o b
    BY <1>2, <1>3, <1>4, <1>5
  <2> HIDE DEF a, b, events
  <2> QED BY <1>2, <2>1
<1>7. 1 \in DOMAIN chain /\ k + 1 \in DOMAIN chain
  BY <1>2, ChainFacts
<1>8. events[1].sequence = 1 /\ events[k].sequence = k + 1
  BY <1>6, <1>7, ChainFacts
<1>9. ~Links(events, k)
  <2>1. k + 1 # 1 + k - 1
    BY <1>2
  <2> QED BY <1>8, <2>1 DEF Links
<1> QED BY <1>6, <1>9, UnlinkedIsRefused DEF Verified

\* A chain with an event changed and not hashed anew is refused by the hashes alone,
\* and so is one where only that event is, unless it is the last.
LEMMA ChangeIsRefused ==
  ASSUME IInv, Signed, NEW k \in DOMAIN chain, NEW s, s # chain[k].subject
  PROVE  /\ ~Verify([chain EXCEPT ![k].subject = s], Null, Null)
         /\ k < Len(chain) => ~Verify(Rehashed(k, s), Null, Null)
<1>1. WellMade(chain[k])
  BY ChainFacts
<1>2. ~Verify([chain EXCEPT ![k].subject = s], Null, Null)
  <2> DEFINE e == [chain[k] EXCEPT !.subject = s]
             events == [chain EXCEPT ![k] = e]
  <2>1. e.subject = s /\ e.hash = chain[k].hash /\ e.sequence = chain[k].sequence
        /\ e.previous = chain[k].previous
    BY <1>1 DEF WellMade, EventFields
  <2>2. events = [chain EXCEPT ![k].subject = s]
    OBVIOUS
  <2> HIDE DEF e
  <2>3. k \in DOMAIN events /\ events[k] = e
    OBVIOUS
  <2> HIDE DEF events
  <2>4. e.hash # Hash(e.sequence, e.subject, e.previous)
    BY <1>1, <2>1 DEF WellMade, Hash
  <2>5. ~Verify(events, Null, Null)
    BY <2>3, <2>4 DEF Verify
  <2> QED BY <2>2, <2>5
<1>3. ASSUME k < Len(chain) PROVE ~Verify(Rehashed(k, s), Null, Null)
  <2> DEFINE e == Event(chain[k].sequence, s, chain[k].previous, 0)
             events == [chain EXCEPT ![k] = e]
  <2>1. e.hash = Hash(chain[k].sequence, s, chain[k].previous)
    BY DEF Event
  <2> HIDE DEF e
  <2>2. k + 1 \in DOMAIN chain /\ k + 1 # k /\ k + 1 # 1 /\ (k + 1) - 1 = k /\ k + 1 > 1
    BY <1>3, ChainFacts
  <2>3. k + 1 \in DOMAIN events /\ events[k + 1] = chain[k + 1] /\ events[k] = e
    BY <2>2
  <2>4. events = Rehashed(k, s)
    BY DEF Rehashed, e
  <2> HIDE DEF events
  <2>5. chain[k + 1].previous = chain[k].hash
    BY <2>2, ChainFacts
  <2>6. chain[k].hash # e.hash
    BY <1>1, <2>1 DEF WellMade, Hash
  <2>7. events[k + 1].previous # events[(k + 1) - 1].hash
    BY <2>2, <2>3, <2>5, <2>6
  <2>8. ~Links(events, k + 1)
    BY <2>2, <2>7 DEF Links
  <2> QED BY <2>3, <2>4, <2>8, UnlinkedIsRefused
<1> QED BY <1>2, <1>3

\* A history rewritten to its end, and signed with a key that nobody published, is
\* accepted by its hashes and refused with what is published.
LEMMA RewriteIsRefused ==
  ASSUME IInv, Signed, NEW k \in DOMAIN chain, NEW s
  PROVE  Verify(Rewritten(k, s), Null, Null) /\ ~Verified(Rewritten(k, s))
<1> DEFINE events == Rewritten(k, s)
<1>1. IsChain /\ Len(chain) \in Nat /\ DOMAIN chain = 1..Len(chain) /\ 1 \in DOMAIN chain
  BY ChainFacts DEF IInv
<1>2. /\ DOMAIN events = DOMAIN chain
      /\ \A n \in DOMAIN chain : events[n] = RewrittenEvent(events, n, k, s)
  BY <1>1, RewrittenDef
<1> HIDE DEF events
<1>3. ASSUME NEW n \in DOMAIN chain
      PROVE  /\ events[n].sequence = n
             /\ events[n].hash = Hash(events[n].sequence, events[n].subject, events[n].previous)
             /\ n # 1 => events[n].previous = events[n - 1].hash
  <2>1. chain[n].sequence = n /\ WellMade(chain[n])
        /\ (n # 1 => n - 1 \in DOMAIN chain /\ chain[n].previous = chain[n - 1].hash)
    BY ChainFacts
  <2>2. CASE n < k
    <3>1. events[n] = chain[n]
      BY <1>2, <2>2 DEF RewrittenEvent
    <3>2. n # 1 => events[n - 1] = chain[n - 1]
      <4>1. n # 1 => n - 1 < k
        BY <1>1, <2>2
      <4> QED BY <1>2, <2>1, <4>1 DEF RewrittenEvent
    <3> QED BY <2>1, <3>1, <3>2 DEF WellMade
  <2>3. CASE ~(n < k)
    <3> DEFINE subject == IF n = k THEN s ELSE chain[n].subject
               previous == IF n = 1 THEN Null ELSE events[n - 1].hash
    <3>1. events[n] = Event(n, subject, previous, 0)
      BY <1>2, <2>1, <2>3 DEF RewrittenEvent
    <3> HIDE DEF subject, previous
    <3>2. /\ events[n].sequence = n /\ events[n].subject = subject /\ events[n].previous = previous
          /\ events[n].hash = Hash(n, subject, previous)
      BY <3>1 DEF Event
    <3> QED BY <3>2 DEF previous
  <2> QED BY <2>2, <2>3
<1>4. Verify(events, Null, Null)
  <2> SUFFICES ASSUME NEW n \in DOMAIN events
               PROVE  Links(events, n) /\ events[n].hash = Hash(events[n].sequence, events[n].subject, events[n].previous)
    BY DEF Verify
  <2>1. events[n].sequence = n /\ events[1].sequence = 1 /\ n = 1 + n - 1 /\ (n > 1 => n # 1)
    BY <1>1, <1>2, <1>3
  <2> QED BY <1>2, <1>3, <2>1 DEF Links
<1>5. ~Verified(events)
  <2> DEFINE directory == getKeyDirectory
             e == events[k]
  <2>1. /\ key \in Key /\ key # 0 /\ key # Null /\ directory # Null
        /\ DOMAIN directory = {computeKeyId(key)}
    BY DirectoryNames, EvidenceNullAssumption DEF getKeyDirectory, Signed, Key
  <2> HIDE DEF directory
  <2>2. e.key_id = computeKeyId(0) /\ e.signature = signEventHash(0, e.hash)
    <3>1. ~(k < k)
      BY <1>1
    <3>2. e = Event(chain[k].sequence, IF k = k THEN s ELSE chain[k].subject,
                    IF k = 1 THEN Null ELSE events[k - 1].hash, 0)
      BY <1>2, <3>1 DEF RewrittenEvent
    <3> QED BY <3>2 DEF Event
  <2> HIDE DEF e
  <2>3. SigningKey(e, key, directory) \in {key, Null}
    BY <2>1, <2>2, KeyIdsDiffer DEF SigningKey
  <2>4. e.signature # signEventHash(key, e.hash)
    <3>1. signEventHash(0, e.hash).key = 0 /\ signEventHash(key, e.hash).key = key
      BY DEF signEventHash
    <3> QED BY <2>1, <2>2, <3>1
  <2>5. ~(SigningKey(e, key, directory) # Null
            /\ verifyEventSignature(SigningKey(e, key, directory), e.hash, e.signature))
    BY <2>3, <2>4 DEF verifyEventSignature
  <2>6. k \in DOMAIN events
    BY <1>2
  <2> QED BY <2>1, <2>5, <2>6 DEF Verified, Verify, getPublicKey, directory, e
<1> QED BY <1>4, <1>5 DEF events

\* Two events that changed places are refused.
LEMMA SwapIsRefused ==
  ASSUME IInv, Signed, NEW j \in DOMAIN chain, NEW k \in DOMAIN chain, j < k
  PROVE  ~Verified([chain EXCEPT ![j] = chain[k], ![k] = chain[j]])
<1> DEFINE events == [chain EXCEPT ![j] = chain[k], ![k] = chain[j]]
<1>1. Len(chain) \in Nat /\ DOMAIN chain = 1..Len(chain)
  BY ChainFacts
<1>2. /\ DOMAIN events = DOMAIN chain /\ events[j] = chain[k] /\ events[k] = chain[j]
      /\ \A n \in DOMAIN chain \ {j, k} : events[n] = chain[n]
  BY <1>1
<1>3. chain[j].sequence = j /\ chain[k].sequence = k
  BY ChainFacts
<1> HIDE DEF events
<1>4. CASE j = 1
  <2>1. events[1].sequence = k /\ events[k].sequence = j
    BY <1>2, <1>3, <1>4
  <2>2. j # k + k - 1
    BY <1>1, <1>4
  <2>3. ~Links(events, k)
    BY <2>1, <2>2 DEF Links
  <2> QED BY <1>2, <2>3, UnlinkedIsRefused DEF Verified, events
<1>5. CASE j # 1
  <2>1. 1 \in DOMAIN chain \ {j, k}
    BY <1>1, <1>5
  <2>2. events[1].sequence = 1 /\ events[j].sequence = k
    BY <1>2, <1>3, <2>1, ChainFacts
  <2>3. k # 1 + j - 1
    BY <1>1
  <2>4. ~Links(events, j)
    BY <2>2, <2>3 DEF Links
  <2> QED BY <1>2, <2>4, UnlinkedIsRefused DEF Verified, events
<1> QED BY <1>4, <1>5

\* With what the service publishes the verifier accepts a range exactly if the
\* current key signed it all, and refuses a chain with an event missing, changed or
\* moved, or its history rewritten, whichever keys signed it and however long it is
\* (verifyEvidenceChain, verifyEvidenceIndependently; getKeyDirectory; D-26).
THEOREM VerifierExact == Spec => []VerifierIsExact
<1>1. IInv /\ Signed => VerifierIsExact
  <2> SUFFICES ASSUME IInv, Signed PROVE VerifierIsExact
    OBVIOUS
  <2>1. \A first, last \in DOMAIN chain :
          Verified(SubSeq(chain, first, last)) <=> \A k \in first..last : chain[k].signature.key = key
    BY RangeIsVerified
  <2>2. \A k \in 2..(Len(chain) - 1) : ~Verified(RemoveAt(chain, k))
    BY GapIsRefused
  <2>3. ASSUME NEW k \in DOMAIN chain, NEW s \in Subject \ {chain[k].subject}
        PROVE  /\ ~Verify([chain EXCEPT ![k].subject = s], Null, Null)
               /\ k < Len(chain) => ~Verify(Rehashed(k, s), Null, Null)
               /\ Verify(Rewritten(k, s), Null, Null) /\ ~Verified(Rewritten(k, s))
    <3>1. s # chain[k].subject
      OBVIOUS
    <3>2. /\ ~Verify([chain EXCEPT ![k].subject = s], Null, Null)
          /\ k < Len(chain) => ~Verify(Rehashed(k, s), Null, Null)
      BY <3>1, ChangeIsRefused
    <3>3. Verify(Rewritten(k, s), Null, Null) /\ ~Verified(Rewritten(k, s))
      BY RewriteIsRefused
    <3> QED BY <3>2, <3>3
  <2>4. \A j, k \in DOMAIN chain : j < k => ~Verified([chain EXCEPT ![j] = chain[k], ![k] = chain[j]])
    BY SwapIsRefused
  <2> QED BY <2>1, <2>2, <2>3, <2>4 DEF VerifierIsExact
<1> QED BY <1>1, Invariance, EventsAreSigned, PTL

=============================================================================
