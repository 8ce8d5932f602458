---------------------- MODULE ExecutionCommitmentProofs ---------------------
(***************************************************************************)
(* What the commit-reveal registry guarantees for any number of            *)
(* invocations, nodes, outputs and salts and for any clock.                *)
(***************************************************************************)
EXTENDS ExecutionCommitment, TLAPS

(***************************************************************************)
(* The strengthening.  The status of an invocation says exactly how far    *)
(* its two slots have got, and what has been revealed was bound before.    *)
(***************************************************************************)
Fresh(i) == status[i] = "NONE" => revealed[i] = {} /\ \A r \in Roles : digest[i][r] = ZeroDigest

Staffed(i) == status[i] # "NONE" =>
    /\ node[i]["EXECUTOR"] # node[i]["CROSS_VERIFIER"]
    /\ commitDeadline[i] < revealDeadline[i]

SlotOpen(i) == status[i] \in Committing =>
    revealed[i] = {} /\ \E r \in Roles : digest[i][r] = ZeroDigest

BothBound(i) == status[i] \in Revealing =>
    revealed[i] # Roles /\ \A r \in Roles : digest[i][r] # ZeroDigest

Opened(i) == \A r \in revealed[i] :
    output[i][r] \in Outputs /\ Opens(i, r, output[i][r])

Agreed(i) == status[i] = "VERIFIED" =>
    revealed[i] = Roles /\ output[i]["EXECUTOR"] = output[i]["CROSS_VERIFIER"]

Cause(i) == status[i] = "ESCALATED" =>
    \/ /\ \E r \in Roles : digest[i][r] = ZeroDigest
       /\ now >= commitDeadline[i]
    \/ revealed[i] # Roles /\ now >= revealDeadline[i]
    \/ /\ revealed[i] = Roles
       /\ output[i]["EXECUTOR"] # output[i]["CROSS_VERIFIER"]

Progress(i) == /\ Fresh(i)
               /\ Staffed(i)
               /\ SlotOpen(i)
               /\ BothBound(i)
               /\ Opened(i)
               /\ Agreed(i)
               /\ Cause(i)

IInv == TypeOK /\ \A i \in Invocations : Progress(i)

-----------------------------------------------------------------------------

LEMMA InitIInv == Init => IInv
<1> SUFFICES ASSUME Init PROVE IInv
  OBVIOUS
<1>1. TypeOK
  BY DEF Init, TypeOK, Statuses, Digests
<1>2. ASSUME NEW i \in Invocations PROVE Progress(i)
  BY DEF Init, Progress, Fresh, Staffed, SlotOpen, BothBound, Opened, Agreed,
         Cause, Committing, Revealing
<1> QED
  BY <1>1, <1>2 DEF IInv

\* Every step keeps the types of the variables.
LEMMA NextTypeOK == TypeOK /\ [Next]_vars => TypeOK'
<1> SUFFICES ASSUME TypeOK, [Next]_vars PROVE TypeOK'
  OBVIOUS
<1> USE DEF TypeOK
<1>1. ASSUME NEW d \in Dispatchers, SetDispatcher(d) PROVE TypeOK'
  BY <1>1 DEF SetDispatcher
<1>2. ASSUME NEW i \in Invocations, NEW caller \in Dispatchers,
             NEW e \in Nodes, NEW v \in Nodes,
             NEW cd \in 1..MaxTime, NEW rd \in 1..MaxTime,
             dispatch(i, caller, e, v, cd, rd)
      PROVE TypeOK'
  <2>1. status' \in [Invocations -> Statuses]
    BY <1>2 DEF dispatch, Statuses
  <2>2. node' \in [Invocations -> [Roles -> Nodes \cup {ZeroAddress}]]
    BY <1>2 DEF dispatch
  <2>3. /\ commitDeadline' \in [Invocations -> Nat]
        /\ revealDeadline' \in [Invocations -> Nat]
    BY <1>2, MaxTimeAssumption DEF dispatch
  <2> QED
    BY <1>2, <2>1, <2>2, <2>3 DEF dispatch
<1>3. ASSUME NEW i \in Invocations, NEW r \in Roles, NEW n \in Nodes,
             NEW d \in Digests, commit(i, r, n, d)
      PROVE TypeOK'
  <2>1. status' \in [Invocations -> Statuses]
    BY <1>3 DEF commit, Statuses
  <2>2. digest' \in [Invocations -> [Roles -> Digests]]
    BY <1>3 DEF commit
  <2> QED
    BY <1>3, <2>1, <2>2 DEF commit
<1>4. ASSUME NEW i \in Invocations, NEW r \in Roles, NEW n \in Nodes,
             NEW o \in Outputs, NEW s \in Salts, reveal(i, r, n, o, s)
      PROVE TypeOK'
  <2>1. status' \in [Invocations -> Statuses]
    BY <1>4 DEF reveal, StatusAfterReveal, Statuses
  <2>2. output' \in [Invocations -> [Roles -> Outputs \cup {ZeroHandle}]]
    BY <1>4 DEF reveal
  <2>3. revealed' \in [Invocations -> SUBSET Roles]
    BY <1>4 DEF reveal
  <2> QED
    BY <1>4, <2>1, <2>2, <2>3 DEF reveal
<1>5. ASSUME NEW i \in Invocations, markCommitTimeout(i) PROVE TypeOK'
  BY <1>5 DEF markCommitTimeout, Statuses
<1>6. ASSUME NEW i \in Invocations, markRevealTimeout(i) PROVE TypeOK'
  BY <1>6 DEF markRevealTimeout, Statuses
<1>7. ASSUME Tick PROVE TypeOK'
  BY <1>7 DEF Tick
<1>8. CASE UNCHANGED vars
  BY <1>8 DEF vars
<1> QED
  BY <1>1, <1>2, <1>3, <1>4, <1>5, <1>6, <1>7, <1>8 DEF Next, Call

-----------------------------------------------------------------------------
\* A step that leaves everything about j alone, except perhaps the time,
\* keeps what is known of j.
LEMMA Untouched ==
    ASSUME TypeOK, TypeOK', NEW j \in Invocations, Progress(j), now' >= now,
           status'[j] = status[j], node'[j] = node[j],
           commitDeadline'[j] = commitDeadline[j],
           revealDeadline'[j] = revealDeadline[j], digest'[j] = digest[j],
           output'[j] = output[j], revealed'[j] = revealed[j]
    PROVE  Progress(j)'
<1>1. Fresh(j)' /\ Staffed(j)' /\ SlotOpen(j)' /\ BothBound(j)' /\ Agreed(j)'
  BY DEF Progress, Fresh, Staffed, SlotOpen, BothBound, Agreed
<1>2. Opened(j)'
  BY DEF Progress, Opened, Opens
<1>3. Cause(j)'
  <2>1. /\ now >= commitDeadline[j] => now' >= commitDeadline'[j]
        /\ now >= revealDeadline[j] => now' >= revealDeadline'[j]
    BY DEF TypeOK
  <2> QED
    BY <2>1 DEF Progress, Cause
<1> QED
  BY <1>1, <1>2, <1>3 DEF Progress

LEMMA DispatchProgress ==
    ASSUME IInv, TypeOK', NEW i \in Invocations, NEW caller \in Dispatchers,
           NEW e \in Nodes, NEW v \in Nodes,
           NEW cd \in 1..MaxTime, NEW rd \in 1..MaxTime,
           dispatch(i, caller, e, v, cd, rd), NEW j \in Invocations
    PROVE  Progress(j)'
<1> USE DEF IInv
<1>1. CASE j # i
  BY <1>1, Untouched DEF dispatch, TypeOK
<1>2. CASE j = i
  <2>1. /\ status'[i] = "DISPATCHED"
        /\ digest'[i] = digest[i] /\ revealed'[i] = {}
        /\ \A r \in Roles : digest[i][r] = ZeroDigest
    BY DEF dispatch, TypeOK, Progress, Fresh
  <2>2. Staffed(i)'
    BY DEF dispatch, TypeOK, Staffed, Roles
  <2> QED
    BY <1>2, <2>1, <2>2 DEF Progress, Fresh, SlotOpen, BothBound, Opened,
          Agreed, Cause, Committing, Revealing, Roles
<1> QED
  BY <1>1, <1>2

LEMMA CommitProgress ==
    ASSUME IInv, TypeOK', NEW i \in Invocations, NEW r \in Roles,
           NEW n \in Nodes, NEW d \in Digests, commit(i, r, n, d),
           NEW j \in Invocations
    PROVE  Progress(j)'
<1> USE DEF IInv
<1>1. CASE j # i
  BY <1>1, Untouched DEF commit, TypeOK
<1>2. CASE j = i
  <2>1. revealed[i] = {} /\ revealed'[i] = {}
    BY DEF commit, TypeOK, Progress, SlotOpen
  <2>2. \/ /\ status'[i] = "BOTH_COMMITTED"
           /\ \A q \in Roles : digest'[i][q] # ZeroDigest
        \/ /\ status'[i] = "PARTIAL_COMMIT"
           /\ \E q \in Roles : digest'[i][q] = ZeroDigest
    BY DEF commit, TypeOK
  <2>3. Staffed(i)'
    BY DEF commit, TypeOK, Progress, Staffed, Committing
  <2> QED
    BY <1>2, <2>1, <2>2, <2>3 DEF Progress, Fresh, SlotOpen, BothBound,
          Opened, Agreed, Cause, Committing, Revealing, Roles
<1> QED
  BY <1>1, <1>2

LEMMA RevealProgress ==
    ASSUME IInv, TypeOK', NEW i \in Invocations, NEW r \in Roles,
           NEW n \in Nodes, NEW o \in Outputs, NEW s \in Salts,
           reveal(i, r, n, o, s), NEW j \in Invocations
    PROVE  Progress(j)'
<1> USE DEF IInv
<1>1. CASE j # i
  BY <1>1, Untouched DEF reveal, TypeOK
<1>2. CASE j = i
  <2>1. /\ revealed'[i] = revealed[i] \cup {r}
        /\ output'[i] = [output[i] EXCEPT ![r] = o]
        /\ digest'[i] = digest[i] /\ node'[i] = node[i]
        /\ status'[i] = StatusAfterReveal(revealed'[i], output'[i])
    BY DEF reveal, TypeOK
  <2>2. /\ Opens(i, r, o)
        /\ \A q \in Roles : digest[i][q] # ZeroDigest
    BY DEF reveal, Opens, Progress, BothBound
  <2>3. Opened(i)'
    <3> SUFFICES ASSUME NEW q \in revealed'[i]
                 PROVE  output'[i][q] \in Outputs /\ Opens(i, q, output[i][q])'
      BY DEF Opened
    <3>1. CASE q = r
      BY <2>1, <2>2, <3>1 DEF Opens, TypeOK
    <3>2. CASE q # r
      <4>1. /\ q \in revealed[i] /\ Opens(i, q, output[i][q])
            /\ output[i][q] \in Outputs
        BY <2>1, <3>2 DEF Progress, Opened
      <4>2. output'[i][q] = output[i][q]
        BY <2>1, <3>2, <4>1 DEF TypeOK
      <4> QED
        BY <2>1, <4>1, <4>2 DEF Opens
    <3> QED
      BY <3>1, <3>2
  <2>4. Staffed(i)'
    BY <2>1 DEF reveal, Progress, Staffed, Revealing
  <2>5. /\ status'[i] \in {"PARTIAL_REVEAL", "VERIFIED", "ESCALATED"}
        /\ status'[i] = "PARTIAL_REVEAL" => revealed'[i] # Roles
        /\ status'[i] = "VERIFIED" => /\ revealed'[i] = Roles
                                      /\ output'[i]["EXECUTOR"] = output'[i]["CROSS_VERIFIER"]
        /\ status'[i] = "ESCALATED" => /\ revealed'[i] = Roles
                                       /\ output'[i]["EXECUTOR"] # output'[i]["CROSS_VERIFIER"]
    BY <2>1 DEF StatusAfterReveal
  <2>6. \A q \in Roles : digest'[i][q] # ZeroDigest
    BY <2>1, <2>2
  <2> QED
    BY <1>2, <2>3, <2>4, <2>5, <2>6 DEF Progress, Fresh, SlotOpen, BothBound,
          Agreed, Cause, Committing, Revealing
<1> QED
  BY <1>1, <1>2

LEMMA TimeoutProgress ==
    ASSUME IInv, TypeOK', NEW i \in Invocations,
           markCommitTimeout(i) \/ markRevealTimeout(i), NEW j \in Invocations
    PROVE  Progress(j)'
<1> USE DEF IInv
<1>1. CASE j # i
  BY <1>1, Untouched DEF markCommitTimeout, markRevealTimeout, TypeOK
<1>2. CASE j = i
  <2>1. /\ status'[i] = "ESCALATED" /\ status[i] # "NONE"
        /\ UNCHANGED <<now, node, commitDeadline, revealDeadline, digest,
                       output, revealed>>
    BY DEF markCommitTimeout, markRevealTimeout, TypeOK, Committing, Revealing
  <2>2. Cause(i)'
    <3>1. CASE markCommitTimeout(i)
      BY <2>1, <3>1 DEF markCommitTimeout, Progress, SlotOpen, Cause
    <3>2. CASE markRevealTimeout(i)
      BY <2>1, <3>2 DEF markRevealTimeout, Progress, BothBound, Cause
    <3> QED
      BY <3>1, <3>2
  <2>3. Opened(i)' /\ Staffed(i)'
    BY <2>1 DEF Progress, Opened, Opens, Staffed
  <2> QED
    BY <1>2, <2>1, <2>2, <2>3 DEF Progress, Fresh, SlotOpen, BothBound,
          Agreed, Committing, Revealing
<1> QED
  BY <1>1, <1>2

LEMMA NextIInv == IInv /\ [Next]_vars => IInv'
<1> SUFFICES ASSUME IInv, [Next]_vars PROVE IInv'
  OBVIOUS
<1>1. TypeOK /\ TypeOK'
  BY NextTypeOK DEF IInv
<1>2. ASSUME NEW j \in Invocations PROVE Progress(j)'
  <2>1. CASE \E d \in Dispatchers : SetDispatcher(d)
    BY <1>1, <2>1, Untouched DEF SetDispatcher, IInv, TypeOK
  <2>2. CASE \E i \in Invocations : Call(i)
    BY <1>1, <2>2, DispatchProgress, CommitProgress, RevealProgress,
       TimeoutProgress DEF Call
  <2>3. CASE Tick
    BY <1>1, <2>3, Untouched DEF Tick, IInv, TypeOK
  <2>4. CASE UNCHANGED vars
    BY <1>1, <2>4, Untouched DEF vars, IInv, TypeOK
  <2> QED
    BY <2>1, <2>2, <2>3, <2>4 DEF Next
<1> QED
  BY <1>1, <1>2 DEF IInv

LEMMA Invariance == Spec => []IInv
BY InitIInv, NextIInv, PTL DEF Spec

-----------------------------------------------------------------------------
(***************************************************************************)
(* The variables keep their types.                                         *)
(***************************************************************************)
THEOREM TypeCorrect == Spec => []TypeOK
<1>1. IInv => TypeOK
  BY DEF IInv
<1> QED
  BY <1>1, Invariance, PTL

(***************************************************************************)
(* Only a blind agreement of two different nodes is ever reported as the   *)
(* verified output.                                                        *)
(***************************************************************************)
THEOREM OnlyAgreementVerifies == Spec => []VerifiedMeansAgreement
<1>1. IInv => VerifiedMeansAgreement
  <2> SUFFICES ASSUME IInv, NEW i \in Invocations, status[i] = "VERIFIED"
               PROVE  /\ node[i]["EXECUTOR"] # node[i]["CROSS_VERIFIER"]
                      /\ revealed[i] = Roles
                      /\ \A r \in Roles : Opens(i, r, verifiedOutput(i))
    BY DEF VerifiedMeansAgreement
  <2>1. /\ node[i]["EXECUTOR"] # node[i]["CROSS_VERIFIER"]
        /\ revealed[i] = Roles
        /\ output[i]["EXECUTOR"] = output[i]["CROSS_VERIFIER"]
        /\ \A r \in Roles : Opens(i, r, output[i][r])
    BY DEF IInv, Progress, Staffed, Agreed, Opened
  <2>2. \A r \in Roles : output[i][r] = verifiedOutput(i)
    BY <2>1 DEF verifiedOutput, Roles
  <2> QED
    BY <2>1, <2>2
<1> QED
  BY <1>1, Invariance, PTL

(***************************************************************************)
(* Nodes that agree and answer in time are never sent to arbitration.      *)
(***************************************************************************)
THEOREM OnlyCauseEscalates == Spec => []EscalatedForCause
<1>1. IInv => EscalatedForCause
  BY DEF IInv, Progress, Cause, EscalatedForCause
<1> QED
  BY <1>1, Invariance, PTL

(***************************************************************************)
(* The guard of a timeout report: what markCommitTimeout and               *)
(* markRevealTimeout ask of the record and of the clock.                   *)
(***************************************************************************)
TimeoutDue(i) == \/ status[i] \in Committing /\ now >= commitDeadline[i]
                 \/ status[i] \in Revealing /\ now >= revealDeadline[i]

(***************************************************************************)
(* No invocation is stuck: once the reveal deadline of an undecided one    *)
(* has passed, the guard of one of the two timeout reports holds, whatever *)
(* the nodes have done.  This is NeverStuck with its ENABLED read as the   *)
(* guards; it rests on dispatch having put the reveal deadline last.       *)
(***************************************************************************)
THEOREM UndecidedCanTimeOut ==
    Spec => [](\A i \in Invocations :
                  status[i] \notin {"NONE"} \cup Decided /\ now >= revealDeadline[i] =>
                      TimeoutDue(i))
<1> DEFINE Due == \A i \in Invocations :
                      status[i] \notin {"NONE"} \cup Decided /\ now >= revealDeadline[i] =>
                          TimeoutDue(i)
<1>1. IInv => Due
  <2> SUFFICES ASSUME IInv, NEW i \in Invocations,
                      status[i] \notin {"NONE"} \cup Decided, now >= revealDeadline[i]
               PROVE  TimeoutDue(i)
    OBVIOUS
  <2>1. /\ now \in Nat /\ commitDeadline[i] \in Nat /\ revealDeadline[i] \in Nat
        /\ status[i] \in Committing \cup Revealing
    BY DEF IInv, TypeOK, Statuses, Committing, Revealing, Decided
  <2>2. commitDeadline[i] < revealDeadline[i]
    BY DEF IInv, Progress, Staffed
  <2> QED
    BY <2>1, <2>2 DEF TimeoutDue
<1> QED
  BY <1>1, Invariance, PTL

(***************************************************************************)
(* A slot is written only from empty, in time and blind.                   *)
(***************************************************************************)
THEOREM BindingIsBlind == Spec => BlindBinding
<1> DEFINE Blind == \A i \in Invocations, r \in Roles :
                digest'[i][r] # digest[i][r] =>
                    /\ digest[i][r] = ZeroDigest
                    /\ revealed[i] = {}
                    /\ now < commitDeadline[i]
<1>1. IInv /\ [Next]_vars => [Blind]_vars
  <2> SUFFICES ASSUME IInv, Next, NEW i \in Invocations, NEW r \in Roles,
                      digest'[i][r] # digest[i][r]
               PROVE  /\ digest[i][r] = ZeroDigest
                      /\ revealed[i] = {}
                      /\ now < commitDeadline[i]
    OBVIOUS
  <2>1. PICK j \in Invocations, q \in Roles, n \in Nodes, d \in Digests :
                commit(j, q, n, d)
    BY DEF Next, Call, SetDispatcher, dispatch, reveal, markCommitTimeout,
           markRevealTimeout, Tick
  <2>2. j = i /\ q = r
    BY <2>1 DEF commit, IInv, TypeOK
  <2> QED
    BY <2>1, <2>2 DEF commit, IInv, Progress, SlotOpen
<1> QED
  BY <1>1, Invariance, PTL DEF Spec, BlindBinding

(***************************************************************************)
(* A decision and the record it was taken from never change again.         *)
(***************************************************************************)
THEOREM DecisionsAreFinal == Spec => DecisionIsFinal
<1> DEFINE Final == \A i \in Invocations : status[i] \in Decided =>
                        /\ status'[i] = status[i]
                        /\ node'[i] = node[i]
                        /\ digest'[i] = digest[i]
                        /\ output'[i] = output[i]
                        /\ revealed'[i] = revealed[i]
<1>1. IInv /\ [Next]_vars => [Final]_vars
  <2> SUFFICES ASSUME IInv, Next, NEW i \in Invocations, status[i] \in Decided
               PROVE  /\ status'[i] = status[i]
                      /\ node'[i] = node[i]
                      /\ digest'[i] = digest[i]
                      /\ output'[i] = output[i]
                      /\ revealed'[i] = revealed[i]
    OBVIOUS
  <2> USE DEF Decided, Committing, Revealing, IInv, TypeOK
  <2>1. CASE \E d \in Dispatchers : SetDispatcher(d)
    BY <2>1 DEF SetDispatcher
  <2>2. CASE Tick
    BY <2>2 DEF Tick
  <2>3. CASE \E j \in Invocations : Call(j)
    <3>1. PICK j \in Invocations : Call(j)
      BY <2>3
    <3>2. j # i
      BY <3>1 DEF Call, dispatch, commit, reveal, markCommitTimeout,
                  markRevealTimeout
    <3> QED
      BY <3>1, <3>2 DEF Call, dispatch, commit, reveal, markCommitTimeout,
                        markRevealTimeout
  <2> QED
    BY <2>1, <2>2, <2>3 DEF Next
<1> QED
  BY <1>1, Invariance, PTL DEF Spec, DecisionIsFinal

-----------------------------------------------------------------------------
(***************************************************************************)
(* The registry implements CrossVerification under the mapping outcomeBar, *)
(* answerBar: dispatch opens, a commit binds (or stutters, when it stores  *)
(* the zero digest), a reveal discloses, a timeout gives up.               *)
(***************************************************************************)
AnswerOf(dg, r, n) ==
    IF dg = ZeroDigest THEN Unbound
    ELSE IF \E o \in Outputs : \E s \in Salts : dg = commitDigest(r, n, o, s)
         THEN CHOOSE o \in Outputs : \E s \in Salts : dg = commitDigest(r, n, o, s)
         ELSE Unopenable

LEMMA AnswerBarIs ==
    \A i \in Invocations, r \in Roles :
        answerBar[i][r] = AnswerOf(digest[i][r], r, node[i][r])
BY DEF answerBar, AnswerOf, Opens

LEMMA AnswerOfOpened ==
    ASSUME NEW r, NEW n, NEW o \in Outputs, NEW s \in Salts,
           commitDigest(r, n, o, s) # ZeroDigest
    PROVE  AnswerOf(commitDigest(r, n, o, s), r, n) = o
<1>1. \A p \in Outputs :
        (\E t \in Salts : commitDigest(r, n, o, s) = commitDigest(r, n, p, t)) => p = o
  BY DEF commitDigest
<1> QED
  BY <1>1 DEF AnswerOf

LEMMA AnswerOfBound ==
    ASSUME NEW dg, NEW r, NEW n
    PROVE  /\ AnswerOf(dg, r, n) \in Outputs \cup {Unopenable, Unbound}
           /\ AnswerOf(dg, r, n) = Unbound <=> dg = ZeroDigest
BY AnswerAssumption DEF AnswerOf

LEMMA AnswerBarType ==
    answerBar \in [Invocations -> [Roles -> Outputs \cup {Unopenable, Unbound}]]
<1>1. \A i \in Invocations, r \in Roles :
            answerBar[i][r] \in Outputs \cup {Unopenable, Unbound}
  BY AnswerBarIs, AnswerOfBound
<1>2. answerBar = [i \in Invocations |-> [r \in Roles |-> answerBar[i][r]]]
  BY DEF answerBar
<1> QED
  BY <1>1, <1>2

LEMMA AnswerBarNext ==
    /\ answerBar' \in [Invocations -> [Roles -> Outputs \cup {Unopenable, Unbound}]]
    /\ \A i \in Invocations, r \in Roles :
            answerBar'[i][r] = AnswerOf(digest'[i][r], r, node'[i][r])
<1>1. \A i \in Invocations, r \in Roles :
            answerBar'[i][r] = AnswerOf(digest'[i][r], r, node'[i][r])
  BY DEF answerBar, AnswerOf, Opens
<1>2. answerBar' = [i \in Invocations |-> [r \in Roles |-> answerBar'[i][r]]]
  BY DEF answerBar
<1> QED
  BY <1>1, <1>2, AnswerOfBound

\* A step that leaves the digests and the nodes alone leaves the answers
\* alone; one that rewrites one of them moves one answer.
LEMMA AnswerBarKept == UNCHANGED <<digest, node>> => answerBar' = answerBar
BY DEF answerBar, Opens

LEMMA DispatchOpens ==
    ASSUME IInv, NEW i \in Invocations, NEW caller \in Dispatchers,
           NEW e \in Nodes, NEW v \in Nodes,
           NEW cd \in 1..MaxTime, NEW rd \in 1..MaxTime,
           dispatch(i, caller, e, v, cd, rd)
    PROVE  CV!Next
<1> DEFINE p == [r \in Roles |-> IF r = "EXECUTOR" THEN e ELSE v]
<1> USE DEF IInv, TypeOK
<1>1. p \in CV!Assignments
  BY DEF dispatch, CV!Assignments, CV!Roles, Roles
<1>2. outcomeBar[i] = "none"
  BY DEF dispatch, outcomeBar
<1>3. outcomeBar' = [outcomeBar EXCEPT ![i] = "open"]
  BY DEF dispatch, outcomeBar
<1>4. answerBar' = answerBar
  <2>1. \A j \in Invocations, r \in Roles :
            AnswerOf(digest[j][r], r, node[j][r])' = AnswerOf(digest[j][r], r, node[j][r])
    <3> SUFFICES ASSUME NEW j \in Invocations, NEW r \in Roles
                 PROVE  AnswerOf(digest[j][r], r, node'[j][r])
                            = AnswerOf(digest[j][r], r, node[j][r])
      BY DEF dispatch
    <3>1. CASE j = i
      BY <3>1 DEF dispatch, Progress, Fresh, AnswerOf
    <3>2. CASE j # i
      BY <3>2 DEF dispatch
    <3> QED
      BY <3>1, <3>2
  <2>2. \A j \in Invocations, r \in Roles : answerBar'[j][r] = answerBar[j][r]
    BY <2>1, AnswerBarIs, AnswerBarNext
  <2> QED
    BY <2>2, AnswerBarType, AnswerBarNext
<1>5. CV!Open(i, p)
  BY <1>2, <1>3, <1>4 DEF dispatch, CV!Open
<1> QED
  BY <1>1, <1>5 DEF CV!Next

LEMMA CommitBinds ==
    ASSUME IInv, NEW i \in Invocations, NEW r \in Roles, NEW n \in Nodes,
           NEW d \in Digests, commit(i, r, n, d)
    PROVE  CV!Next \/ UNCHANGED <<outcomeBar, node, answerBar, revealed>>
<1> USE DEF IInv, TypeOK
<1>1. outcomeBar[i] = "open" /\ outcomeBar' = outcomeBar
  BY DEF commit, outcomeBar, Committing
<1>2. revealed[i] = {}
  BY DEF commit, Progress, SlotOpen
<1>3. answerBar[i][r] = Unbound
  BY DEF commit, answerBar
<1>4. answerBar' = [answerBar EXCEPT ![i][r] = AnswerOf(d, r, n)]
  <2>1. \A j \in Invocations, q \in Roles :
            answerBar'[j][q] = IF j = i /\ q = r THEN AnswerOf(d, r, n)
                               ELSE answerBar[j][q]
    BY AnswerBarIs, AnswerBarNext DEF commit
  <2> QED
    BY <2>1, AnswerBarType, AnswerBarNext
<1>5. CASE d = ZeroDigest
  <2>1. AnswerOf(d, r, n) = Unbound
    BY <1>5, AnswerOfBound
  <2>2. answerBar' = answerBar
    BY <1>3, <1>4, <2>1, AnswerBarType
  <2> QED
    BY <1>1, <2>2 DEF commit
<1>6. CASE d # ZeroDigest
  <2>1. AnswerOf(d, r, n) \in Outputs \cup {Unopenable}
    BY <1>6, AnswerOfBound
  <2>2. CV!Bind(i, r, AnswerOf(d, r, n))
    BY <1>1, <1>2, <1>3, <1>4 DEF commit, CV!Bind
  <2> QED
    BY <2>1, <2>2 DEF CV!Next, CV!Roles, Roles
<1> QED
  BY <1>5, <1>6

LEMMA RevealDiscloses ==
    ASSUME IInv, NEW i \in Invocations, NEW r \in Roles, NEW n \in Nodes,
           NEW o \in Outputs, NEW s \in Salts, reveal(i, r, n, o, s)
    PROVE  CV!Next
<1> USE DEF IInv, TypeOK
<1>1. outcomeBar[i] = "open" /\ answerBar' = answerBar
  BY AnswerBarKept DEF reveal, outcomeBar, Revealing
<1>2. \A q \in Roles : answerBar[i][q] # Unbound
  BY AnswerBarIs, AnswerOfBound DEF reveal, Progress, BothBound
<1>3. answerBar[i][r] = o
  BY AnswerBarIs, AnswerOfOpened DEF reveal
<1>4. \A q \in revealed[i] : answerBar[i][q] = output[i][q]
  <2> SUFFICES ASSUME NEW q \in revealed[i]
               PROVE  answerBar[i][q] = output[i][q]
    OBVIOUS
  <2>1. PICK t \in Salts :
            digest[i][q] = commitDigest(q, node[i][q], output[i][q], t)
    BY DEF Progress, Opened, Opens
  <2>2. q \in Roles /\ output[i][q] \in Outputs /\ digest[i][q] # ZeroDigest
    BY DEF reveal, Progress, Opened, BothBound
  <2> QED
    BY <2>1, <2>2, AnswerBarIs, AnswerOfOpened
<1>5. outcomeBar' = [outcomeBar EXCEPT ![i] = CV!Verdict(i, revealed'[i])]
  <2>1. /\ revealed'[i] = revealed[i] \cup {r}
        /\ output'[i] = [output[i] EXCEPT ![r] = o]
        /\ status' = [status EXCEPT ![i] =
                            StatusAfterReveal(revealed'[i], output'[i])]
    BY DEF reveal
  <2>2. revealed'[i] = Roles => \A q \in Roles : output'[i][q] = answerBar[i][q]
    BY <2>1, <1>3, <1>4
  <2>3. CV!Verdict(i, revealed'[i]) =
            IF revealed'[i] # Roles THEN "open"
            ELSE IF output'[i]["EXECUTOR"] = output'[i]["CROSS_VERIFIER"]
            THEN "verified" ELSE "escalated"
    BY <2>2 DEF CV!Verdict, CV!Roles, Roles
  <2> QED
    BY <2>1, <2>3 DEF outcomeBar, StatusAfterReveal
<1>6. CV!Disclose(i, r)
  BY <1>1, <1>2, <1>3, <1>5 DEF reveal, CV!Disclose, CV!Roles, Roles
<1> QED
  BY <1>6 DEF CV!Next, CV!Roles, Roles

LEMMA TimeoutGivesUp ==
    ASSUME IInv, NEW i \in Invocations,
           markCommitTimeout(i) \/ markRevealTimeout(i)
    PROVE  CV!Next
<1> USE DEF IInv, TypeOK
<1>1. /\ outcomeBar[i] = "open"
      /\ outcomeBar' = [outcomeBar EXCEPT ![i] = "escalated"]
  BY DEF markCommitTimeout, markRevealTimeout, outcomeBar, Committing, Revealing
<1>2. answerBar' = answerBar
  BY AnswerBarKept DEF markCommitTimeout, markRevealTimeout
<1>3. CV!GiveUp(i)
  BY <1>1, <1>2 DEF markCommitTimeout, markRevealTimeout, CV!GiveUp
<1> QED
  BY <1>3 DEF CV!Next

(***************************************************************************)
(* Every behaviour of the registry is one of the abstract agreement.       *)
(***************************************************************************)
THEOREM Refinement == Spec => ImplementsCrossVerification
<1>1. Init => CV!Init
  BY DEF Init, CV!Init, outcomeBar, answerBar, CV!Roles, Roles
<1>2. IInv /\ [Next]_vars => [CV!Next]_(CV!evars)
  <2> SUFFICES ASSUME IInv, [Next]_vars
               PROVE  CV!Next \/ UNCHANGED <<outcomeBar, node, answerBar, revealed>>
    BY DEF CV!evars
  <2>1. CASE \E i \in Invocations : Call(i)
    BY <2>1, DispatchOpens, CommitBinds, RevealDiscloses, TimeoutGivesUp DEF Call
  <2>2. CASE Tick \/ (\E d \in Dispatchers : SetDispatcher(d)) \/ UNCHANGED vars
    BY <2>2, AnswerBarKept DEF Tick, SetDispatcher, vars, outcomeBar
  <2> QED
    BY <2>1, <2>2 DEF Next
<1> QED
  BY <1>1, <1>2, Invariance, PTL DEF Spec, ImplementsCrossVerification, CV!Spec

=============================================================================
