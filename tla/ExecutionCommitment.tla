------------------------ MODULE ExecutionCommitment ------------------------
(***************************************************************************)
(* The commit-reveal registry of a two-node inference,                     *)
(* contracts/core/ExecutionCommitmentRegistry.sol.                         *)
(*                                                                         *)
(* A dispatcher opens an invocation for an executor and a cross-verifier.  *)
(* Each commits a digest of its output before the commit deadline and      *)
(* opens it before the reveal deadline.  Equal outputs verify the          *)
(* invocation; different outputs, or a missed deadline that somebody       *)
(* reports, escalate it to arbitration.                                    *)
(*                                                                         *)
(* A call is atomic (one transaction), so every external function is one   *)
(* action.  block.timestamp is the variable now, which moves on its own:   *)
(* any number of calls may happen at one timestamp, and none has to.       *)
(***************************************************************************)
EXTENDS Naturals

CONSTANTS
    Invocations,   \* invocation ids
    Nodes,         \* addresses that may be executor or cross-verifier
    Dispatchers,   \* addresses that may hold the dispatcher role
    Outputs,       \* output handles
    Salts,         \* salts a node may draw
    ZeroAddress,   \* address(0)
    ZeroDigest,    \* bytes32(0), the value of a commit slot never written
    JunkDigest,    \* a digest that is the hash of no (role, node, output, salt)
    ZeroHandle,    \* bytes32(0), the value of an output slot never written;
                   \* it may also be an element of Outputs
    Unbound,       \* in the abstraction: no answer yet
    Unopenable,    \* in the abstraction: bound to no output
    MaxTime        \* bound on the clock

ASSUME ZeroAddressAssumption == ZeroAddress \notin Nodes \cup Dispatchers
ASSUME MaxTimeAssumption     == MaxTime \in Nat

Roles == {"EXECUTOR", "CROSS_VERIFIER"}

\* keccak256(role, node, output, salt): distinct preimages, distinct digests
commitDigest(r, n, o, s) == <<r, n, o, s>>

Digests == (Roles \X Nodes \X Outputs \X Salts) \cup {ZeroDigest, JunkDigest}

ASSUME DigestAssumption ==
    {ZeroDigest, JunkDigest} \cap (Roles \X Nodes \X Outputs \X Salts) = {}

Statuses == {"NONE", "DISPATCHED", "PARTIAL_COMMIT", "BOTH_COMMITTED",
             "PARTIAL_REVEAL", "VERIFIED", "ESCALATED"}
Committing == {"DISPATCHED", "PARTIAL_COMMIT"}
Revealing  == {"BOTH_COMMITTED", "PARTIAL_REVEAL"}
Decided    == {"VERIFIED", "ESCALATED"}

VARIABLES
    now,             \* block.timestamp
    dispatcher,      \* the address allowed to dispatch
    status,          \* Invocation.status
    node,            \* Invocation.executor and .crossVerifier, by role
    commitDeadline,
    revealDeadline,
    digest,          \* Invocation.executorCommit and .verifierCommit, by role
    output,          \* Invocation.executorOutput and .verifierOutput, by role
    revealed         \* roles whose Revealed flag is set

vars == <<now, dispatcher, status, node, commitDeadline, revealDeadline,
          digest, output, revealed>>

TypeOK ==
    /\ now \in Nat
    /\ dispatcher \in Dispatchers
    /\ status \in [Invocations -> Statuses]
    /\ node \in [Invocations -> [Roles -> Nodes \cup {ZeroAddress}]]
    /\ commitDeadline \in [Invocations -> Nat]
    /\ revealDeadline \in [Invocations -> Nat]
    /\ digest \in [Invocations -> [Roles -> Digests]]
    /\ output \in [Invocations -> [Roles -> Outputs \cup {ZeroHandle}]]
    /\ revealed \in [Invocations -> SUBSET Roles]

Init ==
    /\ now = 0
    /\ dispatcher \in Dispatchers
    /\ status = [i \in Invocations |-> "NONE"]
    /\ node = [i \in Invocations |-> [r \in Roles |-> ZeroAddress]]
    /\ commitDeadline = [i \in Invocations |-> 0]
    /\ revealDeadline = [i \in Invocations |-> 0]
    /\ digest = [i \in Invocations |-> [r \in Roles |-> ZeroDigest]]
    /\ output = [i \in Invocations |-> [r \in Roles |-> ZeroHandle]]
    /\ revealed = [i \in Invocations |-> {}]

-----------------------------------------------------------------------------
(***************************************************************************)
(* Faulty variants of the calls below, one for each property: PROJECT.json *)
(* lists which property of which run catches which.                        *)
(***************************************************************************)

\* Forgets AlreadyCommitted: a node may replace its commitment.
commit_Overwrite(i, r, sender, d) ==
    /\ status[i] \in Committing
    /\ now < commitDeadline[i]
    /\ sender = node[i][r]
    /\ digest' = [digest EXCEPT ![i][r] = d]
    /\ status' = [status EXCEPT ![i] =
                    IF \A q \in Roles : digest'[i][q] # ZeroDigest
                    THEN "BOTH_COMMITTED" ELSE "PARTIAL_COMMIT"]
    /\ UNCHANGED <<now, dispatcher, node, commitDeadline, revealDeadline,
                   output, revealed>>

\* Keeps the digest where the output handle belongs.
reveal_StoreDigest(i, r, sender, o, s) ==
    /\ status[i] \in Revealing
    /\ now < revealDeadline[i]
    /\ sender = node[i][r]
    /\ r \notin revealed[i]
    /\ digest[i][r] = commitDigest(r, sender, o, s)
    /\ output' = [output EXCEPT ![i][r] = digest[i][r]]
    /\ revealed' = [revealed EXCEPT ![i] = @ \cup {r}]
    /\ status' = [status EXCEPT ![i] = IF revealed'[i] = Roles
                                      THEN "ESCALATED" ELSE "PARTIAL_REVEAL"]
    /\ UNCHANGED <<now, dispatcher, node, commitDeadline, revealDeadline, digest>>

\* Forgets to compare the digest with the preimage it is given.
reveal_Unchecked(i, r, sender, o, s) ==
    /\ status[i] \in Revealing
    /\ now < revealDeadline[i]
    /\ sender = node[i][r]
    /\ r \notin revealed[i]
    /\ output' = [output EXCEPT ![i][r] = o]
    /\ revealed' = [revealed EXCEPT ![i] = @ \cup {r}]
    /\ status' = [status EXCEPT ![i] =
                    IF revealed'[i] # Roles THEN "PARTIAL_REVEAL"
                    ELSE IF output'[i]["EXECUTOR"] = output'[i]["CROSS_VERIFIER"]
                    THEN "VERIFIED" ELSE "ESCALATED"]
    /\ UNCHANGED <<now, dispatcher, node, commitDeadline, revealDeadline, digest>>

\* Lets the last reveal win without comparing the outputs.
StatusAfterReveal_NoCompare(rv, out) ==
    IF rv # Roles THEN "PARTIAL_REVEAL" ELSE "VERIFIED"

\* Reports a commit timeout while both nodes may still commit.
markCommitTimeout_Early(i) ==
    /\ status[i] \in Committing
    /\ status' = [status EXCEPT ![i] = "ESCALATED"]
    /\ UNCHANGED <<now, dispatcher, node, commitDeadline, revealDeadline,
                   digest, output, revealed>>

\* Overlooks that one of the two may have committed.
markCommitTimeout_NoPartial(i) ==
    /\ status[i] = "DISPATCHED"
    /\ now >= commitDeadline[i]
    /\ status' = [status EXCEPT ![i] = "ESCALATED"]
    /\ UNCHANGED <<now, dispatcher, node, commitDeadline, revealDeadline,
                   digest, output, revealed>>

\* Tests only that the invocation exists, as the first guard does.
markRevealTimeout_AnyStatus(i) ==
    /\ status[i] # "NONE"
    /\ now >= revealDeadline[i]
    /\ status' = [status EXCEPT ![i] = "ESCALATED"]
    /\ UNCHANGED <<now, dispatcher, node, commitDeadline, revealDeadline,
                   digest, output, revealed>>

-----------------------------------------------------------------------------
(***************************************************************************)
(* The external functions of the contract.                                 *)
(***************************************************************************)

\* setDispatcher: the owner moves the role, also while invocations are open.
SetDispatcher(d) ==
    /\ dispatcher' = d
    /\ UNCHANGED <<now, status, node, commitDeadline, revealDeadline, digest,
                   output, revealed>>

dispatch(i, caller, executor, crossVerifier, cd, rd) ==
    /\ caller = dispatcher
    /\ ZeroAddress \notin {executor, crossVerifier}
    /\ executor # crossVerifier
    /\ cd > now
    /\ rd > cd
    /\ status[i] = "NONE"
    /\ status' = [status EXCEPT ![i] = "DISPATCHED"]
    /\ node' = [node EXCEPT ![i] = [r \in Roles |->
                    IF r = "EXECUTOR" THEN executor ELSE crossVerifier]]
    /\ commitDeadline' = [commitDeadline EXCEPT ![i] = cd]
    /\ revealDeadline' = [revealDeadline EXCEPT ![i] = rd]
    /\ UNCHANGED <<now, dispatcher, digest, output, revealed>>

\* The status after a commit tests both slots against zero, so a zero digest
\* is accepted, moves DISPATCHED to PARTIAL_COMMIT and leaves the slot free.
commit(i, r, sender, d) ==
    /\ status[i] \in Committing
    /\ now < commitDeadline[i]
    /\ sender = node[i][r]
    /\ digest[i][r] = ZeroDigest
    /\ digest' = [digest EXCEPT ![i][r] = d]
    /\ status' = [status EXCEPT ![i] =
                    IF \A q \in Roles : digest'[i][q] # ZeroDigest
                    THEN "BOTH_COMMITTED" ELSE "PARTIAL_COMMIT"]
    /\ UNCHANGED <<now, dispatcher, node, commitDeadline, revealDeadline,
                   output, revealed>>

\* The status after a reveal that leaves rv revealed with outputs out.
StatusAfterReveal(rv, out) ==
    IF rv # Roles THEN "PARTIAL_REVEAL"
    ELSE IF out["EXECUTOR"] = out["CROSS_VERIFIER"] THEN "VERIFIED"
    ELSE "ESCALATED"

\* A reveal is accepted as soon as both have committed, before the commit
\* deadline too: nobody can commit any more.
reveal(i, r, sender, o, s) ==
    /\ status[i] \in Revealing
    /\ now < revealDeadline[i]
    /\ sender = node[i][r]
    /\ r \notin revealed[i]
    /\ digest[i][r] # ZeroDigest
    /\ digest[i][r] = commitDigest(r, sender, o, s)
    /\ output' = [output EXCEPT ![i][r] = o]
    /\ revealed' = [revealed EXCEPT ![i] = @ \cup {r}]
    /\ status' = [status EXCEPT ![i] =
                    StatusAfterReveal(revealed'[i], output'[i])]
    /\ UNCHANGED <<now, dispatcher, node, commitDeadline, revealDeadline, digest>>

markCommitTimeout(i) ==
    /\ status[i] \in Committing
    /\ now >= commitDeadline[i]
    /\ status' = [status EXCEPT ![i] = "ESCALATED"]
    /\ UNCHANGED <<now, dispatcher, node, commitDeadline, revealDeadline,
                   digest, output, revealed>>

markRevealTimeout(i) ==
    /\ status[i] \in Revealing
    /\ now >= revealDeadline[i]
    /\ status' = [status EXCEPT ![i] = "ESCALATED"]
    /\ UNCHANGED <<now, dispatcher, node, commitDeadline, revealDeadline,
                   digest, output, revealed>>

\* The chain's clock; MaxTime is the bound of the model.
Tick ==
    /\ now < MaxTime
    /\ now' = now + 1
    /\ UNCHANGED <<dispatcher, status, node, commitDeadline, revealDeadline,
                   digest, output, revealed>>

\* The calls that concern invocation i.
Call(i) ==
    \/ \E caller \in Dispatchers, e, v \in Nodes, cd, rd \in 1..MaxTime :
            dispatch(i, caller, e, v, cd, rd)
    \/ \E r \in Roles, n \in Nodes, d \in Digests : commit(i, r, n, d)
    \/ \E r \in Roles, n \in Nodes, o \in Outputs, s \in Salts :
            reveal(i, r, n, o, s)
    \/ markCommitTimeout(i)
    \/ markRevealTimeout(i)

Next ==
    \/ \E d \in Dispatchers : SetDispatcher(d)
    \/ \E i \in Invocations : Call(i)
    \/ Tick

Spec == Init /\ [][Next]_vars

-----------------------------------------------------------------------------
\* verifiedOutput: what the registry reports to its readers.
verifiedOutput(i) == IF status[i] = "VERIFIED" THEN output[i]["EXECUTOR"] ELSE ZeroHandle

\* d is the commitment of role r's own node of invocation i to output o.
Opens(i, r, o) == \E s \in Salts : digest[i][r] = commitDigest(r, node[i][r], o, s)

(***************************************************************************)
(* What the registry reports as verified was revealed by two different     *)
(* nodes, each of which had bound itself to exactly that output with a     *)
(* digest of its own role and address (verifiedOutput, reveal).            *)
(***************************************************************************)
VerifiedMeansAgreement ==
    \A i \in Invocations : status[i] = "VERIFIED" =>
        /\ node[i]["EXECUTOR"] # node[i]["CROSS_VERIFIER"]
        /\ revealed[i] = Roles
        /\ \A r \in Roles : Opens(i, r, verifiedOutput(i))

(***************************************************************************)
(* An invocation is escalated only for cause: a commit was missing when    *)
(* its deadline passed, a reveal was missing when its deadline passed, or  *)
(* two nodes revealed different outputs.  Two nodes that agree and answer  *)
(* in time cannot be sent to arbitration by anybody (markCommitTimeout,    *)
(* markRevealTimeout, reveal).                                             *)
(***************************************************************************)
EscalatedForCause ==
    \A i \in Invocations : status[i] = "ESCALATED" =>
        \/ /\ \E r \in Roles : digest[i][r] = ZeroDigest
           /\ now >= commitDeadline[i]
        \/ revealed[i] # Roles /\ now >= revealDeadline[i]
        \/ /\ revealed[i] = Roles
           /\ output[i]["EXECUTOR"] # output[i]["CROSS_VERIFIER"]

(***************************************************************************)
(* No invocation is ever stuck: once its last deadline has passed without  *)
(* a decision, one of the two permissionless timeout calls succeeds.       *)
(***************************************************************************)
NeverStuck ==
    \A i \in Invocations :
        status[i] \notin {"NONE"} \cup Decided /\ now >= revealDeadline[i] =>
            ENABLED markCommitTimeout(i) \/ ENABLED markRevealTimeout(i)

(***************************************************************************)
(* Nodes bind blind: a commit slot changes only while no output of the     *)
(* invocation has been disclosed, only from empty, and never after the     *)
(* commit deadline (commit; reveal waits for both commits).                *)
(***************************************************************************)
BlindBinding ==
    [][\A i \in Invocations, r \in Roles : digest'[i][r] # digest[i][r] =>
            /\ digest[i][r] = ZeroDigest
            /\ revealed[i] = {}
            /\ now < commitDeadline[i]]_vars

(***************************************************************************)
(* A decision is final, and so is everything it was taken from: arbiters,  *)
(* the reputation registry and the escrow gate read this record long       *)
(* after, in later transactions.                                           *)
(***************************************************************************)
DecisionIsFinal ==
    [][\A i \in Invocations : status[i] \in Decided =>
            /\ status'[i] = status[i]
            /\ node'[i] = node[i]
            /\ digest'[i] = digest[i]
            /\ output'[i] = output[i]
            /\ revealed'[i] = revealed[i]]_vars

-----------------------------------------------------------------------------
(***************************************************************************)
(* What the registry promises, with its digests, deadlines and statuses    *)
(* forgotten: module CrossVerification.  A node's answer is the output its *)
(* digest opens to, or "unopenable" for any other digest it committed.     *)
(***************************************************************************)
ASSUME AnswerAssumption ==
    /\ Unbound # Unopenable
    /\ {Unbound, Unopenable} \cap Outputs = {}

outcomeBar == [i \in Invocations |->
    CASE status[i] = "NONE"      -> "none"
      [] status[i] = "VERIFIED"  -> "verified"
      [] status[i] = "ESCALATED" -> "escalated"
      [] OTHER                   -> "open"]

answerBar == [i \in Invocations |-> [r \in Roles |->
    IF digest[i][r] = ZeroDigest THEN Unbound
    ELSE IF \E o \in Outputs : Opens(i, r, o)
         THEN CHOOSE o \in Outputs : Opens(i, r, o)
         ELSE Unopenable]]

CV == INSTANCE CrossVerification WITH
        outcome <- outcomeBar, party <- node, answer <- answerBar,
        disclosed <- revealed

\* The registry implements the abstract agreement.
ImplementsCrossVerification == CV!Spec

=============================================================================
