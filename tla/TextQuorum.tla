----------------------------- MODULE TextQuorum -----------------------------
(***************************************************************************)
(* One text request in the coordination layer, from its dispatch to its    *)
(* decision: icl/services/quorum_service.py with icl/db/database.py.       *)
(*                                                                         *)
(* The service is one asyncio process; every await on the database is a    *)
(* point where other handlers run.  A handler is therefore a sequence of   *)
(* steps, with its place in pc and what it has read in mem.  The column    *)
(* node_assignments is read, changed in memory and written back whole      *)
(* (update_one with dotted keys).                                          *)
(*                                                                         *)
(* A node has the request pushed to it, once, and runs it as a task of its *)
(* own; or it polls, claims the request and runs it then.  A task that     *)
(* fails is dropped, and a verifier's fails when it has asked for the      *)
(* leader's result too often.  Only a node that is started again, and      *)
(* registers, has the request pushed to it anew, if the service has not    *)
(* got its answer yet, which may be because it is still being handled.  A  *)
(* leader that answers again encrypts its output anew, so the new answer   *)
(* has a new output_cid; the commitment hash covers the output_cid and the *)
(* output, and verifiers build theirs with the output_cid they found.      *)
(***************************************************************************)
EXTENDS Naturals, Sequences, FiniteSets

CONSTANTS
    Leader,
    Verifiers,       \* the nodes that may be verifiers
    Outputs, NoOutput,
    MaxAnswers,      \* bound on the answers of a node that is restarted
    LeaderPolls,     \* times a verifier asks for the leader's result, 15
    Settings         \* the settings in which a request is studied, records of
                     \*   verifiers   those of its quorum
                     \*   retrying    nodes that may be started again
                     \*   polling     nodes that poll and claim; the others
                     \*               are pushed to
                     \*   expiring    polling nodes whose claim may grow older
                     \*               than five minutes
                     \*   column      has inference_requests a column
                     \*               rejection_reason?  supabase_schema.sql
                     \*               does not create it

ASSUME QuorumAssumption ==
    Leader \notin Verifiers /\ IsFiniteSet(Verifiers) /\ NoOutput \notin Outputs
ASSUME BoundAssumption == MaxAnswers \in Nat \ {0} /\ LeaderPolls \in Nat \ {0}

Nodes == {Leader} \cup Verifiers
Handlers == ({"claim", "expire"} \X Nodes \X {0}) \cup ({"answer"} \X Nodes \X (1..MaxAnswers))

ASSUME SettingAssumption ==
    Settings \subseteq [verifiers : (SUBSET Verifiers) \ {{}}, retrying : SUBSET Nodes,
                       polling : SUBSET Nodes, expiring : SUBSET Nodes, column : BOOLEAN]

\* build_commitment_hash of an output_cid, named by the answer it came with,
\* and an output.
Hash == [cid : 1..MaxAnswers, out : Outputs]
NoHash == [cid |-> 0, out |-> NoOutput]

VARIABLES
    setting,         \* the one of this request
    status,          \* inference_requests.status
    leaderResult,    \* metadata.text_leader_result; output_cid is its cid
    commitmentHash,  \* inference_requests.commitment_hash
    assigned,        \* node_assignments[n].status
    verdict,         \* verifier_verdicts.result_hash
    notices,         \* what the payment service is called back with
    pc, mem,         \* per handler: its place, and what it has read
    answers,         \* per node: the hashes it has answered with, in order
    task,            \* per node: its task for this request
    told,            \* per verifier: the output_cid its task works with
    asked            \* per verifier: how often its task has asked in vain

row == <<status, leaderResult, commitmentHash>>
node == <<answers, task, told, asked>>
vars == <<setting, row, assigned, verdict, notices, pc, mem, node>>

AssignmentStatuses == {"pending", "claimed", "completed", "failed"}
AllPending == [n \in Nodes |-> "pending"]
Forgotten == [leader |-> NoHash, winner |-> NoHash, assigned |-> AllPending]

\* leader_address and verifier_addresses of the request.
Quorum == {Leader} \cup setting.verifiers

TypeOK ==
    /\ setting \in Settings
    /\ status \in {"queued", "accepted", "rejected", "failed"}
    /\ {leaderResult, commitmentHash} \subseteq Hash \cup {NoHash}
    /\ assigned \in [Nodes -> AssignmentStatuses]
    /\ verdict \in [Verifiers -> Hash \cup {NoHash}]
    /\ notices \subseteq [status : {"success", "rejected", "timeout"},
                          hash : Hash \cup {NoHash}, cid : 0..MaxAnswers]
    /\ pc \in [Handlers -> {"none", "read", "write", "check", "tally", "accept",
                            "reject", "allFailed", "close", "done"}]
    /\ mem \in [Handlers -> [leader : Hash \cup {NoHash}, winner : Hash \cup {NoHash},
                             assigned : [Nodes -> AssignmentStatuses]]]
    /\ \A n \in Nodes : answers[n] \in UNION {[1..k -> Hash] : k \in 0..MaxAnswers}
    /\ task \in [Nodes -> {"none", "running", "ended"}]
    /\ told \in [Verifiers -> 0..MaxAnswers]
    /\ asked \in [Verifiers -> 0..(LeaderPolls - 1)]

\* _create_text_request has inserted the request and pushed it to the nodes
\* that do not poll; a push that fails is as good as a task dropped at once.
Init ==
    /\ setting \in Settings
    /\ status = "queued"
    /\ leaderResult = NoHash /\ commitmentHash = NoHash
    /\ assigned = AllPending
    /\ verdict = [v \in Verifiers |-> NoHash]
    /\ notices = {}
    /\ pc = [h \in Handlers |-> "none"]
    /\ mem = [h \in Handlers |-> Forgotten]
    /\ answers = [n \in Nodes |-> <<>>]
    /\ task = [n \in Nodes |-> IF n \in setting.polling THEN "none" ELSE "running"]
    /\ told = [v \in Verifiers |-> 0] /\ asked = [v \in Verifiers |-> 0]

\* Handler h goes on to place p with m in its memory.
Goto(h, p, m) == pc' = [pc EXCEPT ![h] = p] /\ mem' = [mem EXCEPT ![h] = m]
Return(h) == Goto(h, "done", Forgotten)
Running(h) == pc[h] \notin {"none", "done"}

Delivered(n) == IF n = Leader THEN leaderResult # NoHash ELSE verdict[n] # NoHash

-----------------------------------------------------------------------------
(***************************************************************************)
(* The handlers read node_assignments, await, and write it back with the   *)
(* entry of their own node changed.                                        *)
(***************************************************************************)
ReadAssignments(h) ==
    /\ pc[h] = "read"
    /\ Goto(h, "write", [mem[h] EXCEPT !.assigned = assigned])
    /\ UNCHANGED <<row, assigned, verdict, notices, node>>

WriteBack(h, st) == assigned' = [mem[h].assigned EXCEPT ![h[2]] = st]

-----------------------------------------------------------------------------
(***************************************************************************)
(* record_node_claim: a node that has polled its pending assignment claims *)
(* it.  The handler checks nothing.                                        *)
(***************************************************************************)
ClaimOf(n) == <<"claim", n, 0>>

Claim(n) ==
    /\ n \in setting.polling
    /\ pc[ClaimOf(n)] = "none"
    /\ status = "queued"
    /\ assigned[n] = "pending"
    /\ Goto(ClaimOf(n), "read", Forgotten)
    /\ UNCHANGED <<row, assigned, verdict, notices, node>>

WriteClaim(n) ==
    /\ pc[ClaimOf(n)] = "write"
    /\ WriteBack(ClaimOf(n), "claimed")
    /\ Return(ClaimOf(n))
    /\ task' = [task EXCEPT ![n] = "running"]
    /\ UNCHANGED <<row, verdict, notices, answers, told, asked>>

-----------------------------------------------------------------------------
(***************************************************************************)
(* The node: its worker takes one pushed task after the other, runs it     *)
(* once, and only logs a failure.                                          *)
(***************************************************************************)
\* The task of n is over, submitted or dropped.
End(n) ==
    /\ task' = [task EXCEPT ![n] = "ended"]
    /\ told' = [v \in Verifiers |-> IF v = n THEN 0 ELSE told[v]]
    /\ asked' = [v \in Verifiers |-> IF v = n THEN 0 ELSE asked[v]]

\* Whatever the task awaits may fail (IPFS, the bridge, the model, the call of
\* the service), and so may the node.
Drop(n) ==
    /\ task[n] = "running"
    /\ End(n)
    /\ UNCHANGED <<row, assigned, verdict, notices, pc, mem, answers>>

\* The node is started again and registers: register_node_runtime pushes what
\* is queued, has not been claimed by the node and lacks its answer.
Register(n) ==
    /\ n \in setting.retrying \ setting.polling
    /\ task[n] = "ended" /\ Len(answers[n]) < MaxAnswers
    /\ status = "queued" /\ ~Delivered(n)
    /\ task' = [task EXCEPT ![n] = "running"]
    /\ UNCHANGED <<row, assigned, verdict, notices, pc, mem, answers, told, asked>>

\* _resolve_leader_result asks for the output_cid, LeaderPolls times at most.
AskForLeaderResult(v) ==
    /\ task[v] = "running" /\ told[v] = 0
    /\ \/ /\ leaderResult # NoHash
          /\ told' = [told EXCEPT ![v] = leaderResult.cid]
          /\ UNCHANGED <<task, asked>>
       \/ /\ leaderResult = NoHash /\ asked[v] + 1 < LeaderPolls
          /\ asked' = [asked EXCEPT ![v] = @ + 1]
          /\ UNCHANGED <<task, told>>
       \/ leaderResult = NoHash /\ asked[v] + 1 = LeaderPolls /\ End(v)
    /\ UNCHANGED <<row, assigned, verdict, notices, pc, mem, answers>>

-----------------------------------------------------------------------------
(***************************************************************************)
(* submit_text_leader_result, submit_text_verifier_verdict: neither looks  *)
(* at the status of the request.                                           *)
(***************************************************************************)
AnswerOf(n, k) == <<"answer", n, k>>

MayAnswer(n) == task[n] = "running" /\ Len(answers[n]) < MaxAnswers

LeaderAnswer(out) == LET k == Len(answers[Leader]) + 1 IN
    /\ MayAnswer(Leader)
    /\ answers' = [answers EXCEPT ![Leader] = Append(@, [cid |-> k, out |-> out])]
    /\ End(Leader)
    /\ Goto(AnswerOf(Leader, k), "read", Forgotten)
    /\ UNCHANGED <<row, assigned, verdict, notices>>

WriteLeaderResult(k) == LET h == AnswerOf(Leader, k) IN
    /\ pc[h] = "write"
    /\ leaderResult' = answers[Leader][k]
    /\ commitmentHash' = answers[Leader][k]
    /\ WriteBack(h, "completed")
    /\ Goto(h, "check", Forgotten)
    /\ UNCHANGED <<status, verdict, notices, node>>

\* The verdict of a text verifier leaves node_assignments alone.
VerifierAnswer(v, out) ==
    LET k == Len(answers[v]) + 1
        hash == [cid |-> told[v], out |-> out]
    IN  /\ MayAnswer(v)
        /\ told[v] # 0
        /\ answers' = [answers EXCEPT ![v] = Append(@, hash)]
        /\ End(v)
        /\ verdict' = [verdict EXCEPT ![v] = hash]
        /\ Goto(AnswerOf(v, k), "check", Forgotten)
        /\ UNCHANGED <<row, assigned, notices>>

-----------------------------------------------------------------------------
(***************************************************************************)
(* _attempt_finalize_text_request, at the end of both: reads the request,  *)
(* awaits the verdicts, counts, and writes its decision, whatever the      *)
(* status has become in between.                                           *)
(***************************************************************************)
\* Faulty variant: a half instead of two thirds.
HalfConfirmations == Cardinality(Quorum) \div 2

RequiredConfirmations == (2 * Cardinality(Quorum) + 2) \div 3

\* The nodes whose answer is hash, the leader's being the one read before.
Confirming(leaderHash, hash) ==
    {v \in setting.verifiers : verdict[v] = hash} \cup (IF hash = leaderHash THEN {Leader} ELSE {})

\* Faulty variant: only the leader's call finalizes.
CheckRequestForLeader(h) ==
    /\ pc[h] = "check"
    /\ IF status # "queued" \/ h[2] # Leader THEN Return(h)
       ELSE Goto(h, "tally", [Forgotten EXCEPT !.leader = leaderResult])
    /\ UNCHANGED <<row, assigned, verdict, notices, node>>

CheckRequest(h) ==
    /\ pc[h] = "check"
    /\ IF status # "queued" \/ leaderResult = NoHash THEN Return(h)
       ELSE Goto(h, "tally", [Forgotten EXCEPT !.leader = leaderResult])
    /\ UNCHANGED <<row, assigned, verdict, notices, node>>

\* Faulty variant: one verdict short.
SomeVerdictIn == \E v \in setting.verifiers : verdict[v] # NoHash

AllVerdictsIn == \A v \in setting.verifiers : verdict[v] # NoHash

\* The verdict flag CONFIRM or REJECT is not counted, only the hash; a hash
\* other than the leader's may win.
Tally(h) ==
    LET winners == {x \in Hash :
            Cardinality(Confirming(mem[h].leader, x)) >= RequiredConfirmations}
    IN  /\ pc[h] = "tally"
        /\ IF winners # {} THEN
                \E x \in winners : Goto(h, "accept", [mem[h] EXCEPT !.winner = x])
           ELSE IF AllVerdictsIn THEN Goto(h, "reject", mem[h])
           ELSE Return(h)
        /\ UNCHANGED <<row, assigned, verdict, notices, node>>

Notify(st, hash, cid) == notices' = notices \cup {[status |-> st, hash |-> hash, cid |-> cid]}

\* The callback carries the winning hash and the leader's output_cid.
Accept(h) ==
    /\ pc[h] = "accept"
    /\ status' = "accepted"
    /\ commitmentHash' = mem[h].winner
    /\ Notify("success", mem[h].winner, mem[h].leader.cid)
    /\ Return(h)
    /\ UNCHANGED <<leaderResult, assigned, verdict, node>>

\* Without the column the update raises, and the callback is not reached.
Reject(h) ==
    /\ pc[h] = "reject"
    /\ IF setting.column
       THEN status' = "rejected" /\ Notify("rejected", NoHash, mem[h].leader.cid)
       ELSE UNCHANGED <<status, notices>>
    /\ Return(h)
    /\ UNCHANGED <<leaderResult, commitmentHash, assigned, verdict, node>>

-----------------------------------------------------------------------------
(***************************************************************************)
(* _get_pending_assignments and _mark_node_assignment_failed: a claim      *)
(* older than five minutes is failed when the node that made it polls.     *)
(***************************************************************************)
ExpiryOf(n) == <<"expire", n, 0>>

Expire(n) ==
    /\ n \in setting.expiring
    /\ ~Running(ExpiryOf(n))
    /\ status = "queued"
    /\ assigned[n] = "claimed"
    /\ Goto(ExpiryOf(n), "read", Forgotten)
    /\ UNCHANGED <<row, assigned, verdict, notices, node>>

\* The staking contract is told of the failure before the handler goes on.
WriteFailed(n) ==
    /\ pc[ExpiryOf(n)] = "write"
    /\ WriteBack(ExpiryOf(n), "failed")
    /\ Goto(ExpiryOf(n), "allFailed", Forgotten)
    /\ UNCHANGED <<row, verdict, notices, node>>

CheckAllFailed(n) ==
    /\ pc[ExpiryOf(n)] = "allFailed"
    /\ IF status = "queued" /\ \A m \in Quorum : assigned[m] = "failed"
       THEN Goto(ExpiryOf(n), "close", Forgotten) ELSE Return(ExpiryOf(n))
    /\ UNCHANGED <<row, assigned, verdict, notices, node>>

CloseFailed(n) ==
    /\ pc[ExpiryOf(n)] = "close"
    /\ status' = "failed"
    /\ Notify("timeout", NoHash, 0)
    /\ Return(ExpiryOf(n))
    /\ UNCHANGED <<leaderResult, commitmentHash, assigned, verdict, node>>

-----------------------------------------------------------------------------
TaskStep(n) ==
    \/ Drop(n)
    \/ n = Leader /\ \E out \in Outputs : LeaderAnswer(out)
    \/ /\ n \in setting.verifiers
       /\ AskForLeaderResult(n) \/ \E out \in Outputs : VerifierAnswer(n, out)

HandlerStep(h) ==
    \/ ReadAssignments(h)
    \/ CheckRequest(h) \/ Tally(h) \/ Accept(h) \/ Reject(h)
    \/ h[1] = "claim" /\ WriteClaim(h[2])
    \/ h[1] = "answer" /\ h[2] = Leader /\ WriteLeaderResult(h[3])
    \/ h[1] = "expire" /\ (WriteFailed(h[2]) \/ CheckAllFailed(h[2]) \/ CloseFailed(h[2]))

Next ==
    /\ \/ \E n \in Quorum : Claim(n) \/ Register(n) \/ TaskStep(n) \/ Expire(n)
       \/ \E h \in Handlers : HandlerStep(h)
    /\ UNCHANGED setting

Spec == Init /\ [][Next]_vars

\* The event loop runs every handler on, and a task that runs ends, one way
\* or the other.  Whether a node claims the request, is started again or has
\* its claim expire is left open.
FairSpec ==
    /\ Spec
    /\ \A n \in Nodes : WF_vars(n \in Quorum /\ TaskStep(n) /\ UNCHANGED setting)
    /\ \A h \in Handlers : WF_vars(HandlerStep(h) /\ UNCHANGED setting)

-----------------------------------------------------------------------------
(***************************************************************************)
(* Only what a quorum answered is ever reported as a success: at least two *)
(* thirds of the nodes have answered with that hash, although a handler    *)
(* counts verdicts it reads later than the leader's result and anybody may *)
(* answer again in between.                                                *)
(***************************************************************************)
Answered(n, hash) == \E k \in DOMAIN answers[n] : answers[n][k] = hash

SuccessHasQuorum ==
    \A c \in notices : c.status = "success" =>
        3 * Cardinality({n \in Quorum : Answered(n, c.hash)}) >= 2 * Cardinality(Quorum)

(***************************************************************************)
(* No decision is lost: when every node has delivered and no handler is    *)
(* running, the request is decided, if the table has the column.  The last *)
(* answer may be counted by any of the handlers, or by none, were one to   *)
(* use an old read.                                                        *)
(***************************************************************************)
NoLostDecision ==
    (/\ setting.column /\ \A n \in Quorum : Delivered(n)
     /\ \A h \in Handlers : ~Running(h)) => status # "queued"

(***************************************************************************)
(* As long as no node answers twice and not every node has been failed,    *)
(* the handlers that race to finalize the request agree: the payment       *)
(* service never hears of two different outcomes, and the outcome it hears *)
(* of is the stored one, with the stored output.                           *)
(***************************************************************************)
OutcomesAgree ==
    (\A n \in Nodes : Len(answers[n]) <= 1) /\ (\A c \in notices : c.status # "timeout") =>
        /\ Cardinality(notices) <= 1
        /\ \A c \in notices :
            /\ status = IF c.status = "success" THEN "accepted" ELSE "rejected"
            /\ c.status = "success" => commitmentHash = c.hash
            /\ c.cid = leaderResult.cid

(***************************************************************************)
(* A request stays queued through the fault of a node only: if from some   *)
(* time on every node of the quorum has delivered or is at work, the       *)
(* request is decided.  Each handler that returns early, because it would  *)
(* have to wait for others, leaves the decision to one that comes later,   *)
(* also when verifiers ask too early, give up, and are started again.      *)
(***************************************************************************)
Silent(n) == ~Delivered(n) /\ task[n] # "running"

EventuallyDecided ==
    setting.column /\ <>[](\A n \in Quorum : ~Silent(n)) => <>(status # "queued")

=============================================================================
