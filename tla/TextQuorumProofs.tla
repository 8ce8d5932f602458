-------------------------- MODULE TextQuorumProofs --------------------------
(***************************************************************************)
(* Proofs about TextQuorum: what it reports, for any finite set of         *)
(* verifiers, any outputs, any bound on the answers and any settings.      *)
(***************************************************************************)
EXTENDS TextQuorum, FiniteSetTheorems, TLAPS

Places == {"none", "read", "write", "check", "tally", "accept", "reject", "allFailed",
           "close", "done"}
Memory == [leader : Hash \cup {NoHash}, winner : Hash \cup {NoHash},
           assigned : [Nodes -> AssignmentStatuses]]
Notice == [status : {"success", "rejected", "timeout"}, hash : Hash \cup {NoHash},
           cid : 0..MaxAnswers]

\* The places at which a handler still has the decision before it.
Deciding == {"check", "tally", "accept", "reject"}
\* Those at which it holds a copy of the leader's result.
Counting == {"tally", "accept", "reject"}

\* The tasks of the nodes.
TasksTyped ==
    /\ task \in [Nodes -> {"none", "running", "ended"}]
    /\ told \in [Verifiers -> 0..MaxAnswers]
    /\ asked \in [Verifiers -> 0..(LeaderPolls - 1)]

\* TypeOK, with answers a function.
TypeInv ==
    /\ setting \in Settings
    /\ status \in {"queued", "accepted", "rejected", "failed"}
    /\ leaderResult \in Hash \cup {NoHash} /\ commitmentHash \in Hash \cup {NoHash}
    /\ assigned \in [Nodes -> AssignmentStatuses]
    /\ verdict \in [Verifiers -> Hash \cup {NoHash}]
    /\ notices \subseteq Notice
    /\ pc \in [Handlers -> Places]
    /\ mem \in [Handlers -> Memory]
    /\ answers \in [Nodes -> Seq(Hash)]
    /\ \A n \in Nodes : Len(answers[n]) <= MaxAnswers
    /\ TasksTyped

\* A handler of an answer runs for an answer there is.
Calls == \A n \in Nodes : \A k \in 1..MaxAnswers :
            pc[AnswerOf(n, k)] # "none" => k <= Len(answers[n])

-----------------------------------------------------------------------------
(***************************************************************************)
(* The state of the request and of the handlers keeps its shape.           *)
(***************************************************************************)
LEMMA SettingFacts ==
    ASSUME setting \in Settings
    PROVE  /\ setting.verifiers \subseteq Verifiers /\ setting.verifiers # {}
           /\ setting.column \in BOOLEAN
           /\ Quorum \subseteq Nodes /\ Leader \in Quorum
  BY SettingAssumption DEF Quorum, Nodes

LEMMA NoHashIsNone == NoHash \notin Hash
  BY DEF NoHash, Hash

LEMMA HandlerFacts ==
    /\ \A n \in Nodes : ClaimOf(n) \in Handlers /\ ExpiryOf(n) \in Handlers
    /\ \A n \in Nodes : \A k \in 1..MaxAnswers : AnswerOf(n, k) \in Handlers
    /\ \A n \in Nodes : ClaimOf(n)[1] # "answer" /\ ExpiryOf(n)[1] # "answer"
    /\ \A h \in Handlers : h[2] \in Nodes
    /\ \A h \in Handlers : h[1] = "answer" => h[3] \in 1..MaxAnswers /\ h = AnswerOf(h[2], h[3])
    /\ \A h \in Handlers : h[1] = "claim" => h = ClaimOf(h[2])
    /\ \A h \in Handlers : h[1] = "expire" => h = ExpiryOf(h[2])
  BY DEF Handlers, ClaimOf, ExpiryOf, AnswerOf

\* Nobody but h moves.
Only(h) == \A g \in Handlers : g # h => pc'[g] = pc[g] /\ mem'[g] = mem[g]

LEMMA GotoMoves ==
    ASSUME TypeInv, NEW h \in Handlers, NEW p, NEW m, Goto(h, p, m)
    PROVE  pc'[h] = p /\ mem'[h] = m /\ Only(h)
  BY DEF Goto, TypeInv, Only

LEMMA GotoType ==
    ASSUME TypeInv, NEW h \in Handlers, NEW p \in Places, NEW m \in Memory, Goto(h, p, m)
    PROVE  pc' \in [Handlers -> Places] /\ mem' \in [Handlers -> Memory]
  BY DEF Goto, TypeInv

LEMMA ForgottenType == Forgotten \in Memory
  BY DEF Forgotten, Memory, AllPending, AssignmentStatuses

LEMMA MemoryType ==
    ASSUME NEW m \in Memory
    PROVE  /\ \A x \in Hash \cup {NoHash} :
                [m EXCEPT !.leader = x] \in Memory /\ [m EXCEPT !.winner = x] \in Memory
           /\ \A a \in [Nodes -> AssignmentStatuses] : [m EXCEPT !.assigned = a] \in Memory
           /\ \A x : [m EXCEPT !.leader = x].leader = x
           /\ \A x : [m EXCEPT !.winner = x].winner = x /\ [m EXCEPT !.winner = x].leader = m.leader
  BY DEF Memory

LEMMA ReturnType ==
    ASSUME TypeInv, NEW h \in Handlers, Return(h)
    PROVE  pc' \in [Handlers -> Places] /\ mem' \in [Handlers -> Memory]
  BY GotoType, ForgottenType DEF Return, Places

LEMMA WriteBackType ==
    ASSUME TypeInv, NEW h \in Handlers, NEW st \in AssignmentStatuses, WriteBack(h, st)
    PROVE  assigned' \in [Nodes -> AssignmentStatuses]
<1>1. mem[h].assigned \in [Nodes -> AssignmentStatuses] /\ h[2] \in Nodes
  BY HandlerFacts DEF TypeInv, Memory
<1> QED
  BY <1>1 DEF WriteBack

LEMMA NotifyType ==
    ASSUME TypeInv, NEW st \in {"success", "rejected", "timeout"}, NEW x \in Hash \cup {NoHash},
           NEW c \in 0..MaxAnswers, Notify(st, x, c)
    PROVE  notices' \subseteq Notice
  BY DEF Notify, TypeInv, Notice

LEMMA CidType ==
    ASSUME NEW x \in Hash \cup {NoHash}
    PROVE  x.cid \in 0..MaxAnswers
  BY BoundAssumption DEF Hash, NoHash

LEMMA AppendAnswer ==
    ASSUME TypeInv, NEW n \in Nodes, NEW x \in Hash, MayAnswer(n),
           answers' = [answers EXCEPT ![n] = Append(@, x)]
    PROVE  /\ Len(answers[n]) + 1 \in 1..MaxAnswers
           /\ answers' \in [Nodes -> Seq(Hash)]
           /\ \A m \in Nodes : Len(answers'[m]) <= MaxAnswers
           /\ answers'[n] = Append(answers[n], x)
           /\ \A m \in Nodes : m # n => answers'[m] = answers[m]
<1>1. answers[n] \in Seq(Hash) /\ Len(answers[n]) \in Nat /\ Len(answers[n]) < MaxAnswers
  BY BoundAssumption DEF TypeInv, MayAnswer
<1>2. Len(answers[n]) + 1 \in 1..MaxAnswers
  BY <1>1, BoundAssumption
<1>3. answers'[n] = Append(answers[n], x) /\ \A m \in Nodes : m # n => answers'[m] = answers[m]
  BY DEF TypeInv
<1>4. answers' \in [Nodes -> Seq(Hash)]
  BY <1>1 DEF TypeInv
<1>5. Len(answers'[n]) = Len(answers[n]) + 1
  BY <1>1, <1>3
<1>6. \A m \in Nodes : Len(answers'[m]) <= MaxAnswers
  BY <1>2, <1>3, <1>5 DEF TypeInv
<1> QED
  BY <1>2, <1>3, <1>4, <1>6

LEMMA EndType ==
    ASSUME TypeInv, NEW n \in Nodes, End(n)
    PROVE  TasksTyped'
  BY BoundAssumption DEF TypeInv, TasksTyped, End

LEMMA InitType == Init => TypeInv
<1> SUFFICES ASSUME Init PROVE TypeInv
  OBVIOUS
<1>1. pc \in [Handlers -> Places] /\ mem \in [Handlers -> Memory]
  BY ForgottenType DEF Init, Places
<1>2. answers \in [Nodes -> Seq(Hash)] /\ \A n \in Nodes : Len(answers[n]) <= MaxAnswers
  BY BoundAssumption DEF Init
<1>3. TasksTyped
  BY BoundAssumption DEF Init, TasksTyped
<1> QED
  BY <1>1, <1>2, <1>3 DEF Init, TypeInv, AllPending, AssignmentStatuses

\* The node of a claim or expiry, and the answer of a leader, a handler is of.
LEMMA StepsOfNext ==
    ASSUME Next
    PROVE  /\ setting' = setting
           /\ \/ \E n \in Quorum : Claim(n) \/ Expire(n)
              \/ \E out \in Outputs : LeaderAnswer(out)
              \/ \E n \in Quorum : Drop(n) \/ Register(n)
              \/ \E v \in setting.verifiers : AskForLeaderResult(v)
              \/ \E v \in setting.verifiers : \E out \in Outputs : VerifierAnswer(v, out)
              \/ \E h \in Handlers : ReadAssignments(h) \/ CheckRequest(h) \/ Tally(h)
                                     \/ Accept(h) \/ Reject(h)
              \/ \E n \in Nodes : WriteClaim(n) \/ WriteFailed(n) \/ CheckAllFailed(n)
                                  \/ CloseFailed(n)
              \/ \E k \in 1..MaxAnswers : WriteLeaderResult(k)
<1>1. CASE \E n \in Quorum : Claim(n) \/ Register(n) \/ TaskStep(n) \/ Expire(n)
  BY <1>1 DEF Next, TaskStep
<1>2. CASE \E h \in Handlers : HandlerStep(h)
  <2>1. PICK h \in Handlers : HandlerStep(h)
    BY <1>2
  <2>2. h[2] \in Nodes /\ (h[1] = "answer" => h[3] \in 1..MaxAnswers)
    BY HandlerFacts
  <2> QED
    BY <2>1, <2>2 DEF HandlerStep, Next
<1> QED
  BY <1>1, <1>2 DEF Next

LEMMA NextType == TypeInv /\ Calls /\ [Next]_vars => TypeInv'
<1> SUFFICES ASSUME TypeInv, Calls, [Next]_vars PROVE TypeInv'
  OBVIOUS
<1>1. CASE UNCHANGED vars
  BY <1>1 DEF TypeInv, TasksTyped, vars, row, node
<1> SUFFICES ASSUME Next PROVE TypeInv'
  BY <1>1
<1>2. /\ setting' = setting /\ setting \in Settings
      /\ setting.verifiers \subseteq Verifiers /\ Quorum \subseteq Nodes
      /\ Leader \in Nodes /\ Leader \notin Verifiers /\ Verifiers \subseteq Nodes
  BY StepsOfNext, SettingFacts, QuorumAssumption DEF TypeInv, Nodes
<1>3. ASSUME NEW h \in Handlers, NEW p \in Places, NEW m \in Memory, Goto(h, p, m),
             UNCHANGED <<row, assigned, verdict, notices, node>>
      PROVE  TypeInv'
  <2>1. pc' \in [Handlers -> Places] /\ mem' \in [Handlers -> Memory]
    BY <1>3, GotoType
  <2> QED
    BY <2>1, <1>2, <1>3 DEF TypeInv, TasksTyped, row, node
<1>4. ASSUME NEW h \in Handlers, NEW p \in Places, Goto(h, p, Forgotten),
             NEW st \in AssignmentStatuses, WriteBack(h, st),
             UNCHANGED <<row, verdict, notices, answers>>, TasksTyped'
      PROVE  TypeInv'
  <2>1. pc' \in [Handlers -> Places] /\ mem' \in [Handlers -> Memory]
    BY <1>4, GotoType, ForgottenType
  <2>2. assigned' \in [Nodes -> AssignmentStatuses]
    BY <1>4, WriteBackType
  <2> QED
    BY <2>1, <2>2, <1>2, <1>4 DEF TypeInv, row
<1>5. ASSUME NEW n \in Nodes, Claim(n) \/ Expire(n) PROVE TypeInv'
  <2>1. ClaimOf(n) \in Handlers /\ ExpiryOf(n) \in Handlers /\ "read" \in Places
    BY HandlerFacts DEF Places
  <2> QED
    BY <2>1, <1>3, <1>5, ForgottenType DEF Claim, Expire
<1>6. ASSUME NEW n \in Nodes, WriteClaim(n) \/ WriteFailed(n) \/ CheckAllFailed(n) PROVE TypeInv'
  <2>1. /\ ClaimOf(n) \in Handlers /\ ExpiryOf(n) \in Handlers
        /\ {"allFailed", "done", "close"} \subseteq Places
        /\ {"claimed", "failed"} \subseteq AssignmentStatuses
    BY HandlerFacts DEF Places, AssignmentStatuses
  <2>2. CASE WriteClaim(n)
    <3>1. TasksTyped'
      BY <2>2 DEF WriteClaim, TypeInv, TasksTyped
    <3> QED
      BY <2>1, <2>2, <3>1, <1>4 DEF WriteClaim, Return
  <2>3. CASE WriteFailed(n)
    <3>1. TasksTyped'
      BY <2>3 DEF WriteFailed, TypeInv, TasksTyped, node
    <3> QED
      BY <2>1, <2>3, <3>1, <1>4 DEF WriteFailed, node
  <2>4. CASE CheckAllFailed(n)
    BY <2>1, <2>4, <1>3, ForgottenType DEF CheckAllFailed, Return
  <2> QED
    BY <2>2, <2>3, <2>4, <1>6
<1>7. ASSUME NEW h \in Handlers, ReadAssignments(h) \/ CheckRequest(h) \/ Tally(h) PROVE TypeInv'
  <2>1. /\ {"write", "tally", "accept", "reject", "done"} \subseteq Places
        /\ mem[h] \in Memory
        /\ [mem[h] EXCEPT !.assigned = assigned] \in Memory
        /\ [Forgotten EXCEPT !.leader = leaderResult] \in Memory
        /\ \A x \in Hash : [mem[h] EXCEPT !.winner = x] \in Memory
    BY MemoryType, ForgottenType DEF TypeInv, Places
  <2>2. CASE ReadAssignments(h)
    BY <2>1, <2>2, <1>3 DEF ReadAssignments
  <2>3. CASE CheckRequest(h)
    BY <2>1, <2>3, <1>3, ForgottenType DEF CheckRequest, Return
  <2>4. CASE Tally(h)
    BY <2>1, <2>4, <1>3, ForgottenType DEF Tally, Return
  <2> QED
    BY <2>2, <2>3, <2>4, <1>7
<1>8. ASSUME NEW h \in Handlers, Return(h),
             NEW st \in {"success", "rejected", "timeout"}, NEW x \in Hash \cup {NoHash},
             NEW c \in 0..MaxAnswers, Notify(st, x, c) \/ UNCHANGED notices,
             status' \in {"queued", "accepted", "rejected", "failed"},
             commitmentHash' \in Hash \cup {NoHash},
             UNCHANGED <<leaderResult, assigned, verdict, node>>
      PROVE  TypeInv'
  <2>1. notices' \subseteq Notice
    BY <1>8, NotifyType DEF TypeInv
  <2>2. pc' \in [Handlers -> Places] /\ mem' \in [Handlers -> Memory]
    BY <1>8, ReturnType
  <2> QED
    BY <2>1, <2>2, <1>2, <1>8 DEF TypeInv, TasksTyped, node
<1>9. ASSUME NEW h \in Handlers, Accept(h) \/ Reject(h) PROVE TypeInv'
  <2>1. /\ mem[h].winner \in Hash \cup {NoHash} /\ mem[h].leader.cid \in 0..MaxAnswers
        /\ NoHash \in Hash \cup {NoHash}
    BY CidType DEF TypeInv, Memory
  <2>2. CASE Accept(h)
    BY <2>1, <2>2, <1>8 DEF Accept
  <2>3. CASE Reject(h)
    BY <2>1, <2>3, <1>8 DEF Reject, TypeInv
  <2> QED
    BY <2>2, <2>3, <1>9
<1>10. ASSUME NEW n \in Nodes, CloseFailed(n) PROVE TypeInv'
  <2>1. ExpiryOf(n) \in Handlers /\ 0 \in 0..MaxAnswers /\ NoHash \in Hash \cup {NoHash}
    BY HandlerFacts, BoundAssumption
  <2> QED
    BY <2>1, <1>8, <1>10 DEF CloseFailed, TypeInv
<1>11. ASSUME NEW out \in Outputs, LeaderAnswer(out) PROVE TypeInv'
  <2> DEFINE k == Len(answers[Leader]) + 1
             x == [cid |-> k, out |-> out]
  <2>1. /\ MayAnswer(Leader) /\ answers' = [answers EXCEPT ![Leader] = Append(@, x)]
        /\ Goto(AnswerOf(Leader, k), "read", Forgotten)
        /\ End(Leader) /\ UNCHANGED <<row, assigned, verdict, notices>>
    BY <1>11 DEF LeaderAnswer
  <2>2. k \in 1..MaxAnswers
    BY <2>1, <1>2, BoundAssumption DEF MayAnswer, TypeInv
  <2> HIDE DEF k
  <2>3. x \in Hash
    BY <2>2 DEF Hash
  <2> HIDE DEF x
  <2>4. answers' \in [Nodes -> Seq(Hash)] /\ \A m \in Nodes : Len(answers'[m]) <= MaxAnswers
    BY <2>1, <2>3, <1>2, AppendAnswer
  <2>5. pc' \in [Handlers -> Places] /\ mem' \in [Handlers -> Memory]
    BY <2>1, <2>2, <1>2, HandlerFacts, GotoType, ForgottenType DEF Places
  <2>6. TasksTyped'
    BY <2>1, <1>2, EndType
  <2> QED
    BY <2>1, <2>4, <2>5, <2>6, <1>2 DEF TypeInv, row
<1>12. ASSUME NEW v \in setting.verifiers, AskForLeaderResult(v) PROVE TypeInv'
  <2>1. leaderResult.cid \in 0..MaxAnswers
    BY CidType DEF TypeInv
  <2>2. TasksTyped'
    <3>1. CASE End(v)
      BY <3>1, <1>2, EndType
    <3>2. CASE told' = [told EXCEPT ![v] = leaderResult.cid] /\ UNCHANGED <<task, asked>>
      BY <3>2, <2>1 DEF TypeInv, TasksTyped
    <3>3. CASE /\ asked[v] + 1 < LeaderPolls /\ asked' = [asked EXCEPT ![v] = @ + 1]
               /\ UNCHANGED <<task, told>>
      <4>1. asked[v] + 1 \in 0..(LeaderPolls - 1)
        BY <3>3, <1>2, BoundAssumption DEF TypeInv, TasksTyped
      <4> QED
        BY <3>3, <4>1 DEF TypeInv, TasksTyped
    <3> QED
      BY <1>12, <3>1, <3>2, <3>3 DEF AskForLeaderResult
  <2> QED
    BY <2>2, <1>2, <1>12 DEF AskForLeaderResult, TypeInv, row
<1>13. ASSUME NEW v \in setting.verifiers, NEW out \in Outputs, VerifierAnswer(v, out)
       PROVE  TypeInv'
  <2> DEFINE k == Len(answers[v]) + 1
             x == [cid |-> told[v], out |-> out]
  <2>1. /\ MayAnswer(v) /\ told[v] # 0 /\ answers' = [answers EXCEPT ![v] = Append(@, x)]
        /\ End(v)
        /\ verdict' = [verdict EXCEPT ![v] = x]
        /\ Goto(AnswerOf(v, k), "check", Forgotten)
        /\ UNCHANGED <<row, assigned, notices>>
    BY <1>13 DEF VerifierAnswer
  <2>2. v \in Verifiers /\ v \in Nodes /\ told[v] \in 1..MaxAnswers
    BY <2>1, <1>2, BoundAssumption DEF TypeInv, TasksTyped
  <2>3. k \in 1..MaxAnswers
    BY <2>1, <2>2, BoundAssumption DEF MayAnswer, TypeInv
  <2> HIDE DEF k
  <2>4. x \in Hash
    BY <2>2 DEF Hash
  <2> HIDE DEF x
  <2>5. answers' \in [Nodes -> Seq(Hash)] /\ \A m \in Nodes : Len(answers'[m]) <= MaxAnswers
    BY <2>1, <2>2, <2>4, AppendAnswer
  <2>6. pc' \in [Handlers -> Places] /\ mem' \in [Handlers -> Memory]
    BY <2>1, <2>2, <2>3, HandlerFacts, GotoType, ForgottenType DEF Places
  <2>7. TasksTyped' /\ verdict' \in [Verifiers -> Hash \cup {NoHash}]
    <3>1. verdict \in [Verifiers -> Hash \cup {NoHash}]
      BY DEF TypeInv
    <3> QED
      BY <2>1, <2>2, <2>4, <3>1, EndType
  <2>8. /\ setting' \in Settings /\ status' \in {"queued", "accepted", "rejected", "failed"}
        /\ leaderResult' \in Hash \cup {NoHash} /\ commitmentHash' \in Hash \cup {NoHash}
        /\ assigned' \in [Nodes -> AssignmentStatuses] /\ notices' \subseteq Notice
    BY <2>1, <1>2 DEF TypeInv, row
  <2> QED
    BY <2>5, <2>6, <2>7, <2>8 DEF TypeInv
<1>14. ASSUME NEW k \in 1..MaxAnswers, WriteLeaderResult(k) PROVE TypeInv'
  <2> DEFINE h == AnswerOf(Leader, k)
             x == answers[Leader][k]
  <2>1. /\ pc[h] = "write" /\ leaderResult' = x /\ commitmentHash' = x
        /\ WriteBack(h, "completed") /\ Goto(h, "check", Forgotten)
        /\ UNCHANGED <<status, verdict, notices, node>>
    BY <1>14 DEF WriteLeaderResult
  <2>2. h \in Handlers /\ "check" \in Places /\ "completed" \in AssignmentStatuses
    BY <1>2, HandlerFacts DEF Places, AssignmentStatuses
  <2>3. x \in Hash
    <3>1. k \in 1..Len(answers[Leader])
      BY <1>2, <2>1 DEF Calls
    <3> QED
      BY <3>1, <1>2 DEF TypeInv
  <2> HIDE DEF x
  <2>4. pc' \in [Handlers -> Places] /\ mem' \in [Handlers -> Memory]
    BY <2>1, <2>2, GotoType, ForgottenType
  <2>5. assigned' \in [Nodes -> AssignmentStatuses]
    BY <2>1, <2>2, WriteBackType
  <2> QED
    BY <2>1, <2>3, <2>4, <2>5, <1>2 DEF TypeInv, TasksTyped, node
<1>15. ASSUME NEW n \in Nodes, Drop(n) \/ Register(n) PROVE TypeInv'
  <2>1. TasksTyped'
    BY <1>15, EndType DEF Drop, Register, TypeInv, TasksTyped
  <2> QED
    BY <2>1, <1>2, <1>15 DEF Drop, Register, TypeInv, row
<1> QED
  BY <1>2, <1>5, <1>6, <1>7, <1>9, <1>10, <1>11, <1>12, <1>13, <1>14, <1>15, StepsOfNext

-----------------------------------------------------------------------------
(***************************************************************************)
(* What a step does to the decision.  Most steps only move one handler     *)
(* between places that have nothing to do with it.                         *)
(***************************************************************************)
Quiet(h) ==
    /\ UNCHANGED <<row, verdict, notices, answers>>
    /\ Only(h)
    /\ pc'[h] \in {"read", "write", "allFailed", "close", "done"}
    /\ h[1] = "answer" => pc[h] # "none"
    /\ h[1] = "answer" /\ pc'[h] \in {"read", "write"} => pc[h] = "read"
    /\ pc[h] \in Deciding =>
          ~setting.column \/ status # "queued" \/ \E n \in Quorum : ~Delivered(n)

\* An answer x of n is added, and is handled from place p on.
Answers(n, x, p) ==
    /\ MayAnswer(n) /\ x \in Hash
    /\ answers' = [answers EXCEPT ![n] = Append(@, x)]
    /\ UNCHANGED <<row, notices>>
    /\ \E k \in 1..MaxAnswers :
        /\ k = Len(answers[n]) + 1
        /\ Only(AnswerOf(n, k))
        /\ pc'[AnswerOf(n, k)] = p

\* The leader's answer k is stored.
Stores(k) ==
    /\ pc[AnswerOf(Leader, k)] = "write"
    /\ k \in 1..Len(answers[Leader])
    /\ leaderResult' = answers[Leader][k] /\ commitmentHash' = answers[Leader][k]
    /\ Only(AnswerOf(Leader, k))
    /\ pc'[AnswerOf(Leader, k)] = "check"
    /\ UNCHANGED <<status, verdict, notices, answers>>

\* Handler h starts to count, finds a winner, or finds none.
Looks(h) ==
    /\ pc[h] = "check" /\ status = "queued" /\ leaderResult # NoHash
    /\ Only(h) /\ pc'[h] = "tally" /\ mem'[h].leader = leaderResult
    /\ UNCHANGED <<row, verdict, notices, answers>>
Finds(h, x) ==
    /\ pc[h] = "tally" /\ x \in Hash
    /\ Cardinality(Confirming(mem[h].leader, x)) >= RequiredConfirmations
    /\ Only(h) /\ pc'[h] = "accept"
    /\ mem'[h].leader = mem[h].leader /\ mem'[h].winner = x
    /\ UNCHANGED <<row, verdict, notices, answers>>
FindsNone(h) ==
    /\ pc[h] = "tally" /\ AllVerdictsIn
    /\ \A x \in Hash : ~(Cardinality(Confirming(mem[h].leader, x)) >= RequiredConfirmations)
    /\ Only(h) /\ pc'[h] = "reject" /\ mem'[h].leader = mem[h].leader
    /\ UNCHANGED <<row, verdict, notices, answers>>

\* Handler h writes the decision st and tells the payment service of it.
Decides(h, st, said, x, cid) ==
    /\ status' = st
    /\ notices' = notices \cup {[status |-> said, hash |-> x, cid |-> cid]}
    /\ Only(h) /\ pc'[h] = "done"
    /\ UNCHANGED <<leaderResult, verdict, answers>>
Accepts(h) ==
    /\ pc[h] = "accept" /\ commitmentHash' = mem[h].winner
    /\ Decides(h, "accepted", "success", mem[h].winner, mem[h].leader.cid)
Rejects(h) ==
    /\ pc[h] = "reject" /\ UNCHANGED commitmentHash
    /\ Decides(h, "rejected", "rejected", NoHash, mem[h].leader.cid)
Closes(h) ==
    /\ pc[h] = "close" /\ UNCHANGED commitmentHash
    /\ Decides(h, "failed", "timeout", NoHash, 0)

VerdictOf(v, x) == Answers(v, x, "check") /\ verdict' = [verdict EXCEPT ![v] = x]

LEMMA Kinds ==
    ASSUME TypeInv, Calls, Next
    PROVE  \/ \E h \in Handlers : Quiet(h)
           \/ UNCHANGED <<row, verdict, notices, answers, pc, mem>>
           \/ \E x \in Hash : Answers(Leader, x, "read") /\ verdict' = verdict
           \/ \E v \in setting.verifiers : \E x \in Hash : VerdictOf(v, x)
           \/ \E k \in 1..MaxAnswers : Stores(k)
           \/ \E h \in Handlers : Looks(h) \/ FindsNone(h) \/ \E x \in Hash : Finds(h, x)
           \/ \E h \in Handlers : Accepts(h) \/ Rejects(h) \/ Closes(h)
<1> DEFINE Kind == \/ \E h \in Handlers : Quiet(h)
                   \/ UNCHANGED <<row, verdict, notices, answers, pc, mem>>
                   \/ \E x \in Hash : Answers(Leader, x, "read") /\ verdict' = verdict
                   \/ \E v \in setting.verifiers : \E x \in Hash : VerdictOf(v, x)
                   \/ \E k \in 1..MaxAnswers : Stores(k)
                   \/ \E h \in Handlers : Looks(h) \/ FindsNone(h) \/ \E x \in Hash : Finds(h, x)
                   \/ \E h \in Handlers : Accepts(h) \/ Rejects(h) \/ Closes(h)
<1> SUFFICES Kind
  OBVIOUS
<1>1. /\ setting.verifiers \subseteq Verifiers /\ Quorum \subseteq Nodes /\ Leader \in Nodes
      /\ Verifiers \subseteq Nodes /\ Leader \in Quorum /\ setting.verifiers \subseteq Quorum
  BY SettingFacts DEF TypeInv, Nodes, Quorum
<1>2. ASSUME NEW n \in Nodes, Claim(n) \/ Expire(n) PROVE Kind
  <2>1. PICK h \in {ClaimOf(n), ExpiryOf(n)} :
            /\ Goto(h, "read", Forgotten) /\ pc[h] \notin Deciding
            /\ UNCHANGED <<row, verdict, notices, node>>
    BY <1>2 DEF Claim, Expire, Running, Deciding
  <2>2. h \in Handlers /\ h[1] # "answer"
    BY HandlerFacts
  <2>3. pc'[h] = "read" /\ Only(h)
    BY <2>1, <2>2, GotoMoves
  <2>4. Quiet(h)
    BY <2>1, <2>2, <2>3 DEF Quiet, node
  <2> QED
    BY <2>2, <2>4
<1>3. ASSUME NEW n \in Nodes, WriteClaim(n) \/ WriteFailed(n) \/ CheckAllFailed(n) PROVE Kind
  <2>1. PICK h \in {ClaimOf(n), ExpiryOf(n)}, p \in {"allFailed", "close", "done"} :
            /\ Goto(h, p, Forgotten) /\ pc[h] \notin Deciding
            /\ UNCHANGED <<row, verdict, notices, answers>>
    BY <1>3 DEF WriteClaim, WriteFailed, CheckAllFailed, Return, Deciding, node
  <2>2. h \in Handlers /\ h[1] # "answer"
    BY HandlerFacts
  <2>3. pc'[h] = p /\ Only(h)
    BY <2>1, <2>2, GotoMoves
  <2>4. Quiet(h)
    BY <2>1, <2>2, <2>3 DEF Quiet, node
  <2> QED
    BY <2>2, <2>4
<1>4. ASSUME NEW h \in Handlers, ReadAssignments(h) PROVE Kind
  <2>1. /\ pc[h] = "read" /\ pc'[h] = "write" /\ Only(h)
        /\ UNCHANGED <<row, verdict, notices, node>>
    BY <1>4, GotoMoves DEF ReadAssignments
  <2>2. Quiet(h)
    BY <2>1 DEF Quiet, node, Deciding
  <2> QED
    BY <2>2
<1>5. ASSUME NEW h \in Handlers, Return(h), pc[h] \in Deciding,
             ~setting.column \/ status # "queued" \/ \E n \in Quorum : ~Delivered(n),
             UNCHANGED <<row, verdict, notices, node>>
      PROVE  Kind
  <2>1. pc'[h] = "done" /\ Only(h)
    BY <1>5, GotoMoves DEF Return
  <2>2. Quiet(h)
    BY <1>5, <2>1 DEF Quiet, node, Deciding
  <2> QED
    BY <2>2
<1>6. ASSUME NEW h \in Handlers, CheckRequest(h) PROVE Kind
  <2>1. CASE status # "queued" \/ leaderResult = NoHash
    <3>1. status # "queued" \/ ~Delivered(Leader)
      BY <2>1 DEF Delivered
    <3>2. /\ Return(h) /\ pc[h] \in Deciding
          /\ UNCHANGED <<row, verdict, notices, node>>
      BY <1>6, <2>1 DEF CheckRequest, Deciding
    <3> QED
      BY <1>1, <1>5, <3>1, <3>2
  <2>2. CASE status = "queued" /\ leaderResult # NoHash
    <3> DEFINE m == [Forgotten EXCEPT !.leader = leaderResult]
    <3>1. /\ pc[h] = "check" /\ Goto(h, "tally", m)
          /\ UNCHANGED <<row, verdict, notices, node>>
      BY <1>6, <2>2 DEF CheckRequest
    <3>2. m.leader = leaderResult
      BY MemoryType, ForgottenType
    <3> HIDE DEF m
    <3>3. Looks(h)
      BY <2>2, <3>1, <3>2, GotoMoves DEF Looks, node
    <3> QED
      BY <3>3
  <2> QED
    BY <2>1, <2>2
<1>7. ASSUME NEW h \in Handlers, Tally(h) PROVE Kind
  <2> DEFINE W(x) == Cardinality(Confirming(mem[h].leader, x)) >= RequiredConfirmations
  <2>1. pc[h] = "tally" /\ UNCHANGED <<row, verdict, notices, node>> /\ mem[h] \in Memory
    BY <1>7 DEF Tally, TypeInv
  <2>2. CASE \E x \in Hash : W(x)
    <3>1. PICK x \in Hash : W(x) /\ Goto(h, "accept", [mem[h] EXCEPT !.winner = x])
      BY <1>7, <2>2 DEF Tally
    <3> DEFINE m == [mem[h] EXCEPT !.winner = x]
    <3>2. m.leader = mem[h].leader /\ m.winner = x
      BY <2>1, MemoryType
    <3> HIDE DEF m
    <3>3. pc'[h] = "accept" /\ mem'[h] = m /\ Only(h)
      BY <3>1, GotoMoves DEF m
    <3>4. Finds(h, x)
      BY <2>1, <3>1, <3>2, <3>3 DEF Finds, node
    <3> QED
      BY <3>4
  <2>3. CASE ~(\E x \in Hash : W(x))
    <3>1. IF AllVerdictsIn THEN Goto(h, "reject", mem[h]) ELSE Return(h)
      BY <1>7, <2>3 DEF Tally
    <3>2. CASE AllVerdictsIn
      <4>1. FindsNone(h)
        BY <2>1, <2>3, <3>1, <3>2, GotoMoves DEF FindsNone, node
      <4> QED
        BY <4>1
    <3>3. CASE ~AllVerdictsIn
      <4>1. \E n \in Quorum : ~Delivered(n)
        BY <3>3, <1>1, QuorumAssumption DEF AllVerdictsIn, Delivered
      <4>2. pc[h] \in Deciding
        BY <2>1 DEF Deciding
      <4> QED
        BY <1>5, <2>1, <3>1, <3>3, <4>1, <4>2
    <3> QED
      BY <3>2, <3>3
  <2> QED
    BY <2>2, <2>3
<1>8. ASSUME NEW h \in Handlers, Accept(h) PROVE Kind
  <2>1. Accepts(h)
    BY <1>8, GotoMoves DEF Accept, Accepts, Decides, Notify, Return, node
  <2> QED
    BY <2>1
<1>9. ASSUME NEW h \in Handlers, Reject(h) PROVE Kind
  <2>1. CASE setting.column
    <3>1. Rejects(h)
      BY <1>9, <2>1, GotoMoves DEF Reject, Rejects, Decides, Notify, Return, node
    <3> QED
      BY <3>1
  <2>2. CASE ~setting.column
    <3>1. Return(h) /\ pc[h] \in Deciding /\ UNCHANGED <<row, verdict, notices, node>>
      BY <1>9, <2>2 DEF Reject, Deciding, row
    <3> QED
      BY <1>5, <2>2, <3>1
  <2> QED
    BY <2>1, <2>2
<1>10. ASSUME NEW n \in Nodes, CloseFailed(n) PROVE Kind
  <2>1. ExpiryOf(n) \in Handlers
    BY HandlerFacts
  <2>2. Closes(ExpiryOf(n))
    BY <1>10, <2>1, GotoMoves DEF CloseFailed, Closes, Decides, Notify, Return, node
  <2> QED
    BY <2>1, <2>2
<1>11. ASSUME NEW out \in Outputs, LeaderAnswer(out) PROVE Kind
  <2> DEFINE k == Len(answers[Leader]) + 1
             x == [cid |-> k, out |-> out]
  <2>1. /\ MayAnswer(Leader) /\ answers' = [answers EXCEPT ![Leader] = Append(@, x)]
        /\ Goto(AnswerOf(Leader, k), "read", Forgotten)
        /\ UNCHANGED <<row, verdict, notices>>
    BY <1>11 DEF LeaderAnswer
  <2>2. k \in 1..MaxAnswers /\ k = Len(answers[Leader]) + 1
    BY <2>1, <1>1, BoundAssumption DEF MayAnswer, TypeInv
  <2> HIDE DEF k
  <2>3. x \in Hash
    BY <2>2 DEF Hash
  <2> HIDE DEF x
  <2>4. pc'[AnswerOf(Leader, k)] = "read" /\ Only(AnswerOf(Leader, k))
    BY <2>1, <2>2, <1>1, HandlerFacts, GotoMoves
  <2>5. Answers(Leader, x, "read") /\ verdict' = verdict
    BY <2>1, <2>2, <2>3, <2>4 DEF Answers
  <2> QED
    BY <2>3, <2>5
<1>12. ASSUME NEW n \in Nodes, Drop(n) \/ Register(n) \/ AskForLeaderResult(n) PROVE Kind
  BY <1>12 DEF Drop, Register, AskForLeaderResult
<1>13. ASSUME NEW v \in setting.verifiers, NEW out \in Outputs, VerifierAnswer(v, out) PROVE Kind
  <2> DEFINE k == Len(answers[v]) + 1
             x == [cid |-> told[v], out |-> out]
  <2>1. /\ MayAnswer(v) /\ told[v] # 0 /\ answers' = [answers EXCEPT ![v] = Append(@, x)]
        /\ verdict' = [verdict EXCEPT ![v] = x]
        /\ Goto(AnswerOf(v, k), "check", Forgotten)
        /\ UNCHANGED <<row, notices>>
    BY <1>13 DEF VerifierAnswer
  <2>2. v \in Verifiers /\ v \in Nodes /\ told[v] \in 1..MaxAnswers
    BY <2>1, <1>1, BoundAssumption DEF TypeInv, TasksTyped
  <2>3. k \in 1..MaxAnswers /\ k = Len(answers[v]) + 1
    BY <2>1, <2>2, BoundAssumption DEF MayAnswer, TypeInv
  <2> HIDE DEF k
  <2>4. x \in Hash
    BY <2>2 DEF Hash
  <2> HIDE DEF x
  <2>5. pc'[AnswerOf(v, k)] = "check" /\ Only(AnswerOf(v, k))
    BY <2>1, <2>2, <2>3, HandlerFacts, GotoMoves
  <2>6. VerdictOf(v, x)
    BY <2>1, <2>3, <2>4, <2>5 DEF Answers, VerdictOf
  <2> QED
    BY <2>4, <2>6
<1>14. ASSUME NEW k \in 1..MaxAnswers, WriteLeaderResult(k) PROVE Kind
  <2>1. AnswerOf(Leader, k) \in Handlers /\ pc[AnswerOf(Leader, k)] = "write"
    BY <1>1, <1>14, HandlerFacts DEF WriteLeaderResult
  <2>2. k \in 1..Len(answers[Leader])
    BY <1>1, <2>1 DEF Calls, TypeInv
  <2>3. Stores(k)
    BY <1>14, <2>1, <2>2, GotoMoves DEF WriteLeaderResult, Stores, node
  <2> QED
    BY <2>3
<1> HIDE DEF Kind
<1>15. \A v \in setting.verifiers : v \in Nodes
  BY <1>1
<1> QED
  BY <1>1, <1>2, <1>3, <1>4, <1>6, <1>7, <1>8, <1>9, <1>10, <1>11, <1>12, <1>13, <1>14, <1>15,
     StepsOfNext
-----------------------------------------------------------------------------
(***************************************************************************)
(* Answers are only added: what a node has answered, and what a quorum has *)
(* answered, stays so.                                                     *)
(***************************************************************************)
Supported(x) == 3 * Cardinality({n \in Quorum : Answered(n, x)}) >= 2 * Cardinality(Quorum)

LEMMA AnswersGrow ==
    ASSUME TypeInv, Calls, Next
    PROVE  /\ \A n \in Nodes : Len(answers[n]) <= Len(answers'[n])
           /\ \A n \in Nodes : \A k \in 1..Len(answers[n]) : answers'[n][k] = answers[n][k]
<1>1. CASE answers' = answers
  BY <1>1 DEF TypeInv
<1>2. ASSUME NEW n \in Nodes, NEW x \in Hash, NEW p, Answers(n, x, p)
      PROVE  /\ \A m \in Nodes : Len(answers[m]) <= Len(answers'[m])
             /\ \A m \in Nodes : \A k \in 1..Len(answers[m]) : answers'[m][k] = answers[m][k]
  <2>1. /\ answers'[n] = Append(answers[n], x) /\ answers[n] \in Seq(Hash)
        /\ \A m \in Nodes : m # n => answers'[m] = answers[m]
    BY <1>2, AppendAnswer DEF Answers, TypeInv
  <2>2. ASSUME NEW m \in Nodes
        PROVE  /\ Len(answers[m]) <= Len(answers'[m])
               /\ \A k \in 1..Len(answers[m]) : answers'[m][k] = answers[m][k]
    <3>1. PICK s \in Seq(Hash) : s = answers[m]
      BY DEF TypeInv
    <3>2. answers'[m] = s \/ answers'[m] = Append(s, x)
      BY <2>1, <3>1
    <3> QED
      BY <3>1, <3>2
  <2> QED
    BY <2>2
<1>3. \/ answers' = answers
      \/ \E n \in Nodes : \E x \in Hash : \E p : Answers(n, x, p)
  <2>1. Leader \in Nodes /\ \A v \in setting.verifiers : v \in Nodes
    BY SettingFacts DEF TypeInv, Nodes
  <2> QED
    BY <2>1, Kinds DEF Quiet, VerdictOf, Stores, Looks, Finds, FindsNone, Decides,
       Accepts, Rejects, Closes
<1> QED
  BY <1>1, <1>2, <1>3

LEMMA AnsweredStays ==
    ASSUME TypeInv, Calls, Next, NEW n \in Nodes, NEW x, Answered(n, x)
    PROVE  Answered(n, x)'
<1>1. TypeInv'
  BY NextType
<1>2. answers[n] \in Seq(Hash) /\ answers'[n] \in Seq(Hash)
  BY <1>1 DEF TypeInv
<1>3. PICK k \in DOMAIN answers[n] : answers[n][k] = x
  BY DEF Answered
<1>4. k \in 1..Len(answers[n]) /\ k \in DOMAIN answers'[n]
  BY <1>2, <1>3, AnswersGrow
<1>5. answers'[n][k] = x
  BY <1>3, <1>4, AnswersGrow
<1> QED
  BY <1>4, <1>5 DEF Answered

LEMMA QuorumFinite ==
    ASSUME setting \in Settings
    PROVE  /\ IsFiniteSet(Quorum) /\ Cardinality(Quorum) \in Nat \ {0}
           /\ \A S \in SUBSET Quorum : /\ IsFiniteSet(S) /\ Cardinality(S) \in Nat
                                       /\ Cardinality(S) <= Cardinality(Quorum)
<1>1. IsFiniteSet(Nodes)
  BY QuorumAssumption, FS_AddElement, FS_EmptySet, FS_Singleton, FS_Union DEF Nodes
<1>2. IsFiniteSet(Quorum) /\ Leader \in Quorum
  BY <1>1, SettingFacts, FS_Subset
<1>3. \A S \in SUBSET Quorum : IsFiniteSet(S) /\ Cardinality(S) <= Cardinality(Quorum)
  BY <1>2, FS_Subset
<1>4. Cardinality(Quorum) # 0
  BY <1>2, FS_EmptySet
<1> QED
  BY <1>2, <1>3, <1>4, FS_CardinalityType

LEMMA SupportStays ==
    ASSUME TypeInv, Calls, Next, NEW x, Supported(x)
    PROVE  Supported(x)'
<1> DEFINE A == {n \in Quorum : Answered(n, x)}
           B == {n \in Quorum : Answered(n, x)'}
<1>1. setting' = setting /\ setting \in Settings /\ Quorum \subseteq Nodes
  BY StepsOfNext, SettingFacts DEF TypeInv
<1>2. A \subseteq B /\ B \subseteq Quorum
  BY <1>1, AnsweredStays
<1>3. /\ Cardinality(A) <= Cardinality(B)
      /\ Cardinality(A) \in Nat /\ Cardinality(B) \in Nat /\ Cardinality(Quorum) \in Nat
  <2>1. IsFiniteSet(B)
    BY <1>1, <1>2, QuorumFinite
  <2> QED
    BY <2>1, <1>1, <1>2, FS_Subset, QuorumFinite
<1>4. Quorum' = Quorum
  BY <1>1 DEF Quorum
<1>5. 3 * Cardinality(A) >= 2 * Cardinality(Quorum)
  BY DEF Supported
<1>6. 3 * Cardinality(B) >= 2 * Cardinality(Quorum)
  <2> HIDE DEF A, B
  <2> QED
    BY <1>3, <1>5
<1>7. {n \in Quorum : Answered(n, x)}' = B
  BY <1>4
<1> QED
  BY <1>4, <1>6, <1>7 DEF Supported

-----------------------------------------------------------------------------
(***************************************************************************)
(* What a handler has read was answered: the leader's result, the verdicts *)
(* and so the hash of a winner.                                            *)
(***************************************************************************)
Sourced ==
    /\ leaderResult # NoHash => Answered(Leader, leaderResult)
    /\ \A v \in Verifiers : verdict[v] # NoHash => Answered(v, verdict[v])

Noted(h) ==
    /\ pc[h] \in Counting => mem[h].leader # NoHash /\ Answered(Leader, mem[h].leader)
    /\ pc[h] = "accept" => Supported(mem[h].winner)

Reported == \A c \in notices : c.status = "success" => Supported(c.hash)

Backed == Calls /\ Sourced /\ (\A h \in Handlers : Noted(h)) /\ Reported

LEMMA NextCalls ==
    ASSUME TypeInv, Calls, Next
    PROVE  Calls'
<1> SUFFICES ASSUME NEW n \in Nodes, NEW k \in 1..MaxAnswers, pc'[AnswerOf(n, k)] # "none"
             PROVE  k <= Len(answers'[n])
  BY DEF Calls
<1> DEFINE g == AnswerOf(n, k)
<1>1. g \in Handlers /\ g[1] = "answer" /\ g[2] = n /\ g[3] = k
  BY HandlerFacts DEF AnswerOf
<1>2. ASSUME pc[g] # "none" PROVE k <= Len(answers'[n])
  <2>1. /\ k <= Len(answers[n]) /\ Len(answers[n]) <= Len(answers'[n])
        /\ Len(answers[n]) \in Nat /\ Len(answers'[n]) \in Nat
    BY <1>2, AnswersGrow, NextType DEF Calls, TypeInv
  <2> QED
    BY <2>1
<1> HIDE DEF g
<1>3. ASSUME NEW h \in Handlers, Only(h), h[1] = "answer" => pc[h] # "none"
      PROVE  k <= Len(answers'[n])
  <2>1. pc[g] # "none"
    BY <1>1, <1>3 DEF Only, g
  <2> QED
    BY <2>1, <1>2
<1>4. ASSUME NEW m \in Nodes, NEW x \in Hash, NEW p, Answers(m, x, p)
      PROVE  k <= Len(answers'[n])
  <2>1. PICK j \in 1..MaxAnswers : j = Len(answers[m]) + 1 /\ Only(AnswerOf(m, j))
    BY <1>4 DEF Answers
  <2>2. CASE g = AnswerOf(m, j)
    <3>1. n = m /\ k = j
      BY <1>1, <2>2 DEF AnswerOf
    <3>2. answers'[m] = Append(answers[m], x) /\ answers[m] \in Seq(Hash)
      BY <1>4, AppendAnswer DEF Answers, TypeInv
    <3> QED
      BY <2>1, <3>1, <3>2
  <2>3. CASE g # AnswerOf(m, j)
    <3>1. pc[g] # "none"
      BY <1>1, <2>1, <2>3 DEF Only, g
    <3> QED
      BY <3>1, <1>2
  <2> QED
    BY <2>2, <2>3
<1>5. CASE \E h \in Handlers : Quiet(h)
  BY <1>3, <1>5 DEF Quiet
<1>6. CASE UNCHANGED <<row, verdict, notices, answers, pc, mem>>
  BY <1>2, <1>6 DEF g
<1>7. Leader \in Nodes /\ \A v \in setting.verifiers : v \in Nodes
  BY SettingFacts DEF TypeInv, Nodes
<1>8. CASE \E x \in Hash : Answers(Leader, x, "read") /\ verdict' = verdict
  BY <1>4, <1>7, <1>8
<1>9. CASE \E v \in setting.verifiers : \E x \in Hash : VerdictOf(v, x)
  BY <1>4, <1>7, <1>9 DEF VerdictOf
<1>10. CASE \E j \in 1..MaxAnswers : Stores(j)
  <2>1. PICK j \in 1..MaxAnswers : Stores(j)
    BY <1>10
  <2> QED
    BY <1>3, <1>7, <2>1, HandlerFacts DEF Stores
<1>11. CASE \E h \in Handlers : Looks(h) \/ FindsNone(h) \/ \E x \in Hash : Finds(h, x)
  BY <1>3, <1>11 DEF Looks, Finds, FindsNone
<1>12. CASE \E h \in Handlers : Accepts(h) \/ Rejects(h) \/ Closes(h)
  BY <1>3, <1>12 DEF Accepts, Rejects, Closes, Decides
<1> QED
  BY <1>5, <1>6, <1>8, <1>9, <1>10, <1>11, <1>12, Kinds

\* A winner has its quorum: who confirms it has answered it.
LEMMA WinnerSupported ==
    ASSUME TypeInv, Sourced, NEW l, Answered(Leader, l), NEW x \in Hash,
           Cardinality(Confirming(l, x)) >= RequiredConfirmations
    PROVE  Supported(x)
<1> DEFINE C == Confirming(l, x)
           A == {n \in Quorum : Answered(n, x)}
           q == Cardinality(Quorum)
<1>1. /\ setting \in Settings
      /\ setting.verifiers \subseteq Verifiers /\ setting.verifiers \subseteq Quorum
      /\ Leader \in Quorum
  BY SettingFacts DEF TypeInv, Quorum
<1>2. C \subseteq A
  <2>1. ASSUME NEW v \in setting.verifiers, verdict[v] = x PROVE Answered(v, x)
    BY <1>1, <2>1, NoHashIsNone DEF Sourced
  <2> QED
    BY <1>1, <2>1 DEF Confirming
<1>3. /\ q \in Nat /\ Cardinality(C) \in Nat /\ Cardinality(A) \in Nat
      /\ Cardinality(C) <= Cardinality(A)
  <2>1. A \in SUBSET Quorum /\ C \in SUBSET Quorum
    BY <1>2
  <2>2. IsFiniteSet(A)
    BY <1>1, <2>1, QuorumFinite
  <2> QED
    BY <1>1, <1>2, <2>1, <2>2, QuorumFinite, FS_Subset
<1>4. Cardinality(C) >= (2 * q + 2) \div 3
  BY DEF RequiredConfirmations
<1> HIDE DEF C, A, q
<1>5. 3 * Cardinality(A) >= 2 * q
  <2>1. 3 * ((2 * q + 2) \div 3) >= 2 * q
    BY <1>3
  <2>2. (2 * q + 2) \div 3 \in Nat
    BY <1>3
  <2> QED
    BY <1>3, <1>4, <2>1, <2>2
<1> QED
  BY <1>5 DEF Supported, A, q

LEMMA NextBacked == TypeInv /\ Backed /\ [Next]_vars => Backed'
<1> SUFFICES ASSUME TypeInv, Backed, [Next]_vars PROVE Backed'
  OBVIOUS
<1>1. CASE UNCHANGED vars
  <2>1. /\ setting' = setting /\ leaderResult' = leaderResult /\ verdict' = verdict
        /\ notices' = notices /\ pc' = pc /\ mem' = mem /\ answers' = answers
    BY <1>1 DEF vars, row, node
  <2>2. \A x : Supported(x)' <=> Supported(x)
    BY <2>1 DEF Supported, Answered, Quorum
  <2>3. Calls' /\ Sourced'
    BY <2>1 DEF Backed, Calls, Sourced, Answered
  <2>4. ASSUME NEW h \in Handlers PROVE Noted(h)'
    BY <2>1, <2>2 DEF Backed, Noted, Answered
  <2>5. Reported'
    BY <2>1, <2>2 DEF Backed, Reported
  <2> QED
    BY <2>3, <2>4, <2>5 DEF Backed
<1> SUFFICES ASSUME Next PROVE Backed'
  BY <1>1
<1>2. Calls /\ Calls' /\ Sourced /\ Reported /\ \A h \in Handlers : Noted(h)
  BY NextCalls DEF Backed
<1>3. ASSUME NEW g \in Handlers, pc'[g] = pc[g], mem'[g] = mem[g] PROVE Noted(g)'
  <2>1. Leader \in Nodes
    BY DEF Nodes
  <2> QED
    BY <1>2, <1>3, <2>1, AnsweredStays, SupportStays DEF Noted
<1>4. ASSUME NEW h \in Handlers, Only(h), Noted(h)' PROVE \A g \in Handlers : Noted(g)'
  BY <1>3, <1>4 DEF Only
<1>5. /\ notices' = notices => Reported'
      /\ leaderResult' = leaderResult /\ verdict' = verdict => Sourced'
  <2>1. ASSUME leaderResult' = leaderResult, verdict' = verdict PROVE Sourced'
    <3>1. Leader \in Nodes /\ Verifiers \subseteq Nodes
      BY DEF Nodes
    <3> QED
      BY <1>2, <2>1, <3>1, AnsweredStays DEF Sourced
  <2>2. ASSUME notices' = notices PROVE Reported'
    BY <1>2, <2>2, SupportStays DEF Reported
  <2> QED
    BY <2>1, <2>2
<1>6. CASE \E h \in Handlers : Quiet(h)
  <2>1. PICK h \in Handlers : Quiet(h)
    BY <1>6
  <2>2. Noted(h)'
    BY <2>1 DEF Quiet, Noted, Counting
  <2> QED
    BY <1>2, <1>4, <1>5, <2>1, <2>2 DEF Quiet, Backed, row
<1>7. CASE UNCHANGED <<row, verdict, notices, answers, pc, mem>>
  BY <1>2, <1>3, <1>5, <1>7 DEF Backed, row
<1>8. ASSUME NEW n \in Nodes, NEW x \in Hash, NEW p \in {"read", "check"}, Answers(n, x, p)
      PROVE  (\A g \in Handlers : Noted(g)') /\ Reported' /\ Answered(n, x)'
  <2>1. PICK k \in 1..MaxAnswers : /\ k = Len(answers[n]) + 1 /\ Only(AnswerOf(n, k))
                                   /\ pc'[AnswerOf(n, k)] = p
    BY <1>8 DEF Answers
  <2>2. AnswerOf(n, k) \in Handlers /\ Noted(AnswerOf(n, k))'
    BY <2>1, HandlerFacts DEF Noted, Counting
  <2>3. answers'[n] = Append(answers[n], x) /\ answers[n] \in Seq(Hash)
    BY <1>8, AppendAnswer DEF Answers, TypeInv
  <2>4. k \in DOMAIN answers'[n] /\ answers'[n][k] = x
    BY <2>1, <2>3
  <2>5. Answered(n, x)'
    BY <2>4 DEF Answered
  <2> QED
    BY <1>4, <1>5, <1>8, <2>1, <2>2, <2>5 DEF Answers
<1>9. CASE \E x \in Hash : Answers(Leader, x, "read") /\ verdict' = verdict
  <2>1. Leader \in Nodes
    BY DEF Nodes
  <2> QED
    BY <1>2, <1>5, <1>8, <1>9, <2>1 DEF Backed, Answers, row
<1>10. CASE \E v \in setting.verifiers : \E x \in Hash : VerdictOf(v, x)
  <2>1. PICK v \in setting.verifiers, x \in Hash : VerdictOf(v, x)
    BY <1>10
  <2>2. v \in Verifiers /\ v \in Nodes /\ Leader \in Nodes /\ Verifiers \subseteq Nodes
    BY SettingFacts DEF TypeInv, Nodes
  <2>3. (\A g \in Handlers : Noted(g)') /\ Reported' /\ Answered(v, x)'
    BY <1>8, <2>1, <2>2 DEF VerdictOf
  <2>4. leaderResult' = leaderResult /\ verdict' = [verdict EXCEPT ![v] = x]
    BY <2>1 DEF VerdictOf, Answers, row
  <2>5. ASSUME NEW w \in Verifiers, verdict'[w] # NoHash PROVE Answered(w, verdict[w])'
    <3>1. CASE w = v
      <4>1. verdict'[w] = x
        BY <2>4, <3>1 DEF TypeInv
      <4> QED
        BY <2>3, <3>1, <4>1 DEF Answered
    <3>2. CASE w # v
      <4>1. verdict'[w] = verdict[w] /\ Answered(w, verdict[w]) /\ w \in Nodes
        BY <1>2, <2>2, <2>4, <2>5, <3>2 DEF Sourced, TypeInv
      <4> DEFINE y == verdict[w]
      <4>2. Answered(w, y)
        BY <4>1
      <4> HIDE DEF y
      <4>3. \E k \in DOMAIN answers'[w] : answers'[w][k] = y
        BY <1>2, <4>1, <4>2, AnsweredStays DEF Answered
      <4> QED
        BY <4>1, <4>3 DEF Answered, y
    <3> QED
      BY <3>1, <3>2
  <2>6. leaderResult # NoHash => Answered(Leader, leaderResult)'
    <3> SUFFICES ASSUME leaderResult # NoHash PROVE \E k \in DOMAIN answers'[Leader] :
                                                         answers'[Leader][k] = leaderResult
      BY <2>4 DEF Answered
    <3> DEFINE y == leaderResult
    <3>1. Answered(Leader, y)
      BY <1>2 DEF Sourced
    <3> HIDE DEF y
    <3>2. \E k \in DOMAIN answers'[Leader] : answers'[Leader][k] = y
      BY <1>2, <2>2, <3>1, AnsweredStays DEF Answered
    <3> QED
      BY <3>2 DEF y
  <2>7. Sourced'
    BY <2>4, <2>5, <2>6 DEF Sourced
  <2> QED
    BY <1>2, <2>3, <2>7 DEF Backed
<1>11. CASE \E k \in 1..MaxAnswers : Stores(k)
  <2>1. PICK k \in 1..MaxAnswers : Stores(k)
    BY <1>11
  <2>2. AnswerOf(Leader, k) \in Handlers
    BY HandlerFacts DEF Nodes
  <2>3. Noted(AnswerOf(Leader, k))' /\ Reported'
    BY <1>5, <2>1 DEF Stores, Noted, Counting
  <2>4. \A g \in Handlers : Noted(g)'
    BY <1>4, <2>1, <2>2, <2>3 DEF Stores
  <2>5. Answered(Leader, leaderResult)'
    <3>1. k \in DOMAIN answers'[Leader] /\ answers'[Leader][k] = leaderResult'
      BY <2>1 DEF Stores, TypeInv, Nodes
    <3> QED
      BY <3>1 DEF Answered
  <2>6. Sourced'
    BY <1>2, <2>1, <2>5 DEF Sourced, Stores, Answered
  <2> QED
    BY <1>2, <2>3, <2>4, <2>6 DEF Backed
<1>12. CASE \E h \in Handlers : Looks(h) \/ FindsNone(h) \/ \E x \in Hash : Finds(h, x)
  <2>1. PICK h \in Handlers : Looks(h) \/ FindsNone(h) \/ \E x \in Hash : Finds(h, x)
    BY <1>12
  <2>2. /\ UNCHANGED <<row, verdict, notices, answers>> /\ setting' = setting /\ Only(h)
    BY <2>1, StepsOfNext DEF Looks, FindsNone, Finds
  <2>3. CASE Looks(h)
    <3>1. /\ pc'[h] = "tally" /\ mem'[h].leader = leaderResult
          /\ leaderResult # NoHash /\ Answered(Leader, leaderResult)
      BY <1>2, <2>3 DEF Looks, Sourced
    <3> QED
      BY <1>2, <1>4, <1>5, <2>2, <3>1 DEF Noted, Answered, Backed, row
  <2>4. CASE FindsNone(h)
    <3>1. /\ pc'[h] = "reject" /\ mem'[h].leader = mem[h].leader
          /\ mem[h].leader # NoHash /\ Answered(Leader, mem[h].leader)
      BY <1>2, <2>4 DEF FindsNone, Noted, Counting
    <3> QED
      BY <1>2, <1>4, <1>5, <2>2, <3>1 DEF Noted, Answered, Backed, row
  <2>5. ASSUME NEW x \in Hash, Finds(h, x) PROVE Backed'
    <3>1. /\ pc'[h] = "accept" /\ mem'[h].leader = mem[h].leader /\ mem'[h].winner = x
          /\ mem[h].leader # NoHash /\ Answered(Leader, mem[h].leader)
          /\ Cardinality(Confirming(mem[h].leader, x)) >= RequiredConfirmations
      BY <1>2, <2>5 DEF Finds, Noted, Counting
    <3> DEFINE y == mem[h].leader
    <3>2. Supported(x)
      <4>1. Answered(Leader, y) /\ Cardinality(Confirming(y, x)) >= RequiredConfirmations
        BY <3>1
      <4> HIDE DEF y
      <4> QED
        BY <4>1, <1>2, WinnerSupported
    <3>3. Noted(h)'
      BY <2>2, <3>1, <3>2 DEF Noted, Answered, Supported, Quorum
    <3> QED
      BY <1>2, <1>4, <1>5, <2>2, <3>3 DEF Backed, row
  <2> QED
    BY <2>1, <2>3, <2>4, <2>5
<1>13. CASE \E h \in Handlers : Accepts(h) \/ Rejects(h) \/ Closes(h)
  <2>1. PICK h \in Handlers : Accepts(h) \/ Rejects(h) \/ Closes(h)
    BY <1>13
  <2>2. /\ Only(h) /\ pc'[h] = "done" /\ UNCHANGED <<leaderResult, verdict, answers>>
    BY <2>1 DEF Accepts, Rejects, Closes, Decides
  <2>3. Noted(h)' /\ Sourced'
    BY <1>5, <2>2 DEF Noted, Counting
  <2>4. Reported'
    <3>1. ASSUME NEW c \in notices', c.status = "success" PROVE Supported(c.hash)
      <4>1. CASE c \in notices
        BY <1>2, <3>1, <4>1 DEF Reported
      <4>2. CASE c \notin notices
        <5>1. Accepts(h) /\ c.hash = mem[h].winner
          BY <2>1, <3>1, <4>2 DEF Accepts, Rejects, Closes, Decides
        <5>2. Supported(mem[h].winner)
          BY <1>2, <5>1 DEF Accepts, Noted
        <5> QED
          BY <5>1, <5>2
      <4> QED
        BY <4>1, <4>2
    <3> QED
      BY <1>2, <3>1, SupportStays DEF Reported
  <2> QED
    BY <1>2, <1>4, <2>2, <2>3, <2>4 DEF Backed
<1> HIDE DEF Backed
<1>14. Calls
  BY <1>2
<1> QED
  BY <1>6, <1>7, <1>9, <1>10, <1>11, <1>12, <1>13, <1>14, Kinds, Zenon

LEMMA InitBacked == Init => Backed
<1> SUFFICES ASSUME Init PROVE Backed
  OBVIOUS
<1>1. Calls
  BY HandlerFacts DEF Init, Calls
<1>2. Sourced /\ Reported
  BY DEF Init, Sourced, Reported
<1>3. \A h \in Handlers : Noted(h)
  BY DEF Init, Noted, Counting
<1> QED
  BY <1>1, <1>2, <1>3 DEF Backed

LEMMA BackedHolds == Spec => [](TypeInv /\ Backed)
<1>1. Init => TypeInv /\ Backed
  BY InitType, InitBacked
<1>2. TypeInv /\ Backed /\ [Next]_vars => (TypeInv /\ Backed)'
  BY NextType, NextBacked DEF Backed
<1> QED
  BY <1>1, <1>2, PTL DEF Spec

(***************************************************************************)
(* The state stays typed.                                                  *)
(***************************************************************************)
THEOREM RequestTypeOK == Spec => []TypeOK
<1>1. TypeInv => TypeOK
  <2> SUFFICES ASSUME TypeInv PROVE TypeOK
    OBVIOUS
  <2>1. ASSUME NEW n \in Nodes
        PROVE  answers[n] \in UNION {[1..k -> Hash] : k \in 0..MaxAnswers}
    <3>1. answers[n] \in Seq(Hash) /\ Len(answers[n]) \in 0..MaxAnswers
      BY BoundAssumption DEF TypeInv
    <3>2. answers[n] \in [1..Len(answers[n]) -> Hash]
      BY <3>1
    <3> QED
      BY <3>1, <3>2
  <2> QED
    BY <2>1 DEF TypeInv, TasksTyped, TypeOK, Notice, Memory, Places
<1> QED
  BY <1>1, BackedHolds, PTL

(***************************************************************************)
(* A success is only ever reported of a hash that two thirds of the nodes  *)
(* have answered with.                                                     *)
(***************************************************************************)
THEOREM SuccessIsBacked == Spec => []SuccessHasQuorum
<1>1. Backed => SuccessHasQuorum
  BY DEF Backed, Reported, Supported, SuccessHasQuorum
<1> QED
  BY <1>1, BackedHolds, PTL

-----------------------------------------------------------------------------
(***************************************************************************)
(* As long as a decision is due, a handler is there to take it: the one    *)
(* that wrote the last answer, or one that came before and has yet to look.*)
(***************************************************************************)
DecisionDue == setting.column /\ status = "queued" /\ \A n \in Quorum : Delivered(n)
InHand == DecisionDue => \E h \in Handlers : pc[h] \in Deciding

LEMMA NextInHand == TypeInv /\ Calls /\ InHand /\ [Next]_vars => InHand'
<1> SUFFICES ASSUME TypeInv, Calls, InHand, [Next]_vars, DecisionDue'
             PROVE  \E h \in Handlers : pc'[h] \in Deciding
  BY DEF InHand
<1>1. CASE UNCHANGED vars
  BY <1>1 DEF InHand, DecisionDue, Delivered, Quorum, vars, row, node
<1> SUFFICES ASSUME Next PROVE \E h \in Handlers : pc'[h] \in Deciding
  BY <1>1
<1>2. setting' = setting /\ Quorum' = Quorum /\ setting.column = TRUE /\ status' = "queued"
  BY StepsOfNext, SettingFacts DEF DecisionDue, Quorum, TypeInv
<1>3. ASSUME status' = status, leaderResult' = leaderResult, verdict' = verdict
      PROVE  DecisionDue /\ \E h \in Handlers : pc[h] \in Deciding
  <2>1. DecisionDue
    BY <1>2, <1>3 DEF DecisionDue, Delivered
  <2> QED
    BY <2>1 DEF InHand
<1>4. CASE \E h \in Handlers : Quiet(h)
  <2>1. PICK h \in Handlers : Quiet(h)
    BY <1>4
  <2>2. DecisionDue /\ \E g \in Handlers : pc[g] \in Deciding
    BY <1>3, <2>1 DEF Quiet, row
  <2>3. pc[h] \notin Deciding
    BY <2>1, <2>2 DEF Quiet, DecisionDue
  <2> QED
    BY <2>1, <2>2, <2>3 DEF Quiet, Only
<1>5. CASE UNCHANGED <<row, verdict, notices, answers, pc, mem>>
  BY <1>3, <1>5 DEF row
<1>6. CASE \E x \in Hash : Answers(Leader, x, "read") /\ verdict' = verdict
  <2>1. PICK x \in Hash : Answers(Leader, x, "read") /\ verdict' = verdict
    BY <1>6
  <2>2. PICK g \in Handlers : pc[g] \in Deciding
    BY <1>3, <2>1 DEF Answers, row
  <2>3. PICK k \in 1..MaxAnswers : /\ k = Len(answers[Leader]) + 1
                                   /\ Only(AnswerOf(Leader, k))
    BY <2>1 DEF Answers
  <2>4. pc[AnswerOf(Leader, k)] = "none"
    BY <2>3 DEF Calls, Nodes, TypeInv
  <2> QED
    BY <2>2, <2>3, <2>4 DEF Only, Deciding
<1>7. CASE \E v \in setting.verifiers : \E x \in Hash : VerdictOf(v, x)
  <2>1. PICK v \in setting.verifiers, k \in 1..MaxAnswers : pc'[AnswerOf(v, k)] = "check"
    BY <1>7 DEF VerdictOf, Answers
  <2>2. AnswerOf(v, k) \in Handlers
    BY HandlerFacts, SettingFacts DEF TypeInv, Nodes
  <2> QED
    BY <2>1, <2>2 DEF Deciding
<1>8. CASE \E k \in 1..MaxAnswers : Stores(k)
  BY <1>8, HandlerFacts DEF Stores, Deciding, Nodes
<1>9. CASE \E h \in Handlers : Looks(h) \/ FindsNone(h) \/ \E x \in Hash : Finds(h, x)
  BY <1>9 DEF Looks, FindsNone, Finds, Deciding
<1>10. CASE \E h \in Handlers : Accepts(h) \/ Rejects(h) \/ Closes(h)
  BY <1>2, <1>10 DEF Accepts, Rejects, Closes, Decides
<1> QED
  BY <1>4, <1>5, <1>6, <1>7, <1>8, <1>9, <1>10, Kinds

(***************************************************************************)
(* No decision is lost: the request is not left undecided by handlers that *)
(* each relied on another.                                                 *)
(***************************************************************************)
THEOREM DecisionsAreTaken == Spec => []NoLostDecision
<1>1. Init => InHand
  BY SettingFacts DEF Init, InHand, DecisionDue, Delivered
<1>2. TypeInv /\ Backed /\ InHand /\ [Next]_vars => InHand'
  BY NextInHand DEF Backed
<1>3. InHand => NoLostDecision
  BY DEF InHand, DecisionDue, NoLostDecision, Running, Deciding
<1> QED
  BY <1>1, <1>2, <1>3, BackedHolds, PTL DEF Spec

-----------------------------------------------------------------------------
(***************************************************************************)
(* While nobody has answered twice, what a handler counts is what is       *)
(* stored, and what it finds stays true until it has told it.              *)
(***************************************************************************)
Once == \A n \in Nodes : Len(answers[n]) <= 1
NoTimeout == \A c \in notices : c.status # "timeout"

Wins(x) == Cardinality(Confirming(leaderResult, x)) >= RequiredConfirmations
NobodyWins == AllVerdictsIn /\ \A x \in Hash : ~Wins(x)

Counts(h) ==
    /\ pc[h] \in Counting => leaderResult # NoHash /\ mem[h].leader = leaderResult
    /\ pc[h] = "accept" => mem[h].winner \in Hash /\ Wins(mem[h].winner)
    /\ pc[h] = "reject" => NobodyWins

Told(c) ==
    /\ leaderResult # NoHash /\ c.cid = leaderResult.cid
    /\ c.status = "success" => /\ status = "accepted" /\ commitmentHash = c.hash
                               /\ c.hash \in Hash /\ Wins(c.hash)
    /\ c.status = "rejected" => status = "rejected" /\ c.hash = NoHash /\ NobodyWins

Agreement ==
    Once => /\ \A h \in Handlers : Counts(h)
            /\ NoTimeout => \A c \in notices : Told(c)
            /\ pc[AnswerOf(Leader, 1)] \in {"read", "write"} => leaderResult = NoHash

\* Two thirds of a quorum and two thirds of it have a node in common, and a
\* node confirms one hash.
LEMMA OneWinner ==
    ASSUME setting \in Settings, NEW l, NEW x, NEW y,
           Cardinality(Confirming(l, x)) >= RequiredConfirmations,
           Cardinality(Confirming(l, y)) >= RequiredConfirmations
    PROVE  x = y
<1> SUFFICES ASSUME x # y PROVE FALSE
  OBVIOUS
<1> DEFINE C == Confirming(l, x)
           D == Confirming(l, y)
           q == Cardinality(Quorum)
           c == Cardinality(C)
           d == Cardinality(D)
<1>1. Leader \notin setting.verifiers
  BY SettingFacts, QuorumAssumption
<1>2. C \subseteq Quorum /\ D \subseteq Quorum /\ C \cap D = {}
  BY <1>1 DEF Confirming, Quorum
<1>3. IsFiniteSet(C) /\ IsFiniteSet(D) /\ C \cup D \in SUBSET Quorum
  BY <1>2, QuorumFinite
<1>4. Cardinality(C \cup D) = c + d - Cardinality(C \cap D)
  BY <1>3, FS_Union
<1>5. Cardinality(C \cap D) = 0
  BY <1>2, FS_EmptySet
<1>6. /\ q \in Nat \ {0} /\ c \in Nat /\ d \in Nat
      /\ Cardinality(C \cup D) <= q
  BY <1>2, <1>3, QuorumFinite
<1>7. c >= (2 * q + 2) \div 3 /\ d >= (2 * q + 2) \div 3
  BY DEF RequiredConfirmations
<1>8. c + d <= q
  <2> HIDE DEF c, d, q
  <2> QED
    BY <1>4, <1>5, <1>6
<1> HIDE DEF C, D, q, c, d
<1>9. 2 * ((2 * q + 2) \div 3) > q
  BY <1>6
<1>10. (2 * q + 2) \div 3 \in Nat
  BY <1>6
<1> QED
  BY <1>6, <1>7, <1>8, <1>9, <1>10

\* What has been found stays when nothing of it changes.
LEMMA FindingsStay ==
    ASSUME setting' = setting, leaderResult' = leaderResult, verdict' = verdict
    PROVE  /\ \A x : Wins(x)' <=> Wins(x)
           /\ NobodyWins' <=> NobodyWins
           /\ AllVerdictsIn' <=> AllVerdictsIn
<1>2. RequiredConfirmations' = RequiredConfirmations
  BY DEF RequiredConfirmations, Quorum
<1>3. \A x : Wins(x)' <=> Wins(x)
  <2> TAKE x
  <2>1. Confirming(leaderResult, x)' = Confirming(leaderResult, x)
    BY DEF Confirming
  <2> QED
    BY <1>2, <2>1 DEF Wins
<1>4. AllVerdictsIn' <=> AllVerdictsIn
  BY DEF AllVerdictsIn
<1> QED
  BY <1>3, <1>4 DEF NobodyWins

\* A verdict of a node that had given none takes nobody's win away.
LEMMA WinsStay ==
    ASSUME TypeInv, setting' = setting, leaderResult' = leaderResult,
           NEW v \in setting.verifiers, NEW y, verdict' = [verdict EXCEPT ![v] = y],
           verdict[v] = NoHash, NEW x \in Hash, Wins(x)
    PROVE  Wins(x)'
<1> DEFINE C == Confirming(leaderResult, x)
           D == Confirming(leaderResult, x)'
<1>1. /\ setting \in Settings /\ setting.verifiers \subseteq Verifiers
      /\ RequiredConfirmations' = RequiredConfirmations /\ RequiredConfirmations \in Nat
  <2>1. setting \in Settings /\ setting.verifiers \subseteq Verifiers
    BY SettingFacts DEF TypeInv
  <2>2. Cardinality(Quorum) \in Nat
    BY <2>1, QuorumFinite
  <2>3. RequiredConfirmations \in Nat
    BY <2>2 DEF RequiredConfirmations
  <2> QED
    BY <2>1, <2>3 DEF RequiredConfirmations, Quorum
<1>2. C \subseteq D
  <2>1. ASSUME NEW w \in setting.verifiers, verdict[w] = x PROVE verdict'[w] = x
    BY <1>1, <2>1, NoHashIsNone DEF TypeInv
  <2> QED
    BY <2>1 DEF Confirming
<1>3. D \subseteq Quorum
  BY DEF Confirming, Quorum
<1>4. /\ Cardinality(C) <= Cardinality(D)
      /\ Cardinality(C) \in Nat /\ Cardinality(D) \in Nat
  <2>1. IsFiniteSet(D)
    BY <1>1, <1>3, QuorumFinite
  <2> QED
    BY <1>2, <2>1, FS_Subset, FS_CardinalityType
<1> HIDE DEF C, D
<1>5. Cardinality(D) >= RequiredConfirmations
  BY <1>1, <1>4 DEF Wins, C
<1> QED
  BY <1>1, <1>5 DEF Wins, D

LEMMA NextAgreement == TypeInv /\ Backed /\ Agreement /\ [Next]_vars => Agreement'
<1> SUFFICES ASSUME TypeInv, Backed, Agreement, [Next]_vars, Once'
             PROVE  /\ \A h \in Handlers : Counts(h)'
                    /\ NoTimeout' => \A c \in notices' : Told(c)'
                    /\ pc'[AnswerOf(Leader, 1)] \in {"read", "write"} => leaderResult' = NoHash
  BY DEF Agreement
<1> DEFINE Goal == /\ \A h \in Handlers : Counts(h)'
                   /\ NoTimeout' => \A c \in notices' : Told(c)'
                   /\ pc'[AnswerOf(Leader, 1)] \in {"read", "write"} => leaderResult' = NoHash
           first == AnswerOf(Leader, 1)
<1>1. CASE UNCHANGED vars
  <2>1. /\ setting' = setting /\ leaderResult' = leaderResult /\ verdict' = verdict
        /\ status' = status /\ commitmentHash' = commitmentHash
        /\ notices' = notices /\ pc' = pc /\ mem' = mem /\ answers' = answers
    BY <1>1 DEF vars, row, node
  <2>2. Once /\ (NoTimeout' => NoTimeout)
    BY <2>1 DEF Once, NoTimeout
  <2>3. \A h \in Handlers : Counts(h)'
    BY <2>1, <2>2, FindingsStay DEF Agreement, Counts
  <2>4. NoTimeout' => \A c \in notices' : Told(c)'
    BY <2>1, <2>2, FindingsStay DEF Agreement, Told
  <2> QED
    BY <2>1, <2>2, <2>3, <2>4 DEF Agreement
<1> SUFFICES ASSUME Next PROVE Goal
  BY <1>1
<1> HIDE DEF Goal
<1>2. /\ Calls /\ Sourced /\ TypeInv' /\ setting' = setting /\ setting \in Settings
      /\ Leader \in Nodes /\ Verifiers \subseteq Nodes /\ setting.verifiers \subseteq Verifiers
      /\ first \in Handlers /\ Leader \notin Verifiers
  BY NextType, StepsOfNext, SettingFacts, HandlerFacts, BoundAssumption, QuorumAssumption
     DEF Backed, TypeInv, Nodes
<1>3. Once
  <2>1. \A n \in Nodes : /\ Len(answers[n]) \in Nat /\ Len(answers'[n]) \in Nat
                         /\ Len(answers[n]) <= Len(answers'[n]) /\ Len(answers'[n]) <= 1
    BY <1>2, AnswersGrow DEF TypeInv, Once
  <2> QED
    BY <2>1 DEF Once
<1>4. /\ \A h \in Handlers : Counts(h)
      /\ NoTimeout => \A c \in notices : Told(c)
      /\ pc[first] \in {"read", "write"} => leaderResult = NoHash
  BY <1>3 DEF Agreement
<1>5. ASSUME NEW h \in Handlers, leaderResult' = leaderResult, verdict' = verdict,
             Only(h), Counts(h)'
      PROVE  \A g \in Handlers : Counts(g)'
  <2>1. ASSUME NEW g \in Handlers, g # h PROVE Counts(g)'
    <3>1. pc'[g] = pc[g] /\ mem'[g] = mem[g] /\ Counts(g)
      BY <1>4, <1>5, <2>1 DEF Only
    <3> QED
      BY <1>2, <1>5, <3>1, FindingsStay DEF Counts
  <2> QED
    BY <1>5, <2>1
<1>6. ASSUME UNCHANGED <<row, verdict, notices>>
      PROVE  NoTimeout' => \A c \in notices' : Told(c)'
  <2>1. \A c \in notices : Told(c) => Told(c)'
    BY <1>2, <1>6, FindingsStay DEF Told, row
  <2> QED
    BY <1>4, <1>6, <2>1 DEF NoTimeout
<1>7. CASE \E h \in Handlers : Quiet(h)
  <2>1. PICK h \in Handlers : Quiet(h)
    BY <1>7
  <2>2. /\ leaderResult' = leaderResult /\ verdict' = verdict /\ Only(h)
        /\ UNCHANGED <<row, verdict, notices>>
    BY <2>1 DEF Quiet, row
  <2>3. Counts(h)'
    BY <2>1 DEF Quiet, Counts, Counting
  <2>4. pc'[first] \in {"read", "write"} => leaderResult' = NoHash
    <3>1. CASE h = first
      BY <1>4, <2>1, <2>2, <3>1 DEF Quiet, AnswerOf
    <3>2. CASE h # first
      BY <1>2, <1>4, <2>2, <3>2 DEF Only
    <3> QED
      BY <3>1, <3>2
  <2> QED
    BY <1>5, <1>6, <2>2, <2>3, <2>4 DEF Goal
<1>8. CASE UNCHANGED <<row, verdict, notices, answers, pc, mem>>
  <2>1. leaderResult' = leaderResult /\ UNCHANGED <<row, verdict, notices>>
    BY <1>8 DEF row
  <2>2. \A g \in Handlers : Counts(g)'
    BY <1>2, <1>4, <1>8, <2>1, FindingsStay DEF Counts
  <2> QED
    BY <1>4, <1>6, <1>8, <2>1, <2>2 DEF Goal
<1>9. ASSUME NEW n \in Nodes, NEW x \in Hash, NEW p \in {"read", "check"}, Answers(n, x, p)
      PROVE  /\ Len(answers[n]) = 0 /\ \A y : ~Answered(n, y)
             /\ Only(AnswerOf(n, 1)) /\ pc'[AnswerOf(n, 1)] = p
             /\ AnswerOf(n, 1) \in Handlers /\ Counts(AnswerOf(n, 1))'
  <2>1. PICK k \in 1..MaxAnswers : /\ k = Len(answers[n]) + 1 /\ Only(AnswerOf(n, k))
                                   /\ pc'[AnswerOf(n, k)] = p
    BY <1>9 DEF Answers
  <2>2. answers'[n] = Append(answers[n], x) /\ answers[n] \in Seq(Hash)
    BY <1>9, AppendAnswer DEF Answers, TypeInv
  <2>3. Len(answers'[n]) <= 1
    BY DEF Once
  <2>4. Len(answers[n]) = 0 /\ k = 1
    BY <2>1, <2>2, <2>3
  <2>5. \A y : ~Answered(n, y)
    BY <2>2, <2>4 DEF Answered
  <2> QED
    BY <2>1, <2>4, <2>5, HandlerFacts DEF Counts, Counting
<1>10. CASE \E x \in Hash : Answers(Leader, x, "read") /\ verdict' = verdict
  <2>1. PICK x \in Hash : Answers(Leader, x, "read") /\ verdict' = verdict
    BY <1>10
  <2>2. leaderResult' = leaderResult /\ UNCHANGED <<row, verdict, notices>>
    BY <2>1 DEF Answers, row
  <2>3. leaderResult = NoHash
    BY <1>2, <1>9, <2>1 DEF Sourced
  <2>4. \A g \in Handlers : Counts(g)'
    BY <1>2, <1>5, <1>9, <2>1, <2>2
  <2> QED
    BY <1>6, <2>2, <2>3, <2>4 DEF Goal
<1>11. CASE \E v \in setting.verifiers : \E x \in Hash : VerdictOf(v, x)
  <2>1. PICK v \in setting.verifiers, x \in Hash : VerdictOf(v, x)
    BY <1>11
  <2>2. v \in Verifiers /\ v \in Nodes /\ v # Leader
    BY <1>2
  <2>3. /\ UNCHANGED <<row, notices>> /\ leaderResult' = leaderResult
        /\ verdict' = [verdict EXCEPT ![v] = x]
    BY <2>1 DEF VerdictOf, Answers, row
  <2>4. /\ \A y : ~Answered(v, y)
        /\ Only(AnswerOf(v, 1)) /\ Counts(AnswerOf(v, 1))'
    BY <1>9, <2>1, <2>2 DEF VerdictOf
  <2>5. verdict[v] = NoHash
    BY <1>2, <2>2, <2>4 DEF Sourced
  <2>6. ~NobodyWins
    BY <2>5 DEF NobodyWins, AllVerdictsIn
  <2>7. ASSUME NEW y \in Hash, Wins(y) PROVE Wins(y)'
    BY <1>2, <2>3, <2>5, <2>7, WinsStay
  <2>8. ASSUME NEW g \in Handlers PROVE Counts(g)'
    <3>1. CASE g = AnswerOf(v, 1)
      BY <2>4, <3>1
    <3>2. CASE g # AnswerOf(v, 1)
      <4>1. pc'[g] = pc[g] /\ mem'[g] = mem[g] /\ Counts(g)
        BY <1>4, <2>4, <3>2 DEF Only
      <4> QED
        BY <4>1, <2>3, <2>6, <2>7 DEF Counts
    <3> QED
      BY <3>1, <3>2
  <2>9. NoTimeout' => \A c \in notices' : Told(c)'
    <3>1. \A c \in notices : Told(c) => Told(c)'
      BY <2>3, <2>6, <2>7 DEF Told, row
    <3> QED
      BY <1>4, <2>3, <3>1 DEF NoTimeout
  <2>10. pc'[first] \in {"read", "write"} => leaderResult' = NoHash
    <3>1. first # AnswerOf(v, 1)
      BY <2>2 DEF AnswerOf
    <3> QED
      BY <1>2, <1>4, <2>3, <2>4, <3>1 DEF Only
  <2> QED
    BY <2>8, <2>9, <2>10 DEF Goal
<1>12. CASE \E k \in 1..MaxAnswers : Stores(k)
  <2>1. PICK k \in 1..MaxAnswers : Stores(k)
    BY <1>12
  <2>2. k = 1
    <3>1. k \in 1..Len(answers[Leader]) /\ Len(answers[Leader]) \in Nat /\ Len(answers[Leader]) <= 1
      BY <1>2, <1>3, <2>1 DEF Stores, Once, TypeInv
    <3> QED
      BY <3>1
  <2>3. /\ leaderResult = NoHash /\ Only(first) /\ pc'[first] = "check" /\ notices' = notices
    BY <1>4, <2>1, <2>2 DEF Stores
  <2>4. ASSUME NEW g \in Handlers PROVE Counts(g)'
    <3>1. pc'[g] \notin Counting
      BY <1>4, <2>3 DEF Only, Counts, Counting
    <3> QED
      BY <3>1 DEF Counts, Counting
  <2>5. NoTimeout' => notices' = {}
    BY <1>4, <2>3 DEF NoTimeout, Told
  <2> QED
    BY <2>3, <2>4, <2>5 DEF Goal
<1>13. CASE \E h \in Handlers : Looks(h) \/ FindsNone(h) \/ \E x \in Hash : Finds(h, x)
  <2>1. PICK h \in Handlers : Looks(h) \/ FindsNone(h) \/ \E x \in Hash : Finds(h, x)
    BY <1>13
  <2>2. /\ UNCHANGED <<row, verdict, notices>> /\ leaderResult' = leaderResult
        /\ verdict' = verdict /\ Only(h) /\ pc'[h] \notin {"read", "write"}
    BY <2>1 DEF Looks, FindsNone, Finds, row
  <2>3. Counts(h)'
    <3>1. CASE Looks(h)
      BY <2>2, <3>1 DEF Looks, Counts
    <3>2. CASE FindsNone(h)
      <4>1. /\ leaderResult # NoHash /\ mem[h].leader = leaderResult
            /\ mem'[h].leader = mem[h].leader /\ pc'[h] = "reject"
        BY <1>4, <3>2 DEF FindsNone, Counts, Counting
      <4>2. NobodyWins
        BY <3>2, <4>1 DEF FindsNone, NobodyWins, Wins
      <4> QED
        BY <1>2, <2>2, <4>1, <4>2, FindingsStay DEF Counts
    <3>3. ASSUME NEW x \in Hash, Finds(h, x) PROVE Counts(h)'
      <4>1. /\ leaderResult # NoHash /\ mem[h].leader = leaderResult
            /\ mem'[h].leader = mem[h].leader /\ mem'[h].winner = x /\ pc'[h] = "accept"
        BY <1>4, <3>3 DEF Finds, Counts, Counting
      <4>2. Wins(x)
        BY <3>3, <4>1 DEF Finds, Wins
      <4> QED
        BY <1>2, <2>2, <4>1, <4>2, FindingsStay DEF Counts
    <3> QED
      BY <2>1, <3>1, <3>2, <3>3
  <2>4. pc'[first] \in {"read", "write"} => leaderResult' = NoHash
    BY <1>2, <1>4, <2>2 DEF Only
  <2> QED
    BY <1>5, <1>6, <2>2, <2>3, <2>4 DEF Goal
<1>14. ASSUME NEW h \in Handlers, Only(h), pc'[h] = "done",
              leaderResult' = leaderResult, verdict' = verdict,
              NoTimeout' => \A c \in notices' : Told(c)'
       PROVE  Goal
  <2>1. Counts(h)'
    BY <1>14 DEF Counts, Counting
  <2>2. pc'[first] \in {"read", "write"} => leaderResult' = NoHash
    BY <1>2, <1>4, <1>14 DEF Only
  <2> QED
    BY <1>5, <1>14, <2>1, <2>2 DEF Goal
<1>15. ASSUME NEW h \in Handlers, Accepts(h) PROVE Goal
  <2>0. PICK w, new : /\ w = mem[h].winner
                     /\ new = [status |-> "success", hash |-> w, cid |-> mem[h].leader.cid]
    OBVIOUS
  <2>1. /\ leaderResult # NoHash /\ new.cid = leaderResult.cid
        /\ new.status = "success" /\ new.hash = w /\ w \in Hash /\ Wins(w)
    BY <2>0, <1>4, <1>15 DEF Accepts, Counts, Counting
  <2>2. /\ status' = "accepted" /\ commitmentHash' = w /\ notices' = notices \cup {new}
        /\ leaderResult' = leaderResult /\ verdict' = verdict /\ Only(h) /\ pc'[h] = "done"
    BY <2>0, <1>15 DEF Accepts, Decides
  <2>3. /\ \A x : Wins(x)' <=> Wins(x)
        /\ NobodyWins' <=> NobodyWins
    BY <1>2, <2>2, FindingsStay
  <2>4. Told(new)'
    BY <2>1, <2>2, <2>3 DEF Told
  <2>5. ASSUME NEW c \in notices, NoTimeout PROVE Told(c)'
    <3>1. Told(c)
      BY <1>4, <2>5
    <3>2. c.status = "success" => c.hash = w
      BY <1>2, <2>1, <3>1, OneWinner DEF Told, Wins
    <3>3. c.status # "rejected"
      BY <2>1, <3>1 DEF Told, NobodyWins
    <3> QED
      BY <2>1, <2>2, <2>3, <3>1, <3>2, <3>3 DEF Told
  <2>6. NoTimeout' => NoTimeout
    BY <2>2 DEF NoTimeout
  <2> QED
    BY <1>14, <2>2, <2>4, <2>5, <2>6
<1>16. ASSUME NEW h \in Handlers, Rejects(h) PROVE Goal
  <2>0. PICK new : new = [status |-> "rejected", hash |-> NoHash, cid |-> mem[h].leader.cid]
    OBVIOUS
  <2>1. /\ leaderResult # NoHash /\ new.cid = leaderResult.cid
        /\ new.status = "rejected" /\ new.hash = NoHash /\ NobodyWins
    BY <2>0, <1>4, <1>16 DEF Rejects, Counts, Counting
  <2>2. /\ status' = "rejected" /\ notices' = notices \cup {new}
        /\ leaderResult' = leaderResult /\ verdict' = verdict /\ Only(h) /\ pc'[h] = "done"
    BY <2>0, <1>16 DEF Rejects, Decides
  <2>3. /\ \A x : Wins(x)' <=> Wins(x)
        /\ NobodyWins' <=> NobodyWins
    BY <1>2, <2>2, FindingsStay
  <2>4. Told(new)'
    BY <2>1, <2>2, <2>3 DEF Told
  <2>5. ASSUME NEW c \in notices, NoTimeout PROVE Told(c)'
    <3>1. Told(c)
      BY <1>4, <2>5
    <3>2. c.status # "success"
      BY <2>1, <3>1 DEF Told, NobodyWins
    <3> QED
      BY <2>1, <2>2, <2>3, <3>1, <3>2 DEF Told
  <2>6. NoTimeout' => NoTimeout
    BY <2>2 DEF NoTimeout
  <2> QED
    BY <1>14, <2>2, <2>4, <2>5, <2>6
<1>17. ASSUME NEW h \in Handlers, Closes(h) PROVE Goal
  <2>0. PICK new : new = [status |-> "timeout", hash |-> NoHash, cid |-> 0]
    OBVIOUS
  <2>1. /\ new \in notices' /\ new.status = "timeout" /\ Only(h) /\ pc'[h] = "done"
        /\ leaderResult' = leaderResult /\ verdict' = verdict
    BY <2>0, <1>17 DEF Closes, Decides
  <2>2. ~NoTimeout'
    BY <2>1 DEF NoTimeout
  <2> QED
    BY <1>14, <2>1, <2>2
<1>18. Calls
  BY <1>2
<1> QED
  BY <1>7, <1>8, <1>10, <1>11, <1>12, <1>13, <1>15, <1>16, <1>17, <1>18, Kinds

(***************************************************************************)
(* Handlers that race to finalize a request whose nodes have answered once *)
(* tell one outcome, and it is the stored one.                             *)
(***************************************************************************)
THEOREM FinalizersAgree == Spec => []OutcomesAgree
<1>1. Init => Agreement
  BY HandlerFacts, BoundAssumption DEF Init, Agreement, Counts, Counting, NoTimeout, Nodes
<1>2. TypeInv /\ Backed /\ Agreement => OutcomesAgree
  <2> SUFFICES ASSUME TypeInv, Agreement, Once, NoTimeout
               PROVE  /\ Cardinality(notices) <= 1
                      /\ \A c \in notices :
                          /\ status = IF c.status = "success" THEN "accepted" ELSE "rejected"
                          /\ c.status = "success" => commitmentHash = c.hash
                          /\ c.cid = leaderResult.cid
    BY DEF OutcomesAgree, Once, NoTimeout
  <2>1. ASSUME NEW c \in notices
        PROVE  Told(c) /\ c \in Notice /\ c.status \in {"success", "rejected"}
    BY DEF Agreement, TypeInv, Notice, NoTimeout
  <2>2. ASSUME NEW c \in notices, NEW d \in notices PROVE c = d
    <3>1. /\ Told(c) /\ c \in Notice /\ c.status \in {"success", "rejected"}
          /\ Told(d) /\ d \in Notice /\ d.status \in {"success", "rejected"}
      BY <2>1
    <3>2. c.status = d.status /\ c.hash = d.hash /\ c.cid = d.cid
      BY <3>1 DEF Told
    <3> QED
      BY <3>1, <3>2 DEF Notice
  <2>3. Cardinality(notices) <= 1
    <3>1. CASE notices = {}
      BY <3>1, FS_EmptySet
    <3>2. CASE notices # {}
      <4>1. PICK c \in notices : notices = {c}
        BY <2>2, <3>2
      <4> QED
        BY <4>1, FS_Singleton
    <3> QED
      BY <3>1, <3>2
  <2> QED
    BY <2>1, <2>3 DEF Told
<1> QED
  BY <1>1, <1>2, BackedHolds, NextAgreement, PTL DEF Spec

=============================================================================
