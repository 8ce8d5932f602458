--------------------------- MODULE JobSettlement ---------------------------
(***************************************************************************)
(* The payment service: submit_job and complete_job of job_service.py over *)
(* the credits of one user (credit_service.py and the atomic credit RPCs   *)
(* of supabase_schema.sql).                                                *)
(*                                                                         *)
(* Both handlers run on one event loop and let others run at every await   *)
(* on the database, on the coordination layer or on a program of           *)
(* ChainScripts, for which they wait 120 s.  The calls that the service    *)
(* makes to the chain itself block the loop: they belong to the step they  *)
(* start in.                                                               *)
(*                                                                         *)
(* Every job has the price 1, in cUSDC, the premium of an insured one      *)
(* included.  The callbacks of a job are the POSTs of                      *)
(* _notify_payment_service: the coordination layer repeats a POST whose    *)
(* answer it misses for 30 s, and two handlers that finalize the same      *)
(* request each start their own.                                           *)
(***************************************************************************)
EXTENDS Integers, Sequences

CONSTANTS
    Jobs,
    Deposit,         \* credits of the user at the start
    Modes,           \* how jobs are paid: "credits", "insured" credits, "escrow"
    Outcomes,        \* statuses the coordination layer may call back with
    MaxCallbacks,    \* bound on the callbacks of a job
    Overlap,         \* may a callback begin before the last one was answered?
    Faults           \* what may go wrong: see AllFaults

AllFaults == {"script", "forward", "reply", "refund", "rewards", "crash"}

ASSUME PaymentAssumption ==
    /\ Deposit \in Nat /\ MaxCallbacks \in Nat
    /\ Modes \subseteq {"credits", "insured", "escrow"}
    /\ Outcomes \subseteq {"success", "rejected", "timeout"}
    /\ Overlap \in BOOLEAN
    /\ Faults \subseteq AllFaults

Callbacks == Jobs \X (1..MaxCallbacks)
MaxForwards == 3

\* The programs the service may start for a job.
JobScripts == {"create_escrow", "purchase_insurance"}

VARIABLES
    runs,            \* the processes of ChainScripts, one of each for a job
    balance,         \* credits.balance_*
    status,          \* jobs.status, or "none"
    charged, refunded, rewarded,   \* per job: how often each has happened
    mode,            \* per job: the payment mode it was submitted with
    disturbed,       \* jobs that a fault struck which the service does not mend
    received,        \* jobs the coordination layer has received
    submit,          \* per job: where its submit_job is
    forwards,        \* per job: attempts to forward it
    callback         \* per callback: where its complete_job is, and the outcome

money == <<balance, charged, refunded, rewarded>>
vars == <<money, runs, status, mode, disturbed, received, submit, forwards, callback>>

Scripts == INSTANCE ChainScripts WITH Runs <- Jobs \X JobScripts

EscrowOf(j) == <<j, "create_escrow">>
CoverageOf(j) == <<j, "purchase_insurance">>
Says(r) == runs[r].says
PaysWithCredits(j) == mode[j] # "escrow"

FinalStatus(o) == CASE o = "success" -> "COMPLETED" [] o = "timeout" -> "FAILED"
                    [] o = "rejected" -> "REFUNDED"

TypeOK ==
    /\ balance \in Int
    /\ Scripts!ScriptTypeOK
    /\ status \in [Jobs -> {"none", "RUNNING", "COMPLETED", "FAILED", "REFUNDED"}]
    /\ {charged, refunded, rewarded} \subseteq [Jobs -> Nat]
    /\ mode \in [Jobs -> {"credits", "insured", "escrow"}]
    /\ disturbed \subseteq Jobs /\ received \subseteq Jobs
    /\ submit \in [Jobs -> {"start", "deduct", "escrow", "insure", "insert", "forward", "giveUp",
                            "refund", "done"}]
    /\ forwards \in [Jobs -> 0..MaxForwards]
    /\ callback \in [Callbacks -> [at : {"none", "read", "reward", "refund", "write", "done"},
                                   outcome : {"success", "rejected", "timeout"}]]

Init ==
    /\ balance = Deposit
    /\ Scripts!ScriptInit
    /\ status = [j \in Jobs |-> "none"]
    /\ charged = [j \in Jobs |-> 0]
    /\ refunded = [j \in Jobs |-> 0]
    /\ rewarded = [j \in Jobs |-> 0]
    /\ mode \in [Jobs -> Modes]
    /\ disturbed = {} /\ received = {}
    /\ submit = [j \in Jobs |-> "start"]
    /\ forwards = [j \in Jobs |-> 0]
    /\ callback = [c \in Callbacks |-> [at |-> "none", outcome |-> "success"]]

SubmitAt(j, p) == submit' = [submit EXCEPT ![j] = p]
CallbackAt(c, p) == callback' = [callback EXCEPT ![c].at = p]
Answered(c) == callback[c].at \in {"none", "done"}
AtRest(j) == submit[j] \in {"start", "done"} /\ \A c \in Callbacks : c[1] = j => Answered(c)
Disturb(js) == disturbed' = disturbed \cup js

-----------------------------------------------------------------------------
(***************************************************************************)
(* The atomic RPCs.  deduct refuses what the balance, locked, cannot cover.*)
(***************************************************************************)
Charge(j) ==
    /\ balance' = balance - 1
    /\ charged' = [charged EXCEPT ![j] = @ + 1]
    /\ UNCHANGED <<refunded, rewarded>>

\* Faulty variant: the RPC relies on the check made before.
CanAlwaysDeduct == TRUE

CanDeduct == balance >= 1

Refund(j) ==
    /\ balance' = balance + 1
    /\ refunded' = [refunded EXCEPT ![j] = @ + 1]
    /\ UNCHANGED <<charged, rewarded>>

-----------------------------------------------------------------------------
(***************************************************************************)
(* submit_job                                                              *)
(***************************************************************************)
CheckBalance(j) ==
    /\ submit[j] = "start"
    /\ SubmitAt(j, IF ~PaysWithCredits(j) THEN "insert"
                   ELSE IF balance >= 1 THEN "deduct" ELSE "done")
    /\ UNCHANGED <<money, runs, status, mode, disturbed, received, forwards, callback>>

Deduct(j) ==
    /\ submit[j] = "deduct"
    /\ IF CanDeduct
       THEN Charge(j) /\ SubmitAt(j, "escrow") /\ Scripts!Launch(EscrowOf(j), "create_escrow")
       ELSE SubmitAt(j, "done") /\ UNCHANGED <<money, runs>>
    /\ UNCHANGED <<status, mode, disturbed, received, forwards, callback>>

\* The program has printed the id of the escrow.
EscrowMade(j) ==
    /\ submit[j] = "escrow" /\ Says(EscrowOf(j)) = "success"
    /\ IF mode[j] = "insured"
       THEN SubmitAt(j, "insure") /\ Scripts!Launch(CoverageOf(j), "purchase_insurance")
       ELSE SubmitAt(j, "insert") /\ UNCHANGED runs
    /\ UNCHANGED <<money, status, mode, disturbed, received, forwards, callback>>

\* It has failed, or is not done after 120 s, and goes on alone.  The credits
\* are given back, and the call fails.
NoEscrow(j) ==
    /\ submit[j] = "escrow"
    /\ Says(EscrowOf(j)) = "failure" \/ (Says(EscrowOf(j)) = "nothing" /\ "script" \in Faults)
    /\ SubmitAt(j, "refund")
    /\ UNCHANGED <<money, runs, status, mode, disturbed, received, forwards, callback>>

\* With or without a coverage the job goes on.
Insured(j) ==
    /\ submit[j] = "insure"
    /\ Says(CoverageOf(j)) # "nothing" \/ "script" \in Faults
    /\ SubmitAt(j, "insert")
    /\ UNCHANGED <<money, runs, status, mode, disturbed, received, forwards, callback>>

Script(r) ==
    /\ Scripts!Transact(r) \/ ("script" \in Faults /\ Scripts!Break(r))
    /\ UNCHANGED <<money, status, mode, disturbed, received, submit, forwards, callback>>

\* The record is written without its payment_mode.
InsertJob(j) ==
    /\ submit[j] = "insert"
    /\ status' = [status EXCEPT ![j] = "RUNNING"]
    /\ SubmitAt(j, "forward")
    /\ UNCHANGED <<money, runs, mode, disturbed, received, forwards, callback>>

ForwardOk(j) ==
    /\ submit[j] = "forward"
    /\ received' = received \cup {j}
    /\ SubmitAt(j, "done")
    /\ UNCHANGED <<money, runs, status, mode, disturbed, forwards, callback>>

\* An attempt that fails: nothing got there, or its answer did not get back.
ForwardFails(j) ==
    /\ submit[j] = "forward"
    /\ \/ "forward" \in Faults /\ UNCHANGED <<received, disturbed>>
       \/ "reply" \in Faults /\ received' = received \cup {j} /\ Disturb({j})
    /\ forwards' = [forwards EXCEPT ![j] = @ + 1]
    /\ SubmitAt(j, IF forwards'[j] = MaxForwards THEN "giveUp" ELSE "forward")
    /\ UNCHANGED <<money, runs, status, mode, callback>>

GiveUp(j) ==
    /\ submit[j] = "giveUp"
    /\ status' = [status EXCEPT ![j] = "FAILED"]
    /\ SubmitAt(j, IF PaysWithCredits(j) THEN "refund" ELSE "done")
    /\ UNCHANGED <<money, runs, mode, disturbed, received, forwards, callback>>

RefundSubmission(j) ==
    /\ submit[j] = "refund"
    /\ \/ Refund(j) /\ UNCHANGED disturbed
       \/ "refund" \in Faults /\ Disturb({j}) /\ UNCHANGED money
    /\ SubmitAt(j, "done")
    /\ UNCHANGED <<runs, status, mode, received, forwards, callback>>

-----------------------------------------------------------------------------
(***************************************************************************)
(* complete_job                                                            *)
(***************************************************************************)
Notify(c, o) ==
    /\ c[1] \in received
    /\ callback[c].at = "none"
    /\ \A i \in 1..(c[2] - 1) :
        callback[<<c[1], i>>].at # "none" /\ (Overlap \/ Answered(<<c[1], i>>))
    /\ callback' = [callback EXCEPT ![c] = [at |-> "read", outcome |-> o]]
    /\ UNCHANGED <<money, runs, status, mode, disturbed, received, submit, forwards>>

\* Faulty variant: the status is not looked at.
ReadAnyJob(c) ==
    /\ callback[c].at = "read"
    /\ CallbackAt(c, IF callback[c].outcome = "success" THEN "reward" ELSE "refund")
    /\ UNCHANGED <<money, runs, status, mode, disturbed, received, submit, forwards>>

\* The stored record has no payment_mode, so that every job counts as a job
\* paid with credits.
ReadJob(c) ==
    /\ callback[c].at = "read"
    /\ CallbackAt(c, IF status[c[1]] # "RUNNING" THEN "done"
                     ELSE IF callback[c].outcome = "success" THEN "reward" ELSE "refund")
    /\ UNCHANGED <<money, runs, status, mode, disturbed, received, submit, forwards>>

\* distribute_reward and claim_payout; failures are logged.
Reward(c) ==
    /\ callback[c].at = "reward"
    /\ \/ rewarded' = [rewarded EXCEPT ![c[1]] = @ + 1] /\ UNCHANGED disturbed
       \/ "rewards" \in Faults /\ Disturb({c[1]}) /\ UNCHANGED rewarded
    /\ CallbackAt(c, "write")
    /\ UNCHANGED <<balance, charged, refunded, runs, status, mode, received, submit, forwards>>

\* A refund that fails is logged, and the job is closed as refunded.
RefundJob(c) ==
    /\ callback[c].at = "refund"
    /\ \/ Refund(c[1]) /\ UNCHANGED disturbed
       \/ "refund" \in Faults /\ Disturb({c[1]}) /\ UNCHANGED money
    /\ CallbackAt(c, "write")
    /\ UNCHANGED <<runs, status, mode, received, submit, forwards>>

CloseJob(c) ==
    /\ callback[c].at = "write"
    /\ status' = [status EXCEPT ![c[1]] = FinalStatus(callback[c].outcome)]
    /\ CallbackAt(c, "done")
    /\ UNCHANGED <<money, runs, mode, disturbed, received, submit, forwards>>

\* A restart loses every handler; the programs they wait for go on.
Crash ==
    /\ "crash" \in Faults
    /\ submit' = [j \in Jobs |-> IF submit[j] = "start" THEN "start" ELSE "done"]
    /\ callback' = [c \in Callbacks |->
            IF Answered(c) THEN callback[c] ELSE [callback[c] EXCEPT !.at = "done"]]
    /\ Disturb({j \in Jobs : ~AtRest(j)})
    /\ UNCHANGED <<money, runs, status, mode, received, forwards>>

Submission(j) ==
    \/ CheckBalance(j) \/ Deduct(j) \/ EscrowMade(j) \/ NoEscrow(j) \/ Insured(j) \/ InsertJob(j)
    \/ ForwardOk(j) \/ ForwardFails(j) \/ GiveUp(j) \/ RefundSubmission(j)

Completion(c) ==
    \/ \E o \in Outcomes : Notify(c, o)
    \/ ReadJob(c) \/ Reward(c) \/ RefundJob(c) \/ CloseJob(c)

Next ==
    \/ \E j \in Jobs : Submission(j)
    \/ \E c \in Callbacks : Completion(c)
    \/ \E r \in Jobs \X JobScripts : Script(r)
    \/ Crash

Spec == Init /\ [][Next]_vars

-----------------------------------------------------------------------------
(***************************************************************************)
(* Credits cannot be spent twice: the balance that submit_job checks is    *)
(* stale when it deducts, and other submissions, refunds and restarts come *)
(* in between, but the balance never goes below zero.                      *)
(***************************************************************************)
NeverOverdrawn == balance >= 0

(***************************************************************************)
(* When callbacks come one at a time, every job paid with credits that     *)
(* nobody works on is square: a completed job was charged and rewarded     *)
(* once, and any other one that ended was refunded as often as it was      *)
(* charged and rewarded nobody.  Repeated and contradicting callbacks,     *)
(* failing escrows, an unreachable coordination layer and what happens to  *)
(* other jobs do not change that; a lost answer, a refund or reward that   *)
(* fails and a restart in the midst of the job do, and disturb it.         *)
(***************************************************************************)
SettledSquare ==
    \A j \in Jobs \ disturbed : PaysWithCredits(j) /\ AtRest(j) =>
        CASE status[j] = "COMPLETED" -> charged[j] - refunded[j] = 1 /\ rewarded[j] = 1
          [] status[j] = "RUNNING" -> charged[j] - refunded[j] = 1 /\ rewarded[j] = 0
          [] OTHER -> charged[j] = refunded[j] /\ rewarded[j] = 0

(***************************************************************************)
(* Whatever the programs run into, and whether or not the service is there *)
(* when they end, the nodes never work on credit: the escrow of a job that *)
(* the coordination layer has received was created and funded before, and  *)
(* the user was charged for it.  A job that brings its own escrow comes    *)
(* with an id that nobody looks up.                                        *)
(***************************************************************************)
EscrowBacked ==
    \A j \in Jobs : j \in received /\ PaysWithCredits(j) =>
        Scripts!Accomplished(EscrowOf(j)) /\ charged[j] = 1

-----------------------------------------------------------------------------
(***************************************************************************)
(* A statement of the code that it does not keep: complete_job skips a job *)
(* that is "already finalized", so that its nodes are rewarded once.  Two  *)
(* callbacks that overlap both find it running.                            *)
(***************************************************************************)
RewardedOnce == \A j \in Jobs : rewarded[j] <= 1

=============================================================================
