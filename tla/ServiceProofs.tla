--------------------------- MODULE ServiceProofs ---------------------------
(***************************************************************************)
(* Proofs about the services: JobSettlement, for any set of jobs, deposit  *)
(* and faults, and the CoFHE bridge of a node, for any number of           *)
(* coroutines and of deaths.                                               *)
(***************************************************************************)
EXTENDS JobSettlement, CofheBridge, SumTheorems, TLAPS

-----------------------------------------------------------------------------
(***************************************************************************)
(* JobSettlement.                                                          *)
(***************************************************************************)
\* The part of TypeOK that the proof needs and the property itself.
Solvent ==
    /\ balance \in Nat
    /\ callback \in [Callbacks -> [at : {"none", "read", "reward", "refund", "write", "done"},
                                   outcome : {"success", "rejected", "timeout"}]]

-----------------------------------------------------------------------------
LEMMA InitSolvent == Init => Solvent
  BY PaymentAssumption DEF Init, Solvent

LEMMA SubmissionSolvent ==
  ASSUME NEW j \in Jobs, Solvent, Submission(j)
  PROVE  Solvent'
<1>1. balance' \in Nat
  <2>1. CASE Deduct(j)
    BY <2>1 DEF Deduct, CanDeduct, Charge, money, Solvent
  <2>2. CASE RefundSubmission(j)
    BY <2>2 DEF RefundSubmission, Refund, money, Solvent
  <2>3. CASE CheckBalance(j) \/ EscrowMade(j) \/ NoEscrow(j) \/ Insured(j) \/ InsertJob(j)
             \/ ForwardOk(j) \/ ForwardFails(j) \/ GiveUp(j)
    BY <2>3 DEF CheckBalance, EscrowMade, NoEscrow, Insured, InsertJob, ForwardOk,
                ForwardFails, GiveUp, money, Solvent
  <2>4. QED
    BY <2>1, <2>2, <2>3 DEF Submission
<1>2. callback' = callback
  BY DEF Submission, CheckBalance, Deduct, EscrowMade, NoEscrow, Insured, InsertJob, ForwardOk,
         ForwardFails, GiveUp, RefundSubmission
<1>3. QED
  BY <1>1, <1>2 DEF Solvent

LEMMA CompletionSolvent ==
  ASSUME NEW c \in Callbacks, Solvent, Completion(c)
  PROVE  Solvent'
<1>1. balance' \in Nat
  BY DEF Completion, Notify, ReadJob, Reward, RefundJob, CloseJob, Refund, money, Solvent
<1>2. callback' \in [Callbacks -> [at : {"none", "read", "reward", "refund", "write", "done"},
                                   outcome : {"success", "rejected", "timeout"}]]
  <2>1. ASSUME NEW o \in Outcomes, Notify(c, o) PROVE callback' \in
            [Callbacks -> [at : {"none", "read", "reward", "refund", "write", "done"},
                           outcome : {"success", "rejected", "timeout"}]]
    BY <2>1, PaymentAssumption DEF Notify, Solvent
  <2>2. CASE ReadJob(c)
    BY <2>2 DEF ReadJob, CallbackAt, Solvent
  <2>3. CASE Reward(c) \/ RefundJob(c) \/ CloseJob(c)
    BY <2>3 DEF Reward, RefundJob, CloseJob, CallbackAt, Solvent
  <2>4. QED
    BY <2>1, <2>2, <2>3 DEF Completion
<1>3. QED
  BY <1>1, <1>2 DEF Solvent

LEMMA CrashSolvent == Solvent /\ Crash => Solvent'
  BY DEF Crash, Solvent, money, Answered

LEMMA NextSolvent == Solvent /\ [Next]_vars => Solvent'
<1>1. Solvent /\ UNCHANGED vars => Solvent'
  BY DEF Solvent, vars, money
<1>2. ASSUME NEW r \in Jobs \X JobScripts, Solvent, Script(r) PROVE Solvent'
  BY <1>2 DEF Script, Solvent, money
<1>3. QED
  BY <1>1, <1>2, SubmissionSolvent, CompletionSolvent, CrashSolvent DEF Next

(***************************************************************************)
(* The credits of a user are never overdrawn, however many jobs are        *)
(* submitted at once, and whatever of submit_job and complete_job fails:   *)
(* atomic_credit_deduct looks at the balance again.                        *)
(***************************************************************************)
THEOREM CreditsNeverOverdrawn == Spec => []NeverOverdrawn
<1>1. Solvent => NeverOverdrawn
  BY DEF Solvent, NeverOverdrawn
<1>2. QED
  BY <1>1, InitSolvent, NextSolvent, PTL DEF Spec

-----------------------------------------------------------------------------
(***************************************************************************)
(* The escrow behind a job.  A program is asked for one thing, and says    *)
(* success when all its transactions are mined; where submit_job is says   *)
(* what has been done for the job.                                         *)
(***************************************************************************)
RunType == [program : {"none", "create_escrow", "purchase_insurance"}, mined : Nat,
            says : {"nothing", "success", "failure"}]

Positions == {"start", "deduct", "escrow", "insure", "insert", "forward", "giveUp", "refund",
              "done"}

Shapes ==
    /\ runs \in [Jobs \X JobScripts -> RunType]
    /\ submit \in [Jobs -> Positions]
    /\ charged \in [Jobs -> Nat]

Funded(j) == runs[EscrowOf(j)].program = "create_escrow" /\ runs[EscrowOf(j)].mined = 2

\* What the program of a job has been asked for, and what it says of it.
ScriptInStep(j) ==
    /\ runs[EscrowOf(j)].program \in {"none", "create_escrow"}
    /\ runs[EscrowOf(j)].says = "success" => Funded(j)
    /\ runs[EscrowOf(j)].says = "nothing" => runs[EscrowOf(j)].mined < 2

\* What the place of submit_job says about the credits.
ChargeInStep(j) ==
    /\ submit[j] \in {"start", "deduct"} => charged[j] = 0
    /\ submit[j] = "escrow" => charged[j] = 1

\* The job has gone on from its escrow.
GoneOn(j) == submit[j] \in {"insure", "insert", "forward", "giveUp"} \/ j \in received

JobInStep(j) == PaysWithCredits(j) /\ GoneOn(j) => Funded(j) /\ charged[j] = 1

Backed(j) == ScriptInStep(j) /\ ChargeInStep(j) /\ JobInStep(j)

BackedInv == Shapes /\ \A j \in Jobs : Backed(j)

\* Every job has its own process, and another one for its coverage.
LEMMA OwnProcess ==
  ASSUME NEW j \in Jobs, NEW k \in Jobs
  PROVE  /\ EscrowOf(j) \in Jobs \X JobScripts /\ CoverageOf(j) \in Jobs \X JobScripts
         /\ EscrowOf(j) = EscrowOf(k) => j = k
         /\ EscrowOf(j) # CoverageOf(k)
  BY DEF EscrowOf, CoverageOf, JobScripts

LEMMA InitBacked == Init => BackedInv
<1>1. SUFFICES ASSUME Init PROVE BackedInv
  OBVIOUS
<1>2. Shapes
  BY <1>1 DEF Init, Shapes, Scripts!ScriptInit, Scripts!NotRun, RunType, Positions
<1>3. ASSUME NEW j \in Jobs PROVE Backed(j)
  <2>1. runs[EscrowOf(j)] = [program |-> "none", mined |-> 0, says |-> "nothing"]
    BY <1>1, OwnProcess DEF Init, Scripts!ScriptInit, Scripts!NotRun
  <2> QED
    BY <1>1, <2>1 DEF Init, Backed, ScriptInStep, ChargeInStep, JobInStep, GoneOn
<1> QED BY <1>2, <1>3 DEF BackedInv

\* A step that starts no program, runs none and charges nothing keeps a job
\* backed unless the job goes on by it.
LEMMA Undisturbed ==
  ASSUME NEW k \in Jobs, Backed(k), runs' = runs, charged' = charged, mode' = mode,
         submit'[k] \in {"start", "deduct"} => submit[k] \in {"start", "deduct"},
         submit'[k] = "escrow" => submit[k] = "escrow",
         PaysWithCredits(k) /\ GoneOn(k)' => GoneOn(k)
  PROVE  Backed(k)'
<1>1. ScriptInStep(k)'
  BY DEF Backed, ScriptInStep, Funded
<1>2. ChargeInStep(k)'
  BY DEF Backed, ChargeInStep
<1>3. JobInStep(k)'
  BY DEF Backed, JobInStep, Funded, PaysWithCredits
<1> QED BY <1>1, <1>2, <1>3 DEF Backed

LEMMA CreateEscrowSends ==
  ASSUME NEW r, runs[r].program = "create_escrow"
  PROVE  Scripts!Sent(r) = 2
<1>1. Scripts!Sent(r) = Len(<<"create", "fund">>)
  BY DEF Scripts!Sent, Scripts!Transactions, Scripts!CreateEscrowScript
<1> QED BY <1>1

LEMMA DeductBacked ==
  ASSUME NEW j \in Jobs, BackedInv, Deduct(j)
  PROVE  BackedInv'
<1>1. CASE ~CanDeduct
  <2>1. ASSUME NEW k \in Jobs PROVE Backed(k)'
    BY <1>1, <2>1, Undisturbed DEF BackedInv, Shapes, Deduct, SubmitAt, money, GoneOn
  <2>2. Shapes'
    BY <1>1 DEF BackedInv, Shapes, Deduct, SubmitAt, money, Positions
  <2> QED BY <2>1, <2>2 DEF BackedInv
<1>2. CASE CanDeduct
  <2>1. /\ Shapes /\ submit[j] = "deduct" /\ submit' = [submit EXCEPT ![j] = "escrow"]
        /\ charged' = [charged EXCEPT ![j] = @ + 1]
        /\ runs' = [runs EXCEPT ![EscrowOf(j)].program = "create_escrow"]
        /\ mode' = mode /\ received' = received
        /\ runs[EscrowOf(j)] = [program |-> "none", mined |-> 0, says |-> "nothing"]
    BY <1>2 DEF BackedInv, Deduct, SubmitAt, Charge, Scripts!Launch, Scripts!NotRun
  <2>2. Shapes'
    BY <2>1, OwnProcess DEF Shapes, Positions, RunType
  <2>3. ASSUME NEW k \in Jobs PROVE Backed(k)'
    <3>1. CASE k = j
      <4>1. runs'[EscrowOf(j)] = [program |-> "create_escrow", mined |-> 0, says |-> "nothing"]
        BY <2>1, OwnProcess DEF Shapes, RunType
      <4>2. submit'[j] = "escrow" /\ charged'[j] = 1
        BY <2>1 DEF BackedInv, Backed, ChargeInStep, Shapes
      <4>3. PaysWithCredits(j) => ~GoneOn(j) \/ Funded(j)
        BY DEF BackedInv, Backed, JobInStep
      <4>4. PaysWithCredits(j) => ~GoneOn(j)'
        BY <2>1, <4>2, <4>3 DEF GoneOn, Funded
      <4> QED
        BY <2>1, <3>1, <4>1, <4>2, <4>4
        DEF Backed, ScriptInStep, ChargeInStep, JobInStep, PaysWithCredits
    <3>2. CASE k # j
      <4>1. /\ runs'[EscrowOf(k)] = runs[EscrowOf(k)]
            /\ submit'[k] = submit[k] /\ charged'[k] = charged[k]
        BY <2>1, <3>2, OwnProcess DEF Shapes
      <4> QED
        BY <2>1, <4>1 DEF BackedInv, Backed, ScriptInStep, ChargeInStep, JobInStep, Funded,
                          GoneOn, PaysWithCredits
    <3> QED BY <3>1, <3>2
  <2> QED BY <2>2, <2>3 DEF BackedInv
<1> QED BY <1>1, <1>2

LEMMA EscrowMadeBacked ==
  ASSUME NEW j \in Jobs, BackedInv, EscrowMade(j)
  PROVE  BackedInv'
<1>1. /\ submit[j] = "escrow" /\ runs[EscrowOf(j)].says = "success"
      /\ charged' = charged /\ mode' = mode /\ received' = received /\ Shapes
      /\ \E p \in {"insure", "insert"} : submit' = [submit EXCEPT ![j] = p]
  BY DEF EscrowMade, Says, SubmitAt, money, BackedInv
<1>2. /\ runs' \in [Jobs \X JobScripts -> RunType]
      /\ \A k \in Jobs : runs'[EscrowOf(k)] = runs[EscrowOf(k)]
  <2>1. CASE runs' = runs
    BY <1>1, <2>1 DEF Shapes
  <2>2. CASE runs' = [runs EXCEPT ![CoverageOf(j)].program = "purchase_insurance"]
    BY <1>1, <2>2, OwnProcess DEF Shapes, RunType
  <2> QED BY <2>1, <2>2 DEF EscrowMade, Scripts!Launch
<1>3. Shapes'
  BY <1>1, <1>2 DEF Shapes, Positions
<1>4. ASSUME NEW k \in Jobs PROVE Backed(k)'
  <2>1. Funded(k)' <=> Funded(k)
    BY <1>2 DEF Funded
  <2>2. ScriptInStep(k)'
    BY <1>2, <2>1 DEF BackedInv, Backed, ScriptInStep
  <2>3. k = j => Funded(k) /\ charged[k] = 1
    BY <1>1 DEF BackedInv, Backed, ScriptInStep, ChargeInStep
  <2>4. k # j => submit'[k] = submit[k]
    BY <1>1 DEF Shapes
  <2>5. k = j => submit'[k] \in {"insure", "insert"}
    BY <1>1 DEF Shapes
  <2> QED
    BY <1>1, <2>1, <2>2, <2>3, <2>4, <2>5
    DEF BackedInv, Backed, ChargeInStep, JobInStep, GoneOn, PaysWithCredits
<1> QED BY <1>3, <1>4 DEF BackedInv

\* The other steps of submit_job charge nothing and start no program.
LEMMA SubmissionBacked ==
  ASSUME NEW j \in Jobs, BackedInv, Submission(j)
  PROVE  BackedInv'
<1>1. CASE Deduct(j)
  BY <1>1, DeductBacked
<1>2. CASE EscrowMade(j)
  BY <1>2, EscrowMadeBacked
<1>3. CASE CheckBalance(j)
  <2>1. Shapes'
    BY <1>3 DEF BackedInv, Shapes, CheckBalance, SubmitAt, money, Positions
  <2>2. ASSUME NEW k \in Jobs PROVE Backed(k)'
    <3>1. PaysWithCredits(k) /\ GoneOn(k)' => GoneOn(k)
      BY <1>3 DEF BackedInv, Shapes, CheckBalance, SubmitAt, GoneOn
    <3> QED BY <1>3, <3>1, Undisturbed DEF BackedInv, Shapes, CheckBalance, SubmitAt, money
  <2> QED BY <2>1, <2>2 DEF BackedInv
<1>4. CASE NoEscrow(j) \/ Insured(j) \/ InsertJob(j) \/ ForwardOk(j) \/ ForwardFails(j)
           \/ GiveUp(j) \/ RefundSubmission(j)
  <2>1. /\ runs' = runs /\ charged' = charged /\ mode' = mode
        /\ \E p \in {"insert", "forward", "giveUp", "refund", "done"} :
              submit' = [submit EXCEPT ![j] = p]
        /\ received' \subseteq received \cup {j}
    BY <1>4 DEF NoEscrow, Insured, InsertJob, ForwardOk, ForwardFails, GiveUp, RefundSubmission,
                Refund, SubmitAt, money
  <2>2. Shapes'
    BY <2>1 DEF BackedInv, Shapes, Positions
  <2>3. GoneOn(j)' => GoneOn(j)
    BY <1>4 DEF NoEscrow, Insured, InsertJob, ForwardOk, ForwardFails, GiveUp, RefundSubmission,
                SubmitAt, GoneOn, BackedInv, Shapes
  <2>4. ASSUME NEW k \in Jobs PROVE Backed(k)'
    <3>1. GoneOn(k)' => GoneOn(k)
      BY <2>1, <2>3 DEF GoneOn, BackedInv, Shapes
    <3>2. submit'[k] # submit[k] => submit'[k] \notin {"start", "deduct", "escrow"}
      BY <2>1 DEF BackedInv, Shapes
    <3> QED BY <2>1, <3>1, <3>2, Undisturbed DEF BackedInv
  <2> QED BY <2>2, <2>4 DEF BackedInv
<1> QED BY <1>1, <1>2, <1>3, <1>4 DEF Submission

LEMMA CompletionBacked ==
  ASSUME NEW c \in Callbacks, BackedInv, Completion(c)
  PROVE  BackedInv'
<1>1. /\ runs' = runs /\ charged' = charged /\ mode' = mode
      /\ submit' = submit /\ received' = received
  BY DEF Completion, Notify, ReadJob, Reward, RefundJob, CloseJob, Refund, money
<1>2. ASSUME NEW k \in Jobs PROVE Backed(k)'
  BY <1>1, <1>2, Undisturbed DEF BackedInv, GoneOn
<1> QED BY <1>1, <1>2 DEF BackedInv, Shapes

\* A program that goes on, or breaks, takes the place of what it has done.
LEMMA ScriptBacked ==
  ASSUME NEW r \in Jobs \X JobScripts, BackedInv, Script(r)
  PROVE  BackedInv'
<1>1. /\ charged' = charged /\ mode' = mode /\ submit' = submit /\ received' = received
      /\ Scripts!Running(r) /\ Shapes
      /\ \E m \in {runs[r].mined, runs[r].mined + 1}, s \in {"nothing", "success", "failure"} :
            /\ runs' = [runs EXCEPT ![r].mined = m, ![r].says = s]
            /\ s = "nothing" => m # Scripts!Sent(r)
            /\ s = "success" => m = Scripts!Sent(r) \/ runs[r].program \in Scripts!Pretenders
  BY DEF Script, money, BackedInv, Shapes, RunType, Scripts!Transact, Scripts!Break,
         Scripts!SaysAfter
<1>2. PICK m \in {runs[r].mined, runs[r].mined + 1}, s \in {"nothing", "success", "failure"} :
            /\ runs' = [runs EXCEPT ![r].mined = m, ![r].says = s]
            /\ s = "nothing" => m # Scripts!Sent(r)
            /\ s = "success" => m = Scripts!Sent(r) \/ runs[r].program \in Scripts!Pretenders
  BY <1>1
<1>3. runs[r] \in RunType /\ m \in Nat
  BY <1>1 DEF Shapes, RunType
<1>4. runs'[r] = [program |-> runs[r].program, mined |-> m, says |-> s]
  BY <1>1, <1>2, <1>3 DEF Shapes, RunType
<1>5. Shapes'
  BY <1>1, <1>2, <1>3 DEF Shapes, RunType
<1>6. ASSUME NEW k \in Jobs PROVE Backed(k)'
  <2>1. CASE EscrowOf(k) # r
    <3>1. runs'[EscrowOf(k)] = runs[EscrowOf(k)]
      BY <1>1, <1>2, <2>1, OwnProcess DEF Shapes
    <3> QED
      BY <1>1, <3>1 DEF BackedInv, Backed, ScriptInStep, ChargeInStep, JobInStep, Funded,
                        GoneOn, PaysWithCredits
  <2>2. CASE EscrowOf(k) = r
    <3>1. runs[r].program = "create_escrow" /\ runs[r].says = "nothing" /\ runs[r].mined < 2
      BY <1>1, <2>2 DEF BackedInv, Backed, ScriptInStep, Scripts!Running
    <3>2. Scripts!Sent(r) = 2 /\ "create_escrow" \notin Scripts!Pretenders
      BY <3>1, CreateEscrowSends DEF Scripts!Pretenders
    <3>3. ScriptInStep(k)'
      <4>1. m \in Nat /\ m <= 2
        BY <1>3, <3>1 DEF RunType
      <4>2. (s = "success" => m = 2) /\ (s = "nothing" => m < 2)
        BY <1>2, <3>1, <3>2, <4>1
      <4>3. runs'[EscrowOf(k)] = [program |-> "create_escrow", mined |-> m, says |-> s]
        BY <1>4, <2>2, <3>1
      <4> QED BY <4>2, <4>3 DEF ScriptInStep, Funded
    <3>4. ~Funded(k)
      BY <1>3, <2>2, <3>1 DEF Funded, RunType
    <3>5. ChargeInStep(k)' /\ JobInStep(k)'
      BY <1>1, <3>4 DEF BackedInv, Backed, ChargeInStep, JobInStep, GoneOn, PaysWithCredits
    <3> QED BY <3>3, <3>5 DEF Backed
  <2> QED BY <2>1, <2>2
<1> QED BY <1>5, <1>6 DEF BackedInv

LEMMA CrashBacked == BackedInv /\ Crash => BackedInv'
<1>1. SUFFICES ASSUME BackedInv, Crash PROVE BackedInv'
  OBVIOUS
<1>2. /\ runs' = runs /\ charged' = charged /\ mode' = mode /\ received' = received
      /\ submit' = [j \in Jobs |-> IF submit[j] = "start" THEN "start" ELSE "done"]
  BY <1>1 DEF Crash, money
<1>3. Shapes'
  BY <1>1, <1>2 DEF BackedInv, Shapes, Positions
<1>4. ASSUME NEW k \in Jobs PROVE Backed(k)'
  BY <1>1, <1>2, <1>4, Undisturbed DEF BackedInv, GoneOn
<1> QED BY <1>3, <1>4 DEF BackedInv

LEMMA NextBacked == BackedInv /\ [Next]_vars => BackedInv'
<1>1. BackedInv /\ UNCHANGED vars => BackedInv'
  BY DEF BackedInv, Shapes, Backed, ScriptInStep, ChargeInStep, JobInStep, Funded, GoneOn,
         PaysWithCredits, vars, money
<1>2. QED
  BY <1>1, SubmissionBacked, CompletionBacked, ScriptBacked, CrashBacked DEF Next

(***************************************************************************)
(* No node works on credit: whatever fails in between, a job paid with     *)
(* credits that the coordination layer has received was charged once, and  *)
(* its escrow was created and funded, because create_escrow.ts prints the  *)
(* id only then and submit_job goes on with nothing but the id.            *)
(***************************************************************************)
THEOREM JobsAreBacked == Spec => []EscrowBacked
<1>1. BackedInv => EscrowBacked
  <2>1. SUFFICES ASSUME BackedInv, NEW j \in Jobs, j \in received, PaysWithCredits(j)
                 PROVE  Scripts!Accomplished(EscrowOf(j)) /\ charged[j] = 1
    BY DEF EscrowBacked
  <2>2. Funded(j) /\ charged[j] = 1
    BY <2>1 DEF BackedInv, Backed, JobInStep, GoneOn
  <2> QED BY <2>2, CreateEscrowSends DEF Funded, Scripts!Accomplished
<1>2. QED
  BY <1>1, InitBacked, NextBacked, PTL DEF Spec

-----------------------------------------------------------------------------
(***************************************************************************)
(* The books of a job.  As long as the coordination layer has not received *)
(* the job, they follow from where submit_job is; afterwards from where    *)
(* the one complete_job is that works on it.                               *)
(***************************************************************************)
CallbackType == [at : {"none", "read", "reward", "refund", "write", "done"},
                 outcome : {"success", "rejected", "timeout"}]

Sheets ==
    /\ status \in [Jobs -> {"none", "RUNNING", "COMPLETED", "FAILED", "REFUNDED"}]
    /\ charged \in [Jobs -> Nat] /\ refunded \in [Jobs -> Nat] /\ rewarded \in [Jobs -> Nat]
    /\ submit \in [Jobs -> Positions]
    /\ callback \in [Callbacks -> CallbackType]

Book(j, c, f, w, s) ==
    charged[j] = c /\ refunded[j] = f /\ rewarded[j] = w /\ status[j] = s

\* Nobody has called back yet, or nobody can be in the way.
Settled(j) ==
    \/ Book(j, 1, 0, 0, "RUNNING") \/ Book(j, 1, 0, 1, "COMPLETED")
    \/ Book(j, 1, 1, 0, "FAILED") \/ Book(j, 1, 1, 0, "REFUNDED")

SubmissionSquare(j) ==
    /\ submit[j] \in {"start", "deduct"} => Book(j, 0, 0, 0, "none")
    /\ submit[j] \in {"escrow", "insure", "insert"} => Book(j, 1, 0, 0, "none")
    /\ submit[j] \in {"forward", "giveUp"} => Book(j, 1, 0, 0, "RUNNING")
    /\ submit[j] = "refund" => Book(j, 1, 0, 0, "none") \/ Book(j, 1, 0, 0, "FAILED")
    /\ submit[j] = "done" => /\ charged[j] = refunded[j] /\ rewarded[j] = 0
                             /\ status[j] \in {"none", "FAILED"}

HandSquare(j, k) == LET c == callback[<<j, k>>] IN
    /\ c.at = "read" => Settled(j)
    /\ c.at = "reward" => c.outcome = "success" /\ Book(j, 1, 0, 0, "RUNNING")
    /\ c.at = "refund" => c.outcome # "success" /\ Book(j, 1, 0, 0, "RUNNING")
    /\ c.at = "write" => \/ c.outcome = "success" /\ Book(j, 1, 0, 1, "RUNNING")
                         \/ c.outcome # "success" /\ Book(j, 1, 1, 0, "RUNNING")

Idle(j) == \A k \in 1..MaxCallbacks : Answered(<<j, k>>)

CompletionSquare(j) ==
    /\ submit[j] = "done"
    /\ Idle(j) => Settled(j)
    /\ \A k \in 1..MaxCallbacks : HandSquare(j, k)

Square(j) == j \notin disturbed /\ PaysWithCredits(j) =>
                 IF j \in received THEN CompletionSquare(j) ELSE SubmissionSquare(j)

\* Callbacks come for a job that was received, and one after the other.
OneByOne(j) ==
    /\ j \notin received => \A k \in 1..MaxCallbacks : callback[<<j, k>>].at = "none"
    /\ \A k, l \in 1..MaxCallbacks :
        k < l /\ callback[<<j, k>>].at = "none" => callback[<<j, l>>].at = "none"
    /\ \A k, l \in 1..MaxCallbacks : ~Answered(<<j, k>>) /\ ~Answered(<<j, l>>) => k = l

SquareInv == Sheets /\ \A j \in Jobs : OneByOne(j) /\ Square(j)

LEMMA InitSquare == Init => SquareInv
<1> SUFFICES ASSUME Init PROVE SquareInv
  OBVIOUS
<1>1. Sheets
  BY DEF Init, Sheets, Positions, CallbackType
<1>2. ASSUME NEW j \in Jobs PROVE OneByOne(j) /\ Square(j)
  <2>1. \A k \in 1..MaxCallbacks : callback[<<j, k>>].at = "none"
    BY DEF Init, Callbacks
  <2> QED
    BY <2>1 DEF Init, OneByOne, Answered, Square, SubmissionSquare, Book
<1> QED
  BY <1>1, <1>2 DEF SquareInv

\* A step that does not touch a job leaves it square.
LEMMA Untouched ==
  ASSUME NEW j \in Jobs, Square(j), mode' = mode, j \in disturbed => j \in disturbed',
         j \in received' <=> j \in received, submit'[j] = submit[j],
         status'[j] = status[j], charged'[j] = charged[j],
         refunded'[j] = refunded[j], rewarded'[j] = rewarded[j],
         \A k \in 1..MaxCallbacks : callback'[<<j, k>>] = callback[<<j, k>>]
  PROVE  Square(j)'
<1>1. ASSUME NEW c, NEW f, NEW w, NEW s PROVE Book(j, c, f, w, s)' <=> Book(j, c, f, w, s)
  BY DEF Book
<1>2. Settled(j)' <=> Settled(j)
  BY <1>1 DEF Settled
<1>3. ASSUME NEW k \in 1..MaxCallbacks, HandSquare(j, k) PROVE HandSquare(j, k)'
  BY <1>1, <1>2, <1>3 DEF HandSquare
<1>4. Idle(j)' <=> Idle(j)
  BY DEF Idle, Answered
<1>5. CompletionSquare(j) => CompletionSquare(j)'
  BY <1>2, <1>3, <1>4 DEF CompletionSquare
<1>6. SubmissionSquare(j) => SubmissionSquare(j)'
  BY DEF SubmissionSquare, Book
<1> QED
  BY <1>5, <1>6 DEF Square, PaysWithCredits

LEMMA SubmissionSheets ==
  ASSUME NEW j \in Jobs, Sheets, Submission(j) PROVE Sheets'
<1> USE DEF Sheets, SubmitAt, Positions, money
<1>1. CASE CheckBalance(j) \/ EscrowMade(j) \/ NoEscrow(j) \/ Insured(j)
  BY <1>1 DEF CheckBalance, EscrowMade, NoEscrow, Insured
<1>2. CASE Deduct(j)
  BY <1>2 DEF Deduct, Charge
<1>3. CASE InsertJob(j) \/ ForwardOk(j) \/ ForwardFails(j) \/ GiveUp(j)
  BY <1>3 DEF InsertJob, ForwardOk, ForwardFails, GiveUp
<1>4. CASE RefundSubmission(j)
  BY <1>4 DEF RefundSubmission, Refund
<1> QED
  BY <1>1, <1>2, <1>3, <1>4 DEF Submission

LEMMA SubmissionOneByOne ==
  ASSUME NEW j \in Jobs, NEW i \in Jobs, OneByOne(i), Submission(j) PROVE OneByOne(i)'
<1>1. callback' = callback
  BY DEF Submission, CheckBalance, Deduct, EscrowMade, NoEscrow, Insured, InsertJob, ForwardOk,
         ForwardFails, GiveUp, RefundSubmission
<1>2. i \in received => i \in received'
  BY DEF Submission, CheckBalance, Deduct, EscrowMade, NoEscrow, Insured, InsertJob, ForwardOk,
         ForwardFails, GiveUp, RefundSubmission
<1> QED
  BY <1>1, <1>2 DEF OneByOne, Answered

\* What submit_job does to its own job.
LEMMA SubmissionOwn ==
  ASSUME NEW j \in Jobs, Sheets, OneByOne(j), Square(j), Submission(j) PROVE Square(j)'
<1> SUFFICES ASSUME (j \notin disturbed)', PaysWithCredits(j)' PROVE
        IF j \in received' THEN CompletionSquare(j)' ELSE SubmissionSquare(j)'
  BY DEF Square
<1>1. callback' = callback /\ mode' = mode /\ disturbed \subseteq disturbed'
  BY DEF Submission, CheckBalance, Deduct, EscrowMade, NoEscrow, Insured, InsertJob, ForwardOk,
         ForwardFails, GiveUp, RefundSubmission, Disturb
<1>2. submit[j] # "done"
  BY DEF Submission, CheckBalance, Deduct, EscrowMade, NoEscrow, Insured, InsertJob, ForwardOk,
         ForwardFails, GiveUp, RefundSubmission
<1>3. PaysWithCredits(j) /\ j \notin disturbed
  BY <1>1 DEF PaysWithCredits
<1>4. j \notin received /\ SubmissionSquare(j)
  BY <1>2, <1>3 DEF Square, CompletionSquare
<1> USE DEF Sheets, SubmitAt, SubmissionSquare, Book, money
<1>5. CASE CheckBalance(j)
  BY <1>3, <1>4, <1>5 DEF CheckBalance
<1>6. CASE Deduct(j)
  BY <1>4, <1>6 DEF Deduct, Charge
<1>7. CASE EscrowMade(j) \/ NoEscrow(j) \/ Insured(j)
  BY <1>4, <1>7 DEF EscrowMade, NoEscrow, Insured
<1>8. CASE InsertJob(j)
  BY <1>4, <1>8 DEF InsertJob
<1>9. CASE ForwardOk(j)
  <2>1. \A k \in 1..MaxCallbacks : callback'[<<j, k>>].at = "none"
    BY <1>1, <1>4 DEF OneByOne
  <2>2. Settled(j)' /\ submit'[j] = "done" /\ j \in received'
    BY <1>4, <1>9 DEF ForwardOk, Settled
  <2> QED
    BY <2>1, <2>2 DEF CompletionSquare, HandSquare
<1>10. CASE ForwardFails(j)
  BY <1>4, <1>10 DEF ForwardFails, Disturb
<1>11. CASE GiveUp(j)
  BY <1>3, <1>4, <1>11 DEF GiveUp
<1>12. CASE RefundSubmission(j)
  BY <1>4, <1>12 DEF RefundSubmission, Refund, Disturb
<1> QED
  BY <1>5, <1>6, <1>7, <1>8, <1>9, <1>10, <1>11, <1>12 DEF Submission

LEMMA SubmissionElse ==
  ASSUME NEW j \in Jobs, NEW i \in Jobs, i # j, Sheets, Square(i), Submission(j) PROVE Square(i)'
<1> USE DEF Sheets, SubmitAt, money
<1> DEFINE Same == /\ mode' = mode /\ (i \in disturbed => i \in disturbed')
                   /\ (i \in received' <=> i \in received) /\ submit'[i] = submit[i]
                   /\ status'[i] = status[i] /\ charged'[i] = charged[i]
                   /\ refunded'[i] = refunded[i] /\ rewarded'[i] = rewarded[i]
                   /\ callback' = callback
<1>1. CASE CheckBalance(j) \/ EscrowMade(j) \/ NoEscrow(j) \/ Insured(j)
  <2>1. Same
    BY <1>1 DEF CheckBalance, EscrowMade, NoEscrow, Insured
  <2> QED
    BY <2>1, Untouched
<1>2. CASE Deduct(j)
  <2>1. Same
    BY <1>2 DEF Deduct, Charge
  <2> QED
    BY <2>1, Untouched
<1>3. CASE InsertJob(j) \/ ForwardOk(j) \/ ForwardFails(j) \/ GiveUp(j)
  <2>1. Same
    BY <1>3 DEF InsertJob, ForwardOk, ForwardFails, GiveUp, Disturb
  <2> QED
    BY <2>1, Untouched
<1>4. CASE RefundSubmission(j)
  <2>1. Same
    BY <1>4 DEF RefundSubmission, Refund, Disturb
  <2> QED
    BY <2>1, Untouched
<1> QED
  BY <1>1, <1>2, <1>3, <1>4 DEF Submission

LEMMA SubmissionKeepsSquare ==
  ASSUME NEW j \in Jobs, SquareInv, Submission(j) PROVE SquareInv'
BY SubmissionSheets, SubmissionOneByOne, SubmissionOwn, SubmissionElse DEF SquareInv

-----------------------------------------------------------------------------
\* What a callback leaves alone: the other ones, and the books of other jobs.
LEMMA CompletionFrame ==
  ASSUME NEW j \in Jobs, NEW k \in 1..MaxCallbacks, Sheets, Completion(<<j, k>>)
  PROVE  /\ \A i \in Jobs : \A l \in 1..MaxCallbacks :
                <<i, l>> # <<j, k>> => callback'[<<i, l>>] = callback[<<i, l>>]
         /\ mode' = mode /\ submit' = submit /\ received' = received
         /\ disturbed \subseteq disturbed'
         /\ \A i \in Jobs : i # j => /\ status'[i] = status[i] /\ charged'[i] = charged[i]
                                     /\ refunded'[i] = refunded[i] /\ rewarded'[i] = rewarded[i]
<1>1. mode' = mode /\ submit' = submit /\ received' = received
  BY DEF Completion, Notify, ReadJob, Reward, RefundJob, CloseJob
<1>2. disturbed \subseteq disturbed'
  BY DEF Completion, Notify, ReadJob, Reward, RefundJob, CloseJob, Disturb
<1>3. \A i \in Jobs : i # j => /\ status'[i] = status[i] /\ charged'[i] = charged[i]
                               /\ refunded'[i] = refunded[i] /\ rewarded'[i] = rewarded[i]
  BY DEF Completion, Notify, ReadJob, Reward, RefundJob, CloseJob, Refund, money, Sheets
<1>4. \A i \in Jobs : \A l \in 1..MaxCallbacks :
          <<i, l>> # <<j, k>> => callback'[<<i, l>>] = callback[<<i, l>>]
  <2>1. ASSUME NEW x, callback' = [callback EXCEPT ![<<j, k>>] = x],
               NEW i \in Jobs, NEW l \in 1..MaxCallbacks, <<i, l>> # <<j, k>>
        PROVE  callback'[<<i, l>>] = callback[<<i, l>>]
    <3>1. <<i, l>> \in Callbacks
      BY DEF Callbacks
    <3> QED
      BY <2>1, <3>1 DEF Sheets
  <2>2. \E x : callback' = [callback EXCEPT ![<<j, k>>] = x]
    <3>1. ASSUME NEW p, CallbackAt(<<j, k>>, p)
          PROVE  \E x : callback' = [callback EXCEPT ![<<j, k>>] = x]
      BY <3>1 DEF CallbackAt
    <3>2. ASSUME NEW o \in Outcomes, Notify(<<j, k>>, o)
          PROVE  \E x : callback' = [callback EXCEPT ![<<j, k>>] = x]
      BY <3>2 DEF Notify
    <3> QED
      BY <3>1, <3>2 DEF Completion, ReadJob, Reward, RefundJob, CloseJob
  <2> QED
    BY <2>1, <2>2
<1> QED
  BY <1>1, <1>2, <1>3, <1>4

LEMMA CompletionSheets ==
  ASSUME NEW c \in Callbacks, Sheets, Completion(c) PROVE Sheets'
<1>1. c[1] \in Jobs
  BY DEF Callbacks
<1>2. callback' \in [Callbacks -> CallbackType]
  <2>1. ASSUME NEW o \in Outcomes, Notify(c, o) PROVE callback' \in [Callbacks -> CallbackType]
    BY <2>1, PaymentAssumption DEF Notify, Sheets, CallbackType
  <2>2. ASSUME NEW p \in {"read", "reward", "refund", "write", "done"}, CallbackAt(c, p)
        PROVE  callback' \in [Callbacks -> CallbackType]
    BY <2>2 DEF CallbackAt, Sheets, CallbackType
  <2> QED
    BY <2>1, <2>2 DEF Completion, ReadJob, Reward, RefundJob, CloseJob
<1>3. refunded' \in [Jobs -> Nat] /\ rewarded' \in [Jobs -> Nat] /\ charged' = charged
  BY <1>1 DEF Completion, Notify, ReadJob, Reward, RefundJob, CloseJob, Refund, money, Sheets
<1>4. status' \in [Jobs -> {"none", "RUNNING", "COMPLETED", "FAILED", "REFUNDED"}]
  <2>1. CASE CloseJob(c)
    <3>1. FinalStatus(callback[c].outcome) \in {"COMPLETED", "FAILED", "REFUNDED"}
      BY DEF FinalStatus, Sheets, CallbackType
    <3> QED
      BY <2>1, <3>1, <1>1 DEF CloseJob, Sheets
  <2>2. CASE ~CloseJob(c)
    BY <2>2 DEF Completion, Notify, ReadJob, Reward, RefundJob, Sheets
  <2> QED
    BY <2>1, <2>2
<1>5. submit' = submit
  BY DEF Completion, Notify, ReadJob, Reward, RefundJob, CloseJob
<1> QED
  BY <1>2, <1>3, <1>4, <1>5 DEF Sheets

\* While a callback is worked at, or begins, all others of the job are answered.
LEMMA OthersAnswered ==
  ASSUME NEW j \in Jobs, NEW k \in 1..MaxCallbacks, Overlap = FALSE, Sheets, OneByOne(j),
         Completion(<<j, k>>)
  PROVE  /\ j \in received
         /\ \A l \in 1..MaxCallbacks : l # k => Answered(<<j, l>>)
         /\ \A l \in 1..MaxCallbacks : l < k => callback[<<j, l>>].at # "none"
<1>1. CASE ~Answered(<<j, k>>)
  BY <1>1 DEF OneByOne, Answered
<1>2. CASE Answered(<<j, k>>)
  <2>1. PICK o \in Outcomes : Notify(<<j, k>>, o)
    BY <1>2 DEF Completion, ReadJob, Reward, RefundJob, CloseJob, Answered
  <2>2. /\ j \in received /\ callback[<<j, k>>].at = "none"
        /\ \A l \in 1..(k - 1) : callback[<<j, l>>].at # "none" /\ Answered(<<j, l>>)
    BY <2>1 DEF Notify
  <2>3. \A l \in 1..MaxCallbacks : k < l => Answered(<<j, l>>)
    BY <2>2 DEF OneByOne, Answered
  <2>4. \A l \in 1..MaxCallbacks : l < k => l \in 1..(k - 1)
    BY PaymentAssumption
  <2>5. \A l \in 1..MaxCallbacks : l # k => l < k \/ k < l
    BY PaymentAssumption
  <2> QED
    BY <2>2, <2>3, <2>4, <2>5
<1> QED
  BY <1>1, <1>2

LEMMA CompletionOneByOne ==
  ASSUME NEW j \in Jobs, NEW k \in 1..MaxCallbacks, NEW i \in Jobs, Overlap = FALSE,
         Sheets, OneByOne(i), Completion(<<j, k>>)
  PROVE  OneByOne(i)'
<1>1. CASE i # j
  <2>1. \A l \in 1..MaxCallbacks : callback'[<<i, l>>] = callback[<<i, l>>]
    BY <1>1, CompletionFrame
  <2> QED
    BY <2>1, CompletionFrame DEF OneByOne, Answered
<1>2. CASE i = j
  <2>1. \A l \in 1..MaxCallbacks : l # k => callback'[<<j, l>>] = callback[<<j, l>>]
    BY CompletionFrame
  <2>2. /\ j \in received /\ received' = received
        /\ \A l \in 1..MaxCallbacks : l # k => Answered(<<j, l>>)
        /\ \A l \in 1..MaxCallbacks : l < k => callback[<<j, l>>].at # "none"
    BY <1>2, OthersAnswered, CompletionFrame
  <2>3. callback'[<<j, k>>].at # "none"
    <3>1. <<j, k>> \in Callbacks
      BY DEF Callbacks
    <3>2. ASSUME NEW p \in {"reward", "refund", "write", "done"}, CallbackAt(<<j, k>>, p)
          PROVE  callback'[<<j, k>>].at # "none"
      BY <3>1, <3>2 DEF CallbackAt, Sheets, CallbackType
    <3>3. ASSUME NEW o \in Outcomes, Notify(<<j, k>>, o) PROVE callback'[<<j, k>>].at # "none"
      BY <3>1, <3>3 DEF Notify, Sheets
    <3> QED
      BY <3>2, <3>3 DEF Completion, ReadJob, Reward, RefundJob, CloseJob
  <2> QED
    BY <1>2, <2>1, <2>2, <2>3, PaymentAssumption DEF OneByOne, Answered
<1> QED
  BY <1>1, <1>2

\* What complete_job does to its own job.
LEMMA CompletionOwn ==
  ASSUME NEW j \in Jobs, NEW k \in 1..MaxCallbacks, Overlap = FALSE,
         Sheets, OneByOne(j), Square(j), Completion(<<j, k>>)
  PROVE  Square(j)'
<1> SUFFICES ASSUME (j \notin disturbed)', PaysWithCredits(j)' PROVE
        j \in received' /\ CompletionSquare(j)'
  BY DEF Square
<1>1. /\ j \in received /\ received' = received /\ submit' = submit
      /\ \A l \in 1..MaxCallbacks : l # k => callback'[<<j, l>>] = callback[<<j, l>>]
      /\ \A l \in 1..MaxCallbacks : l # k => Answered(<<j, l>>)
  BY OthersAnswered, CompletionFrame
<1>2. CompletionSquare(j)
  BY <1>1, CompletionFrame DEF Square, PaysWithCredits
<1> DEFINE c == callback[<<j, k>>]
<1>3. <<j, k>> \in Callbacks /\ <<j, k>>[1] = j /\ c \in CallbackType
  BY DEF Callbacks, Sheets
<1>4. \A l \in 1..MaxCallbacks : l # k => Answered(<<j, l>>)' /\ HandSquare(j, l)'
  BY <1>1 DEF Answered, HandSquare
<1>5. SUFFICES (Answered(<<j, k>>)' => Settled(j)') /\ HandSquare(j, k)'
  BY <1>1, <1>2, <1>4 DEF CompletionSquare, Idle
<1>6. HandSquare(j, k) /\ (Answered(<<j, k>>) => Settled(j))
  BY <1>1, <1>2 DEF CompletionSquare, Idle
<1>7. ASSUME NEW p, CallbackAt(<<j, k>>, p) PROVE callback'[<<j, k>>] = [c EXCEPT !.at = p]
  BY <1>3, <1>7 DEF CallbackAt, Sheets
<1>8. ASSUME NEW o \in Outcomes, Notify(<<j, k>>, o) PROVE Settled(j)' /\ HandSquare(j, k)'
  <2>1. Settled(j) /\ callback'[<<j, k>>].at = "read"
    BY <1>3, <1>6, <1>8 DEF Notify, Answered, Sheets
  <2>2. Settled(j)'
    BY <1>8, <2>1 DEF Notify, Settled, Book, money
  <2> QED
    BY <2>1, <2>2 DEF HandSquare
<1>9. CASE ReadJob(<<j, k>>)
  <2>1. Settled(j) /\ Settled(j)'
    BY <1>6, <1>9 DEF ReadJob, HandSquare, Settled, Book, money
  <2>2. CASE status[j] # "RUNNING"
    <3>1. callback'[<<j, k>>] = [c EXCEPT !.at = "done"]
      BY <1>3, <1>7, <1>9, <2>2 DEF ReadJob
    <3>2. callback'[<<j, k>>].at = "done"
      BY <1>3, <3>1 DEF CallbackType
    <3> QED
      BY <2>1, <3>2 DEF HandSquare
  <2>3. CASE status[j] = "RUNNING"
    <3>1. Book(j, 1, 0, 0, "RUNNING")'
      BY <1>9, <2>1, <2>3 DEF ReadJob, Settled, Book, money
    <3>2. callback'[<<j, k>>] =
            [c EXCEPT !.at = IF c.outcome = "success" THEN "reward" ELSE "refund"]
      BY <1>3, <1>7, <1>9, <2>3 DEF ReadJob
    <3>3. /\ callback'[<<j, k>>].outcome = c.outcome
          /\ callback'[<<j, k>>].at = IF c.outcome = "success" THEN "reward" ELSE "refund"
      BY <3>2, <1>3 DEF CallbackType
    <3> QED
      BY <3>1, <3>3 DEF HandSquare, Answered
  <2> QED
    BY <2>2, <2>3
<1>10. CASE Reward(<<j, k>>)
  <2>1. c.outcome = "success" /\ Book(j, 1, 0, 0, "RUNNING")
    BY <1>6, <1>10 DEF Reward, HandSquare
  <2>2. Book(j, 1, 0, 1, "RUNNING")'
    BY <1>3, <1>10, <2>1 DEF Reward, Book, Disturb, Sheets
  <2>3. callback'[<<j, k>>].at = "write" /\ callback'[<<j, k>>].outcome = "success"
    <3>1. callback'[<<j, k>>] = [c EXCEPT !.at = "write"]
      <4>1. CallbackAt(<<j, k>>, "write")
        BY <1>10 DEF Reward
      <4> QED
        BY <1>7, <4>1
    <3> HIDE DEF c
    <3> QED
      BY <1>3, <2>1, <3>1 DEF CallbackType
  <2> QED
    BY <2>2, <2>3 DEF HandSquare, Answered
<1>11. CASE RefundJob(<<j, k>>)
  <2>1. c.outcome # "success" /\ Book(j, 1, 0, 0, "RUNNING")
    BY <1>6, <1>11 DEF RefundJob, HandSquare
  <2>2. Book(j, 1, 1, 0, "RUNNING")'
    BY <1>3, <1>11, <2>1 DEF RefundJob, Refund, Book, Disturb, Sheets
  <2>3. callback'[<<j, k>>].at = "write" /\ callback'[<<j, k>>].outcome # "success"
    <3>1. callback'[<<j, k>>] = [c EXCEPT !.at = "write"]
      <4>1. CallbackAt(<<j, k>>, "write")
        BY <1>11 DEF RefundJob
      <4> QED
        BY <1>7, <4>1
    <3> HIDE DEF c
    <3> QED
      BY <1>3, <2>1, <3>1 DEF CallbackType
  <2> QED
    BY <2>2, <2>3 DEF HandSquare, Answered
<1>12. CASE CloseJob(<<j, k>>)
  <2>1. callback'[<<j, k>>].at = "done"
    <3>1. callback'[<<j, k>>] = [c EXCEPT !.at = "done"]
      BY <1>7, <1>12 DEF CloseJob
    <3> QED
      BY <1>3, <3>1 DEF CallbackType
  <2>2. status'[j] = FinalStatus(c.outcome)
    BY <1>3, <1>12 DEF CloseJob, Sheets
  <2>3. \/ c.outcome = "success" /\ Book(j, 1, 0, 1, "RUNNING")
        \/ c.outcome # "success" /\ Book(j, 1, 1, 0, "RUNNING")
    BY <1>6, <1>12 DEF CloseJob, HandSquare
  <2>4. Settled(j)'
    BY <1>3, <1>12, <2>2, <2>3 DEF CloseJob, FinalStatus, Settled, Book, money, CallbackType
  <2> QED
    BY <2>1, <2>4 DEF HandSquare
<1> QED
  BY <1>8, <1>9, <1>10, <1>11, <1>12 DEF Completion

LEMMA CompletionElse ==
  ASSUME NEW j \in Jobs, NEW k \in 1..MaxCallbacks, NEW i \in Jobs, i # j,
         Sheets, Square(i), Completion(<<j, k>>)
  PROVE  Square(i)'
<1>1. \A l \in 1..MaxCallbacks : callback'[<<i, l>>] = callback[<<i, l>>]
  BY CompletionFrame
<1>2. /\ mode' = mode /\ submit'[i] = submit[i] /\ received' = received
      /\ disturbed \subseteq disturbed'
      /\ status'[i] = status[i] /\ charged'[i] = charged[i]
      /\ refunded'[i] = refunded[i] /\ rewarded'[i] = rewarded[i]
  BY CompletionFrame
<1> QED
  BY <1>1, <1>2, Untouched

LEMMA CompletionKeepsSquare ==
  ASSUME NEW c \in Callbacks, Overlap = FALSE, SquareInv, Completion(c) PROVE SquareInv'
<1>1. PICK j \in Jobs, k \in 1..MaxCallbacks : c = <<j, k>>
  BY DEF Callbacks
<1>2. Sheets'
  BY CompletionSheets DEF SquareInv
<1>3. ASSUME NEW i \in Jobs PROVE OneByOne(i)' /\ Square(i)'
  BY <1>1, CompletionOneByOne, CompletionOwn, CompletionElse DEF SquareInv
<1> QED
  BY <1>2, <1>3 DEF SquareInv

\* A restart disturbs the jobs it finds at work, and leaves the others alone.
LEMMA CrashKeepsSquare == SquareInv /\ Crash => SquareInv'
<1> SUFFICES ASSUME SquareInv, Crash PROVE SquareInv'
  OBVIOUS
<1>1. \A j \in Jobs : \A k \in 1..MaxCallbacks : <<j, k>> \in Callbacks /\ <<j, k>>[1] = j
  BY DEF Callbacks
<1>2. \A c \in Callbacks : /\ Answered(c) => callback'[c] = callback[c]
                           /\ ~Answered(c) => callback'[c].at = "done"
                           /\ callback'[c] \in CallbackType
  BY DEF Crash, SquareInv, Sheets, CallbackType
<1>3. Sheets'
  <2>1. callback' \in [Callbacks -> CallbackType]
    BY <1>2 DEF Crash
  <2>2. submit' \in [Jobs -> Positions]
    BY DEF Crash, SquareInv, Sheets, Positions
  <2> QED
    BY <2>1, <2>2 DEF Crash, SquareInv, Sheets, money
<1>4. ASSUME NEW j \in Jobs PROVE OneByOne(j)'
  <2>1. OneByOne(j) /\ received' = received
    BY DEF SquareInv, Crash
  <2>2. \A k \in 1..MaxCallbacks :
            /\ callback'[<<j, k>>].at = "none" <=> callback[<<j, k>>].at = "none"
            /\ Answered(<<j, k>>)'
    BY <1>1, <1>2 DEF Answered
  <2> QED
    BY <2>1, <2>2 DEF OneByOne
<1>5. ASSUME NEW j \in Jobs PROVE Square(j)'
  <2>1. CASE AtRest(j)
    <3>1. \A k \in 1..MaxCallbacks : callback'[<<j, k>>] = callback[<<j, k>>]
      BY <1>1, <1>2, <2>1 DEF AtRest
    <3>2. submit'[j] = submit[j]
      BY <2>1 DEF AtRest, Crash, SquareInv, Sheets
    <3>3. /\ mode' = mode /\ received' = received /\ disturbed \subseteq disturbed'
          /\ status' = status /\ charged' = charged /\ refunded' = refunded /\ rewarded' = rewarded
      BY DEF Crash, Disturb, money
    <3>4. Square(j)
      BY DEF SquareInv
    <3> QED
      BY <3>1, <3>2, <3>3, <3>4, Untouched
  <2>2. CASE ~AtRest(j)
    BY <2>2 DEF Crash, Disturb, Square
  <2> QED
    BY <2>1, <2>2
<1> QED
  BY <1>3, <1>4, <1>5 DEF SquareInv

LEMMA NextSquare == Overlap = FALSE /\ SquareInv /\ [Next]_vars => SquareInv'
<1> SUFFICES ASSUME Overlap = FALSE, SquareInv, [Next]_vars PROVE SquareInv'
  OBVIOUS
<1>1. ASSUME status' = status, charged' = charged, refunded' = refunded, rewarded' = rewarded,
             mode' = mode, disturbed' = disturbed, received' = received, submit' = submit,
             callback' = callback
      PROVE  SquareInv'
  <2>1. Sheets'
    BY <1>1 DEF SquareInv, Sheets
  <2>2. ASSUME NEW j \in Jobs PROVE OneByOne(j)' /\ Square(j)'
    BY <1>1, Untouched DEF SquareInv, OneByOne, Answered
  <2> QED
    BY <2>1, <2>2 DEF SquareInv
<1>2. CASE UNCHANGED vars
  BY <1>1, <1>2 DEF vars, money
<1>3. ASSUME NEW r \in Jobs \X JobScripts, Script(r) PROVE SquareInv'
  BY <1>1, <1>3 DEF Script, money
<1> QED
  BY <1>2, <1>3, SubmissionKeepsSquare, CompletionKeepsSquare, CrashKeepsSquare DEF Next

\* A job at rest that nothing disturbed is square.
LEMMA SquareIsSettled == SquareInv => SettledSquare
<1> SUFFICES ASSUME SquareInv, NEW j \in Jobs \ disturbed, PaysWithCredits(j), AtRest(j)
             PROVE  CASE status[j] = "COMPLETED" ->
                             charged[j] - refunded[j] = 1 /\ rewarded[j] = 1
                      [] status[j] = "RUNNING" ->
                             charged[j] - refunded[j] = 1 /\ rewarded[j] = 0
                      [] OTHER -> charged[j] = refunded[j] /\ rewarded[j] = 0
  BY DEF SettledSquare
<1>1. CASE j \in received
  <2>1. CompletionSquare(j)
    BY <1>1 DEF SquareInv, Square
  <2>2. Idle(j)
    BY DEF AtRest, Idle, Callbacks
  <2> QED
    BY <2>1, <2>2 DEF CompletionSquare, Settled, Book
<1>2. CASE j \notin received
  <2>1. SubmissionSquare(j) /\ charged[j] \in Nat
    BY <1>2 DEF SquareInv, Square, Sheets
  <2> QED
    BY <2>1 DEF AtRest, SubmissionSquare, Book
<1> QED
  BY <1>1, <1>2

(***************************************************************************)
(* With callbacks that come one at a time, every job paid with credits     *)
(* that no fault disturbed is square whenever nobody works on it           *)
(* (submit_job, complete_job).                                             *)
(***************************************************************************)
THEOREM JobsEndSquare ==
  ASSUME Overlap = FALSE
  PROVE  Spec => []SettledSquare
<1>1. SquareInv => SettledSquare
  BY SquareIsSettled
<1>2. SquareInv /\ [Next]_vars => SquareInv'
  BY NextSquare
<1> QED
  BY <1>1, <1>2, InitSquare, PTL DEF Spec

-----------------------------------------------------------------------------
(***************************************************************************)
(* Why nodes are rewarded once, as long as callbacks do not overlap and    *)
(* the service is not restarted.  What is not written yet is in the hands  *)
(* of the one complete_job that will write it.                             *)
(***************************************************************************)
Hands(j) == {callback[<<j, k>>].at : k \in 1..MaxCallbacks}

Once(j) ==
    /\ rewarded[j] \in {0, 1}
    /\ j \in received => submit[j] \in {"forward", "giveUp", "refund", "done"}
    /\ rewarded[j] = 1 => j \in received
    /\ "reward" \in Hands(j) => rewarded[j] = 0
    /\ rewarded[j] = 1 => status[j] # "RUNNING" \/ "write" \in Hands(j)

OnceInv == Sheets /\ \A j \in Jobs : OneByOne(j) /\ Once(j)

LEMMA InitOnce == Init => OnceInv
<1> SUFFICES ASSUME Init PROVE OnceInv
  OBVIOUS
<1>1. SquareInv
  BY InitSquare
<1>2. ASSUME NEW j \in Jobs PROVE Once(j)
  <2>1. \A k \in 1..MaxCallbacks : callback[<<j, k>>].at = "none"
    BY DEF Init, Callbacks
  <2> QED
    BY <2>1 DEF Init, Once, Hands
<1> QED
  BY <1>1, <1>2 DEF OnceInv, SquareInv

\* What submit_job does to the rewards: nothing, but it writes the status of a
\* job that nobody can have completed yet, or one that says failed.
LEMMA SubmissionOnce ==
  ASSUME NEW j \in Jobs, OnceInv, Submission(j) PROVE OnceInv'
<1>1. Sheets' /\ \A i \in Jobs : OneByOne(i)'
  BY SubmissionSheets, SubmissionOneByOne DEF OnceInv
<1>2. callback' = callback /\ rewarded' = rewarded
  BY DEF Submission, CheckBalance, Deduct, EscrowMade, NoEscrow, Insured, InsertJob, ForwardOk,
         ForwardFails, GiveUp, RefundSubmission, Charge, Refund, money
<1>3. \A i \in Jobs : Hands(i)' = Hands(i)
  BY <1>2 DEF Hands
<1>4. /\ \A i \in Jobs : i # j => /\ submit'[i] = submit[i] /\ status'[i] = status[i]
                                  /\ i \in received' <=> i \in received
      /\ status'[j] \in {status[j], "FAILED"} \/ (submit[j] = "insert" /\ j \notin received)
      /\ received \subseteq received'
      /\ j \in received' => submit'[j] \in {"forward", "giveUp", "refund", "done"}
  <2>1. CASE CheckBalance(j) \/ Deduct(j) \/ EscrowMade(j) \/ NoEscrow(j) \/ Insured(j)
    BY <2>1 DEF CheckBalance, Deduct, EscrowMade, NoEscrow, Insured, SubmitAt, OnceInv, Once,
                Sheets
  <2>2. CASE InsertJob(j) \/ GiveUp(j) \/ RefundSubmission(j)
    BY <2>2 DEF InsertJob, GiveUp, RefundSubmission, SubmitAt, OnceInv, Once, Sheets
  <2>3. CASE ForwardOk(j)
    BY <2>3 DEF ForwardOk, SubmitAt, OnceInv, Once, Sheets
  <2>4. CASE ForwardFails(j)
    BY <2>4 DEF ForwardFails, SubmitAt, OnceInv, Once, Sheets
  <2> QED
    BY <2>1, <2>2, <2>3, <2>4 DEF Submission
<1>5. ASSUME NEW i \in Jobs PROVE Once(i)'
  <2>1. Once(i)
    BY DEF OnceInv
  <2>2. status'[i] = "RUNNING" => status[i] = "RUNNING" \/ i \notin received
    BY <1>4
  <2> QED
    BY <1>2, <1>3, <1>4, <2>1, <2>2 DEF Once
<1> QED
  BY <1>1, <1>5 DEF OnceInv

LEMMA CompletionOnce ==
  ASSUME NEW j \in Jobs, NEW k \in 1..MaxCallbacks, Overlap = FALSE, OnceInv,
         Completion(<<j, k>>)
  PROVE  OnceInv'
<1> DEFINE c == <<j, k>>
<1>1. c \in Callbacks /\ c[1] = j
  BY DEF Callbacks
<1>2. Sheets' /\ \A i \in Jobs : OneByOne(i)'
  BY <1>1, CompletionSheets, CompletionOneByOne DEF OnceInv
<1>3. /\ \A i \in Jobs : \A l \in 1..MaxCallbacks :
            <<i, l>> # c => callback'[<<i, l>>] = callback[<<i, l>>]
      /\ submit' = submit /\ received' = received
      /\ \A i \in Jobs : i # j => status'[i] = status[i] /\ rewarded'[i] = rewarded[i]
  BY CompletionFrame DEF OnceInv
<1>4. /\ j \in received
      /\ \A l \in 1..MaxCallbacks : l # k => callback[<<j, l>>].at \in {"none", "done"}
  BY OthersAnswered DEF OnceInv, Answered
<1>5. ASSUME NEW i \in Jobs, i # j PROVE Once(i)'
  <2>1. \A l \in 1..MaxCallbacks : callback'[<<i, l>>] = callback[<<i, l>>]
    BY <1>3, <1>5
  <2>2. Hands(i)' = Hands(i)
    BY <2>1 DEF Hands
  <2>3. Once(i)
    BY DEF OnceInv
  <2> QED
    BY <1>3, <1>5, <2>2, <2>3 DEF Once
<1>6. /\ "reward" \in Hands(j) <=> callback[c].at = "reward"
      /\ "write" \in Hands(j) <=> callback[c].at = "write"
      /\ "reward" \in Hands(j)' <=> callback'[c].at = "reward"
      /\ "write" \in Hands(j)' <=> callback'[c].at = "write"
  <2>1. \A l \in 1..MaxCallbacks : l # k => callback'[<<j, l>>].at \in {"none", "done"}
    BY <1>3, <1>4
  <2> QED
    BY <1>4, <2>1 DEF Hands
<1>7. /\ rewarded[j] \in {0, 1}
      /\ submit[j] \in {"forward", "giveUp", "refund", "done"}
      /\ callback[c].at = "reward" => rewarded[j] = 0
      /\ rewarded[j] = 1 => status[j] # "RUNNING" \/ callback[c].at = "write"
  BY <1>4, <1>6 DEF OnceInv, Once
<1>8. /\ rewarded'[j] \in {0, 1}
      /\ callback'[c].at = "reward" => rewarded'[j] = 0
      /\ rewarded'[j] = 1 => status'[j] # "RUNNING" \/ callback'[c].at = "write"
  <2>1. /\ callback \in [Callbacks -> CallbackType]
        /\ status \in [Jobs -> {"none", "RUNNING", "COMPLETED", "FAILED", "REFUNDED"}]
        /\ rewarded \in [Jobs -> Nat]
    BY DEF OnceInv, Sheets
  <2>2. ASSUME NEW p, CallbackAt(c, p) PROVE callback'[c].at = p
    BY <1>1, <2>1, <2>2 DEF CallbackAt, CallbackType
  <2>3. ASSUME NEW o \in Outcomes, Notify(c, o) PROVE callback'[c].at = "read"
    BY <1>1, <2>1, <2>3 DEF Notify
  <2>4. CASE \E o \in Outcomes : Notify(c, o)
    BY <1>7, <2>3, <2>4 DEF Notify, money
  <2>5. CASE ReadJob(c)
    <3>1. /\ callback[c].at = "read" /\ status' = status /\ rewarded' = rewarded
          /\ callback'[c].at = IF status[j] # "RUNNING" THEN "done"
                     ELSE IF callback[c].outcome = "success" THEN "reward" ELSE "refund"
      BY <1>1, <2>2, <2>5 DEF ReadJob, money
    <3> QED
      BY <1>7, <3>1
  <2>6. CASE Reward(c)
    <3>1. /\ callback[c].at = "reward" /\ callback'[c].at = "write"
          /\ rewarded' = [rewarded EXCEPT ![j] = @ + 1] \/ rewarded' = rewarded
      BY <1>1, <2>2, <2>6 DEF Reward
    <3> QED
      BY <1>7, <2>1, <3>1
  <2>7. CASE RefundJob(c)
    <3>1. callback'[c].at = "write" /\ rewarded' = rewarded
      BY <2>2, <2>7 DEF RefundJob, Refund, money
    <3> QED
      BY <1>7, <3>1
  <2>8. CASE CloseJob(c)
    <3>1. /\ callback'[c].at = "done" /\ rewarded' = rewarded
          /\ status'[j] = FinalStatus(callback[c].outcome)
      BY <1>1, <2>1, <2>2, <2>8 DEF CloseJob, money
    <3>2. FinalStatus(callback[c].outcome) # "RUNNING"
      BY <1>1, <2>1 DEF FinalStatus, CallbackType
    <3> QED
      BY <1>7, <3>1, <3>2
  <2> QED
    BY <2>4, <2>5, <2>6, <2>7, <2>8 DEF Completion
<1>9. Once(j)'
  <2>1. /\ rewarded'[j] \in {0, 1}
        /\ "reward" \in Hands(j)' => rewarded'[j] = 0
        /\ rewarded'[j] = 1 => status'[j] # "RUNNING" \/ "write" \in Hands(j)'
    BY <1>6, <1>8
  <2>2. j \in received' /\ submit'[j] \in {"forward", "giveUp", "refund", "done"}
    BY <1>3, <1>4, <1>7
  <2> QED
    BY <2>1, <2>2 DEF Once
<1> QED
  BY <1>2, <1>5, <1>9 DEF OnceInv

LEMMA NextOnce ==
  ASSUME Overlap = FALSE, "crash" \notin Faults, OnceInv, [Next]_vars PROVE OnceInv'
<1>1. ASSUME status' = status, charged' = charged, refunded' = refunded, rewarded' = rewarded,
             received' = received, submit' = submit, callback' = callback
      PROVE  OnceInv'
  <2>1. Sheets'
    BY <1>1 DEF OnceInv, Sheets
  <2>2. ASSUME NEW i \in Jobs PROVE OneByOne(i)' /\ Once(i)'
    <3>1. OneByOne(i) /\ Once(i)
      BY DEF OnceInv
    <3>2. Hands(i)' = Hands(i)
      BY <1>1 DEF Hands
    <3>3. OneByOne(i)'
      BY <1>1, <3>1 DEF OneByOne, Answered
    <3> QED
      BY <1>1, <3>1, <3>2, <3>3 DEF Once
  <2> QED
    BY <2>1, <2>2 DEF OnceInv
<1>2. CASE UNCHANGED vars
  BY <1>1, <1>2 DEF vars, money
<1>3. ASSUME NEW r \in Jobs \X JobScripts, Script(r) PROVE OnceInv'
  BY <1>1, <1>3 DEF Script, money
<1>4. ASSUME NEW c \in Callbacks, Completion(c) PROVE OnceInv'
  <2>1. PICK j \in Jobs, k \in 1..MaxCallbacks : c = <<j, k>>
    BY DEF Callbacks
  <2> QED
    BY <1>4, <2>1, CompletionOnce
<1>5. ~Crash
  BY DEF Crash
<1> QED
  BY <1>2, <1>3, <1>4, <1>5, SubmissionOnce DEF Next

(***************************************************************************)
(* complete_job skips a job that is already finalized, and rewards nobody  *)
(* twice, provided that callbacks do not overlap and that no restart comes *)
(* between the reward and the write of the status.  Whatever else fails,   *)
(* or has disturbed the job, does not matter.  The run rewarded_twice      *)
(* shows that the first premise is needed.                                 *)
(***************************************************************************)
THEOREM RewardsComeOnce ==
  ASSUME Overlap = FALSE, "crash" \notin Faults
  PROVE  Spec => []RewardedOnce
<1>1. OnceInv => RewardedOnce
  <2>1. ASSUME OnceInv, NEW j \in Jobs PROVE rewarded[j] \in {0, 1}
    BY <2>1 DEF OnceInv, Once
  <2>2. \A n \in {0, 1} : n <= 1
    OBVIOUS
  <2> QED
    BY <2>1, <2>2 DEF RewardedOnce
<1>2. OnceInv /\ [Next]_vars => OnceInv'
  BY NextOnce
<1> QED
  BY <1>1, <1>2, InitOnce, PTL DEF Spec

-----------------------------------------------------------------------------
(***************************************************************************)
(* What a user has paid in the end.                                        *)
(***************************************************************************)
\* What the user has paid for each job, less what came back.
Net == [j \in Jobs |-> charged[j] - refunded[j]]

Books ==
    /\ balance \in Int
    /\ charged \in [Jobs -> Nat] /\ refunded \in [Jobs -> Nat]

\* The balance is what the charges and the refunds have left of the deposit.
Conserved == Books /\ balance = Deposit - SumFunction(Net)

LEMMA NetTyped == Books => Net \in [Jobs -> Int]
  BY DEF Books, Net

\* One charge more, or one refund more.
LEMMA MoneyMoves ==
  ASSUME IsFiniteSet(Jobs), Conserved, NEW j \in Jobs, Charge(j) \/ Refund(j)
  PROVE  Conserved'
<1>1. Books'
  BY DEF Conserved, Books, Charge, Refund
<1>2. Net \in [Jobs -> Int] /\ Net' \in [Jobs -> Int]
  BY <1>1 DEF Conserved, Books, Net
<1>3. PICK f \in [Jobs -> Int] : f = Net
  BY <1>2
<1>4. PICK g \in [Jobs -> Int] : g = Net'
  BY <1>2
<1>5. \A i \in Jobs : i # j => g[i] = f[i]
  BY <1>3, <1>4 DEF Conserved, Books, Net, Charge, Refund
<1>6. \/ balance' = balance - 1 /\ g[j] = f[j] + 1
      \/ balance' = balance + 1 /\ g[j] = f[j] - 1
  BY <1>3, <1>4 DEF Conserved, Books, Net, Charge, Refund
<1>7. SumFunction(g) = SumFunction(f) + (g[j] - f[j])
  BY <1>5, SumOfUpdate
<1>8. SumFunction(f) \in Int /\ SumFunction(g) \in Int
  BY SumType
<1>9. balance = Deposit - SumFunction(f) /\ balance \in Int /\ Deposit \in Int
  BY <1>3, PaymentAssumption DEF Conserved, Books
<1>10. balance' = Deposit - SumFunction(g)
  BY <1>6, <1>7, <1>8, <1>9
<1> QED
  BY <1>1, <1>4, <1>10 DEF Conserved

\* Every step charges, refunds, or moves no credits.
LEMMA MoneySteps ==
  ASSUME [Next]_vars
  PROVE  \/ \E j \in Jobs : Charge(j) \/ Refund(j)
         \/ UNCHANGED <<balance, charged, refunded>>
<1>1. ASSUME NEW j \in Jobs, Submission(j)
      PROVE  Charge(j) \/ Refund(j) \/ UNCHANGED <<balance, charged, refunded>>
  BY <1>1 DEF Submission, CheckBalance, Deduct, EscrowMade, NoEscrow, Insured, InsertJob,
              ForwardOk, ForwardFails, GiveUp, RefundSubmission, money
<1>2. ASSUME NEW c \in Callbacks, Completion(c)
      PROVE  c[1] \in Jobs /\ (Refund(c[1]) \/ UNCHANGED <<balance, charged, refunded>>)
  BY <1>2 DEF Completion, Notify, ReadJob, Reward, RefundJob, CloseJob, money, Callbacks
<1>3. ASSUME NEW r \in Jobs \X JobScripts, Script(r)
      PROVE  UNCHANGED <<balance, charged, refunded>>
  BY <1>3 DEF Script, money
<1>4. Crash => UNCHANGED <<balance, charged, refunded>>
  BY DEF Crash, money
<1>5. UNCHANGED vars => UNCHANGED <<balance, charged, refunded>>
  BY DEF vars, money
<1> QED
  BY <1>1, <1>2, <1>3, <1>4, <1>5 DEF Next

LEMMA NextConserves == IsFiniteSet(Jobs) /\ Conserved /\ [Next]_vars => Conserved'
<1> SUFFICES ASSUME IsFiniteSet(Jobs), Conserved, [Next]_vars PROVE Conserved'
  OBVIOUS
<1>1. CASE UNCHANGED <<balance, charged, refunded>>
  BY <1>1 DEF Conserved, Books, Net
<1> QED
  BY <1>1, MoneySteps, MoneyMoves

LEMMA InitConserved == IsFiniteSet(Jobs) /\ Init => Conserved
<1> SUFFICES ASSUME IsFiniteSet(Jobs), Init PROVE Conserved
  OBVIOUS
<1>1. Books /\ balance = Deposit /\ Deposit \in Int
  BY PaymentAssumption DEF Init, Books
<1>2. PICK f : f = Net
  OBVIOUS
<1>3. f \in [Jobs -> {0}]
  BY <1>2 DEF Net, Init
<1>4. SumFunction(f) = 0
  BY <1>3, SumOfZeros
<1> QED
  BY <1>1, <1>2, <1>4 DEF Conserved

\* The jobs that the user should pay for.
Paid == {j \in Jobs : status[j] \in {"RUNNING", "COMPLETED"}}

\* No fault has disturbed a job, and nobody works on one.
Quiet == disturbed = {} /\ \A j \in Jobs : PaysWithCredits(j) /\ AtRest(j)

(***************************************************************************)
(* Once nobody works on a job, and no fault has disturbed one, the user of *)
(* submit_job and complete_job has paid one credit for every job that runs *)
(* or is completed, and for nothing else: what was charged for any other   *)
(* job came back, once.  Restarts and answers that are lost disturb a job; *)
(* refusals of the ICL, of the escrow or of the coverage do not.           *)
(***************************************************************************)
THEOREM UsersPayForWhatRan ==
  ASSUME Overlap = FALSE, IsFiniteSet(Jobs)
  PROVE  Spec => [](Quiet => balance = Deposit - Cardinality(Paid))
<1>1. ASSUME SquareInv, Conserved, Quiet PROVE balance = Deposit - Cardinality(Paid)
  <2>1. SettledSquare
    BY <1>1, SquareIsSettled
  <2>2. PICK f : f = Net
    OBVIOUS
  <2>3. ASSUME NEW j \in Jobs PROVE f[j] = IF j \in Paid THEN 1 ELSE 0
    <3>1. j \in Jobs \ disturbed /\ PaysWithCredits(j) /\ AtRest(j)
      BY <1>1 DEF Quiet
    <3>2. IF status[j] \in {"RUNNING", "COMPLETED"} THEN charged[j] - refunded[j] = 1
          ELSE charged[j] = refunded[j]
      BY <2>1, <3>1 DEF SettledSquare
    <3>3. f[j] = charged[j] - refunded[j] /\ charged[j] \in Nat /\ refunded[j] \in Nat
      BY <1>1, <2>2 DEF Net, Conserved, Books
    <3>4. CASE j \in Paid
      BY <3>2, <3>3, <3>4 DEF Paid
    <3>5. CASE j \notin Paid
      BY <3>2, <3>3, <3>5 DEF Paid
    <3> QED
      BY <3>4, <3>5
  <2>4. f \in [Jobs -> {0, 1}]
    <3>1. f = [j \in Jobs |-> f[j]]
      BY <2>2 DEF Net
    <3>2. \A j \in Jobs : f[j] \in {0, 1}
      BY <2>3
    <3> QED
      BY <3>1, <3>2
  <2>5. {j \in Jobs : f[j] = 1} = Paid
    <3>1. Paid \subseteq Jobs
      BY DEF Paid
    <3> QED
      BY <2>3, <3>1
  <2>6. SumFunction(f) = Cardinality({j \in Jobs : f[j] = 1})
    BY <2>4, SumCounts
  <2> QED
    BY <1>1, <2>2, <2>5, <2>6 DEF Conserved
<1>2. SquareInv /\ [Next]_vars => SquareInv'
  BY NextSquare
<1>3. Conserved /\ [Next]_vars => Conserved'
  BY NextConserves
<1>4. Init => Conserved
  BY InitConserved
<1>5. SquareInv /\ Conserved => (Quiet => balance = Deposit - Cardinality(Paid))
  BY <1>1
<1> QED
  BY <1>2, <1>3, <1>4, <1>5, InitSquare, PTL DEF Spec

-----------------------------------------------------------------------------
(***************************************************************************)
(* No submission is stuck.  A program is started once, by the step of      *)
(* submit_job that then waits for it, and ends when its last transaction   *)
(* does.                                                                   *)
(***************************************************************************)
\* How many transactions the program of a process has.
Length(r) == IF r[2] = "create_escrow" THEN 2 ELSE 1

RunInStep(r) ==
    /\ runs[r].program \in {"none", r[2]}
    /\ runs[r].mined <= Length(r)
    /\ runs[r].says = "nothing" => runs[r].mined < Length(r)

Unused(r) == runs[r] = Scripts!NotRun
Started(r) == runs[r].program # "none"

WaitInStep(j) ==
    /\ submit[j] \in {"start", "deduct"} => Unused(EscrowOf(j))
    /\ submit[j] \in {"start", "deduct", "escrow"} => Unused(CoverageOf(j))
    /\ submit[j] = "escrow" => Started(EscrowOf(j))
    /\ submit[j] = "insure" => Started(CoverageOf(j))

RunsInv ==
    /\ runs \in [Jobs \X JobScripts -> RunType]
    /\ \A r \in Jobs \X JobScripts : RunInStep(r)

WaitInv == RunsInv /\ submit \in [Jobs -> Positions] /\ \A j \in Jobs : WaitInStep(j)

LEMMA InitWait == Init => WaitInv
<1> SUFFICES ASSUME Init PROVE WaitInv
  OBVIOUS
<1>1. \A r \in Jobs \X JobScripts :
        runs[r] = [program |-> "none", mined |-> 0, says |-> "nothing"]
  BY DEF Init, Scripts!ScriptInit, Scripts!NotRun
<1>2. runs \in [Jobs \X JobScripts -> RunType]
  BY DEF Init, Scripts!ScriptInit, Scripts!NotRun, RunType
<1>3. ASSUME NEW r \in Jobs \X JobScripts PROVE RunInStep(r)
  BY <1>1 DEF RunInStep, Length
<1>4. ASSUME NEW j \in Jobs PROVE WaitInStep(j)
  <2>1. EscrowOf(j) \in Jobs \X JobScripts /\ CoverageOf(j) \in Jobs \X JobScripts
    BY OwnProcess
  <2>2. Unused(EscrowOf(j)) /\ Unused(CoverageOf(j)) /\ submit[j] = "start"
    BY <1>1, <2>1 DEF Unused, Scripts!NotRun, Init
  <2> QED
    BY <2>2 DEF WaitInStep
<1> QED
  BY <1>2, <1>3, <1>4 DEF WaitInv, RunsInv, Init, Positions

\* A program that is launched has done nothing yet.
LEMMA LaunchInStep ==
  ASSUME RunsInv, NEW r \in Jobs \X JobScripts, Scripts!Launch(r, r[2])
  PROVE  /\ RunsInv' /\ Unused(r) /\ Started(r)'
         /\ \A x \in Jobs \X JobScripts : x # r => runs'[x] = runs[x]
<1>1. /\ runs[r] = [program |-> "none", mined |-> 0, says |-> "nothing"]
      /\ runs' = [runs EXCEPT ![r].program = r[2]]
      /\ runs \in [Jobs \X JobScripts -> RunType]
      /\ r[2] \in {"create_escrow", "purchase_insurance"}
  BY DEF RunsInv, Scripts!Launch, Scripts!NotRun, JobScripts
<1>2. /\ runs'[r] = [program |-> r[2], mined |-> 0, says |-> "nothing"]
      /\ \A x \in Jobs \X JobScripts : x # r => runs'[x] = runs[x]
  BY <1>1
<1>3. runs' \in [Jobs \X JobScripts -> RunType]
  BY <1>1 DEF RunType
<1>4. ASSUME NEW x \in Jobs \X JobScripts PROVE RunInStep(x)'
  <2>1. CASE x = r
    BY <1>2, <2>1 DEF RunInStep, Length
  <2>2. CASE x # r
    BY <1>2, <2>2 DEF RunsInv, RunInStep
  <2> QED
    BY <2>1, <2>2
<1>5. Started(r)'
  BY <1>1, <1>2 DEF Started
<1> QED
  BY <1>1, <1>2, <1>3, <1>4, <1>5 DEF RunsInv, Unused, Scripts!NotRun

\* A job whose processes and whose place a step leaves alone.
LEMMA WaitKept ==
  ASSUME NEW j \in Jobs, WaitInStep(j), submit'[j] = submit[j],
         runs'[EscrowOf(j)] = runs[EscrowOf(j)], runs'[CoverageOf(j)] = runs[CoverageOf(j)]
  PROVE  WaitInStep(j)'
BY DEF WaitInStep, Unused, Started

LEMMA SubmissionWait ==
  ASSUME NEW j \in Jobs, WaitInv, Submission(j) PROVE WaitInv'
<1>1. WaitInStep(j) /\ RunsInv /\ submit \in [Jobs -> Positions]
  BY DEF WaitInv
<1>2. EscrowOf(j)[2] = "create_escrow" /\ CoverageOf(j)[2] = "purchase_insurance"
  BY DEF EscrowOf, CoverageOf
<1>3. ASSUME NEW p, SubmitAt(j, p), RunsInv', WaitInStep(j)',
             p \in Positions,
             \A i \in Jobs : i # j => /\ runs'[EscrowOf(i)] = runs[EscrowOf(i)]
                                      /\ runs'[CoverageOf(i)] = runs[CoverageOf(i)]
      PROVE  WaitInv'
  <2>1. submit' \in [Jobs -> Positions] /\ \A i \in Jobs : i # j => submit'[i] = submit[i]
    BY <1>1, <1>3 DEF SubmitAt
  <2>2. ASSUME NEW i \in Jobs, i # j PROVE WaitInStep(i)'
    BY <1>3, <2>1, <2>2, WaitKept DEF WaitInv
  <2> QED
    BY <1>3, <2>1, <2>2 DEF WaitInv
<1>4. ASSUME NEW p \in Positions \ {"start", "escrow", "insure"}, SubmitAt(j, p), runs' = runs,
             p = "deduct" => submit[j] = "start"
      PROVE  WaitInv'
  <2>1. submit'[j] = p
    BY <1>1, <1>4 DEF SubmitAt
  <2>2. RunsInv' /\ WaitInStep(j)'
    BY <1>1, <1>4, <2>1 DEF RunsInv, RunInStep, WaitInStep, Unused, Started
  <2> QED
    BY <1>3, <1>4, <2>2
<1>5. CASE Deduct(j)
  <2>1. CASE ~CanDeduct
    BY <1>4, <1>5, <2>1 DEF Deduct, money, Positions
  <2>2. CASE CanDeduct
    <3>1. SubmitAt(j, "escrow") /\ Scripts!Launch(EscrowOf(j), "create_escrow")
      BY <1>5, <2>2 DEF Deduct
    <3>2. /\ RunsInv' /\ Started(EscrowOf(j))'
          /\ \A x \in Jobs \X JobScripts : x # EscrowOf(j) => runs'[x] = runs[x]
      BY <1>1, <1>2, <3>1, OwnProcess, LaunchInStep
    <3>3. submit[j] = "deduct" /\ submit'[j] = "escrow"
      BY <1>1, <1>5, <3>1 DEF Deduct, SubmitAt
    <3>4. runs'[CoverageOf(j)] = runs[CoverageOf(j)]
      BY <3>2, OwnProcess
    <3>5. WaitInStep(j)'
      BY <1>1, <3>2, <3>3, <3>4 DEF WaitInStep, Unused
    <3>6. \A i \in Jobs : i # j => /\ runs'[EscrowOf(i)] = runs[EscrowOf(i)]
                                   /\ runs'[CoverageOf(i)] = runs[CoverageOf(i)]
      BY <3>2, OwnProcess
    <3> QED
      BY <1>3, <3>1, <3>2, <3>5, <3>6 DEF Positions
  <2> QED
    BY <2>1, <2>2
<1>6. CASE EscrowMade(j)
  <2>1. CASE mode[j] # "insured"
    BY <1>4, <1>6, <2>1 DEF EscrowMade, Positions
  <2>2. CASE mode[j] = "insured"
    <3>1. SubmitAt(j, "insure") /\ Scripts!Launch(CoverageOf(j), "purchase_insurance")
      BY <1>6, <2>2 DEF EscrowMade
    <3>2. /\ RunsInv' /\ Started(CoverageOf(j))'
          /\ \A x \in Jobs \X JobScripts : x # CoverageOf(j) => runs'[x] = runs[x]
      BY <1>1, <1>2, <3>1, OwnProcess, LaunchInStep
    <3>3. submit'[j] = "insure"
      BY <1>1, <3>1 DEF SubmitAt
    <3>4. WaitInStep(j)'
      BY <3>2, <3>3 DEF WaitInStep
    <3>5. \A i \in Jobs : i # j => CoverageOf(i) # CoverageOf(j)
      BY DEF CoverageOf
    <3>6. \A i \in Jobs : i # j => /\ runs'[EscrowOf(i)] = runs[EscrowOf(i)]
                                   /\ runs'[CoverageOf(i)] = runs[CoverageOf(i)]
      BY <3>2, <3>5, OwnProcess
    <3> QED
      BY <1>3, <3>1, <3>2, <3>4, <3>6 DEF Positions
  <2> QED
    BY <2>1, <2>2
<1>7. CASE CheckBalance(j)
  BY <1>4, <1>7 DEF CheckBalance, Positions
<1>8. CASE NoEscrow(j) \/ Insured(j) \/ InsertJob(j) \/ ForwardOk(j) \/ ForwardFails(j)
           \/ GiveUp(j) \/ RefundSubmission(j)
  <2>1. runs' = runs /\ \E p \in {"insert", "forward", "giveUp", "refund", "done"} : SubmitAt(j, p)
    BY <1>8 DEF NoEscrow, Insured, InsertJob, ForwardOk, ForwardFails, GiveUp, RefundSubmission
  <2> QED
    BY <1>4, <2>1 DEF Positions
<1> QED
  BY <1>5, <1>6, <1>7, <1>8 DEF Submission

\* A program with all its transactions mined has said so.
LEMMA ScriptWait ==
  ASSUME NEW r \in Jobs \X JobScripts, WaitInv, Script(r) PROVE WaitInv'
<1>1. /\ RunsInv /\ RunInStep(r) /\ Scripts!Running(r) /\ submit' = submit
      /\ runs \in [Jobs \X JobScripts -> RunType]
  BY DEF WaitInv, RunsInv, Script, Scripts!Transact, Scripts!Break
<1>2. \E m \in {runs[r].mined, runs[r].mined + 1}, s \in {"nothing", "success", "failure"} :
          /\ runs' = [runs EXCEPT ![r].mined = m, ![r].says = s]
          /\ s = "nothing" => m # Scripts!Sent(r)
  BY DEF Script, Scripts!Transact, Scripts!Break, Scripts!SaysAfter
<1>3. PICK m \in {runs[r].mined, runs[r].mined + 1}, s \in {"nothing", "success", "failure"} :
          /\ runs' = [runs EXCEPT ![r].mined = m, ![r].says = s]
          /\ s = "nothing" => m # Scripts!Sent(r)
  BY <1>2
<1>4. /\ runs[r] \in RunType /\ runs[r].program = r[2] /\ runs[r].says = "nothing"
      /\ runs[r].mined < Length(r)
      /\ r[2] \in {"create_escrow", "purchase_insurance"}
  BY <1>1 DEF RunInStep, Scripts!Running, JobScripts
<1>5. Scripts!Sent(r) = Length(r)
  <2>1. CASE r[2] = "create_escrow"
    BY <1>4, <2>1, CreateEscrowSends DEF Length
  <2>2. CASE r[2] = "purchase_insurance"
    <3>1. Scripts!Sent(r) = Len(<<"purchaseCoverage">>)
      BY <1>4, <2>2 DEF Scripts!Sent, Scripts!Transactions, Scripts!PurchaseInsuranceScript
    <3> QED
      BY <2>2, <3>1 DEF Length
  <2> QED
    BY <1>4, <2>1, <2>2
<1>6. m \in Nat /\ m <= Length(r) /\ (s = "nothing" => m < Length(r))
  <2>1. runs[r].mined \in Nat /\ Length(r) \in Nat
    BY <1>4 DEF RunType, Length
  <2> QED
    BY <1>3, <1>4, <1>5, <2>1
<1>7. /\ runs'[r] = [program |-> r[2], mined |-> m, says |-> s]
      /\ \A x \in Jobs \X JobScripts : x # r => runs'[x] = runs[x]
  BY <1>1, <1>3, <1>4 DEF RunType
<1>8. runs' \in [Jobs \X JobScripts -> RunType]
  <2>1. [program |-> r[2], mined |-> m, says |-> s] \in RunType
    BY <1>3, <1>4, <1>6 DEF RunType
  <2>2. runs' = [x \in Jobs \X JobScripts |-> runs'[x]]
    BY <1>1, <1>3
  <2> QED
    BY <1>1, <1>7, <2>1, <2>2
<1>9. ASSUME NEW x \in Jobs \X JobScripts PROVE RunInStep(x)'
  <2>1. CASE x = r
    BY <1>6, <1>7, <2>1 DEF RunInStep, Length
  <2>2. CASE x # r
    BY <1>1, <1>7, <2>2 DEF RunsInv, RunInStep
  <2> QED
    BY <2>1, <2>2
<1>10. ASSUME NEW j \in Jobs PROVE WaitInStep(j)'
  <2>1. EscrowOf(j) \in Jobs \X JobScripts /\ CoverageOf(j) \in Jobs \X JobScripts
    BY OwnProcess
  <2>2. \A x \in Jobs \X JobScripts : /\ Unused(x) => Unused(x)'
                                      /\ Started(x) => Started(x)'
    BY <1>4, <1>7 DEF Unused, Started, Scripts!NotRun
  <2> QED
    BY <1>1, <2>1, <2>2 DEF WaitInv, WaitInStep
<1> QED
  BY <1>1, <1>8, <1>9, <1>10 DEF WaitInv, RunsInv

LEMMA NextWait == WaitInv /\ [Next]_vars => WaitInv'
<1> SUFFICES ASSUME WaitInv, [Next]_vars PROVE WaitInv'
  OBVIOUS
<1>1. ASSUME runs' = runs, submit' \in [Jobs -> Positions],
             \A j \in Jobs : submit'[j] \in {submit[j], "done"}
      PROVE  WaitInv'
  <2>1. RunsInv'
    BY <1>1 DEF WaitInv, RunsInv, RunInStep
  <2>2. ASSUME NEW j \in Jobs PROVE WaitInStep(j)'
    <3>1. CASE submit'[j] = submit[j]
      BY <1>1, <3>1, WaitKept DEF WaitInv
    <3>2. CASE submit'[j] = "done"
      BY <3>2 DEF WaitInStep
    <3> QED
      BY <1>1, <3>1, <3>2
  <2> QED
    BY <1>1, <2>1, <2>2 DEF WaitInv
<1>2. ASSUME NEW c \in Callbacks, Completion(c) PROVE WaitInv'
  <2>1. runs' = runs /\ submit' = submit
    BY <1>2 DEF Completion, Notify, ReadJob, Reward, RefundJob, CloseJob
  <2> QED
    BY <1>1, <2>1 DEF WaitInv
<1>3. CASE UNCHANGED vars
  BY <1>1, <1>3 DEF vars, WaitInv
<1>4. CASE Crash
  <2>1. /\ runs' = runs
        /\ submit' = [j \in Jobs |-> IF submit[j] = "start" THEN "start" ELSE "done"]
    BY <1>4 DEF Crash
  <2>2. submit' \in [Jobs -> Positions]
    BY <2>1 DEF Positions
  <2>3. \A j \in Jobs : submit'[j] \in {submit[j], "done"}
    BY <2>1
  <2> QED
    BY <1>1, <2>1, <2>2, <2>3
<1> QED
  BY <1>2, <1>3, <1>4, SubmissionWait, ScriptWait DEF Next

\* What submit_job can do next, or the program that it waits for.
StepDue(j) ==
    \/ submit[j] \in {"insert", "forward", "giveUp", "refund"}
    \/ submit[j] = "deduct" /\ (CanDeduct => Unused(EscrowOf(j)))
    \/ submit[j] = "escrow" /\ Says(EscrowOf(j)) = "success"
                            /\ (mode[j] = "insured" => Unused(CoverageOf(j)))
    \/ submit[j] = "escrow" /\ Says(EscrowOf(j)) = "failure"
    \/ submit[j] = "escrow" /\ Scripts!Running(EscrowOf(j))
    \/ submit[j] = "insure" /\ Says(CoverageOf(j)) # "nothing"
    \/ submit[j] = "insure" /\ Scripts!Running(CoverageOf(j))

SubmissionsGoOn == \A j \in Jobs : submit[j] \notin {"start", "done"} => StepDue(j)

(***************************************************************************)
(* A submit_job that has begun is never stuck: at every await either its   *)
(* next step can be taken, with the process it would start not started yet,*)
(* or the program that it waits for is still running.  This holds without  *)
(* the 120 s timeout as well.                                              *)
(***************************************************************************)
THEOREM SubmissionsNeverStick == Spec => []SubmissionsGoOn
<1>1. ASSUME WaitInv PROVE SubmissionsGoOn
  <2>1. SUFFICES ASSUME NEW j \in Jobs, submit[j] \notin {"start", "done"} PROVE StepDue(j)
    BY DEF SubmissionsGoOn
  <2>2. WaitInStep(j) /\ submit[j] \in Positions
    BY <1>1 DEF WaitInv
  <2>3. EscrowOf(j) \in Jobs \X JobScripts /\ CoverageOf(j) \in Jobs \X JobScripts
    BY OwnProcess
  <2>4. \A r \in Jobs \X JobScripts : runs[r].says \in {"nothing", "success", "failure"}
    BY <1>1 DEF WaitInv, RunsInv, RunType
  <2>5. CASE submit[j] \in {"insert", "forward", "giveUp", "refund"}
    BY <2>5 DEF StepDue
  <2>6. CASE submit[j] = "deduct"
    BY <2>2, <2>6 DEF StepDue, WaitInStep
  <2>7. CASE submit[j] = "escrow"
    BY <2>2, <2>3, <2>4, <2>7 DEF StepDue, WaitInStep, Says, Started, Scripts!Running
  <2>8. CASE submit[j] = "insure"
    BY <2>2, <2>8 DEF StepDue, WaitInStep, Says, Started, Scripts!Running
  <2> QED
    BY <2>1, <2>2, <2>5, <2>6, <2>7, <2>8 DEF Positions
<1>2. WaitInv => SubmissionsGoOn
  BY <1>1
<1> QED
  BY <1>2, InitWait, NextWait, PTL DEF Spec

-----------------------------------------------------------------------------
(***************************************************************************)
(* The type invariant.                                                     *)
(***************************************************************************)
\* While a submission may still be forwarded it has attempts left.
AttemptsLeft(j) ==
    submit[j] \in {"start", "deduct", "escrow", "insure", "insert", "forward"} =>
        forwards[j] < MaxForwards

Marks ==
    /\ mode \in [Jobs -> {"credits", "insured", "escrow"}]
    /\ disturbed \subseteq Jobs /\ received \subseteq Jobs
    /\ forwards \in [Jobs -> 0..MaxForwards]
    /\ \A j \in Jobs : AttemptsLeft(j)

Typed == WaitInv /\ Solvent /\ Sheets /\ Marks

LEMMA TypedIsTypeOK == Typed => TypeOK
<1> SUFFICES ASSUME Typed PROVE TypeOK
  OBVIOUS
<1>1. Scripts!ScriptTypeOK
  <2>1. SUFFICES ASSUME NEW r \in Jobs \X JobScripts
                 PROVE  /\ runs[r].program \in DOMAIN Scripts!Transactions \cup {"none"}
                        /\ runs[r].mined \in 0..3
                        /\ runs[r].says \in {"nothing", "success", "failure"}
    BY DEF Scripts!ScriptTypeOK
  <2>2. runs[r] \in RunType /\ RunInStep(r)
    BY DEF Typed, WaitInv, RunsInv
  <2>3. {"create_escrow", "purchase_insurance"} \subseteq DOMAIN Scripts!Transactions
    BY DEF Scripts!Transactions
  <2>4. runs[r].program \in DOMAIN Scripts!Transactions \cup {"none"}
    BY <2>2, <2>3 DEF RunType
  <2>5. runs[r].mined \in Nat /\ runs[r].mined <= 2
    BY <2>2 DEF RunType, RunInStep, Length
  <2> QED
    BY <2>2, <2>4, <2>5 DEF RunType
<1>2. /\ balance \in Int
      /\ status \in [Jobs -> {"none", "RUNNING", "COMPLETED", "FAILED", "REFUNDED"}]
      /\ {charged, refunded, rewarded} \subseteq [Jobs -> Nat]
  BY DEF Typed, Solvent, Sheets
<1>3. /\ submit \in [Jobs -> Positions]
      /\ callback \in [Callbacks -> CallbackType]
  BY DEF Typed, Sheets
<1>4. /\ mode \in [Jobs -> {"credits", "insured", "escrow"}]
      /\ disturbed \subseteq Jobs /\ received \subseteq Jobs
      /\ forwards \in [Jobs -> 0..MaxForwards]
  BY DEF Typed, Marks
<1> QED
  BY <1>1, <1>2, <1>3, <1>4 DEF TypeOK, Positions, CallbackType

LEMMA InitMarks == Init => Marks
<1> SUFFICES ASSUME Init PROVE Marks
  OBVIOUS
<1>1. mode \in [Jobs -> {"credits", "insured", "escrow"}]
  BY PaymentAssumption DEF Init
<1>2. forwards \in [Jobs -> 0..MaxForwards] /\ \A j \in Jobs : forwards[j] = 0
  BY DEF Init, MaxForwards
<1>3. \A j \in Jobs : AttemptsLeft(j)
  BY <1>2 DEF AttemptsLeft, MaxForwards
<1> QED
  BY <1>1, <1>2, <1>3 DEF Init, Marks

LEMMA SubmissionMarks ==
  ASSUME NEW j \in Jobs, Marks, submit \in [Jobs -> Positions], Submission(j) PROVE Marks'
<1>1. /\ mode' = mode
      /\ \A i \in Jobs : i # j => submit'[i] = submit[i]
  BY DEF Submission, CheckBalance, Deduct, EscrowMade, NoEscrow, Insured, InsertJob, ForwardOk,
         ForwardFails, GiveUp, RefundSubmission, SubmitAt
<1>2. disturbed' \subseteq Jobs /\ received' \subseteq Jobs
  BY DEF Submission, CheckBalance, Deduct, EscrowMade, NoEscrow, Insured, InsertJob, ForwardOk,
         ForwardFails, GiveUp, RefundSubmission, Disturb, Marks
<1>3. CASE forwards' = forwards
  <2>1. submit[j] \in {"start", "deduct", "escrow", "insure", "insert", "forward"}
            \/ submit'[j] \notin {"start", "deduct", "escrow", "insure", "insert", "forward"}
    BY DEF Submission, CheckBalance, Deduct, EscrowMade, NoEscrow, Insured, InsertJob, ForwardOk,
           ForwardFails, GiveUp, RefundSubmission, SubmitAt
  <2>2. ASSUME NEW i \in Jobs PROVE AttemptsLeft(i)'
    BY <1>1, <1>3, <2>1 DEF Marks, AttemptsLeft
  <2> QED
    BY <1>1, <1>2, <1>3, <2>2 DEF Marks
<1>4. CASE ForwardFails(j)
  <2>1. /\ submit[j] = "forward" /\ forwards \in [Jobs -> 0..MaxForwards]
        /\ forwards' = [forwards EXCEPT ![j] = forwards[j] + 1]
        /\ submit'[j] = IF forwards'[j] = MaxForwards THEN "giveUp" ELSE "forward"
        /\ forwards[j] < MaxForwards
    BY <1>4 DEF ForwardFails, SubmitAt, Marks, AttemptsLeft
  <2>2. forwards' \in [Jobs -> 0..MaxForwards]
    BY <2>1 DEF MaxForwards
  <2>3. AttemptsLeft(j)'
    BY <2>1, <2>2 DEF AttemptsLeft, MaxForwards
  <2>4. ASSUME NEW i \in Jobs, i # j PROVE AttemptsLeft(i)'
    BY <1>1, <2>1, <2>4 DEF Marks, AttemptsLeft
  <2> QED
    BY <1>1, <1>2, <2>2, <2>3, <2>4 DEF Marks
<1> QED
  BY <1>3, <1>4 DEF Submission, CheckBalance, Deduct, EscrowMade, NoEscrow, Insured, InsertJob,
                    ForwardOk, GiveUp, RefundSubmission

LEMMA NextTyped == Typed /\ [Next]_vars => Typed'
<1> SUFFICES ASSUME Typed, [Next]_vars PROVE Typed'
  OBVIOUS
<1>1. WaitInv' /\ Solvent'
  BY NextWait, NextSolvent DEF Typed
<1>2. ASSUME status' = status, charged' = charged, refunded' = refunded, rewarded' = rewarded,
             mode' = mode, disturbed' = disturbed, received' = received, submit' = submit,
             forwards' = forwards, callback' = callback
      PROVE  Sheets' /\ Marks'
  BY <1>2 DEF Typed, Sheets, Marks, AttemptsLeft
<1>3. ASSUME NEW c \in Callbacks, Completion(c) PROVE Sheets' /\ Marks'
  <2>1. Sheets'
    BY <1>3, CompletionSheets DEF Typed
  <2>2. /\ mode' = mode /\ received' = received /\ forwards' = forwards /\ submit' = submit
        /\ disturbed' \subseteq disturbed \cup {c[1]} /\ c[1] \in Jobs
    BY <1>3 DEF Completion, Notify, ReadJob, Reward, RefundJob, CloseJob, Disturb, Callbacks
  <2> QED
    BY <2>1, <2>2 DEF Typed, Marks, AttemptsLeft
<1>4. ASSUME NEW j \in Jobs, Submission(j) PROVE Sheets' /\ Marks'
  BY <1>4, SubmissionSheets, SubmissionMarks DEF Typed, Sheets
<1>5. ASSUME Crash PROVE Sheets' /\ Marks'
  <2>1. /\ mode' = mode /\ received' = received /\ forwards' = forwards
        /\ disturbed' = disturbed \cup {j \in Jobs : ~AtRest(j)}
        /\ \A j \in Jobs : submit'[j] \in {submit[j], "done"}
    BY <1>5 DEF Crash, Disturb
  <2>2. Marks'
    BY <2>1 DEF Typed, Marks, AttemptsLeft
  <2>3. status' = status /\ charged' = charged /\ refunded' = refunded /\ rewarded' = rewarded
    BY <1>5 DEF Crash, money
  <2>4. submit' \in [Jobs -> Positions] /\ callback' \in [Callbacks -> CallbackType]
    BY <1>1 DEF WaitInv, Solvent, CallbackType
  <2>5. Sheets'
    BY <2>3, <2>4 DEF Typed, Sheets
  <2> QED
    BY <2>2, <2>5
<1>6. ASSUME NEW r \in Jobs \X JobScripts, Script(r) PROVE Sheets' /\ Marks'
  BY <1>2, <1>6 DEF Script, money
<1>7. ASSUME UNCHANGED vars PROVE Sheets' /\ Marks'
  BY <1>2, <1>7 DEF vars, money
<1>8. Sheets' /\ Marks'
  BY <1>3, <1>4, <1>5, <1>6, <1>7 DEF Next
<1> QED
  BY <1>1, <1>8 DEF Typed

(***************************************************************************)
(* The state of the payment service keeps its type: among other things a   *)
(* job is forwarded three times at most, and no program mines more         *)
(* transactions than it sends.                                             *)
(***************************************************************************)
THEOREM ServiceIsTyped == Spec => []TypeOK
<1>1. Init => Typed
  BY InitWait, InitSolvent, InitSquare, InitMarks DEF Typed, SquareInv
<1> QED
  BY <1>1, NextTyped, TypedIsTypeOK, PTL DEF Spec

-----------------------------------------------------------------------------
(***************************************************************************)
(* CofheBridge: the answers match.                                         *)
(***************************************************************************)
Reading(c) == callers[c].at = "reading"

Busy(c) == callers[c].at \in {"draining", "reading", "listening"}

\* Why the answers match: there is one line under way at most, or one command
\* being worked at, and it is that of the coroutine that holds the lock.
OneReader == \A c \in Callers : Busy(c) => Turn(c)

InputInStep ==
    stdin # <<>> => \E c \in Callers : /\ stdin = <<c>> /\ Reading(c)
                                       /\ working = NoCommand /\ stdout = <<>>

WorkInStep ==
    working # NoCommand => working.by \in Callers /\ Reading(working.by) /\ stdout = <<>>

OutputInStep ==
    stdout # <<>> => \E c \in Callers, ok \in BOOLEAN :
                        /\ stdout = <<[to |-> c, ok |-> ok]>> /\ Reading(c)
                        /\ ok /\ Stores(c) => c \in chain

StoppedInStep == process # "running" => stdin = <<>> /\ working = NoCommand

Untold == \A c \in Callers : callers[c].at # "done" => callers[c].told = NoAnswer

InStep == OneReader /\ InputInStep /\ WorkInStep /\ OutputInStep /\ StoppedInStep /\ Untold

BridgeInv == BridgeTypeOK /\ InStep /\ AnswersMatch

-----------------------------------------------------------------------------
\* Pipes with one line in them.
LEMMA OneLine ==
    ASSUME NEW S, NEW x \in S
    PROVE  /\ Append(<<>>, x) = <<x>> /\ Head(<<x>>) = x /\ Tail(<<x>>) = <<>>
           /\ <<>> \in Seq(S) /\ <<x>> \in Seq(S) /\ <<x>> # <<>>
  OBVIOUS

\* Who comes for the lock takes nobody's place.
LEMMA TurnIsKept ==
    ASSUME waiting \in Seq(Callers), NEW c \in Callers, NEW d \in Callers, Turn(d),
           waiting' = Append(waiting, c)
    PROVE  Turn(d)'
  BY DEF Turn

\* While a coroutine has its turn and has not written, the pipes are empty.
LEMMA NothingUnderWay ==
    ASSUME InStep, NEW c \in Callers, Turn(c), ~Reading(c)
    PROVE  /\ \A d \in Callers : ~Reading(d)
           /\ stdin = <<>> /\ stdout = <<>> /\ working = NoCommand
<1>1. \A d \in Callers : ~Reading(d)
  BY DEF InStep, OneReader, Busy, Reading, Turn
<1> QED BY <1>1 DEF InStep, InputInStep, WorkInStep, OutputInStep

\* The nothings have the types of what they stand for.
LEMMA NothingTyped == NoAnswer \in Answers /\ NoCommand \in Works /\ NotAsked \in Calls
  BY DEF NoAnswer, NoCommand, NotAsked, Answers, Works, Calls, Places

\* What the operations of the client and of the process do to the types.
LEMMA AskTyped ==
    ASSUME callers \in [Callers -> Calls], waiting \in Seq(Callers),
           NEW c \in Callers, NEW action \in Actions, Ask(c, action)
    PROVE  callers' \in [Callers -> Calls] /\ waiting' \in Seq(Callers)
<1>1. waiting' \in Seq(Callers)
  BY DEF Ask
<1>2. callers' = [callers EXCEPT ![c] = [callers[c] EXCEPT !.action = action, !.at = "queued"]]
  BY DEF Ask
<1>3. [callers[c] EXCEPT !.action = action, !.at = "queued"] \in Calls
  BY DEF Calls, Places
<1> QED BY <1>1, <1>2, <1>3

LEMMA MoveTyped ==
    ASSUME callers \in [Callers -> Calls], NEW c \in Callers, NEW place \in Places,
           MoveTo(c, place)
    PROVE  callers' \in [Callers -> Calls]
<1>1. callers' = [callers EXCEPT ![c] = [callers[c] EXCEPT !.at = place]]
  BY DEF MoveTo
<1>2. [callers[c] EXCEPT !.at = place] \in Calls
  BY DEF Calls
<1> QED BY <1>1, <1>2

LEMMA ReturnTyped ==
    ASSUME callers \in [Callers -> Calls], waiting \in Seq(Callers), waiting # <<>>,
           NEW c \in Callers, NEW answer \in Answers, Return(c, answer)
    PROVE  callers' \in [Callers -> Calls] /\ waiting' \in Seq(Callers)
<1>1. waiting' \in Seq(Callers)
  BY DEF Return
<1>2. callers' = [callers EXCEPT ![c] = [callers[c] EXCEPT !.at = "done", !.told = answer]]
  BY DEF Return
<1>3. [callers[c] EXCEPT !.at = "done", !.told = answer] \in Calls
  BY DEF Calls, Places
<1> QED BY <1>1, <1>2, <1>3

LEMMA AnswerTyped ==
    ASSUME working \in Works, stdout \in Seq(Answers), NEW ok \in BOOLEAN, Answer(ok)
    PROVE  working' \in Works /\ stdout' \in Seq(Answers)
<1>1. [to |-> working.by, ok |-> ok] \in Answers
  BY DEF Works, Answers
<1> QED BY <1>1, NothingTyped DEF Answer

-----------------------------------------------------------------------------
\* The invariant holds at the start, and every step keeps it.
LEMMA InitInStep == BridgeInit => BridgeInv
<1> SUFFICES ASSUME BridgeInit PROVE BridgeInv
  OBVIOUS
<1>1. BridgeTypeOK
  <2>1. callers \in [Callers -> Calls] /\ working \in Works
    BY NothingTyped DEF BridgeInit
  <2>2. waiting \in Seq(Callers) /\ stdin \in Seq(Callers) /\ stdout \in Seq(Answers)
    BY DEF BridgeInit
  <2>3. deaths \in 0 .. MaxDeaths
    BY DeathAssumption DEF BridgeInit
  <2> QED BY <2>1, <2>2, <2>3 DEF BridgeInit, BridgeTypeOK, ProcessStates
<1>2. InStep
  BY DEF BridgeInit, NotAsked, InStep, OneReader, InputInStep, WorkInStep, OutputInStep,
         StoppedInStep, Untold, Busy
<1>3. AnswersMatch
  BY DEF BridgeInit, NotAsked, NoAnswer, AnswersMatch
<1> QED BY <1>1, <1>2, <1>3 DEF BridgeInv

LEMMA AppendTyped ==
  ASSUME NEW S, NEW s \in Seq(S), NEW x \in S
  PROVE  Append(s, x) \in Seq(S)
OBVIOUS

LEMMA TypeStep == BridgeInv /\ [BridgeNext]_bridgeVars => BridgeTypeOK'
<1> SUFFICES ASSUME BridgeInv, [BridgeNext]_bridgeVars PROVE BridgeTypeOK'
  OBVIOUS
<1>0. /\ BridgeTypeOK
      /\ \A c \in Callers : Busy(c) => waiting # <<>>
      /\ working.stage # "none" => working.by \in Callers
  BY DEF BridgeInv, InStep, OneReader, WorkInStep, NoCommand, Turn
<1>a. <<>> \in Seq(Callers) /\ <<>> \in Seq(Answers)
  OBVIOUS
<1>b. Exit => chain' \subseteq Callers
  BY <1>0 DEF Exit, MayMine, BridgeTypeOK
<1> USE <1>0, <1>a, NothingTyped DEF BridgeTypeOK, ProcessStates
<1>1. ASSUME NEW c \in Callers, NEW action \in Actions, Ask(c, action) PROVE BridgeTypeOK'
  BY <1>1, AskTyped DEF Ask, pipes
<1>2. ASSUME NEW c \in Callers, Write(c) PROVE BridgeTypeOK'
  <2>1. callers' \in [Callers -> Calls]
    BY <1>2, MoveTyped DEF Write, Places
  <2>2. stdin' = Append(stdin, c) \/ stdin' = stdin
    BY <1>2 DEF Write
  <2>3. stdin' \in Seq(Callers)
    BY <2>2, AppendTyped
  <2> QED BY <1>2, <2>1, <2>3 DEF Write
<1>3. ASSUME NEW c \in Callers, StartProcess, MoveTo(c, "reading") \/ MoveTo(c, "listening"),
             stdin' = <<c>> \/ stdin' = <<>>, UNCHANGED <<waiting, closed, chain, deaths>>
      PROVE  BridgeTypeOK'
  <2>1. callers' \in [Callers -> Calls]
    BY <1>3, MoveTyped DEF Places
  <2> QED BY <1>3, <2>1, OneLine DEF StartProcess
<1>4. ASSUME NEW c \in Callers, Raise(c), waiting # <<>>, UNCHANGED <<process, pipes>>,
             UNCHANGED <<closed, chain, deaths>>
      PROVE  BridgeTypeOK'
  BY <1>4, ReturnTyped DEF Raise, pipes
<1>5. ASSUME NEW c \in Callers, StartAndWrite(c) PROVE BridgeTypeOK'
  BY <1>3, <1>4, <1>5 DEF StartAndWrite, StartFails, Turn
<1>6. ASSUME NEW c \in Callers, Drain(c) PROVE BridgeTypeOK'
  <2>1. CASE process = "exited" /\ MoveTo(c, "reading") /\ UNCHANGED <<waiting, process, pipes>>
    <3>1. callers' \in [Callers -> Calls]
      BY <2>1, MoveTyped DEF Places
    <3> QED BY <1>6, <2>1, <3>1 DEF Drain, pipes
  <2> QED BY <1>3, <1>4, <1>6, <2>1 DEF Drain, StartFails, Busy
<1>7. ASSUME NEW c \in Callers, Read(c) PROVE BridgeTypeOK'
  BY <1>7, ReturnTyped DEF Read, Reads, Busy
<1>8. ASSUME NEW c \in Callers, ReadEnd(c) PROVE BridgeTypeOK'
  BY <1>4, <1>8 DEF ReadEnd, Reads, Busy
<1>9. CASE Take
  <2>1. Head(stdin) \in Callers /\ Tail(stdin) \in Seq(Callers)
    BY <1>9 DEF Take
  <2> QED BY <1>9, <2>1 DEF Take, Works
<1>10. CASE Connect
  <2>1. working' \in Works /\ stdout' \in Seq(Answers)
    BY <1>10, AnswerTyped DEF Connect, Works
  <2> QED BY <1>10, <2>1 DEF Connect
<1>11. CASE Act
  <2>1. working' \in Works /\ stdout' \in Seq(Answers)
    BY <1>11, AnswerTyped DEF Act
  <2> QED BY <1>11, <2>1 DEF Act, Mine, MayMine
<1>12. CASE Die
  <2>1. deaths' \in 0 .. MaxDeaths
    BY <1>12, DeathAssumption DEF Die
  <2> QED BY <1>12, <2>1, <1>b DEF Die, Exit
<1>13. CASE Notice
  BY <1>13 DEF Notice, pipes
<1>14. CASE Close
  BY <1>14, <1>b DEF Close, Exit, pipes
<1>15. CASE UNCHANGED bridgeVars
  BY <1>15 DEF bridgeVars, pipes
<1> QED BY <1>1, <1>2, <1>5, <1>6, <1>7, <1>8, <1>9, <1>10, <1>11, <1>12, <1>13, <1>14, <1>15
        DEF BridgeNext, Run, Main

-----------------------------------------------------------------------------
\* The coroutine whose turn it is asks a process, or comes to listen to one;
\* its command is the only line if there is one.
LEMMA MoveStep ==
    ASSUME BridgeTypeOK, InStep, AnswersMatch, NEW c \in Callers, Turn(c),
           callers[c].at \in {"queued", "draining"},
           NEW place \in {"draining", "reading", "listening"}, MoveTo(c, place),
           stdin' = <<>> \/ (stdin' = <<c>> /\ place = "reading" /\ process' = "running"),
           UNCHANGED <<waiting, stdout, working, chain>>
    PROVE  (InStep /\ AnswersMatch)'
<1>0. \A d \in Callers : callers'[d].at = IF d = c THEN place ELSE callers[d].at
  BY DEF MoveTo, BridgeTypeOK, Calls
<1>1. (\A d \in Callers : ~Reading(d)) /\ stdout = <<>> /\ working = NoCommand
  BY NothingUnderWay DEF Reading
<1>2. OneReader'
  BY <1>0 DEF InStep, OneReader, Busy, Turn
<1>3. InputInStep'
  <2>1. place = "reading" => Reading(c)'
    BY <1>0 DEF Reading
  <2> QED BY <1>1, <2>1, OneLine DEF InputInStep
<1>4. WorkInStep' /\ OutputInStep' /\ StoppedInStep'
  BY <1>1, OneLine DEF WorkInStep, OutputInStep, StoppedInStep
<1>5. Untold' /\ AnswersMatch'
  BY DEF MoveTo, InStep, Untold, AnswersMatch, Stores, BridgeTypeOK, Calls
<1> QED BY <1>2, <1>3, <1>4, <1>5 DEF InStep

\* A return of the coroutine whose turn it is, when nothing is left in the pipes.
LEMMA ReturnStep ==
    ASSUME BridgeTypeOK, InStep, AnswersMatch, NEW c \in Callers, Turn(c), NEW told \in Answers,
           told.to \in {c, Nobody}, told.ok => told.to = c /\ (Stores(c) => c \in chain),
           Return(c, told), stdin' = <<>>, stdout' = <<>>, working' = NoCommand, chain' = chain
    PROVE  (InStep /\ AnswersMatch)'
<1>1. \A d \in Callers : ~Busy(d)'
  BY DEF InStep, OneReader, Turn, Return, Busy, BridgeTypeOK, Calls
<1>2. OneReader' /\ InputInStep' /\ WorkInStep' /\ OutputInStep' /\ StoppedInStep'
  BY <1>1 DEF OneReader, InputInStep, WorkInStep, OutputInStep, StoppedInStep
<1>3. Untold' /\ AnswersMatch'
  BY DEF Return, InStep, Untold, AnswersMatch, Stores, BridgeTypeOK, Calls
<1> QED BY <1>2, <1>3 DEF InStep

\* An answer of the process to the command it works at.
LEMMA AnswerStep ==
    ASSUME BridgeTypeOK, InStep, AnswersMatch, working # NoCommand, NEW ok \in BOOLEAN, Answer(ok),
           ok /\ Stores(working.by) => working.by \in chain', chain \subseteq chain',
           UNCHANGED <<callers, waiting, process, stdin>>
    PROVE  (InStep /\ AnswersMatch)'
<1>1. working.by \in Callers /\ Reading(working.by) /\ stdout = <<>> /\ stdin = <<>>
  BY DEF InStep, WorkInStep, InputInStep
<1>2. stdout' = <<[to |-> working.by, ok |-> ok]>> /\ working' = NoCommand
  BY <1>1 DEF Answer
<1>3. OneReader' /\ InputInStep' /\ WorkInStep' /\ StoppedInStep' /\ Untold'
  BY <1>1, <1>2 DEF InStep, OneReader, InputInStep, WorkInStep, StoppedInStep, Untold,
     Busy, Reading, Turn
<1>4. OutputInStep'
  <2>1. PICK c \in Callers : c = working.by
    BY <1>1
  <2>2. stdout' = <<[to |-> c, ok |-> ok]>> /\ Reading(c)' /\ (ok /\ Stores(c)' => c \in chain')
    BY <1>1, <1>2, <2>1 DEF Reading, Stores
  <2> QED BY <2>2 DEF OutputInStep
<1>5. AnswersMatch'
  BY DEF AnswersMatch, Stores
<1> QED BY <1>3, <1>4, <1>5 DEF InStep

\* The end of the process: what it has answered is still there.
LEMMA ExitStep ==
    ASSUME BridgeTypeOK, InStep, AnswersMatch, Exit
    PROVE  (InStep /\ AnswersMatch)'
<1>1. chain \subseteq chain'
  BY DEF Exit, MayMine
<1>2. OneReader' /\ InputInStep' /\ WorkInStep' /\ StoppedInStep' /\ Untold' /\ AnswersMatch'
  BY <1>1 DEF Exit, InStep, OneReader, InputInStep, WorkInStep, StoppedInStep, Untold,
     AnswersMatch, Busy, Reading, Turn, Stores
<1>3. OutputInStep'
  BY <1>1 DEF Exit, InStep, OutputInStep, Reading, Stores
<1> QED BY <1>2, <1>3 DEF InStep

LEMMA StepInStep == BridgeInv /\ [BridgeNext]_bridgeVars => (InStep /\ AnswersMatch)'
<1> SUFFICES ASSUME BridgeInv, [BridgeNext]_bridgeVars PROVE (InStep /\ AnswersMatch)'
  OBVIOUS
<1>0. BridgeTypeOK /\ InStep /\ AnswersMatch
  BY DEF BridgeInv
<1> USE <1>0
<1>1. ASSUME NEW c \in Callers, NEW action \in Actions, Ask(c, action)
      PROVE  (InStep /\ AnswersMatch)'
  <2>1. /\ ~Reading(c)
        /\ \A d \in Callers : (Reading(d)' <=> Reading(d)) /\ (Busy(d)' <=> Busy(d))
    BY <1>1 DEF Ask, Reading, Busy, BridgeTypeOK
  <2>2. \A d \in Callers \ {c} : Stores(d)' <=> Stores(d)
    BY <1>1 DEF Ask, Stores, BridgeTypeOK
  <2>3. OneReader'
    BY <1>1, <2>1, TurnIsKept DEF Ask, InStep, OneReader, BridgeTypeOK
  <2>4. InputInStep' /\ WorkInStep' /\ StoppedInStep'
    BY <1>1, <2>1 DEF Ask, pipes, InStep, InputInStep, WorkInStep, StoppedInStep, BridgeTypeOK
  <2>5. OutputInStep'
    BY <1>1, <2>1, <2>2 DEF Ask, pipes, InStep, OutputInStep, BridgeTypeOK
  <2>6. Untold' /\ AnswersMatch'
    <3>1. callers[c].told = NoAnswer /\ chain' = chain
      BY <1>1 DEF Ask, InStep, Untold
    <3>2. \A d \in Callers : callers'[d].told = callers[d].told
                            /\ (callers'[d].at = "done" <=> callers[d].at = "done")
      BY <1>1 DEF Ask, BridgeTypeOK, Calls
    <3>3. Untold'
      BY <3>1, <3>2 DEF InStep, Untold, NoAnswer
    <3>4. ASSUME NEW d \in Callers \ {c}
          PROVE  /\ callers'[d].told.to \in {d, Nobody}
                 /\ callers'[d].told.ok
                      => callers'[d].told.to = d /\ (Stores(d)' => d \in chain')
      BY <2>2, <3>1, <3>2 DEF AnswersMatch
    <3>5. callers'[c].told.to = Nobody /\ ~callers'[c].told.ok
      BY <3>1, <3>2 DEF NoAnswer
    <3> QED BY <3>3, <3>4, <3>5 DEF AnswersMatch
  <2> QED BY <2>3, <2>4, <2>5, <2>6 DEF InStep
<1>2. ASSUME NEW c \in Callers, Turn(c), callers[c].at \in {"queued", "draining"}
      PROVE  stdin = <<>> /\ stdout = <<>> /\ working = NoCommand
  BY <1>2, NothingUnderWay DEF Reading
<1>3. ASSUME NEW c \in Callers, Write(c) PROVE (InStep /\ AnswersMatch)'
  <2>1. Turn(c) /\ callers[c].at = "queued" /\ stdin = <<>>
    BY <1>2, <1>3 DEF Write
  <2>2. CASE process = "running"
    BY <1>3, <2>1, <2>2, OneLine, MoveStep DEF Write
  <2>3. CASE process # "running"
    BY <1>3, <2>1, <2>3, MoveStep DEF Write
  <2> QED BY <2>2, <2>3
<1>4. ASSUME NEW c \in Callers, Turn(c), callers[c].at \in {"queued", "draining"}, Raise(c),
             UNCHANGED <<process, pipes>>, UNCHANGED chain
      PROVE  (InStep /\ AnswersMatch)'
  BY <1>2, <1>4, ReturnStep, NothingTyped DEF Raise, NoAnswer, pipes
<1>5. ASSUME NEW c \in Callers, StartAndWrite(c) PROVE (InStep /\ AnswersMatch)'
  <2>1. Turn(c) /\ callers[c].at = "queued" /\ chain' = chain
    BY <1>5 DEF StartAndWrite
  <2>2. CASE StartProcess /\ MoveTo(c, "reading") /\ stdin' = <<c>> /\ UNCHANGED waiting
    BY <1>2, <2>1, <2>2, MoveStep DEF StartProcess
  <2> QED BY <1>4, <1>5, <2>1, <2>2 DEF StartAndWrite, StartFails
<1>6. ASSUME NEW c \in Callers, Drain(c) PROVE (InStep /\ AnswersMatch)'
  <2>1. Turn(c) /\ callers[c].at = "draining" /\ chain' = chain
    BY <1>6 DEF Drain, Busy, InStep, OneReader
  <2>2. CASE process = "exited" /\ MoveTo(c, "reading") /\ UNCHANGED <<waiting, process, pipes>>
    BY <1>2, <2>1, <2>2, MoveStep DEF pipes
  <2>3. CASE StartProcess /\ MoveTo(c, "listening") /\ stdin' = <<>> /\ UNCHANGED waiting
    BY <1>2, <2>1, <2>3, MoveStep DEF StartProcess
  <2> QED BY <1>4, <1>6, <2>1, <2>2, <2>3 DEF Drain, StartFails
<1>7. ASSUME NEW c \in Callers, Read(c) PROVE (InStep /\ AnswersMatch)'
  <2>1. Turn(c) /\ stdin = <<>> /\ working = NoCommand
    BY <1>7 DEF Read, Reads, Busy, InStep, OneReader, InputInStep, WorkInStep
  <2>2. PICK d \in Callers, ok \in BOOLEAN : /\ stdout = <<[to |-> d, ok |-> ok]>> /\ Reading(d)
                                             /\ ok /\ Stores(d) => d \in chain
    BY <1>7 DEF Read, InStep, OutputInStep
  <2>3. d = c
    BY <2>1, <2>2 DEF InStep, OneReader, Busy, Reading, Turn
  <2>4. Head(stdout) = [to |-> c, ok |-> ok] /\ Head(stdout) \in Answers /\ Tail(stdout) = <<>>
    BY <2>2, <2>3 DEF Answers
  <2> QED BY <1>7, <2>1, <2>2, <2>3, <2>4, ReturnStep DEF Read
<1>8. ASSUME NEW c \in Callers, ReadEnd(c) PROVE (InStep /\ AnswersMatch)'
  <2>1. Turn(c) /\ stdin = <<>> /\ stdout = <<>> /\ working = NoCommand
    BY <1>8 DEF ReadEnd, Reads, Busy, InStep, OneReader, StoppedInStep
  <2> QED BY <1>8, <2>1, ReturnStep, NothingTyped DEF ReadEnd, Raise, NoAnswer, pipes
<1>9. CASE Take
  <2>1. PICK c \in Callers : stdin = <<c>> /\ Reading(c) /\ stdout = <<>>
    BY <1>9 DEF Take, InStep, InputInStep
  <2>2. stdin' = <<>> /\ working'.by = c /\ stdout' = <<>> /\ Reading(c)'
    BY <1>9, <2>1 DEF Take, Reading
  <2> QED BY <1>9, <2>2 DEF Take, InStep, OneReader, InputInStep, WorkInStep, OutputInStep,
          StoppedInStep, Untold, AnswersMatch, Busy, Reading, Turn, Stores
<1>10. CASE Connect
  <2>1. working # NoCommand
    BY <1>10 DEF Connect, NoCommand
  <2>2. CASE Answer(FALSE)
    BY <1>10, <2>1, <2>2, AnswerStep DEF Connect
  <2>3. CASE working' = [working EXCEPT !.stage = "act"] /\ UNCHANGED stdout
    <3>1. working'.by = working.by
      BY <2>3 DEF BridgeTypeOK, Works
    <3>2. working.by \in Callers /\ Reading(working.by) /\ stdin = <<>> /\ stdout = <<>>
      BY <2>1 DEF InStep, WorkInStep, InputInStep
    <3> QED BY <1>10, <2>3, <3>1, <3>2 DEF Connect, InStep, OneReader, InputInStep, WorkInStep,
            OutputInStep, StoppedInStep, Untold, AnswersMatch, Busy, Reading, Turn, Stores
  <2> QED BY <1>10, <2>2, <2>3 DEF Connect
<1>11. CASE Act
  <2>1. working # NoCommand
    BY <1>11 DEF Act, NoCommand
  <2>2. CASE Answer(TRUE) /\ Mine(working.by)
    BY <1>11, <2>1, <2>2, AnswerStep DEF Act, Mine
  <2>3. CASE Answer(FALSE) /\ MayMine(working.by)
    BY <1>11, <2>1, <2>3, AnswerStep DEF Act, MayMine
  <2> QED BY <1>11, <2>2, <2>3 DEF Act
<1>12. CASE Die
  BY <1>12, ExitStep DEF Die
<1>13. ASSUME UNCHANGED <<callers, waiting, stdin, stdout, working, chain>>,
              process' = process \/ (process = "exited" /\ process' = "ended")
       PROVE  (InStep /\ AnswersMatch)'
  BY <1>13 DEF InStep, OneReader, InputInStep, WorkInStep, OutputInStep, StoppedInStep, Untold,
     AnswersMatch, Busy, Reading, Turn, Stores
<1>14. CASE Notice
  BY <1>14, <1>13 DEF Notice, pipes
<1>15. CASE Close
  BY <1>15, <1>13, ExitStep DEF Close, pipes
<1>16. CASE UNCHANGED bridgeVars
  BY <1>16, <1>13 DEF bridgeVars
<1> QED BY <1>1, <1>3, <1>5, <1>6, <1>7, <1>8, <1>9, <1>10, <1>11, <1>12, <1>14, <1>15, <1>16
        DEF BridgeNext, Run, Main

-----------------------------------------------------------------------------
\* The bridge stays well-typed for any number of coroutines and deaths.
THEOREM BridgeIsTyped == BridgeSpec => []BridgeTypeOK
<1>1. BridgeInv /\ [BridgeNext]_bridgeVars => BridgeInv'
  BY TypeStep, StepInStep DEF BridgeInv
<1>2. BridgeInv => BridgeTypeOK
  BY DEF BridgeInv
<1> QED BY InitInStep, <1>1, <1>2, PTL DEF BridgeSpec

\* A coroutine of the node is told the answer to its own command or nothing,
\* although the client does not look at the number an answer carries.
THEOREM BridgeAnswersMatch == BridgeSpec => []AnswersMatch
<1>1. BridgeInv /\ [BridgeNext]_bridgeVars => BridgeInv'
  BY TypeStep, StepInStep DEF BridgeInv
<1>2. BridgeInv => AnswersMatch
  BY DEF BridgeInv
<1> QED BY InitInStep, <1>1, <1>2, PTL DEF BridgeSpec

-----------------------------------------------------------------------------
(***************************************************************************)
(* CofheBridge: only listeners hang.  Who waits is in the queue of the     *)
(* lock, once; and the line of a coroutine that reads is somewhere.        *)
(***************************************************************************)
Waits(c) == callers[c].at \in {"queued", "draining", "reading", "listening"}

QueueInStep ==
    /\ \A c \in Callers : Waits(c) => \E i \in 1..Len(waiting) : waiting[i] = c
    /\ \A i \in 1..Len(waiting) : Waits(waiting[i])
    /\ \A i, k \in 1..Len(waiting) : waiting[i] = waiting[k] => i = k

LineUnderWay == stdin # <<>> \/ working # NoCommand \/ stdout # <<>>

Served == \A c \in Callers : Reading(c) /\ process = "running" => LineUnderWay

StageInStep == working # NoCommand => working.stage \in {"connect", "act"}

LockInv == BridgeInv /\ QueueInStep /\ Served /\ StageInStep

LEMMA InitLock == BridgeInit => LockInv
  BY InitInStep DEF BridgeInit, LockInv, QueueInStep, Waits, Served, Reading, StageInStep, NotAsked

LEMMA QueueKept ==
  ASSUME QueueInStep, BridgeTypeOK, waiting' = waiting, \A c \in Callers : Waits(c)' <=> Waits(c)
  PROVE  QueueInStep'
<1>1. \A i \in 1..Len(waiting) : waiting[i] \in Callers
  BY DEF BridgeTypeOK
<1> QED
  BY <1>1 DEF QueueInStep

LEMMA QueueJoined ==
  ASSUME QueueInStep, BridgeTypeOK, NEW c \in Callers, ~Waits(c), waiting' = Append(waiting, c),
         Waits(c)', \A d \in Callers : d # c => (Waits(d)' <=> Waits(d))
  PROVE  QueueInStep'
<1>1. /\ waiting \in Seq(Callers) /\ Len(waiting) \in Nat
      /\ Len(waiting') = Len(waiting) + 1
      /\ waiting'[Len(waiting) + 1] = c
      /\ \A i \in 1..Len(waiting) : waiting'[i] = waiting[i]
  BY DEF BridgeTypeOK
<1>2. \A i \in 1..Len(waiting) : waiting[i] \in Callers /\ Waits(waiting[i]) /\ waiting[i] # c
  BY <1>1 DEF QueueInStep
<1>3. \A i \in 1..Len(waiting') : i \in 1..Len(waiting) \/ i = Len(waiting) + 1
  BY <1>1
<1>4. ASSUME NEW d \in Callers, Waits(d)' PROVE \E i \in 1..Len(waiting') : waiting'[i] = d
  <2>1. CASE d = c
    <3>1. Len(waiting) + 1 \in 1..Len(waiting')
      BY <1>1
    <3> QED
      BY <1>1, <2>1, <3>1
  <2>2. CASE d # c
    <3>1. PICK i \in 1..Len(waiting) : waiting[i] = d
      BY <1>4, <2>2 DEF QueueInStep
    <3>2. i \in 1..Len(waiting') /\ waiting'[i] = d
      BY <1>1, <3>1
    <3> QED
      BY <3>2
  <2> QED
    BY <2>1, <2>2
<1>5. ASSUME NEW i \in 1..Len(waiting') PROVE Waits(waiting[i])'
  <2>1. CASE i \in 1..Len(waiting)
    <3>1. PICK d \in Callers : d = waiting[i]
      BY <1>2, <2>1
    <3>2. Waits(d)' /\ waiting'[i] = d
      BY <1>1, <1>2, <2>1, <3>1
    <3> QED
      BY <3>2 DEF Waits
  <2>2. CASE i = Len(waiting) + 1
    BY <1>1, <2>2 DEF Waits
  <2> QED
    BY <1>3, <2>1, <2>2
<1>6. ASSUME NEW i \in 1..Len(waiting'), NEW k \in 1..Len(waiting'), waiting'[i] = waiting'[k]
      PROVE  i = k
  BY <1>1, <1>2, <1>3, <1>6 DEF QueueInStep
<1> QED
  BY <1>4, <1>5, <1>6 DEF QueueInStep

LEMMA QueueLeft ==
  ASSUME QueueInStep, BridgeTypeOK, NEW c \in Callers, Turn(c), NEW answer, Return(c, answer)
  PROVE  QueueInStep'
<1>1. /\ waiting \in Seq(Callers) /\ waiting # <<>> /\ waiting[1] = c
      /\ waiting' = Tail(waiting)
  BY DEF BridgeTypeOK, Turn, Return
<1>2. /\ Len(waiting) \in Nat /\ Len(waiting) >= 1 /\ Len(waiting') = Len(waiting) - 1
      /\ \A i \in 1..Len(waiting') : waiting'[i] = waiting[i + 1] /\ i + 1 \in 1..Len(waiting)
      /\ 1 \in 1..Len(waiting)
  BY <1>1
<1>3. \A d \in Callers : d # c => callers'[d] = callers[d]
  BY DEF Return, BridgeTypeOK
<1>4. callers'[c].at = "done"
  BY DEF Return, BridgeTypeOK, Calls
<1>5. ASSUME NEW i \in 1..Len(waiting') PROVE waiting'[i] \in Callers \ {c} /\ Waits(waiting[i])'
  <2>1. i + 1 \in 1..Len(waiting) /\ waiting'[i] = waiting[i + 1] /\ i \in Nat /\ i >= 1
    BY <1>2
  <2>2. PICK d \in Callers : d = waiting[i + 1]
    BY <1>1, <2>1
  <2>3. d # c
    <3>1. i + 1 # 1
      BY <2>1
    <3> QED
      BY <1>1, <1>2, <2>1, <2>2, <3>1 DEF QueueInStep
  <2>4. Waits(d)'
    BY <1>3, <2>1, <2>2, <2>3 DEF QueueInStep, Waits
  <2> QED
    BY <2>1, <2>2, <2>3, <2>4 DEF Waits
<1>6. ASSUME NEW d \in Callers, Waits(d)' PROVE \E i \in 1..Len(waiting') : waiting'[i] = d
  <2>1. d # c /\ Waits(d)
    BY <1>3, <1>4, <1>6 DEF Waits
  <2>2. PICK i \in 1..Len(waiting) : waiting[i] = d
    BY <2>1 DEF QueueInStep
  <2>3. i # 1 /\ i \in Nat
    BY <1>1, <2>1, <2>2
  <2>4. i - 1 \in 1..Len(waiting') /\ (i - 1) + 1 = i
    BY <1>2, <2>3
  <2>5. waiting'[i - 1] = d
    BY <1>2, <2>2, <2>4
  <2> QED
    BY <2>4, <2>5
<1>7. ASSUME NEW i \in 1..Len(waiting'), NEW k \in 1..Len(waiting'), waiting'[i] = waiting'[k]
      PROVE  i = k
  <2>1. waiting[i + 1] = waiting[k + 1] /\ i + 1 \in 1..Len(waiting) /\ k + 1 \in 1..Len(waiting)
    BY <1>2, <1>7
  <2>2. i + 1 = k + 1
    BY <2>1 DEF QueueInStep
  <2> QED
    BY <2>2
<1> QED
  BY <1>5, <1>6, <1>7 DEF QueueInStep

\* What a coroutine does that moves on in its turn.
LEMMA MovePlace ==
  ASSUME QueueInStep, BridgeTypeOK, NEW c \in Callers, Waits(c), waiting' = waiting,
         NEW place \in {"draining", "reading", "listening"}, MoveTo(c, place)
  PROVE  /\ QueueInStep'
         /\ \A d \in Callers : callers'[d].at = IF d = c THEN place ELSE callers[d].at
<1>1. \A d \in Callers : callers'[d].at = IF d = c THEN place ELSE callers[d].at
  BY DEF MoveTo, BridgeTypeOK, Calls
<1>2. \A d \in Callers : Waits(d)' <=> Waits(d)
  BY <1>1 DEF Waits
<1> QED
  BY <1>1, <1>2, QueueKept

\* After a return nobody reads, and nothing was started.
LEMMA ReturnServed ==
  ASSUME LockInv, NEW c \in Callers, Turn(c), NEW answer, Return(c, answer),
         working' \in {working, NoCommand}
  PROVE  (QueueInStep /\ Served /\ StageInStep)'
<1>1. QueueInStep'
  BY QueueLeft DEF LockInv, BridgeInv
<1>2. \A d \in Callers : ~Reading(d)'
  <2>1. \A d \in Callers : d # c => ~Reading(d)
    BY DEF LockInv, BridgeInv, InStep, OneReader, Busy, Reading, Turn
  <2> QED
    BY <2>1 DEF Return, LockInv, BridgeInv, BridgeTypeOK, Calls, Reading
<1> QED
  BY <1>1, <1>2 DEF Served, StageInStep, LockInv

LEMMA StepLock == LockInv /\ [BridgeNext]_bridgeVars => (QueueInStep /\ Served /\ StageInStep)'
<1> SUFFICES ASSUME LockInv, [BridgeNext]_bridgeVars
             PROVE  (QueueInStep /\ Served /\ StageInStep)'
  OBVIOUS
<1>0. /\ BridgeTypeOK /\ OneReader /\ QueueInStep /\ Served /\ StageInStep
      /\ InputInStep /\ WorkInStep /\ StoppedInStep
  BY DEF LockInv, BridgeInv, InStep
<1>1. ASSUME callers' = callers, waiting' = waiting, StageInStep',
             process' = "running" => process = "running" /\ (LineUnderWay => LineUnderWay')
      PROVE  (QueueInStep /\ Served /\ StageInStep)'
  <2>1. QueueInStep'
    BY <1>0, <1>1, QueueKept DEF Waits
  <2>2. Served'
    BY <1>0, <1>1 DEF Served, Reading
  <2> QED
    BY <1>1, <2>1, <2>2
<1>2. ASSUME NEW c \in Callers, NEW action \in Actions, Ask(c, action)
      PROVE  (QueueInStep /\ Served /\ StageInStep)'
  <2>1. /\ callers[c].at = "idle" /\ callers'[c].at = "queued"
        /\ \A d \in Callers : d # c => callers'[d] = callers[d]
        /\ waiting' = Append(waiting, c)
        /\ process' = process /\ stdin' = stdin /\ working' = working /\ stdout' = stdout
    BY <1>0, <1>2 DEF Ask, BridgeTypeOK, Calls, pipes
  <2>2. QueueInStep'
    BY <1>0, <2>1, QueueJoined DEF Waits
  <2>3. Served' /\ StageInStep'
    BY <1>0, <2>1 DEF Served, Reading, LineUnderWay, StageInStep
  <2> QED
    BY <2>2, <2>3
<1>3. ASSUME NEW c \in Callers, Turn(c), callers[c].at \in {"queued", "draining"},
             NEW place \in {"draining", "reading", "listening"}, MoveTo(c, place),
             waiting' = waiting, working' \in {working, NoCommand},
             place = "reading" => stdin' # <<>> \/ process' # "running"
      PROVE  (QueueInStep /\ Served /\ StageInStep)'
  <2>1. /\ QueueInStep'
        /\ \A d \in Callers : callers'[d].at = IF d = c THEN place ELSE callers[d].at
    BY <1>0, <1>3, MovePlace DEF Waits
  <2>2. \A d \in Callers : Reading(d) => d = c
    BY <1>0, <1>3 DEF OneReader, Busy, Reading, Turn
  <2>3. \A d \in Callers : Reading(d)' => d = c /\ place = "reading"
    BY <2>1, <2>2 DEF Reading
  <2>4. Served'
    BY <1>3, <2>3 DEF Served, LineUnderWay
  <2>5. StageInStep'
    BY <1>0, <1>3 DEF StageInStep
  <2> QED
    BY <2>1, <2>4, <2>5
<1>4. ASSUME NEW c \in Callers, Write(c) PROVE (QueueInStep /\ Served /\ StageInStep)'
  <2>1. Turn(c) /\ callers[c].at = "queued" /\ waiting' = waiting /\ working' = working
        /\ process' = process
    BY <1>4 DEF Write
  <2>2. CASE process = "running"
    <3>1. MoveTo(c, "reading") /\ stdin' = Append(stdin, c) /\ stdin \in Seq(Callers)
      BY <1>0, <1>4, <2>2 DEF Write, BridgeTypeOK
    <3>2. stdin' # <<>>
      BY <3>1
    <3> QED
      BY <1>3, <2>1, <3>1, <3>2
  <2>3. CASE process # "running"
    <3>1. MoveTo(c, "draining")
      BY <1>4, <2>3 DEF Write
    <3> QED
      BY <1>3, <2>1, <3>1
  <2> QED
    BY <2>2, <2>3
<1>5. ASSUME NEW c \in Callers, Turn(c), Raise(c), UNCHANGED <<process, pipes>>
      PROVE  (QueueInStep /\ Served /\ StageInStep)'
  BY <1>5, ReturnServed DEF Raise, pipes
<1>6. ASSUME NEW c \in Callers, StartAndWrite(c) PROVE (QueueInStep /\ Served /\ StageInStep)'
  <2>1. Turn(c) /\ callers[c].at = "queued"
    BY <1>6 DEF StartAndWrite
  <2>2. CASE StartProcess /\ MoveTo(c, "reading") /\ stdin' = <<c>> /\ UNCHANGED waiting
    <3>1. stdin' # <<>> /\ working' = NoCommand
      BY <2>2 DEF StartProcess
    <3> QED
      BY <1>3, <2>1, <2>2, <3>1
  <2> QED
    BY <1>5, <1>6, <2>1, <2>2 DEF StartAndWrite, StartFails
<1>7. ASSUME NEW c \in Callers, Drain(c) PROVE (QueueInStep /\ Served /\ StageInStep)'
  <2>1. Turn(c) /\ callers[c].at = "draining"
    BY <1>0, <1>7 DEF Drain, Busy, OneReader
  <2>2. CASE process = "exited" /\ MoveTo(c, "reading") /\ UNCHANGED <<waiting, process, pipes>>
    BY <1>3, <2>1, <2>2 DEF pipes
  <2>3. CASE StartProcess /\ MoveTo(c, "listening") /\ stdin' = <<>> /\ UNCHANGED waiting
    BY <1>3, <2>1, <2>3 DEF StartProcess
  <2> QED
    BY <1>5, <1>7, <2>1, <2>2, <2>3 DEF Drain, StartFails
<1>8. ASSUME NEW c \in Callers, Read(c) \/ ReadEnd(c)
      PROVE  (QueueInStep /\ Served /\ StageInStep)'
  <2>1. Turn(c)
    BY <1>0, <1>8 DEF Read, ReadEnd, Reads, Busy, OneReader
  <2> QED
    BY <1>5, <1>8, <2>1, ReturnServed DEF Read, ReadEnd
<1>9. CASE Take
  <2>1. callers' = callers /\ waiting' = waiting /\ process' = process
        /\ working'.stage \in {"connect", "act"}
    BY <1>9 DEF Take
  <2>2. working' # NoCommand
    BY <2>1 DEF NoCommand
  <2> QED
    BY <1>1, <1>9, <2>1, <2>2 DEF StageInStep, LineUnderWay, Take
<1>10. ASSUME NEW ok \in BOOLEAN, Answer(ok) PROVE StageInStep' /\ LineUnderWay'
  <2>1. working' = NoCommand /\ stdout' # <<>>
    BY <1>0, <1>10 DEF Answer, BridgeTypeOK
  <2> QED
    BY <2>1 DEF StageInStep, LineUnderWay
<1>11. CASE Connect
  <2>1. callers' = callers /\ waiting' = waiting /\ process' = process /\ process = "running"
    BY <1>11 DEF Connect
  <2>2. CASE Answer(FALSE)
    BY <1>1, <1>10, <2>1, <2>2
  <2>3. CASE working' = [working EXCEPT !.stage = "act"]
    <3>1. working'.stage = "act"
      BY <1>0, <2>3 DEF BridgeTypeOK, Works
    <3>2. StageInStep' /\ working' # NoCommand
      BY <3>1 DEF StageInStep, NoCommand
    <3> QED
      BY <1>1, <2>1, <3>2 DEF LineUnderWay
  <2> QED
    BY <1>11, <2>2, <2>3 DEF Connect
<1>12. CASE Act
  <2>1. callers' = callers /\ waiting' = waiting /\ process' = process /\ process = "running"
        /\ \E ok \in BOOLEAN : Answer(ok)
    BY <1>12 DEF Act
  <2> QED
    BY <1>1, <1>10, <2>1
<1>13. ASSUME Exit PROVE (QueueInStep /\ Served /\ StageInStep)'
  BY <1>1, <1>13 DEF Exit, StageInStep
<1>14. ASSUME callers' = callers, waiting' = waiting, UNCHANGED pipes,
              process' = process \/ process' = "ended"
       PROVE  (QueueInStep /\ Served /\ StageInStep)'
  BY <1>0, <1>1, <1>14 DEF pipes, StageInStep, LineUnderWay
<1>15. CASE Die \/ Close \/ Notice
  BY <1>13, <1>14, <1>15 DEF Die, Close, Notice
<1>16. CASE UNCHANGED bridgeVars
  BY <1>14, <1>16 DEF bridgeVars, pipes
<1> QED
  BY <1>2, <1>4, <1>6, <1>7, <1>8, <1>9, <1>11, <1>12, <1>15, <1>16 DEF BridgeNext, Run, Main

\* What lets Write, StartAndWrite, Drain, Read or ReadEnd happen.
RunDue(c) ==
    \/ callers[c].at \in {"queued", "draining"}
    \/ Reads(c) /\ (stdout # <<>> \/ process # "running")

\* What lets Take, Connect or Act happen.
MainDue ==
    /\ process = "running"
    /\ working.stage \in {"connect", "act"} \/ (working = NoCommand /\ stdin # <<>>)

\* Someone in Turn can go on, or reads from a process that can, or listens.
LockGoesOn ==
    \A c \in Callers : Waits(c) =>
        \E d \in Callers : Turn(d) /\ (RunDue(d) \/ MainDue \/ callers[d].at = "listening")

(***************************************************************************)
(* As long as a coroutine waits for the bridge, someone holds the lock who *)
(* is not done, and who can go on, or waits for a process that can; unless *)
(* it listens to a process that was never asked.  This is what keeps the   *)
(* lock of _run, which has no timeout, from being held for ever; that what *)
(* can go on does, the run cofhe_bridge adds.                              *)
(***************************************************************************)
THEOREM OnlyListenersHoldTheLock == BridgeSpec => []LockGoesOn
<1>1. ASSUME LockInv PROVE LockGoesOn
  <2>1. SUFFICES ASSUME NEW c \in Callers, Waits(c)
                 PROVE  \E d \in Callers :
                            Turn(d) /\ (RunDue(d) \/ MainDue \/ callers[d].at = "listening")
    BY DEF LockGoesOn
  <2>2. waiting \in Seq(Callers) /\ waiting # <<>> /\ 1 \in 1..Len(waiting)
    <3>1. PICK i \in 1..Len(waiting) : waiting[i] = c
      BY <1>1, <2>1 DEF LockInv, QueueInStep
    <3>2. waiting \in Seq(Callers)
      BY <1>1 DEF LockInv, BridgeInv, BridgeTypeOK
    <3> QED
      BY <3>1, <3>2
  <2>3. PICK d \in Callers : d = waiting[1]
    BY <2>2
  <2>4. Turn(d) /\ Waits(d)
    BY <1>1, <2>2, <2>3 DEF LockInv, QueueInStep, Turn
  <2>5. RunDue(d) \/ MainDue \/ callers[d].at = "listening"
    <3>1. CASE callers[d].at = "reading" /\ process = "running" /\ stdout = <<>>
      <4>1. stdin # <<>> \/ working # NoCommand
        BY <1>1, <3>1 DEF LockInv, Served, Reading, LineUnderWay
      <4> QED
        BY <1>1, <3>1, <4>1 DEF LockInv, StageInStep, MainDue
    <3> QED
      BY <2>4, <3>1 DEF RunDue, Reads, Waits
  <2> QED
    BY <2>4, <2>5
<1>2. LockInv /\ [BridgeNext]_bridgeVars => LockInv'
  BY TypeStep, StepInStep, StepLock DEF LockInv, BridgeInv
<1>3. LockInv => LockGoesOn
  BY <1>1
<1> QED
  BY <1>2, <1>3, InitLock, PTL DEF BridgeSpec

=============================================================================
