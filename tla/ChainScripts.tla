---------------------------- MODULE ChainScripts ----------------------------
(***************************************************************************)
(* The TypeScript programs that do with the Reineira SDK what the services *)
(* cannot do from Python.  A service starts one as a process, an operator  *)
(* by hand; it sends a few transactions one after the other, and its       *)
(* standard output and exit code are all that is ever learnt of it.        *)
(*                                                                         *)
(* A transaction that fails may have been mined nevertheless.  Nothing is  *)
(* undone, nothing is tried again.  The process does not know whether      *)
(* anybody still waits for it, and goes on when nobody does.               *)
(***************************************************************************)
EXTENDS Naturals, Sequences

CONSTANT Runs        \* the processes

VARIABLE runs        \* what each runs, how much was mined, what it has said

-----------------------------------------------------------------------------
(***************************************************************************)
(* The transactions of each program.                                       *)
(***************************************************************************)
\* create_escrow.ts of the payment service, with the wallet of the ICL.
CreateEscrowScript == <<"create", "fund">>

\* create_escrow.ts of the end-to-end test, for a job the test has made.
LinkEscrowScript == <<"create", "fund">>

\* Through an escrow of one's own; the second program has it redeemed by the
\* wallet of the ICL.
WrapScript == <<"create", "fund", "redeem">>
FundWalletScript == <<"create", "fund", "redeem">>

TransferScript == <<"transfer">>

CreatePoolScript == <<"createPool", "addPolicy">>

PurchaseInsuranceScript == <<"purchaseCoverage">>

FileDisputeScript == <<"dispute">>

Transactions ==
    [create_escrow |-> CreateEscrowScript, link_escrow |-> LinkEscrowScript,
     wrap_usdc |-> WrapScript, fund_icl_wallet |-> FundWalletScript,
     transfer_cusdc |-> TransferScript, create_insurance_pool |-> CreatePoolScript,
     purchase_insurance |-> PurchaseInsuranceScript, file_dispute |-> FileDisputeScript]

\* These answer an error of the transaction as if it had been a success: with
\* the id of a coverage that does not exist, and with "true".
Pretenders == {"purchase_insurance", "file_dispute"}

-----------------------------------------------------------------------------
NotRun == [program |-> "none", mined |-> 0, says |-> "nothing"]

ScriptTypeOK ==
    \A r \in Runs :
        /\ runs[r].program \in DOMAIN Transactions \cup {"none"}
        /\ runs[r].mined \in 0 .. 3
        /\ runs[r].says \in {"nothing", "success", "failure"}

ScriptInit == runs = [r \in Runs |-> NotRun]

Launch(r, program) ==
    /\ runs[r] = NotRun
    /\ runs' = [runs EXCEPT ![r].program = program]

Running(r) == runs[r].program # "none" /\ runs[r].says = "nothing"

Sent(r) == Len(Transactions[runs[r].program])

\* Faulty variant: the result is printed once there is something to print.
SaysAtOnce(r, mined) == "success"

SaysAfter(r, mined) == IF mined = Sent(r) THEN "success" ELSE "nothing"

\* The next transaction is mined, and its receipt has come back.
Transact(r) ==
    /\ Running(r)
    /\ LET mined == runs[r].mined + 1
       IN  runs' = [runs EXCEPT ![r].mined = mined, ![r].says = SaysAfter(r, mined)]

\* An await fails, that of the next transaction or one before it.
Break(r) ==
    /\ Running(r)
    /\ \E mined \in {runs[r].mined, runs[r].mined + 1} :
          runs' = [runs EXCEPT ![r].mined = mined,
                       ![r].says = IF runs[r].program \in Pretenders THEN "success" ELSE "failure"]

\* All that the program is for is on the chain.
Accomplished(r) == runs[r].program # "none" /\ runs[r].mined = Sent(r)

=============================================================================
