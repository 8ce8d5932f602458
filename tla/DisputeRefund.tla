---------------------------- MODULE DisputeRefund ----------------------------
(***************************************************************************)
(* Disputes of one insured job, and the refunds that uphold them:          *)
(* dispute_inference_request of the coordination layer, which calls        *)
(* refund_credits of the payment service.                                  *)
(*                                                                         *)
(* Each call of the endpoint is a sequence of steps: it reads the status   *)
(* of the request, awaits a transaction, writes the verdict, and has the   *)
(* credits refunded.  Any two calls may overlap.  The job is covered, has  *)
(* a price in its metadata, and the window of 72 hours is open.            *)
(***************************************************************************)
EXTENDS Naturals, FiniteSetsExt

CONSTANT MaxDisputes     \* bound on the calls

ASSUME DisputeAssumption == MaxDisputes \in Nat

VARIABLES
    disputes,        \* the calls: their place, whether they bring evidence,
                     \* and how often the account was credited for them
    disputed         \* the status of the request, as far as the calls read it

disputeVars == <<disputes, disputed>>

Disputes == 1 .. MaxDisputes

Unfiled == [at |-> "unfiled", evidence |-> FALSE, refunded |-> 0]

DisputeTypeOK ==
    /\ disputes \in [Disputes -> [at : {"unfiled", "checked", "refunding", "ended"},
                                  evidence : BOOLEAN, refunded : 0 .. 1]]
    /\ disputed \in {"no", "disputed", "disputed_resolved"}

DisputeInit ==
    /\ disputes = [c \in Disputes |-> Unfiled]
    /\ disputed = "no"

\* "Request already disputed": only a dispute that was rejected is one.
FileDispute(c, evidence) ==
    /\ disputes[c].at = "unfiled"
    /\ disputed # "disputed"
    /\ disputes' = [disputes EXCEPT ![c].at = "checked", ![c].evidence = evidence]
    /\ UNCHANGED disputed

\* The transaction has been mined, or has failed, which is only logged.
WriteVerdict(c) ==
    /\ disputes[c].at = "checked"
    /\ disputed' = IF disputes[c].evidence THEN "disputed_resolved" ELSE "disputed"
    /\ disputes' = [disputes EXCEPT ![c].at = IF disputes[c].evidence
                                              THEN "refunding" ELSE "ended"]

\* The update fails (its columns are not those of supabase_schema.sql), or the
\* refund does not reach the payment service, which is only logged.
BreakDispute(c) ==
    /\ disputes[c].at \in {"checked", "refunding"}
    /\ disputes' = [disputes EXCEPT ![c].at = "ended"]
    /\ UNCHANGED disputed

\* refund_credits, whether or not its caller still waits for the reply.
RefundCredits(c) ==
    /\ disputes[c].at = "refunding"
    /\ disputes' = [disputes EXCEPT ![c].at = "ended", ![c].refunded = @ + 1]
    /\ UNCHANGED disputed

Refunds == MapThenSumSet(LAMBDA c : disputes[c].refunded, Disputes)

=============================================================================
