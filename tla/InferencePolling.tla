-------------------------- MODULE InferencePolling --------------------------
(***************************************************************************)
(* The hook useInferenceStatus of the frontend: a component names a        *)
(* request, the hook asks for it at once and every three seconds, and the  *)
(* component is rendered again with what the answers say.  Beside it, what *)
(* the hook useCofheClient tells the same component.                       *)
(*                                                                         *)
(* An answer is the state of the request when the service handled the GET. *)
(* GETs are not numbered: they come back in any order or not at all, and   *)
(* the last one to arrive wins.  Two of them for the same request that saw *)
(* the same say the same, so a set of them is enough.  The flag mounted of *)
(* the source, which a new request id clears for the GETs of the old one,  *)
(* is the comparison of the GET's id with requestId.                       *)
(***************************************************************************)
EXTENDS Naturals

CONSTANTS
    Requests,        \* the ids of jobs of the payment service, all text,
    RiskRequests,    \* and of risk requests of the coordination layer
    NoRequest        \* the empty id

ASSUME RequestAssumption ==
    Requests \cap RiskRequests = {} /\ NoRequest \notin Requests \cup RiskRequests

VARIABLES
    requestId,       \* the id the component passes
    status,          \* what it gets: a stage, and whose stage it is
    polls,           \* the GETs under way
    ready            \* the client of useCofheClient is there, and ready

hookVars == <<requestId, status, polls>>

Stages == {"QUEUED", "ASSIGNED", "EXECUTING", "VERIFYING", "ACCEPTED", "REJECTED",
           "DISPUTED", "FAILED"}

Ids == Requests \cup RiskRequests
NoStatus == [of |-> NoRequest, stage |-> "null"]

HookTypeOK ==
    /\ requestId \in Ids \cup {NoRequest}
    /\ status \in {NoStatus} \cup [of : Ids, stage : Stages]
    /\ polls \subseteq [of : Ids, saw : Stages \cup {"nothing"}]
    /\ ready \in BOOLEAN

HookInit ==
    /\ requestId = NoRequest
    /\ status = NoStatus
    /\ polls = {}
    /\ ready = FALSE

-----------------------------------------------------------------------------
(***************************************************************************)
(* The answers of the two services, as stages.                             *)
(***************************************************************************)
mapJobToDemoStatus(job) ==
    CASE job = "COMPLETED" -> "ACCEPTED"
      [] job \in {"FAILED", "REFUNDED"} -> "REJECTED"
      [] job = "PENDING_PAYMENT" -> "QUEUED"
      [] OTHER -> "EXECUTING"

\* A risk request: its status, and how far its quorum has got.
deriveStage(r) ==
    CASE r.failed -> "FAILED"
      [] r.status = "accepted" -> "ACCEPTED"
      [] r.status = "rejected" -> "REJECTED"
      [] r.status = "disputed" -> "DISPUTED"
      [] r.led /\ r.verdicts < r.verifiers -> "VERIFYING"
      [] r.permits >= r.verifiers + 1 -> "EXECUTING"
      [] OTHER -> "ASSIGNED"

-----------------------------------------------------------------------------
(***************************************************************************)
(* The steps of the hook.                                                  *)
(***************************************************************************)
Asking(r) == [of |-> r, saw |-> "nothing"]

\* Faulty variant: asks until something is known, and no more.
PollOnce ==
    /\ requestId # NoRequest /\ status = NoStatus
    /\ polls' = polls \cup {Asking(requestId)}
    /\ UNCHANGED <<requestId, status>>

Poll ==
    /\ requestId # NoRequest
    /\ polls' = polls \cup {Asking(requestId)}
    /\ UNCHANGED <<requestId, status>>

\* The service handles a GET.
Serve(p, stage) ==
    /\ p \in polls /\ p.saw = "nothing"
    /\ polls' = (polls \ {p}) \cup {[p EXCEPT !.saw = stage]}
    /\ UNCHANGED <<requestId, status>>

\* Faulty variant: an answer counts for whatever request is watched now.
AnyAnswerCounts(p) == requestId # NoRequest

Counts(p) == p.of = requestId

\* The answer arrives.
Receive(p) ==
    /\ p \in polls /\ p.saw # "nothing"
    /\ status' = IF Counts(p) THEN [of |-> p.of, stage |-> p.saw] ELSE status
    /\ polls' = polls \ {p}
    /\ UNCHANGED requestId

\* The GET, or its answer, is lost; the error is logged.
LosePoll(p) ==
    /\ p \in polls
    /\ polls' = polls \ {p}
    /\ UNCHANGED <<requestId, status>>

\* The component passes another id.
Watch(r) ==
    /\ requestId' = r
    /\ status' = NoStatus
    /\ UNCHANGED polls

\* The component is unmounted: nobody waits for its GETs any more.
Unwatch ==
    /\ requestId' = NoRequest
    /\ status' = NoStatus
    /\ polls' = {}
    /\ ready' = FALSE

=============================================================================
