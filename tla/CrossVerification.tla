------------------------- MODULE CrossVerification -------------------------
(***************************************************************************)
(* The promise of a cross-verified inference, without the means by which   *)
(* contracts/core/ExecutionCommitmentRegistry.sol keeps it: no digests, no *)
(* salts, no clock, no partial statuses.  It is also what the registries   *)
(* that judge an invocation afterwards see of it.                          *)
(*                                                                         *)
(* An invocation is opened for different nodes in the two roles.  Each     *)
(* binds itself to one answer before it can see the other's.  Once both    *)
(* are bound the answers are disclosed, and the last disclosure decides:   *)
(* equal answers verify, different ones escalate.  Until then the          *)
(* invocation may be given up, which also escalates it.                    *)
(***************************************************************************)
CONSTANTS
    Invocations,
    Nodes,
    Outputs,
    ZeroAddress,   \* no node
    Unbound,       \* no answer yet
    Unopenable     \* bound to something that is no output

Roles == {"EXECUTOR", "CROSS_VERIFIER"}

VARIABLES
    outcome,       \* "none", "open", "verified" or "escalated"
    party,         \* the node in each role
    answer,        \* what the node in each role is bound to
    disclosed      \* the roles whose answer is public

evars == <<outcome, party, answer, disclosed>>

Init ==
    /\ outcome = [i \in Invocations |-> "none"]
    /\ party = [i \in Invocations |-> [r \in Roles |-> ZeroAddress]]
    /\ answer = [i \in Invocations |-> [r \in Roles |-> Unbound]]
    /\ disclosed = [i \in Invocations |-> {}]

Assignments == {p \in [Roles -> Nodes] : p["EXECUTOR"] # p["CROSS_VERIFIER"]}

Open(i, p) ==
    /\ outcome[i] = "none"
    /\ outcome' = [outcome EXCEPT ![i] = "open"]
    /\ party' = [party EXCEPT ![i] = p]
    /\ UNCHANGED <<answer, disclosed>>

Bind(i, r, a) ==
    /\ outcome[i] = "open"
    /\ disclosed[i] = {}
    /\ answer[i][r] = Unbound
    /\ answer' = [answer EXCEPT ![i][r] = a]
    /\ UNCHANGED <<outcome, party, disclosed>>

\* The outcome once the roles in shown have disclosed their answers.
Verdict(i, shown) ==
    IF shown # Roles THEN "open"
    ELSE IF answer[i]["EXECUTOR"] = answer[i]["CROSS_VERIFIER"] THEN "verified"
    ELSE "escalated"

Disclose(i, r) ==
    /\ outcome[i] = "open"
    /\ \A q \in Roles : answer[i][q] # Unbound
    /\ r \notin disclosed[i]
    /\ answer[i][r] \in Outputs
    /\ disclosed' = [disclosed EXCEPT ![i] = @ \cup {r}]
    /\ outcome' = [outcome EXCEPT ![i] = Verdict(i, disclosed'[i])]
    /\ UNCHANGED <<party, answer>>

GiveUp(i) ==
    /\ outcome[i] = "open"
    /\ outcome' = [outcome EXCEPT ![i] = "escalated"]
    /\ UNCHANGED <<party, answer, disclosed>>

Next == \E i \in Invocations :
    \/ \E p \in Assignments : Open(i, p)
    \/ \E r \in Roles, a \in Outputs \cup {Unopenable} : Bind(i, r, a)
    \/ \E r \in Roles : Disclose(i, r)
    \/ GiveUp(i)

Spec == Init /\ [][Next]_evars

=============================================================================
