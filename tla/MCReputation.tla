---------------------------- MODULE MCReputation ----------------------------
(***************************************************************************)
(* Small instances of Reputation for TLC.                                  *)
(***************************************************************************)
EXTENDS Reputation, TLC

Disagreement == CHOOSE d \in Outputs \X Outputs : d[1] # d[2]

\* Escalated invocations: the executor has disclosed one output, and the
\* cross-verifier another one, or nothing.
EscalatedInit ==
    /\ outcome = [i \in Invocations |-> "escalated"]
    /\ party \in [Invocations -> Court!Execution!Assignments]
    /\ answer = [i \in Invocations |-> [r \in Court!Execution!Roles |->
            IF r = "EXECUTOR" THEN Disagreement[1] ELSE Disagreement[2]]]
    /\ disclosed \in [Invocations -> {{"EXECUTOR"}, Court!Execution!Roles}]
    /\ Court!CourtInit
    /\ RegistryInit

EscalatedSpec == EscalatedInit /\ [][Next]_vars

=============================================================================
