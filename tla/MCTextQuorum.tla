---------------------------- MODULE MCTextQuorum ----------------------------
(***************************************************************************)
(* A small instance of TextQuorum for TLC.                                 *)
(***************************************************************************)
EXTENDS TextQuorum

CONSTANTS l, v1, v2

\* A leader that is started again beside two verifiers of either kind; claims
\* that expire; a verifier that is started again after it gave up; the table
\* as the repository's schema creates it.
RetryExpireLose ==
    {[verifiers |-> {v1, v2}, retrying |-> {l}, polling |-> {v1}, expiring |-> {}, column |-> TRUE],
     [verifiers |-> {v1}, retrying |-> {}, polling |-> {l, v1}, expiring |-> {l, v1},
      column |-> TRUE],
     [verifiers |-> {v1}, retrying |-> {l, v1}, polling |-> {}, expiring |-> {}, column |-> TRUE],
     [verifiers |-> {v1, v2}, retrying |-> {}, polling |-> {}, expiring |-> {}, column |-> FALSE]}

=============================================================================
