-------------------------- MODULE MCInferenceClient --------------------------
(***************************************************************************)
(* The inference pages, for TLC.                                           *)
(***************************************************************************)
EXTENDS InferenceClient

CONSTANTS r1, r2, k, m1, m2, none

\* One entry and a risk request, across the pages, with GETs that overtake
\* each other; one entry that the user decrypts; two entries that follow each
\* other in the chat.
Cases ==
    {[messages |-> {m1}, requests |-> {r1}, polls |-> 2, pages |-> TRUE, auto |-> {TRUE}],
     [messages |-> {m1}, requests |-> {r1}, polls |-> 2, pages |-> FALSE, auto |-> {FALSE}],
     [messages |-> {m1, m2}, requests |-> {r1, r2}, polls |-> 1, pages |-> FALSE, auto |-> {TRUE}]}
=============================================================================
