---------------------------- MODULE RequestPage ----------------------------
(***************************************************************************)
(* InferenceStatusPage: the page of one request.  It watches the request   *)
(* with the hook useInferenceStatus and decrypts the answer by itself once *)
(* the request is accepted; when that fails the user may try again.        *)
(*                                                                         *)
(* The effect that decrypts is run again whenever the stage or the client  *)
(* changes, and cancels the run before: a cancelled run changes nothing    *)
(* more.  The handler of the button is never cancelled.                    *)
(***************************************************************************)
EXTENDS InferencePolling

VARIABLES
    open,          \* is the page mounted?
    answer,        \* textAnswer is set
    answerError,   \* textAnswerError is set
    busy,          \* isDecryptingAnswer
    decrypted,     \* decrypted
    effect,        \* is a run of the effect decrypting that is not cancelled?
    manual,        \* is handleManualDecrypt decrypting?
    feedback,      \* feedbackSubmitted
    dispute        \* isDisputeOpen

answerVars == <<answer, answerError, busy, decrypted, effect, manual>>
pageVars == <<open, answerVars, feedback, dispute>>

PageTypeOK ==
    /\ open \in BOOLEAN
    /\ <<answer, answerError, busy>> \in BOOLEAN \X BOOLEAN \X BOOLEAN
    /\ <<decrypted, effect, manual>> \in BOOLEAN \X BOOLEAN \X BOOLEAN
    /\ feedback \in BOOLEAN /\ dispute \in BOOLEAN

PageInit ==
    /\ open = FALSE
    /\ answer = FALSE /\ answerError = FALSE
    /\ busy = FALSE /\ decrypted = FALSE
    /\ effect = FALSE /\ manual = FALSE
    /\ feedback = FALSE /\ dispute = FALSE

-----------------------------------------------------------------------------
(***************************************************************************)
(* The effect, for the status st and the client c of the commit: it is     *)
(* there only when the stage or the client has changed.                    *)
(***************************************************************************)
TextAccepted(st) == st.stage = "ACCEPTED" /\ st.of \in Requests

\* Faulty variant: the client cancels the effect and does not start it.
DecryptAnswerByStage(st, c) ==
    /\ effect' = (TextAccepted(st) /\ c /\ st # status)
    /\ busy' = (busy \/ effect')
    /\ answer' = (answer /\ TextAccepted(st))
    /\ answerError' = (answerError /\ TextAccepted(st) /\ ~c)
    /\ decrypted' = (decrypted /\ TextAccepted(st))
    /\ UNCHANGED manual

DecryptAnswer(st, c) ==
    /\ effect' = (TextAccepted(st) /\ c)
    /\ busy' = (busy \/ effect')
    /\ answer' = (answer /\ TextAccepted(st))
    /\ answerError' = (answerError /\ TextAccepted(st) /\ ~c)
    /\ decrypted' = (decrypted /\ TextAccepted(st))
    /\ UNCHANGED manual

Decrypted ==
    \/ answer' = TRUE /\ decrypted' = TRUE /\ UNCHANGED answerError
    \/ answerError' = TRUE /\ UNCHANGED <<answer, decrypted>>

EndEffect ==
    /\ effect
    /\ effect' = FALSE /\ busy' = FALSE
    /\ Decrypted
    /\ UNCHANGED <<hookVars, ready, open, manual, feedback, dispute>>

-----------------------------------------------------------------------------
(***************************************************************************)
(* What the page shows: the result panel.                                  *)
(***************************************************************************)
Panel ==
    CASE status = NoStatus -> "loading"
      [] TextAccepted(status) /\ ~decrypted -> "sealed"
      [] TextAccepted(status) /\ busy -> "decrypting"
      [] TextAccepted(status) /\ answerError -> "error"
      [] TextAccepted(status) -> "answer"
      [] status.stage = "ACCEPTED" -> "score"
      [] status.stage = "FAILED" -> "failed"
      [] status.stage = "REJECTED" -> "rejected"
      [] OTHER -> "working"

\* The button of the sealed panel; the modal repeats it.
OffersDecrypt == Panel = "sealed" /\ ~busy

\* handleManualDecrypt leaves the error of an earlier attempt where it is.
ManualDecrypt ==
    /\ open /\ ready
    /\ OffersDecrypt
    /\ manual' = TRUE /\ busy' = TRUE
    /\ UNCHANGED <<hookVars, ready, open, answer, answerError, decrypted, effect,
                   feedback, dispute>>

EndManual ==
    /\ manual
    /\ manual' = FALSE
    /\ busy' = FALSE
    /\ Decrypted
    /\ UNCHANGED <<hookVars, ready, open, effect, feedback, dispute>>

-----------------------------------------------------------------------------
(***************************************************************************)
(* Feedback and disputes.  A POST that fails may be sent again; while it   *)
(* is under way its button is disabled and no more, so it is one step.     *)
(***************************************************************************)
SendFeedback ==
    /\ open
    /\ \/ answer /\ ~answerError /\ ~feedback
       \/ Panel = "rejected"
    /\ feedback' \in {feedback, TRUE}
    /\ UNCHANGED <<hookVars, ready, open, answerVars, dispute>>

\* The button is there for an accepted request that is covered.
OpenDispute(covered) ==
    /\ open /\ ~dispute
    /\ status.stage = "ACCEPTED" /\ covered
    /\ dispute' = TRUE
    /\ UNCHANGED <<hookVars, ready, open, answerVars, feedback>>

\* The form is closed when the dispute is filed, or by the user; a refusal
\* leaves it open.
CloseDispute ==
    /\ dispute
    /\ dispute' = FALSE
    /\ UNCHANGED <<hookVars, ready, open, answerVars, feedback>>

-----------------------------------------------------------------------------
(***************************************************************************)
(* The client of the page, and the page itself.                            *)
(***************************************************************************)
ToggleClient ==
    /\ open
    /\ ready' = ~ready
    /\ DecryptAnswer(status, ready')
    /\ UNCHANGED <<hookVars, open, feedback, dispute>>

ReceiveStatus(p) ==
    /\ open
    /\ Receive(p)
    /\ IF status' # status THEN DecryptAnswer(status', ready) ELSE UNCHANGED answerVars
    /\ UNCHANGED <<ready, open, feedback, dispute>>

\* The page is mounted, or shown for another request.
OpenPage(r) ==
    /\ requestId # r
    /\ open' = TRUE
    /\ Watch(r)
    /\ DecryptAnswer(NoStatus, ready)
    /\ UNCHANGED <<feedback, dispute>>

\* It is unmounted.  A decryption under way ends unseen.
ClosePage ==
    /\ open
    /\ open' = FALSE
    /\ Unwatch
    /\ answer' = FALSE /\ answerError' = FALSE /\ busy' = FALSE /\ decrypted' = FALSE
    /\ effect' = FALSE /\ manual' = FALSE
    /\ feedback' = FALSE /\ dispute' = FALSE

PageStep ==
    \/ EndEffect \/ ManualDecrypt \/ EndManual \/ ToggleClient \/ ClosePage
    \/ SendFeedback \/ CloseDispute

=============================================================================
