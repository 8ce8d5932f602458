-------------------------- MODULE InferenceClient --------------------------
(***************************************************************************)
(* The inference pages of the frontend together: the chat and the risk     *)
(* form of InferenceNewPage, the history, and the page of a request.       *)
(*                                                                         *)
(* One of them is mounted at a time, and with it the hooks it uses; the    *)
(* handlers of a page that is left, the history and the services go on.    *)
(* A risk request that was submitted takes the browser to its page,        *)
(* wherever the user is by then.                                           *)
(*                                                                         *)
(* Bounds are a set of sessions, to one of which a behaviour keeps: the    *)
(* entries and the jobs it may have, how many GETs are under way at a      *)
(* time, whether the user ever leaves the chat or changes the payment, and *)
(* the values of the auto-decryption setting.                              *)
(***************************************************************************)
EXTENDS ChatSession, RequestPage, RiskRequest, FiniteSets

CONSTANT Sessions    \* of records: messages, requests, polls, pages, auto

ASSUME SessionAssumption ==
    Sessions \subseteq [messages : SUBSET Messages, requests : SUBSET Requests, polls : Nat,
                        pages : BOOLEAN, auto : SUBSET BOOLEAN]

VARIABLE session     \* the bounds of this behaviour

vars == <<hookVars, ready, chatVars, pageVars, riskVars, session>>

ClientTypeOK ==
    HookTypeOK /\ ChatTypeOK /\ PageTypeOK /\ RiskTypeOK /\ session \in Sessions

Init ==
    /\ HookInit /\ ChatInit /\ PageInit /\ RiskInit
    /\ session \in Sessions /\ auto \in session.auto

-----------------------------------------------------------------------------
(***************************************************************************)
(* The request that is watched, whichever the page.                        *)
(***************************************************************************)
\* What the services say of it: the payment service is asked first.
StageOf(r) ==
    IF r \in Requests THEN mapJobToDemoStatus(jobs[r].status) ELSE deriveStage(risks[r])

Others == <<ready, chatVars, pageVars, riskVars, session>>

PollRequest ==
    /\ Cardinality(polls) < session.polls
    /\ Poll
    /\ UNCHANGED Others

ServePoll == \E p \in polls : Serve(p, StageOf(p.of)) /\ UNCHANGED Others

FailPoll == \E p \in polls : LosePoll(p) /\ UNCHANGED Others

ReceivePoll ==
    \E p \in polls :
        \/ ReceiveJob(p) /\ UNCHANGED <<pageVars, riskVars, session>>
        \/ ReceiveStatus(p) /\ UNCHANGED <<chatVars, riskVars, session>>

-----------------------------------------------------------------------------
(***************************************************************************)
(* From page to page.                                                      *)
(***************************************************************************)
\* The links of HistoryPage.
Remembered ==
    ({history[m].request : m \in DOMAIN history} \cup {r \in RiskRequests : risks[r].known})
        \ {NoRequest}

\* No history page is open while one of the other two is.
OpenFromHistory ==
    /\ ~shown /\ ~open
    /\ \E r \in Remembered : OpenPage(r)
    /\ UNCHANGED <<ready, chatVars, riskVars, session>>

OpenDisputeForm ==
    /\ OpenDispute(requestId \in RiskRequests)
    /\ UNCHANGED <<chatVars, riskVars, session>>

BeginRisk ==
    /\ shown /\ ready /\ session.pages
    /\ StartRisk
    /\ UNCHANGED <<hookVars, ready, chatVars, pageVars, session>>

\* The answer to the submission: the history, and navigate.
SubmitRisk ==
    /\ \E r \in RiskRequests : CreateRisk(r) /\ OpenPage(r)
    /\ IF shown THEN ready' = FALSE /\ Unmount ELSE UNCHANGED <<ready, chatVars>>
    /\ UNCHANGED session

ContinueRisk ==
    /\ \/ EncryptFeatures \/ StoreInputs \/ ShareInputs \/ RefuseRisk
       \/ \E r \in RiskRequests : RiskProgress(r)
    /\ UNCHANGED <<hookVars, ready, chatVars, pageVars, session>>

\* The chat, within the bounds of the session.
Chat ==
    /\ ChatStep
    /\ DOMAIN history' \subseteq session.messages
    /\ \A r \in Requests \ session.requests : jobs'[r] = NoJob
    /\ session.pages \/ (shown' /\ UNCHANGED paymentMode)
    /\ UNCHANGED <<pageVars, riskVars, session>>

Next ==
    \/ PollRequest \/ ServePoll \/ FailPoll \/ ReceivePoll
    \/ Chat
    \/ PageStep /\ UNCHANGED <<chatVars, riskVars, session>>
    \/ OpenFromHistory \/ OpenDisputeForm
    \/ BeginRisk \/ ContinueRisk \/ SubmitRisk

Spec == Init /\ [][Next]_vars

\* The interval of the hook keeps on asking, and not every GET is lost; a
\* decryption ends, with an answer or with an error.
EndDecryption ==
    \/ EndEffect /\ UNCHANGED <<chatVars, riskVars, session>>
    \/ \E d \in decrypts : EndDecrypt(d) /\ UNCHANGED <<pageVars, riskVars, session>>

FairSpec ==
    /\ Spec
    /\ WF_vars(PollRequest) /\ SF_vars(ServePoll) /\ SF_vars(ReceivePoll)
    /\ WF_vars(EndDecryption)

-----------------------------------------------------------------------------
(***************************************************************************)
(* Properties.                                                             *)
(***************************************************************************)
\* A job was submitted after its key was stored for the nodes, and it is paid
\* as was set when the user pressed send: from an escrow of its own task that
\* is funded, or from the credits.  No task has two jobs.  A risk request reads
\* inputs that belong to the account that sends it, and permits every node.
JobsAreCovered ==
  /\ \A r \in RiskRequests : risks[r].known =>
        risks[r].owner = "account" /\ risks[r].permits = risks[r].verifiers + 1
  /\ \A r \in Requests : jobs[r] # NoJob =>
        /\ jobs[r].task \in keys
        /\ jobs[r].mode = "escrow" <=> jobs[r].escrow
        /\ jobs[r].escrow => escrows[jobs[r].task] = "funded"
        /\ \A q \in Requests \ {r} : jobs[q].task # jobs[r].task

\* An entry that has settled on the page has settled alike in the history,
\* unless auto-decryption took it over: that updates no entry of the history.
HistoryRemembers ==
    \A m \in Messages :
        (messages[m].status \in Settled /\ messages[m].request \notin decryptedIds)
            => history[m].status = messages[m].status

\* Whatever the page, the stage it shows is one of the request it names, and
\* "accepted" is shown of no request that the services have not accepted.
\* The trace of the chat ends when an answer is shown in the entry it traces.
AcceptedBy(r) ==
    IF r \in Requests THEN jobs[r].status = "COMPLETED"
    ELSE risks[r].status \in {"accepted", "disputed"}

TraceTruthful ==
    /\ status # NoStatus => status.of = requestId
    /\ status.stage = "ACCEPTED" => AcceptedBy(requestId)
    /\ (shown /\ stepStatus("onchain") = "done") => AcceptedBy(requestId)
    /\ (shown /\ stepStatus("decrypt") = "done") =>
            \E m \in Messages : messages[m].request = requestId /\ messages[m].content # NoRequest

\* An entry that has settled does not wait again, and an answer that is shown
\* stays, until the page is left.  Left out is the answer of the job before it,
\* which the second entry of a chat is given when it is sent.
OnlyItsOwn(m) ==
    /\ messages[m].content = messages[m].request
    /\ messages[m].output = messages[m].request
    /\ \A d \in decrypts : d.by \in {m, messages[m].request} => d.output = messages[m].request

SettledStays ==
    [][shown' => \A m \in Messages :
            /\ messages[m].status \in Settled => messages'[m].status \in Settled
            /\ (messages[m].content # NoRequest /\ OnlyItsOwn(m))
                    => messages'[m].content = messages[m].content]_vars

\* The entry whose request the chat watches settles once its job has ended,
\* unless the chat turns to the next job first: then nobody asks any more.
EventuallyAnswered ==
    \A m \in Messages :
        (/\ shown /\ requestId # NoRequest /\ messages[m].request = requestId
         /\ jobs[requestId].status # "RUNNING")
            ~> (~shown \/ requestId # messages[m].request \/ messages[m].status \in Settled)

\* The page of a text request that is completed shows its answer, or why
\* there is none, while the wallet is connected, however it came and went.
EventuallyRevealed ==
    (/\ open /\ ready /\ requestId \in Requests
     /\ jobs[requestId].status = "COMPLETED")
        ~> (~open \/ ~ready \/ requestId \notin Requests \/ answer \/ answerError)
=============================================================================
