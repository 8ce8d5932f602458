---------------------------- MODULE ChatSession ----------------------------
(***************************************************************************)
(* The chat of InferenceNewPage: handleChatSubmit with the hook            *)
(* useCreateEscrow and the key store, the hook useChat with its four       *)
(* effects on the watched request, and the entries in the history of the   *)
(* browser.                                                                *)
(*                                                                         *)
(* A handler runs from one await to the next without interruption.  React  *)
(* renders, and runs the effects whose dependencies have changed, before   *)
(* anything else happens; the effects of that commit all see the values    *)
(* rendered, also those an earlier effect has just replaced.               *)
(*                                                                         *)
(* The payment service is external: a job runs and ends once.              *)
(*                                                                         *)
(* Bounds: the page is visited once; when it is left, what was started     *)
(* goes on, for the history.  Auto-decryption is set on another page, so   *)
(* it does not change.  A second click on an entry that is being decrypted *)
(* starts nothing new.  The wallet is not disconnected while the handler   *)
(* runs, which has its own client.                                         *)
(***************************************************************************)
EXTENDS InferencePolling

CONSTANTS Messages      \* the assistant's entries of the chat

ASSUME MessageAssumption == Messages \cap (Requests \cup {NoRequest}) = {}

VARIABLES
    shown,         \* is the page mounted?
    place,         \* where handleChatSubmit is; "idle": it is not running
    current,       \* its closure: the message, the payment mode, the preview
    paymentMode,   \* "credits" or "escrow", as the user has set it
    auto,          \* localStorage: blindference_auto_decrypt
    messages,      \* per message: status, requestId, outputCID, content
    history,       \* localStorage: per entry its status and requestId
    decrypts,      \* decryptions under way
    decryptedIds,  \* requests that auto-decryption was started for
    escrows,       \* Reineira: per task, whether its escrow was created, funded
    keys,          \* PromptKeyStore: the tasks whose key is stored for nodes
    jobs           \* payment service: per request, its job or NoJob

handlerVars == <<place, current>>
userVars == <<shown, paymentMode, auto>>
chainVars == <<escrows, keys>>
viewVars == <<messages, history, decrypts, decryptedIds>>
chatVars == <<handlerVars, userVars, chainVars, viewVars, jobs>>

NoMessage == NoRequest
NoHandler == [message |-> NoMessage, mode |-> "credits", previewed |-> FALSE]
NoJob == [task |-> NoMessage, mode |-> "credits", escrow |-> FALSE, status |-> "none"]
Waiting == {"encrypting", "processing", "escrow"}
Settled == {"ready", "done", "error"}
JobStatuses == {"RUNNING", "COMPLETED", "FAILED"}
Places == {"encrypt", "preview", "store", "upload", "create", "fund", "recheck", "submit"}

\* What a message, or a decryption, holds is known by the request it came from.
Entry == [status : Waiting \cup Settled \cup {"unsent"}, request : Requests \cup {NoRequest},
          output : Requests \cup {NoRequest}, content : Requests \cup {NoRequest}]
Unsent == [status |-> "unsent", request |-> NoRequest, output |-> NoRequest,
           content |-> NoRequest]
Record == [status : Waiting \cup Settled, request : Requests \cup {NoRequest}]

ChatTypeOK ==
    /\ shown \in BOOLEAN /\ auto \in BOOLEAN
    /\ place \in Places \cup {"idle"}
    /\ current \in [message : Messages \cup {NoMessage}, mode : {"credits", "escrow"},
                    previewed : BOOLEAN]
    /\ place # "idle" => current.message \in Messages
    /\ paymentMode \in {"credits", "escrow"}
    /\ messages \in [Messages -> Entry]
    /\ DOMAIN history \subseteq Messages /\ \A m \in DOMAIN history : history[m] \in Record
    /\ decrypts \subseteq [by : Requests \cup Messages, output : Requests]
    /\ decryptedIds \subseteq Requests
    /\ escrows \in [Messages -> {"none", "created", "funded"}]
    /\ keys \subseteq Messages
    /\ jobs \in [Requests -> [task : Messages \cup {NoMessage}, mode : {"credits", "escrow"},
                              escrow : BOOLEAN, status : JobStatuses \cup {"none"}]]

ChatInit ==
    /\ shown = TRUE /\ auto \in BOOLEAN
    /\ place = "idle"
    /\ current = NoHandler
    /\ paymentMode = "credits"
    /\ messages = [m \in Messages |-> Unsent]
    /\ history = [m \in {} |-> Unsent]
    /\ decrypts = {} /\ decryptedIds = {}
    /\ escrows = [m \in Messages |-> "none"]
    /\ keys = {}
    /\ jobs = [r \in Requests |-> NoJob]

-----------------------------------------------------------------------------
(***************************************************************************)
(* The entries on the page and in the history.                             *)
(***************************************************************************)
\* A setState on a page that is gone does nothing.
OnPage(new) == IF shown THEN new ELSE messages

updateHistoryEntry(h, id, s) ==
    IF id \in DOMAIN h THEN [h EXCEPT ![id].status = s] ELSE h

updateAssistantStatus(m, s) ==
    /\ messages' = OnPage([messages EXCEPT ![m].status = s])
    /\ UNCHANGED <<history, decrypts, decryptedIds>>

failAssistantMessage(m) ==
    /\ messages' = OnPage([messages EXCEPT ![m].status = "error"])
    /\ history' = updateHistoryEntry(history, m, "error")
    /\ UNCHANGED <<decrypts, decryptedIds>>

-----------------------------------------------------------------------------
(***************************************************************************)
(* The effects of useChat, for the status st of the request r.             *)
(***************************************************************************)
Decryptable == auto /\ ready

\* Faulty variant: a settled entry is not left alone.
AlwaysAffected(e, r) == e.request = r

Affected(e, r) == e.request = r /\ e.status \notin Settled

\* The first, second and fourth effect.
Updated(e, st) ==
    CASE st.stage \in {"QUEUED", "ASSIGNED", "EXECUTING"} -> [e EXCEPT !.status = "processing"]
      [] st.stage = "ACCEPTED" ->
            [e EXCEPT !.output = st.of, !.status = IF Decryptable THEN @ ELSE "ready"]
      [] st.stage \in {"REJECTED", "FAILED"} -> [e EXCEPT !.status = "error"]
      [] OTHER -> e

\* They write to the history what settles an entry.
Recorded(h, old, new) ==
    [m \in DOMAIN h |-> IF new[m].status # old[m].status /\ new[m].status \in {"ready", "error"}
                        THEN [h[m] EXCEPT !.status = new[m].status] ELSE h[m]]

\* The third effect.
AutoDecrypts(r, st) ==
    st.stage = "ACCEPTED" /\ Decryptable /\ r \notin decryptedIds

\* All four, on the entries ms and the history h.
Effects(r, st, ms, h) ==
    LET updated == [m \in Messages |-> IF Affected(ms[m], r) THEN Updated(ms[m], st) ELSE ms[m]]
    IN  /\ messages' = updated
        /\ history' = Recorded(h, ms, updated)
        /\ IF AutoDecrypts(r, st)
           THEN /\ decryptedIds' = decryptedIds \cup {r}
                /\ decrypts' = decrypts \cup {[by |-> r, output |-> st.of]}
           ELSE UNCHANGED <<decryptedIds, decrypts>>

-----------------------------------------------------------------------------
(***************************************************************************)
(* handleChatSubmit.                                                       *)
(***************************************************************************)
chatStage ==
    CASE place = "idle" -> "idle"
      [] place \in {"encrypt", "preview", "store"} -> "encrypting"
      [] place = "upload" -> "uploading"
      [] place \in {"create", "fund", "recheck"} -> "escrow"
      [] place = "submit" -> "submitting"

GoOn(p) == place' = p
Finish == place' = "idle" /\ current' = NoHandler
Fail == failAssistantMessage(current.message) /\ Finish

\* The send button and the key binding of the prompt.
CanSend == shown /\ ready /\ chatStage = "idle"

\* pushUserMessage, and the first stage of the handler.
Send(m) ==
    /\ CanSend
    /\ messages[m] = Unsent /\ m \notin DOMAIN history
    /\ GoOn("encrypt")
    /\ current' = [message |-> m, mode |-> paymentMode, previewed |-> FALSE]
    /\ messages' = [messages EXCEPT ![m].status = "encrypting"]
    /\ history' = [n \in DOMAIN history \cup {m} |->
            IF n = m THEN [status |-> "encrypting", request |-> NoRequest] ELSE history[n]]
    /\ UNCHANGED <<hookVars, ready, userVars, chainVars, decrypts, decryptedIds, jobs>>

\* encryptPromptKeyForTextRequest, with its one retry.
EncryptKey ==
    /\ place = "encrypt"
    /\ \/ GoOn("preview") /\ UNCHANGED <<current, viewVars>>
       \/ Fail
    /\ UNCHANGED <<hookVars, ready, userVars, chainVars, jobs>>

\* Without a preview the key is stored for the user alone.
PreviewQuorum ==
    /\ place = "preview"
    /\ GoOn("store")
    /\ \E ok \in BOOLEAN : current' = [current EXCEPT !.previewed = ok]
    /\ UNCHANGED <<hookVars, ready, userVars, chainVars, viewVars, jobs>>

\* storePromptKeyForTextRequest waits for the receipt; a transaction may be
\* executed and not be heard of.  The handler goes on only after a preview.
StoreKey ==
    /\ place = "store"
    /\ \/ /\ keys' = keys \cup {current.message}
          /\ IF current.previewed
             THEN /\ GoOn("upload") /\ UNCHANGED current
                  /\ updateAssistantStatus(current.message, "processing")
             ELSE Fail
       \/ Fail /\ keys' \in {keys, keys \cup {current.message}}
    /\ UNCHANGED <<hookVars, ready, userVars, escrows, jobs>>

\* uploadPromptBlob, or its timeout.
Upload ==
    /\ place = "upload"
    /\ \/ /\ current.mode = "escrow"
          /\ GoOn("create") /\ UNCHANGED current
          /\ updateAssistantStatus(current.message, "escrow")
       \/ current.mode = "credits" /\ GoOn("submit") /\ UNCHANGED <<current, viewVars>>
       \/ Fail
    /\ UNCHANGED <<hookVars, ready, userVars, chainVars, jobs>>

\* createEscrow of useCreateEscrow: two transactions, of which the same holds.
CreateEscrow ==
    /\ place = "create"
    /\ \/ /\ escrows' = [escrows EXCEPT ![current.message] = "created"]
          /\ GoOn("fund") /\ UNCHANGED <<current, viewVars>>
       \/ /\ \E s \in {"none", "created"} : escrows' = [escrows EXCEPT ![current.message] = s]
          /\ Fail
    /\ UNCHANGED <<hookVars, ready, userVars, keys, jobs>>

FundEscrow ==
    /\ place = "fund"
    /\ \/ /\ escrows' = [escrows EXCEPT ![current.message] = "funded"]
          /\ GoOn("recheck") /\ UNCHANGED <<current, viewVars>>
       \/ /\ \E s \in {"created", "funded"} : escrows' = [escrows EXCEPT ![current.message] = s]
          /\ Fail
    /\ UNCHANGED <<hookVars, ready, userVars, keys, jobs>>

RecheckQuorum ==
    /\ place = "recheck"
    /\ \/ GoOn("submit") /\ UNCHANGED <<current, viewVars>>
       \/ Fail
    /\ UNCHANGED <<hookVars, ready, userVars, chainVars, jobs>>

\* Faulty variant: the mode the user has set by now, not the one of the click.
PaysWithSetting == paymentMode

PaysWith == current.mode

NewJob == [task |-> current.message, mode |-> PaysWith,
           escrow |-> current.mode = "escrow", status |-> "RUNNING"]

\* The service has accepted job r and its answer has arrived.  The effects of
\* the commit that passes r to the hook still see the status of the old one.
Submitted(r) ==
    LET m == current.message
        ms == [messages EXCEPT ![m].status = "processing", ![m].request = r]
        h == [history EXCEPT ![m] = [status |-> "processing", request |-> r]]
    IN  IF shown
        THEN Watch(r) /\ Effects(r, status, ms, h)
        ELSE history' = h /\ UNCHANGED <<hookVars, messages, decrypts, decryptedIds>>

SubmitJob ==
    /\ place = "submit"
    /\ \/ \E r \in Requests :
            /\ jobs[r] = NoJob
            /\ jobs' = [jobs EXCEPT ![r] = NewJob]
            /\ \/ Submitted(r) /\ Finish
               \/ Fail /\ UNCHANGED hookVars          \* the answer is lost
       \/ Fail /\ UNCHANGED <<hookVars, jobs>>
    /\ UNCHANGED <<ready, userVars, chainVars>>

Handler ==
    \/ EncryptKey \/ PreviewQuorum \/ StoreKey \/ Upload
    \/ CreateEscrow \/ FundEscrow \/ RecheckQuorum \/ SubmitJob

-----------------------------------------------------------------------------
(***************************************************************************)
(* The watched request.                                                    *)
(***************************************************************************)
\* A refunded job, which the page cannot tell from a failed one, is one.
JobEnds(r) ==
    /\ jobs[r].status = "RUNNING"
    /\ \E s \in {"COMPLETED", "FAILED"} : jobs' = [jobs EXCEPT ![r].status = s]
    /\ UNCHANGED <<hookVars, ready, handlerVars, userVars, chainVars, viewVars>>

\* An answer arrives.  One that says nothing new runs no effect.
ReceiveJob(p) ==
    /\ shown
    /\ Receive(p)
    /\ IF status' # status THEN Effects(requestId, status', messages, history)
       ELSE UNCHANGED viewVars
    /\ UNCHANGED <<ready, handlerVars, userVars, chainVars, jobs>>

-----------------------------------------------------------------------------
(***************************************************************************)
(* The trace beside the chat: six steps, of which the first ones are done. *)
(***************************************************************************)
TraceSteps == {"encrypt", "icl", "leader", "quorum", "onchain", "decrypt"}

order == [encrypt |-> 0, icl |-> 1, leader |-> 2, quorum |-> 3, onchain |-> 4, decrypt |-> 5]

reached ==
    CASE status.stage = "QUEUED" -> 1
      [] status.stage = "ASSIGNED" -> 2
      [] status.stage \in {"EXECUTING", "REJECTED", "DISPUTED"} -> 3
      [] status.stage = "VERIFYING" -> 4
      [] status.stage = "ACCEPTED" -> 5
      [] OTHER -> 0

Revealed == \E m \in Messages : messages[m].request = requestId /\ messages[m].status = "done"

stepStatus(key) ==
    CASE requestId = NoRequest /\ key = "encrypt" ->
            IF chatStage = "encrypting" THEN "active"
            ELSE IF chatStage \in {"uploading", "submitting"} THEN "done" ELSE "pending"
      [] requestId = NoRequest /\ key = "icl" ->
            IF chatStage = "uploading" THEN "active"
            ELSE IF chatStage \in {"escrow", "submitting"} THEN "done" ELSE "pending"
      [] requestId = NoRequest -> "pending"
      [] key = "decrypt" /\ status.stage = "ACCEPTED" -> IF Revealed THEN "done" ELSE "active"
      [] key = "decrypt" -> "pending"
      [] OTHER -> IF order[key] < reached THEN "done"
                  ELSE IF order[key] = reached THEN "active" ELSE "pending"

-----------------------------------------------------------------------------
(***************************************************************************)
(* Decryption.  The answer of a request decrypted by the effect goes to    *)
(* the entries with that request; its history entry is looked up by the    *)
(* request id, which is no entry's id.                                     *)
(***************************************************************************)
\* What ChatView offers for an entry.
OffersDecryption(m) == messages[m].status = "ready"

\* decryptMessage.
Decrypt(m) ==
    /\ shown /\ ready
    /\ OffersDecryption(m)
    /\ decrypts' = decrypts \cup {[by |-> m, output |-> messages[m].output]}
    /\ UNCHANGED <<hookVars, ready, handlerVars, userVars, chainVars, messages, history,
                   decryptedIds, jobs>>

\* Faulty variant: the history of a manual decryption goes by the request, too.
HistoryIdByRequest(d) == IF d.by \in Messages THEN messages[d.by].request ELSE d.by

HistoryId(d) == d.by

EndDecrypt(d) ==
    /\ d \in decrypts
    /\ decrypts' = decrypts \ {d}
    /\ \E s \in {"done", "error"} :
        /\ messages' = OnPage([m \in Messages |->
                IF d.by \notin {m, messages[m].request} THEN messages[m]
                ELSE [messages[m] EXCEPT !.status = s,
                                         !.content = IF s = "done" THEN d.output ELSE @]])
        /\ history' = updateHistoryEntry(history, HistoryId(d), s)
    /\ UNCHANGED <<hookVars, ready, handlerVars, userVars, chainVars, decryptedIds, jobs>>

-----------------------------------------------------------------------------
(***************************************************************************)
(* The user: the wallet, the payment mode, the page.                       *)
(***************************************************************************)
\* A client that becomes ready runs the third effect again.
Connect ==
    /\ shown /\ ~ready
    /\ ready' = TRUE
    /\ IF status.stage = "ACCEPTED" /\ auto /\ requestId \notin decryptedIds
       THEN /\ decryptedIds' = decryptedIds \cup {requestId}
            /\ decrypts' = decrypts \cup {[by |-> requestId, output |-> status.of]}
       ELSE UNCHANGED <<decryptedIds, decrypts>>
    /\ UNCHANGED <<hookVars, handlerVars, userVars, chainVars, messages, history, jobs>>

Disconnect ==
    /\ shown /\ ready /\ place = "idle"
    /\ ready' = FALSE
    /\ UNCHANGED <<hookVars, handlerVars, userVars, chainVars, viewVars, jobs>>

TogglePayment ==
    /\ shown
    /\ paymentMode' = IF paymentMode = "credits" THEN "escrow" ELSE "credits"
    /\ UNCHANGED <<hookVars, ready, handlerVars, shown, auto, chainVars, viewVars, jobs>>

\* The page is unmounted, and forgets its entries.
Unmount ==
    /\ shown' = FALSE
    /\ messages' = [m \in Messages |-> Unsent]
    /\ decryptedIds' = {} /\ paymentMode' = "credits"
    /\ UNCHANGED <<handlerVars, auto, chainVars, history, decrypts, jobs>>

Leave == shown /\ Unmount /\ Unwatch

ChatStep ==
    \/ Handler \/ Connect \/ Disconnect \/ TogglePayment \/ Leave
    \/ \E m \in Messages : Send(m) \/ Decrypt(m)
    \/ \E d \in decrypts : EndDecrypt(d)
    \/ \E r \in Requests : JobEnds(r)

=============================================================================
