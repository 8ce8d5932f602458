------------------------------ MODULE AgentSdk ------------------------------
(***************************************************************************)
(* The programs that order an inference beside the inference page:         *)
(*   infer    BlindferenceAgent.infer of the agent SDK, which its REST     *)
(*            server and its command line call;                            *)
(*   submit   submitEncryptedInference of its smaller client;              *)
(*   gateway  smoke-gateway-flow.mjs, through the payment service;         *)
(*   direct   smoke_text_flow.mjs of the node, through the coordination    *)
(*            layer, and demo, smoke-text-flow.mjs, which stores no key;   *)
(*   wizard   handleSubmit of TextInferenceWizard, a component that no     *)
(*            page shows, up to the page that follows the job.             *)
(*                                                                         *)
(* The calls of one agent run beside each other and share its CoFHE        *)
(* client; a script has one of its own.  A call is one sequence of awaits; *)
(* each of them may fail, and then the call fails: nothing is tried again  *)
(* and nothing is undone.  A call has a task of its own, so that both have *)
(* the same name.  What the services do with a job is left open, but for   *)
(* this: nobody completes a job whose prompt its nodes cannot open.        *)
(***************************************************************************)
EXTENDS Naturals, Sequences, Envelope

CONSTANTS
    Calls,           \* the calls, and their tasks
    MaxAttempts      \* how often a call asks for its job (60 or 100)

ASSUME AttemptAssumption == MaxAttempts \in Nat

VARIABLES
    cofhe,           \* the CoFHE client of the agent
    calls,           \* how far each call has got, and what it said
    readers,         \* whom the key on the chain admits, for each task
    orders           \* the job of each task, and how many were made

agentVars == <<cofhe, calls, readers, orders>>

\* The awaits of each program, in their order.
InferSteps == <<"connect", "upload", "encrypt", "store", "preview", "submit", "poll", "output">>

SubmitSteps == <<"preview", "submit", "poll">>

GatewaySteps ==
    <<"connect", "upload", "encrypt", "preview", "store", "submit", "poll", "lookup", "output">>

DirectSteps == <<"connect", "upload", "encrypt", "preview", "store", "submit", "poll", "output">>

DemoSteps == <<"connect", "upload", "encrypt", "submit", "poll", "output">>

\* It stores the key first, so that the user sees a transaction even if there
\* are no nodes.
WizardSteps == <<"encrypt", "preview", "store", "upload", "submit">>

Steps == [infer |-> InferSteps, submit |-> SubmitSteps, gateway |-> GatewaySteps,
          direct |-> DirectSteps, demo |-> DemoSteps, wizard |-> WizardSteps]

Programs == DOMAIN Steps
Scripts == {"gateway", "direct", "demo"}

\* These choose the readers of the key after the preview, and these need none.
Choosers == Scripts \cup {"wizard"}
Stubborn == {"gateway", "wizard"}

\* The vector of each program; the caller of submit has sealed by itself.
IvOf == [infer |-> SdkIv, gateway |-> GatewayIv, direct |-> DirectIv, demo |-> DemoIv,
         wizard |-> WizardIv]

\* How a job ends: the payment service says "REFUNDED" of one it gave the
\* credits back for; the coordination layer has words of its own.
Success(k) == IF k \in {"direct", "demo"} THEN "ACCEPTED" ELSE "COMPLETED"

FinalStatus(k) ==
    CASE k \in {"infer", "gateway", "wizard"} -> {"COMPLETED", "FAILED", "REFUNDED"}
      [] k = "submit" -> {"COMPLETED", "FAILED", "REJECTED"}
      [] OTHER -> {"ACCEPTED", "REJECTED", "TIMEDOUT", "DISPUTED"}

NotCalled == [kind |-> "none", at |-> "idle", polls |-> 0, says |-> "nothing", admits |-> "self"]
NoOrder == [made |-> 0, status |-> "none"]

AgentTypeOK ==
    /\ cofhe \in {"none", "unconnected", "connected"}
    /\ \A c \in Calls :
          /\ calls[c].kind \in Programs \cup {"none"}
          /\ calls[c].at \in {"idle", "connect", "upload", "encrypt", "store", "preview",
                              "submit", "poll", "lookup", "output", "ended"}
          /\ calls[c].polls \in 0 .. MaxAttempts
          /\ calls[c].says \in {"nothing", "error"} \cup UNION {FinalStatus(k) : k \in Programs}
          /\ calls[c].admits \in {"self", "quorum"}
    /\ readers \in [Calls -> {"none", "self", "quorum"}]
    /\ \A c \in Calls :
          /\ orders[c].made \in Nat
          /\ orders[c].status \in {"none", "RUNNING"} \cup UNION {FinalStatus(k) : k \in Programs}

AgentInit ==
    /\ cofhe = "none"
    /\ calls = [c \in Calls |-> NotCalled]
    /\ readers = [c \in Calls |-> "none"]
    /\ orders = [c \in Calls |-> NoOrder]

-----------------------------------------------------------------------------
(***************************************************************************)
(* A call goes on, or ends.                                                *)
(***************************************************************************)
At(c, place) == calls[c].at = place

\* The await that comes after the one call c is at.
After(c) ==
    LET steps == Steps[calls[c].kind]
        i == CHOOSE n \in 1 .. Len(steps) : steps[n] = calls[c].at
    IN  IF i = Len(steps) THEN "ended" ELSE steps[i + 1]

Proceed(c) == calls' = [calls EXCEPT ![c].at = After(c)]

End(c, says) == calls' = [calls EXCEPT ![c].at = "ended", ![c].says = says]

Throw(c) == End(c, "error")

\* initCofhe: the client is there from the first call on, connected or not.
StartInfer(c) ==
    /\ At(c, "idle")
    /\ cofhe' = IF cofhe = "none" THEN "unconnected" ELSE cofhe
    /\ calls' = [calls EXCEPT ![c].kind = "infer",
                              ![c].at = IF cofhe = "none" THEN "connect" ELSE "upload"]
    /\ UNCHANGED <<readers, orders>>

\* A script, a process of its own; the wizard, once its client is connected.
StartScript(c, k) ==
    /\ At(c, "idle")
    /\ calls' = [calls EXCEPT ![c].kind = k, ![c].at = Steps[k][1]]
    /\ UNCHANGED <<cofhe, readers, orders>>

\* submitEncryptedInference: its caller has stored the key, for whom it chose.
StartSubmit(c) ==
    /\ At(c, "idle")
    /\ calls' = [calls EXCEPT ![c].kind = "submit", ![c].at = "preview"]
    /\ \E who \in {"self", "quorum"} : readers' = [readers EXCEPT ![c] = who]
    /\ UNCHANGED <<cofhe, orders>>

Start(c, k) ==
    CASE k = "infer" -> StartInfer(c)
      [] k = "submit" -> StartSubmit(c)
      [] OTHER -> StartScript(c, k)

ConnectCofhe(c) ==
    /\ At(c, "connect")
    /\ \/ Proceed(c) /\ cofhe' = IF calls[c].kind = "infer" THEN "connected" ELSE cofhe
       \/ Throw(c) /\ UNCHANGED cofhe
    /\ UNCHANGED <<readers, orders>>

\* To the coordination layer, or by the script itself to IPFS.
UploadPrompt(c) ==
    /\ At(c, "upload") /\ calls[c].kind # "wizard"
    /\ Proceed(c) \/ Throw(c)
    /\ UNCHANGED <<cofhe, readers, orders>>

\* The wizard waits 30 s.  Without nodes it ends here, its key stored and its
\* prompt uploaded.
uploadToICL(c) ==
    /\ At(c, "upload") /\ calls[c].kind = "wizard"
    /\ (calls[c].admits = "quorum" /\ Proceed(c)) \/ Throw(c)
    /\ UNCHANGED <<cofhe, readers, orders>>

\* The two halves of the key.  A client that is not connected encrypts nothing.
\* The wizard tries once more after an error of the network, and gives up
\* after 120 s.
encryptInputs(c) ==
    /\ At(c, "encrypt")
    /\ \/ (calls[c].kind = "infer" => cofhe = "connected") /\ Proceed(c)
       \/ Throw(c)
    /\ UNCHANGED <<cofhe, readers, orders>>

\* The nodes the job will go to.  The gateway script and the wizard do without
\* them: they keep to their own wallet, the one infer always names.
QuorumPreview(c) ==
    /\ At(c, "preview")
    /\ \/ calls' = [calls EXCEPT ![c].at = After(c),
                                 ![c].admits = IF calls[c].kind \in Choosers THEN "quorum" ELSE @]
       \/ IF calls[c].kind \in Stubborn THEN Proceed(c) ELSE Throw(c)
    /\ UNCHANGED <<cofhe, readers, orders>>

AdmitReaders(c) == readers' = [readers EXCEPT ![c] = calls[c].admits]

\* Faulty variant: the receipt is waited for and not looked at.
storeAnyReceipt(c) ==
    /\ At(c, "store")
    /\ Proceed(c) \/ Throw(c)
    /\ AdmitReaders(c) \/ UNCHANGED readers
    /\ UNCHANGED <<cofhe, orders>>

\* A receipt that says success, or an error; the transaction may be mined
\* although it was given up.
storePromptKey(c) ==
    /\ At(c, "store")
    /\ \/ Proceed(c) /\ AdmitReaders(c)
       \/ Throw(c) /\ (AdmitReaders(c) \/ UNCHANGED readers)
    /\ UNCHANGED <<cofhe, orders>>

\* The service makes the job or refuses; its answer arrives or is lost.
Submit(c) ==
    /\ At(c, "submit")
    /\ \/ /\ orders' = [orders EXCEPT ![c] = [made |-> @.made + 1, status |-> "RUNNING"]]
          /\ Proceed(c) \/ Throw(c)
       \/ Throw(c) /\ UNCHANGED orders
    /\ UNCHANGED <<cofhe, readers>>

-----------------------------------------------------------------------------
(***************************************************************************)
(* The job, and the polling for it.                                        *)
(***************************************************************************)
\* nodeIv is the length of vector the nodes use, NodeIv in this repository.
OrderEnds(c, nodeIv) ==
    /\ orders[c].status = "RUNNING"
    /\ \E s \in FinalStatus(calls[c].kind) :
          /\ s = Success(calls[c].kind) /\ calls[c].kind # "submit"
                => CanOpen(nodeIv, IvOf[calls[c].kind])
          /\ orders' = [orders EXCEPT ![c].status = s]
    /\ UNCHANGED <<cofhe, calls, readers>>

\* Faulty variant: the count of the attempts starts again.
AsksForever(c) ==
    calls' = [calls EXCEPT ![c].polls = IF @ = MaxAttempts THEN 0 ELSE @ + 1]

AsksAgain(c) ==
    IF calls[c].polls < MaxAttempts
    THEN calls' = [calls EXCEPT ![c].polls = @ + 1]
    ELSE Throw(c)

\* What a program does with a job that has ended: the SDK returns its status,
\* unless there is an output to fetch; a script goes on or throws.
Ended(c, status) ==
    CASE status = Success(calls[c].kind) /\ calls[c].kind # "submit" -> Proceed(c)
      [] calls[c].kind \in Scripts -> Throw(c)
      [] OTHER -> End(c, status)

\* One round, three seconds after the last; a GET that fails ends the call,
\* and so does the deadline of a script.
PollOrder(c) ==
    /\ At(c, "poll")
    /\ \/ Throw(c)
       \/ orders[c].status = "RUNNING" /\ AsksAgain(c)
       \/ orders[c].status \in FinalStatus(calls[c].kind) /\ Ended(c, orders[c].status)
    /\ UNCHANGED <<cofhe, readers, orders>>

\* The gateway script asks the coordination layer for the handles of the
\* output key, which the payment service does not send.
LookUpOutput(c) ==
    /\ At(c, "lookup")
    /\ Proceed(c) \/ Throw(c)
    /\ UNCHANGED <<cofhe, readers, orders>>

\* A script decrypts the handles it was given, downloads and opens the output.
\* _decryptOutputKey of the SDK reads the key stored for the task, which is
\* the one of the prompt.  The node has encrypted the output with a fresh key
\* and stored that under an id of its own: nothing can be decrypted.
DecryptOutput(c, nodeIv) ==
    /\ At(c, "output")
    /\ \/ /\ calls[c].kind \in Scripts
          /\ CanOpen(IvOf[calls[c].kind], nodeIv)
          /\ End(c, orders[c].status)
       \/ Throw(c)
    /\ UNCHANGED <<cofhe, readers, orders>>

CallStep(c, nodeIv) ==
    \/ ConnectCofhe(c) \/ UploadPrompt(c) \/ uploadToICL(c) \/ encryptInputs(c) \/ storePromptKey(c)
    \/ QuorumPreview(c) \/ Submit(c) \/ PollOrder(c) \/ LookUpOutput(c)
    \/ DecryptOutput(c, nodeIv)

AgentStep(started, nodeIv) ==
    \/ \E s \in started : Start(s[1], s[2])
    \/ \E c \in Calls : CallStep(c, nodeIv) \/ OrderEnds(c, nodeIv)

=============================================================================
