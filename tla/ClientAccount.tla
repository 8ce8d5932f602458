--------------------------- MODULE ClientAccount ---------------------------
(***************************************************************************)
(* The account of a user and the components of the frontend that add to    *)
(* it and show it: BuyCreditsPage, the balance in the header of the        *)
(* inference page with its DepositModal, WalletPage and CreateEscrowPage;  *)
(* beside them the agent SDK, which buys with the same wallet and spends   *)
(* what was bought, and the programs of ChainScripts that are run by hand, *)
(* some of them with the same wallet, and the disputes that add to the     *)
(* account without a transfer.                                             *)
(*                                                                         *)
(* What is spent is JobSettlement's: here an account only grows.  The desk *)
(* shares no state with the transfers, and the balance on display none     *)
(* with the handlers.  Bounds are a set of cases, one of which a behaviour *)
(* keeps to: how many transfers it sends, whether it uses the desk, which  *)
(* calls order an inference with which program, from nodes with which      *)
(* length of vector, which program is run by hand, whether somebody looks  *)
(* at the balance, whether the user disputes, and which components are     *)
(* configured to pay a wallet other than the one the service looks for.    *)
(***************************************************************************)
EXTENDS CreditPurchase, DisputeRefund, BalanceStream, TokenDesk, AgentSdk

\* Those a person or a test starts.  Nothing in the repository starts
\* file_dispute, which is meant for the coordination layer.
ByHand == {"link_escrow", "wrap_usdc", "fund_icl_wallet", "transfer_cusdc",
           "create_insurance_pool", "file_dispute"}

CONSTANT Bounds      \* of records, see BoundAssumption

ASSUME BoundAssumption ==
    Bounds \subseteq
        [transfers : 0 .. MaxTransfers, desk : BOOLEAN,
         agent : SUBSET (Calls \X Programs), nodeIv : Nat,
         byHand : SUBSET ByHand, observed : BOOLEAN,
         disputing : BOOLEAN, astray : SUBSET Routes]

VARIABLES
    runs,            \* the program that is run by hand
    screen,          \* the page that is mounted
    bound            \* the case of this behaviour

accountVars == <<purchaseVars, disputeVars, streamVars, deskVars, agentVars, runs, screen, bound>>

Chain == INSTANCE ChainScripts WITH Runs <- {"operator"}

Screens == {"away", "buy", "inference", "wallet", "escrow"}

AccountTypeOK == PurchaseTypeOK /\ DisputeTypeOK /\ StreamTypeOK /\ DeskTypeOK /\ AgentTypeOK
                 /\ Chain!ScriptTypeOK
                 /\ screen \in Screens /\ bound \in Bounds

AccountInit ==
    /\ PurchaseInit /\ DisputeInit /\ StreamInit /\ DeskInit /\ AgentInit
    /\ Chain!ScriptInit /\ screen = "away" /\ bound \in Bounds

-----------------------------------------------------------------------------
(***************************************************************************)
(* The pages.                                                              *)
(***************************************************************************)
\* These use useCredits.
ShowsCredits == screen \in {"buy", "inference", "wallet"}

LeaveScreen ==
    /\ screen # "away"
    /\ screen' = "away"
    /\ CloseStream(Balance + Refunds = 0)
    /\ CASE screen = "buy" -> LeavePage
         [] screen = "inference" -> LeaveModal
         [] OTHER -> UNCHANGED purchaseVars
    /\ IF screen \in {"buy", "escrow"} THEN LeaveDesk ELSE UNCHANGED deskVars

Visit(p) ==
    /\ screen = "away"
    /\ screen' = p
    /\ UNCHANGED <<purchaseVars, streamVars, deskVars>>

MayBuy == Cardinality({t \in Transfers : transfers[t].at # "unsent"}) < bound.transfers

\* The wallet a component is configured to pay.
Pays(route) == IF route \in bound.astray THEN "other" ELSE LooksFor(route)

UsePage ==
    /\ screen = "buy"
    /\ \/ ReadAllowance \/ StartApprove \/ \E ok \in BOOLEAN : EndApprove(ok)
       \/ MayBuy /\ \E p \in Packages : handlePurchase(p, Pays("page"))
    /\ UNCHANGED <<streamVars, deskVars, screen>>

UseModal ==
    /\ screen = "inference"
    /\ ToggleModal \/ (MayBuy /\ handleDeposit(Pays("modal")))
    /\ UNCHANGED <<streamVars, deskVars, screen>>

UseAgent ==
    /\ MayBuy
    /\ AgentPurchase(Pays("agent")) \/ AgentDeposit(Pays("send"))
    /\ UNCHANGED <<streamVars, deskVars, screen>>

UseDesk ==
    /\ bound.desk
    /\ \/ screen = "buy" /\ (Drip \/ Wrap)
       \/ screen = "escrow" /\ handleCreate
    /\ UNCHANGED <<purchaseVars, streamVars, screen>>

DeskGoesOn == DeskStep /\ UNCHANGED <<purchaseVars, streamVars, screen>>

TransferGoesOn ==
    /\ TransferStep
    /\ IF Balance' = Balance THEN UNCHANGED streamVars ELSE Age
    /\ UNCHANGED <<deskVars, screen>>

\* refresh() of the page, onSuccess of the modal.
Purchased(t) ==
    /\ Granted(t)
    /\ IF transfers[t].watched = "no" \/ ~bound.observed THEN Age ELSE AgeAndRefresh
    /\ UNCHANGED <<deskVars, screen>>

-----------------------------------------------------------------------------
(***************************************************************************)
(* The balance.                                                            *)
(***************************************************************************)
AllButBalance == <<purchaseVars, disputeVars, deskVars, agentVars, runs, screen, bound>>

Listen == ShowsCredits /\ bound.observed /\ OpenStream /\ UNCHANGED AllButBalance

PushBalance == Push /\ UNCHANGED AllButBalance

Lose == Drop /\ UNCHANGED AllButBalance

AskBalance ==
    /\ screen = "wallet" /\ bound.observed /\ get = "none"
    /\ Refresh
    /\ UNCHANGED AllButBalance

AnswerBalance == (ServeGet \/ ReceiveGet \/ FailGet) /\ UNCHANGED AllButBalance

PersonStep ==
    /\ \/ LeaveScreen \/ \E p \in Screens : Visit(p)
       \/ UsePage \/ UseModal \/ UseAgent \/ UseDesk
       \/ DeskGoesOn \/ TransferGoesOn \/ \E t \in Transfers : Purchased(t)
       \/ Listen \/ PushBalance \/ Lose \/ AskBalance \/ AnswerBalance
    /\ UNCHANGED <<disputeVars, agentVars, runs, bound>>

\* The user's disputes, as the two services handle them.
DisputeStep ==
    /\ bound.disputing
    /\ \E c \in Disputes :
        \/ /\ \/ \E evidence \in BOOLEAN : FileDispute(c, evidence)
              \/ WriteVerdict(c) \/ BreakDispute(c)
           /\ UNCHANGED streamVars
        \/ RefundCredits(c) /\ Age
    /\ UNCHANGED <<purchaseVars, deskVars, agentVars, runs, screen, bound>>

\* An operator, or the end-to-end test.
RunByHand ==
    /\ \/ \E program \in bound.byHand : Chain!Launch("operator", program)
       \/ Chain!Transact("operator") \/ Chain!Break("operator")
    /\ UNCHANGED <<purchaseVars, disputeVars, streamVars, deskVars, agentVars, screen, bound>>

Server == <<purchaseVars, disputeVars, streamVars, deskVars, runs, screen, bound>>

AgentGoesOn(c) == CallStep(c, bound.nodeIv) /\ UNCHANGED Server

AccountNext ==
    \/ PersonStep \/ DisputeStep \/ RunByHand
    \/ AgentStep(bound.agent, bound.nodeIv) /\ UNCHANGED Server

AccountSpec == AccountInit /\ [][AccountNext]_accountVars

\* The browser connects again when the connection is lost, and the loop of
\* the service comes round while it lasts; what a call of the SDK awaits
\* comes, or fails.
FairAccountSpec ==
    /\ AccountSpec
    /\ WF_accountVars(Listen) /\ SF_accountVars(PushBalance)
    /\ \A c \in Calls : WF_accountVars(AgentGoesOn(c))

-----------------------------------------------------------------------------
(***************************************************************************)
(* Properties.                                                             *)
(***************************************************************************)
\* An account is credited for a transfer only if that was mined and pays the
\* wallet the service looks for, whatever wallet the component that sent it is
\* configured with, and twice for one only when an attempt of the modal to
\* tell the service of it went unanswered.  Without a transfer it is credited
\* for a dispute that brought evidence, once each.
CreditsArePaidFor ==
    /\ \A t \in Transfers : transfers[t].credited > 0 =>
        /\ transfers[t].chain = "mined"
        /\ transfers[t].to = LooksFor(transfers[t].route)
        /\ transfers[t].credited + transfers[t].late <= transfers[t].attempt
        /\ transfers[t].route # "modal" => transfers[t].credited = 1
    /\ \A c \in Disputes : disputes[c].refunded > 0 =>
        disputes[c].evidence /\ disputes[c].refunded = 1

\* What the user is told has happened.  A purchase that is reported, by the
\* page, by the modal or by the SDK, is credited.  A step of a wrap that is
\* shown as done is done on the chain, and at most one more is.  The status a
\* call of the SDK returns is the one the job of its task has ended with.  A
\* program that says success has done all it is for, but for file_dispute,
\* which says "true" of everything.
TruthfulMessages ==
    /\ page.success.kind = "purchase" => transfers[page.success.of].credited > 0
    /\ \A t \in Transfers :
          transfers[t].at \in {"closing", "done"} /\ transfers[t].route # "send"
              => transfers[t].credited > 0
    /\ steps # Pending => Cardinality(Done) \in {escrow - 1, escrow}
    /\ runs["operator"].says = "success" /\ runs["operator"].program # "file_dispute"
          => Chain!Accomplished("operator")
    /\ notices["drip"] = "success" => faucet # "never"
    /\ notices["wrap"] = "success" => escrow = 3
    /\ \A c \in Calls :
          calls[c].says \notin {"nothing", "error"} => calls[c].says = orders[c].status

\* A call makes one job at most, and none before the key of its prompt is on
\* the chain, however the calls beside it fare; the script that names the
\* nodes of its job has admitted these very nodes, and the wizard orders
\* nothing unless it has admitted the nodes it was shown.  The demonstration
\* stores no key.
OneSealedJob ==
    \A c \in Calls : orders[c].made > 0 =>
        /\ orders[c].made = 1
        /\ calls[c].kind # "demo" => readers[c] # "none"
        /\ calls[c].kind \in {"direct", "wizard"} => readers[c] = "quorum"

\* What is credited is shown, on whatever page shows the balance, however
\* often the connection of the stream is lost.
CreditsAreShown ==
    (ShowsCredits /\ bound.observed /\ stream # "current")
        ~> (~ShowsCredits \/ credits = "current")

\* Every call of the SDK returns or throws, whether its job ends or not.
EveryCallEnds ==
    \A c \in Calls : ~At(c, "idle") ~> At(c, "ended")
=============================================================================
