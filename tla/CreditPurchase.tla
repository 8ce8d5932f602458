--------------------------- MODULE CreditPurchase ---------------------------
(***************************************************************************)
(* Credits for BLIND: the packages of BuyCreditsPage, the deposits of      *)
(* DepositModal, the two purchases of the agent SDK, and the handlers of   *)
(* the payment service that credit an account for a transfer.              *)
(*                                                                         *)
(* Each of the four sends a transfer to a wallet of the network, waits,    *)
(* and then tells the service of it.  They differ in the wallet, in what   *)
(* they wait for and in what they do when the service does not answer; the *)
(* service keeps no record of the transfers it has credited.  Each of the  *)
(* four has the wallet it pays from its own configuration, or written into *)
(* its code, and the service has its own.  A handler                       *)
(* goes on after its component is gone: what it shows is then seen by      *)
(* nobody.  The text of an error is left out.                              *)
(***************************************************************************)
EXTENDS Naturals, FiniteSets, FiniteSetsExt

CONSTANTS
    Packages,        \* what can be bought
    NoPackage,
    MaxTransfers,    \* bound on the transfers sent
    NotifyAttempts   \* how often DepositModal tells the service (5)

ASSUME PackageAssumption == NoPackage \notin Packages
ASSUME TransferAssumption == MaxTransfers \in Nat /\ NotifyAttempts \in Nat \ {0}

VARIABLES
    transfers,       \* the transfers, and the handler behind each
    page,            \* what BuyCreditsPage shows of its purchases
    modal,           \* the status of DepositModal, or "closed"
    allowance        \* of the payment wallet: on the chain, and as read

purchaseVars == <<transfers, page, modal, allowance>>

Transfers == 1 .. MaxTransfers
Routes == {"page", "modal", "agent", "send"}
Wallets == {"payment", "icl", "other"}

NoTransfer == [route |-> "none", to |-> "other", package |-> NoPackage,
               at |-> "unsent", chain |-> "none",
               attempt |-> 0, late |-> 0, credited |-> 0, watched |-> "no"]

NoNotice == [kind |-> "none", of |-> 0]
FreshPage == [purchasing |-> NoPackage, approving |-> FALSE, success |-> NoNotice]

PurchaseTypeOK ==
    /\ transfers \in [Transfers ->
          [route : Routes \cup {"none"}, to : Wallets, package : Packages \cup {NoPackage},
           at : {"unsent", "signing", "waiting", "notifying", "closing", "done", "failed"},
           chain : {"none", "pending", "mined", "reverted"},
           attempt : 0 .. NotifyAttempts, late : 0 .. NotifyAttempts,
           credited : 0 .. NotifyAttempts, watched : {"no", "parent", "yes"}]]
    /\ page \in [purchasing : Packages \cup {NoPackage}, approving : BOOLEAN,
             success : [kind : {"none", "approval", "purchase"}, of : 0 .. MaxTransfers]]
    /\ modal \in {"closed", "idle", "sending", "confirming", "done", "error"}
    /\ allowance \in [chain : BOOLEAN, read : {"unknown", "low", "enough"}]

PurchaseInit ==
    /\ transfers = [t \in Transfers |-> NoTransfer]
    /\ page = FreshPage
    /\ modal = "closed"
    /\ allowance = [chain |-> FALSE, read |-> "unknown"]

-----------------------------------------------------------------------------
(***************************************************************************)
(* The transfers on the chain, and the service.                            *)
(***************************************************************************)
\* The wallet that the endpoint a route notifies looks for: that of the
\* coordination layer for a deposit, the service's own for a package.
LooksFor(route) == IF route = "modal" THEN "icl" ELSE "payment"

Mine(t) ==
    /\ transfers[t].chain = "pending"
    /\ \E c \in {"mined", "reverted"} : transfers' = [transfers EXCEPT ![t].chain = c]
    /\ UNCHANGED <<page, modal, allowance>>

\* Faulty variant: whatever wallet it pays.
AnyWallet(d) == d.chain = "mined"

\* process_deposit and purchase_credit_package: the receipt is there, it is a
\* success, and it pays the wallet.  The amount is the one of the package.
Creditable(d) == d.chain = "mined" /\ d.to = LooksFor(d.route)

Credited(d) == IF Creditable(d) THEN [d EXCEPT !.credited = @ + 1] ELSE d

\* A notification that nobody waits for any more reaches the service.
ServeLate(t) ==
    /\ transfers[t].late > 0
    /\ transfers' = [transfers EXCEPT ![t] = Credited([transfers[t] EXCEPT !.late = @ - 1])]
    /\ UNCHANGED <<page, modal, allowance>>

Balance == MapThenSumSet(LAMBDA t : transfers[t].credited, Transfers)

-----------------------------------------------------------------------------
(***************************************************************************)
(* What a handler shows, if its component is still there.                  *)
(***************************************************************************)
ShowPage(d, shown) ==
    page' = IF d.route = "page" /\ d.watched = "yes" THEN shown ELSE page

ShowModal(d, shown) ==
    modal' = IF d.route = "modal" /\ d.watched = "yes" THEN shown ELSE modal

\* The catch clauses; the finally clause clears purchasing, whoever set it.
PurchaseFails(t, d) ==
    /\ transfers' = [transfers EXCEPT ![t] = [d EXCEPT !.at = "failed"]]
    /\ ShowPage(d, [page EXCEPT !.purchasing = NoPackage])
    /\ ShowModal(d, "error")
    /\ UNCHANGED allowance

Succeed(t, d) ==
    /\ transfers' = [transfers EXCEPT
          ![t] = [d EXCEPT !.at = IF d.route = "modal" THEN "closing" ELSE "done"]]
    /\ ShowPage(d, [page EXCEPT !.success = [kind |-> "purchase", of |-> t],
                                !.purchasing = NoPackage])
    /\ ShowModal(d, "done")
    /\ UNCHANGED allowance

\* Faulty variant: when the attempts are used up, the deposit counts as made.
TryAgainThenDone(t, d) ==
    IF d.route = "modal" /\ d.attempt < NotifyAttempts
    THEN /\ transfers' = [transfers EXCEPT ![t] = [d EXCEPT !.attempt = @ + 1]]
         /\ UNCHANGED <<page, modal, allowance>>
    ELSE IF d.route = "modal" THEN Succeed(t, d) ELSE PurchaseFails(t, d)

\* Only the modal asks again; every other notification is made once.
TryAgain(t, d) ==
    IF d.route = "modal" /\ d.attempt < NotifyAttempts
    THEN /\ transfers' = [transfers EXCEPT ![t] = [d EXCEPT !.attempt = @ + 1]]
         /\ UNCHANGED <<page, modal, allowance>>
    ELSE PurchaseFails(t, d)

-----------------------------------------------------------------------------
(***************************************************************************)
(* The handlers, from the click to the last await.                         *)
(***************************************************************************)
\* Transfers are numbered as they are begun.
Begin(route, p, to) ==
    \E t \in Transfers :
        /\ transfers[t].at = "unsent" /\ \A u \in 1 .. t - 1 : transfers[u].at # "unsent"
        /\ transfers' = [transfers EXCEPT ![t] =
              [NoTransfer EXCEPT !.route = route, !.to = to, !.package = p, !.at = "signing",
                                 !.watched = IF route \in {"page", "modal"} THEN "yes" ELSE "no"]]
        /\ UNCHANGED allowance

\* The button of a package: only its own purchase disables it.
CanBuy(p) == page.purchasing # p /\ allowance.read # "low"

handlePurchase(p, to) ==
    /\ CanBuy(p)
    /\ Begin("page", p, to)
    /\ page' = [page EXCEPT !.purchasing = p, !.success = NoNotice]
    /\ UNCHANGED modal

handleDeposit(to) ==
    /\ modal \in {"idle", "done", "error"}
    /\ Begin("modal", NoPackage, to)
    /\ modal' = "sending"
    /\ UNCHANGED page

\* purchasePackage and deposit of the SDK.
AgentPurchase(to) ==
    /\ \E p \in Packages : Begin("agent", p, to)
    /\ UNCHANGED <<page, modal>>

AgentDeposit(to) ==
    /\ Begin("send", NoPackage, to)
    /\ UNCHANGED <<page, modal>>

Sign(t) ==
    /\ transfers[t].at = "signing"
    /\ transfers' = [transfers EXCEPT ![t].at = "waiting", ![t].chain = "pending"]
    /\ ShowModal(transfers[t], "confirming")
    /\ UNCHANGED <<page, allowance>>

\* The fees cannot be estimated, or the user refuses.
Refuse(t) == transfers[t].at = "signing" /\ PurchaseFails(t, transfers[t])

\* The page looks at the receipt; the SDK only waits for it.
Accepts(d) == d.route = "page" => d.chain = "mined"

Notify(t, d) ==
    /\ transfers' = [transfers EXCEPT ![t] = [d EXCEPT !.at = "notifying", !.attempt = 1]]
    /\ UNCHANGED <<page, modal, allowance>>

ReceiptArrives(t) ==
    LET d == transfers[t] IN
    /\ d.at = "waiting" /\ d.route # "modal" /\ d.chain # "pending"
    /\ IF ~Accepts(d) THEN PurchaseFails(t, d)
       ELSE IF d.route = "send" THEN Succeed(t, d) ELSE Notify(t, d)

\* waitForTransactionReceipt gives up; the transaction may still be mined.
ReceiptTimesOut(t) ==
    /\ transfers[t].at = "waiting" /\ transfers[t].route # "modal"
    /\ transfers[t].chain = "pending"
    /\ PurchaseFails(t, transfers[t])

\* The modal waits seven seconds, whatever the chain does.
SevenSeconds(t) ==
    /\ transfers[t].at = "waiting" /\ transfers[t].route = "modal"
    /\ Notify(t, transfers[t])

\* The service credits the transfer, and says so.
Granted(t) ==
    /\ transfers[t].at = "notifying" /\ Creditable(transfers[t])
    /\ Succeed(t, Credited(transfers[t]))

\* It refuses; or its answer is lost.
Denied(t) ==
    /\ transfers[t].at = "notifying"
    /\ TryAgain(t, Credited(transfers[t]))

\* The connection fails first: the service may handle the request later.
Unanswered(t) ==
    /\ transfers[t].at = "notifying"
    /\ TryAgain(t, [transfers[t] EXCEPT !.late = @ + 1])

\* A second and a half after a deposit the modal is closed: the one that is
\* open by then, if the balance it was opened from is still there.
CloseTimer(t) ==
    /\ transfers[t].at = "closing"
    /\ modal' = IF transfers[t].watched = "no" THEN modal ELSE "closed"
    /\ transfers' = [u \in Transfers |->
          LET d == [transfers[u] EXCEPT !.at = IF u = t THEN "done" ELSE @]
          IN  IF transfers[t].watched # "no" /\ d.watched = "yes" /\ d.route = "modal"
              THEN [d EXCEPT !.watched = "parent"] ELSE d]
    /\ UNCHANGED <<page, allowance>>

TransferStep ==
    \E t \in Transfers :
        \/ Mine(t) \/ ServeLate(t)
        \/ Sign(t) \/ Refuse(t) \/ ReceiptArrives(t) \/ ReceiptTimesOut(t) \/ SevenSeconds(t)
        \/ Denied(t) \/ Unanswered(t) \/ CloseTimer(t)

-----------------------------------------------------------------------------
(***************************************************************************)
(* The allowance: nothing that is bought uses it.  It is not asked for     *)
(* while a purchase runs (a bound).                                        *)
(***************************************************************************)
ReadAllowance ==
    /\ allowance' = [allowance EXCEPT !.read = IF allowance.chain THEN "enough" ELSE "low"]
    /\ UNCHANGED <<transfers, page, modal>>

\* The banner; while it is there nothing new is bought.
StartApprove ==
    /\ allowance.read = "low" /\ ~page.approving /\ page.purchasing = NoPackage
    /\ page' = [page EXCEPT !.approving = TRUE]
    /\ UNCHANGED <<transfers, modal, allowance>>

\* What was read before stays until the query is made again.
EndApprove(ok) ==
    /\ page.approving
    /\ allowance' = [allowance EXCEPT !.chain = @ \/ ok]
    /\ page' = [page EXCEPT !.approving = FALSE,
                            !.success = IF ok THEN [kind |-> "approval", of |-> 0] ELSE @]
    /\ UNCHANGED <<transfers, modal>>

-----------------------------------------------------------------------------
(***************************************************************************)
(* The components come and go.                                             *)
(***************************************************************************)
Unwatched(route, by) ==
    [t \in Transfers |->
        IF transfers[t].route = route /\ transfers[t].watched # "no"
        THEN [transfers[t] EXCEPT !.watched = by] ELSE transfers[t]]

ToggleModal ==
    /\ modal' = IF modal = "closed" THEN "idle" ELSE "closed"
    /\ transfers' = Unwatched("modal", "parent")
    /\ UNCHANGED <<page, allowance>>

LeavePage ==
    /\ page' = FreshPage
    /\ allowance' = [allowance EXCEPT !.read = "unknown"]
    /\ transfers' = Unwatched("page", "no")
    /\ UNCHANGED modal

LeaveModal ==
    /\ modal' = "closed"
    /\ transfers' = Unwatched("modal", "no")
    /\ UNCHANGED <<page, allowance>>

=============================================================================
