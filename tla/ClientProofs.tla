---------------------------- MODULE ClientProofs ----------------------------
(***************************************************************************)
(* Proofs about the programs on the user's side: the account, for any      *)
(* number of transfers, packages and calls; the inference pages, for any   *)
(* number of jobs and sessions; where the parts of a packed payload are;   *)
(* and what a trading signal has lost.                                     *)
(***************************************************************************)
EXTENDS ClientAccount, InferenceClient, TradingLoss, FiniteSetTheorems, SequenceTheorems, TLAPS

(***************************************************************************)
(* A transfer.  The attempt that is under way has not counted yet; every   *)
(* attempt before it has credited the account, or may still do so, or      *)
(* never will.                                                             *)
(***************************************************************************)
Deals ==
    [route : Routes \cup {"none"}, to : Wallets, package : Packages \cup {NoPackage},
     at : {"unsent", "signing", "waiting", "notifying", "closing", "done", "failed"},
     chain : {"none", "pending", "mined", "reverted"},
     attempt : Nat, late : Nat, credited : Nat, watched : {"no", "parent", "yes"}]

Sound(d) ==
    /\ d.at \in {"unsent", "signing", "waiting"} => d.attempt = 0
    /\ d.credited + d.late <= d.attempt
    /\ d.at = "notifying" => d.credited + d.late < d.attempt
    /\ d.route # "modal" => d.attempt <= 1
    /\ d.credited > 0 => Creditable(d)
    /\ d.at \in {"closing", "done"} /\ d.route # "send" => d.credited > 0

Pages ==
    [purchasing : Packages \cup {NoPackage}, approving : BOOLEAN,
     success : [kind : {"none", "approval", "purchase"}, of : Nat]]

\* What the page says of a purchase.
Reported ==
    page.success.kind = "purchase" =>
        page.success.of \in Transfers /\ transfers[page.success.of].credited > 0

Purchases ==
    /\ transfers \in [Transfers -> Deals]
    /\ \A t \in Transfers : Sound(transfers[t])
    /\ page \in Pages /\ Reported

\* One transfer has become d, which takes nothing back, and the page says
\* what it said before, or less, or this.
Becomes(t, d) ==
    /\ d \in Deals /\ Sound(d) /\ d.credited >= transfers[t].credited
    /\ transfers' = [transfers EXCEPT ![t] = d]
    /\ page' \in Pages
    /\ \/ page'.success = page.success \/ page'.success.kind # "purchase"
       \/ page'.success.of = t /\ d.credited > 0

LEMMA InitPurchases == AccountInit => Purchases
<1> SUFFICES ASSUME AccountInit PROVE Purchases
  OBVIOUS
<1>1. NoTransfer \in Deals /\ Sound(NoTransfer)
  BY DEF NoTransfer, Deals, Sound, Wallets
<1>2. page \in Pages /\ page.success.kind = "none"
  BY DEF AccountInit, PurchaseInit, FreshPage, NoNotice, Pages
<1> QED
  BY <1>1, <1>2 DEF AccountInit, PurchaseInit, Purchases, Reported

LEMMA BecomesKeeps ==
  ASSUME Purchases, NEW t \in Transfers, NEW d, Becomes(t, d)
  PROVE  Purchases'
<1>1. /\ transfers' \in [Transfers -> Deals]
      /\ \A u \in Transfers :
            Sound(transfers'[u]) /\ transfers'[u].credited >= transfers[u].credited
  BY DEF Purchases, Becomes, Deals
<1>2. Reported'
  BY <1>1 DEF Purchases, Becomes, Reported, Deals, Pages
<1> QED
  BY <1>1, <1>2 DEF Purchases, Becomes

LEMMA CreditedOnce ==
  ASSUME NEW d \in Deals
  PROVE  /\ Credited(d) \in Deals
         /\ Credited(d).at = d.at /\ Credited(d).route = d.route
         /\ Credited(d).attempt = d.attempt /\ Credited(d).late = d.late
         /\ Credited(d).chain = d.chain /\ Credited(d).to = d.to
         /\ \/ Credited(d).credited = d.credited /\ ~Creditable(d)
            \/ Credited(d).credited = d.credited + 1 /\ Creditable(d)
  BY DEF Credited, Creditable, Deals

\* The clauses that end a handler, for a deal whose attempt is used up.
Spent(d) ==
    /\ d \in Deals
    /\ d.credited + d.late <= d.attempt
    /\ d.route # "modal" => d.attempt <= 1
    /\ d.credited > 0 => Creditable(d)

LEMMA FailKeeps ==
  ASSUME Purchases, NEW t \in Transfers, NEW d, Spent(d), d.credited >= transfers[t].credited,
         PurchaseFails(t, d)
  PROVE  Purchases'
<1>1. PICK e : e = [d EXCEPT !.at = "failed"]
  OBVIOUS
<1>2. /\ e \in Deals /\ e.at = "failed" /\ e.route = d.route /\ e.attempt = d.attempt
      /\ e.late = d.late /\ e.credited = d.credited /\ e.chain = d.chain /\ e.to = d.to
  BY <1>1 DEF Spent, Deals
<1>3. Sound(e)
  BY <1>2 DEF Sound, Spent, Creditable
<1>4. page' \in Pages /\ page'.success = page.success
  BY DEF PurchaseFails, ShowPage, Purchases, Pages
<1> QED
  BY <1>1, <1>2, <1>3, <1>4, BecomesKeeps DEF PurchaseFails, Becomes

LEMMA SucceedKeeps ==
  ASSUME Purchases, NEW t \in Transfers, NEW d, Spent(d), d.credited >= transfers[t].credited,
         d.route = "send" \/ d.credited > 0,
         Succeed(t, d)
  PROVE  Purchases'
<1>1. PICK e : e = [d EXCEPT !.at = IF d.route = "modal" THEN "closing" ELSE "done"]
  OBVIOUS
<1>2. /\ e \in Deals /\ e.at \in {"closing", "done"} /\ e.route = d.route /\ e.attempt = d.attempt
      /\ e.late = d.late /\ e.credited = d.credited /\ e.chain = d.chain /\ e.to = d.to
  BY <1>1 DEF Spent, Deals
<1>3. Sound(e)
  BY <1>2 DEF Sound, Spent, Creditable
<1>4. t \in Nat
  BY TransferAssumption DEF Transfers
<1>5. PICK g : g = [page EXCEPT !.success = [kind |-> "purchase", of |-> t],
                                 !.purchasing = NoPackage]
  OBVIOUS
<1>6. g \in Pages /\ g.success.of = t
  BY <1>4, <1>5 DEF Purchases, Pages
<1>7. page' = page \/ (page' = g /\ d.route = "page")
  BY <1>5 DEF Succeed, ShowPage
<1>8. transfers' = [transfers EXCEPT ![t] = e]
  BY <1>1 DEF Succeed
<1> QED
  BY <1>2, <1>3, <1>6, <1>7, <1>8, BecomesKeeps DEF Becomes, Purchases

LEMMA TryAgainKeeps ==
  ASSUME Purchases, NEW t \in Transfers, NEW d, Spent(d), d.credited >= transfers[t].credited,
         d.at = "notifying", TryAgain(t, d)
  PROVE  Purchases'
<1>1. CASE d.route = "modal" /\ d.attempt < NotifyAttempts
  <2>1. PICK e : e = [d EXCEPT !.attempt = @ + 1]
    OBVIOUS
  <2>2. /\ e \in Deals /\ e.at = "notifying" /\ e.route = d.route /\ e.attempt = d.attempt + 1
        /\ e.late = d.late /\ e.credited = d.credited /\ e.chain = d.chain /\ e.to = d.to
    BY <2>1 DEF Spent, Deals
  <2>3. Sound(e)
    BY <1>1, <2>2 DEF Sound, Spent, Deals, Creditable
  <2> QED
    BY <1>1, <2>1, <2>2, <2>3, BecomesKeeps DEF TryAgain, Becomes, Purchases
<1> QED
  BY <1>1, FailKeeps DEF TryAgain

LEMMA NotifyKeeps ==
  ASSUME Purchases, NEW t \in Transfers, transfers[t].at = "waiting", Notify(t, transfers[t])
  PROVE  Purchases'
<1>1. PICK c : c = transfers[t]
  OBVIOUS
<1>2. c \in Deals /\ Sound(c) /\ c.at = "waiting"
  BY <1>1 DEF Purchases
<1>3. PICK d : d = [c EXCEPT !.at = "notifying", !.attempt = 1]
  OBVIOUS
<1>4. /\ d \in Deals /\ d.at = "notifying" /\ d.attempt = 1 /\ d.route = c.route
      /\ d.late = c.late /\ d.credited = c.credited /\ d.chain = c.chain /\ d.to = c.to
  BY <1>2, <1>3 DEF Deals
<1>5. Sound(d)
  BY <1>2, <1>4 DEF Deals, Sound, Creditable
<1>6. transfers' = [transfers EXCEPT ![t] = d] /\ page' = page
  BY <1>1, <1>3 DEF Notify
<1>7. d.credited >= transfers[t].credited
  BY <1>1, <1>2, <1>4 DEF Deals
<1> QED
  BY <1>4, <1>5, <1>6, <1>7, BecomesKeeps DEF Becomes, Purchases

-----------------------------------------------------------------------------
(***************************************************************************)
(* The steps of one transfer.                                              *)
(***************************************************************************)
LEMMA TransferStepKeeps ==
  ASSUME Purchases, NEW t \in Transfers,
         \/ Mine(t) \/ ServeLate(t) \/ Sign(t) \/ Refuse(t) \/ ReceiptArrives(t)
         \/ ReceiptTimesOut(t) \/ SevenSeconds(t) \/ Denied(t) \/ Unanswered(t)
  PROVE  Purchases'
<1>1. PICK c : c = transfers[t]
  OBVIOUS
<1>2. c \in Deals /\ Sound(c)
  BY <1>1 DEF Purchases
<1>3. Spent(c)
  BY <1>2 DEF Spent, Sound
<1>4. c.credited >= c.credited
  BY <1>2 DEF Deals
<1>5. CASE Mine(t)
  <2>1. PICK x \in {"mined", "reverted"} : transfers' = [transfers EXCEPT ![t].chain = x]
    BY <1>5 DEF Mine
  <2>2. PICK d : d = [c EXCEPT !.chain = x]
    OBVIOUS
  <2>3. /\ d \in Deals /\ d.at = c.at /\ d.attempt = c.attempt /\ d.route = c.route
        /\ d.late = c.late /\ d.credited = c.credited
    BY <1>2, <2>2 DEF Deals
  <2>4. Sound(d)
    BY <1>1, <1>2, <1>5, <2>3 DEF Deals, Sound, Mine, Creditable
  <2> QED
    BY <1>1, <1>4, <1>5, <2>1, <2>2, <2>3, <2>4, BecomesKeeps DEF Becomes, Purchases, Mine
<1>6. CASE ServeLate(t)
  <2>1. PICK e : e = [c EXCEPT !.late = @ - 1]
    OBVIOUS
  <2>2. /\ e \in Deals /\ e.at = c.at /\ e.attempt = c.attempt /\ e.route = c.route
        /\ e.late = c.late - 1 /\ e.credited = c.credited /\ e.chain = c.chain
        /\ e.to = c.to
    BY <1>1, <1>2, <1>6, <2>1 DEF Deals, ServeLate
  <2>3. PICK d : d = Credited(e)
    OBVIOUS
  <2>4. /\ d \in Deals /\ d.at = c.at /\ d.route = c.route /\ d.attempt = c.attempt
        /\ d.late = c.late - 1 /\ d.chain = c.chain /\ d.to = c.to
        /\ \/ d.credited = c.credited
           \/ d.credited = c.credited + 1 /\ Creditable(d)
    BY <2>2, <2>3, CreditedOnce DEF Creditable
  <2>5. Sound(d) /\ d.credited >= c.credited
    BY <1>2, <2>4 DEF Sound, Deals, Creditable
  <2>6. transfers' = [transfers EXCEPT ![t] = d] /\ page' = page
    BY <1>1, <1>6, <2>1, <2>3 DEF ServeLate
  <2> QED
    BY <1>1, <2>4, <2>5, <2>6, BecomesKeeps DEF Becomes, Purchases
<1>7. CASE Sign(t)
  <2>1. PICK d : d = [c EXCEPT !.at = "waiting", !.chain = "pending"]
    OBVIOUS
  <2>2. /\ d \in Deals /\ d.at = "waiting" /\ d.attempt = c.attempt /\ d.route = c.route
        /\ d.late = c.late /\ d.credited = c.credited
    BY <1>2, <2>1 DEF Deals
  <2>3. Sound(d)
    BY <1>1, <1>2, <1>7, <2>2 DEF Sign, Sound, Deals
  <2>4. transfers' = [transfers EXCEPT ![t] = d] /\ page' = page
    BY <1>1, <1>7, <2>1 DEF Sign
  <2> QED
    BY <1>1, <1>4, <2>2, <2>3, <2>4, BecomesKeeps DEF Becomes, Purchases
<1>8. CASE Refuse(t) \/ ReceiptTimesOut(t)
  BY <1>1, <1>3, <1>4, <1>8, FailKeeps DEF Refuse, ReceiptTimesOut
<1>9. CASE ReceiptArrives(t)
  BY <1>1, <1>3, <1>4, <1>9, FailKeeps, SucceedKeeps, NotifyKeeps DEF ReceiptArrives
<1>10. CASE SevenSeconds(t)
  BY <1>10, NotifyKeeps DEF SevenSeconds
<1>11. CASE Denied(t)
  <2>1. PICK d : d = Credited(c)
    OBVIOUS
  <2>2. Spent(d) /\ d.credited >= c.credited /\ d.at = "notifying"
    BY <1>1, <1>2, <1>11, <2>1, CreditedOnce DEF Denied, Sound, Spent, Deals, Creditable
  <2> QED
    BY <1>1, <1>11, <2>1, <2>2, TryAgainKeeps DEF Denied
<1>12. CASE Unanswered(t)
  <2>1. PICK d : d = [c EXCEPT !.late = @ + 1]
    OBVIOUS
  <2>2. /\ d \in Deals /\ d.at = "notifying" /\ d.attempt = c.attempt /\ d.route = c.route
        /\ d.late = c.late + 1 /\ d.credited = c.credited /\ d.chain = c.chain /\ d.to = c.to
    BY <1>1, <1>2, <1>12, <2>1 DEF Unanswered, Deals
  <2>3. Spent(d)
    BY <1>1, <1>2, <1>12, <2>2 DEF Unanswered, Sound, Spent, Deals, Creditable
  <2> QED
    BY <1>1, <1>4, <1>12, <2>1, <2>2, <2>3, TryAgainKeeps DEF Unanswered
<1> QED
  BY <1>5, <1>6, <1>7, <1>8, <1>9, <1>10, <1>11, <1>12

LEMMA GrantedKeeps ==
  ASSUME Purchases, NEW t \in Transfers, Granted(t)
  PROVE  Purchases'
<1>1. PICK c : c = transfers[t]
  OBVIOUS
<1>2. c \in Deals /\ Sound(c) /\ c.at = "notifying" /\ Creditable(c)
  BY <1>1 DEF Purchases, Granted
<1>3. PICK d : d = Credited(c)
  OBVIOUS
<1>4. Spent(d) /\ d.credited >= c.credited /\ d.credited > 0
  BY <1>2, <1>3, CreditedOnce DEF Sound, Spent, Deals, Creditable
<1> QED
  BY <1>1, <1>3, <1>4, SucceedKeeps DEF Granted

LEMMA BeginKeeps ==
  ASSUME Purchases, NEW route \in Routes, NEW p \in Packages \cup {NoPackage},
         NEW to \in Wallets, Begin(route, p, to),
         page' \in Pages, page'.success = page.success \/ page'.success.kind # "purchase"
  PROVE  Purchases'
<1>1. PICK t \in Transfers :
         /\ transfers[t].at = "unsent"
         /\ transfers' = [transfers EXCEPT ![t] =
              [NoTransfer EXCEPT !.route = route, !.to = to, !.package = p, !.at = "signing",
                                 !.watched = IF route \in {"page", "modal"} THEN "yes" ELSE "no"]]
  BY DEF Begin
<1>2. PICK w \in {"yes", "no"} : w = IF route \in {"page", "modal"} THEN "yes" ELSE "no"
  OBVIOUS
<1>3. PICK a, g, b, c, d :
                        /\ a = [NoTransfer EXCEPT !.route = route] /\ g = [a EXCEPT !.to = to]
                        /\ b = [g EXCEPT !.package = p]
                        /\ c = [b EXCEPT !.at = "signing"] /\ d = [c EXCEPT !.watched = w]
  OBVIOUS
<1>4. d \in Deals /\ d.credited = 0 /\ Sound(d)
  <2>1. a = [NoTransfer EXCEPT !.route = route]
    BY <1>3
  <2>2. b = [g EXCEPT !.package = p] /\ g = [a EXCEPT !.to = to]
    BY <1>3
  <2>3. c = [b EXCEPT !.at = "signing"]
    BY <1>3
  <2>4. d = [c EXCEPT !.watched = w]
    BY <1>3
  <2>5. a \in Deals /\ a.credited = 0 /\ a.late = 0 /\ a.attempt = 0
    BY <2>1 DEF NoTransfer, Deals, Wallets
  <2>6. b \in Deals /\ b.credited = 0 /\ b.late = 0 /\ b.attempt = 0
    <3>1. g \in Deals /\ g.credited = 0 /\ g.late = 0 /\ g.attempt = 0
      BY <2>2, <2>5 DEF Deals
    <3> QED
      BY <2>2, <3>1 DEF Deals
  <2>7. c \in Deals /\ c.at = "signing" /\ c.credited = 0 /\ c.late = 0 /\ c.attempt = 0
    BY <2>3, <2>6 DEF Deals
  <2>8. d \in Deals /\ d.at = "signing" /\ d.credited = 0 /\ d.late = 0 /\ d.attempt = 0
    BY <2>4, <2>7 DEF Deals
  <2> QED
    BY <2>8 DEF Sound
<1>5. transfers' = [transfers EXCEPT ![t] = d]
  BY <1>1, <1>2, <1>3, Zenon
<1>6. transfers[t].credited = 0
  <2>1. PICK e : e = transfers[t]
    OBVIOUS
  <2>2. e \in Deals /\ Sound(e) /\ e.at = "unsent"
    BY <1>1, <2>1 DEF Purchases
  <2>3. e.credited = 0
    BY <2>2 DEF Deals, Sound
  <2> QED
    BY <2>1, <2>3
<1>7. d.credited >= transfers[t].credited
  BY <1>4, <1>6
<1>8. Becomes(t, d)
  BY <1>4, <1>5, <1>7 DEF Becomes
<1> QED
  BY <1>8, BecomesKeeps

\* Whether anybody still looks is of no importance to a transfer, nor that a
\* modal that has closed is done with it.
Alike(d, c) ==
    /\ d \in Deals /\ d.route = c.route /\ d.chain = c.chain /\ d.to = c.to
    /\ d.attempt = c.attempt /\ d.late = c.late /\ d.credited = c.credited
    /\ d.at = c.at \/ (c.at = "closing" /\ d.at = "done")

LEMMA AlikeKeeps ==
  ASSUME Purchases, page' \in Pages,
         page'.success = page.success \/ page'.success.kind # "purchase",
         NEW f, transfers' = [t \in Transfers |-> f[t]],
         \A t \in Transfers : Alike(f[t], transfers[t])
  PROVE  Purchases'
<1>1. ASSUME NEW t \in Transfers
      PROVE  /\ transfers'[t] \in Deals /\ Sound(transfers'[t])
             /\ transfers'[t].credited = transfers[t].credited
  <2>1. PICK c, d : c = transfers[t] /\ d = f[t]
    OBVIOUS
  <2>2. Alike(d, c) /\ Sound(c) /\ d = transfers'[t]
    BY <2>1 DEF Purchases
  <2>3. Sound(d)
    BY <2>2 DEF Alike, Sound, Creditable
  <2> QED
    BY <2>1, <2>2, <2>3 DEF Alike
<1>2. transfers' \in [Transfers -> Deals]
  BY <1>1
<1>3. Reported'
  BY <1>1 DEF Purchases, Reported
<1> QED
  BY <1>1, <1>2, <1>3 DEF Purchases

LEMMA WatchedAlike ==
  ASSUME NEW c \in Deals, NEW w \in {"no", "parent", "yes"}
  PROVE  /\ Alike(c, c)
         /\ Alike([c EXCEPT !.watched = w], c)
         /\ c.at = "closing" => Alike([c EXCEPT !.at = "done"], c)
         /\ c.at = "closing" => Alike([[c EXCEPT !.at = "done"] EXCEPT !.watched = w], c)
<1>1. ASSUME NEW d, d = [c EXCEPT !.watched = w] PROVE Alike(d, c)
  BY <1>1 DEF Alike, Deals
<1>2. ASSUME NEW d, d = [c EXCEPT !.at = "done"]
      PROVE  d \in Deals /\ (c.at = "closing" => Alike(d, c))
  BY <1>2 DEF Alike, Deals
<1>3. ASSUME NEW d \in Deals, NEW e, e = [d EXCEPT !.watched = w], Alike(d, c) PROVE Alike(e, c)
  BY <1>3 DEF Alike, Deals
<1> QED
  BY <1>1, <1>2, <1>3 DEF Alike

LEMMA UnwatchedKeeps ==
  ASSUME Purchases, page' \in Pages,
         page'.success = page.success \/ page'.success.kind # "purchase",
         NEW route, NEW by \in {"no", "parent"}, transfers' = Unwatched(route, by)
  PROVE  Purchases'
<1>1. PICK f : f = Unwatched(route, by)
  OBVIOUS
<1>2. ASSUME NEW t \in Transfers PROVE Alike(f[t], transfers[t])
  <2>1. PICK c : c = transfers[t]
    OBVIOUS
  <2>2. c \in Deals
    BY <2>1 DEF Purchases
  <2>3. f[t] = [c EXCEPT !.watched = by] \/ f[t] = c
    BY <1>1, <2>1 DEF Unwatched
  <2> QED
    BY <2>1, <2>2, <2>3, WatchedAlike
<1>3. transfers' = [t \in Transfers |-> f[t]]
  BY <1>1 DEF Unwatched
<1> QED
  BY <1>2, <1>3, AlikeKeeps

LEMMA CloseTimerKeeps ==
  ASSUME Purchases, NEW t \in Transfers, CloseTimer(t)
  PROVE  Purchases'
<1>1. PICK f : f = transfers'
  OBVIOUS
<1>2. ASSUME NEW u \in Transfers PROVE Alike(f[u], transfers[u])
  <2>1. PICK c : c = transfers[u]
    OBVIOUS
  <2>2. c \in Deals /\ (u = t => c.at = "closing")
    BY <2>1 DEF Purchases, CloseTimer
  <2>3. PICK d : d = [c EXCEPT !.at = IF u = t THEN "done" ELSE @]
    OBVIOUS
  <2>4. (u = t /\ d = [c EXCEPT !.at = "done"]) \/ (u # t /\ d = c)
    BY <2>2, <2>3 DEF Deals
  <2>5. f[u] = d \/ f[u] = [d EXCEPT !.watched = "parent"]
    BY <1>1, <2>1, <2>3 DEF CloseTimer
  <2>6. CASE u = t
    <3>1. c.at = "closing" /\ d = [c EXCEPT !.at = "done"]
      BY <2>2, <2>4, <2>6
    <3>2. Alike(d, c) /\ Alike([d EXCEPT !.watched = "parent"], c)
      BY <2>2, <3>1, WatchedAlike
    <3> QED
      BY <2>1, <2>5, <3>2
  <2>7. CASE u # t
    <3>1. d = c
      BY <2>4, <2>7
    <3>2. Alike(d, c) /\ Alike([d EXCEPT !.watched = "parent"], c)
      BY <2>2, <3>1, WatchedAlike
    <3> QED
      BY <2>1, <2>5, <3>2
  <2> QED
    BY <2>6, <2>7
<1>3. transfers' = [u \in Transfers |-> f[u]]
  BY <1>1 DEF CloseTimer
<1>4. page' = page
  BY DEF CloseTimer
<1> QED
  BY <1>2, <1>3, <1>4, AlikeKeeps DEF Purchases

LEMMA QuietKeeps == Purchases /\ UNCHANGED <<transfers, page>> => Purchases'
BY DEF Purchases, Reported

LEMMA PaysAWallet == \A route : Pays(route) \in Wallets
BY DEF Pays, LooksFor, Wallets

LEMMA UsePageKeeps ==
  ASSUME Purchases, UsePage
  PROVE  Purchases'
<1>1. CASE ReadAllowance
  BY <1>1, QuietKeeps DEF ReadAllowance
<1>2. CASE StartApprove
  <2>1. page' \in Pages /\ page'.success = page.success /\ transfers' = transfers
    BY <1>2 DEF StartApprove, Purchases, Pages
  <2> QED
    BY <2>1 DEF Purchases, Reported
<1>3. ASSUME NEW ok \in BOOLEAN, EndApprove(ok) PROVE Purchases'
  <2>1. PICK n : n = IF ok THEN [kind |-> "approval", of |-> 0] ELSE page.success
    OBVIOUS
  <2>2. /\ n \in [kind : {"none", "approval", "purchase"}, of : Nat]
        /\ n = page.success \/ n.kind = "approval"
    BY <2>1 DEF Purchases, Pages
  <2>3. PICK g : g = [page EXCEPT !.approving = FALSE]
    OBVIOUS
  <2>4. g \in Pages /\ g.success = page.success
    BY <2>3 DEF Purchases, Pages
  <2>5. page' = [g EXCEPT !.success = n] /\ transfers' = transfers
    BY <1>3, <2>1, <2>3, <2>4, Zenon DEF EndApprove
  <2>6. page' \in Pages /\ page'.success = n
    BY <2>2, <2>4, <2>5 DEF Pages
  <2> QED
    BY <2>2, <2>5, <2>6 DEF Purchases, Reported
<1>4. ASSUME NEW p \in Packages, handlePurchase(p, Pays("page")) PROVE Purchases'
  <2>1. PICK g : g = [page EXCEPT !.purchasing = p]
    OBVIOUS
  <2>2. g \in Pages
    BY <2>1 DEF Purchases, Pages
  <2>3. page' = [g EXCEPT !.success = NoNotice]
    BY <1>4, <2>1 DEF handlePurchase
  <2>4. page' \in Pages /\ page'.success.kind = "none"
    BY <2>2, <2>3 DEF NoNotice, Pages
  <2>5. Begin("page", p, Pays("page")) /\ "page" \in Routes
    BY <1>4 DEF handlePurchase, Routes
  <2> QED
    BY <2>4, <2>5, BeginKeeps, PaysAWallet
<1> QED
  BY <1>1, <1>2, <1>3, <1>4 DEF UsePage

LEMMA LeaveScreenKeeps ==
  ASSUME Purchases, LeaveScreen
  PROVE  Purchases'
<1>1. CASE LeavePage
  <2>1. page' \in Pages /\ page'.success.kind = "none"
    BY <1>1 DEF LeavePage, FreshPage, NoNotice, Pages
  <2> QED
    BY <1>1, <2>1, UnwatchedKeeps DEF LeavePage
<1>2. CASE LeaveModal
  BY <1>2, UnwatchedKeeps DEF LeaveModal, Purchases
<1>3. CASE UNCHANGED purchaseVars
  BY <1>3, QuietKeeps DEF purchaseVars
<1>4. LeavePage \/ LeaveModal \/ UNCHANGED purchaseVars
  BY DEF LeaveScreen
<1> QED
  BY <1>1, <1>2, <1>3, <1>4

LEMMA NextPurchases == Purchases /\ [AccountNext]_accountVars => Purchases'
<1> SUFFICES ASSUME Purchases, [AccountNext]_accountVars PROVE Purchases'
  OBVIOUS
<1>1. CASE UNCHANGED purchaseVars
  BY <1>1, QuietKeeps DEF purchaseVars
<1>2. CASE UseModal
  <2>1. CASE ToggleModal
    BY <2>1, UnwatchedKeeps DEF ToggleModal, Purchases
  <2>2. CASE handleDeposit(Pays("modal"))
    BY <2>2, BeginKeeps, PaysAWallet DEF handleDeposit, Routes, Purchases
  <2> QED
    BY <1>2, <2>1, <2>2 DEF UseModal
<1>3. CASE UseAgent
  <2>1. CASE AgentPurchase(Pays("agent"))
    BY <2>1, BeginKeeps, PaysAWallet DEF AgentPurchase, Routes, Purchases
  <2>2. CASE AgentDeposit(Pays("send"))
    BY <2>2, BeginKeeps, PaysAWallet DEF AgentDeposit, Routes, Purchases
  <2> QED
    BY <1>3, <2>1, <2>2 DEF UseAgent
<1>4. CASE TransferGoesOn
  BY <1>4, TransferStepKeeps, CloseTimerKeeps DEF TransferGoesOn, TransferStep
<1>5. ASSUME NEW t \in Transfers, Purchased(t) PROVE Purchases'
  BY <1>5, GrantedKeeps DEF Purchased
<1>6. CASE PersonStep
  <2>1. \/ LeaveScreen \/ UsePage \/ UseModal \/ UseAgent \/ TransferGoesOn
        \/ UNCHANGED purchaseVars \/ \E t \in Transfers : Purchased(t)
    BY <1>6 DEF PersonStep, Visit, UseDesk, DeskGoesOn, Listen, PushBalance, Lose, AskBalance,
                AnswerBalance, AllButBalance
  <2> QED
    BY <1>1, <1>2, <1>3, <1>4, <1>5, <2>1, LeaveScreenKeeps, UsePageKeeps
<1>7. CASE DisputeStep \/ RunByHand \/ UNCHANGED Server
  BY <1>1, <1>7 DEF DisputeStep, RunByHand, Server
<1>8. CASE UNCHANGED accountVars
  BY <1>1, <1>8 DEF accountVars
<1> QED
  BY <1>6, <1>7, <1>8 DEF AccountNext

(***************************************************************************)
(* The disputes.  Each is refunded as its last step, and only once its     *)
(* evidence has been found to be there.                                    *)
(***************************************************************************)
Refundable ==
    /\ disputes \in [Disputes ->
          [at : {"unfiled", "checked", "refunding", "ended"}, evidence : BOOLEAN, refunded : Nat]]
    /\ \A c \in Disputes :
          /\ disputes[c].at = "refunding" => disputes[c].evidence
          /\ disputes[c].at # "ended" => disputes[c].refunded = 0
          /\ disputes[c].refunded > 0 => disputes[c].evidence /\ disputes[c].refunded = 1

LEMMA InitDisputes == AccountInit => Refundable
BY DEF AccountInit, DisputeInit, Refundable, Unfiled

LEMMA NextDisputes == Refundable /\ [AccountNext]_accountVars => Refundable'
<1> SUFFICES ASSUME Refundable, [AccountNext]_accountVars PROVE Refundable'
  OBVIOUS
<1>1. CASE UNCHANGED disputes
  BY <1>1 DEF Refundable
<1>2. ASSUME NEW c \in Disputes, NEW evidence \in BOOLEAN, FileDispute(c, evidence)
      PROVE  Refundable'
  <2>1. PICK d : d = disputes[c]
    OBVIOUS
  <2>2. PICK e : e = [d EXCEPT !.at = "checked"]
    OBVIOUS
  <2>3. PICK f : f = [e EXCEPT !.evidence = evidence]
    OBVIOUS
  <2>4. d.refunded = 0 /\ f.at = "checked" /\ f.refunded = 0
        /\ f \in [at : {"unfiled", "checked", "refunding", "ended"}, evidence : BOOLEAN,
                  refunded : Nat]
    BY <1>2, <2>1, <2>2, <2>3 DEF FileDispute, Refundable
  <2>5. disputes' = [disputes EXCEPT ![c] = f]
    BY <1>2, <2>1, <2>2, <2>3, Zenon DEF FileDispute
  <2> QED
    BY <2>4, <2>5 DEF Refundable
<1>3. ASSUME NEW c \in Disputes, WriteVerdict(c) PROVE Refundable'
  BY <1>3 DEF WriteVerdict, Refundable
<1>4. ASSUME NEW c \in Disputes, BreakDispute(c) PROVE Refundable'
  BY <1>4 DEF BreakDispute, Refundable
<1>5. ASSUME NEW c \in Disputes, RefundCredits(c) PROVE Refundable'
  BY <1>5 DEF RefundCredits, Refundable
<1>6. DisputeStep \/ UNCHANGED disputes
  BY DEF AccountNext, PersonStep, RunByHand, Server, accountVars, disputeVars
<1> QED
  BY <1>1, <1>2, <1>3, <1>4, <1>5, <1>6 DEF DisputeStep

(***************************************************************************)
(* An account is credited only for a transfer that was mined and pays the  *)
(* wallet the service looks for, and twice for one only when an attempt of *)
(* the modal went unanswered (process_deposit, purchase_credit_package,    *)
(* handleDeposit); and, without one, once for a dispute that brought       *)
(* evidence (dispute_inference_request, refund_credits).                   *)
(***************************************************************************)
THEOREM CreditsArePaid == AccountSpec => []CreditsArePaidFor
<1>1. Purchases /\ Refundable => CreditsArePaidFor
  <2> SUFFICES ASSUME Purchases, Refundable PROVE CreditsArePaidFor
    OBVIOUS
  <2>1. ASSUME NEW t \in Transfers, transfers[t].credited > 0
        PROVE  /\ transfers[t].chain = "mined"
               /\ transfers[t].to = LooksFor(transfers[t].route)
               /\ transfers[t].credited + transfers[t].late <= transfers[t].attempt
               /\ transfers[t].route # "modal" => transfers[t].credited = 1
    <3>1. PICK d : d = transfers[t]
      OBVIOUS
    <3>2. d \in Deals /\ Sound(d) /\ d.credited > 0
      BY <2>1, <3>1 DEF Purchases
    <3>3. d.chain = "mined" /\ d.to = LooksFor(d.route)
      BY <3>2 DEF Sound, Creditable
    <3> QED
      BY <3>1, <3>2, <3>3 DEF Deals, Sound
  <2> QED
    BY <2>1 DEF Refundable, CreditsArePaidFor
<1> QED
  BY <1>1, InitPurchases, NextPurchases, InitDisputes, NextDisputes, PTL DEF AccountSpec

-----------------------------------------------------------------------------
(***************************************************************************)
(* The desk.  The steps that are shown follow the escrow as long as the    *)
(* page is there that shows them; a page that is left takes with it what   *)
(* it showed, so that an escrow made by another handler contradicts        *)
(* nothing.                                                                *)
(***************************************************************************)
\* The first n steps are done.
FirstDone(n) == \A j \in 1 .. 3 : steps[j] = "done" <=> j <= n

\* While step i of the three is under way.
Underway(i) ==
    \A j \in 1 .. 3 :
        steps[j] = IF j < i THEN "done" ELSE IF j = i THEN "in-progress" ELSE "pending"

Counter ==
    /\ desk \in {"idle", "drip", "create", "fund", "redeem", "make", "pay"}
    /\ attended \in BOOLEAN
    /\ escrow \in Nat
    /\ DOMAIN steps = 1 .. 3
    /\ DOMAIN notices = Desks
    /\ screen \notin {"buy", "escrow"} => ~attended
    /\ screen # "buy" \/ ~attended \/ desk \in {"make", "pay"} =>
          steps = Pending /\ notices["wrap"] = "none"
    /\ \E n \in 0 .. 3 : FirstDone(n) /\ (steps # Pending => escrow \in {n, n + 1})
    /\ \A i \in 1 .. 3 : desk = WrapSteps[i] =>
          /\ attended => Underway(i) /\ escrow = i - 1
          /\ notices["wrap"] # "success"
    /\ notices["wrap"] = "success" => escrow = 3
    /\ notices["drip"] = "success" => faucet # "never"

\* The names of the three steps.
LEMMA WrapNames ==
  /\ WrapSteps[1] = "create" /\ WrapSteps[2] = "fund" /\ WrapSteps[3] = "redeem"
  /\ \A i \in 1 .. 3 : WrapSteps[i] \in {"create", "fund", "redeem"}
  /\ \A i, j \in 1 .. 3 : WrapSteps[i] = WrapSteps[j] => i = j
<1>1. WrapSteps[1] = "create" /\ WrapSteps[2] = "fund" /\ WrapSteps[3] = "redeem"
  BY DEF WrapSteps
<1>2. \A i \in 1 .. 3 : i = 1 \/ i = 2 \/ i = 3
  OBVIOUS
<1> QED
  BY <1>1, <1>2

LEMMA InitCounter == AccountInit => Counter
<1> SUFFICES ASSUME AccountInit PROVE Counter
  OBVIOUS
<1>1. /\ desk = "idle" /\ attended = FALSE /\ steps = Pending /\ escrow = 0
      /\ notices["wrap"] = "none" /\ notices["drip"] = "none" /\ DOMAIN notices = Desks
  BY DEF AccountInit, DeskInit, Desks
<1>2. FirstDone(0) /\ DOMAIN steps = 1 .. 3
  BY <1>1 DEF FirstDone, Pending
<1>3. \E n \in 0 .. 3 : FirstDone(n) /\ (steps # Pending => escrow \in {n, n + 1})
  BY <1>1, <1>2
<1> QED
  BY <1>1, <1>2, <1>3, WrapNames DEF Counter

LEMMA CounterLeft ==
  ASSUME Counter, LeaveDesk, screen' \notin {"buy", "escrow"}
  PROVE  Counter'
<1>1. /\ desk' = desk /\ escrow' = escrow /\ faucet' = faucet /\ attended' = FALSE
      /\ steps' = Pending /\ DOMAIN notices' = Desks
      /\ notices'["wrap"] = "none" /\ notices'["drip"] = "none"
  BY DEF LeaveDesk, Desks
<1>2. FirstDone(0)' /\ DOMAIN steps' = 1 .. 3
  BY <1>1 DEF FirstDone, Pending
<1>3. \E n \in 0 .. 3 : FirstDone(n)' /\ (steps' # Pending => escrow' \in {n, n + 1})
  BY <1>1, <1>2
<1> QED
  BY <1>1, <1>2, <1>3, WrapNames DEF Counter

LEMMA CounterVisited ==
  ASSUME Counter, UNCHANGED deskVars, screen = "away" \/ screen' = screen
  PROVE  Counter'
<1>1. UNCHANGED <<desk, attended, steps, notices, escrow, faucet>>
  BY DEF deskVars
<1>2. \A n \in 0 .. 3 : FirstDone(n)' <=> FirstDone(n)
  BY <1>1 DEF FirstDone
<1>3. \A i \in 1 .. 3 : Underway(i)' <=> Underway(i)
  BY <1>1 DEF Underway
<1>4. screen' # "buy" \/ ~attended' \/ desk' \in {"make", "pay"} =>
          screen # "buy" \/ ~attended \/ desk \in {"make", "pay"}
  BY <1>1 DEF Counter
<1>5. screen' \notin {"buy", "escrow"} => ~attended
  BY DEF Counter
<1> QED
  BY <1>1, <1>2, <1>3, <1>4, <1>5 DEF Counter

LEMMA CounterUsed ==
  ASSUME Counter, UseDesk
  PROVE  Counter'
<1> USE DEF Enter, Counter, FirstDone
<1>1. CASE screen = "buy" /\ Drip
  BY <1>1, WrapNames DEF UseDesk, Drip, Desks
<1>2. CASE screen = "buy" /\ Wrap
  <2>1. /\ steps' = [j \in 1 .. 3 |-> IF j = 1 THEN "in-progress" ELSE "pending"]
        /\ escrow' = 0 /\ attended' = TRUE /\ desk' = "create" /\ faucet' = faucet
        /\ DOMAIN notices' = Desks
        /\ notices'["wrap"] = "none" /\ notices'["drip"] = notices["drip"]
        /\ screen' = "buy"
    BY <1>2 DEF Wrap, UseDesk, updateStep, Pending, Desks
  <2>2. Underway(1)' /\ FirstDone(0)'
    BY <2>1 DEF Underway
  <2> QED
    BY <2>1, <2>2, WrapNames
<1>3. CASE screen = "escrow" /\ handleCreate
  BY <1>3, WrapNames DEF UseDesk, handleCreate, Desks
<1> QED
  BY <1>1, <1>2, <1>3 DEF UseDesk

LEMMA CounterWraps ==
  ASSUME Counter, NEW i \in 1 .. 3, WrapStep(i), screen' = screen
  PROVE  Counter'
<1>1. /\ desk = WrapSteps[i] /\ escrow' = i /\ faucet' = faucet /\ attended' = attended
      /\ notices["wrap"] # "success"
  BY DEF WrapStep, Counter
<1>2. desk' = IF i = 3 THEN "idle" ELSE WrapSteps[i + 1]
  BY DEF WrapStep
<1>3. /\ DOMAIN notices' = Desks /\ notices'["drip"] = notices["drip"]
      /\ ~attended => notices'["wrap"] = notices["wrap"]
      /\ i # 3 => notices'["wrap"] = notices["wrap"]
      /\ notices'["wrap"] = "success" => i = 3
  BY <1>1 DEF WrapStep, Say, Show, Desks, Counter
<1>4. CASE ~attended
  <2>1. steps' = steps /\ steps = Pending
    BY <1>4 DEF WrapStep, Show, Counter
  <2>2. \A n \in 0 .. 3 : FirstDone(n)' <=> FirstDone(n)
    BY <2>1 DEF FirstDone
  <2> QED
    BY <1>1, <1>2, <1>3, <1>4, <2>1, <2>2, WrapNames DEF Counter
<1>5. CASE attended
  <2>1. Underway(i) /\ screen = "buy" /\ desk \notin {"make", "pay"}
    BY <1>1, <1>5, WrapNames DEF Counter, Underway, Pending
  <2>2. steps' = StepsAfter(i)
    BY <1>5 DEF WrapStep, Show
  <2>3. CASE i = 3
    <3>1. FirstDone(3)' /\ DOMAIN steps' = 1 .. 3
      BY <2>1, <2>2, <2>3 DEF Counter, Underway, FirstDone, StepsAfter, updateStep
    <3> QED
      BY <1>1, <1>2, <1>3, <1>5, <2>1, <2>3, <3>1, WrapNames DEF Counter
  <2>4. CASE i # 3
    <3>1. Underway(i + 1)'
      <4>1. CASE i = 1
        BY <2>1, <2>2, <4>1 DEF Counter, Underway, StepsAfter, updateStep
      <4>2. CASE i = 2
        BY <2>1, <2>2, <4>2 DEF Counter, Underway, StepsAfter, updateStep
      <4> QED
        BY <2>4, <4>1, <4>2
    <3>2. FirstDone(i)' /\ DOMAIN steps' = 1 .. 3
      <4>1. ASSUME NEW j \in 1 .. 3 PROVE steps'[j] = "done" <=> j <= i
        BY <2>4, <3>1, <4>1 DEF Underway
      <4>2. DOMAIN steps' = 1 .. 3
        BY <2>2, <2>4 DEF Counter, StepsAfter, updateStep
      <4> QED
        BY <4>1, <4>2 DEF FirstDone
    <3>3. PICK k \in 1 .. 3 : k = i + 1
      BY <2>4
    <3>4. desk' = WrapSteps[k]
      BY <1>2, <2>4, <3>3
    <3>5. desk' \in {"create", "fund", "redeem"}
      BY <3>4, WrapNames
    <3>6. notices'["wrap"] # "success"
      BY <1>3, <2>4
    <3>7. ASSUME NEW j \in 1 .. 3, desk' = WrapSteps[j]
          PROVE  Underway(j)' /\ escrow' = j - 1
      <4>1. j = k
        BY <3>4, <3>7, WrapNames
      <4> QED
        BY <1>1, <3>1, <3>3, <4>1
    <3>8. \E n \in 0 .. 3 : FirstDone(n)' /\ escrow' \in {n, n + 1}
      BY <1>1, <3>2
    <3> QED
      BY <1>1, <1>3, <1>5, <2>1, <3>2, <3>5, <3>6, <3>7, <3>8 DEF Counter
  <2> QED
    BY <2>3, <2>4
<1> QED
  BY <1>4, <1>5 DEF Counter

LEMMA CounterWrapFails ==
  ASSUME Counter, NEW i \in 1 .. 3, FailWrap(i), screen' = screen
  PROVE  Counter'
<1>1. /\ desk = WrapSteps[i] /\ desk' = "idle" /\ escrow' \in {i - 1, i, escrow}
      /\ faucet' = faucet /\ attended' = attended
  BY DEF FailWrap
<1>2. /\ DOMAIN notices' = Desks /\ notices'["drip"] = notices["drip"]
      /\ ~attended => notices'["wrap"] = notices["wrap"]
      /\ notices'["wrap"] # "success"
  BY <1>1 DEF FailWrap, Say, Show, Desks, Counter
<1>3. CASE ~attended
  <2>1. steps' = steps /\ steps = Pending
    BY <1>3 DEF FailWrap, Show, Counter
  <2>2. \A n \in 0 .. 3 : FirstDone(n)' <=> FirstDone(n)
    BY <2>1 DEF FirstDone
  <2> QED
    BY <1>1, <1>2, <1>3, <2>1, <2>2, WrapNames DEF Counter
<1>4. CASE attended
  <2>1. Underway(i) /\ escrow = i - 1 /\ screen = "buy" /\ desk \notin {"make", "pay"}
    BY <1>1, <1>4, WrapNames DEF Counter, Underway, Pending
  <2>2. steps' \in {updateStep(steps, i, "error"), updateStep(steps, i, "pending")}
    BY <1>4 DEF FailWrap, Show
  <2>3. FirstDone(i - 1)' /\ DOMAIN steps' = 1 .. 3
    BY <2>1, <2>2 DEF Counter, Underway, FirstDone, updateStep
  <2>4. escrow' \in {i - 1, i} /\ i - 1 \in 0 .. 3
    BY <1>1, <2>1
  <2>5. \E n \in 0 .. 3 : FirstDone(n)' /\ escrow' \in {n, n + 1}
    BY <2>3, <2>4
  <2> QED
    BY <1>1, <1>2, <1>4, <2>1, <2>3, <2>4, <2>5, WrapNames DEF Counter
<1> QED
  BY <1>3, <1>4 DEF Counter

LEMMA CounterGoesOn ==
  ASSUME Counter, DeskStep, screen' = screen
  PROVE  Counter'
<1>1. CASE \E i \in 1 .. 3 : WrapStep(i) \/ FailWrap(i)
  BY <1>1, CounterWraps, CounterWrapFails
<1>2. CASE EndDrip \/ FailDrip \/ Cool
  <2>1. /\ attended' = attended /\ steps' = steps /\ escrow' = escrow
        /\ desk' = desk \/ (desk = "drip" /\ desk' = "idle")
    BY <1>2 DEF EndDrip, FailDrip, Cool
  <2>2. /\ DOMAIN notices' = Desks /\ notices'["wrap"] = notices["wrap"]
        /\ notices'["drip"] = "success" => faucet' # "never"
    BY <1>2 DEF EndDrip, FailDrip, Cool, Say, Show, Counter, Desks
  <2>3. /\ \A n \in 0 .. 3 : FirstDone(n)' <=> FirstDone(n)
        /\ \A n \in 1 .. 3 : Underway(n)' <=> Underway(n)
    BY <2>1 DEF FirstDone, Underway
  <2> QED
    BY <2>1, <2>2, <2>3, WrapNames DEF Counter
<1>3. CASE Create \/ FailCreate
  <2>1. /\ attended' = attended /\ steps' = steps /\ faucet' = faucet
        /\ desk \in {"make", "pay"} /\ desk' \in {"idle", "pay"}
        /\ escrow' \in {1, 2, escrow, escrow + 1}
    BY <1>3 DEF Create, FailCreate
  <2>2. /\ DOMAIN notices' = Desks /\ notices'["wrap"] = notices["wrap"]
        /\ notices'["drip"] = notices["drip"]
    BY <1>3 DEF Create, FailCreate, Say, Show, Counter, Desks
  <2>3. \A n \in 0 .. 3 : FirstDone(n)' <=> FirstDone(n)
    BY <2>1 DEF FirstDone
  <2> QED
    BY <2>1, <2>2, <2>3, WrapNames DEF Counter
<1> QED
  BY <1>1, <1>2, <1>3 DEF DeskStep

LEMMA NextCounter == Counter /\ [AccountNext]_accountVars => Counter'
<1> SUFFICES ASSUME Counter, [AccountNext]_accountVars PROVE Counter'
  OBVIOUS
<1>1. CASE LeaveScreen
  <2>1. screen' = "away"
    BY <1>1 DEF LeaveScreen
  <2>2. CASE screen \in {"buy", "escrow"}
    BY <1>1, <2>1, <2>2, CounterLeft DEF LeaveScreen
  <2>3. CASE screen \notin {"buy", "escrow"}
    <3>1. UNCHANGED deskVars
      BY <1>1, <2>3 DEF LeaveScreen
    <3>2. /\ \A n \in 0 .. 3 : FirstDone(n)' <=> FirstDone(n)
          /\ \A n \in 1 .. 3 : Underway(n)' <=> Underway(n)
      BY <3>1 DEF deskVars, FirstDone, Underway
    <3> QED
      BY <2>1, <2>3, <3>1, <3>2 DEF deskVars, Counter
  <2> QED
    BY <2>2, <2>3
<1>2. ASSUME NEW p \in Screens, Visit(p) PROVE Counter'
  BY <1>2, CounterVisited DEF Visit
<1>3. CASE UNCHANGED <<deskVars, screen>>
  BY <1>3, CounterVisited
<1>4. CASE PersonStep
  <2>1. \/ LeaveScreen \/ UseDesk \/ DeskGoesOn
        \/ UNCHANGED <<deskVars, screen>> \/ \E p \in Screens : Visit(p)
    BY <1>4 DEF PersonStep, UsePage, UseModal, UseAgent, TransferGoesOn, Purchased, Listen,
                PushBalance, Lose, AskBalance, AnswerBalance, AllButBalance
  <2> QED
    BY <1>1, <1>2, <1>3, <2>1, CounterUsed, CounterGoesOn DEF DeskGoesOn
<1>5. CASE DisputeStep \/ RunByHand \/ UNCHANGED Server
  BY <1>3, <1>5 DEF DisputeStep, RunByHand, Server
<1>6. CASE UNCHANGED accountVars
  BY <1>3, <1>6 DEF accountVars
<1> QED
  BY <1>4, <1>5, <1>6 DEF AccountNext

\* What is shown as done is done.
LEMMA DoneIsDone == Counter /\ steps # Pending => Cardinality(Done) \in {escrow - 1, escrow}
<1> SUFFICES ASSUME Counter, steps # Pending PROVE Cardinality(Done) \in {escrow - 1, escrow}
  OBVIOUS
<1>1. PICK n \in 0 .. 3 : FirstDone(n) /\ escrow \in {n, n + 1}
  BY DEF Counter
<1>2. Done = 1 .. n
  BY <1>1 DEF Done, FirstDone
<1>3. Cardinality(1 .. n) = IF 1 > n THEN 0 ELSE n - 1 + 1
  BY FS_Interval
<1> QED
  BY <1>1, <1>2, <1>3

-----------------------------------------------------------------------------
(***************************************************************************)
(* The program that is run by hand.                                        *)
(***************************************************************************)
Sends(program) == Len(Chain!Transactions[program])

\* A process that has sent m of its transactions, and said s.
Errand(r) ==
    /\ r \in [program : ByHand \cup {"none"}, mined : Nat, says : {"nothing", "success", "failure"}]
    /\ r.program = "none" => r.says = "nothing" /\ r.mined = 0
    /\ r.program # "none" /\ r.says = "nothing" => r.mined < Sends(r.program)
    /\ r.says = "success" /\ r.program # "file_dispute" => r.mined = Sends(r.program)

Errands ==
    /\ bound \in Bounds
    /\ DOMAIN runs = {"operator"}
    /\ Errand(runs["operator"])

\* Each sends something, and none of them but file_dispute pretends.
LEMMA ByHandSends ==
  /\ \A p \in ByHand : Sends(p) \in Nat \ {0}
  /\ ByHand \cap Chain!Pretenders = {"file_dispute"}
  /\ "none" \notin ByHand
BY DEF Sends, ByHand, Chain!Transactions, Chain!Pretenders, Chain!CreateEscrowScript,
       Chain!LinkEscrowScript, Chain!WrapScript, Chain!FundWalletScript, Chain!TransferScript,
       Chain!CreatePoolScript, Chain!PurchaseInsuranceScript, Chain!FileDisputeScript

LEMMA InitErrands == AccountInit => Errands
<1> SUFFICES ASSUME AccountInit PROVE Errands
  OBVIOUS
<1>1. runs["operator"] = [program |-> "none", mined |-> 0, says |-> "nothing"]
  BY DEF AccountInit, Chain!ScriptInit, Chain!NotRun
<1>2. bound \in Bounds /\ DOMAIN runs = {"operator"}
  BY DEF AccountInit, Chain!ScriptInit
<1> QED
  BY <1>1, <1>2 DEF Errands, Errand

LEMMA NextErrands == Errands /\ [AccountNext]_accountVars => Errands'
<1> SUFFICES ASSUME Errands, [AccountNext]_accountVars PROVE Errands'
  OBVIOUS
<1>1. CASE UNCHANGED <<runs, bound>>
  BY <1>1 DEF Errands
<1>2. CASE RunByHand
  <2>1. PICK r : r = runs["operator"]
    OBVIOUS
  <2>2. Errand(r) /\ bound' = bound /\ DOMAIN runs = {"operator"} /\ bound \in Bounds
    BY <1>2, <2>1 DEF Errands, RunByHand
  <2>3. ASSUME NEW s, Errand(s), runs' = [runs EXCEPT !["operator"] = s] PROVE Errands'
    BY <2>2, <2>3 DEF Errands
  <2>4. ASSUME NEW program \in bound.byHand, Chain!Launch("operator", program) PROVE Errands'
    <3>1. program \in ByHand
      BY <2>2, <2>4, BoundAssumption
    <3>2. r = [program |-> "none", mined |-> 0, says |-> "nothing"]
      BY <2>1, <2>4 DEF Chain!Launch, Chain!NotRun
    <3>3. PICK s : s = [r EXCEPT !.program = program]
      OBVIOUS
    <3>4. s = [program |-> program, mined |-> 0, says |-> "nothing"]
      BY <3>2, <3>3
    <3>5. Errand(s)
      BY <3>1, <3>4, ByHandSends DEF Errand
    <3>6. runs' = [runs EXCEPT !["operator"] = s]
      BY <2>1, <2>4, <3>3 DEF Chain!Launch
    <3> QED
      BY <2>3, <3>5, <3>6
  <2>5. ASSUME NEW m \in {r.mined, r.mined + 1}, NEW s \in {"nothing", "success", "failure"},
               r.program # "none", r.says = "nothing",
               s = "nothing" => m < Sends(r.program),
               s = "success" /\ r.program # "file_dispute" => m = Sends(r.program),
               runs' = [runs EXCEPT !["operator"].mined = m, !["operator"].says = s]
        PROVE  Errands'
    <3>1. PICK a, b : a = [r EXCEPT !.mined = m] /\ b = [a EXCEPT !.says = s]
      OBVIOUS
    <3>2. b = [program |-> r.program, mined |-> m, says |-> s]
      BY <2>2, <3>1 DEF Errand
    <3>3. Errand(b)
      BY <2>2, <2>5, <3>2 DEF Errand
    <3>4. runs' = [runs EXCEPT !["operator"] = b]
      <4>1. PICK f : f = [runs EXCEPT !["operator"].mined = m]
        OBVIOUS
      <4>2. f = [runs EXCEPT !["operator"] = a]
        BY <2>1, <3>1, <4>1
      <4>3. runs' = [f EXCEPT !["operator"].says = s]
        BY <2>5, <4>1
      <4> QED
        BY <2>2, <3>1, <4>2, <4>3
    <3> QED
      BY <2>3, <3>3, <3>4
  <2>6. CASE Chain!Transact("operator")
    <3>1. PICK m, s : m = r.mined + 1 /\ s = Chain!SaysAfter("operator", m)
      OBVIOUS
    <3>2. runs' = [runs EXCEPT !["operator"].mined = m, !["operator"].says = s]
      BY <2>1, <2>6, <3>1 DEF Chain!Transact
    <3>3. r.program # "none" /\ r.says = "nothing" /\ r.mined < Sends(r.program)
      BY <2>1, <2>2, <2>6 DEF Chain!Transact, Chain!Running, Errand
    <3>4. s = IF m = Sends(r.program) THEN "success" ELSE "nothing"
      BY <2>1, <3>1 DEF Chain!SaysAfter, Chain!Sent, Sends
    <3>5. Sends(r.program) \in Nat /\ r.mined \in Nat
      BY <2>2, <3>3, ByHandSends DEF Errand
    <3>6. m \in {r.mined, r.mined + 1} /\ m \in Nat /\ m <= Sends(r.program)
      BY <3>1, <3>3, <3>5
    <3>7. s \in {"nothing", "success"} /\ (s = "nothing" => m < Sends(r.program))
      BY <3>4, <3>5, <3>6
    <3>8. s = "success" => m = Sends(r.program)
      BY <3>4
    <3> QED
      BY <2>5, <3>2, <3>3, <3>6, <3>7, <3>8
  <2>7. CASE Chain!Break("operator")
    <3>1. PICK s : s = IF runs["operator"].program \in Chain!Pretenders
                       THEN "success" ELSE "failure"
      OBVIOUS
    <3>2. PICK m \in {r.mined, r.mined + 1} :
             runs' = [runs EXCEPT !["operator"].mined = m, !["operator"].says = s]
      BY <2>1, <2>7, <3>1 DEF Chain!Break
    <3>3. r.program # "none" /\ r.says = "nothing" /\ r.program \in ByHand
      BY <2>1, <2>2, <2>7 DEF Chain!Break, Chain!Running, Errand
    <3>4. s = "failure" \/ (s = "success" /\ r.program = "file_dispute")
      BY <2>1, <3>1, <3>3, ByHandSends
    <3> QED
      BY <2>5, <3>2, <3>3, <3>4
  <2> QED
    BY <1>2, <2>4, <2>6, <2>7 DEF RunByHand
<1>3. CASE PersonStep \/ DisputeStep \/ UNCHANGED Server
  BY <1>1, <1>3 DEF PersonStep, DisputeStep, Server
<1>4. CASE UNCHANGED accountVars
  BY <1>1, <1>4 DEF accountVars
<1> QED
  BY <1>2, <1>3, <1>4 DEF AccountNext

-----------------------------------------------------------------------------
(***************************************************************************)
(* The order of a program's awaits.                                        *)
(***************************************************************************)
Awaits(k) ==
    CASE k = "infer" -> {"connect", "upload", "encrypt", "store", "preview", "submit", "poll",
                         "output"}
      [] k = "submit" -> {"preview", "submit", "poll"}
      [] k = "gateway" -> {"connect", "upload", "encrypt", "preview", "store", "submit", "poll",
                           "lookup", "output"}
      [] k = "direct" -> {"connect", "upload", "encrypt", "preview", "store", "submit", "poll",
                          "output"}
      [] k = "demo" -> {"connect", "upload", "encrypt", "submit", "poll", "output"}
      [] k = "wizard" -> {"encrypt", "preview", "store", "upload", "submit"}
      [] OTHER -> {}

LEMMA ProgramNames ==
  Programs = {"infer", "submit", "gateway", "direct", "demo", "wizard"}
BY DEF Programs, Steps

\* A call goes on from where it is in its list.
LEMMA AfterAwait ==
  ASSUME NEW c \in Calls, NEW s, Steps[calls[c].kind] = s
  PROVE  \A n \in 1 .. Len(s) : calls[c].at = s[n] =>
            \E i \in 1 .. Len(s) : /\ s[i] = calls[c].at
                                /\ After(c) = IF i = Len(s) THEN "ended" ELSE s[i + 1]
<1> SUFFICES ASSUME NEW n \in 1 .. Len(s), calls[c].at = s[n]
             PROVE  \E i \in 1 .. Len(s) : /\ s[i] = calls[c].at
                                        /\ After(c) = IF i = Len(s) THEN "ended" ELSE s[i + 1]
  OBVIOUS
<1>1. PICK i : i = CHOOSE m \in 1 .. Len(s) : s[m] = calls[c].at
  OBVIOUS
<1>2. i \in 1 .. Len(s) /\ s[i] = calls[c].at
  BY <1>1
<1>3. After(c) = IF i = Len(s) THEN "ended" ELSE s[i + 1]
  BY <1>1 DEF After
<1> QED
  BY <1>2, <1>3

LEMMA AfterInfer ==
  ASSUME NEW c \in Calls, calls[c].kind = "infer"
  PROVE  /\ calls[c].at = "connect" => After(c) = "upload"
         /\ calls[c].at = "upload" => After(c) = "encrypt"
         /\ calls[c].at = "encrypt" => After(c) = "store"
         /\ calls[c].at = "store" => After(c) = "preview"
         /\ calls[c].at = "preview" => After(c) = "submit"
         /\ calls[c].at = "submit" => After(c) = "poll"
         /\ calls[c].at = "poll" => After(c) = "output"
         /\ calls[c].at = "output" => After(c) = "ended"
<1>1. PICK s : s = InferSteps
  OBVIOUS
<1>2. Len(s) = 8
  BY <1>1 DEF InferSteps
<1>3. /\ s[1] = "connect" /\ s[2] = "upload" /\ s[3] = "encrypt" /\ s[4] = "store"
      /\ s[5] = "preview" /\ s[6] = "submit" /\ s[7] = "poll" /\ s[8] = "output"
  BY <1>1 DEF InferSteps
<1>4. Steps[calls[c].kind] = s
  BY <1>1 DEF Steps
<1>5. \A n \in 1 .. Len(s) : calls[c].at = s[n] =>
        \E i \in 1 .. Len(s) : /\ s[i] = calls[c].at
                               /\ After(c) = IF i = Len(s) THEN "ended" ELSE s[i + 1]
  BY <1>4, AfterAwait
<1>6. \A i \in 1 .. 8 : i = 1 \/ i = 2 \/ i = 3 \/ i = 4 \/ i = 5 \/ i = 6 \/ i = 7 \/ i = 8
  OBVIOUS
<1> QED
  BY <1>2, <1>3, <1>5, <1>6

LEMMA AfterSubmit ==
  ASSUME NEW c \in Calls, calls[c].kind = "submit"
  PROVE  /\ calls[c].at = "preview" => After(c) = "submit"
         /\ calls[c].at = "submit" => After(c) = "poll"
         /\ calls[c].at = "poll" => After(c) = "ended"
<1>1. PICK s : s = SubmitSteps
  OBVIOUS
<1>2. Len(s) = 3
  BY <1>1 DEF SubmitSteps
<1>3. /\ s[1] = "preview" /\ s[2] = "submit" /\ s[3] = "poll"
  BY <1>1 DEF SubmitSteps
<1>4. Steps[calls[c].kind] = s
  BY <1>1 DEF Steps
<1>5. \A n \in 1 .. Len(s) : calls[c].at = s[n] =>
        \E i \in 1 .. Len(s) : /\ s[i] = calls[c].at
                               /\ After(c) = IF i = Len(s) THEN "ended" ELSE s[i + 1]
  BY <1>4, AfterAwait
<1>6. \A i \in 1 .. 3 : i = 1 \/ i = 2 \/ i = 3
  OBVIOUS
<1> QED
  BY <1>2, <1>3, <1>5, <1>6

LEMMA AfterGateway ==
  ASSUME NEW c \in Calls, calls[c].kind = "gateway"
  PROVE  /\ calls[c].at = "connect" => After(c) = "upload"
         /\ calls[c].at = "upload" => After(c) = "encrypt"
         /\ calls[c].at = "encrypt" => After(c) = "preview"
         /\ calls[c].at = "preview" => After(c) = "store"
         /\ calls[c].at = "store" => After(c) = "submit"
         /\ calls[c].at = "submit" => After(c) = "poll"
         /\ calls[c].at = "poll" => After(c) = "lookup"
         /\ calls[c].at = "lookup" => After(c) = "output"
         /\ calls[c].at = "output" => After(c) = "ended"
<1>1. PICK s : s = GatewaySteps
  OBVIOUS
<1>2. Len(s) = 9
  BY <1>1 DEF GatewaySteps
<1>3. /\ s[1] = "connect" /\ s[2] = "upload" /\ s[3] = "encrypt" /\ s[4] = "preview"
      /\ s[5] = "store" /\ s[6] = "submit" /\ s[7] = "poll" /\ s[8] = "lookup"
      /\ s[9] = "output"
  BY <1>1 DEF GatewaySteps
<1>4. Steps[calls[c].kind] = s
  BY <1>1 DEF Steps
<1>5. \A n \in 1 .. Len(s) : calls[c].at = s[n] =>
        \E i \in 1 .. Len(s) : /\ s[i] = calls[c].at
                               /\ After(c) = IF i = Len(s) THEN "ended" ELSE s[i + 1]
  BY <1>4, AfterAwait
<1>6. \A i \in 1 .. 9 :
         i = 1 \/ i = 2 \/ i = 3 \/ i = 4 \/ i = 5 \/ i = 6 \/ i = 7 \/ i = 8 \/ i = 9
  OBVIOUS
<1> QED
  BY <1>2, <1>3, <1>5, <1>6

LEMMA AfterDirect ==
  ASSUME NEW c \in Calls, calls[c].kind = "direct"
  PROVE  /\ calls[c].at = "connect" => After(c) = "upload"
         /\ calls[c].at = "upload" => After(c) = "encrypt"
         /\ calls[c].at = "encrypt" => After(c) = "preview"
         /\ calls[c].at = "preview" => After(c) = "store"
         /\ calls[c].at = "store" => After(c) = "submit"
         /\ calls[c].at = "submit" => After(c) = "poll"
         /\ calls[c].at = "poll" => After(c) = "output"
         /\ calls[c].at = "output" => After(c) = "ended"
<1>1. PICK s : s = DirectSteps
  OBVIOUS
<1>2. Len(s) = 8
  BY <1>1 DEF DirectSteps
<1>3. /\ s[1] = "connect" /\ s[2] = "upload" /\ s[3] = "encrypt" /\ s[4] = "preview"
      /\ s[5] = "store" /\ s[6] = "submit" /\ s[7] = "poll" /\ s[8] = "output"
  BY <1>1 DEF DirectSteps
<1>4. Steps[calls[c].kind] = s
  BY <1>1 DEF Steps
<1>5. \A n \in 1 .. Len(s) : calls[c].at = s[n] =>
        \E i \in 1 .. Len(s) : /\ s[i] = calls[c].at
                               /\ After(c) = IF i = Len(s) THEN "ended" ELSE s[i + 1]
  BY <1>4, AfterAwait
<1>6. \A i \in 1 .. 8 : i = 1 \/ i = 2 \/ i = 3 \/ i = 4 \/ i = 5 \/ i = 6 \/ i = 7 \/ i = 8
  OBVIOUS
<1> QED
  BY <1>2, <1>3, <1>5, <1>6

LEMMA AfterDemo ==
  ASSUME NEW c \in Calls, calls[c].kind = "demo"
  PROVE  /\ calls[c].at = "connect" => After(c) = "upload"
         /\ calls[c].at = "upload" => After(c) = "encrypt"
         /\ calls[c].at = "encrypt" => After(c) = "submit"
         /\ calls[c].at = "submit" => After(c) = "poll"
         /\ calls[c].at = "poll" => After(c) = "output"
         /\ calls[c].at = "output" => After(c) = "ended"
<1>1. PICK s : s = DemoSteps
  OBVIOUS
<1>2. Len(s) = 6
  BY <1>1 DEF DemoSteps
<1>3. /\ s[1] = "connect" /\ s[2] = "upload" /\ s[3] = "encrypt" /\ s[4] = "submit"
      /\ s[5] = "poll" /\ s[6] = "output"
  BY <1>1 DEF DemoSteps
<1>4. Steps[calls[c].kind] = s
  BY <1>1 DEF Steps
<1>5. \A n \in 1 .. Len(s) : calls[c].at = s[n] =>
        \E i \in 1 .. Len(s) : /\ s[i] = calls[c].at
                               /\ After(c) = IF i = Len(s) THEN "ended" ELSE s[i + 1]
  BY <1>4, AfterAwait
<1>6. \A i \in 1 .. 6 : i = 1 \/ i = 2 \/ i = 3 \/ i = 4 \/ i = 5 \/ i = 6
  OBVIOUS
<1> QED
  BY <1>2, <1>3, <1>5, <1>6

LEMMA AfterWizard ==
  ASSUME NEW c \in Calls, calls[c].kind = "wizard"
  PROVE  /\ calls[c].at = "encrypt" => After(c) = "preview"
         /\ calls[c].at = "preview" => After(c) = "store"
         /\ calls[c].at = "store" => After(c) = "upload"
         /\ calls[c].at = "upload" => After(c) = "submit"
         /\ calls[c].at = "submit" => After(c) = "ended"
<1>1. PICK s : s = WizardSteps
  OBVIOUS
<1>2. Len(s) = 5
  BY <1>1 DEF WizardSteps
<1>3. /\ s[1] = "encrypt" /\ s[2] = "preview" /\ s[3] = "store" /\ s[4] = "upload"
      /\ s[5] = "submit"
  BY <1>1 DEF WizardSteps
<1>4. Steps[calls[c].kind] = s
  BY <1>1 DEF Steps
<1>5. \A n \in 1 .. Len(s) : calls[c].at = s[n] =>
        \E i \in 1 .. Len(s) : /\ s[i] = calls[c].at
                               /\ After(c) = IF i = Len(s) THEN "ended" ELSE s[i + 1]
  BY <1>4, AfterAwait
<1>6. \A i \in 1 .. 5 : i = 1 \/ i = 2 \/ i = 3 \/ i = 4 \/ i = 5
  OBVIOUS
<1> QED
  BY <1>2, <1>3, <1>5, <1>6

\* What comes next, by the await a call is at.
LEMMA Following ==
  ASSUME NEW c \in Calls, NEW k, k = calls[c].kind, k \in Programs,
         NEW p, p = calls[c].at, p \in Awaits(k)
  PROVE  /\ After(c) \in Awaits(k) \cup {"ended"}
         /\ p = "connect" => After(c) = "upload"
         /\ p = "upload" => After(c) = IF k = "wizard" THEN "submit" ELSE "encrypt"
         /\ p = "encrypt" => After(c) = CASE k = "infer" -> "store"
                                          [] k = "demo" -> "submit"
                                          [] OTHER -> "preview"
         /\ p = "preview" => After(c) = IF k \in {"infer", "submit"} THEN "submit" ELSE "store"
         /\ p = "store" => After(c) = CASE k = "infer" -> "preview"
                                        [] k = "wizard" -> "upload"
                                        [] OTHER -> "submit"
         /\ p = "submit" => After(c) = IF k = "wizard" THEN "ended" ELSE "poll"
         /\ p = "poll" => After(c) = CASE k = "gateway" -> "lookup"
                                       [] k = "submit" -> "ended"
                                       [] OTHER -> "output"
         /\ p = "lookup" => After(c) = "output"
         /\ p = "output" => After(c) = "ended"
<1> USE DEF Awaits
<1>1. CASE k = "infer"
  BY <1>1, AfterInfer
<1>2. CASE k = "submit"
  BY <1>2, AfterSubmit
<1>3. CASE k = "gateway"
  BY <1>3, AfterGateway
<1>4. CASE k = "direct"
  BY <1>4, AfterDirect
<1>5. CASE k = "demo"
  BY <1>5, AfterDemo
<1>6. CASE k = "wizard"
  BY <1>6, AfterWizard
<1> QED
  BY <1>1, <1>2, <1>3, <1>4, <1>5, <1>6, ProgramNames

-----------------------------------------------------------------------------
(***************************************************************************)
(* A call x, the job o of its task, and whom the key of the task admits w. *)
(* The key is stored before the job is made, and nothing changes it        *)
(* afterwards; a job that has ended keeps its status, so that what a call  *)
(* says of it stays true.                                                  *)
(***************************************************************************)
Finals == {"COMPLETED", "FAILED", "REFUNDED", "REJECTED", "ACCEPTED", "TIMEDOUT", "DISPUTED"}

CallStates ==
    [kind : Programs \cup {"none"},
     at : {"idle", "connect", "upload", "encrypt", "store", "preview", "submit", "poll", "lookup",
           "output", "ended"},
     polls : Nat, says : {"nothing", "error"} \cup Finals, admits : {"self", "quorum"}]

\* The awaits before which no job is made, and those after the key is stored.
Unordered == {"idle", "connect", "upload", "encrypt", "store", "preview", "submit"}

KeyStored(x) ==
    \/ x.kind = "infer" /\ x.at \in {"preview", "submit", "poll", "output"}
    \/ x.kind = "submit" /\ x.at \in {"preview", "submit", "poll"}
    \/ x.kind \in {"gateway", "direct"} /\ x.at \in {"submit", "poll", "lookup", "output"}
    \/ x.kind = "wizard" /\ x.at \in {"upload", "submit"}

\* The programs that admit the nodes of the job have done so.
Chosen(x, o) ==
    \/ x.kind = "direct" /\ KeyStored(x)
    \/ x.kind = "wizard" /\ x.at = "submit"
    \/ x.kind \in {"direct", "wizard"} /\ o.made > 0

Admitted == {"none", "self", "quorum"}

Jobs == [made : Nat, status : {"none", "RUNNING"} \cup Finals]

Ordered(x, o, w) ==
    /\ x \in CallStates /\ o \in Jobs /\ w \in Admitted
    /\ x.at = "idle" \/ (x.kind \in Programs /\ x.at \in Awaits(x.kind) \cup {"ended"})
    /\ x.at = "idle" => x.says = "nothing" /\ x.admits = "self"
    /\ x.says # "nothing" => x.at = "ended"
    /\ x.says \in Finals => o.status = x.says
    /\ x.at \in {"lookup", "output"} => o.status \in Finals
    /\ x.at \in Unordered => o.made = 0 /\ o.status = "none"
    /\ o.made <= 1
    /\ KeyStored(x) \/ (o.made > 0 /\ x.kind # "demo") => w # "none"
    /\ x.kind = "wizard" /\ x.at = "upload" => w = x.admits
    /\ x.kind = "direct" /\ x.at = "store" => x.admits = "quorum"
    /\ Chosen(x, o) => w = "quorum"

Agents ==
    /\ calls \in [Calls -> CallStates] /\ orders \in [Calls -> Jobs]
    /\ readers \in [Calls -> Admitted]
    /\ \A c \in Calls : Ordered(calls[c], orders[c], readers[c])

LEMMA InitAgents == AccountInit => Agents
<1> SUFFICES ASSUME AccountInit PROVE Agents
  OBVIOUS
<1>1. Ordered(NotCalled, NoOrder, "none")
  BY DEF Ordered, NotCalled, NoOrder, CallStates, Jobs, Admitted, Chosen, Unordered, KeyStored,
         Finals
<1> QED
  BY <1>1 DEF AccountInit, AgentInit, Agents, Ordered

\* What a step of call c leaves, in whichever of the three it changes.
Leaves(c, x, o, w) ==
    /\ calls' = [calls EXCEPT ![c] = x]
    /\ orders' = [orders EXCEPT ![c] = o] \/ (orders' = orders /\ o = orders[c])
    /\ readers' = [readers EXCEPT ![c] = w] \/ (readers' = readers /\ w = readers[c])

LEMMA LeavesOrdered ==
  ASSUME Agents, NEW c \in Calls, NEW x, NEW o, NEW w, Ordered(x, o, w), Leaves(c, x, o, w)
  PROVE  Agents'
<1>1. /\ calls' \in [Calls -> CallStates] /\ orders' \in [Calls -> Jobs]
      /\ readers' \in [Calls -> Admitted]
  BY DEF Agents, Leaves, Ordered
<1>2. calls'[c] = x /\ orders'[c] = o /\ readers'[c] = w
  BY DEF Agents, Leaves
<1>3. ASSUME NEW d \in Calls, d # c
      PROVE  calls'[d] = calls[d] /\ orders'[d] = orders[d] /\ readers'[d] = readers[d]
  BY <1>3 DEF Agents, Leaves
<1> QED
  BY <1>1, <1>2, <1>3 DEF Agents

\* The call is at p, and is otherwise as it was.
Moved(y, x, p) ==
    /\ y \in CallStates /\ y.kind = x.kind /\ y.polls = x.polls /\ y.admits = x.admits
    /\ y.at = p

LEMMA ProceedIs ==
  ASSUME Agents, NEW c \in Calls, Proceed(c), calls[c].at \in Awaits(calls[c].kind),
         calls[c].kind \in Programs
  PROVE  \E y : /\ calls' = [calls EXCEPT ![c] = y]
                /\ Moved(y, calls[c], After(c)) /\ y.says = calls[c].says
<1>1. PICK x : x = calls[c]
  OBVIOUS
<1>2. x \in CallStates
  BY <1>1 DEF Agents
<1>3. PICK p : p = After(c)
  OBVIOUS
<1>4. p \in Awaits(x.kind) \cup {"ended"}
  BY <1>1, <1>3, Following
<1>5. p \in {"connect", "upload", "encrypt", "store", "preview", "submit", "poll", "lookup",
             "output", "ended"}
  BY <1>1, <1>4, ProgramNames DEF Awaits
<1>6. PICK y : y = [x EXCEPT !.at = p]
  OBVIOUS
<1>7. Moved(y, x, p) /\ y.says = x.says
  BY <1>2, <1>5, <1>6 DEF Moved, CallStates
<1>8. calls' = [calls EXCEPT ![c] = y]
  BY <1>1, <1>3, <1>6 DEF Proceed
<1> QED
  BY <1>1, <1>3, <1>7, <1>8

LEMMA EndIs ==
  ASSUME Agents, NEW c \in Calls, NEW what \in {"error"} \cup Finals, End(c, what)
  PROVE  \E y : /\ calls' = [calls EXCEPT ![c] = y]
                /\ Moved(y, calls[c], "ended") /\ y.says = what
<1>1. PICK x : x = calls[c]
  OBVIOUS
<1>2. x \in CallStates /\ calls \in [Calls -> CallStates]
  BY <1>1 DEF Agents
<1>3. PICK a, y : a = [x EXCEPT !.at = "ended"] /\ y = [a EXCEPT !.says = what]
  OBVIOUS
<1>4. /\ a \in CallStates /\ a.kind = x.kind /\ a.polls = x.polls /\ a.admits = x.admits
      /\ a.at = "ended"
  BY <1>2, <1>3 DEF CallStates
<1>5. Moved(y, x, "ended") /\ y.says = what
  BY <1>3, <1>4 DEF Moved, CallStates
<1>6. PICK f : f = [calls EXCEPT ![c].at = "ended"]
  OBVIOUS
<1>7. f = [calls EXCEPT ![c] = a]
  BY <1>1, <1>3, <1>6
<1>8. calls' = [f EXCEPT ![c].says = what]
  BY <1>6 DEF End
<1>9. calls' = [calls EXCEPT ![c] = y]
  BY <1>2, <1>3, <1>7, <1>8
<1> QED
  BY <1>1, <1>5, <1>9

\* A call may end at any time, with an error or with the status of its job;
\* the key may have been stored, or the job made, by then.
LEMMA EndOrdered ==
  ASSUME NEW x, NEW o, NEW w, Ordered(x, o, w), x.at # "idle",
         NEW y, Moved(y, x, "ended"), NEW p \in Jobs, NEW v \in Admitted,
         y.says = "error" \/ (y.says \in Finals /\ y.says = p.status),
         p.made <= 1,
         p.made > 0 => (v = w /\ (o.made > 0 \/ KeyStored(x) \/ x.kind = "demo")
                              /\ (o.made > 0 \/ Chosen(x, o) \/ x.kind \notin {"direct", "wizard"}))
  PROVE  Ordered(y, p, v)
<1>1. y.kind = x.kind /\ y.at = "ended" /\ y \in CallStates /\ x.kind \in Programs
  BY DEF Moved, Ordered
<1>2. p.made > 0 /\ x.kind # "demo" => v # "none"
  BY DEF Ordered
<1>3. ~KeyStored(y)
  BY <1>1 DEF KeyStored
<1>4. Chosen(y, p) => x.kind \in {"direct", "wizard"} /\ p.made > 0
  BY <1>1, <1>3 DEF Chosen
<1>5. Chosen(y, p) => v = "quorum"
  BY <1>4 DEF Ordered, Chosen
<1> QED
  BY <1>1, <1>2, <1>3, <1>5 DEF Ordered, Unordered, Finals

LEMMA EndKeeps ==
  ASSUME Agents, NEW c \in Calls, calls[c].at # "idle", UNCHANGED <<readers, orders>>,
         NEW what \in {"error"} \cup Finals, End(c, what), what \in {"error", orders[c].status}
  PROVE  Agents'
<1>1. PICK x, o, w : x = calls[c] /\ o = orders[c] /\ w = readers[c]
  OBVIOUS
<1>2. Ordered(x, o, w) /\ o \in Jobs /\ w \in Admitted
  BY <1>1 DEF Agents
<1>3. PICK y : calls' = [calls EXCEPT ![c] = y] /\ Moved(y, x, "ended") /\ y.says = what
  BY <1>1, EndIs
<1>4. y.says = "error" \/ (y.says \in Finals /\ y.says = o.status)
  BY <1>1, <1>3 DEF Finals
<1>5. o.made <= 1
  BY <1>2 DEF Ordered
<1>6. Ordered(y, o, w)
  BY <1>1, <1>2, <1>3, <1>4, <1>5, EndOrdered
<1>7. Leaves(c, y, o, w)
  BY <1>1, <1>3 DEF Leaves
<1> QED
  BY <1>6, <1>7, LeavesOrdered

LEMMA ThrowKeeps ==
  ASSUME Agents, NEW c \in Calls, calls[c].at # "idle", UNCHANGED <<readers, orders>>, Throw(c)
  PROVE  Agents'
BY EndKeeps DEF Throw

\* A call goes on without storing, choosing or ordering anything.
LEMMA ProceedKeeps ==
  ASSUME Agents, NEW c \in Calls, Proceed(c), UNCHANGED <<readers, orders>>,
         calls[c].at \in {"connect", "upload", "encrypt", "poll", "lookup"},
         calls[c].at = "upload" /\ calls[c].kind = "wizard" => calls[c].admits = "quorum",
         calls[c].at = "poll" => orders[c].status \in Finals
  PROVE  Agents'
<1>1. PICK x, o, w : x = calls[c] /\ o = orders[c] /\ w = readers[c]
  OBVIOUS
<1>2. Ordered(x, o, w)
  BY <1>1 DEF Agents
<1>3. x.kind \in Programs /\ x.at \in Awaits(x.kind)
  BY <1>1, <1>2 DEF Ordered
<1>4. PICK y : /\ calls' = [calls EXCEPT ![c] = y]
               /\ Moved(y, x, After(c)) /\ y.says = x.says
  BY <1>1, <1>3, ProceedIs
<1>5. PICK p : p = After(c)
  OBVIOUS
<1>6. Leaves(c, y, o, w)
  BY <1>1, <1>4 DEF Leaves
<1>7. y \in CallStates /\ y.kind = x.kind /\ y.admits = x.admits /\ y.at = p /\ y.says = x.says
  BY <1>4, <1>5 DEF Moved
<1>8. x.says = "nothing"
  BY <1>1, <1>2 DEF Ordered
<1>9. p \in Awaits(x.kind) \cup {"ended"} /\ p # "idle"
  BY <1>1, <1>3, <1>5, Following, ProgramNames DEF Awaits
<1>10. CASE x.at = "connect"
  <2>1. p = "upload"
    BY <1>1, <1>3, <1>5, <1>10, Following
  <2>2. x.kind # "wizard"
    BY <1>3, <1>10 DEF Awaits
  <2> QED
    BY <1>2, <1>3, <1>6, <1>7, <1>8, <1>9, <1>10, <2>1, <2>2, LeavesOrdered
       DEF Ordered, KeyStored, Chosen, Unordered, Finals
<1>11. CASE x.at = "upload"
  <2>1. p = IF x.kind = "wizard" THEN "submit" ELSE "encrypt"
    BY <1>1, <1>3, <1>5, <1>11, Following
  <2>2. x.kind = "wizard" => w = "quorum"
    BY <1>1, <1>2, <1>11 DEF Ordered
  <2> QED
    BY <1>2, <1>3, <1>6, <1>7, <1>8, <1>9, <1>11, <2>1, <2>2, LeavesOrdered
       DEF Ordered, KeyStored, Chosen, Unordered, Finals
<1>12. CASE x.at = "encrypt"
  <2>1. p = CASE x.kind = "infer" -> "store" [] x.kind = "demo" -> "submit" [] OTHER -> "preview"
    BY <1>1, <1>3, <1>5, <1>12, Following
  <2>2. x.kind # "submit"
    BY <1>3, <1>12 DEF Awaits
  <2> QED
    BY <1>2, <1>3, <1>6, <1>7, <1>8, <1>9, <1>12, <2>1, <2>2, LeavesOrdered
       DEF Ordered, KeyStored, Chosen, Unordered, Finals
<1>13. CASE x.at = "poll"
  <2>1. p = CASE x.kind = "gateway" -> "lookup" [] x.kind = "submit" -> "ended" [] OTHER -> "output"
    BY <1>1, <1>3, <1>5, <1>13, Following
  <2>2. o.status \in Finals /\ x.kind # "wizard"
    BY <1>1, <1>3, <1>13 DEF Awaits
  <2> QED
    BY <1>2, <1>3, <1>6, <1>7, <1>8, <1>9, <1>13, <2>1, <2>2, LeavesOrdered
       DEF Ordered, KeyStored, Chosen, Unordered, Finals
<1>14. CASE x.at = "lookup"
  <2>1. p = "output" /\ x.kind = "gateway"
    BY <1>1, <1>3, <1>5, <1>14, Following DEF Awaits
  <2> QED
    BY <1>2, <1>3, <1>6, <1>7, <1>8, <1>9, <1>14, <2>1, LeavesOrdered
       DEF Ordered, KeyStored, Chosen, Unordered, Finals
<1> QED
  BY <1>1, <1>10, <1>11, <1>12, <1>13, <1>14

LEMMA QuorumPreviewKeeps ==
  ASSUME Agents, NEW c \in Calls, QuorumPreview(c)
  PROVE  Agents'
<1>1. PICK x, o, w : x = calls[c] /\ o = orders[c] /\ w = readers[c]
  OBVIOUS
<1>2. Ordered(x, o, w) /\ x.at = "preview" /\ UNCHANGED <<readers, orders>>
  BY <1>1 DEF Agents, QuorumPreview, At
<1>3. x.kind \in Programs /\ x.at \in Awaits(x.kind)
  BY <1>1, <1>2 DEF Ordered
<1>4. x.kind \in {"infer", "submit", "gateway", "direct", "wizard"} /\ x.says = "nothing"
  BY <1>2, <1>3, ProgramNames DEF Ordered, Awaits
<1>5. PICK p : p = After(c)
  OBVIOUS
<1>6. p = IF x.kind \in {"infer", "submit"} THEN "submit" ELSE "store"
  BY <1>1, <1>2, <1>3, <1>5, Following
<1>7. ASSUME NEW y \in CallStates, y.kind = x.kind, y.at = p, y.says = x.says,
             x.kind = "direct" => y.admits = "quorum", calls' = [calls EXCEPT ![c] = y]
      PROVE  Agents'
  <2>1. Ordered(y, o, w)
    BY <1>2, <1>4, <1>6, <1>7, ProgramNames
       DEF Ordered, KeyStored, Chosen, Unordered, Finals, Awaits
  <2>2. Leaves(c, y, o, w)
    BY <1>1, <1>2, <1>7 DEF Leaves
  <2> QED
    BY <2>1, <2>2, LeavesOrdered
<1>8. CASE calls' = [calls EXCEPT ![c].at = After(c),
                       ![c].admits = IF calls[c].kind \in Choosers THEN "quorum" ELSE @]
  <2>1. PICK r : r = IF x.kind \in Choosers THEN "quorum" ELSE x.admits
    OBVIOUS
  <2>2. PICK a, y : a = [x EXCEPT !.at = p] /\ y = [a EXCEPT !.admits = r]
    OBVIOUS
  <2>3. x \in CallStates /\ calls \in [Calls -> CallStates]
    BY <1>2 DEF Ordered, Agents
  <2>4. a \in CallStates /\ a.kind = x.kind /\ a.says = x.says /\ a.at = p /\ a.admits = x.admits
    BY <1>6, <2>2, <2>3 DEF CallStates
  <2>5. r \in {"self", "quorum"} /\ (x.kind = "direct" => r = "quorum")
    BY <2>1, <2>3 DEF CallStates, Choosers, Scripts
  <2>6. y \in CallStates /\ y.kind = x.kind /\ y.says = x.says /\ y.at = p /\ y.admits = r
    BY <2>2, <2>4, <2>5 DEF CallStates
  <2>7. PICK f : f = [calls EXCEPT ![c].at = p]
    OBVIOUS
  <2>8. f = [calls EXCEPT ![c] = a] /\ f[c].admits = x.admits
    BY <1>1, <2>2, <2>3, <2>4, <2>7
  <2>9. calls' = [f EXCEPT ![c].admits = r]
    BY <1>1, <1>5, <1>8, <2>1, <2>7, <2>8
  <2>10. calls' = [calls EXCEPT ![c] = y]
    BY <2>2, <2>3, <2>8, <2>9
  <2> QED
    BY <1>7, <2>5, <2>6, <2>10
<1>9. CASE calls[c].kind \in Stubborn /\ Proceed(c)
  <2>1. PICK y : /\ calls' = [calls EXCEPT ![c] = y]
                 /\ Moved(y, x, After(c)) /\ y.says = x.says
    BY <1>1, <1>3, <1>9, ProceedIs
  <2>2. x.kind # "direct"
    BY <1>1, <1>9 DEF Stubborn
  <2> QED
    BY <1>5, <1>7, <2>1, <2>2 DEF Moved
<1>10. CASE Throw(c)
  BY <1>1, <1>2, <1>10, ThrowKeeps
<1> QED
  BY <1>8, <1>9, <1>10 DEF QuorumPreview

LEMMA storePromptKeyKeeps ==
  ASSUME Agents, NEW c \in Calls, storePromptKey(c)
  PROVE  Agents'
<1>1. PICK x, o, w, v : /\ x = calls[c] /\ o = orders[c] /\ w = readers[c]
                        /\ v = readers'[c]
  OBVIOUS
<1>2. Ordered(x, o, w) /\ x.at = "store" /\ UNCHANGED orders
  BY <1>1 DEF Agents, storePromptKey, At
<1>3. x.kind \in Programs /\ x.at \in Awaits(x.kind)
  BY <1>1, <1>2 DEF Ordered
<1>4. x.kind \in {"infer", "gateway", "direct", "wizard"} /\ x.says = "nothing"
  BY <1>2, <1>3, ProgramNames DEF Ordered, Awaits
<1>5. x.admits \in {"self", "quorum"} /\ o.made = 0 /\ o \in Jobs /\ o.status = "none"
  BY <1>2 DEF Ordered, CallStates, Unordered
<1>6. CASE AdmitReaders(c)
  <2>1. readers' = [readers EXCEPT ![c] = x.admits]
    BY <1>1, <1>6 DEF AdmitReaders
  <2>2. CASE Proceed(c)
    <3>1. PICK y : /\ calls' = [calls EXCEPT ![c] = y]
                   /\ Moved(y, x, After(c)) /\ y.says = x.says
      BY <1>1, <1>3, <2>2, ProceedIs
    <3>2. PICK p : p = After(c)
      OBVIOUS
    <3>3. p = CASE x.kind = "infer" -> "preview"
                [] x.kind = "wizard" -> "upload"
                [] OTHER -> "submit"
      BY <1>1, <1>2, <1>3, <3>2, Following
    <3>4. y \in CallStates /\ y.kind = x.kind /\ y.admits = x.admits /\ y.at = p
      BY <3>1, <3>2 DEF Moved
    <3>5. x.kind = "direct" => x.admits = "quorum"
      BY <1>2 DEF Ordered
    <3>6. Ordered(y, o, x.admits)
      BY <1>2, <1>4, <1>5, <3>1, <3>3, <3>4, <3>5, ProgramNames
         DEF Ordered, KeyStored, Chosen, Unordered, Finals, Awaits, Admitted
    <3>7. Leaves(c, y, o, x.admits)
      BY <1>1, <1>2, <2>1, <3>1 DEF Leaves
    <3> QED
      BY <3>6, <3>7, LeavesOrdered
  <2>3. CASE Throw(c)
    <3>1. PICK y : /\ calls' = [calls EXCEPT ![c] = y]
                   /\ Moved(y, x, "ended") /\ y.says = "error"
      BY <1>1, <2>3, EndIs DEF Throw
    <3>2. Ordered(y, o, x.admits)
      BY <1>2, <1>5, <3>1, EndOrdered DEF Admitted
    <3>3. Leaves(c, y, o, x.admits)
      BY <1>1, <1>2, <2>1, <3>1 DEF Leaves
    <3> QED
      BY <3>2, <3>3, LeavesOrdered
  <2> QED
    BY <2>2, <2>3 DEF storePromptKey
<1>7. CASE Throw(c) /\ UNCHANGED readers
  BY <1>1, <1>2, <1>7, ThrowKeeps
<1> QED
  BY <1>6, <1>7 DEF storePromptKey

LEMMA SubmitKeeps ==
  ASSUME Agents, NEW c \in Calls, Submit(c)
  PROVE  Agents'
<1>1. PICK x, o, w : x = calls[c] /\ o = orders[c] /\ w = readers[c]
  OBVIOUS
<1>2. Ordered(x, o, w) /\ x.at = "submit" /\ UNCHANGED readers
  BY <1>1 DEF Agents, Submit, At
<1>3. x.kind \in Programs /\ x.at \in Awaits(x.kind)
  BY <1>1, <1>2 DEF Ordered
<1>4. x.says = "nothing" /\ o.made = 0 /\ o \in Jobs /\ w \in Admitted
  BY <1>2, ProgramNames DEF Ordered, Awaits, Unordered
<1>5. PICK n : n = [made |-> o.made + 1, status |-> "RUNNING"]
  OBVIOUS
<1>6. n \in Jobs /\ n.made = 1 /\ n.status = "RUNNING"
  BY <1>4, <1>5 DEF Jobs
<1>7. KeyStored(x) \/ x.kind = "demo"
  BY <1>2, <1>3, ProgramNames DEF KeyStored
<1>8. x.kind \in {"direct", "wizard"} => Chosen(x, o)
  BY <1>2, <1>7 DEF Chosen
<1>9. CASE orders' = [orders EXCEPT ![c] = [made |-> @.made + 1, status |-> "RUNNING"]]
  <2>1. orders' = [orders EXCEPT ![c] = n]
    BY <1>1, <1>5, <1>9
  <2>2. CASE Proceed(c)
    <3>1. PICK y : /\ calls' = [calls EXCEPT ![c] = y]
                   /\ Moved(y, x, After(c)) /\ y.says = x.says
      BY <1>1, <1>3, <2>2, ProceedIs
    <3>2. PICK p : p = After(c)
      OBVIOUS
    <3>3. p = IF x.kind = "wizard" THEN "ended" ELSE "poll"
      BY <1>1, <1>2, <1>3, <3>2, Following
    <3>4. y \in CallStates /\ y.kind = x.kind /\ y.admits = x.admits /\ y.at = p
      BY <3>1, <3>2 DEF Moved
    <3>5. x.kind # "demo" => w # "none"
      BY <1>2, <1>7 DEF Ordered
    <3>6. x.kind \in {"direct", "wizard"} => w = "quorum"
      BY <1>2, <1>8 DEF Ordered
    <3>7. p \in Awaits(x.kind) \cup {"ended"}
      BY <1>1, <1>3, <3>2, Following
    <3>8. KeyStored(y) => x.kind # "demo"
      BY <3>4 DEF KeyStored
    <3>9. Chosen(y, n) => x.kind \in {"direct", "wizard"}
      BY <3>4 DEF Chosen
    <3>10. Ordered(y, n, w)
      BY <1>3, <1>4, <1>6, <3>1, <3>3, <3>4, <3>5, <3>6, <3>7, <3>8, <3>9
         DEF Ordered, Unordered, Finals
    <3>11. Leaves(c, y, n, w)
      BY <1>1, <1>2, <2>1, <3>1 DEF Leaves
    <3> QED
      BY <3>10, <3>11, LeavesOrdered
  <2>3. CASE Throw(c)
    <3>1. PICK y : /\ calls' = [calls EXCEPT ![c] = y]
                   /\ Moved(y, x, "ended") /\ y.says = "error"
      BY <1>1, <2>3, EndIs DEF Throw
    <3>2. Ordered(y, n, w)
      BY <1>2, <1>4, <1>6, <1>7, <1>8, <3>1, EndOrdered
    <3>3. Leaves(c, y, n, w)
      BY <1>1, <1>2, <2>1, <3>1 DEF Leaves
    <3> QED
      BY <3>2, <3>3, LeavesOrdered
  <2> QED
    BY <1>9, <2>2, <2>3 DEF Submit
<1>10. CASE Throw(c) /\ UNCHANGED orders
  BY <1>1, <1>2, <1>10, ThrowKeeps
<1> QED
  BY <1>9, <1>10 DEF Submit

LEMMA FinalsAre ==
  /\ \A k : FinalStatus(k) \subseteq Finals
  /\ \A k : Success(k) \in Finals
BY DEF FinalStatus, Success, Finals

LEMMA PollOrderKeeps ==
  ASSUME Agents, NEW c \in Calls, PollOrder(c)
  PROVE  Agents'
<1>1. PICK x, o, w : x = calls[c] /\ o = orders[c] /\ w = readers[c]
  OBVIOUS
<1>2. Ordered(x, o, w) /\ x.at = "poll" /\ UNCHANGED <<readers, orders>>
  BY <1>1 DEF Agents, PollOrder, At
<1>3. CASE Throw(c)
  BY <1>1, <1>2, <1>3, ThrowKeeps
<1>4. CASE AsksAgain(c)
  <2>1. CASE calls' = [calls EXCEPT ![c].polls = @ + 1]
    <3>1. PICK y : y = [x EXCEPT !.polls = x.polls + 1]
      OBVIOUS
    <3>2. x \in CallStates
      BY <1>2 DEF Ordered
    <3>3. /\ y \in CallStates /\ y.kind = x.kind /\ y.at = x.at /\ y.says = x.says
          /\ y.admits = x.admits
      BY <3>1, <3>2 DEF CallStates
    <3>4. Ordered(y, o, w)
      BY <1>2, <3>3 DEF Ordered, KeyStored, Chosen
    <3>5. calls' = [calls EXCEPT ![c] = y]
      BY <1>1, <2>1, <3>1
    <3>6. Leaves(c, y, o, w)
      BY <1>1, <1>2, <3>5 DEF Leaves
    <3> QED
      BY <3>4, <3>6, LeavesOrdered
  <2> QED
    BY <1>1, <1>2, <1>4, <2>1, ThrowKeeps DEF AsksAgain
<1>5. CASE o.status \in FinalStatus(x.kind) /\ Ended(c, o.status)
  <2>1. o.status \in Finals
    BY <1>5, FinalsAre
  <2>2. Proceed(c) \/ Throw(c) \/ End(c, o.status)
    BY <1>5 DEF Ended
  <2> QED
    BY <1>1, <1>2, <2>1, <2>2, ThrowKeeps, ProceedKeeps, EndKeeps
<1> QED
  BY <1>1, <1>3, <1>4, <1>5 DEF PollOrder

LEMMA DecryptOutputKeeps ==
  ASSUME Agents, NEW c \in Calls, NEW n, DecryptOutput(c, n)
  PROVE  Agents'
<1>1. PICK x, o, w : x = calls[c] /\ o = orders[c] /\ w = readers[c]
  OBVIOUS
<1>2. Ordered(x, o, w) /\ x.at = "output" /\ UNCHANGED <<readers, orders>>
  BY <1>1 DEF Agents, DecryptOutput, At
<1>3. o.status \in Finals
  BY <1>2 DEF Ordered
<1>4. End(c, o.status) \/ Throw(c)
  BY <1>1 DEF DecryptOutput
<1> QED
  BY <1>1, <1>2, <1>3, <1>4, ThrowKeeps, EndKeeps

\* A job that is running ends, once.
LEMMA OrderEndsKeeps ==
  ASSUME Agents, NEW c \in Calls, NEW n, OrderEnds(c, n)
  PROVE  Agents'
<1>1. PICK x, o, w : x = calls[c] /\ o = orders[c] /\ w = readers[c]
  OBVIOUS
<1>2. Ordered(x, o, w) /\ o.status = "RUNNING" /\ UNCHANGED <<calls, readers>>
  BY <1>1 DEF Agents, OrderEnds
<1>3. PICK s \in Finals : orders' = [orders EXCEPT ![c].status = s]
  BY FinalsAre DEF OrderEnds
<1>4. PICK e : e = [o EXCEPT !.status = s]
  OBVIOUS
<1>5. o \in Jobs
  BY <1>2 DEF Ordered
<1>6. e \in Jobs /\ e.made = o.made /\ e.status = s
  BY <1>4, <1>5 DEF Jobs
<1>7. x.at \notin Unordered /\ x.says \notin Finals
  BY <1>2 DEF Ordered, Finals
<1>8. Ordered(x, e, w)
  BY <1>2, <1>6, <1>7 DEF Ordered, Chosen, Unordered
<1>9. calls' = [calls EXCEPT ![c] = x]
  BY <1>1, <1>2 DEF Agents
<1>10. orders' = [orders EXCEPT ![c] = e]
  BY <1>1, <1>3, <1>4
<1>11. Leaves(c, x, e, w)
  BY <1>1, <1>2, <1>9, <1>10 DEF Leaves
<1> QED
  BY <1>8, <1>11, LeavesOrdered

LEMMA CallStepKeeps ==
  ASSUME Agents, NEW c \in Calls, NEW n, CallStep(c, n)
  PROVE  Agents'
<1>1. CASE ConnectCofhe(c)
  BY <1>1, ThrowKeeps, ProceedKeeps DEF ConnectCofhe, At
<1>2. CASE UploadPrompt(c)
  BY <1>2, ThrowKeeps, ProceedKeeps DEF UploadPrompt, At
<1>3. CASE uploadToICL(c)
  BY <1>3, ThrowKeeps, ProceedKeeps DEF uploadToICL, At
<1>4. CASE encryptInputs(c)
  BY <1>4, ThrowKeeps, ProceedKeeps DEF encryptInputs, At
<1>5. CASE LookUpOutput(c)
  BY <1>5, ThrowKeeps, ProceedKeeps DEF LookUpOutput, At
<1> QED
  BY <1>1, <1>2, <1>3, <1>4, <1>5, QuorumPreviewKeeps, storePromptKeyKeeps, SubmitKeeps,
     PollOrderKeeps, DecryptOutputKeeps DEF CallStep

LEMMA StartKeeps ==
  ASSUME Agents, NEW c \in Calls, NEW k \in Programs, Start(c, k)
  PROVE  Agents'
<1>1. PICK x, o, w : x = calls[c] /\ o = orders[c] /\ w = readers[c]
  OBVIOUS
<1>2. Ordered(x, o, w) /\ x \in CallStates /\ calls \in [Calls -> CallStates]
  BY <1>1 DEF Agents, Ordered
<1>3. x.at = "idle" /\ UNCHANGED orders
  BY <1>1 DEF Start, StartInfer, StartSubmit, StartScript, At
<1>4. PICK p, v : /\ v = readers'[c]
                  /\ p = CASE k = "infer" -> (IF cofhe = "none" THEN "connect" ELSE "upload")
                           [] k = "submit" -> "preview"
                           [] OTHER -> Steps[k][1]
  OBVIOUS
<1>5. k \notin {"infer", "submit"} => p = IF k = "wizard" THEN "encrypt" ELSE "connect"
  <2>1. /\ Steps["gateway"] = GatewaySteps /\ Steps["direct"] = DirectSteps
        /\ Steps["demo"] = DemoSteps /\ Steps["wizard"] = WizardSteps
    BY DEF Steps
  <2>2. GatewaySteps[1] = "connect" /\ DirectSteps[1] = "connect" /\ DemoSteps[1] = "connect"
    BY DEF GatewaySteps, DirectSteps, DemoSteps
  <2>3. WizardSteps[1] = "encrypt"
    BY DEF WizardSteps
  <2> QED
    BY <1>4, <2>1, <2>2, <2>3, ProgramNames
<1>6. /\ p \in Awaits(k) /\ p \in {"connect", "upload", "encrypt", "preview"}
      /\ k = "wizard" => p = "encrypt"
      /\ k = "infer" => p # "preview"
      /\ k = "direct" => p = "connect"
  BY <1>4, <1>5, ProgramNames DEF Awaits
<1>7. calls' = [calls EXCEPT ![c].kind = k, ![c].at = p]
  BY <1>4 DEF Start, StartInfer, StartSubmit, StartScript
<1>8. PICK a, y : a = [x EXCEPT !.kind = k] /\ y = [a EXCEPT !.at = p]
  OBVIOUS
<1>9. a \in CallStates /\ a.kind = k /\ a.says = x.says /\ a.admits = x.admits /\ a.at = x.at
  BY <1>2, <1>8 DEF CallStates
<1>10. y \in CallStates /\ y.kind = k /\ y.says = x.says /\ y.admits = x.admits /\ y.at = p
  BY <1>6, <1>8, <1>9 DEF CallStates
<1>11. calls' = [calls EXCEPT ![c] = y]
  <2>1. PICK f : f = [calls EXCEPT ![c].kind = k]
    OBVIOUS
  <2>2. f = [calls EXCEPT ![c] = a]
    BY <1>1, <1>8, <2>1
  <2>3. calls' = [f EXCEPT ![c].at = p]
    BY <1>7, <2>1
  <2> QED
    BY <1>2, <1>8, <2>2, <2>3
<1>12. PICK who \in {"self", "quorum"} :
          \/ readers' = readers /\ k # "submit"
          \/ readers' = [readers EXCEPT ![c] = who] /\ k = "submit"
  BY DEF Start, StartInfer, StartSubmit, StartScript
<1>13. v = IF k = "submit" THEN who ELSE w
  BY <1>1, <1>4, <1>12 DEF Agents
<1>14. x.says = "nothing" /\ o.made = 0 /\ o.status = "none" /\ o \in Jobs /\ w \in Admitted
  BY <1>2, <1>3 DEF Ordered, Unordered
<1>15. v \in Admitted /\ (k = "submit" => v # "none")
  BY <1>13, <1>14 DEF Admitted
<1>16. Ordered(y, o, v)
  BY <1>6, <1>10, <1>14, <1>15 DEF Ordered, KeyStored, Chosen, Unordered, Finals
<1>17. Leaves(c, y, o, v)
  BY <1>1, <1>3, <1>11, <1>12, <1>13 DEF Leaves
<1> QED
  BY <1>16, <1>17, LeavesOrdered

\* Errands has the bounds of the behaviour, and with them its programs.
LEMMA NextAgents == Agents /\ Errands /\ [AccountNext]_accountVars => Agents'
<1> SUFFICES ASSUME Agents, Errands, [AccountNext]_accountVars PROVE Agents'
  OBVIOUS
<1>1. CASE UNCHANGED <<calls, readers, orders>>
  BY <1>1 DEF Agents
<1>2. CASE AgentStep(bound.agent, bound.nodeIv)
  <2>1. ASSUME NEW s \in bound.agent, Start(s[1], s[2]) PROVE Agents'
    <3>1. bound.agent \subseteq Calls \X Programs
      BY BoundAssumption DEF Errands
    <3>2. s[1] \in Calls /\ s[2] \in Programs
      BY <2>1, <3>1
    <3> QED
      BY <2>1, <3>2, StartKeeps
  <2> QED
    BY <1>2, <2>1, CallStepKeeps, OrderEndsKeeps DEF AgentStep
<1>3. CASE PersonStep \/ DisputeStep \/ RunByHand
  BY <1>1, <1>3 DEF PersonStep, DisputeStep, RunByHand, agentVars
<1>4. CASE UNCHANGED accountVars
  BY <1>1, <1>4 DEF accountVars, agentVars
<1> QED
  BY <1>2, <1>3, <1>4 DEF AccountNext

(***************************************************************************)
(* However the calls of an agent and the scripts interleave, each makes    *)
(* one job at most, after the key of its prompt is on the chain, and those *)
(* that name the nodes have admitted them (infer, storePromptKey,          *)
(* submitEncryptedInference, handleSubmit and the scripts).                *)
(***************************************************************************)
THEOREM OneJobIsSealed == AccountSpec => []OneSealedJob
<1>1. Agents => OneSealedJob
  <2> SUFFICES ASSUME Agents, NEW c \in Calls, orders[c].made > 0
               PROVE  /\ orders[c].made = 1
                      /\ calls[c].kind # "demo" => readers[c] # "none"
                      /\ calls[c].kind \in {"direct", "wizard"} => readers[c] = "quorum"
    BY DEF OneSealedJob
  <2>1. PICK x, o, w : x = calls[c] /\ o = orders[c] /\ w = readers[c]
    OBVIOUS
  <2>2. Ordered(x, o, w) /\ o.made > 0
    BY <2>1 DEF Agents
  <2> QED
    BY <2>1, <2>2 DEF Ordered, Chosen, Jobs
<1> QED
  BY <1>1, InitAgents, NextAgents, InitErrands, NextErrands, PTL DEF AccountSpec

(***************************************************************************)
(* What the pages, the SDK and the scripts say has happened has happened:  *)
(* purchases, steps of a wrap, drips, programs run by hand and calls       *)
(* (handlePurchase, handleDeposit, handleWrap, handleDrip, infer).         *)
(***************************************************************************)
THEOREM MessagesAreTruthful == AccountSpec => []TruthfulMessages
<1>1. Purchases /\ Counter /\ Errands /\ Agents => TruthfulMessages
  <2> SUFFICES ASSUME Purchases, Counter, Errands, Agents PROVE TruthfulMessages
    OBVIOUS
  <2>1. page.success.kind = "purchase" => transfers[page.success.of].credited > 0
    BY DEF Purchases, Reported
  <2>2. ASSUME NEW t \in Transfers, transfers[t].at \in {"closing", "done"},
               transfers[t].route # "send"
        PROVE  transfers[t].credited > 0
    <3>1. PICK d : d = transfers[t]
      OBVIOUS
    <3> QED
      BY <2>2, <3>1 DEF Purchases, Sound
  <2>3. steps # Pending => Cardinality(Done) \in {escrow - 1, escrow}
    BY DoneIsDone
  <2>4. runs["operator"].says = "success" /\ runs["operator"].program # "file_dispute"
           => Chain!Accomplished("operator")
    <3>1. PICK r : r = runs["operator"]
      OBVIOUS
    <3> QED
      BY <3>1 DEF Errands, Errand, Chain!Accomplished, Chain!Sent, Sends
  <2>5. notices["drip"] = "success" => faucet # "never"
    BY DEF Counter
  <2>6. notices["wrap"] = "success" => escrow = 3
    BY DEF Counter
  <2>7. ASSUME NEW c \in Calls, calls[c].says \notin {"nothing", "error"}
        PROVE  calls[c].says = orders[c].status
    <3>1. PICK x, o : x = calls[c] /\ o = orders[c]
      OBVIOUS
    <3>2. Ordered(x, o, readers[c]) /\ x \in CallStates
      BY <3>1 DEF Agents
    <3>3. x.says \in Finals
      BY <2>7, <3>1, <3>2 DEF CallStates
    <3> QED
      BY <3>1, <3>2, <3>3 DEF Ordered
  <2> QED
    BY <2>1, <2>2, <2>3, <2>4, <2>5, <2>6, <2>7 DEF TruthfulMessages
<1> QED
  BY <1>1, InitPurchases, NextPurchases, InitCounter, NextCounter, InitErrands, NextErrands,
     InitAgents, NextAgents, PTL DEF AccountSpec

-----------------------------------------------------------------------------
(***************************************************************************)
(* How many steps a call can still take: the awaits ahead of it, counted   *)
(* so that one number serves all the programs, and the attempts to ask for *)
(* its job.                                                                *)
(***************************************************************************)
Ahead(k, p) ==
    CASE p = "idle"    -> 11
      [] p = "connect" -> 10
      [] p = "upload"  -> IF k = "wizard" THEN 5 ELSE 9
      [] p = "encrypt" -> 8
      [] p = "preview" -> IF k = "infer" THEN 6 ELSE 7
      [] p = "store"   -> IF k = "infer" THEN 7 ELSE 6
      [] p = "submit"  -> 4
      [] p = "poll"    -> 3
      [] p = "lookup"  -> 2
      [] p = "output"  -> 1
      [] OTHER         -> 0

Left(x) == Ahead(x.kind, x.at) + (MaxAttempts - x.polls)

\* Nobody has asked more often than it may.
Attempts == \A c \in Calls : calls[c].polls \in 0 .. MaxAttempts

LEMMA AheadIsNat == \A k, p : Ahead(k, p) \in 0 .. 11
BY DEF Ahead

LEMMA InitAttempts == AccountInit => Attempts
BY AttemptAssumption DEF AccountInit, AgentInit, NotCalled, Attempts

\* Call c has come nearer to its end, and no other call has moved.
Descends(c) ==
    /\ \A d \in Calls : d # c => calls'[d] = calls[d]
    /\ calls'[c].polls \in 0 .. MaxAttempts
    /\ Left(calls'[c]) < Left(calls[c])

\* It has moved to a place that is nearer, or asked once more.
LEMMA NearerDescends ==
  ASSUME Agents, Attempts, NEW c \in Calls, NEW y, calls' = [calls EXCEPT ![c] = y],
         y.kind = calls[c].kind, y.polls = calls[c].polls,
         Ahead(y.kind, y.at) < Ahead(y.kind, calls[c].at)
  PROVE  Descends(c)
<1>1. calls'[c] = y /\ \A d \in Calls : d # c => calls'[d] = calls[d]
  BY DEF Agents
<1>2. calls[c].polls \in 0 .. MaxAttempts
  BY DEF Attempts
<1>3. PICK m, n : m = Ahead(y.kind, y.at) /\ n = Ahead(y.kind, calls[c].at)
  OBVIOUS
<1>4. m \in Nat /\ n \in Nat /\ m < n
  BY <1>3, AheadIsNat
<1>5. m + (MaxAttempts - calls[c].polls) < n + (MaxAttempts - calls[c].polls)
  BY <1>2, <1>4, AttemptAssumption
<1> QED
  BY <1>1, <1>2, <1>3, <1>5 DEF Descends, Left

LEMMA ProceedDescends ==
  ASSUME Agents, Attempts, NEW c \in Calls, Proceed(c),
         calls[c].at \in Awaits(calls[c].kind), calls[c].kind \in Programs
  PROVE  Descends(c)
<1>1. PICK k, p, q : k = calls[c].kind /\ p = calls[c].at /\ q = After(c)
  OBVIOUS
<1>2. PICK y : calls' = [calls EXCEPT ![c] = y] /\ Moved(y, calls[c], q)
  BY <1>1, ProceedIs
<1>3. Ahead(k, q) < Ahead(k, p)
  BY <1>1, Following, ProgramNames DEF Ahead, Awaits
<1> QED
  BY <1>1, <1>2, <1>3, NearerDescends DEF Moved

LEMMA EndDescends ==
  ASSUME Agents, Attempts, NEW c \in Calls, NEW what \in {"error"} \cup Finals, End(c, what),
         calls[c].at \in Awaits(calls[c].kind), calls[c].kind \in Programs
  PROVE  Descends(c)
<1>1. PICK y : calls' = [calls EXCEPT ![c] = y] /\ Moved(y, calls[c], "ended")
  BY EndIs
<1>2. PICK k, p : k = calls[c].kind /\ p = calls[c].at
  OBVIOUS
<1>3. Ahead(k, "ended") < Ahead(k, p)
  BY <1>2, ProgramNames DEF Ahead, Awaits
<1> QED
  BY <1>1, <1>2, <1>3, NearerDescends DEF Moved

LEMMA PreviewDescends ==
  ASSUME Agents, Attempts, NEW c \in Calls, NEW r, calls[c].at = "preview",
         calls[c].at \in Awaits(calls[c].kind), calls[c].kind \in Programs,
         calls' = [calls EXCEPT ![c].at = After(c), ![c].admits = r]
  PROVE  Descends(c)
<1>1. PICK x, q : x = calls[c] /\ q = After(c)
  OBVIOUS
<1>2. PICK a, y : a = [x EXCEPT !.at = q] /\ y = [a EXCEPT !.admits = r]
  OBVIOUS
<1>3. x \in CallStates /\ calls \in [Calls -> CallStates]
  BY <1>1 DEF Agents
<1>4. y.kind = x.kind /\ y.at = q /\ y.polls = x.polls
  <2>1. a.kind = x.kind /\ a.at = q /\ a.polls = x.polls
    BY <1>2, <1>3 DEF CallStates
  <2> QED
    BY <1>2, <1>3, <2>1 DEF CallStates
<1>5. calls' = [calls EXCEPT ![c] = y]
  <2>1. PICK f : f = [calls EXCEPT ![c].at = q]
    OBVIOUS
  <2>2. f = [calls EXCEPT ![c] = a]
    BY <1>1, <1>2, <2>1
  <2>3. calls' = [f EXCEPT ![c].admits = r]
    BY <1>1, <2>1
  <2> QED
    BY <1>2, <1>3, <2>2, <2>3
<1>6. q = IF x.kind \in {"infer", "submit"} THEN "submit" ELSE "store"
  BY <1>1, Following
<1>7. Ahead(x.kind, q) < Ahead(x.kind, "preview")
  BY <1>6 DEF Ahead
<1> QED
  BY <1>1, <1>4, <1>5, <1>7, NearerDescends

LEMMA AskDescends ==
  ASSUME Agents, Attempts, NEW c \in Calls, calls[c].polls < MaxAttempts,
         calls' = [calls EXCEPT ![c].polls = calls[c].polls + 1]
  PROVE  Descends(c)
<1>1. PICK x, y : x = calls[c] /\ y = [x EXCEPT !.polls = x.polls + 1]
  OBVIOUS
<1>2. x \in CallStates /\ x.polls \in 0 .. MaxAttempts
  BY <1>1 DEF Agents, Attempts
<1>3. y.kind = x.kind /\ y.at = x.at /\ y.polls = x.polls + 1
  BY <1>1, <1>2 DEF CallStates
<1>4. calls'[c] = y /\ \A d \in Calls : d # c => calls'[d] = calls[d]
  BY <1>1 DEF Agents
<1>5. PICK n : n = Ahead(x.kind, x.at)
  OBVIOUS
<1>6. n \in Nat
  BY <1>5, AheadIsNat
<1>7. n + (MaxAttempts - (x.polls + 1)) < n + (MaxAttempts - x.polls)
  BY <1>2, <1>6, AttemptAssumption
<1>8. x.polls + 1 \in 0 .. MaxAttempts
  BY <1>1, <1>2, AttemptAssumption
<1> QED
  BY <1>1, <1>3, <1>4, <1>5, <1>7, <1>8 DEF Descends, Left

LEMMA PollDescends ==
  ASSUME Agents, Attempts, NEW c \in Calls, PollOrder(c)
  PROVE  Descends(c)
<1>1. calls[c].at = "poll" /\ calls[c].kind \in Programs /\ calls[c].at \in Awaits(calls[c].kind)
  BY DEF PollOrder, At, Agents, Ordered
<1>2. ASSUME Throw(c) PROVE Descends(c)
  BY <1>1, <1>2, EndDescends DEF Throw
<1>3. ASSUME AsksAgain(c) PROVE Descends(c)
  BY <1>2, <1>3, AskDescends DEF AsksAgain
<1>4. ASSUME orders[c].status \in FinalStatus(calls[c].kind), Ended(c, orders[c].status)
      PROVE  Descends(c)
  <2>1. orders[c].status \in Finals
    BY <1>4, FinalsAre
  <2>2. Proceed(c) \/ Throw(c) \/ End(c, orders[c].status)
    BY <1>4 DEF Ended
  <2> QED
    BY <1>1, <1>2, <2>1, <2>2, ProceedDescends, EndDescends
<1> QED
  BY <1>2, <1>3, <1>4 DEF PollOrder

LEMMA CallDescends ==
  ASSUME Agents, Attempts, NEW c \in Calls, NEW n, CallStep(c, n)
  PROVE  Descends(c)
<1>1. calls[c].at \notin {"idle", "ended"} =>
        calls[c].kind \in Programs /\ calls[c].at \in Awaits(calls[c].kind)
  BY DEF Agents, Ordered
<1>2. CASE PollOrder(c)
  BY <1>2, PollDescends
<1>3. CASE ~PollOrder(c)
  <2>1. /\ calls[c].at \notin {"idle", "ended"}
        /\ \/ Proceed(c)
           \/ \E what \in {"error", orders[c].status} : End(c, what) /\
                  (what = "error" \/ calls[c].at = "output")
           \/ /\ calls[c].at = "preview"
              /\ \E r : calls' = [calls EXCEPT ![c].at = After(c), ![c].admits = r]
    <3>1. CASE QuorumPreview(c)
      <4>1. CASE calls' = [calls EXCEPT ![c].at = After(c),
                                 ![c].admits = IF calls[c].kind \in Choosers THEN "quorum" ELSE @]
        <5>1. calls' = [calls EXCEPT ![c].at = After(c),
                  ![c].admits = IF calls[c].kind \in Choosers THEN "quorum" ELSE calls[c].admits]
          BY <4>1 DEF Agents, CallStates
        <5> QED
          BY <3>1, <5>1 DEF QuorumPreview, At
      <4> QED
        BY <3>1, <4>1 DEF QuorumPreview, At, Throw
    <3> QED
      BY <1>3, <3>1 DEF CallStep, ConnectCofhe, UploadPrompt, uploadToICL, encryptInputs,
            storePromptKey, Submit, LookUpOutput, DecryptOutput, At, Throw
  <2>2. calls[c].at = "output" => orders[c].status \in Finals
    BY DEF Agents, Ordered
  <2> QED
    BY <1>1, <2>1, <2>2, ProceedDescends, EndDescends, PreviewDescends
<1> QED
  BY <1>2, <1>3

LEMMA StartAttempts ==
  ASSUME Agents, Attempts, NEW c \in Calls, NEW k \in Programs, Start(c, k)
  PROVE  /\ calls[c].at = "idle" /\ calls'[c].polls = calls[c].polls
         /\ \A d \in Calls : d # c => calls'[d] = calls[d]
<1>1. PICK p : calls' = [calls EXCEPT ![c].kind = k, ![c].at = p]
  BY DEF Start, StartInfer, StartSubmit, StartScript
<1>2. PICK f : f = [calls EXCEPT ![c].kind = k]
  OBVIOUS
<1>3. calls' = [f EXCEPT ![c].at = p]
  BY <1>1, <1>2
<1>4. f \in [Calls -> CallStates] /\ f[c].polls = calls[c].polls
        /\ \A d \in Calls : d # c => f[d] = calls[d]
  BY <1>2 DEF Agents, CallStates
<1>5. calls'[c].polls = f[c].polls /\ \A d \in Calls : d # c => calls'[d] = f[d]
  BY <1>3, <1>4 DEF CallStates
<1>6. calls[c].at = "idle"
  BY DEF Start, StartInfer, StartSubmit, StartScript, At
<1> QED
  BY <1>4, <1>5, <1>6

\* A step moves one call that is under way nearer to its end, or starts one.
LEMMA CallsMove ==
  ASSUME Agents, Errands, Attempts, [AccountNext]_accountVars
  PROVE  \/ calls' = calls
         \/ \E c \in Calls : Descends(c)
         \/ \E c \in Calls : /\ calls[c].at = "idle" /\ calls'[c].polls = calls[c].polls
                             /\ \A d \in Calls : d # c => calls'[d] = calls[d]
<1>1. ASSUME NEW s \in bound.agent, Start(s[1], s[2])
      PROVE  \E c \in Calls : /\ calls[c].at = "idle" /\ calls'[c].polls = calls[c].polls
                              /\ \A d \in Calls : d # c => calls'[d] = calls[d]
  <2>1. bound.agent \subseteq Calls \X Programs
    BY BoundAssumption DEF Errands
  <2>2. s[1] \in Calls /\ s[2] \in Programs
    BY <1>1, <2>1
  <2> QED
    BY <1>1, <2>2, StartAttempts
<1>2. ASSUME NEW c \in Calls, CallStep(c, bound.nodeIv) PROVE Descends(c)
  BY <1>2, CallDescends
<1>3. ASSUME NEW c \in Calls, OrderEnds(c, bound.nodeIv) PROVE calls' = calls
  BY <1>3 DEF OrderEnds
<1>4. CASE PersonStep \/ DisputeStep \/ RunByHand \/ UNCHANGED accountVars
  BY <1>4 DEF PersonStep, DisputeStep, RunByHand, accountVars, agentVars
<1>5. CASE AgentStep(bound.agent, bound.nodeIv)
  BY <1>1, <1>2, <1>3, <1>5 DEF AgentStep
<1> QED
  BY <1>4, <1>5 DEF AccountNext

LEMMA NextAttempts ==
  Agents /\ Errands /\ Attempts /\ [AccountNext]_accountVars => Attempts'
<1> SUFFICES ASSUME Agents, Errands, Attempts, [AccountNext]_accountVars PROVE Attempts'
  OBVIOUS
<1>1. CASE calls' = calls
  BY <1>1 DEF Attempts
<1>2. ASSUME NEW c \in Calls, Descends(c) PROVE Attempts'
  BY <1>2 DEF Descends, Attempts
<1>3. ASSUME NEW c \in Calls, calls'[c].polls = calls[c].polls,
             \A d \in Calls : d # c => calls'[d] = calls[d]
      PROVE  Attempts'
  BY <1>3 DEF Attempts
<1> QED
  BY <1>1, <1>2, <1>3, CallsMove

(***************************************************************************)
(* A call of the SDK runs out, whatever its job does and however the calls *)
(* beside it fare: it takes at most eleven steps beside its attempts to    *)
(* ask for the job, each of its own steps leaves it fewer, and nobody      *)
(* else's touches it.  Since every await may fail, a call that has not     *)
(* ended can take one (infer, submitEncryptedInference, the scripts).      *)
(***************************************************************************)
CallsDescend ==
    [][\A c \in Calls :
          /\ ~At(c, "idle") => calls'[c] = calls[c] \/ Left(calls'[c]) < Left(calls[c])
          /\ AgentGoesOn(c) => Left(calls'[c]) < Left(calls[c])]_accountVars

THEOREM CallsRunOut ==
    AccountSpec => /\ CallsDescend
                   /\ [](\A c \in Calls : Left(calls[c]) \in 0 .. MaxAttempts + 11)
<1> DEFINE Fewer == \A c \in Calls :
              /\ ~At(c, "idle") => calls'[c] = calls[c] \/ Left(calls'[c]) < Left(calls[c])
              /\ AgentGoesOn(c) => Left(calls'[c]) < Left(calls[c])
           Few == \A c \in Calls : Left(calls[c]) \in 0 .. MaxAttempts + 11
<1>1. Agents /\ Errands /\ Attempts /\ [AccountNext]_accountVars => [Fewer]_accountVars
  <2> SUFFICES ASSUME Agents, Errands, Attempts, [AccountNext]_accountVars,
                      NEW c \in Calls
               PROVE  /\ ~At(c, "idle") =>
                            calls'[c] = calls[c] \/ Left(calls'[c]) < Left(calls[c])
                      /\ AgentGoesOn(c) => Left(calls'[c]) < Left(calls[c])
    OBVIOUS
  <2>1. ~At(c, "idle") => calls'[c] = calls[c] \/ Left(calls'[c]) < Left(calls[c])
    BY CallsMove DEF Descends, At
  <2>2. AgentGoesOn(c) => Left(calls'[c]) < Left(calls[c])
    BY CallDescends DEF AgentGoesOn, Descends
  <2> QED
    BY <2>1, <2>2
<1>2. Attempts => Few
  <2> SUFFICES ASSUME Attempts, NEW c \in Calls
               PROVE  Left(calls[c]) \in 0 .. MaxAttempts + 11
    OBVIOUS
  <2>1. PICK n, m : n = Ahead(calls[c].kind, calls[c].at) /\ m = calls[c].polls
    OBVIOUS
  <2>2. n \in 0 .. 11 /\ m \in 0 .. MaxAttempts
    BY <2>1, AheadIsNat DEF Attempts
  <2>3. n + (MaxAttempts - m) \in 0 .. MaxAttempts + 11
    BY <2>2, AttemptAssumption
  <2> QED
    BY <2>1, <2>3 DEF Left
<1> QED
  BY <1>1, <1>2, InitAgents, NextAgents, InitErrands, NextErrands, InitAttempts, NextAttempts,
     PTL DEF AccountSpec, CallsDescend

-----------------------------------------------------------------------------
(***************************************************************************)
(* The inference pages.  How far the handler of the chat has got decides   *)
(* what there is of its task; a job keeps what it was made with.           *)
(***************************************************************************)
Payments == {"credits", "escrow"}

JobRecords == [task : Messages \cup {NoMessage}, mode : Payments, escrow : BOOLEAN,
               status : JobStatuses \cup {"none"}]

Closures == [message : Messages \cup {NoMessage}, mode : Payments, previewed : BOOLEAN]

Held ==
    /\ place \in Places \cup {"idle"} /\ current \in Closures /\ paymentMode \in Payments
    /\ escrows \in [Messages -> {"none", "created", "funded"}]
    /\ place # "idle" => current.message \in Messages /\ current.message \in DOMAIN history
    /\ place \in {"upload", "create", "fund", "recheck", "submit"} => current.message \in keys
    /\ place \in {"create", "fund", "recheck"} => current.mode = "escrow"
    /\ place \in {"recheck", "submit"} /\ current.mode = "escrow"
          => escrows[current.message] = "funded"

Covered(j) ==
    /\ j.task \in keys
    /\ j.mode = "escrow" <=> j.escrow
    /\ j.escrow => escrows[j.task] = "funded"

\* The job of a task that is in the history, and not the one at hand.
Paid ==
    /\ jobs \in [Requests -> JobRecords]
    /\ \A r \in Requests : jobs[r] # NoJob =>
          /\ jobs[r].task \in Messages /\ jobs[r].task \in DOMAIN history /\ Covered(jobs[r])
          /\ place # "idle" => jobs[r].task # current.message
          /\ \A q \in Requests \ {r} : jobs[q].task # jobs[r].task

LEMMA InitHeld == Init => Held /\ Paid
<1> SUFFICES ASSUME Init PROVE Held /\ Paid
  OBVIOUS
<1>1. NoHandler \in Closures /\ NoJob \in JobRecords
  BY DEF NoHandler, Closures, Payments, NoJob, JobRecords
<1>2. \A r \in Requests : jobs[r] = NoJob
  BY DEF Init, ChatInit
<1> QED
  BY <1>1, <1>2 DEF Init, ChatInit, Held, Paid, Places, Payments

\* A step that makes and ends no job, and touches no escrow but that of the
\* task at hand.
LEMMA PaidKept ==
  ASSUME Paid, jobs' = jobs, DOMAIN history \subseteq DOMAIN history', keys \subseteq keys',
         place' = "idle" \/ (place # "idle" /\ current'.message = current.message),
         \A m \in Messages : place = "idle" \/ m # current.message => escrows'[m] = escrows[m]
  PROVE  Paid'
<1>1. ASSUME NEW r \in Requests, jobs[r] # NoJob
      PROVE  /\ jobs[r].task \in Messages /\ jobs[r].task \in DOMAIN history'
             /\ Covered(jobs[r])'
             /\ place' # "idle" => jobs[r].task # current'.message
             /\ \A q \in Requests \ {r} : jobs[q].task # jobs[r].task
  <2>1. PICK j : j = jobs[r]
    OBVIOUS
  <2>2. /\ j.task \in Messages /\ j.task \in DOMAIN history /\ Covered(j)
        /\ place # "idle" => j.task # current.message
        /\ \A q \in Requests \ {r} : jobs[q].task # j.task
    BY <1>1, <2>1 DEF Paid
  <2>3. escrows'[j.task] = escrows[j.task]
    BY <2>2
  <2>4. Covered(j)'
    BY <2>1, <2>2, <2>3 DEF Covered
  <2> QED
    BY <2>1, <2>2, <2>4
<1> QED
  BY <1>1 DEF Paid

\* The history forgets no entry.
LEMMA HistoryGrows ==
  ASSUME NEW id, NEW s, history' = updateHistoryEntry(history, id, s)
  PROVE  DOMAIN history' = DOMAIN history
BY DEF updateHistoryEntry

LEMMA EffectsGrow ==
  ASSUME NEW r, NEW st, NEW ms, NEW h, Effects(r, st, ms, h)
  PROVE  DOMAIN history' = DOMAIN h
BY DEF Effects, Recorded

LEMMA FailForgets ==
  ASSUME Held, Paid, Fail, UNCHANGED <<jobs, paymentMode>>, keys \subseteq keys',
         escrows' \in [Messages -> {"none", "created", "funded"}],
         \A m \in Messages : place = "idle" \/ m # current.message => escrows'[m] = escrows[m]
  PROVE  (Held /\ Paid)'
<1>1. place' = "idle" /\ current' = NoHandler
  BY DEF Fail, Finish
<1>2. DOMAIN history' = DOMAIN history
  BY HistoryGrows DEF Fail, failAssistantMessage
<1>3. NoHandler \in Closures
  BY DEF NoHandler, Closures, Payments
<1>4. Held'
  BY <1>1, <1>3 DEF Held
<1>5. Paid'
  BY <1>1, <1>2, PaidKept
<1> QED
  BY <1>4, <1>5

\* The next await of the handler, for the same closure.
LEMMA GoOnHeld ==
  ASSUME Held, Paid, NEW p \in Places, GoOn(p), place # "idle",
         current' \in Closures, current'.message = current.message, current'.mode = current.mode,
         DOMAIN history \subseteq DOMAIN history', UNCHANGED <<jobs, paymentMode>>,
         keys \subseteq keys', escrows' \in [Messages -> {"none", "created", "funded"}],
         \A m \in Messages : m # current.message => escrows'[m] = escrows[m],
         p \in {"upload", "create", "fund", "recheck", "submit"} => current.message \in keys',
         p \in {"create", "fund", "recheck"} => current.mode = "escrow",
         p \in {"recheck", "submit"} /\ current.mode = "escrow"
            => escrows'[current.message] = "funded"
  PROVE  (Held /\ Paid)'
<1>1. place' = p /\ p # "idle"
  BY DEF GoOn, Places
<1>2. Held'
  BY <1>1 DEF Held
<1>3. Paid'
  BY <1>1, PaidKept
<1> QED
  BY <1>2, <1>3

\* The new job is the first of its task, whose key is stored and which is paid.
LEMMA SubmitJobHeld ==
  ASSUME Held, Paid, SubmitJob
  PROVE  (Held /\ Paid)'
<1>1. UNCHANGED <<paymentMode, escrows, keys>> /\ place = "submit"
  BY DEF SubmitJob, userVars, chainVars
<1>2. CASE Fail /\ UNCHANGED jobs
  BY <1>1, <1>2, FailForgets DEF Held
<1>3. ASSUME NEW r \in Requests, jobs[r] = NoJob, jobs' = [jobs EXCEPT ![r] = NewJob],
             Fail \/ (Submitted(r) /\ Finish)
      PROVE  (Held /\ Paid)'
  <2>1. place' = "idle" /\ current' = NoHandler
    BY <1>3 DEF Fail, Finish
  <2>2. NoHandler \in Closures
    BY DEF NoHandler, Closures, Payments
  <2>3. Held'
    BY <1>1, <2>1, <2>2 DEF Held
  <2>4. DOMAIN history' = DOMAIN history
    <3>1. CASE Fail
      BY <3>1, HistoryGrows DEF Fail, failAssistantMessage
    <3>2. CASE Submitted(r)
      BY <3>2, EffectsGrow DEF Submitted
    <3> QED
      BY <1>3, <3>1, <3>2
  <2>5. PICK m, n : m = current.message /\ n = NewJob
    OBVIOUS
  <2>6. m \in Messages /\ m \in DOMAIN history /\ m \in keys
    BY <1>1, <2>5 DEF Held
  <2>7. /\ n.task = m /\ n.mode = current.mode /\ n.escrow = (current.mode = "escrow")
        /\ n.status = "RUNNING"
    BY <2>5 DEF NewJob, PaysWith
  <2>8. n \in JobRecords
    BY <2>5, <2>6 DEF NewJob, PaysWith, JobRecords, Held, Closures, JobStatuses
  <2>9. Covered(n)
    BY <1>1, <2>5, <2>6, <2>7 DEF Covered, Held
  <2>10. \A q \in Requests : jobs[q].task # m
    <3>1. ASSUME NEW q \in Requests, jobs[q] = NoJob PROVE jobs[q].task # m
      BY <2>6, <3>1, MessageAssumption DEF NoJob, NoMessage
    <3>2. ASSUME NEW q \in Requests, jobs[q] # NoJob PROVE jobs[q].task # m
      BY <1>1, <2>5, <3>2 DEF Paid
    <3> QED
      BY <3>1, <3>2
  <2>11. jobs' \in [Requests -> JobRecords] /\ jobs'[r] = n
    BY <1>3, <2>5, <2>8 DEF Paid
  <2>12. \A q \in Requests \ {r} : jobs'[q] = jobs[q]
    BY <1>3 DEF Paid
  <2>13. ASSUME NEW q \in Requests, jobs'[q] # NoJob
         PROVE  /\ jobs'[q].task \in Messages /\ jobs'[q].task \in DOMAIN history
                /\ Covered(jobs'[q])
                /\ \A p \in Requests \ {q} : jobs'[p].task # jobs'[q].task
    <3>1. CASE q = r
      BY <2>6, <2>7, <2>9, <2>10, <2>11, <2>12, <3>1
    <3>2. CASE q # r
      <4>1. PICK j : j = jobs[q]
        OBVIOUS
      <4>2. jobs'[q] = j /\ j # NoJob /\ j.task # m
        BY <2>10, <2>12, <2>13, <3>2, <4>1
      <4>3. /\ j.task \in Messages /\ j.task \in DOMAIN history /\ Covered(j)
            /\ \A p \in Requests \ {q} : jobs[p].task # j.task
        BY <4>1, <4>2 DEF Paid
      <4>4. \A p \in Requests \ {q} : jobs'[p].task # j.task
        BY <2>7, <2>11, <2>12, <4>2, <4>3
      <4> QED
        BY <4>2, <4>3, <4>4
    <3> QED
      BY <3>1, <3>2
  <2>14. Paid'
    BY <1>1, <2>1, <2>4, <2>11, <2>13 DEF Paid, Covered
  <2> QED
    BY <2>3, <2>14
<1> QED
  BY <1>2, <1>3 DEF SubmitJob

LEMMA HandlerHeld ==
  ASSUME Held, Paid, Handler
  PROVE  (Held /\ Paid)'
<1> USE DEF Places
<1>1. place # "idle" => current.message \in Messages /\ current.message \in DOMAIN history
  BY DEF Held
<1>2. current \in Closures
  BY DEF Held
<1>3. ASSUME NEW e, escrows' = [escrows EXCEPT ![current.message] = e], NEW m \in Messages,
             m # current.message
      PROVE  escrows'[m] = escrows[m]
  BY <1>3 DEF Held
<1>4. CASE EncryptKey
  <2>1. UNCHANGED <<jobs, paymentMode, escrows, keys>> /\ place = "encrypt"
    BY <1>4 DEF EncryptKey, userVars, chainVars
  <2>2. CASE Fail
    BY <2>1, <2>2, FailForgets DEF Held
  <2>3. CASE GoOn("preview") /\ UNCHANGED <<current, viewVars>>
    <3>1. history' = history
      BY <2>3 DEF viewVars
    <3> QED
      BY <1>2, <2>1, <2>3, <3>1, GoOnHeld DEF Held
  <2> QED
    BY <1>4, <2>2, <2>3 DEF EncryptKey
<1>5. CASE PreviewQuorum
  <2>1. /\ UNCHANGED <<jobs, paymentMode, escrows, keys, history>>
        /\ place = "preview" /\ GoOn("store")
    BY <1>5 DEF PreviewQuorum, userVars, chainVars, viewVars
  <2>2. PICK ok \in BOOLEAN : current' = [current EXCEPT !.previewed = ok]
    BY <1>5 DEF PreviewQuorum
  <2>3. /\ current' \in Closures /\ current'.message = current.message
        /\ current'.mode = current.mode
    BY <1>2, <2>2 DEF Closures
  <2> QED
    BY <2>1, <2>3, GoOnHeld DEF Held
<1>6. CASE StoreKey
  <2>1. UNCHANGED <<jobs, paymentMode, escrows>> /\ place = "store" /\ keys \subseteq keys'
    BY <1>6 DEF StoreKey, userVars
  <2>2. CASE Fail
    BY <2>1, <2>2, FailForgets DEF Held
  <2>3. CASE /\ GoOn("upload") /\ UNCHANGED current /\ keys' = keys \cup {current.message}
             /\ updateAssistantStatus(current.message, "processing")
    <3>1. history' = history
      BY <2>3 DEF updateAssistantStatus
    <3> QED
      BY <1>2, <2>1, <2>3, <3>1, GoOnHeld DEF Held
  <2> QED
    BY <1>6, <2>2, <2>3 DEF StoreKey
<1>7. CASE Upload
  <2>1. UNCHANGED <<jobs, paymentMode, escrows, keys>> /\ place = "upload"
    BY <1>7 DEF Upload, userVars, chainVars
  <2>2. current.message \in keys
    BY <2>1 DEF Held
  <2>3. CASE Fail
    BY <2>1, <2>3, FailForgets DEF Held
  <2>4. CASE /\ current.mode = "escrow" /\ GoOn("create") /\ UNCHANGED current
             /\ updateAssistantStatus(current.message, "escrow")
    <3>1. history' = history
      BY <2>4 DEF updateAssistantStatus
    <3> QED
      BY <1>2, <2>1, <2>2, <2>4, <3>1, GoOnHeld DEF Held
  <2>5. CASE current.mode = "credits" /\ GoOn("submit") /\ UNCHANGED <<current, viewVars>>
    <3>1. history' = history
      BY <2>5 DEF viewVars
    <3> QED
      BY <1>2, <2>1, <2>2, <2>5, <3>1, GoOnHeld DEF Held
  <2> QED
    BY <1>7, <2>3, <2>4, <2>5 DEF Upload
<1>8. CASE CreateEscrow
  <2>1. UNCHANGED <<jobs, paymentMode, keys>> /\ place = "create"
    BY <1>8 DEF CreateEscrow, userVars
  <2>2. current.message \in keys /\ current.mode = "escrow"
    BY <2>1 DEF Held
  <2>3. PICK e \in {"none", "created"} : escrows' = [escrows EXCEPT ![current.message] = e]
    BY <1>8 DEF CreateEscrow
  <2>4. escrows' \in [Messages -> {"none", "created", "funded"}]
    BY <2>3 DEF Held
  <2>5. \A m \in Messages : m # current.message => escrows'[m] = escrows[m]
    BY <1>3, <2>3
  <2>6. CASE Fail
    BY <2>1, <2>4, <2>5, <2>6, FailForgets
  <2>7. CASE GoOn("fund") /\ UNCHANGED <<current, viewVars>>
    <3>1. history' = history
      BY <2>7 DEF viewVars
    <3> QED
      BY <1>2, <2>1, <2>2, <2>4, <2>5, <2>7, <3>1, GoOnHeld
  <2> QED
    BY <1>8, <2>6, <2>7 DEF CreateEscrow
<1>9. CASE FundEscrow
  <2>1. UNCHANGED <<jobs, paymentMode, keys>> /\ place = "fund"
    BY <1>9 DEF FundEscrow, userVars
  <2>2. current.message \in keys /\ current.mode = "escrow"
    BY <2>1 DEF Held
  <2>3. PICK e \in {"created", "funded"} :
           (Fail \/ e = "funded") /\ escrows' = [escrows EXCEPT ![current.message] = e]
    BY <1>9 DEF FundEscrow
  <2>4. escrows' \in [Messages -> {"none", "created", "funded"}]
    BY <2>3 DEF Held
  <2>5. \A m \in Messages : m # current.message => escrows'[m] = escrows[m]
    BY <1>3, <2>3
  <2>6. CASE Fail
    BY <2>1, <2>4, <2>5, <2>6, FailForgets
  <2>7. CASE e = "funded" /\ GoOn("recheck") /\ UNCHANGED <<current, viewVars>>
    <3>1. history' = history
      BY <2>7 DEF viewVars
    <3>2. escrows'[current.message] = "funded"
      BY <1>1, <2>1, <2>3, <2>7 DEF Held
    <3> QED
      BY <1>2, <2>1, <2>2, <2>4, <2>5, <2>7, <3>1, <3>2, GoOnHeld
  <2> QED
    BY <1>9, <2>3, <2>6, <2>7 DEF FundEscrow
<1>10. CASE RecheckQuorum
  <2>1. UNCHANGED <<jobs, paymentMode, escrows, keys>> /\ place = "recheck"
    BY <1>10 DEF RecheckQuorum, userVars, chainVars
  <2>2. current.message \in keys /\ (current.mode = "escrow" => escrows[current.message] = "funded")
    BY <2>1 DEF Held
  <2>3. CASE Fail
    BY <2>1, <2>3, FailForgets DEF Held
  <2>4. CASE GoOn("submit") /\ UNCHANGED <<current, viewVars>>
    <3>1. history' = history
      BY <2>4 DEF viewVars
    <3> QED
      BY <1>2, <2>1, <2>2, <2>4, <3>1, GoOnHeld DEF Held
  <2> QED
    BY <1>10, <2>3, <2>4 DEF RecheckQuorum
<1>11. CASE SubmitJob
  BY <1>11, SubmitJobHeld
<1> QED
  BY <1>4, <1>5, <1>6, <1>7, <1>8, <1>9, <1>10, <1>11 DEF Handler

LEMMA OutsideHeld ==
  ASSUME Held, Paid, UNCHANGED <<handlerVars, chainVars, jobs>>, paymentMode' \in Payments,
         DOMAIN history \subseteq DOMAIN history'
  PROVE  (Held /\ Paid)'
<1>1. UNCHANGED <<place, current, escrows, keys, jobs>>
  BY DEF handlerVars, chainVars
<1>2. Held'
  BY <1>1 DEF Held
<1>3. Paid'
  BY <1>1, PaidKept
<1> QED
  BY <1>2, <1>3

LEMMA JobEndsHeld ==
  ASSUME Held, Paid, NEW r \in Requests, JobEnds(r)
  PROVE  (Held /\ Paid)'
<1>1. /\ UNCHANGED <<place, current, escrows, keys, paymentMode, history>>
      /\ jobs[r].status = "RUNNING"
  BY DEF JobEnds, handlerVars, chainVars, userVars, viewVars
<1>2. PICK e \in JobStatuses : jobs' = [jobs EXCEPT ![r].status = e]
  BY DEF JobEnds, JobStatuses
<1>3. PICK j, n : j = jobs[r] /\ n = [j EXCEPT !.status = e]
  OBVIOUS
<1>4. j \in JobRecords /\ j # NoJob
  BY <1>1, <1>3 DEF Paid, NoJob
<1>5. n \in JobRecords /\ n.task = j.task /\ n.mode = j.mode /\ n.escrow = j.escrow
  BY <1>3, <1>4 DEF JobRecords
<1>6. jobs' \in [Requests -> JobRecords] /\ jobs'[r] = n
  BY <1>2, <1>3, <1>5 DEF Paid
<1>7. \A q \in Requests \ {r} : jobs'[q] = jobs[q]
  BY <1>2 DEF Paid
<1>8. \A q \in Requests : jobs'[q].task = jobs[q].task
  BY <1>3, <1>5, <1>6, <1>7
<1>9. ASSUME NEW q \in Requests, jobs'[q] # NoJob
      PROVE  /\ jobs[q].task \in Messages /\ jobs[q].task \in DOMAIN history
             /\ Covered(jobs'[q])
             /\ place # "idle" => jobs[q].task # current.message
             /\ \A p \in Requests \ {q} : jobs[p].task # jobs[q].task
  <2>1. jobs[q] # NoJob
    BY <1>3, <1>4, <1>7, <1>9
  <2>2. Covered(jobs[q])
    BY <2>1 DEF Paid
  <2>3. Covered(jobs'[q])
    <3>1. CASE q = r
      BY <1>3, <1>5, <1>6, <2>2, <3>1 DEF Covered
    <3> QED
      BY <1>7, <2>2, <3>1
  <2> QED
    BY <2>1, <2>3 DEF Paid
<1>10. Paid'
  BY <1>1, <1>6, <1>8, <1>9 DEF Paid, Covered
<1> QED
  BY <1>1, <1>10 DEF Held

LEMMA NextHeld == Held /\ Paid /\ [Next]_vars => (Held /\ Paid)'
<1> SUFFICES ASSUME Held, Paid, [Next]_vars PROVE (Held /\ Paid)'
  OBVIOUS
<1>1. paymentMode \in Payments
  BY DEF Held
<1>2. CASE UNCHANGED chatVars
  BY <1>1, <1>2, OutsideHeld DEF chatVars, userVars, viewVars
<1>3. ASSUME NEW p \in polls, ReceiveJob(p) PROVE (Held /\ Paid)'
  <2>1. UNCHANGED <<handlerVars, chainVars, jobs, paymentMode>>
    BY <1>3 DEF ReceiveJob, userVars
  <2>2. DOMAIN history' = DOMAIN history
    BY <1>3, EffectsGrow DEF ReceiveJob, viewVars
  <2> QED
    BY <1>1, <2>1, <2>2, OutsideHeld
<1>4. CASE Unmount
  BY <1>4, OutsideHeld DEF Unmount, Payments
<1>5. CASE Chat
  <2>1. CASE Connect \/ Disconnect
    BY <1>1, <2>1, OutsideHeld DEF Connect, Disconnect, userVars, viewVars
  <2>2. CASE TogglePayment
    BY <2>2, OutsideHeld DEF TogglePayment, viewVars, Payments
  <2>3. CASE Leave
    BY <1>4, <2>3 DEF Leave
  <2>4. ASSUME NEW m \in Messages, Decrypt(m) PROVE (Held /\ Paid)'
    BY <1>1, <2>4, OutsideHeld DEF Decrypt, userVars
  <2>5. ASSUME NEW d \in decrypts, EndDecrypt(d) PROVE (Held /\ Paid)'
    <3>1. UNCHANGED <<handlerVars, chainVars, jobs, paymentMode>>
      BY <2>5 DEF EndDecrypt, userVars
    <3>2. DOMAIN history' = DOMAIN history
      BY <2>5, HistoryGrows DEF EndDecrypt
    <3> QED
      BY <1>1, <3>1, <3>2, OutsideHeld
  <2>6. ASSUME NEW m \in Messages, Send(m) PROVE (Held /\ Paid)'
    <3>1. UNCHANGED <<escrows, keys, jobs, paymentMode>> /\ place' = "encrypt"
      BY <2>6 DEF Send, chainVars, userVars, GoOn
    <3>2. current' = [message |-> m, mode |-> paymentMode, previewed |-> FALSE]
      BY <2>6 DEF Send
    <3>3. current' \in Closures /\ current'.message = m
      BY <1>1, <3>2 DEF Closures
    <3>4. DOMAIN history' = DOMAIN history \cup {m} /\ m \notin DOMAIN history
      BY <2>6 DEF Send
    <3>5. Held'
      BY <3>1, <3>3, <3>4 DEF Held, Places
    <3>6. ASSUME NEW r \in Requests, jobs[r] # NoJob PROVE jobs[r].task # m
      BY <3>4, <3>6 DEF Paid
    <3>7. Paid'
      BY <3>1, <3>3, <3>4, <3>6 DEF Paid, Covered
    <3> QED
      BY <3>5, <3>7
  <2> QED
    BY <1>5, <2>1, <2>2, <2>3, <2>4, <2>5, <2>6, HandlerHeld, JobEndsHeld DEF Chat, ChatStep
<1>6. CASE PollRequest \/ ServePoll \/ FailPoll
  BY <1>2, <1>6 DEF PollRequest, ServePoll, FailPoll, Others
<1>7. CASE ReceivePoll
  BY <1>2, <1>3, <1>7 DEF ReceivePoll
<1>8. CASE PageStep /\ UNCHANGED <<chatVars, riskVars, session>>
  BY <1>2, <1>8
<1>9. CASE OpenFromHistory \/ OpenDisputeForm
  BY <1>2, <1>9 DEF OpenFromHistory, OpenDisputeForm
<1>10. CASE BeginRisk \/ ContinueRisk
  BY <1>2, <1>10 DEF BeginRisk, ContinueRisk
<1>11. CASE SubmitRisk
  BY <1>2, <1>4, <1>11 DEF SubmitRisk
<1>12. CASE UNCHANGED vars
  BY <1>2, <1>12 DEF vars
<1> QED
  BY <1>5, <1>6, <1>7, <1>8, <1>9, <1>10, <1>11, <1>12 DEF Next

\* What is submitted is the account's own, and every node may read it.
RiskRecords ==
    [known : BOOLEAN, failed : BOOLEAN, status : RiskStatuses, led : BOOLEAN,
     verdicts : 0 .. Verifiers, verifiers : {Verifiers}, permits : {0, Verifiers + 1},
     owner : Owners]

Permitted(x) ==
    /\ x.known => x.owner = "account" /\ x.permits = x.verifiers + 1
    /\ x.known \/ x.status = "queued"

Vaulted ==
    /\ risks \in [RiskRequests -> RiskRecords]
    /\ vaultOwner \in Owners
    /\ riskPlace = "submit" => vaultOwner = "account"
    /\ \A r \in RiskRequests : Permitted(risks[r])

LEMMA NoRiskTyped == NoRisk \in RiskRecords /\ Permitted(NoRisk)
BY VerifierAssumption DEF NoRisk, RiskRecords, RiskStatuses, Owners, Permitted

LEMMA InitVaulted == Init => Vaulted
BY NoRiskTyped DEF Init, RiskInit, Vaulted, Owners

LEMMA RiskChanged ==
  ASSUME Vaulted, NEW r \in RiskRequests, NEW x \in RiskRecords, Permitted(x),
         risks' = [risks EXCEPT ![r] = x], vaultOwner' \in Owners,
         riskPlace' = "idle" \/ UNCHANGED <<riskPlace, vaultOwner>>
  PROVE  Vaulted'
<1>1. risks' \in [RiskRequests -> RiskRecords] /\ risks'[r] = x
  BY DEF Vaulted
<1>2. \A q \in RiskRequests \ {r} : risks'[q] = risks[q]
  BY DEF Vaulted
<1>3. \A q \in RiskRequests : Permitted(risks'[q])
  BY <1>1, <1>2 DEF Vaulted
<1> QED
  BY <1>1, <1>3 DEF Vaulted, Permitted

LEMMA RiskProgressVaulted ==
  ASSUME Vaulted, NEW r \in RiskRequests, RiskProgress(r)
  PROVE  Vaulted'
<1>1. PICK x : x = risks[r]
  OBVIOUS
<1>2. x \in RiskRecords /\ Permitted(x) /\ UNCHANGED <<riskPlace, vaultOwner>>
  BY <1>1 DEF Vaulted, RiskProgress
<1>3. ASSUME NEW y \in RiskRecords, y.known = x.known, y.owner = x.owner, y.permits = x.permits,
             y.verifiers = x.verifiers, x.known, risks' = [risks EXCEPT ![r] = y]
      PROVE  Vaulted'
  BY <1>2, <1>3, RiskChanged DEF Permitted, Vaulted
<1> x.known
  BY <1>1 DEF RiskProgress, Undecided
<1>4. CASE risks' = [risks EXCEPT ![r].led = TRUE]
  <2>1. PICK y : y = [x EXCEPT !.led = TRUE]
    OBVIOUS
  <2>2. /\ y \in RiskRecords /\ y.known = x.known /\ y.owner = x.owner
        /\ y.permits = x.permits /\ y.verifiers = x.verifiers
    BY <1>2, <2>1 DEF RiskRecords
  <2> QED
    BY <1>1, <1>3, <1>4, <2>1, <2>2
<1>5. CASE risks' = [risks EXCEPT ![r].failed = TRUE]
  <2>1. PICK y : y = [x EXCEPT !.failed = TRUE]
    OBVIOUS
  <2>2. /\ y \in RiskRecords /\ y.known = x.known /\ y.owner = x.owner
        /\ y.permits = x.permits /\ y.verifiers = x.verifiers
    BY <1>2, <2>1 DEF RiskRecords
  <2> QED
    BY <1>1, <1>3, <1>5, <2>1, <2>2
<1>6. CASE risks[r].verdicts < Verifiers /\ risks' = [risks EXCEPT ![r].verdicts = @ + 1]
  <2>1. PICK n : n = x.verdicts + 1
    OBVIOUS
  <2>2. n \in 0 .. Verifiers
    BY <1>1, <1>2, <1>6, <2>1, VerifierAssumption DEF RiskRecords
  <2>3. PICK y : y = [x EXCEPT !.verdicts = n]
    OBVIOUS
  <2>4. /\ y \in RiskRecords /\ y.known = x.known /\ y.owner = x.owner
        /\ y.permits = x.permits /\ y.verifiers = x.verifiers
    BY <1>2, <2>2, <2>3 DEF RiskRecords
  <2>5. risks' = [risks EXCEPT ![r] = y]
    BY <1>1, <1>6, <2>1, <2>3
  <2> QED
    BY <1>3, <2>4, <2>5
<1>7. ASSUME NEW s \in {"accepted", "rejected", "disputed"},
             risks' = [risks EXCEPT ![r].status = s]
      PROVE  Vaulted'
  <2>1. PICK y : y = [x EXCEPT !.status = s]
    OBVIOUS
  <2>2. /\ y \in RiskRecords /\ y.known = x.known /\ y.owner = x.owner
        /\ y.permits = x.permits /\ y.verifiers = x.verifiers
    BY <1>2, <2>1 DEF RiskRecords, RiskStatuses
  <2> QED
    BY <1>1, <1>3, <1>7, <2>1, <2>2
<1> QED
  BY <1>4, <1>5, <1>6, <1>7 DEF RiskProgress

LEMMA NextVaulted == Vaulted /\ [Next]_vars => Vaulted'
<1> SUFFICES ASSUME Vaulted, [Next]_vars PROVE Vaulted'
  OBVIOUS
<1>1. CASE UNCHANGED riskVars
  BY <1>1 DEF riskVars, Vaulted
<1>2. CASE BeginRisk
  BY <1>2 DEF BeginRisk, StartRisk, Vaulted, Owners
<1>3. CASE SubmitRisk
  <2>1. PICK r \in RiskRequests : CreateRisk(r)
    BY <1>3 DEF SubmitRisk
  <2>2. PICK x : x = NewRisk
    OBVIOUS
  <2>3. x = [known |-> TRUE, failed |-> FALSE, status |-> "queued", led |-> FALSE,
             verdicts |-> 0, verifiers |-> Verifiers, permits |-> Verifiers + 1,
             owner |-> "account"]
    BY <2>1, <2>2 DEF NewRisk, NoRisk, Vaulted, CreateRisk
  <2>4. x \in RiskRecords /\ Permitted(x)
    BY <2>3, VerifierAssumption DEF RiskRecords, RiskStatuses, Owners, Senders, Permitted
  <2> QED
    BY <2>1, <2>2, <2>4, RiskChanged DEF CreateRisk, Owners
<1>4. CASE ContinueRisk
  <2>1. CASE GiveUp
    BY <2>1 DEF GiveUp, Vaulted, Owners
  <2>2. CASE EncryptFeatures
    BY <2>1, <2>2 DEF EncryptFeatures, Vaulted
  <2>3. CASE StoreInputs
    BY <2>1, <2>3 DEF StoreInputs, Stored, Senders, Vaulted, Owners
  <2>4. CASE ShareInputs
    BY <2>1, <2>4 DEF ShareInputs, OwnInputs, Vaulted
  <2> QED
    BY <1>4, <2>1, <2>2, <2>3, <2>4, RiskProgressVaulted DEF ContinueRisk, RefuseRisk
<1>5. CASE PollRequest \/ ServePoll \/ FailPoll
  BY <1>1, <1>5 DEF PollRequest, ServePoll, FailPoll, Others
<1>6. CASE ReceivePoll
  BY <1>1, <1>6 DEF ReceivePoll
<1>7. CASE Chat \/ OpenFromHistory \/ OpenDisputeForm
  BY <1>1, <1>7 DEF Chat, OpenFromHistory, OpenDisputeForm
<1>8. CASE PageStep /\ UNCHANGED <<chatVars, riskVars, session>>
  BY <1>1, <1>8
<1>9. CASE UNCHANGED vars
  BY <1>1, <1>9 DEF vars
<1> QED
  BY <1>2, <1>3, <1>4, <1>5, <1>6, <1>7, <1>8, <1>9 DEF Next

(***************************************************************************)
(* Whatever the user does to the page, its payment and its wallet in the   *)
(* meantime, a job was submitted after its key was stored and is paid as   *)
(* was set when the user pressed send, and a risk request reads inputs of  *)
(* the account that sends it (handleChatSubmit, handleRiskSubmit).         *)
(***************************************************************************)
THEOREM SubmittedJobsAreCovered == Spec => []JobsAreCovered
<1>1. Paid /\ Vaulted => JobsAreCovered
  <2> SUFFICES ASSUME Paid, Vaulted PROVE JobsAreCovered
    OBVIOUS
  <2>1. ASSUME NEW r \in RiskRequests, risks[r].known
        PROVE  risks[r].owner = "account" /\ risks[r].permits = risks[r].verifiers + 1
    BY <2>1 DEF Vaulted, Permitted
  <2>2. ASSUME NEW r \in Requests, jobs[r] # NoJob
        PROVE  /\ jobs[r].task \in keys
               /\ jobs[r].mode = "escrow" <=> jobs[r].escrow
               /\ jobs[r].escrow => escrows[jobs[r].task] = "funded"
               /\ \A q \in Requests \ {r} : jobs[q].task # jobs[r].task
    <3>1. Covered(jobs[r]) /\ \A q \in Requests \ {r} : jobs[q].task # jobs[r].task
      BY <2>2 DEF Paid
    <3>2. PICK j : j = jobs[r]
      OBVIOUS
    <3> QED
      BY <3>1, <3>2 DEF Covered
  <2> QED
    BY <2>1, <2>2 DEF JobsAreCovered
<1> QED
  BY <1>1, InitHeld, NextHeld, InitVaulted, NextVaulted, PTL DEF Spec

-----------------------------------------------------------------------------
(***************************************************************************)
(* The hook.  What the services have accepted stays accepted, so that an   *)
(* answer that was under way for long is still true when it arrives.       *)
(***************************************************************************)
LEMMA AcceptedStays ==
  ASSUME Paid, Vaulted, [Next]_vars, NEW r \in Ids, AcceptedBy(r)
  PROVE  AcceptedBy(r)'
<1>1. CASE r \in Requests
  <2>1. jobs[r].status = "COMPLETED"
    BY <1>1 DEF AcceptedBy
  <2>2. jobs[r] # NoJob
    BY <2>1 DEF NoJob
  <2>3. jobs'[r] = jobs[r]
    <3>1. CASE UNCHANGED jobs
      BY <3>1
    <3>2. CASE SubmitJob
      <4>1. ASSUME NEW q \in Requests, jobs[q] = NoJob, jobs' = [jobs EXCEPT ![q] = NewJob]
            PROVE  jobs'[r] = jobs[r]
        BY <1>1, <2>2, <4>1 DEF Paid
      <4> QED
        BY <3>1, <3>2, <4>1 DEF SubmitJob
    <3>3. ASSUME NEW q \in Requests, JobEnds(q) PROVE jobs'[r] = jobs[r]
      <4>1. q # r
        BY <2>1, <3>3 DEF JobEnds
      <4> QED
        BY <1>1, <3>3, <4>1 DEF JobEnds, Paid
    <3>4. CASE Chat
      <4>1. CASE Handler
        BY <3>1, <3>2, <4>1 DEF Handler, EncryptKey, PreviewQuorum, StoreKey, Upload,
                                CreateEscrow, FundEscrow, RecheckQuorum
      <4>2. CASE Connect \/ Disconnect \/ TogglePayment \/ Leave
        BY <3>1, <4>2 DEF Connect, Disconnect, TogglePayment, Leave, Unmount
      <4>3. ASSUME NEW m \in Messages, Send(m) \/ Decrypt(m) PROVE UNCHANGED jobs
        BY <4>3 DEF Send, Decrypt
      <4>4. ASSUME NEW d \in decrypts, EndDecrypt(d) PROVE UNCHANGED jobs
        BY <4>4 DEF EndDecrypt
      <4> QED
        BY <3>1, <3>3, <3>4, <4>1, <4>2, <4>3, <4>4 DEF Chat, ChatStep
    <3>5. ASSUME ~Chat PROVE UNCHANGED jobs
      <4> USE DEF chatVars
      <4>1. CASE PollRequest \/ ServePoll \/ FailPoll
        BY <4>1 DEF PollRequest, ServePoll, FailPoll, Others
      <4>2. CASE ReceivePoll
        BY <4>2 DEF ReceivePoll, ReceiveJob
      <4>3. CASE SubmitRisk
        BY <4>3 DEF SubmitRisk, Unmount
      <4>4. CASE BeginRisk \/ ContinueRisk \/ OpenFromHistory \/ OpenDisputeForm
        BY <4>4 DEF BeginRisk, ContinueRisk, OpenFromHistory, OpenDisputeForm
      <4>5. CASE (PageStep /\ UNCHANGED <<chatVars, riskVars, session>>) \/ UNCHANGED vars
        BY <4>5 DEF vars
      <4> QED
        BY <3>5, <4>1, <4>2, <4>3, <4>4, <4>5 DEF Next
    <3> QED
      BY <3>1, <3>4, <3>5
  <2> QED
    BY <1>1, <2>1, <2>3 DEF AcceptedBy
<1>2. CASE r \in RiskRequests
  <2>1. r \notin Requests
    BY <1>2, RequestAssumption
  <2>2. PICK x : x = risks[r]
    OBVIOUS
  <2>3. x.status \in {"accepted", "disputed"} /\ x \in RiskRecords /\ x.known
    BY <1>2, <2>1, <2>2 DEF AcceptedBy, Vaulted, Permitted
  <2>4. risks'[r].status \in {"accepted", "disputed"}
    <3>1. CASE UNCHANGED risks
      BY <2>2, <2>3, <3>1
    <3>2. ASSUME NEW q \in RiskRequests, RiskProgress(q)
          PROVE  risks'[r].status \in {"accepted", "disputed"}
      <4>1. CASE q # r
        <5>1. risks'[r] = risks[r]
          BY <1>2, <3>2, <4>1 DEF RiskProgress, Vaulted
        <5> QED
          BY <2>2, <2>3, <5>1
      <4>2. CASE q = r
        <5>1. risks' = [risks EXCEPT ![r].status = "disputed"]
          BY <2>2, <2>3, <3>2, <4>2 DEF RiskProgress, Undecided
        <5> QED
          BY <1>2, <2>2, <2>3, <5>1 DEF Vaulted, RiskRecords
      <4> QED
        BY <4>1, <4>2
    <3>3. ASSUME NEW q \in RiskRequests, CreateRisk(q)
          PROVE  risks'[r].status \in {"accepted", "disputed"}
      <4>1. q # r
        BY <2>2, <2>3, <3>3 DEF CreateRisk
      <4>2. risks'[r] = risks[r]
        BY <1>2, <3>3, <4>1 DEF CreateRisk, Vaulted
      <4> QED
        BY <2>2, <2>3, <4>2
    <3>4. CASE BeginRisk \/ ContinueRisk
      BY <3>1, <3>2, <3>4 DEF BeginRisk, StartRisk, ContinueRisk, EncryptFeatures, StoreInputs,
                              ShareInputs, RefuseRisk, GiveUp
    <3>5. CASE UNCHANGED riskVars
      BY <3>1, <3>5 DEF riskVars
    <3>6. CASE PollRequest \/ ServePoll \/ FailPoll \/ ReceivePoll
      BY <3>5, <3>6 DEF PollRequest, ServePoll, FailPoll, ReceivePoll, Others
    <3>7. CASE Chat \/ OpenFromHistory \/ OpenDisputeForm
      BY <3>5, <3>7 DEF Chat, OpenFromHistory, OpenDisputeForm
    <3>8. CASE (PageStep /\ UNCHANGED <<chatVars, riskVars, session>>) \/ UNCHANGED vars
      BY <3>5, <3>8 DEF vars
    <3>9. CASE SubmitRisk
      BY <3>3, <3>9 DEF SubmitRisk
    <3> QED
      BY <3>4, <3>6, <3>7, <3>8, <3>9 DEF Next
  <2> QED
    BY <1>2, <2>1, <2>4 DEF AcceptedBy
<1> QED
  BY <1>1, <1>2 DEF Ids

\* An entry of the page ms and of the history h; ids have been taken over by
\* auto-decryption.
Tidy(e) ==
    /\ e \in Entry
    /\ e.status = "unsent" => e.request = NoRequest
    /\ e.status = "ready" => e.output # NoRequest
    /\ e.status = "done" => e.content # NoRequest

View(ms, h, ids) ==
    /\ ms \in [Messages -> Entry] /\ \A m \in Messages : Tidy(ms[m])
    /\ DOMAIN h \subseteq Messages /\ \A m \in DOMAIN h : h[m] \in Record
    /\ \A m \in Messages : ms[m].status # "unsent" => m \in DOMAIN h
    /\ \A m \in Messages : ms[m].status \in Settled /\ ms[m].request \notin ids
          => h[m].status = ms[m].status

\* Nobody decrypts the entry at hand, and nothing of it is known yet.
Chatting ==
    /\ View(messages, history, decryptedIds)
    /\ decrypts \subseteq [by : Requests \cup Messages, output : Requests]
    /\ ~shown => \A m \in Messages : messages[m] = Unsent
    /\ \A d \in decrypts : d.by \in Messages => d.by \in DOMAIN history
    /\ shown => \A d \in decrypts : d.by \in Requests => d.by \in decryptedIds
    /\ place # "idle" => \A d \in decrypts : d.by # current.message
    /\ place # "idle" /\ shown => /\ messages[current.message].status \in Waiting
                                 /\ messages[current.message].request = NoRequest

\* A GET, answered or not, and the answer that is shown.
Gets == [of : Ids, saw : Stages \cup {"nothing"}]

Fits(st, r) == st = NoStatus \/ (st \in [of : Ids, stage : Stages] /\ st.of = r)

Hooked ==
    /\ requestId \in Ids \cup {NoRequest} /\ Fits(status, requestId)
    /\ status.stage = "ACCEPTED" => AcceptedBy(requestId)
    /\ polls \subseteq Gets
    /\ \A p \in polls : p.saw = "ACCEPTED" => AcceptedBy(p.of)
    /\ shown => requestId \in Requests \cup {NoRequest}

LEMMA InitHooked == Init => Hooked
BY DEF Init, HookInit, Hooked, Fits, NoStatus

LEMMA StagesAre ==
  ASSUME Vaulted, NEW r \in Ids
  PROVE  StageOf(r) \in Stages /\ (StageOf(r) = "ACCEPTED" => AcceptedBy(r))
<1>1. CASE r \in Requests
  BY <1>1 DEF StageOf, mapJobToDemoStatus, Stages, AcceptedBy
<1>2. CASE r \notin Requests
  <2>1. PICK x : x = risks[r]
    OBVIOUS
  <2>2. StageOf(r) = deriveStage(x)
    BY <1>2, <2>1 DEF StageOf
  <2>3. deriveStage(x) \in Stages /\ (deriveStage(x) = "ACCEPTED" => x.status = "accepted")
    BY DEF deriveStage, Stages
  <2> QED
    BY <1>2, <2>1, <2>2, <2>3 DEF AcceptedBy
<1> QED
  BY <1>1, <1>2

\* The hook is left as it was, or with fewer GETs, or for another request.
LEMMA HookQuiet ==
  ASSUME Hooked, Paid, Vaulted, [Next]_vars, shown' => shown,
         requestId' = requestId, status' = status, polls' \subseteq polls
  PROVE  Hooked'
<1>1. status.stage = "ACCEPTED" => requestId \in Ids
  BY DEF Hooked, Fits, NoStatus
<1>2. status'.stage = "ACCEPTED" => AcceptedBy(requestId)'
  BY <1>1, AcceptedStays DEF Hooked
<1>3. ASSUME NEW p \in polls, p.saw = "ACCEPTED" PROVE AcceptedBy(p.of)'
  BY <1>3, AcceptedStays DEF Hooked, Gets
<1> QED
  BY <1>2, <1>3 DEF Hooked

LEMMA HookTurned ==
  ASSUME Hooked, Paid, Vaulted, [Next]_vars, NEW r \in Ids \cup {NoRequest},
         shown' => r \in Requests \cup {NoRequest}, requestId' = r, status' = NoStatus,
         polls' \subseteq polls
  PROVE  Hooked'
<1>1. status'.stage # "ACCEPTED" /\ Fits(status', r)
  BY DEF NoStatus, Fits
<1>2. ASSUME NEW p \in polls, p.saw = "ACCEPTED" PROVE AcceptedBy(p.of)'
  BY <1>2, AcceptedStays DEF Hooked, Gets
<1> QED
  BY <1>1, <1>2 DEF Hooked

LEMMA ReceiveHooked ==
  ASSUME Hooked, Paid, Vaulted, [Next]_vars, shown' => shown, NEW p \in polls, Receive(p)
  PROVE  Hooked'
<1>1. CASE ~Counts(p)
  BY <1>1, HookQuiet DEF Receive
<1>2. CASE Counts(p)
  <2>1. status' = [of |-> p.of, stage |-> p.saw] /\ p.of = requestId /\ requestId' = requestId
    BY <1>2 DEF Receive, Counts
  <2>2. p.of \in Ids /\ p.saw \in Stages
    BY DEF Receive, Hooked, Gets
  <2>3. p.saw = "ACCEPTED" => AcceptedBy(p.of)'
    BY <2>2, AcceptedStays DEF Hooked
  <2>4. ASSUME NEW q \in polls, q.saw = "ACCEPTED" PROVE AcceptedBy(q.of)'
    BY <2>4, AcceptedStays DEF Hooked, Gets
  <2>5. polls' \subseteq polls
    BY DEF Receive
  <2>6. Fits(status', requestId')
    BY <2>1, <2>2 DEF Fits
  <2>7. status'.stage = p.saw
    BY <2>1
  <2> QED
    BY <2>1, <2>3, <2>4, <2>5, <2>6, <2>7 DEF Hooked
<1> QED
  BY <1>1, <1>2

LEMMA ServeHooked ==
  ASSUME Hooked, Paid, Vaulted, [Next]_vars, UNCHANGED shown,
         NEW p \in polls, Serve(p, StageOf(p.of))
  PROVE  Hooked'
<1>1. PICK n, q : n = StageOf(p.of) /\ q = [p EXCEPT !.saw = n]
  OBVIOUS
<1>2. p \in Gets
  BY DEF Hooked
<1>3. n \in Stages /\ (n = "ACCEPTED" => AcceptedBy(p.of))
  BY <1>1, <1>2, StagesAre DEF Gets
<1>4. q \in Gets /\ q.of = p.of /\ q.saw = n
  BY <1>1, <1>2, <1>3 DEF Gets
<1>5. polls' = (polls \ {p}) \cup {q} /\ UNCHANGED <<requestId, status>>
  BY <1>1 DEF Serve
<1>6. ASSUME NEW g \in polls', g.saw = "ACCEPTED" PROVE AcceptedBy(g.of)
  BY <1>3, <1>4, <1>5, <1>6 DEF Hooked
<1>7. polls' \subseteq Gets
  BY <1>4, <1>5 DEF Hooked
<1>8. ASSUME NEW g \in polls', g.saw = "ACCEPTED" PROVE AcceptedBy(g.of)'
  BY <1>6, <1>7, <1>8, AcceptedStays DEF Gets
<1>9. status.stage = "ACCEPTED" => requestId \in Ids
  BY DEF Hooked, Fits, NoStatus
<1>10. status'.stage = "ACCEPTED" => AcceptedBy(requestId)'
  BY <1>5, <1>9, AcceptedStays DEF Hooked
<1> QED
  BY <1>5, <1>7, <1>8, <1>10 DEF Hooked

LEMMA NextHooked == Hooked /\ Chatting /\ Paid /\ Vaulted /\ [Next]_vars => Hooked'
<1> SUFFICES ASSUME Hooked, Chatting, Paid, Vaulted, [Next]_vars PROVE Hooked'
  OBVIOUS
<1>1. CASE UNCHANGED hookVars /\ (shown' => shown)
  BY <1>1, HookQuiet DEF hookVars
<1>2. CASE PollRequest
  <2>1. UNCHANGED shown /\ requestId # NoRequest /\ UNCHANGED <<requestId, status>>
    BY <1>2 DEF PollRequest, Poll, Others, chatVars, userVars
  <2>2. polls' = polls \cup {Asking(requestId)}
    BY <1>2 DEF PollRequest, Poll
  <2>3. requestId \in Ids
    BY <2>1 DEF Hooked
  <2>4. Asking(requestId) \in Gets /\ Asking(requestId).saw # "ACCEPTED"
    BY <2>3 DEF Asking, Gets
  <2>5. status'.stage = "ACCEPTED" => AcceptedBy(requestId)'
    BY <2>1, <2>3, AcceptedStays DEF Hooked
  <2>6. ASSUME NEW p \in polls', p.saw = "ACCEPTED" PROVE AcceptedBy(p.of)'
    BY <2>2, <2>4, <2>6, AcceptedStays DEF Hooked, Gets
  <2> QED
    BY <2>1, <2>2, <2>4, <2>5, <2>6 DEF Hooked
<1>3. CASE ServePoll
  BY <1>3, ServeHooked DEF ServePoll, Others, chatVars, userVars
<1>4. CASE FailPoll
  BY <1>4, HookQuiet DEF FailPoll, LosePoll, Others, chatVars, userVars
<1>5. CASE ReceivePoll
  <2>1. ASSUME NEW p \in polls, ReceiveJob(p) PROVE Hooked'
    BY <2>1, ReceiveHooked DEF ReceiveJob, userVars
  <2>2. ASSUME NEW p \in polls, ReceiveStatus(p), UNCHANGED chatVars PROVE Hooked'
    BY <2>2, ReceiveHooked DEF ReceiveStatus, chatVars, userVars
  <2> QED
    BY <1>5, <2>1, <2>2 DEF ReceivePoll
<1>6. CASE Chat
  <2>1. CASE Leave
    BY <2>1, HookTurned DEF Leave, Unmount, Unwatch
  <2>2. CASE SubmitJob
    <3>1. CASE UNCHANGED hookVars
      BY <1>1, <2>2, <3>1 DEF SubmitJob, userVars
    <3>2. ASSUME NEW r \in Requests, Watch(r) PROVE Hooked'
      BY <3>2, HookTurned DEF Watch, Ids
    <3> QED
      BY <2>2, <3>1, <3>2 DEF SubmitJob, Submitted
  <2>3. CASE Handler
    BY <1>1, <2>2, <2>3 DEF Handler, EncryptKey, PreviewQuorum, StoreKey, Upload, CreateEscrow,
                            FundEscrow, RecheckQuorum, userVars
  <2>4. CASE Connect \/ Disconnect \/ TogglePayment
    BY <1>1, <2>4 DEF Connect, Disconnect, TogglePayment, userVars
  <2>5. ASSUME NEW m \in Messages, Send(m) \/ Decrypt(m) PROVE Hooked'
    BY <1>1, <2>5 DEF Send, Decrypt, userVars
  <2>6. ASSUME NEW d \in decrypts, EndDecrypt(d) PROVE Hooked'
    BY <1>1, <2>6 DEF EndDecrypt, userVars
  <2>7. ASSUME NEW r \in Requests, JobEnds(r) PROVE Hooked'
    BY <1>1, <2>7 DEF JobEnds, userVars
  <2> QED
    BY <1>6, <2>1, <2>3, <2>4, <2>5, <2>6, <2>7 DEF Chat, ChatStep
<1>7. CASE PageStep /\ UNCHANGED <<chatVars, riskVars, session>>
  <2>1. UNCHANGED shown
    BY <1>7 DEF chatVars, userVars
  <2>2. CASE ClosePage
    BY <2>1, <2>2, HookTurned DEF ClosePage, Unwatch
  <2> QED
    BY <1>1, <1>7, <2>1, <2>2 DEF PageStep, EndEffect, ManualDecrypt, EndManual, ToggleClient,
                                  SendFeedback, CloseDispute
<1>8. CASE OpenFromHistory
  <2>1. PICK r \in Remembered : ~shown /\ OpenPage(r) /\ UNCHANGED shown
    BY <1>8 DEF OpenFromHistory, chatVars, userVars
  <2>2. \A m \in DOMAIN history : history[m].request \in Requests \cup {NoRequest}
    BY DEF Chatting, View, Record
  <2>3. r \in Ids
    BY <2>1, <2>2 DEF Remembered, Ids
  <2> QED
    BY <2>1, <2>3, HookTurned DEF OpenPage, Watch
<1>9. CASE OpenDisputeForm
  BY <1>1, <1>9 DEF OpenDisputeForm, OpenDispute, chatVars, userVars
<1>10. CASE BeginRisk \/ ContinueRisk
  BY <1>1, <1>10 DEF BeginRisk, ContinueRisk, chatVars, userVars
<1>11. CASE SubmitRisk
  <2>1. PICK r \in RiskRequests : OpenPage(r)
    BY <1>11 DEF SubmitRisk
  <2>2. shown' = FALSE
    BY <1>11 DEF SubmitRisk, Unmount, chatVars, userVars
  <2> QED
    BY <2>1, <2>2, HookTurned DEF OpenPage, Watch, Ids
<1>12. CASE UNCHANGED vars
  BY <1>1, <1>12 DEF vars, chatVars, userVars
<1> QED
  BY <1>2, <1>3, <1>4, <1>5, <1>6, <1>7, <1>8, <1>9, <1>10, <1>11, <1>12 DEF Next

-----------------------------------------------------------------------------
(***************************************************************************)
(* The chat: what its steps make of the entries and of the history.        *)
(***************************************************************************)
\* What is said of a step in SettledStays.
Steady ==
    shown' => \A m \in Messages :
        /\ messages[m].status \in Settled => messages'[m].status \in Settled
        /\ (messages[m].content # NoRequest /\ OnlyItsOwn(m))
                => messages'[m].content = messages[m].content

LEMMA UnsentTidy == Tidy(Unsent) /\ Unsent.status = "unsent" /\ "unsent" \notin Settled
BY DEF Tidy, Unsent, Entry, Settled

\* A page without entries agrees with every history.
LEMMA EmptyView ==
  ASSUME NEW ms, ms = [m \in Messages |-> Unsent], NEW h, NEW ids,
         DOMAIN h \subseteq Messages, \A m \in DOMAIN h : h[m] \in Record
  PROVE  View(ms, h, ids)
BY UnsentTidy DEF View, Tidy

\* One entry has become e, on the page and in the history.
Rewrites(g, h, m, e) ==
    /\ DOMAIN g = DOMAIN h \cup {m} /\ g[m] \in Record
    /\ \A n \in DOMAIN h : n # m => g[n] = h[n]
    /\ e.status \in Settled => g[m].status = e.status

LEMMA EntryView ==
  ASSUME NEW ms, NEW h, NEW ids, View(ms, h, ids), NEW m \in Messages, NEW e, Tidy(e),
         NEW new, new = [ms EXCEPT ![m] = e], NEW g, Rewrites(g, h, m, e)
  PROVE  View(new, g, ids)
<1>1. new \in [Messages -> Entry] /\ new[m] = e /\ \A n \in Messages : n # m => new[n] = ms[n]
  BY DEF View, Tidy
<1>2. \A n \in Messages : Tidy(new[n])
  BY <1>1 DEF View
<1>3. DOMAIN g \subseteq Messages /\ \A n \in DOMAIN g : g[n] \in Record
  BY DEF View, Rewrites
<1>4. ASSUME NEW n \in Messages, new[n].status # "unsent" PROVE n \in DOMAIN g
  BY <1>1, <1>4 DEF View, Rewrites
<1>5. ASSUME NEW n \in Messages, new[n].status \in Settled, new[n].request \notin ids
      PROVE  g[n].status = new[n].status
  <2>1. CASE n = m
    BY <1>1, <1>5, <2>1 DEF Rewrites
  <2>2. CASE n # m
    <3>1. new[n] = ms[n] /\ ms[n].status # "unsent"
      BY <1>1, <1>5, <2>2 DEF Settled
    <3>2. n \in DOMAIN h
      BY <3>1 DEF View
    <3> QED
      BY <1>5, <2>2, <3>1, <3>2 DEF View, Rewrites
  <2> QED
    BY <2>1, <2>2
<1> QED
  BY <1>1, <1>2, <1>3, <1>4, <1>5 DEF View

LEMMA HistorySet ==
  ASSUME NEW h, \A m \in DOMAIN h : h[m] \in Record, NEW id, NEW e \in Waiting \cup Settled,
         NEW g, g = updateHistoryEntry(h, id, e)
  PROVE  /\ DOMAIN g = DOMAIN h /\ \A m \in DOMAIN g : g[m] \in Record
         /\ id \in DOMAIN h => g[id].status = e
         /\ \A m \in DOMAIN h : m # id => g[m] = h[m]
<1>1. CASE id \notin DOMAIN h
  BY <1>1 DEF updateHistoryEntry
<1>2. CASE id \in DOMAIN h
  <2>1. PICK x, y : x = h[id] /\ y = [x EXCEPT !.status = e]
    OBVIOUS
  <2>2. y \in Record /\ y.status = e
    BY <1>2, <2>1 DEF Record
  <2>3. g = [h EXCEPT ![id] = y]
    BY <1>2, <2>1 DEF updateHistoryEntry
  <2>4. DOMAIN g = DOMAIN h /\ g[id] = y /\ \A m \in DOMAIN h : m # id => g[m] = h[m]
    BY <1>2, <2>3
  <2> QED
    BY <2>2, <2>4
<1> QED
  BY <1>1, <1>2

\* An entry whose status only changes.
LEMMA StatusTidy ==
  ASSUME NEW x, Tidy(x), NEW e \in Waiting \cup {"error"}, NEW y, y = [x EXCEPT !.status = e]
  PROVE  /\ x.status # "unsent" => Tidy(y)
         /\ e = "encrypting" /\ x = Unsent => Tidy(y)
         /\ y \in Entry /\ y.status = e /\ y.request = x.request /\ y.content = x.content
         /\ y.output = x.output
<1>1. x \in Entry
  BY DEF Tidy
<1>2. /\ y \in Entry /\ y.status = e /\ y.request = x.request
      /\ y.content = x.content /\ y.output = x.output
  BY <1>1 DEF Entry, Settled
<1> QED
  BY <1>2 DEF Tidy, Waiting

LEMMA UpdatedIs ==
  ASSUME NEW x, Tidy(x), x.status \notin Settled, x.request # NoRequest,
         NEW st, st = NoStatus \/ st \in [of : Requests, stage : Stages],
         NEW y, y = Updated(x, st)
  PROVE  /\ Tidy(y) /\ y.content = x.content /\ y.request = x.request /\ y.status # "unsent"
         /\ y.status \in Settled => y.status \in {"ready", "error"} /\ y.status # x.status
<1>1. x \in Entry /\ x.status \in Waiting
  BY DEF Tidy, Entry
<1>2. CASE st.stage \in {"QUEUED", "ASSIGNED", "EXECUTING"}
  <2>1. y = [x EXCEPT !.status = "processing"]
    BY <1>2 DEF Updated
  <2> QED
    BY <1>1, <2>1 DEF Tidy, Entry, Waiting, Settled
<1>3. CASE st.stage = "ACCEPTED"
  <2>1. st.of \in Requests /\ st.of # NoRequest
    BY <1>3, RequestAssumption DEF NoStatus
  <2>2. PICK e : e = IF Decryptable THEN x.status ELSE "ready"
    OBVIOUS
  <2>3. PICK a, b : a = [x EXCEPT !.output = st.of] /\ b = [a EXCEPT !.status = e]
    OBVIOUS
  <2>4. /\ a \in Entry /\ a.status = x.status /\ a.request = x.request
        /\ a.content = x.content /\ a.output = st.of
    BY <1>1, <2>1, <2>3 DEF Entry
  <2>5. e \in Waiting \cup {"ready"}
    BY <1>1, <2>2
  <2>6. /\ b \in Entry /\ b.status = e /\ b.request = x.request
        /\ b.content = x.content /\ b.output = st.of
    BY <2>3, <2>4, <2>5 DEF Entry, Settled
  <2>7. y = b
    BY <1>3, <2>2, <2>3, <2>4 DEF Updated
  <2> QED
    BY <1>1, <2>1, <2>5, <2>6, <2>7 DEF Tidy, Waiting, Settled
<1>4. CASE st.stage \in {"REJECTED", "FAILED"}
  <2>1. y = [x EXCEPT !.status = "error"]
    BY <1>4 DEF Updated
  <2> QED
    BY <1>1, <2>1 DEF Tidy, Entry, Waiting, Settled
<1>5. CASE st.stage \notin {"QUEUED", "ASSIGNED", "EXECUTING", "ACCEPTED", "REJECTED", "FAILED"}
  <2>1. y = x
    BY <1>5 DEF Updated
  <2> QED
    BY <1>1, <2>1 DEF Tidy, Waiting, Settled
<1> QED
  BY <1>2, <1>3, <1>4, <1>5

\* The four effects, on entries that agree with the history.
LEMMA EffectsView ==
  ASSUME NEW ms, NEW h, View(ms, h, decryptedIds), NEW r \in Requests,
         NEW st, st = NoStatus \/ st \in [of : Requests, stage : Stages], Effects(r, st, ms, h)
  PROVE  /\ View(messages', history', decryptedIds') /\ DOMAIN history' = DOMAIN h
         /\ \A m \in Messages :
               /\ messages'[m].content = ms[m].content
               /\ messages'[m].request = ms[m].request
               /\ ms[m].status \in Settled \/ ms[m].request # r => messages'[m] = ms[m]
         /\ decryptedIds \subseteq decryptedIds'
         /\ \/ decrypts' = decrypts
            \/ /\ r \in decryptedIds' /\ st.of \in Requests
               /\ decrypts' = decrypts \cup {[by |-> r, output |-> st.of]}
<1>1. PICK new : new = [m \in Messages |-> IF Affected(ms[m], r) THEN Updated(ms[m], st) ELSE ms[m]]
  OBVIOUS
<1>2. messages' = new /\ history' = Recorded(h, ms, new)
  BY <1>1 DEF Effects
<1>3. /\ decryptedIds \subseteq decryptedIds'
      /\ \/ decrypts' = decrypts
         \/ /\ r \in decryptedIds' /\ st.of \in Requests
            /\ decrypts' = decrypts \cup {[by |-> r, output |-> st.of]}
  BY DEF Effects, AutoDecrypts, NoStatus
<1>4. ASSUME NEW m \in Messages
      PROVE  /\ Tidy(new[m]) /\ new[m].content = ms[m].content /\ new[m].request = ms[m].request
             /\ ms[m].status \in Settled \/ ms[m].request # r => new[m] = ms[m]
             /\ new[m] = ms[m] \/ ms[m].status \notin Settled
             /\ new[m].status # "unsent" => ms[m].status # "unsent"
             /\ new[m].status \in Settled /\ new[m] # ms[m]
                  => new[m].status \in {"ready", "error"} /\ new[m].status # ms[m].status
  <2>1. Tidy(ms[m])
    BY DEF View
  <2>2. CASE Affected(ms[m], r)
    <3>1. PICK x, y : x = ms[m] /\ y = Updated(x, st)
      OBVIOUS
    <3>2. Tidy(x) /\ x.status \notin Settled /\ x.request = r /\ r # NoRequest
      BY <2>1, <2>2, <3>1, RequestAssumption DEF Affected
    <3>3. new[m] = y
      BY <1>1, <2>2, <3>1
    <3>4. /\ Tidy(y) /\ y.content = x.content /\ y.request = x.request /\ y.status # "unsent"
          /\ y.status \in Settled => y.status \in {"ready", "error"} /\ y.status # x.status
      BY <3>1, <3>2, UpdatedIs
    <3>5. x.status # "unsent"
      BY <3>2 DEF Tidy
    <3> QED
      BY <3>1, <3>2, <3>3, <3>4, <3>5
  <2>3. CASE ~Affected(ms[m], r)
    BY <1>1, <2>1, <2>3
  <2> QED
    BY <2>2, <2>3 DEF Affected
<1>5. \A m \in Messages : new[m] \in Entry
  BY <1>4 DEF Tidy
<1>6. new \in [Messages -> Entry]
  BY <1>1, <1>5
<1>7. PICK g : g = Recorded(h, ms, new)
  OBVIOUS
<1>8. DOMAIN g = DOMAIN h /\ DOMAIN h \subseteq Messages
  BY <1>7 DEF Recorded, View
<1>9. ASSUME NEW m \in DOMAIN g
      PROVE  /\ g[m] \in Record
             /\ IF new[m].status # ms[m].status /\ new[m].status \in {"ready", "error"}
                THEN g[m].status = new[m].status ELSE g[m] = h[m]
  <2>1. h[m] \in Record
    BY <1>8 DEF View
  <2>2. PICK x, e : x = h[m] /\ e = new[m].status
    OBVIOUS
  <2>3. CASE e # ms[m].status /\ e \in {"ready", "error"}
    <3>1. PICK y : y = [x EXCEPT !.status = e]
      OBVIOUS
    <3>2. y \in Record /\ y.status = e
      BY <2>1, <2>2, <2>3, <3>1 DEF Record, Settled
    <3>3. g[m] = y
      BY <1>7, <1>8, <2>2, <2>3, <3>1 DEF Recorded
    <3> QED
      BY <2>2, <2>3, <3>2, <3>3
  <2>4. CASE ~(e # ms[m].status /\ e \in {"ready", "error"})
    <3>1. g[m] = h[m]
      BY <1>7, <1>8, <2>2, <2>4 DEF Recorded
    <3> QED
      BY <2>1, <2>2, <2>4, <3>1
  <2> QED
    BY <2>3, <2>4
<1>10. ASSUME NEW m \in Messages, new[m].status # "unsent" PROVE m \in DOMAIN g
  BY <1>4, <1>8, <1>10 DEF View
<1>11. ASSUME NEW m \in Messages, new[m].status \in Settled, new[m].request \notin decryptedIds'
       PROVE  g[m].status = new[m].status
  <2>1. m \in DOMAIN g
    BY <1>10, <1>11, UnsentTidy
  <2>2. CASE new[m] = ms[m]
    <3>1. g[m] = h[m]
      BY <1>9, <2>1, <2>2
    <3>2. h[m].status = ms[m].status
      BY <1>3, <1>11, <2>2 DEF View
    <3> QED
      BY <2>2, <3>1, <3>2
  <2>3. CASE new[m] # ms[m]
    BY <1>4, <1>9, <1>11, <2>1, <2>3
  <2> QED
    BY <2>2, <2>3
<1>12. View(new, g, decryptedIds')
  BY <1>4, <1>6, <1>8, <1>9, <1>10, <1>11 DEF View
<1> QED
  BY <1>2, <1>3, <1>4, <1>7, <1>8, <1>12

\* A step that leaves the entries alone.
LEMMA ChatQuiet ==
  ASSUME Chatting, UNCHANGED <<viewVars, shown>>,
         place' = "idle" \/ (place # "idle" /\ current'.message = current.message)
  PROVE  Chatting' /\ Steady
<1>1. UNCHANGED <<messages, history, decrypts, decryptedIds>>
  BY DEF viewVars
<1>2. Steady
  BY <1>1 DEF Steady
<1>3. View(messages, history, decryptedIds)'
  BY <1>1 DEF Chatting
<1> QED
  BY <1>1, <1>2, <1>3 DEF Chatting

\* The handler says how far it has got, on the page if it is still there.
LEMMA StatusChatting ==
  ASSUME Chatting, Held, place # "idle", NEW e \in Waiting,
         updateAssistantStatus(current.message, e), UNCHANGED <<shown, current>>
  PROVE  Chatting' /\ Steady
<1>1. PICK m : m = current.message
  OBVIOUS
<1>2. m \in Messages /\ m \in DOMAIN history /\ UNCHANGED <<history, decrypts, decryptedIds>>
  BY <1>1 DEF Held, updateAssistantStatus
<1>3. CASE ~shown
  <2>1. messages' = messages
    BY <1>3 DEF updateAssistantStatus, OnPage
  <2>2. View(messages, history, decryptedIds)'
    BY <1>2, <2>1 DEF Chatting
  <2> QED
    BY <1>2, <1>3, <2>1, <2>2 DEF Chatting, Steady
<1>4. CASE shown
  <2>1. PICK x, y : x = messages[m] /\ y = [x EXCEPT !.status = e]
    OBVIOUS
  <2>2. Tidy(x) /\ x.status \in Waiting /\ x.request = NoRequest
    BY <1>1, <1>2, <1>4, <2>1 DEF Chatting, View
  <2>3. /\ Tidy(y) /\ y.status = e /\ y.request = NoRequest /\ y.content = x.content
        /\ x.status \notin Settled
    BY <2>1, <2>2, StatusTidy DEF Waiting, Settled
  <2>4. messages' = [messages EXCEPT ![m] = y]
    BY <1>1, <1>4, <2>1 DEF updateAssistantStatus, OnPage
  <2>5. View(messages, history, decryptedIds) /\ Rewrites(history, history, m, y)
    BY <1>2, <2>3 DEF Chatting, View, Waiting, Settled, Rewrites
  <2>6. View(messages, history, decryptedIds)'
    <3>1. PICK new : new = messages'
      OBVIOUS
    <3>2. View(new, history, decryptedIds)
      BY <1>2, <2>3, <2>4, <2>5, <3>1, EntryView
    <3> QED
      BY <1>2, <3>1, <3>2
  <2>7. messages'[m] = y /\ \A n \in Messages : n # m => messages'[n] = messages[n]
    BY <1>2, <2>4 DEF Chatting, View
  <2>8. Steady
    BY <2>1, <2>3, <2>7 DEF Steady
  <2> QED
    BY <1>1, <1>2, <1>4, <2>3, <2>6, <2>7, <2>8 DEF Chatting
<1> QED
  BY <1>3, <1>4

LEMMA FailChatting ==
  ASSUME Chatting, Held, place # "idle", Fail, UNCHANGED shown
  PROVE  Chatting' /\ Steady
<1>1. PICK m : m = current.message
  OBVIOUS
<1>2. m \in Messages /\ m \in DOMAIN history /\ UNCHANGED <<decrypts, decryptedIds>>
  BY <1>1 DEF Held, Fail, failAssistantMessage
<1>3. history' = updateHistoryEntry(history, m, "error") /\ place' = "idle"
  BY <1>1 DEF Fail, failAssistantMessage, Finish
<1>4. PICK g : g = updateHistoryEntry(history, m, "error")
  OBVIOUS
<1>5. /\ DOMAIN history \subseteq Messages /\ \A n \in DOMAIN history : history[n] \in Record
      /\ "error" \in Waiting \cup Settled
  BY DEF Chatting, View, Settled
<1>6. /\ DOMAIN g = DOMAIN history /\ \A n \in DOMAIN g : g[n] \in Record
      /\ g[m].status = "error" /\ \A n \in DOMAIN history : n # m => g[n] = history[n]
  BY <1>2, <1>4, <1>5, HistorySet
<1>7. CASE ~shown
  <2>1. messages' = messages /\ \A n \in Messages : messages[n] = Unsent
    BY <1>7 DEF Fail, failAssistantMessage, OnPage, Chatting
  <2>2. messages = [n \in Messages |-> Unsent]
    BY <2>1 DEF Chatting, View
  <2>3. View(messages, g, decryptedIds)
    BY <1>5, <1>6, <2>2, EmptyView
  <2>4. View(messages, history, decryptedIds)'
    BY <1>2, <1>3, <1>4, <2>1, <2>3
  <2> QED
    BY <1>2, <1>3, <1>4, <1>6, <1>7, <2>1, <2>4 DEF Chatting, Steady
<1>8. CASE shown
  <2>1. PICK x, y : x = messages[m] /\ y = [x EXCEPT !.status = "error"]
    OBVIOUS
  <2>2. Tidy(x) /\ x.status \in Waiting
    BY <1>1, <1>2, <1>8, <2>1 DEF Chatting, View
  <2>3. Tidy(y) /\ y.status = "error" /\ y.content = x.content /\ x.status \notin Settled
    BY <2>1, <2>2, StatusTidy DEF Waiting, Settled
  <2>4. messages' = [messages EXCEPT ![m] = y]
    BY <1>1, <1>8, <2>1 DEF Fail, failAssistantMessage, OnPage
  <2>5. View(messages', g, decryptedIds)
    <3>1. PICK new : new = messages'
      OBVIOUS
    <3>2. View(messages, history, decryptedIds) /\ Rewrites(g, history, m, y)
      BY <1>2, <1>6, <2>3 DEF Chatting, Rewrites
    <3>3. View(new, g, decryptedIds)
      BY <1>2, <2>3, <2>4, <3>1, <3>2, EntryView
    <3> QED
      BY <3>1, <3>3
  <2>6. View(messages, history, decryptedIds)'
    BY <1>2, <1>3, <1>4, <2>5
  <2>7. messages'[m] = y /\ \A n \in Messages : n # m => messages'[n] = messages[n]
    BY <1>2, <2>4 DEF Chatting, View
  <2>8. Steady
    BY <2>1, <2>3, <2>7 DEF Steady
  <2> QED
    BY <1>2, <1>3, <1>4, <1>6, <1>8, <2>6, <2>8 DEF Chatting
<1> QED
  BY <1>7, <1>8

\* What the hook says on the page of the chat is of a job.
LEMMA ChatStatus ==
  ASSUME Hooked, shown
  PROVE  status = NoStatus \/ status \in [of : Requests, stage : Stages]
<1>1. requestId \in Requests \cup {NoRequest} /\ Fits(status, requestId)
  BY DEF Hooked
<1>2. NoRequest \notin Ids
  BY RequestAssumption DEF Ids
<1>3. CASE status \in [of : Ids, stage : Stages] /\ status.of = requestId
  BY <1>1, <1>2, <1>3
<1> QED
  BY <1>1, <1>3 DEF Fits

\* The effects, after a step that has made ms of the entries and h of the
\* history.
LEMMA EffectsChatting ==
  ASSUME Chatting, shown, UNCHANGED shown, NEW ms, NEW h, View(ms, h, decryptedIds),
         DOMAIN history \subseteq DOMAIN h, NEW r \in Requests,
         NEW st, st = NoStatus \/ st \in [of : Requests, stage : Stages], Effects(r, st, ms, h),
         \A m \in Messages : /\ ms[m].content = messages[m].content
                             /\ messages[m].status \in Settled => ms[m].status \in Settled,
         \/ place' = "idle"
         \/ place # "idle" /\ current' = current /\ ms = messages /\ current.message \in Messages
  PROVE  Chatting' /\ Steady
<1>1. /\ View(messages', history', decryptedIds') /\ DOMAIN history' = DOMAIN h
      /\ \A m \in Messages :
            /\ messages'[m].content = ms[m].content
            /\ messages'[m].request = ms[m].request
            /\ ms[m].status \in Settled \/ ms[m].request # r => messages'[m] = ms[m]
      /\ decryptedIds \subseteq decryptedIds'
      /\ \/ decrypts' = decrypts
         \/ /\ r \in decryptedIds' /\ st.of \in Requests
            /\ decrypts' = decrypts \cup {[by |-> r, output |-> st.of]}
  BY EffectsView
<1>2. r \notin Messages /\ r # NoRequest
  BY MessageAssumption, RequestAssumption
<1>3. ASSUME NEW d \in decrypts'
      PROVE  /\ d \in [by : Requests \cup Messages, output : Requests]
             /\ d.by \in Requests => d.by \in decryptedIds'
             /\ d \in decrypts \/ d.by = r
  <2>1. CASE d \in decrypts
    BY <1>1, <2>1 DEF Chatting
  <2>2. CASE d \notin decrypts
    BY <1>1, <2>2
  <2> QED
    BY <2>1, <2>2
<1>4. ASSUME NEW d \in decrypts', d.by \in Messages PROVE d.by \in DOMAIN history'
  BY <1>1, <1>2, <1>3, <1>4 DEF Chatting
<1>5. ASSUME place' # "idle", NEW d \in decrypts' PROVE d.by # current'.message
  BY <1>2, <1>3, <1>5 DEF Chatting
<1>6. ASSUME place' # "idle"
      PROVE  /\ messages'[current'.message].status \in Waiting
             /\ messages'[current'.message].request = NoRequest
  <2>1. PICK m : m = current.message
    OBVIOUS
  <2>2. /\ m \in Messages /\ ms = messages
        /\ messages[m].status \in Waiting /\ messages[m].request = NoRequest
    BY <1>6, <2>1 DEF Chatting
  <2>3. messages'[m] = messages[m]
    BY <1>1, <1>2, <2>2
  <2> QED
    BY <1>6, <2>1, <2>2, <2>3
<1>7. Steady
  <2>1. ASSUME NEW m \in Messages, messages[m].status \in Settled
        PROVE  messages'[m].status \in Settled
    BY <1>1, <2>1
  <2> QED
    BY <1>1, <2>1 DEF Steady
<1>8. View(messages, history, decryptedIds)'
  BY <1>1
<1>9. decrypts' \subseteq [by : Requests \cup Messages, output : Requests]
  BY <1>3
<1>10. Chatting'
  BY <1>3, <1>4, <1>5, <1>6, <1>8, <1>9 DEF Chatting
<1> QED
  BY <1>7, <1>10

LEMMA SubmittedChatting ==
  ASSUME Chatting, Hooked, Held, UNCHANGED shown, place # "idle", Finish,
         NEW r \in Requests, Submitted(r)
  PROVE  Chatting' /\ Steady
<1>1. PICK m, n : m = current.message /\ n = [status |-> "processing", request |-> r]
  OBVIOUS
<1>2. m \in Messages /\ m \in DOMAIN history
  BY <1>1 DEF Held
<1>3. n \in Record /\ n.status = "processing"
  BY <1>1 DEF Record, Waiting
<1>4. PICK h : h = [history EXCEPT ![m] = n]
  OBVIOUS
<1>5. /\ DOMAIN h = DOMAIN history /\ h[m] = n
      /\ \A i \in DOMAIN history : i # m => h[i] = history[i]
  BY <1>2, <1>4
<1>6. \A i \in DOMAIN h : h[i] \in Record
  BY <1>3, <1>5 DEF Chatting, View
<1>7. place' = "idle"
  BY DEF Finish
<1>8. CASE ~shown
  <2>1. history' = h /\ UNCHANGED <<messages, decrypts, decryptedIds>>
    BY <1>1, <1>4, <1>8 DEF Submitted
  <2>2. DOMAIN h \subseteq Messages
    BY <1>5 DEF Chatting, View
  <2>3. messages = [i \in Messages |-> Unsent]
    BY <1>8 DEF Chatting, View
  <2>4. View(messages, h, decryptedIds)
    BY <1>6, <2>2, <2>3, EmptyView
  <2>5. View(messages, history, decryptedIds)'
    BY <2>1, <2>4
  <2> QED
    BY <1>5, <1>7, <1>8, <2>1, <2>5 DEF Chatting, Steady
<1>9. CASE shown
  <2>1. PICK x, a, b : /\ x = messages[m] /\ a = [x EXCEPT !.status = "processing"]
                       /\ b = [a EXCEPT !.request = r]
    OBVIOUS
  <2>2. Tidy(x) /\ x.status \in Waiting
    BY <1>1, <1>2, <1>9, <2>1 DEF Chatting, View
  <2>3. Tidy(a) /\ a.status = "processing" /\ a.content = x.content
    BY <2>1, <2>2, StatusTidy DEF Waiting
  <2>4. b \in Entry /\ b.status = "processing" /\ b.content = x.content
    BY <2>1, <2>3 DEF Tidy, Entry
  <2>5. Tidy(b)
    BY <2>4 DEF Tidy
  <2>6. PICK f : f = [messages EXCEPT ![m].status = "processing", ![m].request = r]
    OBVIOUS
  <2>7. f = [messages EXCEPT ![m] = b]
    <3>1. PICK e : e = [messages EXCEPT ![m].status = "processing"]
      OBVIOUS
    <3>2. e = [messages EXCEPT ![m] = a]
      BY <2>1, <3>1
    <3>3. f = [e EXCEPT ![m].request = r]
      BY <2>6, <3>1
    <3>4. m \in DOMAIN messages
      BY <1>2 DEF Chatting, View
    <3> QED
      BY <2>1, <3>2, <3>3, <3>4
  <2>8. View(f, h, decryptedIds)
    <3>1. View(messages, history, decryptedIds) /\ Rewrites(h, history, m, b)
      BY <1>2, <1>3, <1>5, <2>4 DEF Chatting, Rewrites, Settled
    <3> QED
      BY <1>2, <2>5, <2>7, <3>1, EntryView
  <2>9. Effects(r, status, f, h)
    BY <1>1, <1>4, <1>9, <2>6 DEF Submitted
  <2>10. f[m] = b /\ \A i \in Messages : i # m => f[i] = messages[i]
    BY <1>2, <2>7 DEF Chatting, View
  <2>11. x.status \notin Settled
    BY <2>2 DEF Waiting, Settled
  <2>12. \A i \in Messages : /\ f[i].content = messages[i].content
                             /\ messages[i].status \in Settled => f[i].status \in Settled
    BY <2>1, <2>4, <2>10, <2>11
  <2>13. status = NoStatus \/ status \in [of : Requests, stage : Stages]
    BY <1>9, ChatStatus
  <2> QED
    BY <1>5, <1>7, <1>9, <2>8, <2>9, <2>12, <2>13, EffectsChatting
<1> QED
  BY <1>8, <1>9

LEMMA HandlerChatting ==
  ASSUME Chatting, Hooked, Held, Handler
  PROVE  Chatting' /\ Steady
<1>1. place # "idle" /\ UNCHANGED shown
  BY DEF Handler, EncryptKey, PreviewQuorum, StoreKey, Upload, CreateEscrow, FundEscrow,
         RecheckQuorum, SubmitJob, userVars
<1>2. CASE Fail
  BY <1>1, <1>2, FailChatting
<1>3. CASE UNCHANGED <<current, viewVars>>
  BY <1>1, <1>3, ChatQuiet
<1>4. ASSUME NEW e \in Waiting, updateAssistantStatus(current.message, e), UNCHANGED current
      PROVE  Chatting' /\ Steady
  BY <1>1, <1>4, StatusChatting
<1>5. CASE PreviewQuorum
  <2>1. PICK ok \in BOOLEAN : current' = [current EXCEPT !.previewed = ok]
    BY <1>5 DEF PreviewQuorum
  <2>2. current'.message = current.message
    BY <2>1 DEF Held, Closures
  <2> QED
    BY <1>1, <1>5, <2>2, ChatQuiet DEF PreviewQuorum
<1>6. CASE StoreKey
  BY <1>2, <1>4, <1>6 DEF StoreKey, Waiting
<1>7. CASE Upload
  BY <1>2, <1>3, <1>4, <1>7 DEF Upload, Waiting
<1>8. CASE SubmitJob
  BY <1>1, <1>2, <1>8, SubmittedChatting DEF SubmitJob
<1> QED
  BY <1>2, <1>3, <1>5, <1>6, <1>7, <1>8 DEF Handler, EncryptKey, CreateEscrow, FundEscrow,
                                            RecheckQuorum

LEMMA ReceiveChatting ==
  ASSUME Chatting, Hooked, Held, NEW p \in polls, ReceiveJob(p)
  PROVE  Chatting' /\ Steady
<1>1. shown /\ UNCHANGED <<shown, place, current>>
  BY DEF ReceiveJob, handlerVars, userVars
<1>2. CASE status' = status
  BY <1>1, <1>2, ChatQuiet DEF ReceiveJob
<1>3. CASE status' # status
  <2>1. PICK st : st = status'
    OBVIOUS
  <2>2. p.of = requestId /\ st = [of |-> p.of, stage |-> p.saw] /\ p.saw # "nothing"
    BY <1>3, <2>1 DEF ReceiveJob, Receive, Counts
  <2>3. p.of \in Ids /\ p.saw \in Stages
    BY <2>2 DEF Hooked, Gets
  <2>4. requestId \in Requests
    BY <1>1, <2>2, <2>3, RequestAssumption DEF Hooked, Ids
  <2>5. st \in [of : Requests, stage : Stages]
    BY <2>2, <2>3, <2>4
  <2>6. Effects(requestId, st, messages, history)
    BY <1>3, <2>1 DEF ReceiveJob
  <2>7. View(messages, history, decryptedIds)
    BY DEF Chatting
  <2>8. \/ place' = "idle"
        \/ place # "idle" /\ current' = current /\ current.message \in Messages
    BY <1>1 DEF Held
  <2> QED
    BY <1>1, <2>4, <2>5, <2>6, <2>7, <2>8, EffectsChatting
<1> QED
  BY <1>2, <1>3

LEMMA SendChatting ==
  ASSUME Chatting, NEW m \in Messages, Send(m)
  PROVE  Chatting' /\ Steady
<1>1. /\ messages[m] = Unsent /\ m \notin DOMAIN history
      /\ shown /\ UNCHANGED <<shown, decrypts, decryptedIds>>
      /\ current'.message = m
  BY DEF Send, CanSend, userVars
<1>2. PICK y : y = [Unsent EXCEPT !.status = "encrypting"]
  OBVIOUS
<1>3. /\ Tidy(y) /\ y.status = "encrypting" /\ y.request = NoRequest
      /\ y.status \in Waiting /\ y.status \notin Settled
  <2>1. "encrypting" \in Waiting \cup {"error"} /\ "encrypting" \notin Settled
    BY DEF Waiting, Settled
  <2>2. Tidy(y) /\ y.status = "encrypting" /\ y.request = Unsent.request
    BY <1>2, <2>1, UnsentTidy, StatusTidy
  <2> QED
    BY <2>1, <2>2 DEF Unsent, Waiting
<1>4. messages' = [messages EXCEPT ![m] = y]
  BY <1>1, <1>2 DEF Send
<1>5. PICK e : e = [status |-> "encrypting", request |-> NoRequest]
  OBVIOUS
<1>6. PICK g : g = [n \in DOMAIN history \cup {m} |-> IF n = m THEN e ELSE history[n]]
  OBVIOUS
<1>7. history' = g
  BY <1>5, <1>6 DEF Send
<1>8. e \in Record
  BY <1>5 DEF Record, Waiting
<1>9. /\ DOMAIN g = DOMAIN history \cup {m} /\ g[m] = e
      /\ \A n \in DOMAIN history : n # m => g[n] = history[n]
  BY <1>6
<1>10. View(messages, history, decryptedIds)
  BY DEF Chatting
<1>11. View(messages', g, decryptedIds)
  <2>1. PICK new : new = messages'
    OBVIOUS
  <2>2. Rewrites(g, history, m, y)
    BY <1>3, <1>8, <1>9 DEF Rewrites
  <2>3. View(new, g, decryptedIds)
    BY <1>3, <1>4, <1>10, <2>1, <2>2, EntryView
  <2> QED
    BY <2>1, <2>3
<1>12. View(messages, history, decryptedIds)'
  BY <1>1, <1>7, <1>11
<1>13. messages'[m] = y /\ \A n \in Messages : n # m => messages'[n] = messages[n]
  BY <1>4, <1>10 DEF View
<1>14. Steady
  BY <1>1, <1>13, UnsentTidy DEF Steady, Unsent
<1>15. \A d \in decrypts : d.by # m
  BY <1>1 DEF Chatting
<1> QED
  BY <1>1, <1>3, <1>7, <1>9, <1>12, <1>13, <1>14, <1>15 DEF Chatting

LEMMA DecryptChatting ==
  ASSUME Chatting, NEW m \in Messages, Decrypt(m)
  PROVE  Chatting' /\ Steady
<1>1. /\ shown /\ messages[m].status = "ready"
      /\ UNCHANGED <<shown, place, current, messages, history, decryptedIds>>
  BY DEF Decrypt, OffersDecryption, handlerVars, userVars
<1>2. PICK x, d : x = messages[m] /\ d = [by |-> m, output |-> x.output]
  OBVIOUS
<1>3. x \in Entry /\ x.output # NoRequest
  BY <1>1, <1>2 DEF Chatting, View, Tidy
<1>4. d \in [by : Requests \cup Messages, output : Requests] /\ d.by = m
  BY <1>2, <1>3 DEF Entry
<1>5. decrypts' = decrypts \cup {d}
  BY <1>2 DEF Decrypt
<1>6. m \in DOMAIN history /\ m \notin Requests
  BY <1>1, MessageAssumption DEF Chatting, View
<1>7. place # "idle" => m # current.message
  BY <1>1 DEF Chatting, Waiting
<1>8. View(messages, history, decryptedIds)'
  BY <1>1 DEF Chatting
<1>9. Steady
  BY <1>1 DEF Steady
<1> QED
  BY <1>1, <1>4, <1>5, <1>6, <1>7, <1>8, <1>9 DEF Chatting

\* More requests may have been taken over.
LEMMA ViewMore ==
  ASSUME NEW ms, NEW h, NEW ids, View(ms, h, ids), NEW more, ids \subseteq more
  PROVE  View(ms, h, more)
BY DEF View

LEMMA ConnectChatting ==
  ASSUME Chatting, Hooked, Held, Connect
  PROVE  Chatting' /\ Steady
<1>1. shown /\ UNCHANGED <<shown, place, current, messages, history>>
  BY DEF Connect, handlerVars, userVars
<1>2. Steady
  BY <1>1 DEF Steady
<1>3. CASE UNCHANGED <<decryptedIds, decrypts>>
  BY <1>1, <1>3, ChatQuiet DEF viewVars
<1>4. CASE status.stage = "ACCEPTED" /\ ~UNCHANGED <<decryptedIds, decrypts>>
  <2>1. PICK d : d = [by |-> requestId, output |-> status.of]
    OBVIOUS
  <2>2. decryptedIds' = decryptedIds \cup {requestId} /\ decrypts' = decrypts \cup {d}
    BY <1>4, <2>1 DEF Connect
  <2>3. requestId \in Requests /\ status.of = requestId
    BY <1>1, <1>4, RequestAssumption DEF Hooked, Fits, NoStatus, Ids
  <2>4. /\ d \in [by : Requests \cup Messages, output : Requests] /\ d.by = requestId
        /\ requestId \notin Messages
    BY <2>1, <2>3, MessageAssumption
  <2>5. View(messages, history, decryptedIds')
    BY <2>2, ViewMore DEF Chatting
  <2>6. View(messages, history, decryptedIds)'
    BY <1>1, <2>5
  <2>7. place # "idle" => current.message \in Messages
    BY DEF Held
  <2> QED
    BY <1>1, <1>2, <2>2, <2>3, <2>4, <2>6, <2>7 DEF Chatting
<1> QED
  BY <1>3, <1>4 DEF Connect

LEMMA UnmountChatting ==
  ASSUME Chatting, Unmount
  PROVE  Chatting' /\ Steady
<1>1. /\ ~shown' /\ UNCHANGED <<place, current, history, decrypts>>
      /\ messages' = [m \in Messages |-> Unsent]
  BY DEF Unmount, handlerVars
<1>2. View(messages', history, decryptedIds')
  <2>1. PICK ms, ids : ms = messages' /\ ids = decryptedIds'
    OBVIOUS
  <2>2. DOMAIN history \subseteq Messages /\ \A m \in DOMAIN history : history[m] \in Record
    BY DEF Chatting, View
  <2>3. View(ms, history, ids)
    BY <1>1, <2>1, <2>2, EmptyView
  <2> QED
    BY <2>1, <2>3
<1>3. View(messages, history, decryptedIds)'
  BY <1>1, <1>2
<1> QED
  BY <1>1, <1>3 DEF Chatting, Steady

LEMMA EndDecryptChatting ==
  ASSUME Chatting, Held, NEW d \in decrypts, EndDecrypt(d)
  PROVE  Chatting' /\ Steady
<1>1. /\ UNCHANGED <<shown, place, current, decryptedIds>> /\ decrypts' = decrypts \ {d}
      /\ d.by \in Requests \cup Messages /\ d.output \in Requests
  BY DEF EndDecrypt, handlerVars, userVars, Chatting
<1>2. PICK s \in {"done", "error"} :
        /\ messages' = OnPage([m \in Messages |->
                IF d.by \notin {m, messages[m].request} THEN messages[m]
                ELSE [messages[m] EXCEPT !.status = s,
                                         !.content = IF s = "done" THEN d.output ELSE @]])
        /\ history' = updateHistoryEntry(history, d.by, s)
  BY DEF EndDecrypt, HistoryId
<1>3. PICK g : g = updateHistoryEntry(history, d.by, s)
  OBVIOUS
<1>4. View(messages, history, decryptedIds)
  BY DEF Chatting
<1>5. /\ \A m \in DOMAIN history : history[m] \in Record
      /\ s \in Waiting \cup Settled /\ s \in Settled
  BY <1>4 DEF View, Settled
<1>6. /\ DOMAIN g = DOMAIN history /\ \A m \in DOMAIN g : g[m] \in Record
      /\ d.by \in DOMAIN history => g[d.by].status = s
      /\ \A m \in DOMAIN history : m # d.by => g[m] = history[m]
  BY <1>3, <1>5, HistorySet
<1>7. history' = g
  BY <1>2, <1>3
<1>8. CASE ~shown
  <2>1. messages' = messages /\ \A m \in Messages : messages[m] = Unsent
    BY <1>2, <1>8 DEF OnPage, Chatting
  <2>2. messages = [m \in Messages |-> Unsent] /\ DOMAIN g \subseteq Messages
    BY <1>4, <1>6, <2>1 DEF View
  <2>3. View(messages, g, decryptedIds)
    BY <1>6, <2>2, EmptyView
  <2>4. View(messages, history, decryptedIds)'
    BY <1>1, <1>7, <2>1, <2>3
  <2> QED
    BY <1>1, <1>6, <1>7, <1>8, <2>1, <2>4 DEF Chatting, Steady
<1>9. CASE shown
  <2>1. PICK new : new = [m \in Messages |->
                IF d.by \notin {m, messages[m].request} THEN messages[m]
                ELSE [messages[m] EXCEPT !.status = s,
                                         !.content = IF s = "done" THEN d.output ELSE @]]
    OBVIOUS
  <2>2. messages' = new
    BY <1>2, <1>9, <2>1 DEF OnPage
  <2>3. ASSUME NEW m \in Messages
        PROVE  /\ Tidy(new[m]) /\ new[m].request = messages[m].request
               /\ IF d.by \notin {m, messages[m].request} THEN new[m] = messages[m]
                  ELSE /\ new[m].status = s
                       /\ new[m].content = IF s = "done" THEN d.output ELSE messages[m].content
    <3>1. PICK x : x = messages[m]
      OBVIOUS
    <3>2. Tidy(x)
      BY <1>4, <3>1 DEF View
    <3>3. CASE d.by \notin {m, x.request}
      BY <2>1, <3>1, <3>2, <3>3
    <3>4. CASE d.by \in {m, x.request}
      <4>1. PICK k, a, y : /\ k = IF s = "done" THEN d.output ELSE x.content
                           /\ a = [x EXCEPT !.status = s] /\ y = [a EXCEPT !.content = k]
        OBVIOUS
      <4>2. new[m] = y
        <5>1. new[m] = [x EXCEPT !.status = s, !.content = IF s = "done" THEN d.output ELSE @]
          BY <2>1, <3>1, <3>4
        <5>2. x \in Entry
          BY <3>2 DEF Tidy
        <5>3. CASE s = "done"
          <6>1. k = d.output
            BY <4>1, <5>3
          <6> QED
            BY <4>1, <5>1, <5>2, <5>3, <6>1 DEF Entry
        <5>4. CASE s = "error"
          <6>1. k = x.content
            BY <4>1, <5>4
          <6>2. a \in Entry /\ a.content = x.content
            BY <4>1, <5>2, <5>4 DEF Entry, Settled
          <6>3. new[m] = [a EXCEPT !.content = a.content]
            BY <4>1, <5>1, <5>2, <5>4, <6>2 DEF Entry
          <6> QED
            BY <4>1, <6>1, <6>2, <6>3
        <5> QED
          BY <5>3, <5>4
      <4>3. k \in Requests \cup {NoRequest} /\ (s = "done" => k # NoRequest)
        BY <1>1, <3>2, <4>1, RequestAssumption DEF Tidy, Entry
      <4>4. Tidy(y) /\ y.status = s /\ y.request = x.request /\ y.content = k
        <5>1. x \in Entry /\ s \in Settled
          BY <3>2 DEF Tidy, Settled
        <5>2. a \in Entry /\ a.status = s /\ a.request = x.request /\ a.content = x.content
          BY <4>1, <5>1 DEF Entry
        <5>3. y \in Entry /\ y.status = s /\ y.request = x.request /\ y.content = k
          BY <4>1, <4>3, <5>2 DEF Entry
        <5> QED
          BY <4>3, <5>3 DEF Tidy
      <4> QED
        BY <3>1, <3>4, <4>1, <4>2, <4>4
    <3> QED
      BY <3>1, <3>3, <3>4
  <2>4. new \in [Messages -> Entry]
    BY <2>1, <2>3 DEF Tidy
  <2>5. ASSUME NEW m \in Messages, d.by \in {m, messages[m].request}
        PROVE  m \in DOMAIN history /\ (d.by # m => messages[m].request \in decryptedIds)
    <3>1. CASE d.by = m
      BY <3>1 DEF Chatting
    <3>2. CASE d.by # m
      <4>1. d.by = messages[m].request
        BY <2>5, <3>2
      <4>2. messages[m].request \in Requests \cup {NoRequest}
        BY <1>4 DEF View, Entry
      <4>3. d.by \in Requests /\ d.by # NoRequest
        BY <1>1, <4>1, <4>2, MessageAssumption, RequestAssumption
      <4>4. messages[m].status # "unsent"
        BY <1>4, <4>1, <4>3 DEF View, Tidy
      <4> QED
        BY <1>4, <1>9, <4>1, <4>3, <4>4 DEF Chatting, View
    <3> QED
      BY <3>1, <3>2
  <2>6. ASSUME NEW m \in Messages, new[m].status # "unsent" PROVE m \in DOMAIN g
    BY <1>4, <1>6, <2>3, <2>5, <2>6 DEF View
  <2>7. ASSUME NEW m \in Messages, new[m].status \in Settled, new[m].request \notin decryptedIds
        PROVE  g[m].status = new[m].status
    <3>1. m \in DOMAIN history
      BY <1>6, <2>6, <2>7, UnsentTidy
    <3>2. CASE d.by \in {m, messages[m].request}
      <4>1. d.by = m /\ new[m].status = s
        BY <2>3, <2>5, <2>7, <3>2
      <4> QED
        BY <1>6, <3>1, <4>1
    <3>3. CASE d.by \notin {m, messages[m].request}
      <4>1. new[m] = messages[m] /\ g[m] = history[m]
        BY <1>6, <2>3, <3>1, <3>3
      <4> QED
        BY <1>4, <2>7, <4>1 DEF View
    <3> QED
      BY <3>2, <3>3
  <2>8. DOMAIN g \subseteq Messages
    BY <1>4, <1>6 DEF View
  <2>9. View(new, g, decryptedIds)
    BY <1>6, <2>3, <2>4, <2>6, <2>7, <2>8 DEF View
  <2>10. View(messages, history, decryptedIds)'
    BY <1>1, <1>7, <2>2, <2>9
  <2>11. ASSUME NEW m \in Messages, messages[m].status \in Settled
         PROVE  messages'[m].status \in Settled
    BY <1>5, <2>2, <2>3, <2>11
  <2>12. ASSUME NEW m \in Messages, messages[m].content # NoRequest, OnlyItsOwn(m)
         PROVE  messages'[m].content = messages[m].content
    BY <2>2, <2>3, <2>12 DEF OnlyItsOwn
  <2>13. Steady
    BY <2>11, <2>12 DEF Steady
  <2>14. place # "idle" => messages'[current.message] = messages[current.message]
    <3>1. SUFFICES ASSUME place # "idle"
                   PROVE  messages'[current.message] = messages[current.message]
      OBVIOUS
    <3>2. current.message \in Messages /\ d.by # current.message
      BY <3>1 DEF Held, Chatting
    <3>3. d.by # messages[current.message].request
      BY <1>1, <1>9, <3>1, MessageAssumption, RequestAssumption DEF Chatting
    <3> QED
      BY <2>2, <2>3, <3>2, <3>3
  <2> QED
    BY <1>1, <1>6, <1>7, <1>9, <2>10, <2>13, <2>14 DEF Chatting
<1> QED
  BY <1>8, <1>9

LEMMA InitChatting == Init => Chatting
<1> SUFFICES ASSUME Init PROVE Chatting
  OBVIOUS
<1>1. /\ messages = [m \in Messages |-> Unsent] /\ DOMAIN history = {} /\ decrypts = {}
      /\ shown = TRUE /\ place = "idle"
  BY DEF Init, ChatInit
<1>2. View(messages, history, decryptedIds)
  BY <1>1, EmptyView
<1> QED
  BY <1>1, <1>2 DEF Chatting

LEMMA NextChatting ==
  ASSUME Chatting, Hooked, Held, [Next]_vars
  PROVE  Chatting' /\ Steady
<1>1. CASE UNCHANGED chatVars
  BY <1>1, ChatQuiet DEF chatVars, handlerVars, userVars
<1>2. CASE Chat
  <2>1. CASE Handler
    BY <2>1, HandlerChatting
  <2>2. CASE Connect
    BY <2>2, ConnectChatting
  <2>3. CASE Disconnect
    BY <2>3, ChatQuiet DEF Disconnect, handlerVars, userVars
  <2>4. CASE TogglePayment
    BY <2>4, ChatQuiet DEF TogglePayment, handlerVars
  <2>5. CASE Leave
    BY <2>5, UnmountChatting DEF Leave
  <2>6. ASSUME NEW m \in Messages, Send(m) PROVE Chatting' /\ Steady
    BY <2>6, SendChatting
  <2>7. ASSUME NEW m \in Messages, Decrypt(m) PROVE Chatting' /\ Steady
    BY <2>7, DecryptChatting
  <2>8. ASSUME NEW d \in decrypts, EndDecrypt(d) PROVE Chatting' /\ Steady
    BY <2>8, EndDecryptChatting
  <2>9. ASSUME NEW r \in Requests, JobEnds(r) PROVE Chatting' /\ Steady
    BY <2>9, ChatQuiet DEF JobEnds, handlerVars, userVars
  <2> QED
    BY <1>2, <2>1, <2>2, <2>3, <2>4, <2>5, <2>6, <2>7, <2>8, <2>9 DEF Chat, ChatStep
<1>3. CASE ReceivePoll
  <2>1. ASSUME NEW p \in polls, ReceiveStatus(p), UNCHANGED chatVars PROVE Chatting' /\ Steady
    BY <1>1, <2>1
  <2>2. ASSUME NEW p \in polls, ReceiveJob(p) PROVE Chatting' /\ Steady
    BY <2>2, ReceiveChatting
  <2> QED
    BY <1>3, <2>1, <2>2 DEF ReceivePoll
<1>4. CASE SubmitRisk
  BY <1>1, <1>4, UnmountChatting DEF SubmitRisk
<1>5. CASE PollRequest \/ ServePoll \/ FailPoll
  BY <1>1, <1>5 DEF PollRequest, ServePoll, FailPoll, Others
<1>6. CASE PageStep /\ UNCHANGED <<chatVars, riskVars, session>>
  BY <1>1, <1>6
<1>7. CASE OpenFromHistory \/ OpenDisputeForm \/ BeginRisk \/ ContinueRisk
  BY <1>1, <1>7 DEF OpenFromHistory, OpenDisputeForm, BeginRisk, ContinueRisk
<1>8. CASE UNCHANGED vars
  BY <1>1, <1>8 DEF vars
<1> QED
  BY <1>2, <1>3, <1>4, <1>5, <1>6, <1>7, <1>8 DEF Next

-----------------------------------------------------------------------------
(***************************************************************************)
(* What follows of the chat.                                               *)
(***************************************************************************)
Client == Held /\ Paid /\ Vaulted /\ Hooked /\ Chatting

LEMMA NextClient == Client /\ [Next]_vars => Client' /\ Steady
BY NextHeld, NextVaulted, NextHooked, NextChatting DEF Client

LEMMA InitClient == Init => Client
BY InitHeld, InitVaulted, InitHooked, InitChatting DEF Client

LEMMA ClientHolds == Spec => []Client
BY InitClient, NextClient, PTL DEF Spec

(***************************************************************************)
(* An entry that has settled on the page has settled alike in the history, *)
(* whichever of the four effects, the handler and the decryptions of       *)
(* useChat wrote the two, unless auto-decryption took it over.             *)
(***************************************************************************)
THEOREM HistoryIsInStep == Spec => []HistoryRemembers
<1>1. Client => HistoryRemembers
  BY DEF Client, Chatting, View, HistoryRemembers
<1> QED
  BY <1>1, ClientHolds, PTL

LEMMA StepsDone ==
  ASSUME Client
  PROVE  /\ stepStatus("onchain") = "done" => status.stage = "ACCEPTED"
         /\ stepStatus("decrypt") = "done" => status.stage = "ACCEPTED" /\ Revealed
<1>1. CASE requestId = NoRequest
  BY <1>1 DEF stepStatus
<1>2. CASE requestId # NoRequest
  <2>1. stepStatus("decrypt") = "done" => status.stage = "ACCEPTED" /\ Revealed
    <3>1. CASE status.stage # "ACCEPTED"
      BY <1>2, <3>1 DEF stepStatus
    <3>2. CASE status.stage = "ACCEPTED" /\ ~Revealed
      BY <1>2, <3>2 DEF stepStatus
    <3> QED
      BY <3>1, <3>2
  <2>2. stepStatus("onchain") = IF 4 < reached THEN "done"
                                ELSE IF 4 = reached THEN "active" ELSE "pending"
    BY <1>2 DEF stepStatus, order
  <2>3. status.stage # "ACCEPTED" => reached \in 0..4
    BY DEF reached
  <2> QED
    BY <2>1, <2>2, <2>3
<1> QED
  BY <1>1, <1>2

(***************************************************************************)
(* The stage a page shows is of the request it names, in whatever order    *)
(* the GETs of useInferenceStatus come back, and "accepted" is shown of    *)
(* what the services accepted; the trace of the chat ends when an answer   *)
(* is shown in the entry it traces.                                        *)
(***************************************************************************)
THEOREM TraceIsTruthful == Spec => []TraceTruthful
<1>1. Client => TraceTruthful
  <2> SUFFICES ASSUME Client PROVE TraceTruthful
    OBVIOUS
  <2>1. status # NoStatus => status.of = requestId
    BY DEF Client, Hooked, Fits
  <2>2. status.stage = "ACCEPTED" => AcceptedBy(requestId)
    BY DEF Client, Hooked
  <2>3. ASSUME NEW m \in Messages, messages[m].status = "done"
        PROVE  messages[m].content # NoRequest
    BY <2>3 DEF Client, Chatting, View, Tidy
  <2>4. Revealed => \E m \in Messages : /\ messages[m].request = requestId
                                        /\ messages[m].content # NoRequest
    BY <2>3 DEF Revealed
  <2> QED
    BY <2>1, <2>2, <2>4, StepsDone DEF TraceTruthful
<1> QED
  BY <1>1, ClientHolds, PTL

(***************************************************************************)
(* No step of the hook, the handler or a decryption makes an entry wait    *)
(* again that has settled, and none takes back an answer that is shown     *)
(* (the effects of useChat, handleChatSubmit, decryptMessage).             *)
(***************************************************************************)
THEOREM SettledEntriesStay == Spec => SettledStays
<1>1. Client /\ [Next]_vars
        => [shown' => \A m \in Messages :
              /\ messages[m].status \in Settled => messages'[m].status \in Settled
              /\ (messages[m].content # NoRequest /\ OnlyItsOwn(m))
                      => messages'[m].content = messages[m].content]_vars
  BY NextClient DEF Steady
<1> QED
  BY <1>1, ClientHolds, PTL DEF Spec, SettledStays

-----------------------------------------------------------------------------
(***************************************************************************)
(* Envelope: what a reader of a packed payload gets, for every payload.    *)
(***************************************************************************)

\* A part that is taken at its own place is the part.
LEMMA TakePart ==
    ASSUME NEW Byte, NEW before \in Seq(Byte), NEW part \in Seq(Byte), NEW after \in Seq(Byte),
           NEW m \in Nat, NEW n \in Nat, m = Len(before) + 1, n = Len(before) + Len(part)
    PROVE  SubSeq((before \o part) \o after, m, n) = part
<1> DEFINE whole == (before \o part) \o after
           taken == SubSeq(whole, m, n)
<1>1. /\ Len(before) \in Nat /\ Len(part) \in Nat /\ Len(after) \in Nat
      /\ \A i \in 1 .. Len(part) : part[i] \in Byte
  OBVIOUS
<1>2. /\ before \o part \in Seq(Byte)
      /\ Len(before \o part) = Len(before) + Len(part)
      /\ \A i \in 1 .. Len(before) + Len(part) :
            (before \o part)[i] = IF i <= Len(before) THEN before[i] ELSE part[i - Len(before)]
  BY ConcatProperties
<1>3. \A i \in 1 .. Len(before \o part) + Len(after) :
         whole[i] = IF i <= Len(before \o part) THEN (before \o part)[i]
                    ELSE after[i - Len(before \o part)]
  BY <1>2, ConcatProperties
<1> HIDE DEF whole
<1>4. ASSUME NEW i \in m .. n PROVE whole[i] = part[i - Len(before)]
  <2>1. i \in 1 .. Len(before) + Len(part) /\ ~(i <= Len(before))
    BY <1>1
  <2>2. (before \o part)[i] = part[i - Len(before)]
    BY <1>2, <2>1
  <2>3. i \in 1 .. Len(before \o part) + Len(after) /\ i <= Len(before \o part)
    BY <1>1, <1>2, <2>1
  <2> QED BY <1>3, <2>2, <2>3
<1>5. \A i \in m .. n : whole[i] \in Byte
  BY <1>1, <1>4
<1>6. /\ taken \in Seq(Byte)
      /\ Len(taken) = IF m <= n THEN n - m + 1 ELSE 0
      /\ \A i \in 1 .. n - m + 1 : taken[i] = whole[m + i - 1]
  BY <1>5, SubSeqProperties
<1> HIDE DEF taken
<1>7. Len(taken) = Len(part)
  BY <1>1, <1>6
<1>8. ASSUME NEW i \in 1 .. Len(taken) PROVE taken[i] = part[i]
  <2> DEFINE b == Len(before)
             p == Len(part)
             j == m + i - 1
  <2>1. b \in Nat /\ p \in Nat /\ m = b + 1 /\ n = b + p /\ i \in 1 .. p
    BY <1>1, <1>7
  <2> HIDE DEF b, p
  <2>2. j \in m .. n /\ j - b = i /\ i \in 1 .. n - m + 1
    <3>1. n - m + 1 = p /\ j = b + i
      BY <2>1
    <3> HIDE DEF j
    <3> QED BY <2>1, <3>1
  <2>3. taken[i] = whole[j]
    BY <1>6, <2>2
  <2> HIDE DEF j
  <2>4. whole[j] = part[j - Len(before)]
    BY <1>4, <2>2
  <2> QED BY <2>2, <2>3, <2>4 DEF b
<1>9. taken = part
  BY <1>6, <1>7, <1>8, SeqEqual
<1> QED BY <1>9 DEF taken, whole

\* How three parts are grouped does not matter.
LEMMA ConcatRegroups ==
    ASSUME NEW Byte, NEW s \in Seq(Byte), NEW t \in Seq(Byte), NEW u \in Seq(Byte)
    PROVE  (s \o t) \o u = s \o (t \o u)
<1> DEFINE Joins(w, p, q) ==
              /\ w \in Seq(Byte)
              /\ Len(w) = Len(p) + Len(q)
              /\ \A i \in 1 .. Len(p) + Len(q) :
                    w[i] = IF i <= Len(p) THEN p[i] ELSE q[i - Len(p)]
<1>0. ASSUME NEW p \in Seq(Byte), NEW q \in Seq(Byte) PROVE Joins(p \o q, p, q)
  BY ConcatProperties
<1> HIDE DEF Joins
<1>1. PICK st : st = s \o t /\ Joins(st, s, t)
  BY <1>0
<1>2. PICK tu : tu = t \o u /\ Joins(tu, t, u)
  BY <1>0
<1> USE DEF Joins
<1>3. st \in Seq(Byte) /\ tu \in Seq(Byte)
  BY <1>1, <1>2
<1> HIDE DEF Joins
<1>4. PICK left, right : /\ left = st \o u /\ Joins(left, st, u)
                         /\ right = s \o tu /\ Joins(right, s, tu)
  BY <1>0, <1>3
<1> USE DEF Joins
<1>5. Len(s) \in Nat /\ Len(t) \in Nat /\ Len(u) \in Nat
  OBVIOUS
<1>6. Len(left) = Len(right) /\ Len(left) = Len(s) + Len(t) + Len(u)
  BY <1>1, <1>2, <1>4, <1>5
<1>7. ASSUME NEW i \in 1 .. Len(left) PROVE left[i] = right[i]
  <2>1. CASE i <= Len(s)
    BY <1>1, <1>4, <1>5, <1>6, <1>2, <2>1
  <2>2. CASE Len(s) < i /\ i <= Len(s) + Len(t)
    <3>1. i - Len(s) \in 1 .. Len(t)
      BY <1>5, <1>6, <2>2
    <3>2. left[i] = t[i - Len(s)]
      BY <1>1, <1>4, <1>5, <1>6, <2>2
    <3>3. right[i] = tu[i - Len(s)]
      BY <1>2, <1>4, <1>5, <1>6, <2>2
    <3>4. tu[i - Len(s)] = t[i - Len(s)]
      BY <1>2, <1>5, <3>1
    <3> QED
      BY <3>2, <3>3, <3>4
  <2>3. CASE Len(s) + Len(t) < i
    <3> DEFINE j == i - Len(s)
    <3>1. j \in 1 .. Len(t) + Len(u) /\ ~(j <= Len(t)) /\ j - Len(t) = i - (Len(s) + Len(t))
      BY <1>5, <1>6, <2>3
    <3>2. left[i] = u[i - (Len(s) + Len(t))]
      BY <1>1, <1>4, <1>5, <1>6, <2>3
    <3>3. right[i] = tu[j]
      BY <1>2, <1>4, <1>5, <1>6, <2>3
    <3> HIDE DEF j
    <3>4. tu[j] = u[j - Len(t)]
      BY <1>2, <3>1
    <3> QED
      BY <3>1, <3>2, <3>3, <3>4
  <2> QED
    BY <1>5, <1>6, <2>1, <2>2, <2>3
<1>8. left = right
  BY <1>4, <1>6, <1>7, SeqEqual
<1> HIDE DEF Joins
<1> QED
  BY <1>1, <1>2, <1>4, <1>8

(***************************************************************************)
(* A reader that agrees with the writer on the length of the vector opens  *)
(* what was sealed, whatever the text.                                     *)
(***************************************************************************)
THEOREM AgreeingReaderOpens ==
    ASSUME NEW Byte, NEW iv \in Seq(Byte), NEW tag \in Seq(Byte), NEW text \in Seq(Byte),
           Len(tag) = TagBytes
    PROVE  Opens(Len(iv), iv, tag, text)
<1> DEFINE packed == (iv \o tag) \o text
<1>1. /\ iv \o tag \in Seq(Byte) /\ tag \o text \in Seq(Byte)
      /\ Len(iv \o tag) = Len(iv) + TagBytes
      /\ Len(packed) = Len(iv \o tag) + Len(text)
  BY ConcatProperties
<1>2. /\ Len(iv) \in Nat /\ Len(text) \in Nat /\ TagBytes \in Nat
      /\ <<>> \in Seq(Byte) /\ Len(<<>>) = 0
  BY DEF TagBytes
<1>3. packed = (<<>> \o iv) \o (tag \o text)
  <2>1. (iv \o tag) \o text = iv \o (tag \o text)
    BY ConcatRegroups, SMTT(30)
  <2>2. <<>> \o iv = iv
    BY ConcatEmptySeq
  <2> QED
    BY <2>1, <2>2
<1>4. packed = (((iv \o tag) \o text) \o <<>>)
  <2>1. (iv \o tag) \o text \in Seq(Byte)
    BY <1>1, ConcatProperties
  <2> QED
    BY <2>1, ConcatEmptySeq, Zenon
<1>5. SubSeq((<<>> \o iv) \o (tag \o text), 1, Len(iv)) = iv
  BY <1>1, <1>2, TakePart
<1>6. SubSeq(packed, Len(iv) + 1, Len(iv) + TagBytes) = tag
  BY <1>2, TakePart
<1>7. SubSeq(((iv \o tag) \o text) \o <<>>, Len(iv) + TagBytes + 1, Len(packed)) = text
  <2>1. PICK n, m : n = Len(packed) /\ m = Len(iv) + TagBytes + 1
    OBVIOUS
  <2>2. /\ n \in Nat /\ m \in Nat /\ m = Len(iv \o tag) + 1
        /\ n = Len(iv \o tag) + Len(text)
    BY <1>1, <1>2, <2>1
  <2>3. SubSeq(((iv \o tag) \o text) \o <<>>, m, n) = text
    <3>1. iv \o tag \in Seq(Byte) /\ text \in Seq(Byte) /\ <<>> \in Seq(Byte)
      BY <1>1, <1>2
    <3> QED
      BY <2>2, <3>1, TakePart
  <2> QED
    BY <2>1, <2>3
<1> HIDE DEF packed
<1>8. Len(packed) >= Len(iv) + TagBytes
  BY <1>1, <1>2
<1>9. Pack(iv, tag, text) = packed
  BY DEF Pack, packed
<1>10. Unpack(Len(iv), packed) = [iv |-> iv, tag |-> tag, text |-> text]
  BY <1>3, <1>4, <1>5, <1>6, <1>7 DEF Unpack
<1> QED BY <1>8, <1>9, <1>10 DEF Opens

(***************************************************************************)
(* Any other reader throws: it never takes one part for another.           *)
(***************************************************************************)
THEOREM DisagreeingReaderThrows ==
    ASSUME NEW Byte, NEW iv \in Seq(Byte), NEW tag \in Seq(Byte), NEW text \in Seq(Byte),
           NEW n \in Nat, n # Len(iv)
    PROVE  ~Opens(n, iv, tag, text)
<1> DEFINE packed == (iv \o tag) \o text
<1>1. SUFFICES ASSUME Len(packed) >= n + TagBytes, SubSeq(packed, 1, n) = iv
               PROVE  FALSE
  BY DEF Opens, Pack, Unpack
<1>2. packed \in Seq(Byte)
  BY ConcatProperties
<1> HIDE DEF packed
<1>3. \A i \in 1 .. n : packed[i] \in Byte
  BY <1>1, <1>2 DEF TagBytes
<1>4. Len(SubSeq(packed, 1, n)) = IF 1 <= n THEN n - 1 + 1 ELSE 0
  BY <1>3, SubSeqProperties
<1> QED BY <1>1, <1>4

-----------------------------------------------------------------------------
(***************************************************************************)
(* The comment of the client: it "mirrors TradingLossUnderwriter's         *)
(* _computeLoss exactly".  So it does whenever the contract computes a     *)
(* loss at all, for every direction, price and tolerance.                  *)
(***************************************************************************)
THEOREM ProjectionMirrorsContract ==
  ASSUME NEW direction \in Directions, NEW issue \in Int, NEW price \in Int,
         NEW tolerance \in Nat, PriceAvailable(issue, price)
  PROVE  projectedLossBps(direction, issue, price, tolerance)
           = computeLoss(direction, issue, price, tolerance)
<1>1. issue > 0 /\ price > 0 /\ ~(issue <= 0 \/ price <= 0)
  BY DEF PriceAvailable
<1>2. CASE direction = "BUY"
  BY <1>1, <1>2 DEF projectedLossBps, computeLoss
<1>3. CASE direction = "SELL"
  BY <1>1, <1>3 DEF projectedLossBps, computeLoss
<1>4. CASE direction = "HOLD"
  BY <1>1, <1>4 DEF projectedLossBps, computeLoss
<1> QED BY <1>2, <1>3, <1>4 DEF Directions

(***************************************************************************)
(* A claim never takes more than its coverage from the escrow, however far *)
(* the price has moved (claimLoss).                                        *)
(***************************************************************************)
THEOREM PayoutIsCovered ==
  ASSUME NEW coverageAmount \in Nat, NEW lossBps \in Nat
  PROVE  payout(coverageAmount, lossBps) \in 0 .. coverageAmount
<1> DEFINE owed == (coverageAmount * lossBps) \div 10000
<1>1. coverageAmount * lossBps \in Nat
  OBVIOUS
<1>2. owed \in Nat
  BY <1>1
<1> HIDE DEF owed
<1>3. payout(coverageAmount, lossBps) = IF owed > coverageAmount THEN coverageAmount ELSE owed
  BY DEF payout, owed
<1> QED BY <1>2, <1>3

=============================================================================
