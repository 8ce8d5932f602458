----------------------------- MODULE TokenDesk -----------------------------
(***************************************************************************)
(* The other tokens a user gets in the browser: the BLIND of the faucet,   *)
(* and the cUSDC that USDC is wrapped into, by way of an escrow that is    *)
(* created, funded and redeemed; and the page that creates an escrow for a *)
(* job by hand.                                                            *)
(*                                                                         *)
(* A step of the three is a transaction of the wallet.  It fails before or *)
(* after it took effect: the caller only learns that it failed.  The       *)
(* handlers share no state but the wallet; one of them runs at a time.     *)
(***************************************************************************)
EXTENDS Naturals

VARIABLES
    desk,            \* the await the handler is at, "idle" if none runs
    attended,        \* its component is still there
    steps,           \* the three steps of useWrapUSDC, as shown
    notices,         \* the message of each of the three
    escrow,          \* the last escrow: created, funded, redeemed
    faucet           \* has it served this wallet: "never", "lately", "before"

deskVars == <<desk, attended, steps, notices, escrow, faucet>>

WrapSteps == <<"create", "fund", "redeem">>
Desks == {"drip", "wrap", "escrow"}

Pending == [i \in 1 .. 3 |-> "pending"]

DeskTypeOK ==
    /\ desk \in {"idle", "drip", "create", "fund", "redeem", "make", "pay"}
    /\ attended \in BOOLEAN
    /\ steps \in [1 .. 3 -> {"pending", "in-progress", "done", "error"}]
    /\ notices \in [Desks -> {"none", "success", "error"}]
    /\ escrow \in 0 .. 3
    /\ faucet \in {"never", "lately", "before"}

DeskInit ==
    /\ desk = "idle"
    /\ attended = FALSE
    /\ steps = Pending
    /\ notices = [d \in Desks |-> "none"]
    /\ escrow = 0
    /\ faucet = "never"

\* What a handler shows, if its component is still there.
Show(var, shown) == IF attended THEN shown ELSE var

Say(d, what) == notices' = Show(notices, [notices EXCEPT ![d] = what])

Enter(d, first) ==
    /\ desk = "idle"
    /\ desk' = first
    /\ attended' = TRUE
    /\ notices' = [notices EXCEPT ![d] = "none"]

-----------------------------------------------------------------------------
(***************************************************************************)
(* useBlindFaucet                                                          *)
(***************************************************************************)
\* The faucet has no lastDripTime, so that reading it fails and the button
\* is never disabled for it.
Drip == Enter("drip", "drip") /\ UNCHANGED <<steps, escrow, faucet>>

\* The receipt is a success: the cooldown had passed.
EndDrip ==
    /\ desk = "drip" /\ faucet # "lately"
    /\ desk' = "idle" /\ faucet' = "lately"
    /\ Say("drip", "success")
    /\ UNCHANGED <<attended, steps, escrow>>

\* It is reverted, or there is none.
FailDrip ==
    /\ desk = "drip"
    /\ desk' = "idle"
    /\ Say("drip", "error")
    /\ UNCHANGED <<attended, steps, escrow, faucet>>

Cool ==
    /\ faucet = "lately" /\ faucet' = "before"
    /\ UNCHANGED <<desk, attended, steps, notices, escrow>>

-----------------------------------------------------------------------------
(***************************************************************************)
(* useWrapUSDC                                                             *)
(***************************************************************************)
updateStep(shown, i, to) == [shown EXCEPT ![i] = to]

\* The steps are reset, and the first begins once the SDK is there.
Wrap ==
    /\ Enter("wrap", "create")
    /\ steps' = updateStep(Pending, 1, "in-progress")
    /\ escrow' = 0
    /\ UNCHANGED faucet

\* Step i is done, and the next one begins.
StepsAfter(i) ==
    IF i = 3 THEN updateStep(steps, 3, "done")
    ELSE updateStep(updateStep(steps, i, "done"), i + 1, "in-progress")

WrapStep(i) ==
    /\ desk = WrapSteps[i]
    /\ escrow' = i
    /\ steps' = Show(steps, StepsAfter(i))
    /\ desk' = IF i = 3 THEN "idle" ELSE WrapSteps[i + 1]
    /\ IF i = 3 THEN Say("wrap", "success") ELSE UNCHANGED notices
    /\ UNCHANGED <<attended, faucet>>

\* The SDK is got before the first step, and the balance read before the
\* third: when that fails no step is marked.
FailWrap(i) ==
    /\ desk = WrapSteps[i]
    /\ \/ /\ \E reached \in {i - 1, i} : escrow' = reached
          /\ steps' = Show(steps, updateStep(steps, i, "error"))
       \/ /\ i # 2 /\ UNCHANGED escrow
          /\ steps' = Show(steps, updateStep(steps, i, "pending"))
    /\ desk' = "idle"
    /\ Say("wrap", "error")
    /\ UNCHANGED <<attended, faucet>>

-----------------------------------------------------------------------------
(***************************************************************************)
(* CreateEscrowPage                                                        *)
(***************************************************************************)
handleCreate ==
    /\ Enter("escrow", "make")
    /\ escrow' = 0
    /\ UNCHANGED <<steps, faucet>>

Create ==
    \/ /\ desk = "make"
       /\ desk' = "pay" /\ escrow' = 1
       /\ UNCHANGED <<attended, steps, notices, faucet>>
    \/ /\ desk = "pay"
       /\ desk' = "idle" /\ escrow' = 2
       /\ Say("escrow", "success")
       /\ UNCHANGED <<attended, steps, faucet>>

FailCreate ==
    /\ desk \in {"make", "pay"}
    /\ \E reached \in {escrow, escrow + 1} : escrow' = reached
    /\ desk' = "idle"
    /\ Say("escrow", "error")
    /\ UNCHANGED <<attended, steps, faucet>>

-----------------------------------------------------------------------------
DeskStep ==
    \/ EndDrip \/ FailDrip \/ Cool
    \/ \E i \in 1 .. 3 : WrapStep(i) \/ FailWrap(i)
    \/ Create \/ FailCreate

\* The component is gone, and what it shows with it.
LeaveDesk ==
    /\ attended' = FALSE
    /\ steps' = Pending
    /\ notices' = [d \in Desks |-> "none"]
    /\ UNCHANGED <<desk, escrow, faucet>>

\* The steps that are done are done on the chain, and at most the one after
\* them as well.
Done == {i \in 1 .. 3 : steps[i] = "done"}

=============================================================================
