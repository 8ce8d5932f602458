---------------------------- MODULE BalanceStream ----------------------------
(***************************************************************************)
(* The hook useCredits of the frontend and the endpoint it listens to: the *)
(* service looks at the account every ten seconds and sends what it has    *)
(* not sent yet on this connection; a GET fills the gap when the           *)
(* connection drops, and when the user asks for it.                        *)
(*                                                                         *)
(* Of a balance it matters whether it is the one of the account now: an    *)
(* account only grows here, so that an old balance never is again.  What   *)
(* the service sends arrives at once.  A GET is answered and its answer    *)
(* arrives later; one is under way at a time (a bound).                    *)
(***************************************************************************)

VARIABLES
    stream,          \* what was sent last on this connection
    get,             \* the GET under way, by what it saw
    credits          \* the balance the component shows

streamVars == <<stream, get, credits>>

StreamTypeOK ==
    /\ stream \in {"closed", "nothing", "old", "current"}
    /\ get \in {"none", "asked", "old", "current"}
    /\ credits \in {"old", "current"}

\* An account that nothing was paid into is shown as it is.
StreamInit ==
    /\ stream = "closed"
    /\ get = "none"
    /\ credits = "current"

\* The account is credited.
Aged(b) == IF b = "current" THEN "old" ELSE b

Age ==
    /\ stream' = Aged(stream)
    /\ get' = Aged(get)
    /\ credits' = Aged(credits)

\* refresh, and what happens to the rest meanwhile.
fetchBalance == get' = IF get = "none" THEN "asked" ELSE get

Refresh == fetchBalance /\ UNCHANGED <<stream, credits>>

AgeAndRefresh ==
    /\ stream' = Aged(stream)
    /\ credits' = Aged(credits)
    /\ get' = IF get = "none" THEN "asked" ELSE Aged(get)

ServeGet ==
    /\ get = "asked" /\ get' = "current"
    /\ UNCHANGED <<stream, credits>>

ReceiveGet ==
    /\ get \in {"old", "current"}
    /\ credits' = get /\ get' = "none"
    /\ UNCHANGED stream

\* What was shown is shown on, with an error.
FailGet ==
    /\ get # "none" /\ get' = "none"
    /\ UNCHANGED <<stream, credits>>

\* The browser connects, and again when the connection was lost.
OpenStream ==
    /\ stream = "closed" /\ stream' = "nothing"
    /\ UNCHANGED <<get, credits>>

\* onerror
Drop ==
    /\ stream # "closed" /\ stream' = "closed"
    /\ fetchBalance
    /\ UNCHANGED credits

\* Faulty variant: only the first balance of a connection is sent.
PushFirst ==
    /\ stream = "nothing"
    /\ stream' = "current" /\ credits' = "current"
    /\ UNCHANGED get

\* balance_stream
Push ==
    /\ stream \in {"nothing", "old"}
    /\ stream' = "current" /\ credits' = "current"
    /\ UNCHANGED get

\* The component is gone; the next one starts from zero.
CloseStream(nothingPaid) ==
    /\ stream' = "closed"
    /\ get' = "none"
    /\ credits' = IF nothingPaid THEN "current" ELSE "old"

=============================================================================
