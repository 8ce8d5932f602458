---------------------------- MODULE RiskRequest ----------------------------
(***************************************************************************)
(* handleRiskSubmit of InferenceNewPage: four features are encrypted and   *)
(* stored in the input vault, the handles read back, the quorum previewed, *)
(* a permit made for each of its nodes, and the request submitted to the   *)
(* coordination layer.                                                     *)
(*                                                                         *)
(* The page reads its account from one hook and the wallet client it signs *)
(* with from another, which follows later: what it stores may belong to    *)
(* the account before.  A loan has the time as its name, so every attempt  *)
(* has a record of the vault of its own, unless somebody was as quick.     *)
(*                                                                         *)
(* The flags that disable the button are in the store of the application,  *)
(* not in the page: they outlive it.                                       *)
(*                                                                         *)
(* The request's way through its quorum is external.  The coordination     *)
(* layer stores the last verdict before it finalizes the request.  Bound:  *)
(* every request is covered, so every accepted one may be disputed.  A     *)
(* request whose answer is lost has no page and no history: left out.      *)
(***************************************************************************)
EXTENDS InferencePolling

CONSTANTS Verifiers     \* the number of verifiers of a quorum

ASSUME VerifierAssumption == Verifiers \in Nat

VARIABLES
    riskPlace,     \* where handleRiskSubmit is; "idle": it is not running
    vaultOwner,    \* who owns the inputs stored under the loan at hand
    risks          \* coordination layer: per request, its record or NoRisk

riskVars == <<riskPlace, vaultOwner, risks>>

RiskPlaces == {"encrypt", "store", "share", "submit"}
\* "account" is the one the page knows, "before" the one it was.
Senders == {"account", "before"}
Owners == Senders \cup {"nobody", "other"}
RiskStatuses == {"queued", "accepted", "rejected", "disputed"}

NoRisk == [known |-> FALSE, failed |-> FALSE, status |-> "queued", led |-> FALSE,
           verdicts |-> 0, verifiers |-> Verifiers, permits |-> 0,
           owner |-> "nobody"]

RiskTypeOK ==
    /\ riskPlace \in RiskPlaces \cup {"idle"}
    /\ vaultOwner \in Owners
    /\ risks \in [RiskRequests -> [known : BOOLEAN, failed : BOOLEAN, status : RiskStatuses,
                               led : BOOLEAN, verdicts : 0..Verifiers, verifiers : {Verifiers},
                               permits : {0, Verifiers + 1}, owner : Owners]]

RiskInit ==
    /\ riskPlace = "idle"
    /\ vaultOwner = "nobody"
    /\ risks = [r \in RiskRequests |-> NoRisk]

-----------------------------------------------------------------------------
\* isEncrypting and isSubmitting of the store.
RiskBusy == riskPlace # "idle"

StartRisk ==
    /\ ~RiskBusy
    /\ riskPlace' = "encrypt"
    /\ vaultOwner' \in {"nobody", "other"}
    /\ UNCHANGED risks

\* A step that fails resets the flags, and the next attempt has another loan.
GiveUp ==
    /\ riskPlace' = "idle"
    /\ vaultOwner' = "nobody"
    /\ UNCHANGED risks

\* The client of CoFHE proves the four features encrypted.
EncryptFeatures ==
    /\ riskPlace = "encrypt"
    /\ \/ riskPlace' = "store" /\ UNCHANGED <<vaultOwner, risks>>
       \/ GiveUp

\* storeEncryptedInputs of the vault: it reverts when the loan is another's.
Stored(owner, sender) ==
    /\ owner \in {"nobody", sender}
    /\ vaultOwner' = sender

\* The receipt must be a success.
StoreInputs ==
    /\ riskPlace = "store"
    /\ \/ /\ \E sender \in Senders : Stored(vaultOwner, sender)
          /\ riskPlace' = "share"
          /\ UNCHANGED risks
       \/ GiveUp

\* The vault is read back; the quorum is previewed, and the permits made.
OwnInputs == vaultOwner = "account"

ShareInputs ==
    /\ riskPlace = "share"
    /\ \/ OwnInputs /\ riskPlace' = "submit" /\ UNCHANGED <<vaultOwner, risks>>
       \/ GiveUp

NewRisk ==
    [NoRisk EXCEPT !.known = TRUE, !.permits = Verifiers + 1, !.owner = vaultOwner]

\* The coordination layer has stored request r.
CreateRisk(r) ==
    /\ riskPlace = "submit"
    /\ ~risks[r].known
    /\ riskPlace' = "idle"
    /\ vaultOwner' = "nobody"
    /\ risks' = [risks EXCEPT ![r] = NewRisk]

RefuseRisk == riskPlace = "submit" /\ GiveUp

-----------------------------------------------------------------------------
(***************************************************************************)
(* The coordination layer.                                                 *)
(***************************************************************************)
Undecided(r) == risks[r].known /\ ~risks[r].failed /\ risks[r].status = "queued"

RiskProgress(r) ==
    /\ \/ /\ Undecided(r) /\ ~risks[r].led
          /\ \/ risks' = [risks EXCEPT ![r].led = TRUE]
             \/ risks' = [risks EXCEPT ![r].failed = TRUE]
       \/ /\ Undecided(r) /\ risks[r].led /\ risks[r].verdicts < Verifiers
          /\ risks' = [risks EXCEPT ![r].verdicts = @ + 1]
       \/ /\ Undecided(r) /\ risks[r].led /\ risks[r].verdicts = Verifiers
          /\ \E s \in {"accepted", "rejected"} : risks' = [risks EXCEPT ![r].status = s]
       \/ /\ risks[r].known /\ risks[r].status = "accepted"
          /\ risks' = [risks EXCEPT ![r].status = "disputed"]
    /\ UNCHANGED <<riskPlace, vaultOwner>>

=============================================================================
