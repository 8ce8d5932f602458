---------------------------- MODULE TradingLoss ----------------------------
(***************************************************************************)
(* The insured trading signal, an example of the protocol packages: the    *)
(* loss for which TradingLossUnderwriter pays, and the projection of it    *)
(* that the TypeScript client shows a buyer before the claim.              *)
(*                                                                         *)
(* Losses are basis points, prices integers; the two implementations are   *)
(* written in different languages, over different types.                   *)
(***************************************************************************)
EXTENDS Integers

Directions == {"SELL", "HOLD", "BUY"}

-----------------------------------------------------------------------------
(***************************************************************************)
(* The client.  It answers zero where the contract refuses the claim.      *)
(***************************************************************************)
projectedLossBps(direction, issue, current, tolerance) ==
    LET absMove == IF current >= issue THEN current - issue ELSE issue - current
        holdMove == (absMove * 10000) \div issue
    IN  CASE issue <= 0 \/ current <= 0 -> 0
          [] direction = "BUY" /\ issue > 0 /\ current > 0 ->
                IF current >= issue THEN 0 ELSE ((issue - current) * 10000) \div issue
          [] direction = "SELL" /\ issue > 0 /\ current > 0 ->
                IF current <= issue THEN 0 ELSE ((current - issue) * 10000) \div issue
          [] direction = "HOLD" /\ issue > 0 /\ current > 0 ->
                IF holdMove > tolerance THEN holdMove - tolerance ELSE 0

-----------------------------------------------------------------------------
(***************************************************************************)
(* The contract.                                                           *)
(***************************************************************************)
\* claimLoss reverts PriceUnavailable otherwise.
PriceAvailable(issue, current) == issue > 0 /\ current > 0

computeLoss(direction, issue, current, tolerance) ==
    CASE direction = "BUY" ->
            IF current < issue THEN ((issue - current) * 10000) \div issue ELSE 0
      [] direction = "SELL" ->
            IF current > issue THEN ((current - issue) * 10000) \div issue ELSE 0
      [] direction = "HOLD" ->
            LET absMove == IF current >= issue THEN current - issue ELSE issue - current
                move == (absMove * 10000) \div issue
            IN  IF move > tolerance THEN move - tolerance ELSE 0

payout(coverageAmount, lossBps) ==
    LET owed == (coverageAmount * lossBps) \div 10000
    IN  IF owed > coverageAmount THEN coverageAmount ELSE owed

=============================================================================
