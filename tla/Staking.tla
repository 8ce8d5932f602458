------------------------------ MODULE Staking ------------------------------
(***************************************************************************)
(* contracts/staking/BlindferenceStaking.sol: the BLIND stake of the       *)
(* nodes.  A transaction is one step; one that reverts is no step.         *)
(***************************************************************************)
EXTENDS Integers, FiniteSets, Functions

CONSTANTS
    Nodes, Owner, Icl,
    MinStake, UnbondingPeriod,
    StakeAmounts,    \* amounts that are staked and slashed
    Endowment,       \* BLIND a node has at the start
    MaxTime          \* bound on the clock

MaxConsecutiveFailures == 3
Accounts == Nodes \cup {Owner, Icl}

ASSUME StakingAssumption ==
    /\ IsFiniteSet(Nodes) /\ Owner \notin Nodes /\ Icl \notin Nodes
    /\ MinStake \in Nat \ {0} /\ UnbondingPeriod \in Nat /\ StakeAmounts \subseteq Nat
    /\ Endowment \in Nat /\ MaxTime \in Nat

VARIABLES
    stakes,             \* per node: staked, unbonding, unbondingAvailableAt,
                        \* consecutiveFailures, active
    authorizedSlasher,
    totalStaked,
    held, treasury,     \* BLIND of the contract and of its owner
    wallet,             \* BLIND of the nodes
    now

stakingVars == <<stakes, authorizedSlasher, totalStaked, held, treasury, wallet, now>>

NoStake == [staked |-> 0, unbonding |-> 0, unbondingAvailableAt |-> 0,
            consecutiveFailures |-> 0, active |-> FALSE]

Supply == Endowment * Cardinality(Nodes)

StakingTypeOK ==
    /\ stakes \in [Nodes -> [staked : 0..Supply, unbonding : 0..Supply,
                             unbondingAvailableAt : 0..(MaxTime + UnbondingPeriod),
                             consecutiveFailures : 0..(MaxConsecutiveFailures - 1),
                             active : BOOLEAN]]
    /\ authorizedSlasher \subseteq Accounts
    /\ {totalStaked, held, treasury} \subseteq 0..Supply
    /\ wallet \in [Nodes -> 0..Supply]
    /\ now \in 0..MaxTime

StakingInit ==
    /\ stakes = [n \in Nodes |-> NoStake]
    /\ authorizedSlasher = {}
    /\ totalStaked = 0 /\ held = 0 /\ treasury = 0
    /\ wallet = [n \in Nodes |-> Endowment]
    /\ now = 0

Stake(n, amount) ==
    /\ amount >= MinStake
    /\ wallet[n] >= amount
    /\ stakes' = [stakes EXCEPT ![n].staked = @ + amount, ![n].active = TRUE]
    /\ totalStaked' = totalStaked + amount
    /\ wallet' = [wallet EXCEPT ![n] = @ - amount]
    /\ held' = held + amount
    /\ UNCHANGED <<authorizedSlasher, treasury, now>>

\* Faulty variant: a second unstake may begin while the first is unbonding.
InitiateUnstakeAgain(n) ==
    /\ stakes[n].staked > 0
    /\ stakes' = [stakes EXCEPT ![n].staked = 0, ![n].unbonding = stakes[n].staked,
                                ![n].unbondingAvailableAt = now + UnbondingPeriod,
                                ![n].active = FALSE]
    /\ totalStaked' = totalStaked - stakes[n].staked
    /\ UNCHANGED <<authorizedSlasher, held, treasury, wallet, now>>

InitiateUnstake(n) ==
    /\ stakes[n].staked > 0
    /\ stakes[n].unbonding = 0
    /\ stakes' = [stakes EXCEPT ![n].staked = 0, ![n].unbonding = stakes[n].staked,
                                ![n].unbondingAvailableAt = now + UnbondingPeriod,
                                ![n].active = FALSE]
    /\ totalStaked' = totalStaked - stakes[n].staked
    /\ UNCHANGED <<authorizedSlasher, held, treasury, wallet, now>>

\* Faulty variant: the node need not wait for the unbonding period to end.
CompleteUnstakeEarly(n) ==
    /\ stakes[n].unbonding > 0
    /\ stakes' = [stakes EXCEPT ![n].unbonding = 0, ![n].unbondingAvailableAt = 0]
    /\ wallet' = [wallet EXCEPT ![n] = @ + stakes[n].unbonding]
    /\ held' = held - stakes[n].unbonding
    /\ UNCHANGED <<authorizedSlasher, totalStaked, treasury, now>>

CompleteUnstake(n) ==
    /\ stakes[n].unbonding > 0
    /\ now >= stakes[n].unbondingAvailableAt
    /\ stakes' = [stakes EXCEPT ![n].unbonding = 0, ![n].unbondingAvailableAt = 0]
    /\ wallet' = [wallet EXCEPT ![n] = @ + stakes[n].unbonding]
    /\ held' = held - stakes[n].unbonding
    /\ UNCHANGED <<authorizedSlasher, totalStaked, treasury, now>>

IsSlasher(a) == a \in authorizedSlasher \cup {Owner}

\* Takes amount of n's stake for the owner, with the failures forgotten.
Seize(n, amount) ==
    /\ stakes' = [stakes EXCEPT ![n].staked = @ - amount, ![n].consecutiveFailures = 0,
                                ![n].active = @ /\ amount < stakes[n].staked]
    /\ totalStaked' = totalStaked - amount
    /\ held' = held - amount
    /\ treasury' = treasury + amount
    /\ UNCHANGED <<authorizedSlasher, wallet, now>>

Slash(by, n, amount) ==
    /\ IsSlasher(by)
    /\ stakes[n].staked > 0
    /\ Seize(n, IF amount > stakes[n].staked THEN stakes[n].staked ELSE amount)

\* The failure of a node without a stake is not counted.
RecordFailure(by, n) ==
    /\ IsSlasher(by)
    /\ stakes[n].staked > 0
    /\ IF stakes[n].consecutiveFailures + 1 >= MaxConsecutiveFailures
       THEN Seize(n, stakes[n].staked)
       ELSE /\ stakes' = [stakes EXCEPT ![n].consecutiveFailures = @ + 1]
            /\ UNCHANGED <<authorizedSlasher, totalStaked, held, treasury, wallet, now>>

ResetFailures(by, n) ==
    /\ IsSlasher(by)
    /\ stakes' = [stakes EXCEPT ![n].consecutiveFailures = 0]
    /\ UNCHANGED <<authorizedSlasher, totalStaked, held, treasury, wallet, now>>

SetSlasher(a, authorized) ==
    /\ authorizedSlasher' =
        IF authorized THEN authorizedSlasher \cup {a} ELSE authorizedSlasher \ {a}
    /\ UNCHANGED <<stakes, totalStaked, held, treasury, wallet, now>>

Tick ==
    /\ now < MaxTime
    /\ now' = now + 1
    /\ UNCHANGED <<stakes, authorizedSlasher, totalStaked, held, treasury, wallet>>

StakingNext ==
    \/ \E n \in Nodes : InitiateUnstake(n) \/ CompleteUnstake(n)
    \/ \E n \in Nodes, amount \in StakeAmounts : Stake(n, amount)
    \/ \E by \in {Owner, Icl}, n \in Nodes :
        \/ RecordFailure(by, n) \/ ResetFailures(by, n)
        \/ \E amount \in StakeAmounts : Slash(by, n, amount)
    \/ \E authorized \in BOOLEAN : SetSlasher(Icl, authorized)
    \/ Tick

StakingSpec == StakingInit /\ [][StakingNext]_stakingVars

-----------------------------------------------------------------------------
(***************************************************************************)
(* The books balance after any sequence of stakes, unstakes, slashes and   *)
(* failures: the contract holds what the nodes have staked and are         *)
(* unbonding, totalStaked is what they have staked, and a node is active   *)
(* exactly as long as it has a stake.                                      *)
(***************************************************************************)
BooksBalance ==
    /\ held = SumFunction([n \in Nodes |-> stakes[n].staked + stakes[n].unbonding])
    /\ totalStaked = SumFunction([n \in Nodes |-> stakes[n].staked])
    /\ \A n \in Nodes : stakes[n].active <=> stakes[n].staked > 0

\* What a step may do to the unbonding part of n's stake: begin it with all
\* that is staked and a full period to wait, leave it and its date alone, or,
\* the date reached, pay all of it to n and to nobody else.
UnbondingStep(n) ==
    LET before == stakes[n]
        after == stakes'[n]
    IN  /\ before.unbonding = 0 /\ after.unbonding # 0 =>
            /\ after.unbonding = before.staked
            /\ after.unbondingAvailableAt = now + UnbondingPeriod
        /\ before.unbonding # 0 =>
            \/ /\ after.unbonding = before.unbonding
               /\ after.unbondingAvailableAt = before.unbondingAvailableAt
            \/ /\ now >= before.unbondingAvailableAt
               /\ after.unbonding = 0
               /\ wallet' = [wallet EXCEPT ![n] = @ + before.unbonding]

(***************************************************************************)
(* A stake that is being unbonded is out of reach: only its owner gets it, *)
(* all of it at once and not before the unbonding period has passed since  *)
(* the unstake, although the node may stake, fail and be slashed again in  *)
(* the meantime, which neither takes from it nor moves its date.           *)
(***************************************************************************)
UnbondingReturnsWhole == [][\A n \in Nodes : UnbondingStep(n)]_stakingVars

=============================================================================
