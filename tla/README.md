# Blindference: TLA+ models, checks and proofs

Blindference runs inference for users who show nobody their prompt.  A quorum of
nodes (a leader and verifiers) computes the answer, a coordination layer (ICL)
collects what they say and decides, a payment service moves the user's credits
and the nodes' rewards, and contracts keep the commitments, arbitrations,
reputations, rewards and stakes.  In front of them are a browser application and
an agent SDK; beside each node runs a bridge process to the FHE coprocessor.

This directory models that control flow in TLA+, checks it with TLC on small
instances and proves its main results with TLAPS.  `PROJECT.json` maps every
definition to the lines it stands for and lists the runs, the hazards and the
theorems.  Paths below are relative to the root of the repository; `P/` stands
for `network/packages/`.

    tlc -config MCExecutionCommitment.cfg MCExecutionCommitment.tla
    tlapm ExecutionCommitmentProofs.tla


## 1. Inventory

### Parts, their state, their operations

| Part | State | Operations | Module |
|---|---|---|---|
| Execution commitment registry, `P/contracts/contracts/core/ExecutionCommitmentRegistry.sol` | per invocation: status, two nodes, two deadlines, per role a digest, an output and a revealed flag | `dispatch`, `commit`, `reveal`, `markCommitTimeout`, `markRevealTimeout`, `setDispatcher` | `ExecutionCommitment` |
| Arbiter selection registry, `.../core/ArbiterSelectionRegistry.sol` | pool with index, stakes, per invocation a panel, two deadlines, votes and a ruling; when an arbiter last sat over a node | `registerArbiter`, `unregisterArbiter`, `requestArbitration`, `arbiterCommit`, `arbiterReveal`, `finalize` | `ArbiterSelection` |
| Reputation registry, `.../core/ReputationRegistry.sol` | per node score, guilty cycles, credited cycles | `recordFraudFromArbitration`, `recordHonestCycle` | `Reputation` |
| Reward accumulator, `.../core/RewardAccumulator.sol` | items and counters per node and cycle, settled cycles, accruers | `accrue`, `release`, `forfeit`, `setAccruer` | `RewardAccumulator` |
| Staking, `.../staking/BlindferenceStaking.sol` | per node stake, unbonding part, consecutive failures; total; slashers | `stake`, `initiateUnstake`, `completeUnstake`, `slash`, `recordFailure`, `resetFailures`, `setSlasher` | `Staking` |
| ICL quorum service, `P/icl/services/quorum_service.py`, over `P/icl/db/database.py` | per request: status, leader result, commitment hash, assignments (one JSON column), verdicts | claims, answers, expiry, finalizing, callback; two paths, text and risk | text path: `TextQuorum` |
| Payment service, `P/payment/services/job_service.py`, `chain_service.py` | jobs, credits, programs it has started | `submit_job`, `complete_job` | `JobSettlement`, `ChainScripts` |
| Credit service, `P/payment/services/credit_service.py`, `routers/credits.py` | credits of an account | deposits, packages, balance, balance stream, refunds | `CreditPurchase`, `BalanceStream`, `DisputeRefund` |
| Disputes of insured jobs, `P/icl/routers/inference.py` | status of the request | `dispute_inference_request`, which has credits refunded | `DisputeRefund`, in `ClientAccount` |
| Reineira programs, `P/payment/scripts`, `P/icl/scripts`, `network/scripts/create_escrow.ts` | one process: transactions mined, what it has printed | eight programs of one to three transactions | `ChainScripts` |
| Inference pages, `P/frontend/src/pages/Inference*.tsx`, `HistoryPage.tsx`, `hooks/useChat.ts`, `useInferenceStatus.ts` | entries of the chat, history, watched request, GETs under way, decryptions, keys, escrows | send, poll, decrypt, retry, feedback, dispute, risk form, leave, connect and disconnect | `InferencePolling`, `ChatSession`, `RequestPage`, `RiskRequest`, composed in `InferenceClient` |
| Account pages, `BuyCreditsPage.tsx`, `DepositModal.tsx`, `WalletPage.tsx`, `CreateEscrowPage.tsx`, `hooks/useCredits.ts`, `useWrapUSDC.ts`, `useBlindFaucet.ts` | transfers and the handler behind each, allowance, balance on display, escrow of a wrap | buy, approve, deposit, notify, wrap, drip, create | `CreditPurchase`, `BalanceStream`, `TokenDesk`, composed in `ClientAccount` |
| Agent SDK `P/agent-sdk/src`, the order scripts and `TextInferenceWizard.tsx` | CoFHE client, calls, keys, orders | `infer`, `submitEncryptedInference`, three scripts, the wizard | `AgentSdk`, in `ClientAccount` |
| Sealed payloads, `P/shared`, `P/shared-py` and seven copies | none | pack, unpack, split and combine the key | `Envelope` |
| CoFHE bridge, `P/node-reineira/.../cofhe_bridge.py` and `scripts/cofhe_bridge.mjs` | lock, process, pipes, CoFHE client, keys on the chain | four commands, start, die, close | `CofheBridge` |
| Node, `P/node-reineira/src/blindference_node` | its queue of tasks, what it has answered | register, be pushed to, infer, ask for the leader's result, answer, drop a task | in `TextQuorum` |
| Trading signal, `network/protocol/packages/examples-trading-signal*` | none modelled | loss, projection, payout | `TradingLoss` |
| Node, attestation, ticket and agent registries, prompt key store, result registry, payout claimer, inference gate, policy adapter | records of their own | - | not modelled |
| Landing, documentation and dashboard pages, demo contracts, FHE mocks | no protocol state | - | not modelled |

### How they interact

- The browser, or the SDK, encrypts the prompt and its key, stores the key on the
  chain for the nodes of a previewed quorum, uploads the prompt, perhaps makes an
  escrow of its own, and submits the job to the payment service.  Afterwards it
  polls: nothing is pushed to it but the balance.
- `submit_job` deducts credits, has a program create an escrow and perhaps insure
  the job, stores the job and forwards it to the ICL (three attempts).  The ICL inserts the request, chooses
  nodes and pushes the task to each, once.  The node of this repository only waits for
  pushes (`P/node-reineira/README.md:32`): it runs a task once and drops it when it
  fails.  What was not pushed, or was dropped, is pushed again when the node is started
  anew and registers.  The ICL also lets nodes poll and claim; those would be nodes of
  another make.
- The call that brings the last answer finalizes the request and starts a
  callback to `complete_job` (again three attempts), which rewards the nodes or
  refunds the user.
- On the risk path the nodes commit and reveal in the execution commitment
  registry.  An escalated invocation may be arbitrated; the reputation registry
  reads a ruling and books guilt; the reward accumulator reads the guilt when it
  releases a cycle.
- The payment service and the ICL report failures and successes to the staking
  contract.
- A node asks its bridge for every decryption and every key it stores: one line to
  the process, one line back, under a lock.

### What is hard about it

- Contracts: any account calls anything in any order at any time, around
  deadlines and cycle ends; registries read each other's records long after.
- Services: one asyncio process each, in which every `await` on the database
  lets other handlers run.  Reads are stale when they are used, JSON columns are
  read, changed and written back whole, nothing is locked, and no write looks at
  the status again.
- Between services: at-least-once delivery with three attempts, lost answers,
  restarts without recovery, timeouts that race late answers.
- In the browser: handlers of nine awaits with wallet prompts among them, effects
  that are cancelled and run again, unnumbered GETs every three seconds, pages that
  are left while their handlers go on, two records of each entry, a stream that is
  lost and opened again.
- Programs and processes: a program that is given up goes on by itself, and half of
  its transactions may be mined; a process dies with a command in it, and its death
  is noticed later.

### What makes each part correct

- *Commit-reveal*: verified means that two nodes bound themselves blind to one
  output; escalation has a cause; a decision is final; nothing is stuck.
- *Arbitration*: impartial panels, blind votes, rulings by majority, finality;
  the pool, its index and the ether agree.
- *Reputation*: guilt and credit exclude each other; only losers are condemned.
- *Rewards*: paid once, on merit, and out of what was accrued.
- *Staking*: the books balance; an unbonding stake is out of reach until its time, and
  comes back whole.
- *Quorum*: a success was answered by two thirds; no decision is lost; everybody
  is told the same; the request ends, unless a node stays silent.
- *Payment*: credits are not overdrawn; an ended job is square; no job reaches the
  nodes without its escrow.
- *Inference pages*: a job is covered before it is made; what is shown is true and
  stays; what the services decide is shown.
- *Account*: credits are paid for, to the wallet of the service, and once unless a reply
  was lost, or refunded for a dispute with evidence; a message says
  what has happened; the balance catches up.
- *SDK*: one sealed job per call, and every call ends.
- *Bridge*: the answer is to the question; every call returns.
- *Payloads*: who agrees on the format reads, who does not never misreads.


## 2. Modules

`CrossVerification`, `Arbitration` and `Conduct` are abstract specifications: what
a registry promises, and what the next registry in the chain reads of it.

    CrossVerification  <-implements-  ExecutionCommitment
          ^ INSTANCE
    Arbitration        <-implements-  ArbiterSelection  (also over CrossVerification)
          ^ INSTANCE
    Conduct            <-implements-  Reputation        (over Arbitration)
          ^ INSTANCE
    RewardAccumulator  (over Conduct)

    InferencePolling <-extends- ChatSession, RequestPage, RiskRequest
                     <-extends- InferenceClient
    CreditPurchase, DisputeRefund, BalanceStream, TokenDesk, AgentSdk (over Envelope)
                     <-extends- ClientAccount  --INSTANCE-->  ChainScripts
    JobSettlement                              --INSTANCE-->  ChainScripts

    Staking        TextQuorum        CofheBridge        TradingLoss      (alone)

So each contract is checked against the promise of the one it reads and not
against its code, which keeps the instances small, and the promise is checked
against the code once.

The theorems about a module are in a module of their own, which extends it:
`ExecutionCommitmentProofs`, `ArbiterSelectionProofs`, `ReputationProofs`, `FundsProofs` (of
`RewardAccumulator` and `Staking`), `TextQuorumProofs`, `ServiceProofs` (of the two services
that talk to a program: `JobSettlement` and `CofheBridge`) and `ClientProofs` (of what runs for
the user: `ClientAccount`, `InferenceClient`, `Envelope`, `TradingLoss`).  `SumTheorems` holds
what those about money need to know of sums.

**ExecutionCommitment.**  One action per external function.  A digest is the
tuple of what is hashed, so a copied digest names the wrong node; `JunkDigest` is
any digest without a preimage and `ZeroDigest` the empty slot, which the code
accepts as a commitment.  The clock moves on its own, so every call may meet
either side of every deadline.  Outputs may contain the zero handle.  The owner's
`setDispatcher` may happen at any time.

**ArbiterSelection.**  The draw depends on the block's randomness and is modelled
by its outcomes: any panel of k eligible arbiters.  The clock counts blocks, with
`block.number = now + 1`.  `finalize` may tally before the reveal deadline.

**Reputation.**  Time is only `cycle`.  The reads `revealOf`, `invocation` and
`arbitration` are reads of the two abstract modules.

**RewardAccumulator.**  Items are sequences, as in the code; the two counters are
counts of the list, because items are never removed.  The escrow releaser is
external: `paid` is what it has been told to pay; if it reverts, nothing happens.

**Staking.**  BLIND is external: the balances of the contract, of its owner (who
gets what is slashed) and of the nodes.  `Seize` is the body that `slash` and the
third failure share.

**TextQuorum.**  One request.  Each call of a node is a handler with a place `pc`
and a memory `mem`, and a step of it is what runs between two awaits.  A claim is
read, write; a leader's answer is read, write, check, tally, decide; a verifier's
answer writes its verdict at once (its own row) and goes on to check; an expiry
is read, write, all-failed check, close.  `WriteBack` is `update_one` with a
dotted key: it restores what the handler read of *all* nodes.  Hashes are pairs
of output and output_cid, the cid being named by the leader answer it came with.
A node has one `task` for the request.  It is pushed with the request (`Init`) or comes
of a claim; it ends with an answer (`End`), or is dropped whatever it was doing (`Drop`:
`worker.py:44-53` logs the failure and takes the next task), and `Register` is the new
start of a node, which has the request pushed anew as long as it has not been answered.
`AskForLeaderResult` is `_resolve_leader_result` (`text_handler.py:370-388`): the verifier
asks `LeaderPolls` times (15, two seconds apart) and then fails.

**JobSettlement.**  The jobs of one user.  `submit_job` and `complete_job` are
cut at their awaits; calls to the chain are synchronous in the code (web3 without
a thread) and belong to the step they start in.  The escrow and the coverage are
programs of `ChainScripts`: `submit_job` waits for them (`EscrowMade`, `NoEscrow`,
`Insured`), at most 120 s, and they run on (`Script`) whether it waits or not.
Constants say what may go wrong: a program, a forward or its answer lost, refund,
reward, restart.  `disturbed` is a history variable: the jobs a fault struck that
the code makes no attempt to mend.

**ChainScripts.**  A program is the sequence of its transactions.  `Transact` mines
the next one, `Break` is any await that fails, with the transaction mined or not;
what is printed follows from `SaysAfter`, but for the two `Pretenders`, which print a
result when they have failed.  `JobSettlement` has two processes per job,
`ClientAccount` one that is run by hand.

**InferencePolling.**  `useInferenceStatus` and `useCofheClient`.  A GET is a record of
the request it asks for and of what the service saw when it handled it; GETs are a
set, so they come back in any order or not at all.  `Counts` is the flag `mounted`.

**ChatSession.**  `handleChatSubmit` is a place and a closure (`current`): the message,
the payment mode and the preview it has captured.  `Effects` is one commit of React:
the four effects of `useChat` in their order, all of them seeing the values that
were rendered.  The history is a second record of each entry.

**RequestPage.**  `InferenceStatusPage`.  `DecryptAnswer` is its effect, run when the
stage or the client changes, with the run before it cancelled; `ManualDecrypt` is the
button, which nobody cancels.

**RiskRequest.**  The risk form, up to the navigation that its late answer brings.
`vaultOwner` is what the input vault holds of the loan at hand: the wallet client may
still be that of the account before, or somebody else may have taken the loan, whose
name is the time (`loan_<ms>`); `ShareInputs` reads the owner back.

**InferenceClient.**  One page is mounted at a time, and they share the hook
variables.  Leaving a page unmounts its hooks and lets its handlers go on.

**CreditPurchase.**  A transfer is a record of its route (page, modal, `purchase` and
`deposit` of the SDK), of its place on the chain and of its handler.  The service's
`process_deposit` and `purchase_credit_package` are `Notify`, `Granted`, `Denied` and
`Unanswered`; a reply that comes too late has credited nevertheless (`late`).  Each
component has the wallet it pays from its own configuration (`BuyCreditsPage.tsx:15`,
`DepositModal.tsx:8`) or its code (`agent.ts:93`), the service has another copy; `to` is the
wallet paid and `LooksFor` the one the service reads out of the receipt.

**DisputeRefund.**  One insured job and any number of calls of
`dispute_inference_request`, each cut at its awaits: the status is read
(`FileDispute`), a transaction is awaited, the verdict is written (`WriteVerdict`), and
`refund_credits` adds to the account (`RefundCredits`), without a transfer.
`BreakDispute` is the update or the refund that fails.

**BalanceStream.**  Of a balance only matters whether it is the account's *now*.

**TokenDesk.**  The faucet, `useWrapUSDC` and `CreateEscrowPage` as one desk, because
they share nothing but the wallet.

**AgentSdk.**  A program is the sequence of its awaits (`Steps`); each of them goes on
or throws, and what it changes on the way is its action.  Whether the nodes can open
the prompt depends on the two lengths of vector in `Envelope`.

**CofheBridge.**  The lock is the queue `waiting`; a coroutine drains, reads or, when it
has come upon a process it did not write to, is `listening`.  `exited` is a process
that is gone, `ended` one whose end the event loop has noticed.

**Envelope, TradingLoss.**  Pure operators, each beside the implementations that
must agree.


## 3. Runs

A bound is small enough to finish in minutes, and large enough that each faulty
variant of the code (the operators with a suffix in the modules) is caught.

| Run | Question | Bounds |
|---|---|---|
| `commit_reveal` | Can anything but blind agreement be verified, or anything be escalated without cause?  Does the registry implement `CrossVerification`? | one invocation (invocations share only the clock and the dispatcher), three nodes so that an outsider can try, two outputs of which one is the zero handle, two salts, time 0..4: both deadlines can be chosen with room on both sides |
| `arbitration` | Does the pool survive joining, leaving and drawing?  Do the cooldown and the exclusion of parties hold across invocations?  Does a panel decide blind and by majority?  Does the registry implement `Arbitration`? | two invocations of the same two nodes, four arbiters of whom one is a node, values below and above the minimum, odd and even panel sizes, both windows 1, cooldown 2 over time 0..2.  Two scenes share the run: in `pool` both invocations start from nothing and panels have one member and cast no votes that open; in `court` the first is escalated and a panel of three votes over two outputs, with copied and unopenable commitments |
| `reputation` | Can anybody be guilty and honest in one cycle, or guilty without having lost?  Does the registry implement `Conduct`? | one escalated invocation, one party and one arbiter as subjects, three arbiters, three cycles, bytes32(0) among the outputs |
| `rewards` | Is every payment earned, single and final? | one node, one accruer that may lose its authority, two cycles, two items, two escrows, amounts 0 and 1; minimum of one work item and no validation, as deployed |
| `staking` | Do the books balance through stake, failure, slash and unbonding? | two nodes with 5 BLIND, amounts 1..3 around the minimum 2, unbonding 2, time 0..3, so that a deadline is met, and missed by one, after a second stake |
| `job_settlement` | Are credits never overdrawn, is every undisturbed job square, and is no job worked on without its escrow? | two jobs and credits for one, all three modes, two callbacks per job of either kind (success, rejected; `timeout` differs by the name of the final status only and is in `rewarded_twice`), answered one at a time, every fault, programs that are given up and go on |
| `text_quorum` | Is a success a quorum's, is everybody told the same, does the request end? | two outputs, two questions of a verifier for the leader's result, any task dropped at any point; four settings: leader and two verifiers, the leader pushed to and started again, one verifier polling and one pushed to; leader and one verifier, both polling, whose claims expire at any moment (with three nodes the state space passes seven million); leader and one verifier, both pushed to and started again, so that the verifier gives up, comes back and is counted; leader and two verifiers on the table as `supabase_schema.sql` creates it.  A node answers twice at most |
| `inference_client` | Is a job covered, is what is shown true, does it stay, and does it come? | three sessions: one entry and a risk request across all pages with two GETs at a time; one entry the user decrypts; two entries that follow each other in one chat |
| `client_account` | Are credits paid for, are messages true, does a call make one sealed job, does the balance catch up, does every call end? | cases, one of which a behaviour keeps to: two transfers of any route with two notifications each; one transfer while the balance is looked at, from components that all pay the wallet the service looks for, or all another; two disputes while it is looked at; the desk; each program run by hand; two calls of the SDK side by side, of which one may be its smaller client; each order script and the wizard with nodes of either vector.  Transfers and disputes share nothing but the balance they add to, the desk and the calls nothing, so keeping them apart loses no interleaving that matters |
| `cofhe_bridge` | Is every answer to its question, and does every call return but for one defect? | three coroutines with any commands, two deaths at any point, `close` at any point |
| `rewarded_twice` | *violated*, see section 5 | one job, two callbacks that overlap, no faults |
| `bridge_hangs` | *violated* | two coroutines, one death |

Initial states of the scene `court` and of `reputation` are those in which the
invocation is escalated already; `CrossVerification` reaches them, and the scene
`pool` of `arbitration` starts from the very beginning.

Symmetry is used where no liveness is checked: among outputs, verifiers, jobs,
and nodes that no other constant tells apart.  Deadlock checking is off where the
system ends: one request, the jobs of a user, one command per coroutine, a bounded
clock.  `MCClientAccount` also evaluates `KeySurvivesItsHalves`: every key of four
bytes with three values comes out of its two halves again.

### Fairness

**`TextQuorum`.**  The event loop runs every started handler on, step by step (`WF` of
each `HandlerStep`).  A task that runs ends, with an answer or without one (`WF` of each
`TaskStep`): the worker goes through it once, what it awaits has timeouts, and asking
for the leader's result has an end; the call of the bridge that hangs is a run of its
own, `bridge_hangs`.  No fairness is assumed of a claim, of expiry, of a new start of a
node, or of an answer rather than a failure.  So nothing says that a node answers, and
`EventuallyDecided` asks for a decision only where from some time on every node of the
quorum has delivered or is at work; a `Silent` node leaves a request queued for ever
(section 5, *Slow leader*, *Silent leader*).  What it does exclude is the other half:
that everybody delivers in the end and nobody decides, because each handler has left
it to another.
`EventuallyDecided` and `NoLostDecision` speak of a table that has the column
`rejection_reason`: without it a rejection is lost (section 5).

**`InferenceClient`.**  `setInterval` asks again every three seconds while a request is
watched (`WF` of `PollRequest`); a GET may be lost, and any number of them, but not
all (`SF` of `ServePoll` and of `ReceivePoll`, since `FailPoll` competes with both).  A
decryption ends, with an answer or an error (`WF` of `EndDecryption`).  Nothing is
assumed of the user, of the wallet, or of when a job ends.

**`ClientAccount`.**  The browser connects an `EventSource` again by itself (`WF` of
`Listen`), and the service's loop comes round every ten seconds while a connection
lasts (`SF` of `PushBalance`: connections may be lost before it does).  What a call of
the SDK awaits comes or fails (`WF` of `AgentGoesOn`): HTTP calls, receipts and
sleeps have ends.  Nothing is assumed of the job.

**`CofheBridge`.**  Coroutines are scheduled (`WF` of each `Run`), and what the process
awaits comes or fails (`WF` of `Main`).  Nothing is assumed of its death, nor of when
it is noticed.

The contracts have no scheduler in this repository: nobody calls the timeout
functions, `requestArbitration` or `finalize`.  So nothing is assumed of
them, and `NeverStuck` says only that some call is always possible.


## 4. Proofs

Every proof holds for all values of the constants that meet the named
assumptions.

**`ExecutionCommitmentProofs`.**  `VerifiedMeansAgreement` is not inductive: it says
nothing of a state in which only one reveal has landed.  `IInv` adds, per
invocation, that the status says exactly how far the slots are (`Fresh`, `SlotOpen`,
`BothBound`), that the nodes differ and the deadlines are ordered (`Staffed`), that
what is revealed opens the digest of its role (`Opened`), and the two decisions
(`Agreed`, `Cause`).  `InitIInv` and `NextIInv` (one lemma per call) make it an
invariant.  From it:

- `TypeCorrect`, `OnlyAgreementVerifies`, `OnlyCauseEscalates`: the invariants;
- `UndecidedCanTimeOut`: `NeverStuck` with its ENABLED read as the guards of the two
  timeout reports (`TimeoutDue`), from the order of the deadlines;
- `BindingIsBlind`, `DecisionsAreFinal`: the action properties;
- `Refinement`: `dispatch` is `Open`, a commitment is `Bind` (a stutter for the zero
  digest), `reveal` is `Disclose`, the timeouts are `GiveUp`; the mapped answer is
  what a digest opens to, unique because a digest determines its preimage.

**`ServiceProofs`, the jobs.**  `CreditsNeverOverdrawn`, from `Solvent`: the balance is a
natural number and callbacks are well-formed.  `CheckBalance` plays no part in the
argument: the check is stale, the conditional update is what protects the credits.
`JobsAreBacked` (`EscrowBacked`), from `BackedInv`: what a program says of its
transactions (`ScriptInStep`), what the place of `submit_job` says of the charge
(`ChargeInStep`) and that a job goes on only from a funded escrow (`JobInStep`).  A
process is never taken for another's (`OwnProcess`), and one that runs on after its
job has gone on alone can no longer change what was concluded from it.
`JobsEndSquare` (`SettledSquare`, for `Overlap = FALSE`), from `SquareInv`: until the
coordination layer has a job, its books follow from where `submit_job` is
(`SubmissionSquare`); afterwards `submit_job` is done and they follow from where the one
`complete_job` is that works on it (`CompletionSquare`), since callbacks come one by one
(`OneByOne`).  A restart touches no job at rest and disturbs all others.  That overlap
is needed as an assumption is what `rewarded_twice` shows.  Further:

- `UsersPayForWhatRan`: from `SquareIsSettled`, and from what every step keeps (`Conserved`):
  the balance is the deposit less the sum of charges over refunds.  So at rest what is
  missing is the number of jobs that run or completed (`SumCounts`);
- `RewardsComeOnce`: `RewardedOnce`, the property `rewarded_twice` refutes, holds when callbacks
  do not overlap *and* the service is not restarted.  From `OnceInv`: a job that is
  rewarded and still RUNNING is in the hands of the one `complete_job` that will write
  its status.  TLC refutes it without overlap as soon as a restart may fall between
  the reward and that write: both premises are needed, no others are;
- `SubmissionsNeverStick`: from `WaitInv`: a process is started by the very step of
  `submit_job` that then waits for it, and says how it ended with its last transaction.
  So at every await a guard holds, without the timeout of 120 s;
- `ServiceIsTyped`: the type invariant, from all of these.

**`ArbiterSelectionProofs`.**  `IInv` is the typing, the pool (`PoolIndexed`: `PoolExact`
without the ether; `unregisterArbiter` swaps the last arbiter into the gap; `Funded`,
beside it, is the ether) and, per
invocation, `Proper`: a vote is shown only once the time to commit is over (`Timely`),
it opens its commitment (`Opened`), what was counted are votes that no longer change
(`Counted`), and the panel is odd and holds no party (`Impartial`).  From it:

- `PoolStaysExact`, `JudgesAreStrangers`, `MajorityRules`: the invariants;
- `VotingIsBlind`: the action property, from `Timely`;
- `MajoritiesAreFinal`: two majorities of one panel would share a vote (`OneMajority`), and
  votes are only added (`VotesAreAdded`).  This is why `_tally` may return the first output
  with the highest count, and why it does not matter when `finalize` is called;
- `VerdictsAreTrue`: a hung panel has no majority, a ruling names the only one; after
  `finalize` no vote is added any more;
- `CooldownHolds`: from `Diary` beside it.  A panel leaves its date with every pair of an
  arbiter and a party (`Recorded`), dates only grow, and two panels that share a pair
  lie a cooldown apart whichever was drawn first (`Rested`);
- `ArbitersAreTyped`: the type invariant, from all three;
- `RegistryArbitrates`: drawing is `Convene`, a commitment casts the ballot its digest
  stands for (`BallotOf`), a reveal shows it, `finalize` rules or hangs; both modules
  count the same votes, and deadlines and pool are steps the court does not notice.

**`ReputationProofs`.**  `HonestIsNeverGuilty`, from `Books`: what is credited lies before
the running cycle, and guilt is booked to the running one.  `TheGuiltyLost`, from
`Condemned`: behind guilt is an arbitration that has ruled, and what has been ruled does
not change.  `RegistryIsConduct` is the
refinement the accumulator relies on.  `SummariesAgree`, from `Summaries`: what the
contract keeps of a node (score, counters, last reset) says of its two mappings what
they hold, since a cycle enters each of them once and guilt is booked to the running
one, so the reset names the last guilty cycle.  `NoCycleCountsTwice` follows: both mappings
lie in `0..cycle` and share nothing.  `RegistryIsTyped` is its typing.

**`SumTheorems`.**  What the sum of a function with a finite domain is when one of its
values changes (`SumOfUpdate`, `SumOfExcept`), when all are zero or equal, when they grow,
that a sum of zeros and ones counts the ones (`SumCounts`), and that a sum of natural numbers covers each of them.  The fold behind `SumFunction` is
recursive; that it has a value at all, and each fact about it, goes by induction over
the subsets of the domain (`SubsetInduction`), itself derived from the well-foundedness
of the natural numbers, since the induction theorems of the library cannot be cited.

**`FundsProofs`, the rewards.**  `PaidOnMerit`, from `Ledger` and `Earned`: items are only
appended, so counts only grow; an ended cycle collects no more guilt; so what was paid
stays earned.  `SettlementIsFinal` is the action property.  `EscrowsPayOnce`
(`PaidWhatWasReleased`), from `Account`: a list is `Untouched` until it is settled, so
a release, which pays what is accrued, pays exactly the items it marks.
`LedgerIsTyped`, its typing, adds `Accrued`: no item is for nothing.

**`FundsProofs`, the stakes.**  `UnbondingIsOutOfReach` (`UnbondingReturnsWhole`): an unbonding
amount leaves only to its node, whole, and not before the deadline that was set when
it was unstaked, which no step in between moves (`UnbondingStep`, what a step does to
the unbonding part of one node).  `Shape` is the typing that lets a step on one node leave the
others alone.  `StakesAreHeld` (`BooksBalance`) and `StakesAreBounded` (`StakingTypeOK`), from
`Balanced`: no stake is negative, the contract holds the sum of the stakes, and contract,
owner and wallets together hold what the nodes brought (`OneNodeBalances`: it is
enough that the changes of a step cancel out).

**`TextQuorumProofs`.**  `Kinds` says once what a step does to the decision; most steps
are `Quiet`, and each invariant is then proved over the other eight kinds.  From it:

- `SuccessIsBacked` (`SuccessHasQuorum`), from `Backed`: a result or verdict that is
  stored, and the copy a handler counts with, were answered (`Sourced`, `Noted`), answers
  are only added (`AnsweredStays`), and so who confirms a winner has answered it
  (`WinnerSupported`), however old the reads are that were counted;
- `DecisionsAreTaken` (`NoLostDecision`), from `InHand`: while a decision is due some handler
  is at a place from which it will count, or write what it has counted;
- `FinalizersAgree` (`OutcomesAgree`), from `Agreement`: as long as no node has answered
  twice, the leader's result is written once and before any handler counts with it, a
  verdict takes nobody's win away (`WinsStay`), and there is `OneWinner`, since two thirds
  of a quorum and two thirds of it meet.  So what a handler is about to tell is still
  true when it tells it (`Counts`), and whatever has been told stays true (`Told`).
  Section 5 (*Second leader answer*) is where the premise fails.

**`ServiceProofs`, the bridge.**  `BridgeIsTyped`, and `BridgeAnswersMatch` from `InStep`: whoever
drains, reads or listens holds the lock (`OneReader`), and there is at most one line
in a pipe or one command being worked at, which is that of a reader (`InputInStep`,
`WorkInStep`, `OutputInStep`); a process that does not run leaves nothing behind
(`StoppedInStep`).  This is what the numbers that nobody checks would be for.
`OnlyListenersHoldTheLock` is the guard form of `OnlyListenersHang`, from `LockInv`: who waits is in
the queue of the lock exactly once (`QueueInStep`), and the line of a reader whose process
runs is in a pipe or being worked at (`Served`).  So the head of the queue can go on, or
its process can, or it listens to a process it never asked: that of `bridge_hangs`.

**`ClientProofs`, the account.**  Arguments that share little, since a step of one part
leaves the others alone:

- `CreditsArePaid` (`CreditsArePaidFor`), from `Purchases`: of the attempts of a transfer to tell
  the service, each has credited the account, may still do so (`late`), or never will;
  the one under way does not count yet (`Sound`).  So what is credited is never more than
  the attempts, and only the modal has a second one; and it was `Creditable`: the chain
  keeps a mined transfer, and its wallet, for good, whatever a component was configured
  with.  `Refundable` is the same of disputes: a call that is to be refunded has found
  evidence, and is at its end when it has been;
- `OneJobIsSealed` (`OneSealedJob`), from `Agents`: where a call is among the awaits of its
  program says whether its key is stored (`KeyStored`), for whom (`Chosen`), and whether its
  job is made (`Ordered`).  That each program goes on to its own next await, in the order of
  `Steps`, is a lemma per program;
- `MessagesAreTruthful` (`TruthfulMessages`) adds `Counter` and `Errands`: the steps of a wrap that
  are shown as done are the first ones (`FirstDone`), and the chain is at most one ahead; a
  process that said success has sent all its transactions;
- `CallsRunOut` is the variant behind `EveryCallEnds`: `Left` of a call is the awaits ahead of it
  in its program (`Ahead`, one numbering for the SDK, the scripts and the wizard) and its
  attempts left; each `CallStep` lowers it, whatever the job does, and it starts at
  `MaxAttempts` + 11 at most.

**`ClientProofs`, the inference pages.**

- `SubmittedJobsAreCovered` (`JobsAreCovered`), from `Held`, what the place of `handleChatSubmit`
  says of the key and the escrow of its task, `Paid`, what every job was made with, and
  `Vaulted`, whose inputs the risk form has read back;
- `TraceIsTruthful` (`TraceTruthful`), from `Hooked`: a GET that is under way says accepted only of
  what is accepted, which stays so (`AcceptedStays`), and what is shown is of the watched
  request, so neither order nor loss of the answers matters;
- `HistoryIsInStep` (`HistoryRemembers`) and `SettledEntriesStay` (`SettledStays`), from `Chatting`: the
  page and the history agree on every settled entry but those auto-decryption took over
  (`View`), and nobody decrypts the entry the handler is at.  What the four effects of a commit
  do to the two is `EffectsView`, for whatever entries and history the step before has made.

**`ClientProofs`, the operators.**  `AgreeingReaderOpens` and `DisagreeingReaderThrows`: for every
payload and key, a reader opens what was sealed if and only if it takes the writer's
length of vector.  `ProjectionMirrorsContract`: the client's projection, whose comment
says that it mirrors the contract, does so wherever the contract finds a price;
`PayoutIsCovered`: a payout never passes the coverage.

Assumed: the constants' assumptions (among them finitely many arbiters,
verifiers and staking nodes, and a positive minimum stake), that hashing is injective (a digest *is* its preimage), and
that AES-GCM opens nothing but what was sealed.  Of the composed registries the one
below is its abstract specification, whose implementation is a theorem too:
`Refinement`, `RegistryArbitrates` and `RegistryIsConduct` are the links of the chain.

Only model-checked: `NeverStuck` as it stands (ENABLED; its guards are proved); all
liveness (`EventuallyDecided`, `EventuallyAnswered`, `EventuallyRevealed`, `CreditsAreShown`,
`EveryCallEnds`, `OnlyListenersHang`), of which the guards are proved for the bridge and for
`submit_job` and the variant for the calls, not that what can go on does; and what a
recursive operator computes (`KeySurvivesItsHalves`).  Every other property of a passing run is a theorem.


## 5. Disagreements between code and documents

Two are runs that TLC refutes:

- **`rewarded_twice`.**  `complete_job` logs "already finalized ... skipping" for a
  job that is not running (`P/payment/services/job_service.py:281`), but writes the
  status after the rewards.  Two callbacks that overlap reward the nodes twice;
  the ICL repeats a callback whose answer takes more than 30 s.
- **`bridge_hangs`.**  `_read_response_line` takes the end of the stream for an error
  ("EOF – process probably died", `cofhe_bridge.py:193`), but asks for the process
  again first (`:185`).  When the bridge has died and `drain()` has yielded, the end is
  noticed in between, a new process is started, and the call reads from one it has
  never written to: it waits for ever and holds the lock of all others.

Others were met while modelling.  The models contain the behaviour; the properties
are stated so that they leave it out, and say so.

### Contracts and services

- *Outvoted leader.*  "Leader disagrees with both | REJECTED"
  (`ARCHITECTURE.md:275`); the tally takes whichever hash two of three share
  (`quorum_service.py:1411`), and the success carries the verifiers' hash with the
  leader's output.  (`Tally`, `Accept`.)
- *Lost rejection.*  "Leader + 0 verifiers match | REJECTED" (`ARCHITECTURE.md:274`);
  the rejecting update (`quorum_service.py:1461`) sets a column that
  `supabase_schema.sql:12-56` does not create, fails, and leaves the request queued.
  (`Reject`, with `setting.column`.)
- *Zero handle.*  `ReputationRegistry.sol:143` takes a revealed `bytes32(0)` for
  silence, so an arbiter who voted `bytes32(0)` with the majority can be recorded
  as ARBITER_NO_REVEAL, although `P/contracts/test/unit/ReputationRegistry.t.sol:172`
  expects a revert for an honest arbiter.  (`RevealedNothing` in `Reputation`.)
- *Stranded accrual.*  `accrue` (`RewardAccumulator.sol:68`) does not look whether
  the cycle is settled; an item added afterwards can never be released.
- *Second leader answer.*  `submit_text_leader_result` overwrites `output_cid`
  (`quorum_service.py:951`) after verifiers have judged the first one: a leader both
  verifiers matched may be rejected, and an accepted request may show another
  output.  `OutcomesAgree` speaks of single answers for that reason.
- *Failed after delivery.*  `submit_text_verifier_verdict` (up to
  `quorum_service.py:1108`) does not complete the assignment; a poll after five
  minutes fails it with "no result received" (`:1887`).
- *All failed, yet accepted.*  `_mark_node_assignment_failed` closes the request
  (`quorum_service.py:1936` ff.) without looking at the status again.
- *Silent leader.*  Only the silent node's own poll expires its claim
  (`quorum_service.py:1881`); `SETTLEMENT.md:159` promises the rejection of the job.
- *Paid and refunded.*  `submit_job` gives up after three unanswered forwards and
  refunds (`job_service.py:216`), although the ICL may have the job; a callback that
  has passed its guard then rewards the nodes as well (cf. `:269`-`:270`).
- *Escrow refunded in credits.*  `payment_mode` is dropped from the stored record
  (`job_service.py:167`), so `complete_job` takes every job for credits mode and
  refunds credits an escrow job never cost (cf. `:365`, `SETTLEMENT.md:249`).
- *Lost refund.*  A failing refund is logged (`job_service.py:374`) and the job is
  closed as refunded; `updates.md:13` says that credits are refunded.
- *Third failure.*  `BlindferenceStaking.sol:165` takes the whole stake;
  `SETTLEMENT.md:156` says 10%.
- *Orphaned escrows.*  The program that creates an escrow is killed by its starter
  only (`chain_service.py:154` ends `npx`), so an escrow may be created and funded for a
  job that was refunded; refunded jobs leave theirs funded; the `escrow_id` that a job
  in escrow mode brings is never looked up.
- *Programs that pretend.*  `file_dispute.ts:11` prints "false" if a dispute was not
  filed; `:76-80` prints "true" then as well.  `purchase_insurance.ts:99-107` prints the
  id of a coverage that does not exist.  `TruthfulMessages` leaves out the first;
  nothing in the repository starts it.
- *Slow leader.*  A verifier asks for the leader's result for half a minute and then
  fails (`text_handler.py:388`); its worker logs that and drops the task
  (`worker.py:44-53`), and a push that does not arrive is only logged
  (`quorum_service.py:1816`).  Nothing pushes the task again until the node is started
  anew, so a leader that takes longer, or is pushed to later, leaves the request queued
  although every node is up.  (`AskForLeaderResult`, `Drop`; `EventuallyDecided` speaks of
  nodes that are not `Silent`.)
- *Several disputes.*  "Check if already disputed" (`P/icl/routers/inference.py:306`) looks
  for "disputed", but a dispute that is upheld writes "disputed_resolved" (`:338`), so
  another one is refunded as well, and so are two that overlap.  `CreditsArePaidFor` allows
  one refund for each.  As shipped none is reached: the update sets columns
  (`dispute_evidence` and others) that `supabase_schema.sql` does not create.  With the
  columns, "disputed_resolved" is not among the values of `response_models.py:99`, so the
  request can no longer be read; and what is refunded is the amount the caller of the
  request has put into its metadata.
- *Wallets configured apart.*  The wallets the components pay and those the service
  looks for are separate settings; a transfer to another wallet is mined and never
  credited.  (`bound.astray`.)
- *Credited twice.*  `process_deposit` (`credit_service.py:44`) and the purchase of a
  package remember no transaction; the modal's five attempts credit a deposit again
  when a reply was lost.  `CreditsArePaidFor` allows exactly that.
- *Text tasks of the node.*  `text_handler.py:52` uses `job_id`, `:83` `prompt` and
  `:98` `verifier_address`, none of which is defined there: as it stands a text task
  fails after the model ran.  `TextQuorum` models the handlers as they are meant.
- *No POST for the preview.*  `agent.ts:213` and `client.ts:190` of the SDK post to
  `/v1/inference/quorum-preview`, which the ICL serves as GET only
  (`P/icl/routers/inference.py:70`); the key is on the chain by then.
- *Bridge.*  A store that is reported as failed may have been mined; a task whose
  bridge died is dropped; the operators of one host share
  `~/.blindference-cofhe/localstorage.json`, which is not written atomically.

### Payloads

The packed payload does not say how long its vector is.  Nodes and both shared
packages use 16 bytes (`P/shared-py/blindference_utils/aes.py:33`, "IV must be 16
bytes"); `InferenceNewPage.tsx:103`, the SDK (`encryption.ts:15`) and the gateway script
use 12; `TextInferenceWizard.tsx:490` seals with 16 and its answers are opened with 12
(`textPromptKey.ts:175`).  By `DisagreeingReaderThrows` a node opens no prompt of the
inference page, of the SDK or of the gateway script, and no page opens a node's
answer.  `AgentSdk` follows this: where the lengths differ, nobody completes the job.

### Pages

- *Answer of the job before.*  `useInferenceStatus.ts:319-320` resets the status "so
  the UI doesn't briefly show the previous inference's completed state"; the reset is
  an effect, and the effects of `useChat` of the same commit still see the old one
  (`useChat.ts:76`).  The second entry of a chat is given the answer of the job before
  it.  `SettledStays` leaves this entry out (`OnlyItsOwn`).
- *Forgotten entry.*  A message sent before the answer to the last one stays
  "processing" for ever: the chat watches one request.
- *Charged with an error.*  When the reply to a submission is lost, the entry says
  error and the job runs; sending again is charged again.  When the quorum is gone
  after the escrow was funded (`InferenceNewPage.tsx:418` ff.), the escrow is orphaned.
- *Stage that goes back.*  `deriveStage` (`useInferenceStatus.ts:79-85`) returns from
  VERIFYING to EXECUTING when the last verdict is in; late GETs do the same.  The
  trace shows "encrypt" pending behind "icl" done while an escrow is made.
- *History.*  Automatic decryption writes to the history under the id of the request,
  the entries stand under that of the message (`useChat.ts:115`).  Risk entries never
  leave "processing".
- *Error beside the answer.*  A manual decryption that succeeds leaves the error of
  the attempt before (`InferenceStatusPage.tsx:126-146`, shown at `:437`).  Feedback
  once submitted counts for the next request shown by the same page.
- *Paid and not credited.*  `BuyCreditsPage` forgets the hash of its transfer when the
  receipt or the notification fails; `deposit` of the SDK never notifies.
- *Escrow of the account before.*  `reineiraSdk.ts:64` answers every call with the first
  SDK it made, and `clearReineiraSdkCache` has no caller: after a change of account an
  escrow is created and paid by the account before, while `useWrapUSDC.ts:107` makes the
  new one its owner.  Read off the code only: `TokenDesk` has one account.
- *Approval.*  The purchase is a `transfer`; the approval it asks for is never used,
  and the cached allowance keeps the button disabled after it.
- *Balance.*  A late GET overwrites a newer push until the next one
  (`useCredits.ts:23-29`).  The timer of an old deposit closes a modal opened since
  (`DepositModal.tsx:106-109`).
- *SDK.*  A second call does not wait for the connection the first has begun, and a
  connection that failed is kept (`agent.ts:158-174`).  REFUNDED comes through
  `{ status: 'FAILED', ...data }` (`:436`).  `infer` decrypts with the key of the prompt
  (`:443`) what a node has sealed with one of its own (`worker.py:259`), although
  `docs/build/sdk-api.mdx:83` promises the plaintext.  `infer` admits its own wallet only; the
  gateway script and the wizard fall back to theirs when there is no preview.


## 6. Not modelled, and why

- Encryption, FHE, IPFS, inference: an output is a value, a hash its preimage.  Of
  encryption only what packing must preserve is modelled (`Envelope`).
- Administration of the contracts (initializers, upgrades, address setters) beyond
  the roles that guard a modelled call.
- Prices: every job costs one credit in one currency; a package is a name.
- The risk path of the ICL behind its HTTP interface, node selection,
  coverage beyond what a dispute reads, the registries of nodes, attestations, tickets, agents and
  prompt keys, the payout resolvers and the policy adapter: not yet.  Nodes,
  registries and resolvers keep single records; the risk path is the one that would
  add an interleaving of its own.
- Landing, documentation and dashboard pages, the tutorial, animations: no state that
  a property could be about.  They are a quarter of the TypeScript.
- `network/protocol/packages`: an earlier copy of the contracts and of the node, but
  for the trading signal.
- Known bounds of the models: a node claims a request once (the 15 s cache of
  `_get_pending_assignments`, which may offer it again, is left out), in `TextQuorum`
  nodes are started again but the service is not, overlapping callbacks are in `rewarded_twice` only, a page of the chat
  is visited once, one GET of the balance is under way at a time, and the account of
  `ClientAccount` only grows (what is spent is in `JobSettlement`).
- Hazards met and not covered by a property, beside those `PROJECT.json` lists: an
  accrual after its cycle was settled; `_accrue_rewards` going on after a failure
  (`quorum_service.py:2203`) and being started twice (`:1196`); the all-failed check two
  awaits before its write (`:1936`); a verdict that does not complete its assignment
  (`:1108`); expiry driven by the silent node (`:1881`); the assignment cache (`:1856`);
  a restart between the last verdict and the finalizing (`:1108`); a callback given up
  after three attempts (`:2159`); a forward sent again creating a second request
  (`:350`) or received by a service that did not answer (`job_service.py:193`).


## 7. Plan

Done: the four registries of the arbitration chain with their abstract
specifications, staking, the text quorum, the settlement of jobs with its programs,
the inference and account pages, the SDK, the bridge, the payloads; the proofs of
section 4.

Left, in this order:

1. *Risk path* of the quorum service (`commit_request`, `_attempt_finalize_request`,
   `submit_dispute`, `attach_permit`) with `_accrue_rewards` over `RewardAccumulator`:
   no double accrual, no accrual stranded behind a release.
2. *TextQuorum over JobSettlement*: callbacks as messages, so that what the payment
   service pays is what the quorum decided; *InferenceClient over JobSettlement*, in
   place of the job that ends by itself.
3. *Selection*: the choice of nodes, the assignment cache, repeated claims, heartbeats;
   `NodeRegistry` and the attestation registry.
4. *Payout*: `ResultRegistry`, `PayoutClaimer` and `InferenceGate` composed, against an
   abstract "each accepted result pays each node once".
5. `PromptKeyStore`, `ModelCallTicketRegistry` and the node's `InferenceJob` aggregate.

Theorems to prove: those of the modules above, as they come.
